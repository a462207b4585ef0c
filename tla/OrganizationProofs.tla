--------------------------- MODULE OrganizationProofs ---------------------------
(***************************************************************************)
(* Theorems about Organization, for any number of users, sessions and      *)
(* requests.                                                                *)
(***************************************************************************)
EXTENDS Organization, FiniteSetTheorems, TLAPS

-----------------------------------------------------------------------------
(* Types.                                                                     *)

(* None and Free are of these types, and a changed field keeps them.            *)
LEMMA NoneAndFree == None \in Row /\ Free \in Doing
BY OrganizationTypes DEF None, Free, Row, Doing

LEMMA FieldChanges ==
  /\ \A row \in Row, status \in Closed : [row EXCEPT !.status = status] \in Row
  /\ \A d \in Doing, step \in {"nothing", "target", "pending", "insert"} :
       [d EXCEPT !.does = step] \in Doing
BY DEF Row, Doing

(* The two updates of one field.                                                *)
LEMMA StatusIsSet ==
  ASSUME request \in [Request -> Row], NEW r, NEW status \in Closed, SetStatus(r, status)
  PROVE  request' \in [Request -> Row]
<1>1. request' = [q \in Request |-> IF q = r THEN [request[q] EXCEPT !.status = status]
                                   ELSE request[q]]
  BY DEF SetStatus
<1> QED
  BY <1>1, FieldChanges

LEMMA SessionGoes ==
  ASSUME session \in [Session -> Doing], NEW s,
         NEW step \in {"nothing", "target", "pending", "insert"}, Goes(s, step)
  PROVE  session' \in [Session -> Doing]
<1>1. session' = [t \in Session |-> IF t = s THEN [session[t] EXCEPT !.does = step]
                                   ELSE session[t]]
  BY DEF Goes
<1> QED
  BY <1>1, FieldChanges

(* The initial state is well typed.                                             *)
LEMMA InitTypeOK == Init => TypeOK
<1> SUFFICES ASSUME Init PROVE TypeOK
  OBVIOUS
<1>1. request \in [Request -> Row] /\ session \in [Session -> Doing]
  BY NoneAndFree DEF Init
<1>2. created \in 0 .. MaxRequests /\ due \subseteq Request /\ refused \subseteq 0 .. MaxRequests
  BY OrganizationTypes DEF Init
<1> QED
  BY <1>1, <1>2 DEF Init, TypeOK

(* Every step keeps every variable well typed.                                  *)
LEMMA NextTypeOK == TypeOK /\ [Next]_vars => TypeOK'
<1> SUFFICES ASSUME TypeOK, [Next]_vars PROVE TypeOK'
  OBVIOUS
<1> USE OrganizationTypes, NoneAndFree
    DEF TypeOK, members, requests, Does, Leaves
<1>a. \A row \in Row : row.from \in User \cup {NoRole} /\ row.to \in User \cup {NoRole}
  BY DEF Row
<1>b. \A d \in Doing : /\ d.user \in User \cup {NoRole} /\ d.to \in User \cup {NoRole}
                       /\ d.r \in 0 .. MaxRequests
  BY DEF Doing
<1>1. CASE DeleteOrganization
  <2>1. request' \in [Request -> Row] /\ session' = session
    BY <1>1 DEF DeleteOrganization
  <2>2. role' \in [User -> Role \cup {NoRole}] /\ exists' \in BOOLEAN
    BY <1>1 DEF DeleteOrganization
  <2>3. created' = created /\ due' \subseteq Request
    BY <1>1 DEF DeleteOrganization
  <2>4. refused' \subseteq 0 .. MaxRequests
    <3>1. refused' \subseteq refused \cup {0}
      BY <1>1 DEF DeleteOrganization
    <3>2. 0 \in 0 .. MaxRequests /\ refused \subseteq 0 .. MaxRequests
      OBVIOUS
    <3> HIDE DEF TypeOK
    <3> QED
      BY <3>1, <3>2
  <2> QED
    BY <2>1, <2>2, <2>3, <2>4
<1>2. ASSUME NEW u \in User, CreateOrganization(u) PROVE TypeOK'
  BY <1>2 DEF CreateOrganization, Role
<1>3. ASSUME NEW u \in User, NEW new \in Role \cup {NoRole},
             role' = [role EXCEPT ![u] = new], UNCHANGED <<exists, requests, session, refused>>
      PROVE TypeOK'
  BY <1>3
<1>4. ASSUME NEW u \in User, NEW new \in Role,
             RemoveMember(u) \/ AddMember(u, new) \/ UpdateMember(u, new)
      PROVE  TypeOK'
  BY <1>3, <1>4 DEF RemoveMember, AddMember, UpdateMember
<1>5. ASSUME NEW s \in Session, NEW u \in User, NEW to \in User, CheckOwner(s, u, to)
      PROVE  TypeOK'
  <2>1. [does |-> "target", user |-> u, to |-> to, r |-> 0] \in Doing
    BY DEF Doing
  <2> QED
    BY <1>5, <2>1 DEF CheckOwner
<1>6. ASSUME NEW s \in Session, CheckTarget(s) PROVE TypeOK'
  BY <1>6, SessionGoes DEF CheckTarget
<1>7. ASSUME NEW s \in Session, CheckPending(s) PROVE TypeOK'
  BY <1>7, SessionGoes DEF CheckPending
<1>8. ASSUME NEW s \in Session, InsertRequest(s) PROVE TypeOK'
  <2>1. [from |-> session[s].user, to |-> session[s].to, status |-> "pending"] \in Row
    BY <1>b DEF Row
  <2>2. created' \in 0 .. MaxRequests
    BY <1>8 DEF InsertRequest
  <2> QED
    BY <1>8, <2>1, <2>2 DEF InsertRequest
<1>9. ASSUME NEW s \in Session, AcceptTransfer(s) PROVE TypeOK'
  <2>1. refused' \subseteq refused \cup {session[s].r} /\ UNCHANGED <<exists, created, due>>
    BY <1>9 DEF AcceptTransfer
  <2>a. refused' \subseteq 0 .. MaxRequests
    BY <1>b, <2>1
  <2>2. request' \in [Request -> Row]
    BY <1>9, StatusIsSet DEF AcceptTransfer, Closed
  <2>3. role' \in [User -> Role \cup {NoRole}]
    BY <1>9 DEF AcceptTransfer, Role
  <2>4. session' \in [Session -> Doing]
    BY <1>9 DEF AcceptTransfer
  <2> QED
    BY <2>1, <2>a, <2>2, <2>3, <2>4
<1>10. ASSUME NEW s \in Session, CloseTransfer(s) PROVE TypeOK'
  <2>1. request' \in [Request -> Row]
    BY <1>10, StatusIsSet DEF CloseTransfer, Closed
  <2> QED
    BY <1>10, <2>1 DEF CloseTransfer
<1>11. ASSUME NEW s \in Session, NEW r \in Request, ReadTransfer(s, r) PROVE TypeOK'
  <2>1. \A u \in User \cup {NoRole}, what \in {"accept", "reject", "cancel"} :
          [does |-> what, user |-> u, to |-> NoRole, r |-> r] \in Doing
    BY DEF Doing, Request
  <2>2. PICK u \in User \cup {NoRole}, what \in {"accept", "reject", "cancel"} :
          Answer(s, r, u, what)
    BY <1>a, <1>11 DEF ReadTransfer
  <2> QED
    BY <1>11, <2>1, <2>2 DEF ReadTransfer, Answer
<1>12. ASSUME NEW s \in Session, NEW r \in Request, AcceptExpired(s, r) PROVE TypeOK'
  BY <1>12 DEF AcceptExpired, vars
<1>13. ASSUME NEW r \in Request, Expire(r) PROVE TypeOK'
  BY <1>13 DEF Expire, Pending
<1>14. CASE UNCHANGED vars
  BY <1>14 DEF vars
<1>15. Role # {}
  BY DEF Role
<1> QED
  BY <1>1, <1>2, <1>4, <1>5, <1>6, <1>7, <1>8, <1>9, <1>10, <1>11, <1>12,
     <1>13, <1>14, <1>15 DEF Next

(* Every reachable state is well typed; in particular no request ends in the     *)
(* statuses accepted and expired.                                                *)
THEOREM TypeCorrect == Spec => []TypeOK
BY InitTypeOK, NextTypeOK, PTL DEF Spec

-----------------------------------------------------------------------------
(* The owner.                                                                  *)

(* While there is no organization there are no members, and then one owner.     *)
OwnerInv ==
  /\ exists => \E u \in User : Owners = {u}
  /\ ~exists => \A u \in User : role[u] = NoRole

(* A step of the members keeps the owner: what the trigger and the index permit  *)
(* takes the role from nobody and gives it to nobody else.                       *)
LEMMA PermittedKeepsOwner ==
  ASSUME TypeOK, NEW u \in User, NEW new \in Role \cup {NoRole},
         exists, OwnerInv, Permitted(u, new),
         role' = [role EXCEPT ![u] = new]
  PROVE  \E v \in User : Owners' = {v}
<1>1. PICK v \in User : Owners = {v}
  BY DEF OwnerInv
<1>2. \A w \in User : role[w] = "owner" <=> w = v
  BY <1>1 DEF Owners
<1>3. \A w \in User : role'[w] = IF w = u THEN new ELSE role[w]
  BY DEF TypeOK
<1>4. CASE new = "owner"
  <2>1. v = u
    BY <1>1, <1>4 DEF Permitted, NoOtherOwner
  <2> QED
    BY <1>2, <1>3, <1>4, <2>1 DEF Owners
<1>5. CASE new # "owner"
  <2>1. v # u
    BY <1>1, <1>2, <1>5 DEF Permitted, LastOwner
  <2> QED
    BY <1>2, <1>3, <1>5, <2>1 DEF Owners
<1> QED
  BY <1>4, <1>5

(* An accepted transfer that is neither refused by the trigger nor by the index   *)
(* leaves the owner in place as well.                                             *)
LEMMA AcceptKeepsOwner ==
  ASSUME TypeOK, OwnerInv, NEW s \in Session, AcceptTransfer(s)
  PROVE  OwnerInv'
<1> DEFINE from == request[session[s].r].from
           to == request[session[s].r].to
           demoted == IF role[from] = NoRole THEN role
                      ELSE [role EXCEPT ![from] = "admin"]
           others == {u \in User \ {to} : demoted[u] = "owner"}
<1>1. CASE LastOwner(from) \/ (demoted[to] # NoRole /\ others # {})
  BY <1>1 DEF AcceptTransfer, OwnerInv, Owners, members
<1>2. CASE ~(LastOwner(from) \/ (demoted[to] # NoRole /\ others # {}))
  <2>1. /\ exists' = exists
        /\ role' = IF demoted[to] = NoRole THEN demoted
                   ELSE [demoted EXCEPT ![to] = "owner"]
    BY <1>2 DEF AcceptTransfer
  <2>2. CASE ~exists
    <3>1. \A u \in User : demoted[u] = NoRole
      BY <2>2 DEF OwnerInv, TypeOK
    <3>2. \A u \in User : role'[u] = NoRole
      BY <2>1, <3>1 DEF TypeOK
    <3> QED
      BY <2>1, <2>2, <3>2 DEF OwnerInv
  <2>3. CASE exists
    <3>1. PICK v \in User : Owners = {v}
      BY <2>3 DEF OwnerInv
    <3>2. \A u \in User : role[u] = "owner" <=> u = v
      BY <3>1 DEF Owners
    <3>3. v # from
      BY <1>2, <3>1, <3>2 DEF LastOwner
    <3>4. \A u \in User : demoted[u] = "owner" <=> u = v
      BY <3>2, <3>3 DEF TypeOK
    <3>5. demoted[to] # NoRole => v = to
      BY <1>2, <3>4
    <3>6. demoted \in [User -> Role \cup {NoRole}]
      BY DEF TypeOK, Role
    <3>7. \A u \in User : role'[u] = "owner" <=> u = v
      BY <2>1, <3>4, <3>5, <3>6
    <3>8. Owners' = {v} /\ exists'
      BY <2>1, <2>3, <3>7 DEF Owners
    <3> QED
      BY <3>8 DEF OwnerInv
  <2> QED
    BY <2>2, <2>3
<1> QED
  BY <1>1, <1>2

(* A deletion finds an owner whose row the trigger protects.                      *)
LEMMA DeletionIsRefused ==
  ASSUME OwnerInv, DeleteOrganization
  PROVE  UNCHANGED <<members, requests, session>>
<1>1. PICK u \in User : Owners = {u}
  BY DEF OwnerInv, DeleteOrganization
<1>2. LastOwner(u)
  BY <1>1 DEF LastOwner, Owners
<1> QED
  BY <1>2 DEF DeleteOrganization

(* Every step keeps the owner.                                                    *)
LEMMA NextOwnerInv == TypeOK /\ OwnerInv /\ [Next]_vars => OwnerInv'
<1> SUFFICES ASSUME TypeOK, OwnerInv, [Next]_vars PROVE OwnerInv'
  OBVIOUS
<1>1. ASSUME UNCHANGED members PROVE OwnerInv'
  BY <1>1 DEF OwnerInv, Owners, members
<1>2. CASE DeleteOrganization
  BY <1>1, <1>2, DeletionIsRefused
<1>3. ASSUME NEW u \in User, CreateOrganization(u) PROVE OwnerInv'
  <2>1. exists' /\ \A w \in User : role'[w] = IF w = u THEN "owner" ELSE NoRole
    BY <1>3 DEF CreateOrganization, TypeOK, OwnerInv
  <2>2. Owners' = {u}
    BY <2>1, OrganizationTypes DEF Owners
  <2> QED
    BY <2>1, <2>2 DEF OwnerInv
<1>4. ASSUME NEW u \in User, NEW new \in Role \cup {NoRole}, exists, exists' = exists,
             Permitted(u, new), role' = [role EXCEPT ![u] = new]
      PROVE  OwnerInv'
  <2>1. \E v \in User : Owners' = {v}
    BY <1>4, PermittedKeepsOwner
  <2> QED
    BY <1>4, <2>1 DEF OwnerInv
<1>5. \A u \in User : role[u] # NoRole => exists
  BY DEF OwnerInv, TypeOK
<1>6. ASSUME NEW u \in User, RemoveMember(u) PROVE OwnerInv'
  BY <1>4, <1>5, <1>6 DEF RemoveMember
<1>7. ASSUME NEW u \in User, NEW new \in Role, AddMember(u, new) PROVE OwnerInv'
  BY <1>4, <1>7 DEF AddMember
<1>8. ASSUME NEW u \in User, NEW new \in Role, UpdateMember(u, new) PROVE OwnerInv'
  BY <1>4, <1>5, <1>8 DEF UpdateMember
<1>9. ASSUME NEW s \in Session, AcceptTransfer(s) PROVE OwnerInv'
  BY <1>9, AcceptKeepsOwner
<1>10. ASSUME NEW s \in Session,
              \/ \E u \in User, to \in User : CheckOwner(s, u, to)
              \/ CheckTarget(s) \/ CheckPending(s) \/ InsertRequest(s)
              \/ CloseTransfer(s)
              \/ \E r \in Request : ReadTransfer(s, r) \/ AcceptExpired(s, r)
       PROVE  OwnerInv'
  BY <1>1, <1>10 DEF CheckOwner, CheckTarget, CheckPending, InsertRequest,
     CloseTransfer, ReadTransfer, AcceptExpired, vars
<1>11. ASSUME NEW r \in Request, Expire(r) PROVE OwnerInv'
  BY <1>1, <1>11 DEF Expire
<1>12. CASE UNCHANGED vars
  BY <1>1, <1>12 DEF vars
<1> QED
  BY <1>2, <1>3, <1>6, <1>7, <1>8, <1>9, <1>10, <1>11, <1>12 DEF Next

(* An organization has exactly one owner, whatever its members and any number of   *)
(* overlapping sessions do.                                                        *)
THEOREM ExactlyOneOwner == Spec => []OneOwner
<1>1. Init => OwnerInv
  BY DEF Init, OwnerInv
<1>2. OwnerInv => OneOwner
  BY FS_Singleton DEF OwnerInv, OneOwner
<1> QED
  BY <1>1, <1>2, InitTypeOK, NextTypeOK, NextOwnerInv, PTL DEF Spec

-----------------------------------------------------------------------------
(* Who asks.                                                                     *)

(* The owner of an organization stays its owner, whatever is tried.               *)
LEMMA OwnerStays ==
  ASSUME TypeOK, OwnerInv, [Next]_vars, NEW v \in User, role[v] = "owner"
  PROVE  role'[v] = "owner"
<1>1. exists /\ Owners = {v}
  BY OrganizationTypes DEF OwnerInv, Owners
<1>2. LastOwner(v)
  BY <1>1 DEF LastOwner
<1>3. \A u \in User : role[u] = "owner" <=> u = v
  BY <1>1 DEF Owners
<1>4. ASSUME UNCHANGED role PROVE role'[v] = "owner"
  BY <1>4
<1>5. CASE DeleteOrganization
  BY <1>4, <1>5, DeletionIsRefused DEF members
<1>6. ASSUME NEW u \in User, CreateOrganization(u) PROVE role'[v] = "owner"
  BY <1>1, <1>6 DEF CreateOrganization
<1>7. ASSUME NEW u \in User, NEW new \in Role \cup {NoRole}, Permitted(u, new),
             role' = [role EXCEPT ![u] = new], role[u] # new
      PROVE  role'[v] = "owner"
  <2>1. u # v
    BY <1>2, <1>3, <1>7 DEF Permitted
  <2> QED
    BY <1>7, <2>1 DEF TypeOK
<1>8. ASSUME NEW u \in User, NEW new \in Role,
             RemoveMember(u) \/ AddMember(u, new) \/ UpdateMember(u, new)
      PROVE  role'[v] = "owner"
  <2>1. CASE RemoveMember(u)
    BY <1>7, <2>1 DEF RemoveMember
  <2>2. CASE AddMember(u, new) \/ UpdateMember(u, new)
    BY <1>7, <2>2, OrganizationTypes DEF AddMember, UpdateMember, Role
  <2> QED
    BY <1>8, <2>1, <2>2
<1>9. ASSUME NEW s \in Session, AcceptTransfer(s) PROVE role'[v] = "owner"
  <2> DEFINE from == request[session[s].r].from
             to == request[session[s].r].to
             demoted == IF role[from] = NoRole THEN role
                        ELSE [role EXCEPT ![from] = "admin"]
             others == {u \in User \ {to} : demoted[u] = "owner"}
  <2>1. CASE LastOwner(from) \/ (demoted[to] # NoRole /\ others # {})
    BY <1>4, <1>9, <2>1 DEF AcceptTransfer, members
  <2>2. CASE ~(LastOwner(from) \/ (demoted[to] # NoRole /\ others # {}))
    <3>1. role' = IF demoted[to] = NoRole THEN demoted
                  ELSE [demoted EXCEPT ![to] = "owner"]
      BY <1>9, <2>2 DEF AcceptTransfer
    <3>2. v # from
      BY <1>2, <2>2
    <3>3. demoted[v] = "owner" /\ demoted \in [User -> Role \cup {NoRole}]
      BY <3>2 DEF TypeOK, Role
    <3> QED
      BY <3>1, <3>3
  <2> QED
    BY <2>1, <2>2
<1>10. ASSUME NEW s \in Session,
              \/ \E u \in User, to \in User : CheckOwner(s, u, to)
              \/ CheckTarget(s) \/ CheckPending(s) \/ InsertRequest(s)
              \/ CloseTransfer(s)
              \/ \E r \in Request : ReadTransfer(s, r) \/ AcceptExpired(s, r)
       PROVE  role'[v] = "owner"
  BY <1>4, <1>10 DEF CheckOwner, CheckTarget, CheckPending, InsertRequest,
     CloseTransfer, ReadTransfer, AcceptExpired, vars, members
<1>11. ASSUME NEW r \in Request, Expire(r) PROVE role'[v] = "owner"
  BY <1>4, <1>11 DEF Expire, members
<1>12. CASE UNCHANGED vars
  BY <1>4, <1>12 DEF vars, members
<1>13. Role # {}
  BY DEF Role
<1> QED
  BY <1>5, <1>6, <1>8, <1>9, <1>10, <1>11, <1>12, <1>13 DEF Next

Asks(s) == session[s].does \in {"target", "pending", "insert"}
Answers(s) == session[s].does \in {"accept", "reject", "cancel"}
Inserted == {r \in Request : request[r].status # "none"}

(* A session that is asking acts for the owner, a session that answers has a row that   *)
(* was inserted, every row that was inserted was asked for by the owner, and none is      *)
(* executed.                                                                              *)
AskInv ==
  /\ \A s \in Session : Asks(s) => session[s].user \in User /\ role[session[s].user] = "owner"
  /\ \A s \in Session : Answers(s) => session[s].r \in Inserted
  /\ \A r \in Inserted : request[r].from \in User /\ role[request[r].from] = "owner"
  /\ \A r \in Request : request[r].status # "completed"

(* An owner read in one step is the owner after the next one as well.                   *)
LEMMA AskersStay ==
  ASSUME TypeOK, OwnerInv, AskInv, [Next]_vars
  PROVE  /\ \A s \in Session :
              Asks(s) => session[s].user \in User /\ role'[session[s].user] = "owner"
         /\ \A r \in Inserted : request[r].from \in User /\ role'[request[r].from] = "owner"
BY OwnerStays DEF AskInv

(* A step of one session that leaves the requests alone.                                *)
LEMMA SessionSteps ==
  ASSUME TypeOK, OwnerInv, AskInv, [Next]_vars, NEW s \in Session, request' = request,
         NEW new, session' = [session EXCEPT ![s] = new],
         new.does \in {"target", "pending", "insert"} =>
            new.user \in User /\ role'[new.user] = "owner",
         new.does \in {"accept", "reject", "cancel"} => new.r \in Inserted
  PROVE  AskInv'
<1>1. \A t \in Session : session'[t] = IF t = s THEN new ELSE session[t]
  BY DEF TypeOK
<1>2. Inserted' = Inserted
  BY DEF Inserted
<1>3. \A t \in Session :
        Asks(t)' => session'[t].user \in User /\ role'[session'[t].user] = "owner"
  BY <1>1, AskersStay DEF Asks
<1>4. \A t \in Session : Answers(t)' => session'[t].r \in Inserted'
  BY <1>1, <1>2 DEF Answers, AskInv
<1>5. \A r \in Inserted' : request'[r].from \in User /\ role'[request'[r].from] = "owner"
  BY <1>2, AskersStay
<1>6. \A r \in Request : request'[r].status # "completed"
  BY DEF AskInv
<1> QED
  BY <1>3, <1>4, <1>5, <1>6 DEF AskInv

(* A session that ends, with a row inserted or closed by it.                             *)
LEMMA SessionEnds ==
  ASSUME TypeOK, OwnerInv, AskInv, [Next]_vars, NEW s \in Session,
         session' = [session EXCEPT ![s] = Free],
         Inserted \subseteq Inserted',
         \A r \in Inserted' : request'[r].from \in User /\ role'[request'[r].from] = "owner",
         \A r \in Request : request'[r].status # "completed"
  PROVE  AskInv'
<1>1. \A t \in Session : session'[t] = IF t = s THEN Free ELSE session[t]
  BY DEF TypeOK
<1>2. \A t \in Session :
        Asks(t)' => session'[t].user \in User /\ role'[session'[t].user] = "owner"
  BY <1>1, AskersStay DEF Asks, Free
<1>3. \A t \in Session : Answers(t)' => session'[t].r \in Inserted'
  BY <1>1 DEF Answers, AskInv, Free
<1> QED
  BY <1>2, <1>3 DEF AskInv

(* Demoting the owner who asked is refused: he is the only one.                          *)
LEMMA AcceptIsRefused ==
  ASSUME OwnerInv, AskInv, NEW s \in Session, AcceptTransfer(s)
  PROVE  request' = request
<1>1. request[session[s].r].from \in User /\ role[request[session[s].r].from] = "owner"
  BY DEF AskInv, AcceptTransfer, Does, Answers
<1>2. LastOwner(request[session[s].r].from)
  <2>1. Owners = {request[session[s].r].from}
    BY <1>1, OrganizationTypes DEF OwnerInv, Owners
  <2> QED
    BY <1>1, <2>1 DEF LastOwner
<1> QED
  BY <1>2 DEF AcceptTransfer, requests

(* Every step keeps the invariant.                                                       *)
LEMMA NextAskInv ==
  ASSUME TypeOK, OwnerInv, AskInv, [Next]_vars
  PROVE  AskInv'
<1>1. ASSUME UNCHANGED <<request, session>> PROVE AskInv'
  <2>1. Inserted' = Inserted /\ \A s \in Session : Asks(s)' = Asks(s) /\ Answers(s)' = Answers(s)
    BY <1>1 DEF Inserted, Asks, Answers
  <2> QED
    BY <1>1, <2>1, AskersStay DEF AskInv
<1>2. CASE DeleteOrganization
  BY <1>1, <1>2, DeletionIsRefused DEF requests
<1>3. ASSUME NEW u \in User, NEW new \in Role,
             \/ CreateOrganization(u) \/ RemoveMember(u)
             \/ AddMember(u, new) \/ UpdateMember(u, new)
      PROVE  AskInv'
  BY <1>1, <1>3 DEF CreateOrganization, RemoveMember, AddMember, UpdateMember, requests
<1>4. ASSUME NEW s \in Session, NEW u \in User, NEW to \in User, CheckOwner(s, u, to)
      PROVE  AskInv'
  <2> DEFINE new == [does |-> "target", user |-> u, to |-> to, r |-> 0]
  <2>1. /\ session' = [session EXCEPT ![s] = new] /\ request' = request
        /\ role' = role /\ role[u] = "owner"
    BY <1>4 DEF CheckOwner, requests, members
  <2>2. new.does = "target" /\ new.user = u
    OBVIOUS
  <2> HIDE DEF new
  <2> QED
    BY <2>1, <2>2, SessionSteps
<1>5. ASSUME NEW s \in Session, request' = request, Asks(s),
             Leaves(s) \/ Goes(s, "pending") \/ Goes(s, "insert")
      PROVE  AskInv'
  <2>1. PICK new \in {Free, [session[s] EXCEPT !.does = "pending"],
                      [session[s] EXCEPT !.does = "insert"]} :
               session' = [session EXCEPT ![s] = new]
    BY <1>5 DEF Leaves, Goes
  <2>2. session[s] \in Doing
    BY DEF TypeOK
  <2>3. new.does \notin {"accept", "reject", "cancel"}
    BY <2>1, <2>2 DEF Free, Doing
  <2>4. new.does \in {"target", "pending", "insert"} => new.user = session[s].user
    BY <2>1, <2>2 DEF Free, Doing
  <2>5. session[s].user \in User /\ role'[session[s].user] = "owner"
    BY <1>5, AskersStay
  <2> QED
    BY <1>5, <2>1, <2>3, <2>4, <2>5, SessionSteps
<1>6. ASSUME NEW s \in Session, CheckTarget(s) \/ CheckPending(s) PROVE AskInv'
  BY <1>5, <1>6 DEF CheckTarget, CheckPending, requests, Does, Asks
<1>7. ASSUME NEW s \in Session, InsertRequest(s) PROVE AskInv'
  <2> DEFINE row == [from |-> session[s].user, to |-> session[s].to, status |-> "pending"]
  <2>1. \A r \in Request : request'[r] = IF r = created' THEN row ELSE request[r]
    BY <1>7 DEF InsertRequest, TypeOK
  <2>2. session' = [session EXCEPT ![s] = Free] /\ Asks(s)
    BY <1>7 DEF InsertRequest, Leaves, Does, Asks
  <2>3. Inserted \subseteq Inserted'
    BY <2>1 DEF Inserted
  <2>4. ASSUME NEW r \in Inserted'
        PROVE  request'[r].from \in User /\ role'[request'[r].from] = "owner"
    <3>1. CASE r = created'
      BY <2>1, <2>2, <2>4, <3>1, AskersStay DEF Inserted
    <3>2. CASE r # created'
      BY <2>1, <2>4, <3>2, AskersStay DEF Inserted
    <3> QED
      BY <3>1, <3>2
  <2>5. \A r \in Request : request'[r].status # "completed"
    BY <2>1 DEF AskInv
  <2> QED
    BY <2>2, <2>3, <2>4, <2>5, SessionEnds
<1>8. ASSUME NEW s \in Session, AcceptTransfer(s) PROVE AskInv'
  <2>1. request' = request /\ session' = [session EXCEPT ![s] = Free]
    BY <1>8, AcceptIsRefused DEF AcceptTransfer, Leaves
  <2> QED
    BY <2>1, SessionSteps DEF Free
<1>9. ASSUME NEW s \in Session, CloseTransfer(s) PROVE AskInv'
  <2>1. session' = [session EXCEPT ![s] = Free] /\ session[s].r \in Inserted
    BY <1>9 DEF CloseTransfer, Leaves, Does, Answers, AskInv
  <2>2. PICK status \in {"rejected", "cancelled"} :
          request' = [request EXCEPT ![session[s].r].status = status]
    BY <1>9 DEF CloseTransfer, SetStatus
  <2>3. \A r \in Request : /\ request'[r].from = request[r].from
                           /\ \/ request'[r].status = request[r].status
                              \/ request'[r].status = status /\ r \in Inserted
    BY <2>1, <2>2 DEF TypeOK, Row
  <2>4. Inserted' = Inserted
    BY <2>3 DEF Inserted
  <2>5. \A r \in Request : request'[r].status # "completed"
    BY <2>3 DEF AskInv
  <2>6. \A r \in Inserted' : request'[r].from \in User /\ role'[request'[r].from] = "owner"
    BY <2>3, <2>4, AskersStay DEF Inserted
  <2> QED
    BY <2>1, <2>4, <2>5, <2>6, SessionEnds
<1>10. ASSUME NEW s \in Session, NEW r \in Request, ReadTransfer(s, r) PROVE AskInv'
  <2>1. request' = request /\ r \in Inserted
    BY <1>10 DEF ReadTransfer, requests, Pending, Inserted
  <2>2. PICK what \in {"accept", "reject", "cancel"} : \E u : Answer(s, r, u, what)
    BY <1>10 DEF ReadTransfer
  <2>a. PICK u : Answer(s, r, u, what)
    BY <2>2
  <2> DEFINE new == [does |-> what, user |-> u, to |-> NoRole, r |-> r]
  <2>3. session' = [session EXCEPT ![s] = new] /\ new.r = r
        /\ new.does \notin {"target", "pending", "insert"}
    BY <2>a DEF Answer
  <2> HIDE DEF new
  <2> QED
    BY <2>1, <2>3, SessionSteps
<1>11. ASSUME NEW s \in Session, NEW r \in Request, AcceptExpired(s, r) PROVE AskInv'
  BY <1>1, <1>11 DEF AcceptExpired, vars, requests
<1>12. ASSUME NEW r \in Request, Expire(r) PROVE AskInv'
  BY <1>1, <1>12 DEF Expire
<1>13. CASE UNCHANGED vars
  BY <1>1, <1>13 DEF vars, requests
<1>14. Role # {}
  BY DEF Role
<1> QED
  BY <1>2, <1>3, <1>4, <1>6, <1>7, <1>8, <1>9, <1>10, <1>11, <1>12, <1>13, <1>14 DEF Next

(* Nobody has asked for anything at the beginning.                                       *)
LEMMA InitAskInv == Init => OwnerInv /\ AskInv
BY DEF Init, OwnerInv, AskInv, Asks, Answers, Inserted, None, Free

(* A pending transfer was asked for by whoever owns the organization now, with any        *)
(* number of users, sessions and requests and whatever overlaps.                          *)
THEOREM OwnersAsk == Spec => []AskedByOwner
<1>1. AskInv => AskedByOwner
  BY DEF AskInv, AskedByOwner, Pending, Inserted
<1>2. TypeOK /\ OwnerInv /\ AskInv /\ [Next]_vars => AskInv'
  BY NextAskInv
<1> QED
  BY <1>1, <1>2, InitAskInv, InitTypeOK, NextTypeOK, NextOwnerInv, PTL DEF Spec

(* The finding of the run organization_transfer, for every history: demoting the owner    *)
(* first, under the trigger, lets no transfer be completed.                               *)
THEOREM NoTransferCompletes == Spec => [](\A r \in Request : request[r].status # "completed")
<1>1. AskInv => \A r \in Request : request[r].status # "completed"
  BY DEF AskInv
<1>2. TypeOK /\ OwnerInv /\ AskInv /\ [Next]_vars => AskInv'
  BY NextAskInv
<1> QED
  BY <1>1, <1>2, InitAskInv, InitTypeOK, NextTypeOK, NextOwnerInv, PTL DEF Spec
=============================================================================
