------------------------------ MODULE Organization ------------------------------
(***************************************************************************)
(* The members of one organization and the transfer of its ownership: the   *)
(* statements of OrganizationManager, and the trigger and the index of      *)
(* schema.ts that watch over its owner.                                     *)
(*                                                                         *)
(* A transfer is asked for, answered and withdrawn by sessions that read,   *)
(* decide and then write, with other sessions in between.                   *)
(***************************************************************************)
EXTENDS Integers, FiniteSets

CONSTANTS
  User,
  Session,      \* requests to the API that are served at the same time
  NoRole,       \* not a member
  MaxRequests   \* bound on the transfers that are asked for

ASSUME OrganizationTypes ==
  /\ IsFiniteSet(User) /\ IsFiniteSet(Session)
  /\ NoRole \notin User \cup {"owner", "admin", "member"}
  /\ MaxRequests \in Nat \ {0}

VARIABLES
  role,     \* organization_members.role
  exists,   \* is there the organization?
  request,  \* ownership_transfer_requests, see None
  created,  \* number of them
  due,      \* requests past expires_at
  session,  \* what a session has decided to do, see Free
  refused   \* what the trigger or the index has undone: requests, or 0 for a deletion

members == <<role, exists>>
requests == <<request, created, due>>
vars == <<members, requests, session, refused>>

Role == {"owner", "admin", "member"}
Request == 1 .. MaxRequests
Closed == {"rejected", "cancelled", "completed"}

(* The rows of requests, and what a session has decided to do.                   *)
Row == [from: User \cup {NoRole}, to: User \cup {NoRole},
        status: {"none", "pending"} \cup Closed]
Doing == [does: {"nothing", "target", "pending", "insert", "accept", "reject", "cancel"},
          user: User \cup {NoRole}, to: User \cup {NoRole}, r: 0 .. MaxRequests]

(* A row that has not been inserted, and a session with nothing to do.            *)
None == [from |-> NoRole, to |-> NoRole, status |-> "none"]
Free == [does |-> "nothing", user |-> NoRole, to |-> NoRole, r |-> 0]

Owners == {u \in User : role[u] = "owner"}
Pending == {r \in Request : request[r].status = "pending"}

Init ==
  /\ role = [u \in User |-> NoRole]
  /\ exists = FALSE
  /\ request = [r \in Request |-> None]
  /\ created = 0 /\ due = {}
  /\ session = [s \in Session |-> Free]
  /\ refused = {}

-----------------------------------------------------------------------------
(* The members. A statement that changes a role is undone when it takes the      *)
(* role from the last owner, or gives it to a second one.                        *)

(* Faulty variant: nothing protects the owner.                                   *)
Unprotected(u) == FALSE

(* Faulty variant: the trigger counts the other members instead of the other      *)
(* owners.                                                                        *)
LastMember(u) == role[u] = "owner" /\ \A v \in User \ {u} : role[v] = NoRole

(* check_last_owner, before a row is deleted or its role is changed              *)
LastOwner(u) == role[u] = "owner" /\ Owners = {u}

(* idx_one_owner_per_organization                                                *)
NoOtherOwner(u) == Owners \subseteq {u}

Permitted(u, new) ==
  /\ new # "owner" => ~LastOwner(u)
  /\ new = "owner" => NoOtherOwner(u)

(* The organization and its owner are inserted together.                         *)
CreateOrganization(u) ==
  /\ ~exists
  /\ exists' = TRUE
  /\ role' = [role EXCEPT ![u] = "owner"]
  /\ UNCHANGED <<requests, session, refused>>

AddMember(u, new) ==
  /\ exists /\ role[u] = NoRole
  /\ Permitted(u, new)
  /\ role' = [role EXCEPT ![u] = new]
  /\ UNCHANGED <<exists, requests, session, refused>>

UpdateMember(u, new) ==
  /\ role[u] \notin {NoRole, new}
  /\ Permitted(u, new)
  /\ role' = [role EXCEPT ![u] = new]
  /\ UNCHANGED <<exists, requests, session, refused>>

RemoveMember(u) ==
  /\ role[u] # NoRole
  /\ Permitted(u, NoRole)
  /\ role' = [role EXCEPT ![u] = NoRole]
  /\ UNCHANGED <<exists, requests, session, refused>>

(* The rows of the members go with the organization, and the trigger is asked for *)
(* each of them.                                                                  *)
DeleteOrganization ==
  /\ exists
  /\ IF \E u \in User : LastOwner(u)
     THEN refused' = refused \cup {0} /\ UNCHANGED <<members, requests>>
     ELSE /\ exists' = FALSE
          /\ role' = [u \in User |-> NoRole]
          /\ request' = [r \in Request |-> None] /\ due' = {}
          /\ UNCHANGED <<created, refused>>
  /\ UNCHANGED session

-----------------------------------------------------------------------------
(* initiateOwnershipTransfer: three reads, then the row. Sessions that overlap may   *)
(* leave several requests pending.                                                 *)

Does(s, step) == session[s].does = step
Goes(s, step) == session' = [session EXCEPT ![s].does = step]
Leaves(s) == session' = [session EXCEPT ![s] = Free]

CheckOwner(s, u, to) ==
  /\ Does(s, "nothing") /\ role[u] = "owner"
  /\ session' = [session EXCEPT ![s] =
                   [does |-> "target", user |-> u, to |-> to, r |-> 0]]
  /\ UNCHANGED <<members, requests, refused>>

CheckTarget(s) ==
  /\ Does(s, "target")
  /\ IF role[session[s].to] = NoRole THEN Leaves(s) ELSE Goes(s, "pending")
  /\ UNCHANGED <<members, requests, refused>>

CheckPending(s) ==
  /\ Does(s, "pending")
  /\ IF Pending # {} THEN Leaves(s) ELSE Goes(s, "insert")
  /\ UNCHANGED <<members, requests, refused>>

InsertRequest(s) ==
  /\ Does(s, "insert")
  /\ created < MaxRequests
  /\ created' = created + 1
  /\ request' = [request EXCEPT ![created'] =
                   [from |-> session[s].user, to |-> session[s].to,
                    status |-> "pending"]]
  /\ Leaves(s)
  /\ UNCHANGED <<members, due, refused>>

(* expires_at passes.                                                              *)
Expire(r) ==
  /\ r \in Pending \ due
  /\ due' = due \cup {r}
  /\ UNCHANGED <<members, request, created, session, refused>>

-----------------------------------------------------------------------------
(* The answers: the row is read and checked, then written.                         *)

Answer(s, r, user, what) ==
  /\ Does(s, "nothing")
  /\ session' = [session EXCEPT ![s] =
                   [does |-> what, user |-> user, to |-> NoRole, r |-> r]]

ReadTransfer(s, r) ==
  /\ r \in Pending
  /\ \/ Answer(s, r, request[r].to, "reject")
     \/ Answer(s, r, request[r].from, "cancel")
     \/ r \notin due /\ Answer(s, r, request[r].to, "accept")
  /\ UNCHANGED <<members, requests, refused>>

SetStatus(r, status) == request' = [request EXCEPT ![r].status = status]

(* Faulty variant: that the request has expired is kept.                           *)
ExpiredIsKept(s, r) ==
  /\ Does(s, "nothing") /\ r \in Pending \cap due
  /\ SetStatus(r, "expired")
  /\ UNCHANGED <<members, created, due, session, refused>>

(* An expired request is marked, and the mark undone by the exception: it stays     *)
(* pending, and the session ends.                                                   *)
AcceptExpired(s, r) ==
  /\ Does(s, "nothing") /\ r \in Pending \cap due
  /\ UNCHANGED vars

(* The transaction of acceptOwnershipTransfer: the owner is demoted, then the recipient *)
(* promoted, if they are still members. One refusal undoes it all.                      *)
AcceptTransfer(s) ==
  LET r == session[s].r
      from == request[r].from
      to == request[r].to
      demoted == IF role[from] = NoRole THEN role ELSE [role EXCEPT ![from] = "admin"]
      others == {u \in User \ {to} : demoted[u] = "owner"}
  IN  /\ Does(s, "accept")
      /\ IF LastOwner(from) \/ (demoted[to] # NoRole /\ others # {})
         THEN refused' = refused \cup {r} /\ UNCHANGED <<members, requests>>
         ELSE /\ role' = IF demoted[to] = NoRole THEN demoted
                         ELSE [demoted EXCEPT ![to] = "owner"]
              /\ SetStatus(r, "completed")
              /\ UNCHANGED <<exists, created, due, refused>>
      /\ Leaves(s)

CloseTransfer(s) ==
  /\ \/ Does(s, "reject") /\ SetStatus(session[s].r, "rejected")
     \/ Does(s, "cancel") /\ SetStatus(session[s].r, "cancelled")
  /\ Leaves(s)
  /\ UNCHANGED <<members, created, due, refused>>

Next ==
  \/ DeleteOrganization
  \/ \E u \in User :
       \/ CreateOrganization(u) \/ RemoveMember(u)
       \/ \E new \in Role : AddMember(u, new) \/ UpdateMember(u, new)
       \/ \E s \in Session, to \in User : CheckOwner(s, u, to)
  \/ \E s \in Session :
       \/ CheckTarget(s) \/ CheckPending(s) \/ InsertRequest(s)
       \/ AcceptTransfer(s) \/ CloseTransfer(s)
       \/ \E r \in Request : ReadTransfer(s, r) \/ AcceptExpired(s, r)
  \/ \E r \in Request : Expire(r)

Spec == Init /\ [][Next]_vars

-----------------------------------------------------------------------------
(* The statuses accepted and expired are set in transactions that do not end so.      *)
TypeOK ==
  /\ role \in [User -> Role \cup {NoRole}] /\ exists \in BOOLEAN
  /\ created \in 0 .. MaxRequests /\ due \subseteq Request
  /\ request \in [Request -> Row]
  /\ session \in [Session -> Doing]
  /\ refused \subseteq 0 .. MaxRequests

(* Whatever sessions do at the same time, an organization has exactly one owner.      *)
OneOwner == exists => Cardinality(Owners) = 1

(* Whoever asked for a transfer that is pending is the owner now: nothing checks    *)
(* it again after the request was inserted, while members change, and nothing       *)
(* between the read of the role and the INSERT three statements later.              *)
AskedByOwner == \A r \in Pending : role[request[r].from] = "owner"

(* A recipient who accepts a pending request in time becomes the owner, unless he    *)
(* is the one who asked.                                                             *)
TransferIsExecuted ==
  \A r \in refused \cap Request : request[r].from = request[r].to

=============================================================================
