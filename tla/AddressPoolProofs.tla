--------------------------- MODULE AddressPoolProofs ---------------------------
(***************************************************************************)
(* Theorems about AddressPool, for any number of addresses, orders,          *)
(* references, requests and crashes.                                         *)
(***************************************************************************)
EXTENDS AddressPool, TLAPS

-----------------------------------------------------------------------------
(* Types.                                                                    *)

(* A row agrees with itself: its state names the kind of its owner.          *)
Coherent(row) ==
  /\ row \in Row
  /\ (row.state = "allocated") <=> (row.order # NoOne)
  /\ (row.state = "bound") <=> (row.reference # NoOne)

(* What the constraint lets through is coherent.                             *)
LEMMA AllowedIsCoherent ==
  ASSUME NEW row \in Row, RowAllowed(row)
  PROVE  Coherent(row)
BY DEF RowAllowed, Coherent, Row

(* The rows the statements write.                                            *)
LEMMA RowsWritten ==
  ASSUME NEW row \in Row
  PROVE  /\ \A s \in {"absent", "idle", "allocated", "bound", "archived"} :
              [row EXCEPT !.state = s] \in Row
         /\ [row EXCEPT !.state = "idle", !.order = NoOne] \in Row
         /\ [row EXCEPT !.state = "idle", !.reference = NoOne] \in Row
         /\ \A o \in Order : [row EXCEPT !.state = "allocated", !.order = o] \in Row
         /\ \A r \in Reference : [row EXCEPT !.state = "bound", !.reference = r] \in Row
BY DEF Row

(* A row that does not exist is coherent, and so is a new one, which is idle. *)
LEMMA NoRowIsRow ==
  /\ Coherent(NoRow) /\ Coherent([NoRow EXCEPT !.state = "idle"])
  /\ [NoRow EXCEPT !.state = "idle"]
       = [state |-> "idle", order |-> NoOne, reference |-> NoOne]
BY DEF NoRow, Row, Coherent

(* An idle row that is given to an order or to a reference.                  *)
LEMMA IdleIsGiven ==
  ASSUME NEW row, row = [NoRow EXCEPT !.state = "idle"]
  PROVE  /\ \A o \in Order : Coherent([row EXCEPT !.state = "allocated", !.order = o])
         /\ \A r \in Reference : Coherent([row EXCEPT !.state = "bound", !.reference = r])
<1>1. row \in Row /\ row.order = NoOne /\ row.reference = NoOne
  BY NoRowIsRow DEF Coherent
<1>2. \A o : /\ [row EXCEPT !.state = "allocated", !.order = o].state = "allocated"
             /\ [row EXCEPT !.state = "allocated", !.order = o].order = o
             /\ [row EXCEPT !.state = "allocated", !.order = o].reference = NoOne
  BY <1>1 DEF Row
<1>3. \A r : /\ [row EXCEPT !.state = "bound", !.reference = r].state = "bound"
             /\ [row EXCEPT !.state = "bound", !.reference = r].order = NoOne
             /\ [row EXCEPT !.state = "bound", !.reference = r].reference = r
  BY <1>1 DEF Row
<1>4. ASSUME NEW o \in Order
      PROVE  Coherent([row EXCEPT !.state = "allocated", !.order = o])
  <2>1. [row EXCEPT !.state = "allocated", !.order = o] \in Row
    BY <1>1, RowsWritten
  <2>2. o # NoOne
    BY ConstantTypes
  <2> QED
    BY <1>2, <2>1, <2>2 DEF Coherent
<1>5. ASSUME NEW r \in Reference
      PROVE  Coherent([row EXCEPT !.state = "bound", !.reference = r])
  <2>1. [row EXCEPT !.state = "bound", !.reference = r] \in Row
    BY <1>1, RowsWritten
  <2>2. r # NoOne
    BY ConstantTypes
  <2> QED
    BY <1>3, <2>1, <2>2 DEF Coherent
<1> QED
  BY <1>4, <1>5

(* The part of TypeOK about the table, and how it survives the change of a row. *)
TableOK ==
  /\ pool \in [Address -> Row]
  /\ \A a \in Address : Coherent(pool[a])

(* A table stays well typed when one row is replaced by a row.                *)
LEMMA RowChanges ==
  ASSUME TableOK, NEW a \in Address, NEW row, Coherent(row),
         pool' = [pool EXCEPT ![a] = row]
  PROVE  TableOK'
BY DEF TableOK, Coherent

(* The initial state is well typed.                                          *)
LEMMA InitTypeOK == Init => TypeOK
BY ConstantTypes DEF Init, TypeOK, Row, NoRow

(* Every step keeps every variable well typed.                               *)
LEMMA NextTypeOK == TypeOK /\ [Next]_vars => TypeOK'
<1> SUFFICES ASSUME TypeOK, [Next]_vars PROVE TypeOK'
  OBVIOUS
<1> USE ConstantTypes DEF TypeOK, orders, requests, Starts, Ends, Rest
<1>1. ASSUME NEW a \in Address, AddAddress(a) PROVE TypeOK'
  BY <1>1 DEF AddAddress, NoRow, Row
<1>2. ASSUME NEW a \in Address, CooldownEnds(a) PROVE TypeOK'
  BY <1>2 DEF CooldownEnds
<1>3. ASSUME NEW o \in Order, AllocateAddress(o) PROVE TypeOK'
  <2>1. PICK a \in Address :
          /\ Free(a)
          /\ pool' = [pool EXCEPT ![a].state = "allocated", ![a].order = o]
          /\ lent' = [lent EXCEPT ![o] = a]
          /\ watched' = watched \cup {a}
    BY <1>3 DEF AllocateAddress
  <2>2. pool' = [pool EXCEPT ![a] = [pool[a] EXCEPT !.state = "allocated", !.order = o]]
    BY <2>1
  <2>3. Coherent([pool[a] EXCEPT !.state = "allocated", !.order = o])
    BY <2>1, IdleIsGiven DEF Free
  <2>4. TableOK'
    BY <2>2, <2>3, RowChanges DEF TableOK, Coherent
  <2> QED
    BY <1>3, <2>1, <2>4 DEF AllocateAddress, TableOK, Coherent
<1>4. ASSUME NEW o \in Order, CloseOrder(o) PROVE TypeOK'
  BY <1>4 DEF CloseOrder
<1>5. ASSUME NEW o \in Order, ReleaseOrderAddress(o) PROVE TypeOK'
  <2> DEFINE row == [pool[lent[o]] EXCEPT !.state = "idle", !.order = NoOne]
  <2>1. lent[o] \in Address /\ row \in Row
    BY <1>5, RowsWritten DEF ReleaseOrderAddress
  <2>2. TableOK'
    <3>1. CASE RowAllowed(row)
      BY <1>5, <2>1, <3>1, AllowedIsCoherent, RowChanges
         DEF ReleaseOrderAddress, TableOK, Coherent
    <3>2. CASE ~RowAllowed(row)
      BY <1>5, <2>1, <3>2 DEF ReleaseOrderAddress, TableOK, Coherent
    <3> QED
      BY <3>1, <3>2
  <2> QED
    BY <1>5, <2>1, <2>2 DEF ReleaseOrderAddress, TableOK, Coherent
<1>6. ASSUME NEW o \in Order, OrderSettles(o) PROVE TypeOK'
  BY <1>6 DEF OrderSettles
<1>7. ASSUME NEW c \in Caller, NEW r \in Reference,
             BindDepositAddress(c, r) \/ UnbindDepositAddress(c, r)
      PROVE  TypeOK'
  BY <1>7 DEF BindDepositAddress, UnbindDepositAddress, BoundTo
<1>8. ASSUME NEW c \in Caller, NEW a \in Address,
             UnbindByAddress(c, a) \/ CheckBeforeArchive(c, a)
               \/ CheckBeforeUnarchive(c, a)
      PROVE  TypeOK'
  BY <1>8 DEF UnbindByAddress, CheckBeforeArchive, CheckBeforeUnarchive
<1>9. ASSUME NEW c \in Caller, BindAddress(c) PROVE TypeOK'
  <2>1. CASE Ends(c) /\ UNCHANGED <<pool, cooling, resting, watched, orders, crashes>>
    BY <1>9, <2>1 DEF BindAddress
  <2>2. ASSUME NEW a \in Address, Free(a), UNCHANGED found,
               pool' = [pool EXCEPT ![a].state = "bound", ![a].reference = arg[c]],
               pc' = [pc EXCEPT ![c] = "watch"], arg' = [arg EXCEPT ![c] = a]
        PROVE  TypeOK'
    <3>1. pool' = [pool EXCEPT ![a] =
                     [pool[a] EXCEPT !.state = "bound", !.reference = arg[c]]]
      BY <2>2
    <3>2. Coherent([pool[a] EXCEPT !.state = "bound", !.reference = arg[c]])
      BY <1>9, <2>2, IdleIsGiven DEF BindAddress, Free
    <3>3. TableOK'
      BY <3>1, <3>2, RowChanges DEF TableOK, Coherent
    <3> QED
      BY <1>9, <2>2, <3>3 DEF BindAddress, TableOK, Coherent
  <2> QED
    BY <1>9, <2>1, <2>2 DEF BindAddress
<1>10. ASSUME NEW c \in Caller, WatchDepositAddress(c) PROVE TypeOK'
  BY <1>10 DEF WatchDepositAddress
<1>11. ASSUME NEW c \in Caller, UnbindAddress(c) PROVE TypeOK'
  BY <1>11 DEF UnbindAddress, BoundTo, NoRow, Row
<1>12. ASSUME NEW c \in Caller, UnbindAddressByAddress(c) PROVE TypeOK'
  <2> DEFINE row == [pool[arg[c]] EXCEPT !.state = "idle", !.reference = NoOne]
  <2>1. arg[c] \in Address /\ row \in Row
    BY <1>12, RowsWritten DEF UnbindAddressByAddress
  <2>2. TableOK'
    <3>1. CASE RowAllowed(row)
      BY <1>12, <2>1, <3>1, AllowedIsCoherent, RowChanges
         DEF UnbindAddressByAddress, TableOK, Coherent
    <3>2. CASE ~RowAllowed(row)
      BY <1>12, <2>1, <3>2 DEF UnbindAddressByAddress, TableOK, Coherent
    <3> QED
      BY <3>1, <3>2
  <2> QED
    BY <1>12, <2>1, <2>2 DEF UnbindAddressByAddress, TableOK, Coherent
<1>13. ASSUME NEW c \in Caller, ArchiveAddress(c) PROVE TypeOK'
  BY <1>13 DEF ArchiveAddress, RowAllowed, Row
<1>14. ASSUME NEW c \in Caller, UnarchiveAddress(c) PROVE TypeOK'
  BY <1>14, SMTT(30) DEF UnarchiveAddress, RowAllowed, Row
<1>15. CASE Restart
  BY <1>15 DEF Restart
<1>16. CASE UNCHANGED vars
  BY <1>16 DEF vars
<1>17. ASSUME NEW c \in Caller, UnwatchDepositAddress(c) PROVE TypeOK'
  BY <1>17 DEF UnwatchDepositAddress
<1> QED
  BY <1>1, <1>2, <1>3, <1>4, <1>5, <1>6, <1>7, <1>8, <1>9, <1>10, <1>11, <1>12,
     <1>13, <1>14, <1>15, <1>16, <1>17 DEF Next, OrderStep, RequestStarts, RequestStep

(* Every row has one of the shapes the code expects to read, in every        *)
(* reachable state and with any interleaving.                                *)
THEOREM TypeCorrect == Spec => []TypeOK
<1>1. Init => TypeOK
  BY InitTypeOK
<1>2. TypeOK /\ [Next]_vars => TypeOK'
  BY NextTypeOK
<1> QED
  BY <1>1, <1>2, PTL DEF Spec

-----------------------------------------------------------------------------
(* Who has an address: an order, a reference, a handler or a request that is  *)
(* about to give it back, or nobody. What follows is about one address and    *)
(* whatever requests about it, or about anything else, are in flight together. *)

(* Nobody is about to unarchive the address while it has to rest. The UPDATE  *)
(* of unarchiveAddress clears cooldown_until, whatever it is.                *)
RestsUndisturbed(a) ==
  \A c \in Caller : pc[c] = "unarchive" /\ arg[c] = a => a \notin resting

(* An address that rests is in its cooldown, and nobody has it.              *)
RestingIsNobodys(a) ==
  a \in resting => a \in cooling /\ pool[a].state \in {"idle", "archived"}

(* An open order it was lent to has it.                                      *)
LentIsHeld(a) ==
  \A o \in Order : lent[o] = a /\ phase[o] = "open" => pool[a].order = o

(* What a late handler of a closed order releases is still the order's, or it *)
(* rests.                                                                    *)
ClosedReleasesItsOwn(a) ==
  \A o \in Order :
    lent[o] = a /\ phase[o] \in {"closing", "released"} =>
      pool[a].order = o \/ a \in resting

(* What a request is about to unwatch is still bound to its reference, or it  *)
(* rests.                                                                    *)
UnwatchesItsOwn(a) ==
  \A c \in Caller : found[c] = a => pool[a].reference = arg[c] \/ a \in resting

(* The inductive invariant of an address.                                    *)
PoolInv(a) ==
  /\ RestingIsNobodys(a)
  /\ LentIsHeld(a)
  /\ ClosedReleasesItsOwn(a)
  /\ UnwatchesItsOwn(a)

(* What TypeOK says of a row, field by field.                                *)
LEMMA RowFacts ==
  ASSUME TypeOK, NEW a \in Address
  PROVE  /\ pool[a] \in Row
         /\ (pool[a].state = "allocated") <=> (pool[a].order # NoOne)
         /\ (pool[a].state = "bound") <=> (pool[a].reference # NoOne)
BY DEF TypeOK

(* The rows released, archived or unarchived by an UPDATE the constraint lets *)
(* through, field by field.                                                  *)
LEMMA RowsReleased ==
  ASSUME NEW row \in Row
  PROVE  /\ LET new == [row EXCEPT !.state = "idle", !.order = NoOne]
            IN  /\ new.state = "idle"
                /\ new.order = NoOne
                /\ new.reference = row.reference
         /\ LET new == [row EXCEPT !.state = "idle", !.reference = NoOne]
            IN  /\ new.state = "idle"
                /\ new.order = row.order
                /\ new.reference = NoOne
         /\ \A s : LET new == [row EXCEPT !.state = s]
                  IN  /\ new.state = s
                      /\ new.order = row.order
                      /\ new.reference = row.reference
BY DEF Row

(* Every step keeps PoolInv: whoever still acts on an address holds it, or the *)
(* address rests and nobody can have got it since.                           *)
LEMMA NextPoolInv ==
  ASSUME NEW a \in Address, TypeOK, RestsUndisturbed(a), PoolInv(a), [Next]_vars
  PROVE  PoolInv(a)'
<1>a. TypeOK'
  BY NextTypeOK
<1> USE <1>a, RowFacts, ConstantTypes
    DEF TypeOK, PoolInv, RestingIsNobodys, LentIsHeld, ClosedReleasesItsOwn,
        UnwatchesItsOwn, orders, requests, Starts, Ends, Rest, Row
<1>1. ASSUME NEW b \in Address, AddAddress(b) PROVE PoolInv(a)'
  BY <1>1 DEF AddAddress, NoRow
<1>2. ASSUME NEW b \in Address, CooldownEnds(b) PROVE PoolInv(a)'
  BY <1>2 DEF CooldownEnds
<1>3. ASSUME NEW o \in Order, AllocateAddress(o) PROVE PoolInv(a)'
  BY <1>3 DEF AllocateAddress, Free, NoRow
<1>4. ASSUME NEW o \in Order, CloseOrder(o) PROVE PoolInv(a)'
  BY <1>4 DEF CloseOrder
<1>5. ASSUME NEW o \in Order, ReleaseOrderAddress(o) PROVE PoolInv(a)'
  <2> HIDE DEF Row
  <2> DEFINE b == lent[o]
             row == [pool[b] EXCEPT !.state = "idle", !.order = NoOne]
  <2>1. /\ b \in Address /\ pool[b] \in Row
        /\ phase' = [phase EXCEPT ![o] = "released"]
        /\ UNCHANGED <<lent, requests>>
        /\ phase[o] \in {"closing", "released"}
    BY <1>5 DEF ReleaseOrderAddress
  <2>2. CASE UNCHANGED <<pool, cooling, resting>>
    BY <2>1, <2>2
  <2>3. CASE RowAllowed(row) /\ pool' = [pool EXCEPT ![b] = row] /\ Rest({b})
    <3>1. row.state = "idle" /\ row.order = NoOne
      BY <2>1, RowsReleased
    <3>2. pool'[b] = row /\ \A c \in Address \ {b} : pool'[c] = pool[c]
      BY <2>1, <2>3
    <3>3. pool[b].order = o \/ b \in resting \/ a # b
      BY <2>1
    <3>4. /\ resting' = resting \cup {b} /\ cooling' = cooling \cup {b}
      BY <2>3
    <3> HIDE DEF row, b
    <3>5. LentIsHeld(a)'
      BY <2>1, <3>1, <3>2, <3>3 DEF b
    <3>6. RestingIsNobodys(a)' /\ UnwatchesItsOwn(a)'
      BY <2>1, <3>1, <3>2, <3>4
    <3>7. ClosedReleasesItsOwn(a)'
      BY <2>1, <3>1, <3>2, <3>4 DEF b
    <3> QED
      BY <3>5, <3>6, <3>7
  <2> QED
    BY <1>5, <2>2, <2>3 DEF ReleaseOrderAddress
<1>6. ASSUME NEW o \in Order, OrderSettles(o) PROVE PoolInv(a)'
  BY <1>6 DEF OrderSettles
<1>7. ASSUME NEW c \in Caller, NEW r \in Reference, BindDepositAddress(c, r)
      PROVE  PoolInv(a)'
  BY <1>7 DEF BindDepositAddress
<1>8. ASSUME NEW c \in Caller, NEW r \in Reference, UnbindDepositAddress(c, r)
      PROVE  PoolInv(a)'
  BY <1>8 DEF UnbindDepositAddress, BoundTo
<1>9. ASSUME NEW c \in Caller, NEW b \in Address,
             UnbindByAddress(c, b) \/ CheckBeforeArchive(c, b)
               \/ CheckBeforeUnarchive(c, b)
      PROVE  PoolInv(a)'
  BY <1>9 DEF UnbindByAddress, CheckBeforeArchive, CheckBeforeUnarchive
<1>10. ASSUME NEW c \in Caller, BindAddress(c) PROVE PoolInv(a)'
  <2>1. CASE Ends(c) /\ UNCHANGED <<pool, cooling, resting, watched, orders, crashes>>
    BY <1>10, <2>1 DEF BindAddress
  <2>2. ASSUME NEW b \in Address, Free(b), UNCHANGED found,
               pool' = [pool EXCEPT ![b].state = "bound", ![b].reference = arg[c]],
               pc' = [pc EXCEPT ![c] = "watch"], arg' = [arg EXCEPT ![c] = b]
        PROVE  PoolInv(a)'
    <3>1. /\ pool[b].state = "idle" /\ pool[b].order = NoOne /\ pool[b].reference = NoOne
          /\ b \notin cooling
          /\ UNCHANGED <<cooling, resting, orders>>
      BY <1>10, <2>2, NoRowIsRow DEF BindAddress, Free, Coherent
    <3>2. \A d \in Address \ {b} : pool'[d] = pool[d]
      BY <2>2
    <3>3. pc[c] = "bind" /\ found[c] = NoOne
      BY <1>10 DEF BindAddress
    <3>4. LentIsHeld(a)' /\ RestingIsNobodys(a)' /\ ClosedReleasesItsOwn(a)'
      BY <3>1, <3>2
    <3>5. UnwatchesItsOwn(a)'
      BY <2>2, <3>1, <3>2, <3>3
    <3> QED
      BY <3>4, <3>5
  <2> QED
    BY <1>10, <2>1, <2>2 DEF BindAddress
<1>11. ASSUME NEW c \in Caller, WatchDepositAddress(c) PROVE PoolInv(a)'
  BY <1>11 DEF WatchDepositAddress
<1>12. ASSUME NEW c \in Caller, UnwatchDepositAddress(c) PROVE PoolInv(a)'
  BY <1>12 DEF UnwatchDepositAddress
<1>13. ASSUME NEW c \in Caller, UnbindAddress(c) PROVE PoolInv(a)'
  BY <1>13 DEF UnbindAddress, BoundTo, NoRow
<1>14. ASSUME NEW c \in Caller, UnbindAddressByAddress(c) PROVE PoolInv(a)'
  <2> HIDE DEF Row
  <2> DEFINE b == arg[c]
             row == [pool[b] EXCEPT !.state = "idle", !.reference = NoOne]
  <2>1. /\ b \in Address /\ pool[b] \in Row
        /\ pc[c] = "unbindByAddress" /\ Ends(c)
        /\ UNCHANGED orders
    BY <1>14 DEF UnbindAddressByAddress
  <2>2. \A d \in Caller : found'[d] = a => found[d] = a /\ arg'[d] = arg[d]
    BY <2>1
  <2>3. CASE UNCHANGED <<pool, cooling, resting>>
    BY <2>1, <2>2, <2>3
  <2>4. CASE RowAllowed(row) /\ pool' = [pool EXCEPT ![b] = row] /\ Rest({b})
    <3>1. row.state = "idle" /\ pool[b].order = NoOne
      BY <2>1, <2>4, RowsReleased DEF RowAllowed
    <3>2. pool'[b] = row /\ \A d \in Address \ {b} : pool'[d] = pool[d]
      BY <2>1, <2>4
    <3>3. resting' = resting \cup {b} /\ cooling' = cooling \cup {b}
      BY <2>4
    <3> HIDE DEF row, b
    <3>4. LentIsHeld(a)'
      BY <2>1, <3>1, <3>2
    <3>5. RestingIsNobodys(a)'
      BY <2>1, <3>1, <3>2, <3>3
    <3>6. ClosedReleasesItsOwn(a)'
      BY <2>1, <3>1, <3>2, <3>3
    <3>7. UnwatchesItsOwn(a)'
      BY <2>2, <3>2, <3>3
    <3> QED
      BY <3>4, <3>5, <3>6, <3>7
  <2> QED
    BY <1>14, <2>3, <2>4 DEF UnbindAddressByAddress
<1>15. ASSUME NEW c \in Caller, ArchiveAddress(c) PROVE PoolInv(a)'
  BY <1>15 DEF ArchiveAddress, RowAllowed
<1>16. ASSUME NEW c \in Caller, UnarchiveAddress(c) PROVE PoolInv(a)'
  <2> HIDE DEF Row
  <2> DEFINE b == arg[c]
             row == [pool[b] EXCEPT !.state = "idle"]
  <2>1. /\ b \in Address /\ pool[b] \in Row
        /\ pc[c] = "unarchive" /\ Ends(c)
        /\ UNCHANGED <<resting, orders>>
    BY <1>16 DEF UnarchiveAddress
  <2>2. \A d \in Caller : found'[d] = a => found[d] = a /\ arg'[d] = arg[d]
    BY <2>1
  <2>3. CASE UNCHANGED <<pool, cooling>>
    BY <2>1, <2>2, <2>3
  <2>4. CASE RowAllowed(row) /\ pool' = [pool EXCEPT ![b] = row]
               /\ cooling' = cooling \ {b}
    <3>1. a = b => a \notin resting
      BY <2>1 DEF RestsUndisturbed
    <3>2. row.order = pool[b].order /\ row.reference = pool[b].reference
      BY <2>1, RowsReleased
    <3>3. pool'[b] = row /\ \A d \in Address \ {b} : pool'[d] = pool[d]
      BY <2>1, <2>4
    <3>4. cooling' = cooling \ {b}
      BY <2>4
    <3> HIDE DEF row, b
    <3>5. LentIsHeld(a)' /\ ClosedReleasesItsOwn(a)'
      BY <2>1, <3>2, <3>3
    <3>6. RestingIsNobodys(a)'
      BY <2>1, <3>1, <3>3, <3>4
    <3>7. UnwatchesItsOwn(a)'
      BY <2>1, <2>2, <3>2, <3>3
    <3> QED
      BY <3>5, <3>6, <3>7
  <2> QED
    BY <1>16, <2>3, <2>4 DEF UnarchiveAddress
<1>17. CASE Restart
  BY <1>17 DEF Restart
<1>18. CASE UNCHANGED vars
  BY <1>18 DEF vars
<1> QED
  BY <1>1, <1>2, <1>3, <1>4, <1>5, <1>6, <1>7, <1>8, <1>9, <1>10, <1>11, <1>12, <1>13,
     <1>14, <1>15, <1>16, <1>17, <1>18
     DEF Next, OrderStep, RequestStarts, RequestStep

(* An UPDATE that releases, archives or unarchives writes such a row, or nothing. *)
LEMMA RowsUpdated ==
  ASSUME TypeOK, NEW a \in Address,
         \/ \E o \in Order : ReleaseOrderAddress(o)
         \/ \E c \in Caller :
              UnbindAddressByAddress(c) \/ ArchiveAddress(c) \/ UnarchiveAddress(c)
  PROVE  \/ pool'[a] = pool[a]
         \/ /\ pool'[a].state \in {"idle", "archived"}
            /\ pool'[a].reference \in {pool[a].reference, NoOne}
<1> DEFINE Written(row) == /\ row.state \in {"idle", "archived"}
                           /\ row.reference \in {pool[a].reference, NoOne}
<1>1. pool \in [Address -> Row] /\ pool[a] \in Row
  BY DEF TypeOK
<1>2. /\ Written([pool[a] EXCEPT !.state = "idle", !.order = NoOne])
      /\ Written([pool[a] EXCEPT !.state = "idle", !.reference = NoOne])
      /\ Written([pool[a] EXCEPT !.state = "idle"])
      /\ Written([pool[a] EXCEPT !.state = "archived"])
  BY <1>1, RowsReleased
<1>3. ASSUME NEW b, NEW row, pool' = pool \/ pool' = [pool EXCEPT ![b] = row],
             b = a => Written(row)
      PROVE  pool'[a] = pool[a] \/ Written(pool'[a])
  BY <1>1, <1>3
<1> HIDE DEF Written
<1>4. ASSUME NEW o \in Order, ReleaseOrderAddress(o)
      PROVE  pool'[a] = pool[a] \/ Written(pool'[a])
  <2>1. \/ pool' = pool
        \/ pool' = [pool EXCEPT ![lent[o]] =
                      [pool[lent[o]] EXCEPT !.state = "idle", !.order = NoOne]]
    BY <1>4 DEF ReleaseOrderAddress
  <2> QED
    BY <1>2, <1>3, <2>1
<1>5. ASSUME NEW c \in Caller, UnbindAddressByAddress(c)
      PROVE  pool'[a] = pool[a] \/ Written(pool'[a])
  <2>1. \/ pool' = pool
        \/ pool' = [pool EXCEPT ![arg[c]] =
                      [pool[arg[c]] EXCEPT !.state = "idle", !.reference = NoOne]]
    BY <1>5 DEF UnbindAddressByAddress
  <2> QED
    BY <1>2, <1>3, <2>1
<1>6. ASSUME NEW c \in Caller, ArchiveAddress(c)
      PROVE  pool'[a] = pool[a] \/ Written(pool'[a])
  <2>1. pool' = pool \/ pool' = [pool EXCEPT ![arg[c]] =
                                   [pool[arg[c]] EXCEPT !.state = "archived"]]
    BY <1>6 DEF ArchiveAddress
  <2> QED
    BY <1>2, <1>3, <2>1
<1>7. ASSUME NEW c \in Caller, UnarchiveAddress(c)
      PROVE  pool'[a] = pool[a] \/ Written(pool'[a])
  <2>1. pool' = pool \/ pool' = [pool EXCEPT ![arg[c]] =
                                   [pool[arg[c]] EXCEPT !.state = "idle"]]
    BY <1>7 DEF UnarchiveAddress
  <2> QED
    BY <1>2, <1>3, <2>1
<1> QED
  BY <1>4, <1>5, <1>6, <1>7 DEF Written

(* Nothing is lent, bound or asked for in the beginning.                     *)
LEMMA InitPoolInv ==
  ASSUME NEW a \in Address, Init
  PROVE  TypeOK /\ PoolInv(a)
<1>1. TypeOK
  BY InitTypeOK
<1> QED
  BY <1>1, ConstantTypes
  DEF Init, PoolInv, RestingIsNobodys, LentIsHeld, ClosedReleasesItsOwn, UnwatchesItsOwn

(* PoolInv(a) holds as long as nobody has unarchived a while it had to rest.  *)
LEMMA PoolInvHolds ==
  ASSUME NEW a \in Address
  PROVE  Spec /\ []RestsUndisturbed(a) => [](TypeOK /\ PoolInv(a))
<1>1. Init => TypeOK /\ PoolInv(a)
  BY InitPoolInv
<1>2. TypeOK /\ PoolInv(a) /\ RestsUndisturbed(a) /\ [Next]_vars
        => TypeOK' /\ PoolInv(a)'
  BY NextTypeOK, NextPoolInv
<1> QED
  BY <1>1, <1>2, PTL DEF Spec

(* Two orders that share an address, or an open order whose address is gone,  *)
(* go back to one thing: the address was unarchived while it had to rest. No  *)
(* late handler of an earlier order, no overlap of binding, unbinding and     *)
(* archiving requests, stale as their checks may be, and no restart takes it. *)
THEOREM OpenOrderKeepsAddress ==
  ASSUME NEW a \in Address
  PROVE  Spec /\ []RestsUndisturbed(a) => []LentIsHeld(a)
<1>1. PoolInv(a) => LentIsHeld(a)
  BY DEF PoolInv
<1> QED
  BY <1>1, PoolInvHolds, PTL

(* A released address serves nobody until its cooldown period is over, unless *)
(* it was unarchived meanwhile: no other step of any request or order, and no *)
(* overlap of them, takes an address that rests.                              *)
THEOREM CooldownServed ==
  ASSUME NEW a \in Address
  PROVE  Spec /\ []RestsUndisturbed(a)
           => [][(a \in resting) =>
                   (pool[a].state \in {"idle", "archived"} =>
                      pool'[a].state \in {"idle", "archived"})]_vars
<1> DEFINE Serves == pool[a].state \in {"idle", "archived"} =>
                          pool'[a].state \in {"idle", "archived"}
<1>1. ASSUME TypeOK, PoolInv(a), [Next]_vars PROVE a \in resting => Serves
  <2> SUFFICES ASSUME a \in resting, pool[a].state \in {"idle", "archived"}
               PROVE  pool'[a].state \in {"idle", "archived"}
    OBVIOUS
  <2>1. a \in Address /\ a \in cooling /\ pool[a] \in Row
    BY <1>1 DEF PoolInv, RestingIsNobodys, TypeOK
  <2>2. ~Free(a)
    BY <2>1 DEF Free
  <2>3. TypeOK
    BY <1>1
  <2>4. ASSUME NEW b \in Address, AddAddress(b) PROVE Serves
    BY <2>1, <2>3, <2>4 DEF AddAddress, NoRow, TypeOK, Row
  <2>5. ASSUME NEW o \in Order, AllocateAddress(o) PROVE Serves
    <3>1. PICK b \in Address :
            /\ Free(b)
            /\ pool' = [pool EXCEPT ![b].state = "allocated", ![b].order = o]
      BY <2>5 DEF AllocateAddress
    <3> QED
      BY <2>1, <2>2, <2>3, <3>1 DEF TypeOK
  <2>6. ASSUME NEW c \in Caller, BindAddress(c) PROVE Serves
    <3>1. CASE UNCHANGED pool
      BY <3>1
    <3>2. ASSUME NEW b \in Address, Free(b),
                 pool' = [pool EXCEPT ![b].state = "bound", ![b].reference = arg[c]]
          PROVE  Serves
      BY <2>1, <2>2, <2>3, <3>2 DEF TypeOK
    <3> QED
      BY <2>6, <3>1, <3>2 DEF BindAddress
  <2>7. ASSUME NEW o \in Order, ReleaseOrderAddress(o) PROVE Serves
    BY <2>1, <2>3, <2>7, RowsUpdated
  <2>8. ASSUME NEW c \in Caller, UnbindAddress(c) PROVE Serves
    BY <2>1, <2>8 DEF UnbindAddress, NoRow
  <2>9. ASSUME NEW c \in Caller,
               UnbindAddressByAddress(c) \/ ArchiveAddress(c) \/ UnarchiveAddress(c)
        PROVE  Serves
    BY <2>1, <2>3, <2>9, RowsUpdated
  <2>10. CASE UNCHANGED pool
    BY <2>10
  <2> QED
    BY <1>1, <2>4, <2>5, <2>6, <2>7, <2>8, <2>9, <2>10
       DEF Next, OrderStep, RequestStarts, RequestStep, CooldownEnds, CloseOrder,
           OrderSettles, BindDepositAddress, UnbindDepositAddress, UnbindByAddress,
           CheckBeforeArchive, CheckBeforeUnarchive, WatchDepositAddress, UnwatchDepositAddress,
           Restart, vars
<1>2. TypeOK /\ PoolInv(a) /\ [Next]_vars => [(a \in resting) => Serves]_vars
  BY <1>1
<1> QED
  BY <1>2, PoolInvHolds, PTL DEF Spec

-----------------------------------------------------------------------------
(* Deposits.                                                                 *)

(* References disappear from rows, and only bindAddress writes one.          *)
LEMMA ReferencesShrink ==
  ASSUME TypeOK, [Next]_vars, \A c \in Caller : ~BindAddress(c)
  PROVE  \A a \in Address : pool'[a].reference \in {pool[a].reference, NoOne}
<1> SUFFICES ASSUME NEW a \in Address
             PROVE  pool'[a].reference \in {pool[a].reference, NoOne}
  OBVIOUS
<1>0. pool[a] \in Row /\ pool \in [Address -> Row]
  BY DEF TypeOK
<1>1. ASSUME NEW b \in Address, AddAddress(b)
      PROVE  pool'[a].reference \in {pool[a].reference, NoOne}
  BY <1>0, <1>1 DEF AddAddress, Row
<1>2. ASSUME NEW o \in Order, AllocateAddress(o)
      PROVE  pool'[a].reference \in {pool[a].reference, NoOne}
  BY <1>0, <1>2 DEF AllocateAddress, Row
<1>3. ASSUME \/ \E o \in Order : ReleaseOrderAddress(o)
             \/ \E c \in Caller :
                  UnbindAddressByAddress(c) \/ ArchiveAddress(c) \/ UnarchiveAddress(c)
      PROVE  pool'[a].reference \in {pool[a].reference, NoOne}
  BY <1>3, RowsUpdated
<1>4. ASSUME NEW c \in Caller, UnbindAddress(c)
      PROVE  pool'[a].reference \in {pool[a].reference, NoOne}
  BY <1>4 DEF UnbindAddress, NoRow
<1>5. CASE UNCHANGED pool
  BY <1>5
<1> QED
  BY <1>1, <1>2, <1>3, <1>4, <1>5
     DEF Next, OrderStep, RequestStarts, RequestStep, CooldownEnds, CloseOrder,
         OrderSettles, BindDepositAddress, UnbindDepositAddress, UnbindByAddress,
         CheckBeforeArchive, CheckBeforeUnarchive, WatchDepositAddress, UnwatchDepositAddress,
         Restart, vars

(* The requests that bind are those whose lookup found nothing.              *)
LEMMA BindersStart ==
  ASSUME TypeOK, [Next]_vars, NEW c \in Caller, pc'[c] = "bind"
  PROVE  /\ arg'[c] \in Reference
         /\ \/ pc[c] = "bind" /\ arg'[c] = arg[c]
            \/ BoundTo(arg'[c]) = {} /\ UNCHANGED pool
<1> USE DEF TypeOK, requests, Starts, Ends
<1>1. ASSUME NEW d \in Caller, RequestStarts(d)
      PROVE  \/ pc[c] = "bind" /\ arg'[c] = arg[c]
             \/ BoundTo(arg'[c]) = {} /\ UNCHANGED pool
  BY <1>1 DEF RequestStarts, BindDepositAddress, UnbindDepositAddress, UnbindByAddress,
              CheckBeforeArchive, CheckBeforeUnarchive
<1>2. ASSUME NEW d \in Caller, RequestStep(d) PROVE pc[c] = "bind" /\ arg'[c] = arg[c]
  BY <1>2 DEF RequestStep, BindAddress, WatchDepositAddress, UnwatchDepositAddress,
              UnbindAddress, UnbindAddressByAddress, ArchiveAddress, UnarchiveAddress
<1>3. CASE UNCHANGED requests
  BY <1>3
<1>4. arg'[c] \in Reference
  BY NextTypeOK
<1> QED
  BY <1>1, <1>2, <1>3, <1>4
     DEF Next, OrderStep, AddAddress, CooldownEnds, AllocateAddress,
         CloseOrder, ReleaseOrderAddress, OrderSettles, Restart, vars

(* No two requests are between their lookup of r and the UPDATE that binds an *)
(* address to it, which does not look again, at once.                        *)
BindsApart(r) ==
  \A c, d \in Caller :
    pc[c] = "bind" /\ pc[d] = "bind" /\ arg[c] = r /\ arg[d] = r => c = d

(* A request that binds r has found no binding, and there still is none.     *)
BindingInv(r) ==
  /\ \A c \in Caller : pc[c] = "bind" /\ arg[c] = r => BoundTo(r) = {}
  /\ \A a, b \in BoundTo(r) : a = b

(* Every step keeps BindingInv; only bindAddress could break it.             *)
LEMMA NextBindingInv ==
  ASSUME NEW r \in Reference, TypeOK, BindsApart(r), BindingInv(r), [Next]_vars
  PROVE  BindingInv(r)'
<1>1. ASSUME NEW c \in Caller, BindAddress(c)
      PROVE  BindingInv(r)'
  <2>1. CASE Ends(c) /\ UNCHANGED pool
    <3>1. \A d \in Caller : pc'[d] = "bind" => pc[d] = "bind" /\ arg'[d] = arg[d]
      BY <2>1 DEF TypeOK, Ends
    <3> QED
      BY <2>1, <3>1 DEF BindingInv, BoundTo
  <2>2. ASSUME NEW a \in Address,
               pool' = [pool EXCEPT ![a].state = "bound", ![a].reference = arg[c]],
               pc' = [pc EXCEPT ![c] = "watch"], arg' = [arg EXCEPT ![c] = a],
               Free(a)
        PROVE  BindingInv(r)'
    <3>1. pc[c] = "bind"
      BY <1>1 DEF BindAddress
    <3>2. pool'[a].reference = arg[c] /\ \A b \in Address \ {a} : pool'[b] = pool[b]
      BY <2>2 DEF TypeOK, Row
    <3>3. \A d \in Caller : pc'[d] = "bind" =>
            d # c /\ pc[d] = "bind" /\ arg'[d] = arg[d]
      BY <2>2 DEF TypeOK
    <3>4. CASE arg[c] = r
      BY <3>1, <3>2, <3>3, <3>4 DEF BindingInv, BoundTo, BindsApart
    <3>5. CASE arg[c] # r
      BY <3>2, <3>3, <3>5 DEF BindingInv, BoundTo
    <3> QED
      BY <3>4, <3>5
  <2> QED
    BY <1>1, <2>1, <2>2 DEF BindAddress
<1>2. ASSUME \A c \in Caller : ~BindAddress(c)
      PROVE  BindingInv(r)'
  <2>1. BoundTo(r)' \subseteq BoundTo(r)
    BY <1>2, ReferencesShrink, ConstantTypes DEF BoundTo
  <2>2. ASSUME NEW c \in Caller, pc'[c] = "bind", arg'[c] = r
        PROVE  BoundTo(r) = {}
    BY <2>2, BindersStart DEF BindingInv
  <2> QED
    BY <2>1, <2>2 DEF BindingInv
<1> QED
  BY <1>1, <1>2

(* A second deposit address of a user goes back to one thing: two requests    *)
(* that bind looked the first one up before either had bound it. Nothing in   *)
(* the table excludes that. Unbinding, releasing and archiving requests in    *)
(* flight together with a binding one never lead to it, nor does a restart.   *)
THEOREM OneAddress ==
  ASSUME NEW r \in Reference
  PROVE  Spec /\ []BindsApart(r) => [](\A a, b \in BoundTo(r) : a = b)
<1> DEFINE One == \A a, b \in BoundTo(r) : a = b
<1>1. Init => TypeOK /\ BindingInv(r)
  BY InitTypeOK, ConstantTypes DEF Init, BindingInv, BoundTo, NoRow
<1>2. TypeOK /\ BindingInv(r) /\ BindsApart(r) /\ [Next]_vars => TypeOK' /\ BindingInv(r)'
  BY NextTypeOK, NextBindingInv
<1>3. BindingInv(r) => One
  BY DEF BindingInv
<1> QED
  BY <1>1, <1>2, <1>3, PTL DEF Spec

(* A bound address is watched unless the request that binds or unbinds it is  *)
(* still at work.                                                            *)
Attended(a) ==
  \E c \in Caller : \/ pc[c] = "watch" /\ arg[c] = a
                    \/ pc[c] = "unbind" /\ arg[c] = pool[a].reference

WatchedIfBound(a) == pool[a].state = "bound" => a \in watched \/ Attended(a)

(* No step unwatches a bound address but the one that unbinds it.            *)
LEMMA NextWatchedIfBound ==
  ASSUME NEW a \in Address, TypeOK, PoolInv(a), WatchedIfBound(a), [Next]_vars
  PROVE  WatchedIfBound(a)'
<1>t. TypeOK /\ TypeOK'
  BY NextTypeOK
<1> SUFFICES ASSUME pool'[a].state = "bound"
             PROVE  a \in watched' \/ Attended(a)'
  BY DEF WatchedIfBound
<1>w. pool[a].state = "bound" => a \in watched \/ Attended(a)
  BY DEF WatchedIfBound
<1> USE <1>t, <1>w DEF Attended, TypeOK, orders, requests, Starts, Ends
<1>1. ASSUME NEW b \in Address, AddAddress(b) PROVE a \in watched' \/ Attended(a)'
  BY <1>1 DEF AddAddress, Row
<1>2. ASSUME NEW b \in Address, CooldownEnds(b) PROVE a \in watched' \/ Attended(a)'
  BY <1>2 DEF CooldownEnds
<1>3. ASSUME NEW o \in Order, AllocateAddress(o) PROVE a \in watched' \/ Attended(a)'
  BY <1>3 DEF AllocateAddress, Row
<1>4. ASSUME NEW o \in Order, CloseOrder(o) \/ OrderSettles(o)
      PROVE  a \in watched' \/ Attended(a)'
  BY <1>4 DEF CloseOrder, OrderSettles
<1>5. ASSUME NEW o \in Order, ReleaseOrderAddress(o) PROVE a \in watched' \/ Attended(a)'
  <2>1. pool'[a] = pool[a]
    BY <1>5, RowsUpdated
  <2>2. lent[o] # a
    <3>1. pool[a].order = NoOne /\ a \notin resting
      BY <2>1 DEF PoolInv, RestingIsNobodys
    <3>2. o # NoOne /\ phase[o] \in {"closing", "released"}
      BY <1>5, ConstantTypes DEF ReleaseOrderAddress
    <3> QED
      BY <3>1, <3>2 DEF PoolInv, ClosedReleasesItsOwn
  <2> QED
    BY <1>5, <2>1, <2>2 DEF ReleaseOrderAddress
<1>6. ASSUME NEW c \in Caller, NEW r \in Reference, BindDepositAddress(c, r)
      PROVE  a \in watched' \/ Attended(a)'
  BY <1>6 DEF BindDepositAddress
<1>7. ASSUME NEW c \in Caller, NEW r \in Reference, UnbindDepositAddress(c, r)
      PROVE  a \in watched' \/ Attended(a)'
  BY <1>7 DEF UnbindDepositAddress, BoundTo
<1>8. ASSUME NEW c \in Caller, NEW b \in Address,
             UnbindByAddress(c, b) \/ CheckBeforeArchive(c, b)
               \/ CheckBeforeUnarchive(c, b)
      PROVE  a \in watched' \/ Attended(a)'
  BY <1>8 DEF UnbindByAddress, CheckBeforeArchive, CheckBeforeUnarchive
<1>9. ASSUME NEW c \in Caller, BindAddress(c) PROVE a \in watched' \/ Attended(a)'
  <2>1. CASE Ends(c) /\ UNCHANGED <<pool, watched>>
    BY <1>9, <2>1 DEF BindAddress
  <2>2. ASSUME NEW b \in Address, UNCHANGED watched,
               pool' = [pool EXCEPT ![b].state = "bound", ![b].reference = arg[c]],
               pc' = [pc EXCEPT ![c] = "watch"], arg' = [arg EXCEPT ![c] = b]
        PROVE  a \in watched' \/ Attended(a)'
    <3>1. CASE a = b
      BY <2>2, <3>1
    <3>2. CASE a # b
      BY <1>9, <2>2, <3>2 DEF BindAddress
    <3> QED
      BY <3>1, <3>2
  <2> QED
    BY <1>9, <2>1, <2>2 DEF BindAddress
<1>10. ASSUME NEW c \in Caller, WatchDepositAddress(c) PROVE a \in watched' \/ Attended(a)'
  BY <1>10 DEF WatchDepositAddress
<1>11. ASSUME NEW c \in Caller, UnbindAddress(c) PROVE a \in watched' \/ Attended(a)'
  BY <1>11 DEF UnbindAddress, BoundTo, NoRow
<1>12. ASSUME NEW c \in Caller,
              UnbindAddressByAddress(c) \/ ArchiveAddress(c) \/ UnarchiveAddress(c)
       PROVE  a \in watched' \/ Attended(a)'
  <2>1. pool'[a] = pool[a]
    BY <1>12, RowsUpdated
  <2>2. /\ pc[c] \in {"unbindByAddress", "archive", "unarchive"}
        /\ Ends(c) /\ UNCHANGED watched
    BY <1>12 DEF UnbindAddressByAddress, ArchiveAddress, UnarchiveAddress
  <2> QED
    BY <2>1, <2>2
<1>13. CASE Restart
  BY <1>13 DEF Restart
<1>14. CASE UNCHANGED vars
  BY <1>14 DEF vars
<1>15. ASSUME NEW c \in Caller, UnwatchDepositAddress(c)
       PROVE  a \in watched' \/ Attended(a)'
  <2>1. /\ UNCHANGED <<pool, arg, resting>> /\ watched' = watched \ {found[c]}
        /\ pc[c] = "unwatch" /\ pc' = [pc EXCEPT ![c] = "unbind"]
    BY <1>15 DEF UnwatchDepositAddress
  <2>2. CASE found[c] = a
    <3>1. a \notin resting
      BY <2>1 DEF PoolInv, RestingIsNobodys
    <3>2. pool[a].reference = arg[c]
      BY <2>2, <3>1 DEF PoolInv, UnwatchesItsOwn
    <3> QED
      BY <2>1, <3>2
  <2>3. CASE found[c] # a
    BY <2>1, <2>3
  <2> QED
    BY <2>2, <2>3
<1> QED
  BY <1>1, <1>2, <1>3, <1>4, <1>5, <1>6, <1>7, <1>8, <1>9, <1>10, <1>11, <1>12, <1>13, <1>14,
     <1>15
     DEF Next, OrderStep, RequestStarts, RequestStep

(* Deposits are not missed: a bound address is among the monitor's targets    *)
(* unless the request that binds or unbinds it is still at work, or it was    *)
(* unarchived while it had to rest. A late handler of an order, or a request  *)
(* that looked the address up for the reference it was bound to before,       *)
(* cannot unwatch it: it rests until both have ended.                        *)
THEOREM BoundAreWatched ==
  ASSUME NEW a \in Address
  PROVE  Spec /\ []RestsUndisturbed(a) => []WatchedIfBound(a)
<1>1. Init => WatchedIfBound(a)
  BY DEF Init, WatchedIfBound, NoRow
<1>2. TypeOK /\ PoolInv(a) /\ WatchedIfBound(a) /\ [Next]_vars => WatchedIfBound(a)'
  BY NextWatchedIfBound
<1> QED
  BY <1>1, <1>2, PoolInvHolds, PTL DEF Spec

=============================================================================
