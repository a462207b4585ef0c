------------------------------ MODULE AddressPool ------------------------------
(***************************************************************************)
(* The pool of payment addresses of one organization and one protocol: the *)
(* address_pool table, the deposit service that binds addresses to         *)
(* references for good, the orders that borrow them, and the operators who *)
(* archive them.                                                           *)
(*                                                                         *)
(* Most requests are a SELECT, a decision and an UPDATE that repeats none  *)
(* of the conditions decided on, without a transaction: other requests run *)
(* in between. What protects a row is the CHECK constraint of the table.   *)
(***************************************************************************)
EXTENDS Naturals

CONSTANTS
  Address,        \* addresses of the pool
  Order,          \* order ids
  Reference,      \* deposit references, one for each user of the merchant
  Caller,         \* requests that can be in flight together
  NoOne,          \* NULL in order_id, deposit_reference and a request's argument
  Overlap,        \* may two requests about the same thing be in flight together?
  EarlyUnarchive, \* do operators unarchive addresses that still have to rest?
  MaxCrashes      \* bound on the crashes of one behaviour

ASSUME ConstantTypes ==
  /\ NoOne \notin Address \cup Order \cup Reference
  /\ Address \cap Reference = {}
  /\ Overlap \in BOOLEAN
  /\ EarlyUnarchive \in BOOLEAN
  /\ MaxCrashes \in Nat

VARIABLES
  pool,     \* the table: state, order_id and deposit_reference of each address
  cooling,  \* addresses whose cooldown_until lies in the future
  resting,  \* addresses released less than a cooldown period ago
  watched,  \* addresses among the monitor's targets
  phase,    \* of each order: new, open, closing, released, closed
  lent,     \* orders.address
  pc,       \* the next statement of each request
  arg,      \* the reference or address a request is about
  found,    \* the address a request that unbinds has looked up
  crashes   \* crashes so far

vars == <<pool, cooling, resting, watched, phase, lent, pc, arg, found, crashes>>
orders == <<phase, lent>>
requests == <<pc, arg, found>>

Row == [state : {"absent", "idle", "allocated", "bound", "archived"},
        order : Order \cup {NoOne},
        reference : Reference \cup {NoOne}]

NoRow == [state |-> "absent", order |-> NoOne, reference |-> NoOne]

Init ==
  /\ pool = [a \in Address |-> NoRow]
  /\ cooling = {}
  /\ resting = {}
  /\ watched = {}
  /\ phase = [o \in Order |-> "new"]
  /\ lent = [o \in Order |-> NoOne]
  /\ pc = [c \in Caller |-> "idle"]
  /\ arg = [c \in Caller |-> NoOne]
  /\ found = [c \in Caller |-> NoOne]
  /\ crashes = 0

-----------------------------------------------------------------------------
(* Faulty variant: the table is created without the constraint.             *)
AnyRowAllowed(row) == TRUE

(* CONSTRAINT address_pool_business_logic                                    *)
RowAllowed(row) ==
  \/ /\ row.state = "allocated"
     /\ row.order # NoOne /\ row.reference = NoOne
  \/ /\ row.state = "bound"
     /\ row.order = NoOne /\ row.reference # NoOne
  \/ /\ row.state \in {"absent", "idle", "archived"}
     /\ row.order = NoOne /\ row.reference = NoOne

(* Faulty variant: the query forgets cooldown_until.                         *)
FreeDuringCooldown(a) == pool[a] = [NoRow EXCEPT !.state = "idle"]

(* The addresses allocateAddressInTx and bindAddress choose from. Which one  *)
(* is taken first (the one idle for the longest time) is left open.          *)
Free(a) ==
  /\ pool[a] = [NoRow EXCEPT !.state = "idle"]
  /\ a \notin cooling

(* The address starts its cooldown.                                          *)
Rest(S) ==
  /\ cooling' = cooling \cup S
  /\ resting' = resting \cup S

(* A request about x starts with its SELECT. Requests about one reference or *)
(* one address run one after the other unless Overlap.                       *)
Starts(c, x, next) ==
  /\ pc[c] = "idle"
  /\ Overlap \/ \A d \in Caller : pc[d] # "idle" => arg[d] # x
  /\ pc' = [pc EXCEPT ![c] = next]
  /\ arg' = [arg EXCEPT ![c] = x]

Ends(c) ==
  /\ pc' = [pc EXCEPT ![c] = "idle"]
  /\ arg' = [arg EXCEPT ![c] = NoOne]
  /\ UNCHANGED found

-----------------------------------------------------------------------------
(* initializeAddressPool inserts addresses that are not there.               *)
AddAddress(a) ==
  /\ pool[a] = NoRow
  /\ pool' = [pool EXCEPT ![a].state = "idle"]
  /\ UNCHANGED <<cooling, resting, watched, orders, requests, crashes>>

(* cooldown_until passes. The cooldown outlives every handler of the order   *)
(* that held the address, and a request that has looked the address up.      *)
CooldownEnds(a) ==
  /\ a \in resting
  /\ \A o \in Order : lent[o] = a => phase[o] \in {"open", "closed"}
  /\ \A c \in Caller : found[c] # a
  /\ cooling' = cooling \ {a}
  /\ resting' = resting \ {a}
  /\ UNCHANGED <<pool, watched, orders, requests, crashes>>

-----------------------------------------------------------------------------
(* Orders, as far as they touch the pool; OrderPayment has the details.      *)

(* allocateAddressInTx; createOrder then watches the address.                *)
AllocateAddress(o) ==
  /\ phase[o] = "new"
  /\ \E a \in Address :
       /\ Free(a)
       /\ pool' = [pool EXCEPT ![a].state = "allocated", ![a].order = o]
       /\ lent' = [lent EXCEPT ![o] = a]
       /\ watched' = watched \cup {a}
  /\ phase' = [phase EXCEPT ![o] = "open"]
  /\ UNCHANGED <<cooling, resting, requests, crashes>>

(* The order becomes completed or expired.                                   *)
CloseOrder(o) ==
  /\ phase[o] = "open"
  /\ phase' = [phase EXCEPT ![o] = "closing"]
  /\ UNCHANGED <<pool, cooling, resting, watched, lent, requests, crashes>>

(* stopOrderMonitoring, once by each handler of the order that ends:         *)
(* unwatch, then releaseOrderAddress, whoever has the address by now. An     *)
(* UPDATE the constraint refuses is logged and forgotten.                    *)
ReleaseOrderAddress(o) ==
  LET a == lent[o]
      row == [pool[a] EXCEPT !.state = "idle", !.order = NoOne]
  IN  /\ phase[o] \in {"closing", "released"}
      /\ phase' = [phase EXCEPT ![o] = "released"]
      /\ watched' = watched \ {a}
      /\ IF RowAllowed(row)
         THEN pool' = [pool EXCEPT ![a] = row] /\ Rest({a})
         ELSE UNCHANGED <<pool, cooling, resting>>
      /\ UNCHANGED <<lent, requests, crashes>>

(* The last handler of the order has ended.                                  *)
OrderSettles(o) ==
  /\ phase[o] = "released"
  /\ phase' = [phase EXCEPT ![o] = "closed"]
  /\ UNCHANGED <<pool, cooling, resting, watched, lent, requests, crashes>>

-----------------------------------------------------------------------------
(* Deposits.                                                                 *)
BoundTo(r) == {a \in Address : pool[a].reference = r}

(* Faulty variant: an existing binding is not looked up.                     *)
BindWithoutLookup(c, r) ==
  /\ Starts(c, r, "bind")
  /\ UNCHANGED <<pool, cooling, resting, watched, orders, found, crashes>>

(* bindDepositAddress: getUserDepositAddress. An existing binding is         *)
(* returned and the request ends.                                            *)
BindDepositAddress(c, r) ==
  /\ BoundTo(r) = {}
  /\ Starts(c, r, "bind")
  /\ UNCHANGED <<pool, cooling, resting, watched, orders, found, crashes>>

(* bindAddress; without a free address the request fails.                    *)
BindAddress(c) ==
  /\ pc[c] = "bind"
  /\ \/ \E a \in Address :
          /\ Free(a)
          /\ pool' = [pool EXCEPT ![a].state = "bound", ![a].reference = arg[c]]
          /\ pc' = [pc EXCEPT ![c] = "watch"]
          /\ arg' = [arg EXCEPT ![c] = a]
          /\ UNCHANGED found
     \/ /\ \A a \in Address : ~Free(a)
        /\ Ends(c)
        /\ UNCHANGED pool
  /\ UNCHANGED <<cooling, resting, watched, orders, crashes>>

(* watchAddressMatrix, after the binding has been logged.                    *)
WatchDepositAddress(c) ==
  /\ pc[c] = "watch"
  /\ watched' = watched \cup {arg[c]}
  /\ Ends(c)
  /\ UNCHANGED <<pool, cooling, resting, orders, crashes>>

(* unbindDepositAddress: getUserDepositAddress looks the address up, the      *)
(* first one if there are several ...                                        *)
UnbindDepositAddress(c, r) ==
  /\ \/ /\ BoundTo(r) = {}
        /\ Starts(c, r, "unbind")
        /\ UNCHANGED found
     \/ /\ Starts(c, r, "unwatch")
        /\ \E a \in BoundTo(r) : found' = [found EXCEPT ![c] = a]
  /\ UNCHANGED <<pool, cooling, resting, watched, orders, crashes>>

(* ... and unwatchAddressMatrix takes what was found from the targets.        *)
UnwatchDepositAddress(c) ==
  /\ pc[c] = "unwatch"
  /\ watched' = watched \ {found[c]}
  /\ pc' = [pc EXCEPT ![c] = "unbind"]
  /\ found' = [found EXCEPT ![c] = NoOne]
  /\ UNCHANGED <<pool, cooling, resting, orders, arg, crashes>>

(* Faulty variant: the UPDATE sets no cooldown.                              *)
UnbindWithoutCooldown(c) ==
  /\ pc[c] = "unbind"
  /\ pool' = [a \in Address |-> IF a \in BoundTo(arg[c])
                                THEN [NoRow EXCEPT !.state = "idle"] ELSE pool[a]]
  /\ resting' = resting \cup BoundTo(arg[c])
  /\ Ends(c)
  /\ UNCHANGED <<cooling, watched, orders, crashes>>

(* unbindAddress: one UPDATE of all the addresses of the reference.          *)
UnbindAddress(c) ==
  /\ pc[c] = "unbind"
  /\ pool' = [a \in Address |-> IF a \in BoundTo(arg[c])
                                THEN [NoRow EXCEPT !.state = "idle"] ELSE pool[a]]
  /\ Rest(BoundTo(arg[c]))
  /\ Ends(c)
  /\ UNCHANGED <<watched, orders, crashes>>

(* unbindAddressByAddress: the row must exist; nothing is unwatched.         *)
UnbindByAddress(c, a) ==
  /\ pool[a] # NoRow
  /\ Starts(c, a, "unbindByAddress")
  /\ UNCHANGED <<pool, cooling, resting, watched, orders, found, crashes>>

UnbindAddressByAddress(c) ==
  LET a == arg[c]
      row == [pool[a] EXCEPT !.state = "idle", !.reference = NoOne]
  IN  /\ pc[c] = "unbindByAddress"
      /\ IF RowAllowed(row)
         THEN pool' = [pool EXCEPT ![a] = row] /\ Rest({a})
         ELSE UNCHANGED <<pool, cooling, resting>>
      /\ Ends(c)
      /\ UNCHANGED <<watched, orders, crashes>>

-----------------------------------------------------------------------------
(* Operators.                                                                *)

(* archiveAddress, unarchiveAddress: the check of the state ...              *)
CheckBeforeArchive(c, a) ==
  /\ pool[a].state = "idle"
  /\ Starts(c, a, "archive")
  /\ UNCHANGED <<pool, cooling, resting, watched, orders, found, crashes>>

CheckBeforeUnarchive(c, a) ==
  /\ pool[a].state = "archived"
  /\ EarlyUnarchive \/ a \notin resting
  /\ Starts(c, a, "unarchive")
  /\ UNCHANGED <<pool, cooling, resting, watched, orders, found, crashes>>

(* ... and the UPDATE, which selects the row by its address alone.           *)
ArchiveAddress(c) ==
  LET row == [pool[arg[c]] EXCEPT !.state = "archived"]
  IN  /\ pc[c] = "archive"
      /\ pool' = IF RowAllowed(row) THEN [pool EXCEPT ![arg[c]] = row] ELSE pool
      /\ Ends(c)
      /\ UNCHANGED <<cooling, resting, watched, orders, crashes>>

UnarchiveAddress(c) ==
  LET row == [pool[arg[c]] EXCEPT !.state = "idle"]
  IN  /\ pc[c] = "unarchive"
      /\ IF RowAllowed(row)
         THEN /\ pool' = [pool EXCEPT ![arg[c]] = row]
              /\ cooling' = cooling \ {arg[c]}
         ELSE UNCHANGED <<pool, cooling>>
      /\ Ends(c)
      /\ UNCHANGED <<resting, watched, orders, crashes>>

-----------------------------------------------------------------------------
(* Faulty variant: only pending orders are restored.                         *)
RestartWithoutDeposits ==
  /\ crashes < MaxCrashes
  /\ crashes' = crashes + 1
  /\ watched' = {lent[o] : o \in {p \in Order : phase[p] = "open"}}
  /\ phase' = [o \in Order |-> IF phase[o] \in {"closing", "released"}
                               THEN "closed" ELSE phase[o]]
  /\ pc' = [c \in Caller |-> "idle"]
  /\ arg' = [c \in Caller |-> NoOne]
  /\ found' = [c \in Caller |-> NoOne]
  /\ UNCHANGED <<pool, cooling, resting, lent>>

(* The process dies with its requests and handlers, and starts again:        *)
(* restoreMonitoringTargets watches pending orders and bound addresses.      *)
Restart ==
  /\ crashes < MaxCrashes
  /\ crashes' = crashes + 1
  /\ watched' = {lent[o] : o \in {p \in Order : phase[p] = "open"}}
                  \cup {a \in Address : pool[a].state = "bound"}
  /\ phase' = [o \in Order |-> IF phase[o] \in {"closing", "released"}
                               THEN "closed" ELSE phase[o]]
  /\ pc' = [c \in Caller |-> "idle"]
  /\ arg' = [c \in Caller |-> NoOne]
  /\ found' = [c \in Caller |-> NoOne]
  /\ UNCHANGED <<pool, cooling, resting, lent>>

OrderStep(o) ==
  \/ AllocateAddress(o)
  \/ CloseOrder(o)
  \/ ReleaseOrderAddress(o)
  \/ OrderSettles(o)

RequestStarts(c) ==
  \/ \E r \in Reference : BindDepositAddress(c, r) \/ UnbindDepositAddress(c, r)
  \/ \E a \in Address :
       \/ UnbindByAddress(c, a)
       \/ CheckBeforeArchive(c, a)
       \/ CheckBeforeUnarchive(c, a)

RequestStep(c) ==
  \/ BindAddress(c)
  \/ WatchDepositAddress(c)
  \/ UnwatchDepositAddress(c)
  \/ UnbindAddress(c)
  \/ UnbindAddressByAddress(c)
  \/ ArchiveAddress(c)
  \/ UnarchiveAddress(c)

Next ==
  \/ \E a \in Address : AddAddress(a) \/ CooldownEnds(a)
  \/ \E o \in Order : OrderStep(o)
  \/ \E c \in Caller : RequestStarts(c) \/ RequestStep(c)
  \/ Restart

Spec == Init /\ [][Next]_vars

-----------------------------------------------------------------------------
(* Properties.                                                               *)

(* Every row has one of the shapes the code expects to read: an owner of one *)
(* kind at most, and a state that agrees with it.                            *)
TypeOK ==
  /\ pool \in [Address -> Row]
  /\ \A a \in Address :
       /\ (pool[a].state = "allocated") <=> (pool[a].order # NoOne)
       /\ (pool[a].state = "bound") <=> (pool[a].reference # NoOne)
  /\ cooling \subseteq Address
  /\ resting \subseteq Address
  /\ watched \subseteq Address
  /\ phase \in [Order -> {"new", "open", "closing", "released", "closed"}]
  /\ lent \in [Order -> Address \cup {NoOne}]
  /\ \A o \in Order : phase[o] # "new" => lent[o] \in Address
  /\ pc \in [Caller -> {"idle", "bind", "watch", "unwatch", "unbind",
                        "unbindByAddress", "archive", "unarchive"}]
  /\ arg \in [Caller -> Address \cup Reference \cup {NoOne}]
  /\ \A c \in Caller :
       /\ pc[c] \in {"bind", "unwatch", "unbind"} => arg[c] \in Reference
       /\ pc[c] \in {"watch", "unbindByAddress", "archive", "unarchive"}
            => arg[c] \in Address
  /\ found \in [Caller -> Address \cup {NoOne}]
  /\ \A c \in Caller : (found[c] # NoOne) <=> (pc[c] = "unwatch")
  /\ crashes \in 0..MaxCrashes

(* An open order keeps its address whatever late handlers of earlier orders, *)
(* unbinding and archiving requests do to the row.                           *)
OpenOrderHoldsAddress ==
  \A o \in Order : phase[o] = "open" => pool[lent[o]].order = o

(* A user has one deposit address.                                           *)
OneAddressPerReference ==
  \A r \in Reference : \A a, b \in BoundTo(r) : a = b

(* Deposits are not missed: a bound address is watched unless the request    *)
(* that binds or unbinds it is still at work.                                *)
BoundIsWatched ==
  \A a \in Address :
    /\ pool[a].state = "bound"
    /\ \A c \in Caller : /\ pc[c] = "watch" => arg[c] # a
                         /\ pc[c] = "unbind" => arg[c] # pool[a].reference
    => a \in watched

(* A released address serves nobody until its cooldown period is over.       *)
CooldownIsServed ==
  [][\A a \in resting : pool[a].state \in {"idle", "archived"} =>
                          pool'[a].state \in {"idle", "archived"}]_vars

=============================================================================
