---------------------------- MODULE OrderClosingProofs ----------------------------
(***************************************************************************)
(* More theorems about OrderPayment. A pending order keeps its address and *)
(* stays attended, whatever overlaps, as long as a cooldown outlives the    *)
(* work for the order that had the address. And where exactly the code is   *)
(* open to overlapping handlers: of all the places where two handlers of an *)
(* order can meet, one alone lets a final status be left, and one alone     *)
(* lets the running total fall.                                             *)
(***************************************************************************)
EXTENDS OrderPaymentProofs

(* Nothing is in flight for order o.                                          *)
NoWork(o) ==
  /\ \A w \in Worker : busy(w) => job(w) # o
  /\ \A t \in queue \cup recording : ctx[t] # o

(* What a process that is down has left: no timer, no work.                   *)
AtRest ==
  timers = {} /\ queue = {} /\ recording = {} /\ \A w \in Worker : ~busy(w)

(* What is left to restore is pending and nobody works for it; a process      *)
(* that is down has no work.                                                  *)
RestoreInv ==
  /\ TypeOK /\ WorkIsSeen
  /\ \A o \in toRestore :
       mode = "restoring" /\ status[o] = "pending" /\ o \notin timers /\ NoWork(o)
  /\ creating # {} => mode = "up"
  /\ mode = "down" => AtRest

(* The address of o has not been given to another order.                      *)
HeldOrCooling(o) == holder[address[o]] = o \/ address[o] \in cooling

(* An address is not given away while work for its order is in flight: a      *)
(* late release cannot hit the next holder.                                   *)
WorkKeepsAddress ==
  /\ \A w \in Worker : busy(w) => HeldOrCooling(job(w))
  /\ \A t \in queue \cup recording : HeldOrCooling(ctx[t])

(* An address in its cooldown has no holder.                                  *)
CoolingIsIdle == \A a \in cooling : holder[a] = NoOrder

(* Only a closed order is announced, unwatched and released.                  *)
StopsTheClosed ==
  \A w \in Worker : pc[w] \in {"emit", "stop", "release"} => status[job(w)] \in Final

(* An armed timer belongs to the holder of an address.                        *)
TimedHoldsAddress == \A o \in timers : holder[address[o]] = o

(* A watched address has a holder, so its cooldown has not begun.             *)
WatchedIsHeld == \A a \in watched : holder[a] # NoOrder

(* An address is unwatched before it is released.                             *)
ReleasedIsUnwatched ==
  \A w \in Worker : pc[w] = "release" => address[job(w)] \notin watched

(* Nobody works for an order its createOrder call has just committed.         *)
NewIsUntouched ==
  \A o \in creating :
    status[o] = "pending" /\ address[o] \notin watched /\ o \notin timers /\ NoWork(o)

(* Inductive for PendingHoldsAddress.                                         *)
HoldInv ==
  /\ RestoreInv
  /\ PendingHoldsAddress
  /\ WorkKeepsAddress
  /\ CoolingIsIdle
  /\ StopsTheClosed
  /\ TimedHoldsAddress
  /\ WatchedIsHeld
  /\ ReleasedIsUnwatched
  /\ NewIsUntouched

(* The payments of o are looked for, and its end is prepared.                 *)
Attended(o) ==
  address[o] \in watched /\ (o \in timers \/ pc[o] \in {"read", "check", "set"})

(* Inductive for PendingIsAttended.                                           *)
AttendInv ==
  /\ HoldInv
  /\ mode # "down" =>
       \A o \in Order :
         status[o] = "pending" => o \in creating \cup toRestore \/ Attended(o)

(* Only a restart gives orders to restore, and no handler starts for one      *)
(* before it is restored.                                                     *)
LEMMA NextRestoreInv ==
  ASSUME RestoreInv, [Next]_vars
  PROVE  RestoreInv'
<1>t. TypeOK' /\ WorkIsSeen'
  BY NextTypeOK, NextWorkIsSeen DEF RestoreInv
<1> DEFINE Untouched == /\ \A o \in toRestore : mode = "restoring" /\ status[o] = "pending"
                                                /\ o \notin timers /\ NoWork(o)
                        /\ creating # {} => mode = "up"
                        /\ mode = "down" => AtRest
<1> SUFFICES Untouched'
  BY <1>t DEF RestoreInv
<1>s. TypeOK /\ WorkIsSeen /\ Untouched
  BY DEF RestoreInv
<1> USE SetsDisjoint, <1>s
    DEF TypeOK, WorkIsSeen, NoWork, AtRest, busy, job, Worker, tables, boot, intake,
        handlers, outside
<1>1. ASSUME NEW o \in Order, CreateOrder(o) PROVE Untouched'
  BY <1>1 DEF CreateOrder
<1>2. ASSUME NEW o \in Order, MonitorNewOrder(o) PROVE Untouched'
  BY <1>2 DEF MonitorNewOrder
<1>3. ASSUME NEW o \in Order, GraceEnds(o) PROVE Untouched'
  BY <1>3 DEF GraceEnds
<1>4. ASSUME NEW o \in Order, GraceTimerFires(o) PROVE Untouched'
  BY <1>4 DEF GraceTimerFires, MayStart, Free
<1>5. ASSUME NEW o \in Order, ReadAtTimeout(o) PROVE Untouched'
  BY <1>5 DEF ReadAtTimeout
<1>6. ASSUME NEW o \in Order, RestoreOrder(o) PROVE Untouched'
  BY <1>6 DEF RestoreOrder, LoopGoesOn
<1>7. ASSUME NEW t \in Transfer, TransferDetected(t) PROVE Untouched'
  BY <1>7 DEF TransferDetected, ActiveOrders
<1>8. ASSUME NEW t \in Transfer, RecordTransfer(t) PROVE Untouched'
  BY <1>8 DEF RecordTransfer
<1>9. ASSUME NEW t \in Transfer, TransactionConfirmed(t) PROVE Untouched'
  BY <1>9 DEF TransactionConfirmed, MayStart, Free
<1>10. ASSUME NEW t \in Transfer, TransactionForgotten(t) PROVE Untouched'
  BY <1>10 DEF TransactionForgotten
<1>11. ASSUME NEW t \in Transfer, MarkConfirmed(t) PROVE Untouched'
  BY <1>11 DEF MarkConfirmed
<1>12. ASSUME NEW t \in Transfer, SumConfirmed(t) PROVE Untouched'
  BY <1>12 DEF SumConfirmed
<1>13. ASSUME NEW t \in Transfer, UpdateReceived(t) PROVE Untouched'
  BY <1>13 DEF UpdateReceived
<1>14. ASSUME NEW w \in Worker, CheckTransition(w) PROVE Untouched'
  BY <1>14 DEF CheckTransition, IsValidTransition
<1>15. ASSUME NEW w \in Worker, SetStatus(w) PROVE Untouched'
  BY <1>15 DEF SetStatus
<1>16. ASSUME NEW w \in Worker, EmitStatusChange(w) PROVE Untouched'
  BY <1>16 DEF EmitStatusChange
<1>17. ASSUME NEW w \in Worker, StopMonitoring(w) PROVE Untouched'
  BY <1>17 DEF StopMonitoring
<1>18. ASSUME NEW w \in Worker, ReleaseAddress(w) PROVE Untouched'
  BY <1>18 DEF ReleaseAddress
<1>19. ASSUME NEW w \in Worker, HandlerFails(w) PROVE Untouched'
  BY <1>19 DEF HandlerFails
<1>20. ASSUME NEW a \in Address, CooldownEnds(a) PROVE Untouched'
  BY <1>20 DEF CooldownEnds
<1>21. CASE Crash
  BY <1>21 DEF Crash
<1>22. CASE Restart
  BY <1>22 DEF Restart
<1>23. CASE StartServices
  BY <1>23 DEF StartServices
<1>24. CASE RecoveryCompletes
  BY <1>24 DEF RecoveryCompletes
<1>25. CASE UNCHANGED vars
  BY <1>25 DEF vars
<1> QED
  BY <1>1, <1>2, <1>3, <1>4, <1>5, <1>6, <1>7, <1>8, <1>9, <1>10, <1>11, <1>12,
     <1>13, <1>14, <1>15, <1>16, <1>17, <1>18, <1>19, <1>20, <1>21, <1>22, <1>23,
     <1>24, <1>25
     DEF Next, OrderStep, TransferStep, ConfirmationStep, ClosingStep

(* The order of the statements matters: status, unwatch, release. Work that   *)
(* comes after the release is what the cooldown is long enough for.           *)
LEMMA NextHoldInv ==
  ASSUME CooldownOutlivesWork, HoldInv, [Next]_vars
  PROVE  HoldInv'
<1>r. RestoreInv /\ RestoreInv'
  BY NextRestoreInv DEF HoldInv
<1> DEFINE Held == /\ PendingHoldsAddress
                   /\ WorkKeepsAddress
                   /\ CoolingIsIdle
                   /\ StopsTheClosed
                   /\ TimedHoldsAddress
                   /\ WatchedIsHeld
                   /\ ReleasedIsUnwatched
                   /\ NewIsUntouched
<1> SUFFICES Held'
  BY <1>r DEF HoldInv
<1>s. Held
  BY DEF HoldInv
<1> USE SetsDisjoint, <1>s, <1>r
    DEF RestoreInv, PendingHoldsAddress, WorkKeepsAddress, CoolingIsIdle, StopsTheClosed,
        TimedHoldsAddress, WatchedIsHeld, ReleasedIsUnwatched, NewIsUntouched,
        HeldOrCooling,
        TypeOK, WorkIsSeen, NoWork, AtRest, busy, job, Worker, tables, boot, intake,
        handlers, outside
<1>1. ASSUME NEW o \in Order, CreateOrder(o) PROVE Held'
  BY <1>1 DEF CreateOrder
<1>2. ASSUME NEW o \in Order, MonitorNewOrder(o) PROVE Held'
  BY <1>2 DEF MonitorNewOrder
<1>3. ASSUME NEW o \in Order, GraceEnds(o) PROVE Held'
  BY <1>3 DEF GraceEnds
<1>4. ASSUME NEW o \in Order, GraceTimerFires(o) PROVE Held'
  BY <1>4 DEF GraceTimerFires, MayStart, Free
<1>5. ASSUME NEW o \in Order, ReadAtTimeout(o) PROVE Held'
  BY <1>5 DEF ReadAtTimeout
<1>6. ASSUME NEW o \in Order, RestoreOrder(o) PROVE Held'
  BY <1>6 DEF RestoreOrder, LoopGoesOn
<1>7. ASSUME NEW t \in Transfer, TransferDetected(t) PROVE Held'
  BY <1>7 DEF TransferDetected, ActiveOrders
<1>8. ASSUME NEW t \in Transfer, RecordTransfer(t) PROVE Held'
  BY <1>8 DEF RecordTransfer
<1>9. ASSUME NEW t \in Transfer, TransactionConfirmed(t) PROVE Held'
  BY <1>9 DEF TransactionConfirmed, MayStart, Free
<1>10. ASSUME NEW t \in Transfer, TransactionForgotten(t) PROVE Held'
  BY <1>10 DEF TransactionForgotten
<1>11. ASSUME NEW t \in Transfer, MarkConfirmed(t) PROVE Held'
  BY <1>11 DEF MarkConfirmed
<1>12. ASSUME NEW t \in Transfer, SumConfirmed(t) PROVE Held'
  BY <1>12 DEF SumConfirmed
<1>13. ASSUME NEW t \in Transfer, UpdateReceived(t) PROVE Held'
  BY <1>13 DEF UpdateReceived
<1>14. ASSUME NEW w \in Worker, CheckTransition(w) PROVE Held'
  <2>1. /\ UNCHANGED <<tables, boot, creating, watched, timers, intake, goal, total>>
        /\ pc[w] = "check" /\ pc'[w] \in {"set", "stop"}
        /\ \A v \in Worker \ {w} : pc'[v] = pc[v]
    BY <1>14 DEF CheckTransition
  <2>2. pc'[w] = "stop" => status[job(w)] \in Final
    BY <1>14, JobHasAddress DEF CheckTransition, IsValidTransition, Status, Final
  <2>3. StopsTheClosed'
    BY <2>1, <2>2
  <2>4. WorkKeepsAddress' /\ ReleasedIsUnwatched'
    BY <2>1
  <2> QED
    BY <2>1, <2>3, <2>4
<1>15. ASSUME NEW w \in Worker, SetStatus(w) PROVE Held'
  <2>1. /\ UNCHANGED <<address, holder, cooling, boot, creating, watched, timers, intake>>
        /\ pc[w] = "set" /\ pc'[w] = "emit"
        /\ \A v \in Worker \ {w} : pc'[v] = pc[v]
    BY <1>15 DEF SetStatus
  <2>2. /\ status' = [status EXCEPT ![job(w)] = goal[w]] /\ goal[w] \in Final
        /\ job(w) \in Order
    BY <1>15, JobHasAddress DEF SetStatus
  <2>3. StopsTheClosed'
    BY <2>1, <2>2 DEF Final
  <2>4. PendingHoldsAddress'
    BY <2>1, <2>2 DEF Final
  <2>5. NewIsUntouched'
    BY <2>1, <2>2
  <2> QED
    BY <2>1, <2>3, <2>4, <2>5
<1>16. ASSUME NEW w \in Worker, EmitStatusChange(w) PROVE Held'
  BY <1>16, SMTT(30) DEF EmitStatusChange
<1>17. ASSUME NEW w \in Worker, StopMonitoring(w) PROVE Held'
  BY <1>17 DEF StopMonitoring
<1>18. ASSUME NEW w \in Worker, ReleaseAddress(w) PROVE Held'
  <2> DEFINE a == address[job(w)]
  <2>1. /\ holder' = [holder EXCEPT ![a] = NoOrder] /\ cooling' = cooling \cup {a}
        /\ timers' = timers \ {job(w)} /\ pc[w] = "release" /\ pc'[w] = "idle"
        /\ \A v \in Worker \ {w} : pc'[v] = pc[v]
        /\ UNCHANGED <<status, address, boot, creating, watched, intake>>
    BY <1>18 DEF ReleaseAddress
  <2>2. a \in Address /\ job(w) \in Order /\ status[job(w)] \in Final
    BY <2>1, JobHasAddress
  <2>3. holder[a] \in {job(w), NoOrder} /\ a \notin watched
    BY <2>1
  <2>4. PendingHoldsAddress'
    BY <2>1, <2>2, <2>3 DEF Final
  <2>5. TimedHoldsAddress'
    BY <2>1, <2>2, <2>3
  <2>6. WorkKeepsAddress'
    BY <2>1, <2>2, SMTT(30)
  <2>7. CoolingIsIdle' /\ WatchedIsHeld'
    BY <2>1, <2>2, <2>3
  <2>8. StopsTheClosed' /\ ReleasedIsUnwatched' /\ NewIsUntouched'
    BY <2>1, <2>2
  <2> QED
    BY <2>4, <2>5, <2>6, <2>7, <2>8
<1>19. ASSUME NEW w \in Worker, HandlerFails(w) PROVE Held'
  BY <1>19 DEF HandlerFails
<1>20. ASSUME NEW a \in Address, CooldownEnds(a) PROVE Held'
  BY <1>20 DEF CooldownEnds
<1>21. CASE Crash
  BY <1>21 DEF Crash
<1>22. CASE Restart
  BY <1>22 DEF Restart
<1>23. CASE StartServices
  BY <1>23 DEF StartServices
<1>24. CASE RecoveryCompletes
  BY <1>24 DEF RecoveryCompletes
<1>25. CASE UNCHANGED vars
  BY <1>25 DEF vars
<1> QED
  BY <1>1, <1>2, <1>3, <1>4, <1>5, <1>6, <1>7, <1>8, <1>9, <1>10, <1>11, <1>12,
     <1>13, <1>14, <1>15, <1>16, <1>17, <1>18, <1>19, <1>20, <1>21, <1>22, <1>23,
     <1>24, <1>25
     DEF Next, OrderStep, TransferStep, ConfirmationStep, ClosingStep

(* A pending order leaves its timer to a handler, and a handler leaves it     *)
(* closed.                                                                    *)
LEMMA NextAttendInv ==
  ASSUME CooldownOutlivesWork, MaxFailures = 0, AttendInv, [Next]_vars
  PROVE  AttendInv'
<1>r. HoldInv /\ HoldInv'
  BY NextHoldInv DEF AttendInv
<1> DEFINE Kept == mode # "down" => \A o \in Order : status[o] = "pending" =>
                     o \in creating \cup toRestore \/ Attended(o)
<1> SUFFICES Kept'
  BY <1>r DEF AttendInv
<1>s. Kept
  BY DEF AttendInv
<1> USE SetsDisjoint, <1>s, <1>r
    DEF HoldInv, RestoreInv, PendingHoldsAddress, WorkKeepsAddress, CoolingIsIdle,
        StopsTheClosed,
        TypeOK, busy, job, Worker, Attended, Final, HeldOrCooling, tables, boot,
        intake, handlers, outside
<1>1. ASSUME NEW o \in Order, CreateOrder(o) PROVE Kept'
  BY <1>1 DEF CreateOrder
<1>2. ASSUME NEW o \in Order, MonitorNewOrder(o) PROVE Kept'
  BY <1>2 DEF MonitorNewOrder
<1>3. ASSUME NEW o \in Order, GraceEnds(o) PROVE Kept'
  BY <1>3 DEF GraceEnds
<1>4. ASSUME NEW o \in Order, GraceTimerFires(o) PROVE Kept'
  BY <1>4 DEF GraceTimerFires, MayStart, Free
<1>5. ASSUME NEW o \in Order, ReadAtTimeout(o) PROVE Kept'
  BY <1>5 DEF ReadAtTimeout
<1>6. ASSUME NEW o \in Order, RestoreOrder(o) PROVE Kept'
  BY <1>6 DEF RestoreOrder, LoopGoesOn
<1>7. ASSUME NEW t \in Transfer, TransferDetected(t) PROVE Kept'
  BY <1>7 DEF TransferDetected, ActiveOrders
<1>8. ASSUME NEW t \in Transfer, RecordTransfer(t) PROVE Kept'
  BY <1>8 DEF RecordTransfer
<1>9. ASSUME NEW t \in Transfer, TransactionConfirmed(t) PROVE Kept'
  BY <1>9 DEF TransactionConfirmed, MayStart, Free
<1>10. ASSUME NEW t \in Transfer, TransactionForgotten(t) PROVE Kept'
  BY <1>10 DEF TransactionForgotten
<1>11. ASSUME NEW t \in Transfer, MarkConfirmed(t) PROVE Kept'
  BY <1>11 DEF MarkConfirmed
<1>12. ASSUME NEW t \in Transfer, SumConfirmed(t) PROVE Kept'
  BY <1>12 DEF SumConfirmed
<1>13. ASSUME NEW t \in Transfer, UpdateReceived(t) PROVE Kept'
  BY <1>13 DEF UpdateReceived
<1>14. ASSUME NEW w \in Worker, CheckTransition(w) PROVE Kept'
  BY <1>14 DEF CheckTransition, IsValidTransition
<1>15. ASSUME NEW w \in Worker, SetStatus(w) PROVE Kept'
  BY <1>15 DEF SetStatus
<1>16. ASSUME NEW w \in Worker, EmitStatusChange(w) PROVE Kept'
  BY <1>16 DEF EmitStatusChange
<1>17. ASSUME NEW w \in Worker, StopMonitoring(w) PROVE Kept'
  BY <1>17 DEF StopMonitoring
<1>18. ASSUME NEW w \in Worker, ReleaseAddress(w) PROVE Kept'
  BY <1>18 DEF ReleaseAddress
<1>19. ASSUME NEW w \in Worker, HandlerFails(w) PROVE Kept'
  BY <1>19 DEF HandlerFails
<1>20. ASSUME NEW a \in Address, CooldownEnds(a) PROVE Kept'
  BY <1>20 DEF CooldownEnds
<1>21. CASE Crash
  BY <1>21 DEF Crash
<1>22. CASE Restart
  BY <1>22 DEF Restart
<1>23. CASE StartServices
  BY <1>23 DEF StartServices
<1>24. CASE RecoveryCompletes
  BY <1>24 DEF RecoveryCompletes
<1>25. CASE UNCHANGED vars
  BY <1>25 DEF vars
<1> QED
  BY <1>1, <1>2, <1>3, <1>4, <1>5, <1>6, <1>7, <1>8, <1>9, <1>10, <1>11, <1>12,
     <1>13, <1>14, <1>15, <1>16, <1>17, <1>18, <1>19, <1>20, <1>21, <1>22, <1>23,
     <1>24, <1>25
     DEF Next, OrderStep, TransferStep, ConfirmationStep, ClosingStep

-----------------------------------------------------------------------------
(* Nothing is created, watched or in flight at first.                         *)
LEMMA InitHoldInv == Init => HoldInv
<1> SUFFICES ASSUME Init PROVE HoldInv
  OBVIOUS
<1>1. PaidInv
  BY InitPaidInv
<1>2. RestoreInv
  BY <1>1 DEF Init, PaidInv, RestoreInv
<1>3. \A w \in Worker : pc[w] = "idle"
  BY DEF Init
<1> QED
  BY <1>2, <1>3
  DEF Init, HoldInv, PendingHoldsAddress, WorkKeepsAddress, CoolingIsIdle,
      StopsTheClosed, TimedHoldsAddress, WatchedIsHeld, ReleasedIsUnwatched,
      NewIsUntouched, busy

(* A pending order holds its address, through overlapping handlers, failing   *)
(* statements and crashes: no late handler of a previous order releases it.   *)
THEOREM PendingKeepsAddress ==
  ASSUME CooldownOutlivesWork
  PROVE  Spec => []PendingHoldsAddress
<1>1. HoldInv /\ [Next]_vars => HoldInv'
  BY NextHoldInv
<1>2. HoldInv => PendingHoldsAddress
  BY DEF HoldInv
<1> QED
  BY <1>1, <1>2, InitHoldInv, PTL DEF Spec

(* A pending order is watched and its end is prepared whenever the            *)
(* processor serves, across crashes, provided no statement of a handler       *)
(* fails.                                                                     *)
THEOREM PendingStaysAttended ==
  ASSUME CooldownOutlivesWork, MaxFailures = 0
  PROVE  Spec => []PendingIsAttended
<1>1. Init => AttendInv
  BY InitHoldInv DEF Init, AttendInv
<1>2. AttendInv /\ [Next]_vars => AttendInv'
  BY NextAttendInv
<1>3. AttendInv => PendingIsAttended
  BY DEF AttendInv, PendingIsAttended, Attended, HoldInv, RestoreInv
<1> QED
  BY <1>1, <1>2, <1>3, PTL DEF Spec

-----------------------------------------------------------------------------
(* The last theorems are about one order and say nothing of the others.       *)

(* No two handlers of o are between their check of the status and their       *)
(* UPDATE of it, which has no condition on the status, at once.               *)
ChecksApart(o) ==
  \A v, w \in Worker :
    pc[v] = "set" /\ pc[w] = "set" /\ job(v) = o /\ job(w) = o => v = w

(* No two confirmations of o are between their sum of its rows and their      *)
(* UPDATE of confirmed_received, which writes the sum as it was, at once.     *)
SumsApart(o) ==
  \A t, u \in Transfer :
    pc[t] = "update" /\ pc[u] = "update" /\ ctx[t] = o /\ ctx[u] = o => t = u

(* A handler about to write the status of o finds it pending, one about to    *)
(* announce it announces the status in the row, and so did those before.      *)
WritesOnce(o) ==
  /\ \A w \in Worker : pc[w] = "set" /\ job(w) = o => status[o] = "pending"
  /\ \A w \in Worker : pc[w] = "emit" /\ job(w) = o => status[o] = goal[w]
  /\ announced[o] \subseteq {status[o]}

(* What a confirmation of o is about to write contains what is written.       *)
SumIsFresh(o) ==
  \A t \in Transfer : pc[t] = "update" /\ ctx[t] = o => received[o] \subseteq total[t]

(* Only two statements write a status.                                        *)
LEMMA StatusChange ==
  ASSUME TypeOK, [Next]_vars
  PROVE  \/ UNCHANGED status
         \/ \E o \in Order : CreateOrder(o)
         \/ \E w \in Worker : SetStatus(w)
BY DEF Next, OrderStep, TransferStep, ConfirmationStep, ClosingStep, vars, tables,
       MonitorNewOrder, GraceEnds, GraceTimerFires, ReadAtTimeout,
       RestoreOrder, TransferDetected, RecordTransfer, TransactionConfirmed,
       TransactionForgotten, MarkConfirmed,
       SumConfirmed, UpdateReceived, CheckTransition, EmitStatusChange,
       StopMonitoring, ReleaseAddress, HandlerFails, CooldownEnds, Crash, Restart,
       StartServices, RecoveryCompletes

(* Whoever writes the status of o first closes it for all that check later.   *)
LEMMA NextWritesOnce ==
  ASSUME NEW o \in Order, TypeOK, WorkIsSeen, ChecksApart(o), WritesOnce(o), [Next]_vars
  PROVE  WritesOnce(o)'
<1> USE SetsDisjoint
    DEF TypeOK, WorkIsSeen, WritesOnce, busy, job, Worker, Final, tables, boot,
        intake, handlers, outside
<1>1. ASSUME NEW p \in Order, CreateOrder(p) PROVE WritesOnce(o)'
  BY <1>1 DEF CreateOrder
<1>2. ASSUME NEW p \in Order, MonitorNewOrder(p) PROVE WritesOnce(o)'
  BY <1>2 DEF MonitorNewOrder
<1>3. ASSUME NEW p \in Order, GraceEnds(p) PROVE WritesOnce(o)'
  BY <1>3 DEF GraceEnds
<1>4. ASSUME NEW p \in Order, GraceTimerFires(p) PROVE WritesOnce(o)'
  BY <1>4 DEF GraceTimerFires
<1>5. ASSUME NEW p \in Order, ReadAtTimeout(p) PROVE WritesOnce(o)'
  <2>1. /\ UNCHANGED <<status, ctx, announced>>
        /\ pc'[p] \in {"check", "idle"}
        /\ \A v \in Worker \ {p} : pc'[v] = pc[v] /\ goal'[v] = goal[v]
    BY <1>5 DEF ReadAtTimeout
  <2> QED
    BY <2>1
<1>6. ASSUME NEW p \in Order, RestoreOrder(p) PROVE WritesOnce(o)'
  BY <1>6 DEF RestoreOrder
<1>7. ASSUME NEW t \in Transfer, TransferDetected(t) PROVE WritesOnce(o)'
  <2>1. /\ UNCHANGED <<status, pc, goal, announced>>
        /\ pc[t] = "idle"
        /\ \A u \in Transfer \ {t} : ctx'[u] = ctx[u]
    BY <1>7 DEF TransferDetected
  <2> QED
    BY <2>1
<1>8. ASSUME NEW t \in Transfer, RecordTransfer(t) PROVE WritesOnce(o)'
  BY <1>8 DEF RecordTransfer
<1>9. ASSUME NEW t \in Transfer, TransactionConfirmed(t) PROVE WritesOnce(o)'
  BY <1>9 DEF TransactionConfirmed
<1>10. ASSUME NEW t \in Transfer, TransactionForgotten(t) PROVE WritesOnce(o)'
  BY <1>10 DEF TransactionForgotten
<1>11. ASSUME NEW t \in Transfer, MarkConfirmed(t) PROVE WritesOnce(o)'
  BY <1>11 DEF MarkConfirmed
<1>12. ASSUME NEW t \in Transfer, SumConfirmed(t) PROVE WritesOnce(o)'
  BY <1>12 DEF SumConfirmed
<1>13. ASSUME NEW t \in Transfer, UpdateReceived(t) PROVE WritesOnce(o)'
  <2>1. /\ UNCHANGED <<status, ctx, announced>>
        /\ pc'[t] \in {"check", "idle"}
        /\ \A v \in Worker \ {t} : pc'[v] = pc[v] /\ goal'[v] = goal[v]
    BY <1>13 DEF UpdateReceived
  <2> QED
    BY <2>1
<1>14. ASSUME NEW w \in Worker, CheckTransition(w) PROVE WritesOnce(o)'
  BY <1>14 DEF CheckTransition, IsValidTransition
<1>15. ASSUME NEW w \in Worker, SetStatus(w) PROVE WritesOnce(o)'
  <2>1. /\ UNCHANGED <<ctx, goal, announced>>
        /\ pc[w] = "set" /\ pc'[w] = "emit" /\ goal[w] \in Final
        /\ \A v \in Worker \ {w} : pc'[v] = pc[v]
        /\ status' = [status EXCEPT ![job(w)] = goal[w]]
    BY <1>15 DEF SetStatus
  <2>2. CASE job(w) # o
    BY <2>1, <2>2
  <2>3. CASE job(w) = o
    <3>1. /\ status[o] = "pending" /\ status'[o] = goal[w]
          /\ announced[o] = {}
          /\ \A v \in Worker \ {w} : job(v) = o => pc[v] \notin {"set", "emit"}
      BY <2>1, <2>3 DEF ChecksApart
    <3> QED
      BY <2>1, <2>3, <3>1
  <2> QED
    BY <2>2, <2>3
<1>16. ASSUME NEW w \in Worker, EmitStatusChange(w) PROVE WritesOnce(o)'
  BY <1>16 DEF EmitStatusChange
<1>17. ASSUME NEW w \in Worker, StopMonitoring(w) PROVE WritesOnce(o)'
  BY <1>17 DEF StopMonitoring
<1>18. ASSUME NEW w \in Worker, ReleaseAddress(w) PROVE WritesOnce(o)'
  BY <1>18 DEF ReleaseAddress
<1>19. ASSUME NEW w \in Worker, HandlerFails(w) PROVE WritesOnce(o)'
  BY <1>19 DEF HandlerFails
<1>20. ASSUME NEW a \in Address, CooldownEnds(a) PROVE WritesOnce(o)'
  BY <1>20 DEF CooldownEnds
<1>21. CASE Crash
  BY <1>21 DEF Crash
<1>22. CASE Restart
  BY <1>22 DEF Restart
<1>23. CASE StartServices
  BY <1>23 DEF StartServices
<1>24. CASE RecoveryCompletes
  BY <1>24 DEF RecoveryCompletes
<1>25. CASE UNCHANGED vars
  BY <1>25 DEF vars
<1> QED
  BY <1>1, <1>2, <1>3, <1>4, <1>5, <1>6, <1>7, <1>8, <1>9, <1>10, <1>11, <1>12,
     <1>13, <1>14, <1>15, <1>16, <1>17, <1>18, <1>19, <1>20, <1>21, <1>22, <1>23,
     <1>24, <1>25
     DEF Next, OrderStep, TransferStep, ConfirmationStep, ClosingStep

(* A final status of o that is left, and an announcement of o that is not     *)
(* its status, go back to one thing: two handlers of o stood between check    *)
(* and UPDATE together, as in the run order_payment_terminal. No other        *)
(* overlap of handlers, no crash, no failing statement and nothing other      *)
(* orders do leads to either.                                                 *)
THEOREM FinalStaysFinal ==
  ASSUME NEW o \in Order
  PROVE  Spec /\ []ChecksApart(o)
           => /\ [][status[o] \in Final => status'[o] = status[o]]_vars
              /\ [](announced[o] \subseteq {status[o]})
<1> DEFINE IInv == TypeOK /\ WorkIsSeen /\ WritesOnce(o)
           Stands == announced[o] \subseteq {status[o]}
<1>1. Init => IInv
  BY InitPaidInv DEF PaidInv, Init, WritesOnce
<1>2. IInv /\ ChecksApart(o) /\ [Next]_vars => IInv'
  BY NextTypeOK, NextWorkIsSeen, NextWritesOnce
<1>3. ASSUME IInv, [Next]_vars
      PROVE  status[o] \in Final => status'[o] = status[o]
  <2>1. ASSUME NEW p \in Order, CreateOrder(p)
        PROVE  status[o] \in Final => status'[o] = status[o]
    BY <1>3, <2>1 DEF CreateOrder, TypeOK, Final
  <2>2. ASSUME NEW w \in Worker, SetStatus(w)
        PROVE  status[o] \in Final => status'[o] = status[o]
    BY <1>3, <2>2 DEF SetStatus, WritesOnce, TypeOK, Final
  <2> QED
    BY <1>3, <2>1, <2>2, StatusChange
<1>4. IInv => Stands
  BY DEF WritesOnce
<1>5. IInv /\ [Next]_vars => [status[o] \in Final => status'[o] = status[o]]_vars
  BY <1>3
<1> QED
  BY <1>1, <1>2, <1>4, <1>5, PTL DEF Spec

(* Only one statement writes confirmed_received.                              *)
LEMMA ReceivedChange ==
  ASSUME TypeOK, [Next]_vars, NEW o \in Order
  PROVE  \/ received'[o] = received[o]
         \/ \E t \in Transfer : UpdateReceived(t) /\ ctx[t] = o
<1>1. UNCHANGED received \/ \E t \in Transfer : UpdateReceived(t)
  BY DEF Next, OrderStep, TransferStep, ConfirmationStep, ClosingStep, vars, tables,
         CreateOrder, MonitorNewOrder, GraceEnds, GraceTimerFires, ReadAtTimeout,
         RestoreOrder, TransferDetected, RecordTransfer, TransactionConfirmed,
         TransactionForgotten, MarkConfirmed, SumConfirmed, CheckTransition, SetStatus,
         EmitStatusChange, StopMonitoring, ReleaseAddress, HandlerFails, CooldownEnds,
         Crash, Restart, StartServices, RecoveryCompletes
<1> QED
  BY <1>1 DEF UpdateReceived, TypeOK

(* A sum that nobody else's sum overtakes contains what is written: rows are  *)
(* never unconfirmed and never change their order.                            *)
LEMMA NextSumIsFresh ==
  ASSUME NEW o \in Order, PaidInv, SumsApart(o), SumIsFresh(o), [Next]_vars
  PROVE  SumIsFresh(o)'
<1> SUFFICES ASSUME NEW t \in Transfer, pc'[t] = "update", ctx'[t] = o
             PROVE  received'[o] \subseteq total'[t]
  BY DEF SumIsFresh
<1>p. TypeOK /\ WorkIsSeen /\ ReceivedIsConfirmed
  BY DEF PaidInv
<1>1. /\ pc[t] \in {"update", "sum"}
      /\ pc[t] = "update" => total'[t] = total[t]
      /\ pc[t] = "sum" => total'[t] = ConfirmedRows(ctx[t])
  BY <1>p, SumSteps
<1>2. t \in seen /\ t \in Worker
  BY <1>1, <1>p DEF WorkIsSeen, busy, Worker
<1>3. ctx[t] = o
  <2>1. pc' # [w \in Worker |-> "idle"]
    BY <1>2
  <2> QED
    BY <1>2, <1>p, <2>1, ContextStays
<1>4. received[o] \subseteq total'[t]
  BY <1>1, <1>3, <1>p DEF SumIsFresh, ReceivedIsConfirmed
<1>5. CASE received'[o] = received[o]
  BY <1>4, <1>5
<1>6. ASSUME NEW u \in Transfer, UpdateReceived(u), ctx[u] = o
      PROVE  FALSE
  <2>1. pc[u] = "update" /\ pc'[u] # "update" /\ (pc'[t] = pc[t] \/ t = u)
    BY <1>6, <1>p, SetsDisjoint DEF UpdateReceived, TypeOK, Worker
  <2>2. pc[u] = "update" /\ pc'[u] # "update"
    BY <1>6, <1>p, SetsDisjoint DEF UpdateReceived, TypeOK, Worker
  <2>3. t # u /\ pc[t] = "update"
    BY <1>1, <2>1, <2>2, <1>6 DEF UpdateReceived
  <2> QED
    BY <1>3, <1>6, <2>2, <2>3 DEF SumsApart
<1> QED
  BY <1>5, <1>6, <1>p, ReceivedChange

(* The running total of o that falls goes back to one thing: two              *)
(* confirmations of o stood between their sum and their UPDATE together. A    *)
(* sum taken before a crash, before a timeout or while other rows are         *)
(* confirmed is never too small to be written.                                *)
THEOREM ReceivedOnlyGrows ==
  ASSUME NEW o \in Order
  PROVE  Spec /\ []SumsApart(o) => [][received[o] \subseteq received'[o]]_vars
<1> DEFINE IInv == PaidInv /\ SumIsFresh(o)
<1>1. Init => IInv
  BY InitPaidInv, SetsDisjoint DEF Init, SumIsFresh, Worker
<1>2. IInv /\ SumsApart(o) /\ [Next]_vars => IInv'
  BY NextPaidInv, NextSumIsFresh
<1>3. IInv /\ [Next]_vars => [received[o] \subseteq received'[o]]_vars
  BY ReceivedSteps DEF PaidInv, SumIsFresh
<1> QED
  BY <1>1, <1>2, <1>3, PTL DEF Spec

===================================================================================
