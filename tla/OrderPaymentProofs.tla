-------------------------- MODULE OrderPaymentProofs --------------------------
(***************************************************************************)
(* Theorems about OrderPayment, for every value of its constants.          *)
(***************************************************************************)
EXTENDS OrderPayment, TLAPS

(* The initial state is well typed.                                         *)
LEMMA InitTypeOK == Init => TypeOK
BY SetsDisjoint, ConstantTypes
   DEF Init, TypeOK, Status, Final, Closing, Worker, busy

(* A handler in flight works for an order that has a row and an address.    *)
LEMMA JobHasAddress ==
  ASSUME TypeOK, NEW w \in Worker, busy(w)
  PROVE  /\ job(w) \in Order
         /\ status[job(w)] # "none"
         /\ address[job(w)] \in Address
BY SetsDisjoint DEF TypeOK, job, Worker, busy

(* Every step keeps every variable well typed.                              *)
LEMMA NextTypeOK == TypeOK /\ [Next]_vars => TypeOK'
<1> SUFFICES ASSUME TypeOK, [Next]_vars PROVE TypeOK'
  OBVIOUS
<1> USE SetsDisjoint, ConstantTypes
    DEF TypeOK, Status, Final, Closing, Worker, busy, job, tables, boot, intake,
        handlers, outside
<1>1. ASSUME NEW o \in Order, CreateOrder(o) PROVE TypeOK'
  BY <1>1 DEF CreateOrder
<1>2. ASSUME NEW o \in Order, MonitorNewOrder(o) PROVE TypeOK'
  BY <1>2 DEF MonitorNewOrder
<1>3. ASSUME NEW o \in Order, GraceEnds(o) PROVE TypeOK'
  BY <1>3 DEF GraceEnds
<1>4. ASSUME NEW o \in Order, GraceTimerFires(o) PROVE TypeOK'
  BY <1>4 DEF GraceTimerFires
<1>5. ASSUME NEW o \in Order, ReadAtTimeout(o) PROVE TypeOK'
  BY <1>5, SMTT(30) DEF ReadAtTimeout
<1>6. ASSUME NEW o \in Order, RestoreOrder(o) PROVE TypeOK'
  BY <1>6 DEF RestoreOrder
<1>7. ASSUME NEW t \in Transfer, TransferDetected(t) PROVE TypeOK'
  BY <1>7 DEF TransferDetected, ActiveOrders, SameTx
<1>8. ASSUME NEW t \in Transfer, RecordTransfer(t) PROVE TypeOK'
  BY <1>8 DEF RecordTransfer
<1>9. ASSUME NEW t \in Transfer, TransactionConfirmed(t) PROVE TypeOK'
  BY <1>9 DEF TransactionConfirmed
<1>10. ASSUME NEW t \in Transfer, TransactionForgotten(t) PROVE TypeOK'
  BY <1>10 DEF TransactionForgotten
<1>11. ASSUME NEW t \in Transfer, MarkConfirmed(t) PROVE TypeOK'
  BY <1>11 DEF MarkConfirmed, SameTx
<1>12. ASSUME NEW t \in Transfer, SumConfirmed(t) PROVE TypeOK'
  BY <1>12 DEF SumConfirmed, ConfirmedRows
<1>13. ASSUME NEW t \in Transfer, UpdateReceived(t) PROVE TypeOK'
  BY <1>13, SMTT(30) DEF UpdateReceived
<1>14. ASSUME NEW w \in Worker, CheckTransition(w) PROVE TypeOK'
  BY <1>14 DEF CheckTransition
<1>15. ASSUME NEW w \in Worker, SetStatus(w) PROVE TypeOK'
  BY <1>15 DEF SetStatus
<1>16. ASSUME NEW w \in Worker, EmitStatusChange(w) PROVE TypeOK'
  BY <1>16 DEF EmitStatusChange
<1>17. ASSUME NEW w \in Worker, StopMonitoring(w) PROVE TypeOK'
  BY <1>17 DEF StopMonitoring
<1>18. ASSUME NEW w \in Worker, ReleaseAddress(w) PROVE TypeOK'
  BY <1>18 DEF ReleaseAddress
<1>19. ASSUME NEW a \in Address, CooldownEnds(a) PROVE TypeOK'
  BY <1>19 DEF CooldownEnds
<1>20. CASE Crash
  BY <1>20 DEF Crash
<1>21. CASE Restart
  BY <1>21 DEF Restart
<1>22. CASE StartServices
  BY <1>22 DEF StartServices
<1>23. CASE RecoveryCompletes
  BY <1>23 DEF RecoveryCompletes
<1>24. ASSUME NEW w \in Worker, HandlerFails(w) PROVE TypeOK'
  BY <1>24 DEF HandlerFails
<1>25. CASE UNCHANGED vars
  BY <1>25 DEF vars
<1>26. QED
  BY <1>1, <1>2, <1>3, <1>4, <1>5, <1>6, <1>7, <1>8, <1>9, <1>10, <1>11, <1>12,
     <1>13, <1>14, <1>15, <1>16, <1>17, <1>18, <1>19, <1>20, <1>21, <1>22, <1>23,
     <1>24, <1>25
  DEF Next, OrderStep, TransferStep, ConfirmationStep, ClosingStep

(* Type correctness of every reachable state.                               *)
THEOREM TypeCorrect == Spec => []TypeOK
<1>1. Init => TypeOK
  BY InitTypeOK
<1>2. TypeOK /\ [Next]_vars => TypeOK'
  BY NextTypeOK
<1>3. QED
  BY <1>1, <1>2, PTL DEF Spec

-----------------------------------------------------------------------------
(* A completed order is paid. The invariant follows the amounts from the     *)
(* rows of transfers through the handlers: a sum taken by a handler counts    *)
(* confirmed rows of its order, rows stay confirmed and keep their order, so   *)
(* a handler that found the sum sufficient still would when it sets the status. *)
WorkIsSeen ==
  \A t \in Transfer : busy(t) \/ t \in queue \/ t \in recording => t \in seen

SumIsConfirmed ==
  \A t \in Transfer : pc[t] = "update" => total[t] \subseteq ConfirmedRows(ctx[t])

CompletionIsPaid ==
  \A w \in Worker : pc[w] \in {"check", "set"} /\ goal[w] = "completed" =>
    ConfirmedRows(job(w)) \in Sufficient[job(w)]

PaidInv ==
  /\ TypeOK
  /\ WorkIsSeen
  /\ SumIsConfirmed
  /\ ReceivedIsConfirmed
  /\ CompletionIsPaid
  /\ CompletedIsPaid


(* No step takes a confirmed row from an order.                             *)
LEMMA RowsGrow ==
  TypeOK /\ [Next]_vars =>
    \A o \in Order : /\ ConfirmedRows(o) \subseteq Transfer
                     /\ ConfirmedRows(o)' \subseteq Transfer
                     /\ ConfirmedRows(o) \subseteq ConfirmedRows(o)'
<1> SUFFICES ASSUME TypeOK, [Next]_vars
             PROVE  /\ confirmed \subseteq confirmed' /\ confirmed' \subseteq Transfer
                    /\ \A t \in Transfer : rowOrder[t] \in Order => rowOrder'[t] = rowOrder[t]
  BY DEF ConfirmedRows, TypeOK
<1>1. confirmed' \subseteq Transfer
  BY NextTypeOK DEF TypeOK
<1>2. CASE UNCHANGED <<confirmed, rowOrder>>
  BY <1>1, <1>2
<1>3. ASSUME NEW t \in Transfer, RecordTransfer(t)
      PROVE  /\ confirmed' = confirmed
             /\ \A u \in Transfer : rowOrder[u] \in Order => rowOrder'[u] = rowOrder[u]
  BY <1>3, SetsDisjoint DEF RecordTransfer, TypeOK
<1>4. ASSUME NEW t \in Transfer, MarkConfirmed(t)
      PROVE  confirmed \subseteq confirmed' /\ rowOrder' = rowOrder
  BY <1>4 DEF MarkConfirmed
<1>5. [Next]_vars => \/ UNCHANGED <<confirmed, rowOrder>>
                    \/ \E t \in Transfer : RecordTransfer(t) \/ MarkConfirmed(t)
  BY DEF Next, OrderStep, TransferStep, ConfirmationStep, ClosingStep, vars, tables,
         CreateOrder, MonitorNewOrder, GraceEnds, GraceTimerFires, ReadAtTimeout,
         RestoreOrder, TransferDetected, TransactionConfirmed, TransactionForgotten,
         SumConfirmed, UpdateReceived, CheckTransition, SetStatus, EmitStatusChange,
         StopMonitoring, ReleaseAddress, HandlerFails, CooldownEnds, Crash, Restart,
         StartServices, RecoveryCompletes
<1>6. QED
  BY <1>1, <1>2, <1>3, <1>4, <1>5

(* A crash empties the memory of the process; no other step takes the         *)
(* context of a transfer that has been seen.                                *)
LEMMA ContextStays ==
  TypeOK /\ [Next]_vars =>
    \/ /\ pc' = [w \in Worker |-> "idle"]
       /\ queue' = {} /\ recording' = {}
       /\ UNCHANGED <<status, received>>
    \/ /\ seen \subseteq seen'
       /\ \A t \in seen : ctx'[t] = ctx[t]
BY DEF TypeOK, Next, OrderStep, TransferStep, ConfirmationStep, ClosingStep, vars, tables,
         boot, intake, handlers, outside, CreateOrder, MonitorNewOrder, GraceEnds,
         GraceTimerFires, ReadAtTimeout, RestoreOrder, TransferDetected,
         RecordTransfer, TransactionConfirmed, TransactionForgotten, MarkConfirmed,
         SumConfirmed, UpdateReceived, CheckTransition, SetStatus, EmitStatusChange,
         StopMonitoring, ReleaseAddress, HandlerFails, CooldownEnds, Crash, Restart,
         StartServices, RecoveryCompletes

(* Every transfer at work has been seen: what is new in the queue has just    *)
(* been detected, and a handler starts from the queue.                       *)
LEMMA NextWorkIsSeen == TypeOK /\ WorkIsSeen /\ [Next]_vars => WorkIsSeen'
<1> SUFFICES ASSUME TypeOK, WorkIsSeen, [Next]_vars, NEW t \in Transfer
             PROVE  (busy(t) \/ t \in queue \/ t \in recording => t \in seen)'
  BY DEF WorkIsSeen
<1>1. pc'[t] # "idle" => pc[t] # "idle" \/ t \in queue
  BY SetsDisjoint
  DEF TypeOK, Worker, Next, OrderStep, TransferStep, ConfirmationStep, ClosingStep,
     vars, tables,
         boot, intake, handlers, outside, CreateOrder, MonitorNewOrder, GraceEnds,
         GraceTimerFires, ReadAtTimeout, RestoreOrder, TransferDetected,
         RecordTransfer, TransactionConfirmed, TransactionForgotten, MarkConfirmed,
         SumConfirmed, UpdateReceived, CheckTransition, SetStatus, EmitStatusChange,
         StopMonitoring, ReleaseAddress, HandlerFails, CooldownEnds, Crash, Restart,
         StartServices, RecoveryCompletes
<1>2. t \in queue' \cup recording' => t \in queue \cup recording \cup seen'
  BY DEF TypeOK, Next, OrderStep, TransferStep, ConfirmationStep, ClosingStep, vars, tables,
         boot, intake, handlers, outside, CreateOrder, MonitorNewOrder, GraceEnds,
         GraceTimerFires, ReadAtTimeout, RestoreOrder, TransferDetected,
         RecordTransfer, TransactionConfirmed, TransactionForgotten, MarkConfirmed,
         SumConfirmed, UpdateReceived, CheckTransition, SetStatus, EmitStatusChange,
         StopMonitoring, ReleaseAddress, HandlerFails, CooldownEnds, Crash, Restart,
         StartServices, RecoveryCompletes
<1>3. QED
  BY <1>1, <1>2, ContextStays, SetsDisjoint DEF WorkIsSeen, busy, Worker

(* Where a handler's sum comes from.                                        *)
LEMMA SumSteps ==
  ASSUME TypeOK, [Next]_vars, NEW t \in Transfer, pc'[t] = "update"
  PROVE  \/ pc[t] = "update" /\ total'[t] = total[t]
         \/ pc[t] = "sum" /\ total'[t] = ConfirmedRows(ctx[t])
BY SetsDisjoint DEF TypeOK, Worker, Closing, Next, OrderStep, TransferStep,
   ConfirmationStep, ClosingStep, vars, tables,
         boot, intake, handlers, outside, CreateOrder, MonitorNewOrder, GraceEnds,
         GraceTimerFires, ReadAtTimeout, RestoreOrder, TransferDetected,
         RecordTransfer, TransactionConfirmed, TransactionForgotten, MarkConfirmed,
         SumConfirmed, UpdateReceived, CheckTransition, SetStatus, EmitStatusChange,
         StopMonitoring, ReleaseAddress, HandlerFails, CooldownEnds, Crash, Restart,
         StartServices, RecoveryCompletes

(* Where a value of confirmed_received comes from.                          *)
LEMMA ReceivedSteps ==
  ASSUME TypeOK, [Next]_vars, NEW o \in Order
  PROVE  \/ received'[o] = received[o]
         \/ \E t \in Transfer :
              pc[t] = "update" /\ ctx[t] = o /\ received'[o] = total[t]
BY DEF TypeOK, Next, OrderStep, TransferStep, ConfirmationStep, ClosingStep, vars, tables,
         boot, intake, handlers, outside, CreateOrder, MonitorNewOrder, GraceEnds,
         GraceTimerFires, ReadAtTimeout, RestoreOrder, TransferDetected,
         RecordTransfer, TransactionConfirmed, TransactionForgotten, MarkConfirmed,
         SumConfirmed, UpdateReceived, CheckTransition, SetStatus, EmitStatusChange,
         StopMonitoring, ReleaseAddress, HandlerFails, CooldownEnds, Crash, Restart,
         StartServices, RecoveryCompletes

(* Where the decision to complete an order comes from.                      *)
LEMMA GoalSteps ==
  ASSUME TypeOK, [Next]_vars, NEW w \in Worker,
         pc'[w] \in {"check", "set"}, goal'[w] = "completed"
  PROVE  \/ pc[w] \in {"check", "set"} /\ goal[w] = "completed"
         \/ w \in Order /\ pc[w] = "read" /\ received[w] \in Sufficient[w]
         \/ w \in Transfer /\ pc[w] = "update" /\ total[w] \in Sufficient[ctx[w]]
BY SetsDisjoint DEF TypeOK, Worker, Final, Closing, Next, OrderStep, TransferStep,
   ConfirmationStep, ClosingStep, vars, tables,
         boot, intake, handlers, outside, CreateOrder, MonitorNewOrder, GraceEnds,
         GraceTimerFires, ReadAtTimeout, RestoreOrder, TransferDetected,
         RecordTransfer, TransactionConfirmed, TransactionForgotten, MarkConfirmed,
         SumConfirmed, UpdateReceived, CheckTransition, SetStatus, EmitStatusChange,
         StopMonitoring, ReleaseAddress, HandlerFails, CooldownEnds, Crash, Restart,
         StartServices, RecoveryCompletes

(* Where the status of an order comes from.                                 *)
LEMMA StatusSteps ==
  ASSUME TypeOK, [Next]_vars, NEW o \in Order, status'[o] = "completed"
  PROVE  \/ status[o] = "completed"
         \/ \E w \in Worker : pc[w] = "set" /\ job(w) = o /\ goal[w] = "completed"
BY DEF TypeOK, Next, OrderStep, TransferStep, ConfirmationStep, ClosingStep, vars, tables,
         boot, intake, handlers, outside, CreateOrder, MonitorNewOrder, GraceEnds,
         GraceTimerFires, ReadAtTimeout, RestoreOrder, TransferDetected,
         RecordTransfer, TransactionConfirmed, TransactionForgotten, MarkConfirmed,
         SumConfirmed, UpdateReceived, CheckTransition, SetStatus, EmitStatusChange,
         StopMonitoring, ReleaseAddress, HandlerFails, CooldownEnds, Crash, Restart,
         StartServices, RecoveryCompletes

(* A handler works for the same order until it ends.                        *)
LEMMA JobStays ==
  ASSUME TypeOK, WorkIsSeen, [Next]_vars, NEW w \in Worker, busy(w), busy(w)'
  PROVE  job(w)' = job(w)
<1>1. w \in Transfer => ctx'[w] = ctx[w]
  BY ContextStays, SetsDisjoint DEF WorkIsSeen, busy, Worker
<1>2. QED
  BY <1>1 DEF job, Worker

LEMMA NextPaidInv == PaidInv /\ [Next]_vars => PaidInv'
<1> SUFFICES ASSUME PaidInv, [Next]_vars PROVE PaidInv'
  OBVIOUS
<1>1. TypeOK /\ TypeOK' /\ WorkIsSeen /\ WorkIsSeen'
  BY NextTypeOK, NextWorkIsSeen DEF PaidInv
<1>2. \A o \in Order : /\ ConfirmedRows(o) \subseteq Transfer
                      /\ ConfirmedRows(o)' \subseteq Transfer
                      /\ ConfirmedRows(o) \subseteq ConfirmedRows(o)'
  BY <1>1, RowsGrow
<1>3. \A o \in Order : ConfirmedRows(o) \in Sufficient[o] =>
                         ConfirmedRows(o)' \in Sufficient[o]
  BY <1>2, SufficientIsUpwardClosed
<1>4. SumIsConfirmed'
  <2> SUFFICES ASSUME NEW t \in Transfer, pc'[t] = "update"
               PROVE  total'[t] \subseteq ConfirmedRows(ctx[t])'
    BY DEF SumIsConfirmed
  <2>1. t \in Worker /\ t \notin Order /\ busy(t) /\ busy(t)'
    BY <1>1, SumSteps, SetsDisjoint DEF Worker, busy
  <2>2. ctx'[t] = ctx[t] /\ ctx[t] \in Order
    BY <1>1, <2>1, JobStays DEF job, TypeOK
  <2>3. total'[t] \subseteq ConfirmedRows(ctx[t])
    BY <1>1, SumSteps DEF PaidInv, SumIsConfirmed
  <2>4. ConfirmedRows(ctx[t])' = {u \in confirmed' : rowOrder'[u] = ctx[t]}
    BY <2>2 DEF ConfirmedRows
  <2>5. QED
    BY <1>2, <2>2, <2>3, <2>4 DEF ConfirmedRows
<1>5. ReceivedIsConfirmed'
  <2> SUFFICES ASSUME NEW o \in Order PROVE received'[o] \subseteq ConfirmedRows(o)'
    BY DEF ReceivedIsConfirmed
  <2>1. received'[o] \subseteq ConfirmedRows(o)
    BY <1>1, ReceivedSteps DEF PaidInv, ReceivedIsConfirmed, SumIsConfirmed
  <2>2. QED
    BY <1>2, <2>1
<1>6. CompletionIsPaid'
  <2> SUFFICES ASSUME NEW w \in Worker, pc'[w] \in {"check", "set"},
                      goal'[w] = "completed"
               PROVE  (ConfirmedRows(job(w)) \in Sufficient[job(w)])'
    BY DEF CompletionIsPaid
  <2>1. busy(w) /\ busy(w)'
    BY <1>1, GoalSteps DEF busy
  <2>2. job(w)' = job(w) /\ job(w) \in Order
    BY <1>1, <2>1, JobStays, JobHasAddress
  <2>3. ConfirmedRows(job(w)) \in Sufficient[job(w)]
    <3>1. CASE w \in Order /\ pc[w] = "read" /\ received[w] \in Sufficient[w]
      BY <1>2, <3>1, SufficientIsUpwardClosed DEF PaidInv, ReceivedIsConfirmed, job
    <3>2. CASE w \in Transfer /\ pc[w] = "update" /\ total[w] \in Sufficient[ctx[w]]
      <4>1. job(w) = ctx[w]
        BY <3>2, SetsDisjoint DEF job
      <4>2. QED
        BY <1>2, <2>2, <3>2, <4>1, SufficientIsUpwardClosed DEF PaidInv, SumIsConfirmed
    <3>3. QED
      BY <1>1, <3>1, <3>2, GoalSteps DEF PaidInv, CompletionIsPaid
  <2>4. ConfirmedRows(job(w))' = {u \in confirmed' : rowOrder'[u] = job(w)}
    BY <2>2 DEF ConfirmedRows
  <2>5. QED
    BY <1>3, <2>2, <2>3, <2>4 DEF ConfirmedRows
<1>7. CompletedIsPaid'
  <2> SUFFICES ASSUME NEW o \in Order, status'[o] = "completed"
               PROVE  ConfirmedRows(o)' \in Sufficient[o]
    BY DEF CompletedIsPaid
  <2>1. ConfirmedRows(o) \in Sufficient[o]
    BY <1>1, StatusSteps DEF PaidInv, CompletedIsPaid, CompletionIsPaid
  <2>2. QED
    BY <1>3, <2>1
<1>8. QED
  BY <1>1, <1>4, <1>5, <1>6, <1>7 DEF PaidInv

LEMMA InitPaidInv == Init => PaidInv
BY InitTypeOK, SetsDisjoint
   DEF Init, PaidInv, WorkIsSeen, SumIsConfirmed, ReceivedIsConfirmed,
       CompletionIsPaid, CompletedIsPaid, ConfirmedRows, Worker, busy

(* No order is completed without confirmed payments that cover its amount,   *)
(* however handlers overlap and however often the process restarts.          *)
THEOREM PaidBeforeCompleted == Spec => []CompletedIsPaid
<1>1. PaidInv => CompletedIsPaid
  BY DEF PaidInv
<1>2. QED
  BY <1>1, InitPaidInv, NextPaidInv, PTL DEF Spec

(* confirmed_received never counts an unconfirmed or a foreign transfer.     *)
THEOREM ReceivedOnlyConfirmed == Spec => []ReceivedIsConfirmed
<1>1. PaidInv => ReceivedIsConfirmed
  BY DEF PaidInv
<1>2. QED
  BY <1>1, InitPaidInv, NextPaidInv, PTL DEF Spec

=============================================================================
