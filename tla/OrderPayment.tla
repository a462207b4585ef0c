----------------------------- MODULE OrderPayment -----------------------------
(***************************************************************************)
(* The payment of orders: OrderService with the rows it shares with the    *)
(* rest of the processor (orders, address_pool, transfers), the handlers   *)
(* of ProcessorCore that call it, the grace-period timers, and the restart *)
(* of the processor.                                                       *)
(*                                                                         *)
(* Every handler is an async function. It gives up the event loop at each  *)
(* await, so each database statement, with the code up to the next await,  *)
(* is one action; what a handler read before an await is kept in goal,     *)
(* total and ctx and may be stale when it is used.                         *)
(***************************************************************************)
EXTENDS Naturals

CONSTANTS
  Order,       \* order ids
  Address,     \* addresses of the pool
  Transfer,    \* on-chain transfer events, identified by (tx hash, event index)
  NoOrder,     \* NULL in a column that holds an order id
  NoAddress,   \* the address of an order that has no row yet
  To,          \* To[t]: the address transfer t pays
  TxOf,        \* TxOf[t]: the hash of the transaction that holds event t
  Sufficient,  \* Sufficient[o]: the sets of transfers that add up to o's amount
  Overlap,     \* may two handlers of one order be in flight together?
  CooldownOutlivesWork,  \* is the cooldown longer than any pending work?
  MaxCrashes,  \* bound on the crashes of one behaviour
  MaxFailures  \* bound on the database statements that fail

ASSUME SetsDisjoint ==
  /\ Order \cap Transfer = {}
  /\ NoOrder \notin Order
  /\ NoAddress \notin Address

ASSUME ConstantTypes ==
  /\ To \in [Transfer -> Address]
  /\ DOMAIN TxOf = Transfer
  /\ Sufficient \in [Order -> SUBSET SUBSET Transfer]
  /\ Overlap \in BOOLEAN
  /\ CooldownOutlivesWork \in BOOLEAN
  /\ MaxCrashes \in Nat
  /\ MaxFailures \in Nat

(* The amount of a token transfer is unsigned: one more transfer never      *)
(* makes a sufficient sum insufficient.                                     *)
ASSUME SufficientIsUpwardClosed ==
  \A o \in Order : \A S, T \in SUBSET Transfer :
    S \in Sufficient[o] /\ S \subseteq T => T \in Sufficient[o]

VARIABLES
  (* tables *)
  status,      \* orders.status, "none" while there is no row
  address,     \* orders.address
  received,    \* orders.confirmed_received, as the set of transfers summed
  holder,      \* address_pool.order_id; state is 'allocated' iff not NULL
  cooling,     \* addresses whose cooldown_until lies in the future
  rowOrder,    \* transfers.order_id, NoOrder while there is no row
  confirmed,   \* rows of transfers with is_confirmed
  (* memory of the process *)
  mode,        \* of the processor: down, restoring, recovering or up
  toRestore,   \* pending orders restoreMonitoringTargets has still to restore
  awaiting,    \* the order whose timeout handler that loop awaits
  creating,    \* orders committed by createOrder, not yet watched
  watched,     \* addresses among the monitor's targets
  timers,      \* orders with an armed grace-period timer
  seen,        \* transfers the monitor has emitted since it started
  ctx,         \* ctx[t]: the business context resolved for t
  recording,   \* transfers whose initialProcessing handler is in flight
  queue,       \* transfers in DelayedConfirmationService.pendingTransactions
  pc,          \* what each handler does next
  goal,        \* the status a handler wants to set
  total,       \* the transfers a transactionConfirmed handler has summed
  (* the outside *)
  due,         \* orders whose grace_period_ends_at has passed
  announced,   \* final statuses published by orderStatusChanged events
  crashes,     \* crashes so far
  failures     \* failed statements so far

tables == <<status, address, received, holder, cooling, rowOrder, confirmed>>
boot == <<mode, toRestore, awaiting>>
intake == <<seen, ctx, recording, queue>>
handlers == <<pc, goal, total>>
outside == <<due, announced, crashes, failures>>
vars == <<tables, boot, creating, watched, timers, intake, handlers, outside>>

-----------------------------------------------------------------------------
(* A handler is named after what started it: the timer of an order or the   *)
(* confirmation of a transfer.                                              *)
Worker == Order \cup Transfer

job(w) == IF w \in Order THEN w ELSE ctx[w]

busy(w) == pc[w] # "idle"

(* No handler of order o is between two of its statements.                  *)
Free(o) == \A w \in Worker : busy(w) => job(w) # o

MayStart(o) == Overlap \/ Free(o)

(* transferRepository.findConfirmedByOrderId *)
ConfirmedRows(o) == {t \in confirmed : rowOrder[t] = o}

(* chainStateRepository.findActiveOrder: an order that is not in a final    *)
(* status. The query takes the newest; the model takes any.                 *)
ActiveOrders(a) == {o \in Order : status[o] = "pending" /\ address[o] = a}

(* OrderStateMachine.isValidTransition, to a final status                    *)
IsValidTransition(from) == from = "pending"

(* The events of one transaction. pendingTransactions is keyed by its hash,  *)
(* and markAsConfirmed updates all its rows.                                 *)
SameTx(t) == {u \in Transfer : TxOf[u] = TxOf[t]}

Init ==
  /\ status = [o \in Order |-> "none"]
  /\ address = [o \in Order |-> NoAddress]
  /\ received = [o \in Order |-> {}]
  /\ holder = [a \in Address |-> NoOrder]
  /\ cooling = {}
  /\ rowOrder = [t \in Transfer |-> NoOrder]
  /\ confirmed = {}
  /\ mode = "up"
  /\ toRestore = {}
  /\ awaiting = NoOrder
  /\ creating = {}
  /\ watched = {}
  /\ timers = {}
  /\ seen = {}
  /\ ctx = [t \in Transfer |-> NoOrder]
  /\ recording = {}
  /\ queue = {}
  /\ pc = [w \in Worker |-> "idle"]
  /\ goal = [w \in Worker |-> "expired"]
  /\ total = [t \in Transfer |-> {}]
  /\ due = {}
  /\ announced = [o \in Order |-> {}]
  /\ crashes = 0
  /\ failures = 0

-----------------------------------------------------------------------------
(* Creation and the timers.                                                 *)

(* createOrderWithTransaction: one database transaction takes an idle       *)
(* address out of its cooldown and inserts the order. The allocation order  *)
(* (least recently used) is left open.                                      *)
CreateOrder(o) ==
  /\ mode = "up"
  /\ status[o] = "none"
  /\ \E a \in Address :
       /\ holder[a] = NoOrder
       /\ a \notin cooling
       /\ holder' = [holder EXCEPT ![a] = o]
       /\ address' = [address EXCEPT ![o] = a]
  /\ status' = [status EXCEPT ![o] = "pending"]
  /\ creating' = creating \cup {o}
  /\ UNCHANGED <<received, cooling, rowOrder, confirmed, boot, watched, timers,
                 intake, handlers, outside>>

(* The rest of createOrder, after the transaction: watch the address and     *)
(* arm the timers.                                                          *)
MonitorNewOrder(o) ==
  /\ o \in creating
  /\ creating' = creating \ {o}
  /\ watched' = watched \cup {address[o]}
  /\ timers' = timers \cup {o}
  /\ UNCHANGED <<tables, boot, intake, handlers, outside>>

(* grace_period_ends_at passes, whether or not the process is running. It is *)
(* minutes away: no call of createOrder takes that long.                     *)
GraceEnds(o) ==
  /\ status[o] # "none"
  /\ o \notin creating \cup due
  /\ due' = due \cup {o}
  /\ UNCHANGED <<tables, boot, creating, watched, timers, intake, handlers,
                 announced, crashes, failures>>

(* setTimeout calls handleGracePeriodTimeout(o).                            *)
GraceTimerFires(o) ==
  /\ o \in timers \cap due
  /\ MayStart(o)
  /\ timers' = timers \ {o}
  /\ pc' = [pc EXCEPT ![o] = "read"]
  /\ UNCHANGED <<tables, boot, creating, watched, intake, goal, total, outside>>

(* cooldown_until passes. A cooldown as long as the default one (30 minutes) *)
(* outlives every confirmation the previous order of the address waits for   *)
(* (10 minutes at most, maxPendingTime); a configured one need not.          *)
CooldownEnds(a) ==
  /\ a \in cooling
  /\ CooldownOutlivesWork =>
       /\ \A w \in Worker : busy(w) => address[job(w)] # a
       /\ \A t \in queue \cup recording : address[ctx[t]] # a
  /\ cooling' = cooling \ {a}
  /\ UNCHANGED <<status, address, received, holder, rowOrder, confirmed, boot,
                 creating, watched, timers, intake, handlers, outside>>

-----------------------------------------------------------------------------
(* The intake of transfers.                                                 *)

(* Faulty variant: the event is queued before its context is checked.        *)
TransferQueuedWithoutOrder(t) ==
  /\ mode \in {"recovering", "up"}
  /\ t \notin seen
  /\ To[t] \in watched
  /\ seen' = seen \cup {t}
  /\ queue' = (queue \ SameTx(t)) \cup {t}
  /\ recording' = recording \cup {t}
  /\ \E o \in ActiveOrders(To[t]) \cup {NoOrder} :
       /\ o = NoOrder => ActiveOrders(To[t]) = {}
       /\ ctx' = [ctx EXCEPT ![t] = o]
  /\ UNCHANGED <<tables, boot, creating, watched, timers, handlers, outside>>

(* The monitor emits a transfer to a watched address. handleTransferEvent   *)
(* resolves its order; addPendingTransaction replaces a pending entry with   *)
(* the same hash, which is lost unless its check is in flight, and emits     *)
(* initialProcessing. Without an order the event is dropped. The answer of    *)
(* the query is awaited before the addition: whatever happens in between may *)
(* as well happen before the transaction is confirmed. A query that fails is  *)
(* a transfer that is never detected.                                        *)
TransferDetected(t) ==
  /\ mode \in {"recovering", "up"}
  /\ t \notin seen
  /\ To[t] \in watched
  /\ seen' = seen \cup {t}
  /\ \/ \E o \in ActiveOrders(To[t]) :
          /\ ctx' = [ctx EXCEPT ![t] = o]
          /\ queue' \in {queue \cup {t}, (queue \ SameTx(t)) \cup {t}}
          /\ recording' = recording \cup {t}
     \/ /\ ActiveOrders(To[t]) = {}
        /\ UNCHANGED <<ctx, queue, recording>>
  /\ UNCHANGED <<tables, boot, creating, watched, timers, handlers, outside>>

(* recordTransferOnly, processTransferAmount: insert the row of the transfer *)
(* unless it exists.                                                         *)
RecordTransfer(t) ==
  /\ t \in recording
  /\ recording' = recording \ {t}
  /\ rowOrder' = [rowOrder EXCEPT ![t] = IF @ = NoOrder THEN ctx[t] ELSE @]
  /\ UNCHANGED <<status, address, received, holder, cooling, confirmed, boot,
                 creating, watched, timers, seen, ctx, queue, handlers, outside>>

(* DelayedConfirmationService has counted enough confirmations: it removes   *)
(* the entry and emits transactionConfirmed.                                 *)
TransactionConfirmed(t) ==
  /\ t \in queue
  /\ MayStart(ctx[t])
  /\ queue' = queue \ {t}
  /\ pc' = [pc EXCEPT ![t] = "mark"]
  /\ UNCHANGED <<tables, boot, creating, watched, timers, seen, ctx, recording,
                 goal, total, outside>>

(* The entry leaves the queue for good (transactionDropped, -Timeout,        *)
(* -Invalid or -Failed): nothing listens to these events.                    *)
TransactionForgotten(t) ==
  /\ t \in queue
  /\ queue' = queue \ {t}
  /\ UNCHANGED <<tables, boot, creating, watched, timers, seen, ctx, recording,
                 handlers, outside>>

-----------------------------------------------------------------------------
(* The transactionConfirmed handler of transfer t.                           *)

MarkConfirmed(t) ==
  /\ pc[t] = "mark"
  /\ confirmed' = confirmed \cup {u \in SameTx(t) : rowOrder[u] # NoOrder}
  /\ pc' = [pc EXCEPT ![t] = "sum"]
  /\ UNCHANGED <<status, address, received, holder, cooling, rowOrder, boot,
                 creating, watched, timers, intake, goal, total, outside>>

(* Faulty variant: the query forgets is_confirmed.                           *)
SumAllRows(t) ==
  /\ pc[t] = "sum"
  /\ total' = [total EXCEPT ![t] = {u \in Transfer : rowOrder[u] = ctx[t]}]
  /\ pc' = [pc EXCEPT ![t] = "update"]
  /\ UNCHANGED <<tables, boot, creating, watched, timers, intake, goal, outside>>

SumConfirmed(t) ==
  /\ pc[t] = "sum"
  /\ total' = [total EXCEPT ![t] = ConfirmedRows(ctx[t])]
  /\ pc' = [pc EXCEPT ![t] = "update"]
  /\ UNCHANGED <<tables, boot, creating, watched, timers, intake, goal, outside>>

(* Faulty variants of the update: it stores rows that may not be the order's *)
(* confirmed ones, stores the amount of the event alone, or skips the        *)
(* comparison with the amount of the order.                                  *)
UpdateWith(t, sum, enough) ==
  /\ pc[t] = "update"
  /\ received' = [received EXCEPT ![ctx[t]] = sum]
  /\ pc' = [pc EXCEPT ![t] = IF enough THEN "check" ELSE "idle"]
  /\ goal' = [goal EXCEPT ![t] = IF enough THEN "completed" ELSE @]
  /\ UNCHANGED <<status, address, holder, cooling, rowOrder, confirmed, boot,
                 creating, watched, timers, intake, total, outside>>

UpdateByAccumulating(t) ==
  LET sum == received[ctx[t]] \cup {t}
  IN  UpdateWith(t, sum, sum \in Sufficient[ctx[t]])

UpdateByEvent(t) == UpdateWith(t, {t}, total[t] \in Sufficient[ctx[t]])

UpdateWithoutComparing(t) == UpdateWith(t, total[t], TRUE)

(* processConfirmedTransfer writes the sum it was given and compares it      *)
(* with the amount of the order, which never changes.                        *)
UpdateReceived(t) ==
  /\ pc[t] = "update"
  /\ received' = [received EXCEPT ![ctx[t]] = total[t]]
  /\ IF total[t] \in Sufficient[ctx[t]]
     THEN /\ pc' = [pc EXCEPT ![t] = "check"]
          /\ goal' = [goal EXCEPT ![t] = "completed"]
     ELSE /\ pc' = [pc EXCEPT ![t] = "idle"]
          /\ UNCHANGED goal
  /\ UNCHANGED <<status, address, holder, cooling, rowOrder, confirmed, boot,
                 creating, watched, timers, intake, total, outside>>

-----------------------------------------------------------------------------
(* handleGracePeriodTimeout of order o, up to its call of transitionToStatus. *)
ReadAtTimeout(o) ==
  /\ pc[o] = "read"
  /\ IF status[o] = "pending"
     THEN /\ pc' = [pc EXCEPT ![o] = "check"]
          /\ goal' = [goal EXCEPT ![o] = IF received[o] \in Sufficient[o]
                                         THEN "completed" ELSE "expired"]
     ELSE /\ pc' = [pc EXCEPT ![o] = "idle"]
          /\ UNCHANGED goal
  /\ UNCHANGED <<tables, boot, creating, watched, timers, intake, total, outside>>

-----------------------------------------------------------------------------
(* What both handlers end with: transitionToStatus, stopOrderMonitoring and  *)
(* clearOrderTimers. An invalid transition skips only the first of them.     *)

(* Faulty variant: the state machine is not asked.                           *)
SkipTransitionCheck(w) ==
  /\ pc[w] = "check"
  /\ pc' = [pc EXCEPT ![w] = "set"]
  /\ UNCHANGED <<tables, boot, creating, watched, timers, intake, goal, total,
                 outside>>

CheckTransition(w) ==
  /\ pc[w] = "check"
  /\ pc' = [pc EXCEPT ![w] = IF IsValidTransition(status[job(w)])
                             THEN "set" ELSE "stop"]
  /\ UNCHANGED <<tables, boot, creating, watched, timers, intake, goal, total,
                 outside>>

(* The UPDATE has no condition on the status the check has read.             *)
SetStatus(w) ==
  /\ pc[w] = "set"
  /\ status' = [status EXCEPT ![job(w)] = goal[w]]
  /\ pc' = [pc EXCEPT ![w] = "emit"]
  /\ UNCHANGED <<address, received, holder, cooling, rowOrder, confirmed, boot,
                 creating, watched, timers, intake, goal, total, outside>>

EmitStatusChange(w) ==
  /\ pc[w] = "emit"
  /\ announced' = [announced EXCEPT ![job(w)] = @ \cup {goal[w]}]
  /\ pc' = [pc EXCEPT ![w] = "stop"]
  /\ UNCHANGED <<tables, boot, creating, watched, timers, intake, goal, total,
                 due, crashes, failures>>

(* Faulty variant: the handler ends without releasing the address.           *)
StopWithoutRelease(w) ==
  /\ pc[w] = "stop"
  /\ watched' = watched \ {address[job(w)]}
  /\ pc' = [pc EXCEPT ![w] = "idle"]
  /\ UNCHANGED <<tables, boot, creating, timers, intake, goal, total, outside>>

StopMonitoring(w) ==
  /\ pc[w] = "stop"
  /\ watched' = watched \ {address[job(w)]}
  /\ pc' = [pc EXCEPT ![w] = "release"]
  /\ UNCHANGED <<tables, boot, creating, timers, intake, goal, total, outside>>

(* Faulty variant: the address is idle at once, without a cooldown.          *)
ReleaseWithoutCooldown(w) ==
  /\ pc[w] = "release"
  /\ holder' = [holder EXCEPT ![address[job(w)]] = NoOrder]
  /\ timers' = timers \ {job(w)}
  /\ pc' = [pc EXCEPT ![w] = "idle"]
  /\ UNCHANGED <<status, address, received, cooling, rowOrder, confirmed, boot,
                 creating, watched, intake, goal, total, outside>>

(* releaseOrderAddress(order.address): the UPDATE selects the row by its     *)
(* address alone, whichever order holds it. Then clearOrderTimers.           *)
ReleaseAddress(w) ==
  /\ pc[w] = "release"
  /\ holder' = [holder EXCEPT ![address[job(w)]] = NoOrder]
  /\ cooling' = cooling \cup {address[job(w)]}
  /\ timers' = timers \ {job(w)}
  /\ pc' = [pc EXCEPT ![w] = "idle"]
  /\ UNCHANGED <<status, address, received, rowOrder, confirmed, boot, creating,
                 watched, intake, goal, total, outside>>

(* A statement of the handler is rejected: the handler ends where it is and  *)
(* nothing takes up its work. Only a failing release is caught, and          *)
(* clearOrderTimers still runs.                                              *)
HandlerFails(w) ==
  /\ busy(w)
  /\ failures < MaxFailures
  /\ failures' = failures + 1
  /\ timers' = timers \ (IF pc[w] = "release" THEN {job(w)} ELSE {})
  /\ pc' = [pc EXCEPT ![w] = "idle"]
  /\ UNCHANGED <<tables, boot, creating, watched, intake, goal, total, due,
                 announced, crashes>>

-----------------------------------------------------------------------------
(* The process ends, whatever it was doing: its memory is lost and no        *)
(* handler goes on.                                                          *)
Crash ==
  /\ mode # "down"
  /\ crashes < MaxCrashes
  /\ crashes' = crashes + 1
  /\ mode' = "down"
  /\ toRestore' = {}
  /\ awaiting' = NoOrder
  /\ creating' = {}
  /\ watched' = {}
  /\ timers' = {}
  /\ seen' = {}
  /\ ctx' = [t \in Transfer |-> NoOrder]
  /\ recording' = {}
  /\ queue' = {}
  /\ pc' = [w \in Worker |-> "idle"]
  /\ goal' = [w \in Worker |-> "expired"]
  /\ total' = [t \in Transfer |-> {}]
  /\ UNCHANGED <<tables, due, announced, failures>>

(* Faulty variant: the services start without restoring anything.            *)
RestartWithoutOrders ==
  /\ mode = "down"
  /\ mode' = "restoring"
  /\ toRestore' = {}
  /\ UNCHANGED <<tables, awaiting, creating, watched, timers, intake, handlers,
                 outside>>

(* ProcessorCore.start in recovery mode: restoreMonitoringTargets reads the  *)
(* pending orders before the monitor and the services start.                 *)
Restart ==
  /\ mode = "down"
  /\ mode' = "restoring"
  /\ toRestore' = {o \in Order : status[o] = "pending"}
  /\ UNCHANGED <<tables, awaiting, creating, watched, timers, intake, handlers,
                 outside>>

(* The loop awaits the timeout handler of an order whose grace period ended   *)
(* while the process was down.                                                *)
LoopGoesOn == awaiting \in Order => ~busy(awaiting)

(* Faulty variant: an order whose grace period has ended is only watched.    *)
RestoreForgetsDueOrders(o) ==
  /\ mode = "restoring"
  /\ o \in toRestore
  /\ LoopGoesOn
  /\ toRestore' = toRestore \ {o}
  /\ watched' = watched \cup {address[o]}
  /\ timers' = timers \cup ({o} \ due)
  /\ UNCHANGED <<tables, mode, awaiting, creating, intake, handlers, outside>>

(* restoreOrderMonitoring(o)                                                  *)
RestoreOrder(o) ==
  /\ mode = "restoring"
  /\ o \in toRestore
  /\ LoopGoesOn
  /\ toRestore' = toRestore \ {o}
  /\ watched' = watched \cup {address[o]}
  /\ IF o \in due
     THEN /\ awaiting' = o
          /\ pc' = [pc EXCEPT ![o] = "read"]
          /\ UNCHANGED timers
     ELSE /\ timers' = timers \cup {o}
          /\ UNCHANGED <<awaiting, pc>>
  /\ UNCHANGED <<tables, mode, creating, intake, goal, total, outside>>

(* The monitor and the services start; createOrder stays disabled.            *)
StartServices ==
  /\ mode = "restoring"
  /\ toRestore = {}
  /\ LoopGoesOn
  /\ mode' = "recovering"
  /\ awaiting' = NoOrder
  /\ UNCHANGED <<tables, toRestore, creating, watched, timers, intake, handlers,
                 outside>>

(* checkRecoveryCompletion, once the monitor reports that it has caught up    *)
RecoveryCompletes ==
  /\ mode = "recovering"
  /\ mode' = "up"
  /\ UNCHANGED <<tables, toRestore, awaiting, creating, watched, timers, intake,
                 handlers, outside>>

-----------------------------------------------------------------------------
ConfirmationStep(t) == MarkConfirmed(t) \/ SumConfirmed(t) \/ UpdateReceived(t)

ClosingStep(w) ==
  \/ CheckTransition(w)
  \/ SetStatus(w)
  \/ EmitStatusChange(w)
  \/ StopMonitoring(w)
  \/ ReleaseAddress(w)

OrderStep(o) ==
  \/ CreateOrder(o)
  \/ MonitorNewOrder(o)
  \/ GraceEnds(o)
  \/ GraceTimerFires(o)
  \/ ReadAtTimeout(o)
  \/ RestoreOrder(o)

TransferStep(t) ==
  \/ TransferDetected(t)
  \/ RecordTransfer(t)
  \/ TransactionConfirmed(t)
  \/ TransactionForgotten(t)
  \/ ConfirmationStep(t)

Next ==
  \/ \E o \in Order : OrderStep(o)
  \/ \E t \in Transfer : TransferStep(t)
  \/ \E w \in Worker : ClosingStep(w) \/ HandlerFails(w)
  \/ \E a \in Address : CooldownEnds(a)
  \/ Crash
  \/ Restart
  \/ StartServices
  \/ RecoveryCompletes

Spec == Init /\ [][Next]_vars

(* Time passes, timers fire, an awaited statement returns and its handler     *)
(* goes on, and a supervisor restarts the process. Customers and chains owe   *)
(* nothing: no fairness for CreateOrder, TransferDetected and the queue.      *)
Fairness ==
  /\ \A o \in Order :
       /\ WF_vars(MonitorNewOrder(o))
       /\ WF_vars(GraceEnds(o))
       /\ WF_vars(GraceTimerFires(o))
       /\ WF_vars(ReadAtTimeout(o))
       /\ WF_vars(RestoreOrder(o))
  /\ \A t \in Transfer : WF_vars(ConfirmationStep(t))
  /\ \A w \in Worker : WF_vars(ClosingStep(w))
  /\ WF_vars(Restart)
  /\ WF_vars(StartServices)

FairSpec == Spec /\ Fairness

-----------------------------------------------------------------------------
(* Properties.                                                              *)

Status == {"none", "pending", "completed", "expired"}
Final == {"completed", "expired"}
Closing == {"check", "set", "emit", "stop", "release"}

(* Every variable keeps the shape of the column or field it models, and a    *)
(* handler in flight has an order that has been created.                     *)
TypeOK ==
  /\ status \in [Order -> Status]
  /\ address \in [Order -> Address \cup {NoAddress}]
  /\ \A o \in Order : status[o] # "none" => address[o] \in Address
  /\ received \in [Order -> SUBSET Transfer]
  /\ holder \in [Address -> Order \cup {NoOrder}]
  /\ cooling \subseteq Address
  /\ rowOrder \in [Transfer -> Order \cup {NoOrder}]
  /\ confirmed \subseteq Transfer
  /\ mode \in {"down", "restoring", "recovering", "up"}
  /\ toRestore \subseteq {o \in Order : status[o] # "none"}
  /\ awaiting \in Order \cup {NoOrder}
  /\ creating \subseteq {o \in Order : status[o] # "none"}
  /\ watched \subseteq Address
  /\ timers \subseteq {o \in Order : status[o] # "none"}
  /\ seen \subseteq Transfer
  /\ ctx \in [Transfer -> Order \cup {NoOrder}]
  /\ \A t \in Transfer : ctx[t] \in Order => status[ctx[t]] # "none"
  /\ recording \subseteq {t \in Transfer : ctx[t] \in Order}
  /\ queue \subseteq {t \in Transfer : ctx[t] \in Order}
  /\ pc \in [Worker -> {"idle", "read", "mark", "sum", "update"} \cup Closing]
  /\ \A o \in Order : pc[o] \in {"idle", "read"} \cup Closing
  /\ \A o \in Order : busy(o) => status[o] # "none"
  /\ \A t \in Transfer : pc[t] \in {"idle", "mark", "sum", "update"} \cup Closing
  /\ \A t \in Transfer : busy(t) => ctx[t] \in Order
  /\ goal \in [Worker -> Final]
  /\ total \in [Transfer -> SUBSET Transfer]
  /\ due \subseteq {o \in Order : status[o] # "none"}
  /\ announced \in [Order -> SUBSET Final]
  /\ crashes \in 0..MaxCrashes
  /\ failures \in 0..MaxFailures

(* An order is completed only if confirmed transfers recorded for it cover   *)
(* its amount, however the handlers of its payments, its timer and crashes   *)
(* interleave.                                                               *)
CompletedIsPaid ==
  \A o \in Order : status[o] = "completed" => ConfirmedRows(o) \in Sufficient[o]

(* The sum in confirmed_received, stale as it may be, counts only confirmed  *)
(* transfers of this order: never another order's, never an unconfirmed one. *)
ReceivedIsConfirmed ==
  \A o \in Order : received[o] \subseteq ConfirmedRows(o)

(* A pending order is the holder of its address: no late handler of a        *)
(* previous order releases it, so no second order can be given it.           *)
PendingHoldsAddress ==
  \A o \in Order : status[o] = "pending" => holder[address[o]] = o

(* While the processor serves, a pending order is watched by the monitor and *)
(* its timer or the timer's handler will close it; only an order its         *)
(* createOrder call has just committed is excepted. Holds again after a      *)
(* restart.                                                                  *)
PendingIsAttended ==
  \A o \in Order :
    status[o] = "pending" /\ mode \in {"recovering", "up"} /\ o \notin creating =>
      /\ address[o] \in watched
      /\ o \in timers \/ pc[o] \in {"read", "check", "set"}

(* Every pending order is closed in the end, across crashes.                 *)
EveryOrderCloses ==
  \A o \in Order : status[o] = "pending" ~> status[o] \in Final

(* A closed order gives its address back to the pool.                        *)
AddressReturns ==
  \A o \in Order : status[o] \in Final ~> \A a \in Address : holder[a] # o

(* completed and expired are terminal: no step leaves them.                  *)
TerminalIsFinal ==
  [][\A o \in Order : status[o] \in Final => status'[o] = status[o]]_vars

(* The running total of an order never loses a transfer it has counted.      *)
ReceivedNeverFalls ==
  [][\A o \in Order : received[o] \subseteq received'[o]]_vars

(* What a merchant has been told of an order's end stays true: two different *)
(* outcomes are never announced.                                             *)
AnnouncedOutcomeStands ==
  \A o \in Order : announced[o] \subseteq {status[o]}

Contract == INSTANCE OrderContract WITH
  paid <- {o \in Order : status[o] # "none" /\ ConfirmedRows(o) \in Sufficient[o]}

(* The code keeps the promise of OrderContract.                              *)
KeepsContract == Contract!Spec

=============================================================================
