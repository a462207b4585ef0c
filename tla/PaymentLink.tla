------------------------------ MODULE PaymentLink ------------------------------
(***************************************************************************)
(* The stock of one payment link: buyers reserve a unit, the processor     *)
(* opens an order for it, and the order's outcome comes back as an event.  *)
(*                                                                         *)
(* A transaction that changes the stock locks the row of the link, reads   *)
(* it, and writes the counters back as absolute values.                    *)
(***************************************************************************)
EXTENDS Integers, FiniteSets

CONSTANTS
  Buyer,       \* each asks for one order; names its reservation and order too
  Totals,      \* the values inventory_total may get
  Unlimited,   \* inventory_total is NULL
  Nothing,     \* no row has been read
  MaxEdits,    \* bound on the operator's changes of the link
  MaxCrashes,  \* bound on the crashes of the process
  MaxFailures  \* bound on the statements that fail

ASSUME StockTypes ==
  /\ IsFiniteSet(Buyer)
  /\ Totals \subseteq Nat \cup {Unlimited}
  /\ Unlimited \notin Nat
  /\ {MaxEdits, MaxCrashes, MaxFailures} \subseteq Nat

VARIABLES
  (* the row of the link *)
  published,  \* status is published, not draft
  archived,
  expired,    \* expires_at has passed
  stock,      \* inventory_total, inventory_reserved, inventory_sold
  (* paymentlink_orders and orders *)
  row,        \* status of the buyer's reservation; none, or deleted
  attached,   \* reservations whose order_id is set
  order,      \* status of the order in the processor, none before it exists
  (* the process *)
  mode,       \* down, starting (no subscriber for events yet), up
  pc,         \* where the buyer's request is
  read,       \* what a transaction in progress read of the stock
  notice,     \* of the end of the payment window: none, due or sent
  news,       \* status events whose handler has not begun to sync them
  syncing,    \* the status a sync in progress brings
  (* history and bounds *)
  toggled,    \* has inventory_total ever changed between NULL and a number?
  reopened,   \* reservations that a late notice has set back to pending
  edits, crashes, failures

link == <<published, archived, expired, stock>>
tables == <<row, attached, order>>
events == <<notice, news, syncing>>
bounds == <<toggled, reopened, edits, crashes, failures>>
vars == <<link, tables, mode, pc, read, events, bounds>>

(* A transaction of a buyer: its reservation, its release, its sync          *)
Transaction == {"reserve", "release", "sync"} \X Buyer
Stock == [total: Totals, reserved: Nat, sold: Nat]
ASSUME NothingIsNoStock == Nothing \notin Stock

Limited(s) == s.total # Unlimited

(* Faulty variant: the SELECT does not say FOR UPDATE.                        *)
NoRowLock == TRUE

(* SELECT ... FOR UPDATE, or an UPDATE, gets the row of the link.              *)
LinkIsFree == \A t \in Transaction : read[t] = Nothing

Begin(t) ==
  /\ LinkIsFree
  /\ read' = [read EXCEPT ![t] = stock]

End(t) == read' = [read EXCEPT ![t] = Nothing]

(* chk_paymentlinks_inventory_nonnegative and _consistency                    *)
Consistent(s) == /\ s.reserved >= 0 /\ s.sold >= 0
                 /\ Limited(s) => s.total >= s.reserved + s.sold

(* Faulty variant: no Math.max(0, ...).                                         *)
MinusOne(n) == n - 1

LessOne(n) == IF n = 0 THEN 0 ELSE n - 1

Init ==
  /\ published = FALSE /\ archived = FALSE /\ expired = FALSE
  /\ stock \in [total: Totals, reserved: {0}, sold: {0}]
  /\ row = [b \in Buyer |-> "none"]
  /\ attached = {}
  /\ order = [b \in Buyer |-> "none"]
  /\ mode = "up"
  /\ pc = [b \in Buyer |-> "away"]
  /\ read = [t \in Transaction |-> Nothing]
  /\ notice = [b \in Buyer |-> "none"]
  /\ news = [b \in Buyer |-> {}]
  /\ syncing = [b \in Buyer |-> "none"]
  /\ toggled = FALSE /\ reopened = {}
  /\ edits = 0 /\ crashes = 0 /\ failures = 0

StatementFails ==
  /\ failures < MaxFailures
  /\ failures' = failures + 1
  /\ UNCHANGED <<toggled, reopened, edits, crashes>>

-----------------------------------------------------------------------------
(* The operator. Each change is one UPDATE and waits for the row lock.        *)

Edit ==
  /\ LinkIsFree
  /\ edits < MaxEdits
  /\ edits' = edits + 1
  /\ UNCHANGED <<tables, mode, pc, read, events, reopened, crashes, failures>>

PublishPaymentLink ==
  /\ ~published
  /\ published' = TRUE
  /\ LinkIsFree
  /\ UNCHANGED <<archived, expired, stock, tables, mode, pc, read, events,
                 bounds>>

UnpublishPaymentLink ==
  /\ published
  /\ published' = FALSE
  /\ Edit
  /\ UNCHANGED <<archived, expired, stock, toggled>>

ArchiveOrRestore ==
  /\ archived' = ~archived
  /\ Edit
  /\ UNCHANGED <<published, expired, stock, toggled>>

(* updatePaymentLink sets inventory_total and leaves the other two alone.      *)
UpdateTotal(n) ==
  LET changed == [stock EXCEPT !.total = n]
  IN  /\ n # stock.total
      /\ Consistent(changed)
      /\ stock' = changed
      /\ toggled' = (toggled \/ Limited(changed) # Limited(stock))
      /\ Edit
      /\ UNCHANGED <<published, archived, expired>>

UpdateExpiry ==
  /\ expired
  /\ expired' = FALSE
  /\ Edit
  /\ UNCHANGED <<published, archived, stock, toggled>>

LinkExpires ==
  /\ ~expired
  /\ expired' = TRUE
  /\ UNCHANGED <<published, archived, stock, tables, mode, pc, read, events,
                 bounds>>

-----------------------------------------------------------------------------
(* A buyer's request: Manager.createPaymentLinkOrder.                          *)

(* The checkout page shows links that are published and not archived.          *)
OpenCheckout(b) ==
  /\ mode # "down"
  /\ pc[b] = "away"
  /\ published /\ ~archived
  /\ pc' = [pc EXCEPT ![b] = "browsing"]
  /\ UNCHANGED <<link, tables, mode, read, events, bounds>>

(* reserveOrderBySlug reads the link again, but not is_archived.               *)
BeginReserve(b) ==
  /\ mode # "down"
  /\ pc[b] = "browsing"
  /\ published /\ ~expired
  /\ Limited(stock) => stock.total - stock.reserved - stock.sold > 0
  /\ Begin(<<"reserve", b>>)
  /\ pc' = [pc EXCEPT ![b] = "reserving"]
  /\ UNCHANGED <<link, tables, mode, events, bounds>>

CommitReserve(b) ==
  LET seen == read[<<"reserve", b>>]
      after == IF Limited(seen)
               THEN [stock EXCEPT !.reserved = seen.reserved + 1] ELSE stock
  IN  /\ pc[b] = "reserving"
      /\ Consistent(after)
      /\ stock' = after
      /\ row' = [row EXCEPT ![b] = "pending"]
      /\ pc' = [pc EXCEPT ![b] = "creating"]
      /\ End(<<"reserve", b>>)
      /\ UNCHANGED <<published, archived, expired, attached, order, mode, events,
                     bounds>>

(* ROLLBACK *)
ReserveFails(b) ==
  /\ pc[b] = "reserving"
  /\ StatementFails
  /\ pc' = [pc EXCEPT ![b] = "refused"]
  /\ End(<<"reserve", b>>)
  /\ UNCHANGED <<link, tables, mode, events>>

CreateOrder(b) ==
  /\ mode = "up"
  /\ pc[b] = "creating"
  /\ order' = [order EXCEPT ![b] = "pending"]
  /\ pc' = [pc EXCEPT ![b] = "attaching"]
  /\ UNCHANGED <<link, row, attached, mode, read, events, bounds>>

(* No address is available, the service is disabled, recovery is going on ...  *)
CreateOrderThrows(b) ==
  /\ mode # "down"
  /\ pc[b] = "creating"
  /\ pc' = [pc EXCEPT ![b] = "releasing"]
  /\ UNCHANGED <<link, tables, mode, read, events, bounds>>

(* Faulty variant: the order's id is not stored.                                *)
AttachNothing(b) ==
  /\ pc[b] = "attaching"
  /\ pc' = [pc EXCEPT ![b] = "answered"]
  /\ UNCHANGED <<link, tables, mode, read, events, bounds>>

AttachOrderId(b) ==
  /\ pc[b] = "attaching"
  /\ attached' = attached \cup {b}
  /\ pc' = [pc EXCEPT ![b] = "answered"]
  /\ UNCHANGED <<link, row, order, mode, read, events, bounds>>

(* The same catch releases the reservation of an order that exists.            *)
AttachFails(b) ==
  /\ pc[b] = "attaching"
  /\ StatementFails
  /\ attached' \in {attached, attached \cup {b}}
  /\ pc' = [pc EXCEPT ![b] = "releasing"]
  /\ UNCHANGED <<link, row, order, mode, read, events>>

BeginRelease(b) ==
  /\ pc[b] = "releasing"
  /\ Begin(<<"release", b>>)
  /\ pc' = [pc EXCEPT ![b] = "deleting"]
  /\ UNCHANGED <<link, tables, mode, events, bounds>>

(* Faulty variant: the row is deleted, the unit stays reserved.                *)
KeepUnit(b) ==
  /\ pc[b] = "deleting"
  /\ row' = [row EXCEPT ![b] = "deleted"]
  /\ pc' = [pc EXCEPT ![b] = "refused"]
  /\ End(<<"release", b>>)
  /\ UNCHANGED <<link, attached, order, mode, events, bounds>>

CommitRelease(b) ==
  LET seen == read[<<"release", b>>]
      rest == IF row[b] = "pending" THEN LessOne(seen.reserved) ELSE seen.reserved
  IN  /\ pc[b] = "deleting"
      /\ row' = [row EXCEPT ![b] = "deleted"]
      /\ stock' = IF Limited(seen)
                  THEN [stock EXCEPT !.reserved = rest, !.sold = seen.sold]
                  ELSE stock
      /\ pc' = [pc EXCEPT ![b] = "refused"]
      /\ End(<<"release", b>>)
      /\ UNCHANGED <<published, archived, expired, attached, order, mode, events,
                     bounds>>

ReleaseFails(b) ==
  /\ pc[b] = "deleting"
  /\ StatementFails
  /\ pc' = [pc EXCEPT ![b] = "refused"]
  /\ End(<<"release", b>>)
  /\ UNCHANGED <<link, tables, mode, events>>

-----------------------------------------------------------------------------
(* The order, and the handler of orderStatusChanged.                           *)

Ended == {"completed", "expired"}

(* The order is completed or expires; the event reaches the manager once       *)
(* setupProcessorEventForwarding has run, not while orders are restored.        *)
OrderCloses(b, s) ==
  /\ mode # "down"
  /\ order[b] = "pending"
  /\ pc[b] \in {"answered", "refused"}  \* a window is longer than a request
  /\ order' = [order EXCEPT ![b] = s]
  /\ news' = IF mode = "up" THEN [news EXCEPT ![b] = @ \cup {s}] ELSE news
  /\ UNCHANGED <<link, row, attached, mode, pc, read, notice, syncing, bounds>>

(* handlePaymentWindowTimeout finds the order pending ...                      *)
WindowEnds(b) ==
  /\ mode = "up"
  /\ order[b] = "pending"
  /\ pc[b] \in {"answered", "refused"}
  /\ notice[b] = "none"
  /\ notice' = [notice EXCEPT ![b] = "due"]
  /\ UNCHANGED <<link, tables, mode, pc, read, news, syncing, bounds>>

(* Faulty variant: the end of the payment window counts as expiry.               *)
NoticeAsExpiry(b) ==
  /\ notice[b] = "due"
  /\ notice' = [notice EXCEPT ![b] = "sent"]
  /\ news' = [news EXCEPT ![b] = @ \cup {"expired"}]
  /\ UNCHANGED <<link, tables, mode, pc, read, syncing, bounds>>

(* ... and emits the status it has read after two more queries.                *)
NoticeEmitted(b) ==
  /\ notice[b] = "due"
  /\ notice' = [notice EXCEPT ![b] = "sent"]
  /\ news' = [news EXCEPT ![b] = @ \cup {"pending"}]
  /\ UNCHANGED <<link, tables, mode, pc, read, syncing, bounds>>

(* The handler has awaited sendNotification: events of an order may overtake   *)
(* each other. syncOrderStatus looks the row up by the order_id.               *)
BeginSync(b, s) ==
  /\ s \in news[b]
  /\ syncing[b] = "none"
  /\ b \in attached /\ row[b] \in {"pending"} \cup Ended
  /\ Begin(<<"sync", b>>)
  /\ news' = [news EXCEPT ![b] = @ \ {s}]
  /\ syncing' = [syncing EXCEPT ![b] = s]
  /\ UNCHANGED <<link, tables, mode, pc, notice, bounds>>

NothingToSync(b, s) ==
  /\ s \in news[b]
  /\ b \notin attached \/ row[b] \in {"none", "deleted"}
  /\ news' = [news EXCEPT ![b] = @ \ {s}]
  /\ UNCHANGED <<link, tables, mode, pc, read, notice, syncing, bounds>>

SyncEnds(b) ==
  /\ syncing[b] # "none"
  /\ syncing' = [syncing EXCEPT ![b] = "none"]
  /\ End(<<"sync", b>>)
  /\ UNCHANGED <<published, archived, expired, attached, order, mode, pc, notice,
                 news>>

Settled(seen, old, new) ==
  [stock EXCEPT
     !.reserved = IF old = "pending" THEN LessOne(seen.reserved) ELSE seen.reserved,
     !.sold = IF new = "completed" THEN seen.sold + 1 ELSE seen.sold]

CommitSync(b) ==
  LET seen == read[<<"sync", b>>]
      after == IF Limited(seen) THEN Settled(seen, row[b], syncing[b]) ELSE stock
  IN  /\ SyncEnds(b)
      /\ row[b] # syncing[b]
      /\ Consistent(after)
      /\ stock' = after
      /\ row' = [row EXCEPT ![b] = syncing[b]]
      /\ reopened' = IF syncing[b] = "pending" THEN reopened \cup {b} ELSE reopened
      /\ UNCHANGED <<toggled, edits, crashes, failures>>

SameStatus(b) ==
  /\ row[b] = syncing[b]
  /\ SyncEnds(b)
  /\ UNCHANGED <<stock, row, bounds>>

(* A failed sync is only logged; the CHECK of the table may be the reason.      *)
SyncFails(b) ==
  LET seen == read[<<"sync", b>>]
  IN  /\ SyncEnds(b)
      /\ \/ StatementFails
         \/ /\ Limited(seen)
            /\ row[b] # syncing[b]
            /\ ~Consistent(Settled(seen, row[b], syncing[b]))
            /\ UNCHANGED bounds
      /\ UNCHANGED <<stock, row>>

-----------------------------------------------------------------------------
(* The process.                                                                *)

(* Transactions are rolled back; requests and events are gone.                  *)
Crash ==
  /\ mode # "down"
  /\ crashes < MaxCrashes
  /\ crashes' = crashes + 1
  /\ mode' = "down"
  /\ pc' = [b \in Buyer |-> IF pc[b] \in {"away", "answered"} THEN pc[b]
                            ELSE "refused"]
  /\ read' = [t \in Transaction |-> Nothing]
  /\ notice' = [b \in Buyer |-> IF notice[b] = "due" THEN "sent" ELSE notice[b]]
  /\ news' = [b \in Buyer |-> {}]
  /\ syncing' = [b \in Buyer |-> "none"]
  /\ UNCHANGED <<link, tables, toggled, reopened, edits, failures>>

(* startProcessor: the processor restores its orders first.                     *)
StartProcessor ==
  /\ mode = "down"
  /\ mode' = "starting"
  /\ UNCHANGED <<link, tables, pc, read, events, bounds>>

SetupProcessorEventForwarding ==
  /\ mode = "starting"
  /\ mode' = "up"
  /\ UNCHANGED <<link, tables, pc, read, events, bounds>>

BuyerStep(b) ==
  \/ OpenCheckout(b)  \/ BeginReserve(b) \/ CommitReserve(b) \/ ReserveFails(b)
  \/ CreateOrder(b) \/ CreateOrderThrows(b)
  \/ AttachOrderId(b) \/ AttachFails(b)
  \/ BeginRelease(b) \/ CommitRelease(b) \/ ReleaseFails(b)

OrderStep(b) ==
  \/ \E s \in Ended : OrderCloses(b, s)
  \/ WindowEnds(b) \/ NoticeEmitted(b)
  \/ \E s \in Ended \cup {"pending"} : BeginSync(b, s) \/ NothingToSync(b, s)
  \/ CommitSync(b) \/ SameStatus(b) \/ SyncFails(b)

OperatorStep ==
  \/ PublishPaymentLink \/ UnpublishPaymentLink \/ ArchiveOrRestore
  \/ \E n \in Totals : UpdateTotal(n)
  \/ UpdateExpiry \/ LinkExpires

Next ==
  \/ \E b \in Buyer : BuyerStep(b) \/ OrderStep(b)
  \/ OperatorStep
  \/ Crash \/ StartProcessor \/ SetupProcessorEventForwarding

Spec == Init /\ [][Next]_vars

(* Handlers and statements come to an end, and whoever waits for the row gets   *)
(* it; so does every order end, as long as the process runs                      *)
(* (OrderPayment!EveryOrderCloses).                                              *)
FairSpec ==
  /\ Spec
  /\ \A b \in Buyer :
       /\ WF_vars(CommitReserve(b) \/ CreateOrder(b) \/ CreateOrderThrows(b)
                 \/ AttachOrderId(b) \/ CommitRelease(b))
       /\ WF_vars(\E s \in Ended : OrderCloses(b, s))
       /\ SF_vars(BeginRelease(b) \/ \E s \in Ended : BeginSync(b, s))
       /\ WF_vars(CommitSync(b) \/ SameStatus(b))

-----------------------------------------------------------------------------
RowStatus == {"none", "pending", "completed", "expired", "deleted"}

TypeOK ==
  /\ {published, archived, expired, toggled} \subseteq BOOLEAN
  /\ stock \in Stock /\ Consistent(stock)
  /\ row \in [Buyer -> RowStatus]
  /\ attached \subseteq Buyer
  /\ order \in [Buyer -> RowStatus \ {"deleted"}]
  /\ mode \in {"down", "starting", "up"}
  /\ pc \in [Buyer -> {"away", "browsing", "reserving", "creating", "attaching",
                       "answered", "releasing", "deleting", "refused"}]
  /\ read \in [Transaction -> Stock \cup {Nothing}]
  /\ notice \in [Buyer -> {"none", "due", "sent"}]
  /\ news \in [Buyer -> SUBSET (Ended \cup {"pending"})]
  /\ syncing \in [Buyer -> Ended \cup {"pending", "none"}]
  /\ reopened \subseteq Buyer
  /\ {edits, crashes, failures} \subseteq Nat

In(status) == {b \in Buyer : row[b] = status}

(* The orders buyers can pay or have paid are never more than the units of the *)
(* link, whatever buyers, operators, failures and crashes interleave; orders   *)
(* whose reservation was deleted because attachOrderId failed do not count.     *)
NoOversell ==
  Limited(stock) /\ ~toggled =>
    Cardinality({b \in Buyer : order[b] \in {"pending", "completed"}
                               /\ row[b] # "deleted"}) <= stock.total

(* The counters are the numbers of pending and of completed reservations, at   *)
(* every commit: no read-modify-write of the row loses another one, and nothing  *)
(* but a late notice, which moves a row back and no counter, sets them apart.     *)
CountersMatchRows ==
  Limited(stock) /\ ~toggled /\ reopened = {} =>
    /\ stock.reserved = Cardinality(In("pending"))
    /\ stock.sold = Cardinality(In("completed"))

(* What a reservation says of its order is what became of the order, although   *)
(* events of one order reach syncOrderStatus in any order. A notice that arrives *)
(* late may set the reservation back to pending, never to another outcome.       *)
RowTellsOutcome ==
  \A b \in Buyer : row[b] \in Ended => row[b] = order[b]

(* As long as no statement fails and the process does not crash, a unit does    *)
(* not stay reserved: the order pays for it or gives it back, and without an     *)
(* order the request does. Only a reservation that a late notice has reopened     *)
(* stays: its order has ended and no event about it follows.                      *)
Untroubled == crashes = 0 /\ failures = 0 /\ ~toggled
ReservationEnds ==
  \A b \in Buyer : (row[b] = "pending") ~> (row[b] # "pending" \/ b \in reopened \/ ~Untroubled)

=============================================================================
