--------------------------- MODULE PaymentLinkProofs ---------------------------
(***************************************************************************)
(* Theorems about PaymentLink, for any number of buyers, edits, crashes and *)
(* failures, and any values of inventory_total.                             *)
(***************************************************************************)
EXTENDS PaymentLink, FiniteSetTheorems, TLAPS

(* A transaction is in progress between its SELECT ... FOR UPDATE and its    *)
(* COMMIT or ROLLBACK.                                                       *)
ReadsMatchRequests ==
  \A b \in Buyer :
    /\ read[<<"reserve", b>>] # Nothing <=> pc[b] = "reserving"
    /\ read[<<"release", b>>] # Nothing <=> pc[b] = "deleting"
    /\ read[<<"sync", b>>] # Nothing <=> syncing[b] # "none"

(* One transaction at most has the row of the link, and what it read of the  *)
(* stock is the stock.                                                       *)
RowIsLocked ==
  /\ \A t, u \in Transaction : read[t] # Nothing /\ read[u] # Nothing => t = u
  /\ \A t \in Transaction : read[t] # Nothing => read[t] = stock

(* Where a request is tells its reservation and whether there is an order;    *)
(* only afterwards are there events to sync.                                  *)
RequestOwnsRow ==
  \A b \in Buyer :
    /\ pc[b] \in {"away", "browsing", "reserving"} => row[b] = "none"
    /\ pc[b] \in {"creating", "attaching", "releasing", "deleting"} => row[b] = "pending"
    /\ pc[b] \in {"away", "browsing", "reserving", "creating"} => order[b] = "none"
    /\ order[b] # "none" => row[b] # "none"
    /\ order[b] \in Ended => pc[b] \in {"answered", "refused"}
    /\ news[b] # {} \/ notice[b] = "due" \/ syncing[b] # "none"
         => pc[b] \in {"answered", "refused"}
    /\ syncing[b] # "none" => row[b] \in {"pending"} \cup Ended

(* An event of an order's end tells how it ended, ...                         *)
EndsAreTrue ==
  \A b \in Buyer : \A s \in Ended : s \in news[b] \/ syncing[b] = s => order[b] = s

(* ... and is synced once.                                                    *)
ExpiresOnce ==
  \A b \in Buyer : syncing[b] = "expired" \/ row[b] = "expired" =>
    /\ "expired" \notin news[b]
    /\ syncing[b] = "expired" => row[b] # "expired"

(* The part of TypeOK about the orders, the requests and the events.          *)
ControlTypes ==
  /\ row \in [Buyer -> RowStatus]
  /\ attached \subseteq Buyer
  /\ order \in [Buyer -> RowStatus \ {"deleted"}]
  /\ mode \in {"down", "starting", "up"}
  /\ pc \in [Buyer -> {"away", "browsing", "reserving", "creating", "attaching",
                       "answered", "releasing", "deleting", "refused"}]
  /\ notice \in [Buyer -> {"none", "due", "sent"}]
  /\ news \in [Buyer -> SUBSET (Ended \cup {"pending"})]
  /\ syncing \in [Buyer -> Ended \cup {"pending", "none"}]

(* A request and the row of its order agree.                                  *)
RequestInv == ControlTypes /\ RequestOwnsRow

(* No step of a request, an order, an event or the process breaks RequestInv: only  *)
(* the request itself touches the row until it has ended.                           *)
LEMMA NextRequestInv ==
  ASSUME RequestInv, [Next]_vars
  PROVE  RequestInv'
<1> USE DEF RequestInv, ControlTypes, RequestOwnsRow, RowStatus, Ended, link, tables,
            events, bounds
<1>1. ASSUME NEW b \in Buyer, OpenCheckout(b) PROVE RequestInv'
  BY <1>1 DEF OpenCheckout
<1>2. ASSUME NEW b \in Buyer, BeginReserve(b) PROVE RequestInv'
  BY <1>2 DEF BeginReserve
<1>3. ASSUME NEW b \in Buyer, CommitReserve(b) PROVE RequestInv'
  BY <1>3 DEF CommitReserve
<1>4. ASSUME NEW b \in Buyer, ReserveFails(b) PROVE RequestInv'
  BY <1>4 DEF ReserveFails
<1>5. ASSUME NEW b \in Buyer, CreateOrder(b) PROVE RequestInv'
  BY <1>5 DEF CreateOrder
<1>6. ASSUME NEW b \in Buyer, CreateOrderThrows(b) PROVE RequestInv'
  BY <1>6 DEF CreateOrderThrows
<1>7. ASSUME NEW b \in Buyer, AttachOrderId(b) PROVE RequestInv'
  BY <1>7 DEF AttachOrderId
<1>8. ASSUME NEW b \in Buyer, AttachFails(b) PROVE RequestInv'
  BY <1>8 DEF AttachFails
<1>9. ASSUME NEW b \in Buyer, BeginRelease(b) PROVE RequestInv'
  BY <1>9 DEF BeginRelease
<1>10. ASSUME NEW b \in Buyer, CommitRelease(b) PROVE RequestInv'
  BY <1>10 DEF CommitRelease
<1>11. ASSUME NEW b \in Buyer, ReleaseFails(b) PROVE RequestInv'
  BY <1>11 DEF ReleaseFails
<1>12. ASSUME NEW b \in Buyer, WindowEnds(b) PROVE RequestInv'
  BY <1>12 DEF WindowEnds
<1>13. ASSUME NEW b \in Buyer, NoticeEmitted(b) PROVE RequestInv'
  BY <1>13 DEF NoticeEmitted
<1>14. ASSUME NEW b \in Buyer, CommitSync(b) PROVE RequestInv'
  BY <1>14 DEF CommitSync, SyncEnds
<1>15. ASSUME NEW b \in Buyer, SameStatus(b) PROVE RequestInv'
  BY <1>15 DEF SameStatus, SyncEnds
<1>16. ASSUME NEW b \in Buyer, SyncFails(b) PROVE RequestInv'
  BY <1>16 DEF SyncFails, SyncEnds
<1>17. ASSUME NEW b \in Buyer, NEW s \in Ended, OrderCloses(b, s) PROVE RequestInv'
  BY <1>17 DEF OrderCloses
<1>18. ASSUME NEW b \in Buyer, NEW s \in Ended \cup {"pending"}, BeginSync(b, s)
      PROVE  RequestInv'
  BY <1>18 DEF BeginSync
<1>19. ASSUME NEW b \in Buyer, NEW s \in Ended \cup {"pending"}, NothingToSync(b, s)
      PROVE  RequestInv'
  BY <1>19 DEF NothingToSync
<1>20. CASE OperatorStep
  <2>1. UNCHANGED <<tables, mode, pc, events>>
    BY <1>20 DEF OperatorStep, PublishPaymentLink, UnpublishPaymentLink,
       ArchiveOrRestore, UpdateTotal, UpdateExpiry, LinkExpires, Edit
  <2> QED
    BY <2>1
<1>21. CASE Crash
  BY <1>21 DEF Crash
<1>22. CASE StartProcessor
  BY <1>22 DEF StartProcessor
<1>23. CASE SetupProcessorEventForwarding
  BY <1>23 DEF SetupProcessorEventForwarding
<1>24. CASE UNCHANGED vars
  BY <1>24 DEF vars
<1> QED
  BY <1>1, <1>2, <1>3, <1>4, <1>5, <1>6, <1>7, <1>8, <1>9, <1>10, <1>11, <1>12, <1>13,
     <1>14, <1>15, <1>16, <1>17, <1>18, <1>19, <1>20, <1>21, <1>22, <1>23, <1>24
     DEF Next, BuyerStep, OrderStep

(* Events and rows agree about the outcome of an order.                       *)
OutcomeInv == EndsAreTrue /\ ExpiresOnce /\ RowTellsOutcome

(* An order that has ended stays as it is, so the events of its end stay true, and   *)
(* a notice that comes too late only makes the row pending again.                    *)
LEMMA NextOutcomeInv ==
  ASSUME RequestInv, OutcomeInv, [Next]_vars
  PROVE  OutcomeInv'
<1> USE DEF RequestInv, ControlTypes, RequestOwnsRow, OutcomeInv, EndsAreTrue,
            ExpiresOnce, RowTellsOutcome, RowStatus, Ended, link, tables, events, bounds
<1>1. ASSUME NEW b \in Buyer, CommitReserve(b) PROVE OutcomeInv'
  BY <1>1 DEF CommitReserve
<1>2. ASSUME NEW b \in Buyer, CreateOrder(b) PROVE OutcomeInv'
  BY <1>2 DEF CreateOrder
<1>3. ASSUME NEW b \in Buyer, CommitRelease(b) PROVE OutcomeInv'
  BY <1>3 DEF CommitRelease
<1>4. ASSUME NEW b \in Buyer, WindowEnds(b) PROVE OutcomeInv'
  BY <1>4 DEF WindowEnds
<1>5. ASSUME NEW b \in Buyer, NoticeEmitted(b) PROVE OutcomeInv'
  BY <1>5 DEF NoticeEmitted
<1>6. ASSUME NEW b \in Buyer, CommitSync(b) PROVE OutcomeInv'
  BY <1>6 DEF CommitSync, SyncEnds
<1>7. ASSUME NEW b \in Buyer, SameStatus(b) PROVE OutcomeInv'
  BY <1>7 DEF SameStatus, SyncEnds
<1>8. ASSUME NEW b \in Buyer, SyncFails(b) PROVE OutcomeInv'
  BY <1>8 DEF SyncFails, SyncEnds
<1>9. ASSUME NEW b \in Buyer, NEW s \in Ended, OrderCloses(b, s) PROVE OutcomeInv'
  BY <1>9 DEF OrderCloses
<1>10. ASSUME NEW b \in Buyer, NEW s \in Ended \cup {"pending"}, BeginSync(b, s)
      PROVE  OutcomeInv'
  BY <1>10 DEF BeginSync
<1>11. ASSUME NEW b \in Buyer, NEW s \in Ended \cup {"pending"}, NothingToSync(b, s)
      PROVE  OutcomeInv'
  BY <1>11 DEF NothingToSync
<1>12. CASE Crash
  BY <1>12 DEF Crash
<1>13. CASE UNCHANGED <<row, order, notice, news, syncing>>
  BY <1>13
<1>14. ASSUME NEW b \in Buyer, BuyerStep(b) PROVE OutcomeInv'
  <2>1. CASE \/ OpenCheckout(b) \/ BeginReserve(b) \/ ReserveFails(b)
    BY <1>13, <2>1 DEF OpenCheckout, BeginReserve, ReserveFails
  <2>2. CASE CreateOrderThrows(b) \/ AttachOrderId(b) \/ AttachFails(b)
    BY <1>13, <2>2 DEF CreateOrderThrows, AttachOrderId, AttachFails
  <2>3. CASE BeginRelease(b) \/ ReleaseFails(b)
    BY <1>13, <2>3 DEF BeginRelease, ReleaseFails
  <2> QED
    BY <1>1, <1>2, <1>3, <1>14, <2>1, <2>2, <2>3 DEF BuyerStep
<1>15. ASSUME NEW b \in Buyer, OrderStep(b) PROVE OutcomeInv'
  BY <1>4, <1>5, <1>6, <1>7, <1>8, <1>9, <1>10, <1>11, <1>15 DEF OrderStep
<1>16. CASE OperatorStep
  <2>1. UNCHANGED <<tables, mode, pc, events>>
    BY <1>16 DEF OperatorStep, PublishPaymentLink, UnpublishPaymentLink,
       ArchiveOrRestore, UpdateTotal, UpdateExpiry, LinkExpires, Edit
  <2> QED
    BY <1>13, <2>1
<1>17. CASE StartProcessor \/ SetupProcessorEventForwarding \/ UNCHANGED vars
  BY <1>13, <1>17 DEF StartProcessor, SetupProcessorEventForwarding, vars
<1> QED
  BY <1>12, <1>14, <1>15, <1>16, <1>17 DEF Next

-----------------------------------------------------------------------------
(* The row lock.                                                              *)

(* Whoever has the row of the link has read it, and nobody else has.          *)
LockInv ==
  /\ stock \in Stock /\ Consistent(stock)
  /\ read \in [Transaction -> Stock \cup {Nothing}]
  /\ ReadsMatchRequests
  /\ RowIsLocked

(* A transaction reserves, releases or syncs for one buyer.                   *)
LEMMA TransactionsOfBuyers ==
  /\ \A b \in Buyer : {<<"reserve", b>>, <<"release", b>>, <<"sync", b>>} \subseteq Transaction
  /\ \A t \in Transaction : \E b \in Buyer :
       t \in {<<"reserve", b>>, <<"release", b>>, <<"sync", b>>}
BY DEF Transaction

(* SELECT ... FOR UPDATE reads the stock, and nobody else has a read of it.    *)
LEMMA BeginLocks ==
  ASSUME LockInv, NEW t \in Transaction, Begin(t), UNCHANGED stock
  PROVE  /\ read' \in [Transaction -> Stock \cup {Nothing}]
         /\ RowIsLocked'
         /\ read'[t] # Nothing /\ \A u \in Transaction \ {t} : read'[u] = read[u]
BY NothingIsNoStock DEF LockInv, Begin, LinkIsFree, RowIsLocked

(* A COMMIT or ROLLBACK leaves no transaction in progress; it was the only one,*)
(* and what it had read was still the stock.                                   *)
LEMMA EndUnlocks ==
  ASSUME LockInv, NEW t \in Transaction, read[t] # Nothing, End(t)
  PROVE  /\ read' \in [Transaction -> Stock \cup {Nothing}]
         /\ RowIsLocked'
         /\ \A u \in Transaction : read'[u] = Nothing /\ (u # t => read[u] = Nothing)
         /\ read[t] = stock
BY DEF LockInv, End, RowIsLocked

(* Nothing of the lock changes.                                                 *)
LEMMA LockStands ==
  ASSUME LockInv, ControlTypes, UNCHANGED <<stock, read, syncing>>, NEW b \in Buyer,
         pc[b] \notin {"reserving", "deleting"}, NEW p, p \notin {"reserving", "deleting"},
         pc' = [pc EXCEPT ![b] = p]
  PROVE  LockInv'
BY DEF LockInv, ControlTypes, ReadsMatchRequests, RowIsLocked, Consistent

(* A transaction of a request ends.                                             *)
LEMMA RequestCommits ==
  ASSUME LockInv, ControlTypes, NEW b \in Buyer, UNCHANGED syncing,
         \/ pc[b] = "reserving" /\ End(<<"reserve", b>>)
         \/ pc[b] = "deleting" /\ End(<<"release", b>>),
         NEW p, p \notin {"reserving", "deleting"}, pc' = [pc EXCEPT ![b] = p],
         stock' \in Stock, Consistent(stock')
  PROVE  LockInv'
<1>1. CASE pc[b] = "reserving" /\ End(<<"reserve", b>>)
  <2>1. <<"reserve", b>> \in Transaction /\ read[<<"reserve", b>>] # Nothing
    BY <1>1, TransactionsOfBuyers DEF LockInv, ReadsMatchRequests
  <2>2. /\ read' \in [Transaction -> Stock \cup {Nothing}] /\ RowIsLocked'
        /\ \A u \in Transaction : read'[u] = Nothing
        /\ \A u \in Transaction \ {<<"reserve", b>>} : read[u] = Nothing
    BY <1>1, <2>1, EndUnlocks
  <2>3. ReadsMatchRequests'
    BY <2>2, TransactionsOfBuyers DEF LockInv, ReadsMatchRequests, ControlTypes
  <2> QED
    BY <2>2, <2>3 DEF LockInv
<1>2. CASE pc[b] = "deleting" /\ End(<<"release", b>>)
  <2>1. <<"release", b>> \in Transaction /\ read[<<"release", b>>] # Nothing
    BY <1>2, TransactionsOfBuyers DEF LockInv, ReadsMatchRequests
  <2>2. /\ read' \in [Transaction -> Stock \cup {Nothing}] /\ RowIsLocked'
        /\ \A u \in Transaction : read'[u] = Nothing
        /\ \A u \in Transaction \ {<<"release", b>>} : read[u] = Nothing
    BY <1>2, <2>1, EndUnlocks
  <2>3. ReadsMatchRequests'
    BY <2>2, TransactionsOfBuyers DEF LockInv, ReadsMatchRequests, ControlTypes
  <2> QED
    BY <2>2, <2>3 DEF LockInv
<1> QED
  BY <1>1, <1>2

(* A sync ends.                                                                 *)
LEMMA SyncCommits ==
  ASSUME LockInv, ControlTypes, NEW b \in Buyer, SyncEnds(b),
         stock' \in Stock, Consistent(stock')
  PROVE  LockInv'
<1>1. <<"sync", b>> \in Transaction /\ read[<<"sync", b>>] # Nothing
  BY TransactionsOfBuyers DEF LockInv, ReadsMatchRequests, SyncEnds
<1>2. /\ read' \in [Transaction -> Stock \cup {Nothing}] /\ RowIsLocked'
      /\ \A u \in Transaction : read'[u] = Nothing
      /\ \A u \in Transaction \ {<<"sync", b>>} : read[u] = Nothing
  BY <1>1, EndUnlocks DEF SyncEnds
<1>3. ReadsMatchRequests'
  BY <1>2, TransactionsOfBuyers DEF LockInv, ReadsMatchRequests, ControlTypes, SyncEnds
<1> QED
  BY <1>2, <1>3 DEF LockInv

(* A request or a sync that begins a transaction keeps LockInv: it has got the row. *)
LEMMA BeginningLocks ==
  ASSUME LockInv, RequestInv, NEW b \in Buyer,
         \/ BeginReserve(b)
         \/ BeginRelease(b)
         \/ \E s \in Ended \cup {"pending"} : BeginSync(b, s)
  PROVE  LockInv'
<1>0. UNCHANGED stock
  BY DEF BeginReserve, BeginRelease, BeginSync, link
<1> USE TransactionsOfBuyers
    DEF LockInv, ReadsMatchRequests, RequestInv, ControlTypes, RequestOwnsRow, events
<1>1. CASE BeginReserve(b)
  <2>1. /\ read' \in [Transaction -> Stock \cup {Nothing}] /\ RowIsLocked'
        /\ read'[<<"reserve", b>>] # Nothing
        /\ \A u \in Transaction \ {<<"reserve", b>>} : read'[u] = read[u]
    BY <1>0, <1>1, BeginLocks DEF BeginReserve
  <2> QED
    BY <1>0, <1>1, <2>1 DEF BeginReserve, Consistent
<1>2. CASE BeginRelease(b)
  <2>1. /\ read' \in [Transaction -> Stock \cup {Nothing}] /\ RowIsLocked'
        /\ read'[<<"release", b>>] # Nothing
        /\ \A u \in Transaction \ {<<"release", b>>} : read'[u] = read[u]
    BY <1>0, <1>2, BeginLocks DEF BeginRelease
  <2> QED
    BY <1>0, <1>2, <2>1 DEF BeginRelease, Consistent
<1>3. ASSUME NEW s \in Ended \cup {"pending"}, BeginSync(b, s) PROVE LockInv'
  <2>1. /\ read' \in [Transaction -> Stock \cup {Nothing}] /\ RowIsLocked'
        /\ read'[<<"sync", b>>] # Nothing
        /\ \A u \in Transaction \ {<<"sync", b>>} : read'[u] = read[u]
    BY <1>0, <1>3, BeginLocks DEF BeginSync
  <2> QED
    BY <1>0, <1>3, <2>1, SMTT(30) DEF BeginSync, Consistent, Ended
<1> QED
  BY <1>1, <1>2, <1>3

(* The stock that CommitReserve, CommitRelease and CommitSync write is a stock. *)
LEMMA StockWritten ==
  ASSUME NEW s \in Stock, Consistent(s)
  PROVE  /\ [s EXCEPT !.reserved = s.reserved + 1] \in Stock
         /\ \A n \in {s.reserved, LessOne(s.reserved)} :
              /\ [s EXCEPT !.reserved = n, !.sold = s.sold] \in Stock
              /\ Consistent([s EXCEPT !.reserved = n, !.sold = s.sold])
              /\ [s EXCEPT !.reserved = n, !.sold = s.sold + 1] \in Stock
         /\ \A n \in Totals : [s EXCEPT !.total = n] \in Stock
<1>1. /\ s.total \in Totals /\ s.reserved \in Nat /\ s.sold \in Nat
      /\ LessOne(s.reserved) \in Nat /\ LessOne(s.reserved) <= s.reserved
  BY DEF Stock, LessOne
<1>2. s.total # Unlimited => s.total \in Nat
  BY <1>1, StockTypes
<1>3. ASSUME NEW n \in {s.reserved, LessOne(s.reserved)}
      PROVE  LET after == [s EXCEPT !.reserved = n, !.sold = s.sold]
             IN  /\ after \in Stock
                 /\ after.total = s.total /\ after.reserved = n /\ after.sold = s.sold
  BY <1>1 DEF Stock
<1>4. ASSUME NEW n \in {s.reserved, LessOne(s.reserved)}
      PROVE  Consistent([s EXCEPT !.reserved = n, !.sold = s.sold])
  BY <1>1, <1>2, <1>3 DEF Consistent, Limited
<1>5. ASSUME NEW n \in {s.reserved, LessOne(s.reserved)}
      PROVE  [s EXCEPT !.reserved = n, !.sold = s.sold + 1] \in Stock
  <2>1. n \in Nat /\ s.sold + 1 \in Nat
    BY <1>1
  <2> QED
    BY <2>1 DEF Stock
<1>6. /\ [s EXCEPT !.reserved = s.reserved + 1] \in Stock
      /\ \A n \in Totals : [s EXCEPT !.total = n] \in Stock
  BY <1>1 DEF Stock
<1> QED
  BY <1>3, <1>4, <1>5, <1>6

(* Nobody changes the row of the link under somebody who has it.                *)
LEMMA NextLockInv ==
  ASSUME LockInv, RequestInv, [Next]_vars
  PROVE  LockInv'
<1>c. ControlTypes
  BY DEF RequestInv
<1>1. ASSUME NEW b \in Buyer,
             \/ OpenCheckout(b) \/ CreateOrder(b) \/ CreateOrderThrows(b)
             \/ AttachOrderId(b) \/ AttachFails(b)
      PROVE  LockInv'
  <2>1. /\ UNCHANGED <<stock, read, syncing>> /\ pc[b] \notin {"reserving", "deleting"}
        /\ \E p \in {"browsing", "attaching", "releasing", "answered"} :
             pc' = [pc EXCEPT ![b] = p]
    BY <1>1 DEF OpenCheckout, CreateOrder, CreateOrderThrows, AttachOrderId, AttachFails,
       link, events
  <2> QED
    BY <1>c, <2>1, LockStands
<1>2. ASSUME NEW b \in Buyer,
             BeginReserve(b) \/ BeginRelease(b)
               \/ \E s \in Ended \cup {"pending"} : BeginSync(b, s)
      PROVE  LockInv'
  BY <1>2, BeginningLocks
<1>3. ASSUME NEW b \in Buyer, CommitReserve(b) PROVE LockInv'
  <2>1. read[<<"reserve", b>>] = stock
    BY <1>3, TransactionsOfBuyers
       DEF CommitReserve, LockInv, ReadsMatchRequests, RowIsLocked
  <2>2. stock' \in Stock /\ Consistent(stock')
    BY <1>3, <2>1, StockWritten DEF CommitReserve, LockInv
  <2> QED
    BY <1>c, <1>3, <2>2, RequestCommits DEF CommitReserve, events
<1>4. ASSUME NEW b \in Buyer, CommitRelease(b) PROVE LockInv'
  <2>1. read[<<"release", b>>] = stock
    BY <1>4, TransactionsOfBuyers
       DEF CommitRelease, LockInv, ReadsMatchRequests, RowIsLocked
  <2>2. stock' \in Stock /\ Consistent(stock')
    BY <1>4, <2>1, StockWritten DEF CommitRelease, LockInv
  <2> QED
    BY <1>c, <1>4, <2>2, RequestCommits DEF CommitRelease, events
<1>5. ASSUME NEW b \in Buyer, ReserveFails(b) \/ ReleaseFails(b) PROVE LockInv'
  <2>1. UNCHANGED <<stock, syncing>>
    BY <1>5 DEF ReserveFails, ReleaseFails, link, events
  <2>2. stock' \in Stock /\ Consistent(stock')
    BY <2>1 DEF LockInv, Consistent
  <2> QED
    BY <1>c, <1>5, <2>1, <2>2, RequestCommits DEF ReserveFails, ReleaseFails
<1>6. ASSUME NEW b \in Buyer, CommitSync(b) PROVE LockInv'
  <2>1. read[<<"sync", b>>] = stock
    BY <1>6, TransactionsOfBuyers
       DEF CommitSync, SyncEnds, LockInv, ReadsMatchRequests, RowIsLocked
  <2>2. stock' \in Stock /\ Consistent(stock')
    BY <1>6, <2>1, StockWritten DEF CommitSync, Settled, LockInv
  <2> QED
    BY <1>c, <1>6, <2>2, SyncCommits DEF CommitSync
<1>7. ASSUME NEW b \in Buyer, SameStatus(b) \/ SyncFails(b) PROVE LockInv'
  <2>1. SyncEnds(b) /\ UNCHANGED stock
    BY <1>7 DEF SameStatus, SyncFails
  <2>2. stock' \in Stock /\ Consistent(stock')
    BY <2>1 DEF LockInv, Consistent
  <2> QED
    BY <1>c, <2>1, <2>2, SyncCommits
<1>8. ASSUME NEW n \in Totals, UpdateTotal(n) PROVE LockInv'
  <2>1. /\ stock' \in Stock /\ Consistent(stock')
        /\ LinkIsFree /\ UNCHANGED <<pc, read, syncing>>
    BY <1>8, StockWritten DEF UpdateTotal, Edit, events, LockInv
  <2> QED
    BY <2>1 DEF LockInv, LinkIsFree, ReadsMatchRequests, RowIsLocked
<1>9. CASE Crash
  <2>1. /\ UNCHANGED stock /\ \A t \in Transaction : read'[t] = Nothing
        /\ read' \in [Transaction -> Stock \cup {Nothing}]
        /\ \A b \in Buyer : /\ pc'[b] \notin {"reserving", "deleting"}
                            /\ syncing'[b] = "none"
    BY <1>9, <1>c DEF Crash, link, ControlTypes
  <2> QED
    BY <2>1, TransactionsOfBuyers
       DEF LockInv, ReadsMatchRequests, RowIsLocked, Consistent
<1>10. CASE UNCHANGED <<stock, pc, read, syncing>>
  BY <1>10 DEF LockInv, ReadsMatchRequests, RowIsLocked, Consistent
<1> QED
  BY <1>1, <1>2, <1>3, <1>4, <1>5, <1>6, <1>7, <1>8, <1>9, <1>10
     DEF Next, BuyerStep, OrderStep, OperatorStep, OrderCloses, WindowEnds, NoticeEmitted,
         NothingToSync, PublishPaymentLink, UnpublishPaymentLink, ArchiveOrRestore,
         UpdateExpiry, LinkExpires, Edit, StartProcessor, SetupProcessorEventForwarding,
         vars, link, events

-----------------------------------------------------------------------------
(* The counters.                                                               *)

(* A reservation that changes its status leaves one set and enters another.     *)
LEMMA RowMoves ==
  ASSUME ControlTypes, NEW b \in Buyer, NEW new \in RowStatus, new # row[b],
         row' = [row EXCEPT ![b] = new], NEW x
  PROVE  /\ Cardinality(In(x)) \in Nat
         /\ Cardinality(In(x)') = IF x = new THEN Cardinality(In(x)) + 1
                                  ELSE IF x = row[b] THEN Cardinality(In(x)) - 1
                                  ELSE Cardinality(In(x))
         /\ x = row[b] => Cardinality(In(x)) > 0
<1>1. IsFiniteSet(Buyer) /\ In(x) \in SUBSET Buyer
  BY StockTypes DEF In
<1>2. IsFiniteSet(In(x)) /\ Cardinality(In(x)) \in Nat
  BY <1>1, FS_Subset, FS_CardinalityType
<1>3. x = row[b] => Cardinality(In(x)) > 0
  <2>1. x = row[b] => b \in In(x)
    BY DEF In
  <2> QED
    BY <1>2, <2>1, FS_EmptySet
<1>4. CASE x = new
  <2>1. In(x)' = In(x) \cup {b} /\ b \notin In(x)
    BY <1>4 DEF In, ControlTypes
  <2> QED
    BY <1>2, <1>3, <1>4, <2>1, FS_AddElement
<1>5. CASE x # new /\ x = row[b]
  <2>1. In(x)' = In(x) \ {b} /\ b \in In(x)
    BY <1>5 DEF In, ControlTypes
  <2> QED
    BY <1>2, <1>3, <1>5, <2>1, FS_RemoveElement
<1>6. CASE x # new /\ x # row[b]
  <2>1. In(x)' = In(x)
    BY <1>6 DEF In, ControlTypes
  <2> QED
    BY <1>2, <1>6, <2>1
<1> QED
  BY <1>4, <1>5, <1>6

(* The types, the requests and the row lock.                                     *)
TableInv ==
  /\ {published, archived, expired, toggled} \subseteq BOOLEAN
  /\ reopened \subseteq Buyer
  /\ {edits, crashes, failures} \subseteq Nat
  /\ RequestInv
  /\ LockInv

(* The inductive invariant of the stock.                                         *)
LinkInv ==
  /\ TableInv
  /\ OutcomeInv
  /\ CountersMatchRows

(* Each commit counts what it does to the reservations.                          *)
LEMMA NextCounters ==
  ASSUME LinkInv, [Next]_vars
  PROVE  CountersMatchRows'
<1> USE DEF LinkInv, TableInv, OutcomeInv
<1>c. ControlTypes
  BY DEF RequestInv
<1>t. stock \in Stock /\ stock.reserved \in Nat /\ stock.sold \in Nat
  BY DEF LockInv, Stock
<1>1. ASSUME NEW b \in Buyer, CommitReserve(b) PROVE CountersMatchRows'
  <2>1. read[<<"reserve", b>>] = stock
    BY <1>1, TransactionsOfBuyers
       DEF CommitReserve, LockInv, ReadsMatchRequests, RowIsLocked
  <2>2. row[b] = "none" /\ row' = [row EXCEPT ![b] = "pending"] /\ UNCHANGED <<toggled, reopened>>
    BY <1>1 DEF CommitReserve, RequestInv, RequestOwnsRow, bounds
  <2>3. /\ Cardinality(In("pending")') = Cardinality(In("pending")) + 1
        /\ Cardinality(In("completed")') = Cardinality(In("completed"))
    BY <1>c, <2>2, RowMoves DEF RowStatus
  <2>4. stock' = IF Limited(stock) THEN [stock EXCEPT !.reserved = stock.reserved + 1]
                 ELSE stock
    BY <1>1, <2>1 DEF CommitReserve
  <2>5. /\ Limited(stock') => Limited(stock)
        /\ Limited(stock) => stock'.reserved = stock.reserved + 1 /\ stock'.sold = stock.sold
    BY <1>t, <2>4 DEF Limited, Stock
  <2> QED
    BY <2>2, <2>3, <2>5 DEF CountersMatchRows
<1>2. ASSUME NEW b \in Buyer, CommitRelease(b) PROVE CountersMatchRows'
  <2>1. read[<<"release", b>>] = stock
    BY <1>2, TransactionsOfBuyers
       DEF CommitRelease, LockInv, ReadsMatchRequests, RowIsLocked
  <2>2. row[b] = "pending" /\ row' = [row EXCEPT ![b] = "deleted"] /\ UNCHANGED <<toggled, reopened>>
    BY <1>2 DEF CommitRelease, RequestInv, RequestOwnsRow, bounds
  <2>3. /\ Cardinality(In("pending")') = Cardinality(In("pending")) - 1
        /\ Cardinality(In("pending")) > 0
        /\ Cardinality(In("completed")') = Cardinality(In("completed"))
    BY <1>c, <2>2, RowMoves DEF RowStatus
  <2>4. stock' = IF Limited(stock)
                 THEN [stock EXCEPT !.reserved = LessOne(stock.reserved), !.sold = stock.sold]
                 ELSE stock
    BY <1>2, <2>1, <2>2 DEF CommitRelease
  <2>5. /\ Limited(stock') => Limited(stock)
        /\ Limited(stock) => stock'.reserved = LessOne(stock.reserved) /\ stock'.sold = stock.sold
    BY <1>t, <2>4 DEF Limited, Stock
  <2> QED
    BY <1>t, <2>2, <2>3, <2>5 DEF CountersMatchRows, LessOne
<1>3. ASSUME NEW b \in Buyer, CommitSync(b) PROVE CountersMatchRows'
  <2>1. read[<<"sync", b>>] = stock
    BY <1>3, TransactionsOfBuyers
       DEF CommitSync, SyncEnds, LockInv, ReadsMatchRequests, RowIsLocked
  <2>2. CASE syncing[b] = "pending"
    BY <1>3, <2>2 DEF CommitSync, CountersMatchRows
  <2>3. CASE syncing[b] # "pending"
    <3>1. row[b] = "pending" /\ syncing[b] \in Ended
      BY <1>3, <1>c, <2>3 DEF CommitSync, SyncEnds, RequestInv, ControlTypes,
         RequestOwnsRow, EndsAreTrue, RowTellsOutcome, Ended
    <3>2. row' = [row EXCEPT ![b] = syncing[b]] /\ UNCHANGED <<toggled, reopened>>
      BY <1>3, <2>3 DEF CommitSync
    <3>3. /\ Cardinality(In("pending")') = Cardinality(In("pending")) - 1
          /\ Cardinality(In("pending")) > 0
          /\ Cardinality(In("completed")') = IF syncing[b] = "completed"
                                             THEN Cardinality(In("completed")) + 1
                                             ELSE Cardinality(In("completed"))
      BY <1>c, <3>1, <3>2, RowMoves DEF RowStatus, Ended
    <3>4. stock' = IF Limited(stock)
                   THEN [stock EXCEPT !.reserved = LessOne(stock.reserved),
                                      !.sold = IF syncing[b] = "completed"
                                               THEN stock.sold + 1 ELSE stock.sold]
                   ELSE stock
      BY <1>3, <2>1, <3>1 DEF CommitSync, Settled
    <3>5. /\ Limited(stock') => Limited(stock)
          /\ Limited(stock) => /\ stock'.reserved = LessOne(stock.reserved)
                               /\ stock'.sold = IF syncing[b] = "completed"
                                                THEN stock.sold + 1 ELSE stock.sold
      BY <1>t, <3>4 DEF Limited, Stock
    <3> QED
      BY <1>t, <3>2, <3>3, <3>5 DEF CountersMatchRows, LessOne
  <2> QED
    BY <2>2, <2>3
<1>4. ASSUME NEW n \in Totals, UpdateTotal(n) PROVE CountersMatchRows'
  <2>1. /\ stock' = [stock EXCEPT !.total = n] /\ UNCHANGED row
        /\ ~toggled' => ~toggled /\ Limited(stock') = Limited(stock)
        /\ UNCHANGED reopened
    BY <1>4 DEF UpdateTotal, Edit, tables
  <2>2. stock'.reserved = stock.reserved /\ stock'.sold = stock.sold
    BY <1>t, <2>1 DEF Stock
  <2> QED
    BY <2>1, <2>2 DEF CountersMatchRows, In
<1>5. CASE UNCHANGED <<stock, row, toggled, reopened>>
  BY <1>5 DEF CountersMatchRows, In, Limited
<1> QED
  BY <1>1, <1>2, <1>3, <1>4, <1>5
     DEF Next, BuyerStep, OrderStep, OperatorStep, OpenCheckout, BeginReserve, ReserveFails,
         CreateOrder, CreateOrderThrows, AttachOrderId, AttachFails, BeginRelease,
         ReleaseFails, StatementFails, BeginSync, SameStatus, SyncFails, OrderCloses,
         WindowEnds, NoticeEmitted, NothingToSync, PublishPaymentLink,
         UnpublishPaymentLink, ArchiveOrRestore, UpdateExpiry, LinkExpires, Edit, Crash,
         StartProcessor, SetupProcessorEventForwarding, vars, link, tables, bounds

(* The flags of the link and the bounds.                                         *)
LEMMA NextFlags ==
  ASSUME {published, archived, expired, toggled} \subseteq BOOLEAN,
         reopened \subseteq Buyer, {edits, crashes, failures} \subseteq Nat, [Next]_vars
  PROVE  /\ {published, archived, expired, toggled}' \subseteq BOOLEAN
         /\ reopened' \subseteq Buyer
         /\ {edits, crashes, failures}' \subseteq Nat
<1>1. CASE /\ UNCHANGED <<published, archived, expired, toggled>>
           /\ reopened' \subseteq Buyer
           /\ UNCHANGED <<edits, crashes, failures>> \/ StatementFails
  BY <1>1 DEF StatementFails
<1>2. CASE OperatorStep
  <2>1. published' \in BOOLEAN /\ archived' \in BOOLEAN /\ expired' \in BOOLEAN
    BY <1>2 DEF OperatorStep, PublishPaymentLink, UnpublishPaymentLink, ArchiveOrRestore,
       UpdateTotal, UpdateExpiry, LinkExpires
  <2>2. toggled' \in BOOLEAN
    BY <1>2 DEF OperatorStep, PublishPaymentLink, UnpublishPaymentLink, ArchiveOrRestore,
       UpdateTotal, UpdateExpiry, LinkExpires, bounds
  <2>3. edits' \in Nat /\ UNCHANGED <<reopened, crashes, failures>>
    <3>1. Edit \/ UNCHANGED bounds
      BY <1>2 DEF OperatorStep, PublishPaymentLink, UnpublishPaymentLink,
         ArchiveOrRestore, UpdateTotal, UpdateExpiry, LinkExpires
    <3> QED
      BY <3>1 DEF Edit, bounds
  <2> QED
    BY <2>1, <2>2, <2>3
<1>3. CASE Crash
  BY <1>3 DEF Crash, link
<1>4. CASE UNCHANGED vars
  BY <1>4 DEF vars, link, bounds
<1>5. ASSUME NEW b \in Buyer, CommitSync(b)
      PROVE  /\ UNCHANGED <<published, archived, expired, toggled>>
             /\ reopened' \subseteq Buyer
             /\ UNCHANGED <<edits, crashes, failures>> \/ StatementFails
  BY <1>5 DEF CommitSync, SyncEnds
<1>6. ASSUME NEW b \in Buyer, BuyerStep(b) \/ OrderStep(b), ~CommitSync(b)
      PROVE  /\ UNCHANGED <<published, archived, expired, toggled, reopened>>
             /\ UNCHANGED <<edits, crashes, failures>> \/ StatementFails
  BY <1>6 DEF BuyerStep, OrderStep, OpenCheckout, BeginReserve, CommitReserve,
     ReserveFails, CreateOrder, CreateOrderThrows, AttachOrderId, AttachFails,
     BeginRelease, CommitRelease, ReleaseFails, StatementFails, BeginSync, SyncEnds,
     SameStatus, SyncFails, OrderCloses, WindowEnds, NoticeEmitted,
     NothingToSync, link, bounds
<1>7. CASE StartProcessor \/ SetupProcessorEventForwarding
  BY <1>7 DEF StartProcessor, SetupProcessorEventForwarding, link, bounds
<1> QED
  BY <1>1, <1>2, <1>3, <1>4, <1>5, <1>6, <1>7 DEF Next

(* LinkInv holds in the beginning.                                            *)
LEMMA InitLinkInv == Init => LinkInv
<1> SUFFICES ASSUME Init PROVE LinkInv
  OBVIOUS
<1>1. RequestInv
  BY DEF Init, RequestInv, ControlTypes, RequestOwnsRow,
     RowStatus, Ended
<1>2. LockInv
  <2>1. /\ stock.total \in Totals /\ stock.reserved = 0 /\ stock.sold = 0
        /\ stock \in Stock
    BY DEF Init, Stock
  <2>2. Consistent(stock)
    <3>1. stock.total = Unlimited \/ stock.total \in Nat
      BY <2>1, StockTypes
    <3> QED
      BY <2>1, <3>1 DEF Consistent, Limited
  <2> QED
    BY <2>1, <2>2, TransactionsOfBuyers
       DEF Init, LockInv, ReadsMatchRequests, RowIsLocked
<1>3. CountersMatchRows
  <2>1. In("pending") = {} /\ In("completed") = {}
    BY DEF Init, In
  <2>2. stock.reserved = 0 /\ stock.sold = 0
    BY DEF Init
  <2> QED
    BY <2>1, <2>2, FS_EmptySet DEF CountersMatchRows
<1>4. {published, archived, expired, toggled} \subseteq BOOLEAN
  <2>1. published = FALSE /\ archived = FALSE /\ expired = FALSE /\ toggled = FALSE
    BY DEF Init
  <2> QED
    BY <2>1
<1>5. {edits, crashes, failures} \subseteq Nat
  BY DEF Init
<1>6. OutcomeInv
  BY DEF Init, OutcomeInv, EndsAreTrue, ExpiresOnce, RowTellsOutcome, Ended
<1>7. reopened \subseteq Buyer
  BY DEF Init
<1> QED
  BY <1>1, <1>2, <1>3, <1>4, <1>5, <1>6, <1>7 DEF LinkInv, TableInv

(* Every step keeps TableInv.                                                 *)
LEMMA NextTableInv ==
  ASSUME TableInv, [Next]_vars
  PROVE  TableInv'
BY NextFlags, NextRequestInv, NextLockInv DEF TableInv

(* LinkInv holds in every reachable state.                                     *)
LEMMA LinkInvHolds == Spec => []LinkInv
<1>1. Init => LinkInv
  BY InitLinkInv
<1>2. LinkInv /\ [Next]_vars => LinkInv'
  BY NextTableInv, NextOutcomeInv, NextCounters DEF LinkInv, TableInv
<1> QED
  BY <1>1, <1>2, PTL DEF Spec

(* Every variable keeps its type, and the stock satisfies the constraints of the *)
(* table whatever a transaction writes back.                                     *)
THEOREM TypeCorrect == Spec => []TypeOK
<1>1. Init => TableInv
  BY InitLinkInv DEF LinkInv
<1>2. TableInv /\ [Next]_vars => TableInv'
  BY NextTableInv
<1>3. TableInv => TypeOK
  BY DEF TableInv, RequestInv, ControlTypes, LockInv, TypeOK
<1> QED
  BY <1>1, <1>2, <1>3, PTL DEF Spec

(* The counters are the numbers of pending and of completed reservations at       *)
(* every commit, with any number of buyers whose transactions interleave, crashes *)
(* and failed statements, until a late notice reopens a reservation: no             *)
(* read-modify-write of the row loses another one.                                  *)
THEOREM CountersMatch == Spec => []CountersMatchRows
<1>1. LinkInv => CountersMatchRows
  BY DEF LinkInv
<1> QED
  BY <1>1, LinkInvHolds, PTL

(* A reservation that tells an outcome tells the one of its order, whatever the    *)
(* order in which its events are synced, and however late a notice of the end of   *)
(* the payment window comes.                                                       *)
THEOREM RowsTellOutcome == Spec => []RowTellsOutcome
<1>1. Init => RequestInv /\ OutcomeInv
  BY InitLinkInv DEF LinkInv, TableInv
<1>2. RequestInv /\ OutcomeInv /\ [Next]_vars => RequestInv' /\ OutcomeInv'
  BY NextRequestInv, NextOutcomeInv
<1>3. OutcomeInv => RowTellsOutcome
  BY DEF OutcomeInv
<1> QED
  BY <1>1, <1>2, <1>3, PTL DEF Spec

-----------------------------------------------------------------------------
(* A late notice spoils the counters, but never to the advantage of a buyer.       *)

(* The reservations that have a unit, or whose unit is still to be given back: not *)
(* those of an expired order whose expiry is synced or lost.                       *)
HasUnit(b) ==
  /\ row[b] \in {"pending", "completed"}
  /\ order[b] = "expired" => "expired" \in news[b] \/ syncing[b] = "expired"

Units == {b \in Buyer : HasUnit(b)}

(* The counters are never less than the units buyers have.                         *)
UnitsAreCounted ==
  Limited(stock) /\ ~toggled => Cardinality(Units) <= stock.reserved + stock.sold

(* How the number of units follows one reservation.                                *)
LEMMA UnitMoves ==
  ASSUME NEW b \in Buyer, \A c \in Buyer \ {b} : HasUnit(c)' => HasUnit(c)
  PROVE  /\ Cardinality(Units) \in Nat /\ Cardinality(Units') \in Nat
         /\ Cardinality(Units') <= Cardinality(Units) + 1
         /\ (HasUnit(b)' => HasUnit(b)) => Cardinality(Units') <= Cardinality(Units)
         /\ HasUnit(b) /\ ~HasUnit(b)' => Cardinality(Units') + 1 <= Cardinality(Units)
<1>1. IsFiniteSet(Units) /\ IsFiniteSet(Units') /\ IsFiniteSet(Units \cup {b})
  BY StockTypes, FS_Subset, FS_AddElement DEF Units
<1>2. Cardinality(Units) \in Nat /\ Cardinality(Units') \in Nat
  BY <1>1, FS_CardinalityType
<1>3. /\ b \notin Units => Cardinality(Units \cup {b}) = Cardinality(Units) + 1
      /\ b \in Units => Units \cup {b} = Units
  BY <1>1, FS_AddElement
<1>4. Units' \subseteq Units \cup {b}
  BY DEF Units
<1>5. Cardinality(Units') <= Cardinality(Units \cup {b})
  BY <1>1, <1>4, FS_Subset
<1>6. Cardinality(Units') <= Cardinality(Units) + 1
  BY <1>2, <1>3, <1>5
<1>7. (HasUnit(b)' => HasUnit(b)) => Cardinality(Units') <= Cardinality(Units)
  <2>1. (HasUnit(b)' => HasUnit(b)) => Units' \subseteq Units
    BY DEF Units
  <2> QED
    BY <1>1, <2>1, FS_Subset
<1>8. ASSUME HasUnit(b), ~HasUnit(b)'
      PROVE  Cardinality(Units') + 1 <= Cardinality(Units)
  <2>1. b \in Units /\ b \notin Units' /\ Units' \cup {b} \subseteq Units
    BY <1>8 DEF Units
  <2>2. /\ Cardinality(Units' \cup {b}) = Cardinality(Units') + 1
        /\ Cardinality(Units' \cup {b}) <= Cardinality(Units)
    BY <1>1, <2>1, FS_AddElement, FS_Subset
  <2> QED
    BY <2>2
<1> QED
  BY <1>2, <1>6, <1>7, <1>8

(* A reservation without a unit gets one by its first commit and by nothing else.  *)
LEMMA UnitsStayGone ==
  ASSUME RequestInv, OutcomeInv, [Next]_vars, NEW b \in Buyer, HasUnit(b)'
  PROVE  HasUnit(b) \/ CommitReserve(b)
<1> USE DEF RequestInv, ControlTypes, RequestOwnsRow, OutcomeInv, EndsAreTrue, ExpiresOnce,
            RowTellsOutcome, HasUnit, RowStatus, Ended, link, tables, events, bounds
<1>1. ASSUME NEW c \in Buyer, CommitReserve(c) PROVE HasUnit(b) \/ CommitReserve(b)
  BY <1>1 DEF CommitReserve
<1>2. ASSUME NEW c \in Buyer, CreateOrder(c) PROVE HasUnit(b)
  BY <1>2 DEF CreateOrder
<1>3. ASSUME NEW c \in Buyer, CommitRelease(c) PROVE HasUnit(b)
  BY <1>3 DEF CommitRelease
<1>4. ASSUME NEW c \in Buyer, NoticeEmitted(c) PROVE HasUnit(b)
  BY <1>4 DEF NoticeEmitted
<1>5. ASSUME NEW c \in Buyer, CommitSync(c) PROVE HasUnit(b)
  BY <1>5 DEF CommitSync, SyncEnds
<1>6. ASSUME NEW c \in Buyer, SameStatus(c) \/ SyncFails(c) PROVE HasUnit(b)
  BY <1>6 DEF SameStatus, SyncFails, SyncEnds
<1>7. ASSUME NEW c \in Buyer, NEW s \in Ended, OrderCloses(c, s) PROVE HasUnit(b)
  BY <1>7 DEF OrderCloses
<1>8. ASSUME NEW c \in Buyer, NEW s \in Ended \cup {"pending"}, BeginSync(c, s)
      PROVE  HasUnit(b)
  BY <1>8 DEF BeginSync
<1>9. ASSUME NEW c \in Buyer, NEW s \in Ended \cup {"pending"}, NothingToSync(c, s)
      PROVE  HasUnit(b)
  BY <1>9 DEF NothingToSync
<1>10. CASE Crash
  BY <1>10 DEF Crash
<1>11. CASE UNCHANGED <<row, order, news, syncing>>
  BY <1>11
<1>12. ASSUME NEW c \in Buyer, BuyerStep(c) PROVE HasUnit(b) \/ CommitReserve(b)
  <2>1. CASE \/ OpenCheckout(c) \/ BeginReserve(c) \/ ReserveFails(c)
    BY <1>11, <2>1 DEF OpenCheckout, BeginReserve, ReserveFails
  <2>2. CASE CreateOrderThrows(c) \/ AttachOrderId(c) \/ AttachFails(c)
    BY <1>11, <2>2 DEF CreateOrderThrows, AttachOrderId, AttachFails
  <2>3. CASE BeginRelease(c) \/ ReleaseFails(c)
    BY <1>11, <2>3 DEF BeginRelease, ReleaseFails
  <2> QED
    BY <1>1, <1>2, <1>3, <1>12, <2>1, <2>2, <2>3 DEF BuyerStep
<1>13. ASSUME NEW c \in Buyer, OrderStep(c) PROVE HasUnit(b)
  <2>1. CASE WindowEnds(c)
    BY <1>11, <2>1 DEF WindowEnds
  <2> QED
    BY <1>4, <1>5, <1>6, <1>7, <1>8, <1>9, <1>13, <2>1 DEF OrderStep
<1>14. CASE OperatorStep
  <2>1. UNCHANGED <<tables, mode, pc, events>>
    BY <1>14 DEF OperatorStep, PublishPaymentLink, UnpublishPaymentLink,
       ArchiveOrRestore, UpdateTotal, UpdateExpiry, LinkExpires, Edit
  <2> QED
    BY <1>11, <2>1
<1>15. CASE StartProcessor \/ SetupProcessorEventForwarding \/ UNCHANGED vars
  BY <1>11, <1>15 DEF StartProcessor, SetupProcessorEventForwarding, vars
<1> QED
  BY <1>10, <1>12, <1>13, <1>14, <1>15 DEF Next

(* What keeps the stock from being oversold.                                       *)
UnitInv ==
  /\ TableInv
  /\ OutcomeInv
  /\ UnitsAreCounted

(* A commit that takes a unit from the counters takes it from a reservation.       *)
LEMMA NextUnits ==
  ASSUME UnitInv, [Next]_vars
  PROVE  UnitsAreCounted'
<1> USE DEF UnitInv, TableInv
<1>c. RequestInv /\ ControlTypes
  BY DEF RequestInv
<1>t. stock \in Stock /\ stock.reserved \in Nat /\ stock.sold \in Nat
  BY DEF LockInv, Stock
<1>s. /\ Cardinality(Units) \in Nat /\ Cardinality(Units') \in Nat
      /\ (\A b \in Buyer : ~CommitReserve(b)) => Cardinality(Units') <= Cardinality(Units)
  <2>1. IsFiniteSet(Units) /\ IsFiniteSet(Units')
    BY StockTypes, FS_Subset DEF Units
  <2>2. (\A b \in Buyer : ~CommitReserve(b)) => Units' \subseteq Units
    BY <1>c, UnitsStayGone DEF Units
  <2> QED
    BY <2>1, <2>2, FS_CardinalityType, FS_Subset
<1>1. ASSUME NEW b \in Buyer, CommitReserve(b) PROVE UnitsAreCounted'
  <2>1. read[<<"reserve", b>>] = stock
    BY <1>1, TransactionsOfBuyers
       DEF CommitReserve, LockInv, ReadsMatchRequests, RowIsLocked
  <2>2. /\ row' = [row EXCEPT ![b] = "pending"]
        /\ UNCHANGED <<toggled, order, news, syncing>>
    BY <1>1 DEF CommitReserve, events, bounds
  <2>3. \A c \in Buyer \ {b} : HasUnit(c)' => HasUnit(c)
    BY <1>c, <2>2 DEF HasUnit, ControlTypes
  <2>4. Cardinality(Units') <= Cardinality(Units) + 1
    BY <2>3, UnitMoves
  <2>5. stock' = IF Limited(stock) THEN [stock EXCEPT !.reserved = stock.reserved + 1]
                 ELSE stock
    BY <1>1, <2>1 DEF CommitReserve
  <2>6. /\ Limited(stock') => Limited(stock)
        /\ Limited(stock) => stock'.reserved = stock.reserved + 1 /\ stock'.sold = stock.sold
    BY <1>t, <2>5 DEF Limited, Stock
  <2> QED
    BY <1>s, <1>t, <2>2, <2>4, <2>6 DEF UnitsAreCounted
<1>2. ASSUME NEW b \in Buyer, CommitRelease(b) PROVE UnitsAreCounted'
  <2>1. read[<<"release", b>>] = stock
    BY <1>2, TransactionsOfBuyers
       DEF CommitRelease, LockInv, ReadsMatchRequests, RowIsLocked
  <2>2. row[b] = "pending" /\ row' = [row EXCEPT ![b] = "deleted"]
        /\ UNCHANGED <<toggled, order, news, syncing>>
    BY <1>2 DEF CommitRelease, RequestInv, RequestOwnsRow, events, bounds
  <2>3. \A c \in Buyer : HasUnit(c)' => HasUnit(c)
    BY <1>c, <2>2 DEF HasUnit, ControlTypes
  <2>4. HasUnit(b) /\ ~HasUnit(b)'
    BY <1>c, <1>2, <2>2 DEF CommitRelease, HasUnit, RequestInv, RequestOwnsRow, ControlTypes, Ended
  <2>5. Cardinality(Units') + 1 <= Cardinality(Units)
    BY <2>3, <2>4, UnitMoves
  <2>6. stock' = IF Limited(stock)
                 THEN [stock EXCEPT !.reserved = LessOne(stock.reserved), !.sold = stock.sold]
                 ELSE stock
    BY <1>2, <2>1, <2>2 DEF CommitRelease
  <2>7. /\ Limited(stock') => Limited(stock)
        /\ Limited(stock) => stock'.reserved = LessOne(stock.reserved) /\ stock'.sold = stock.sold
    BY <1>t, <2>6 DEF Limited, Stock
  <2> QED
    BY <1>s, <1>t, <2>2, <2>5, <2>7 DEF UnitsAreCounted, LessOne
<1>3. ASSUME NEW b \in Buyer, CommitSync(b) PROVE UnitsAreCounted'
  <2>1. read[<<"sync", b>>] = stock
    BY <1>3, TransactionsOfBuyers
       DEF CommitSync, SyncEnds, LockInv, ReadsMatchRequests, RowIsLocked
  <2>2. /\ row' = [row EXCEPT ![b] = syncing[b]] /\ row[b] # syncing[b]
        /\ syncing' = [syncing EXCEPT ![b] = "none"]
        /\ UNCHANGED <<toggled, order, news>>
    BY <1>3 DEF CommitSync, SyncEnds
  <2>3. \A c \in Buyer \ {b} : HasUnit(c)' => HasUnit(c)
    BY <1>c, <2>2 DEF HasUnit, ControlTypes
  <2>4. stock' = IF Limited(stock) THEN Settled(stock, row[b], syncing[b]) ELSE stock
    BY <1>3, <2>1 DEF CommitSync
  <2>5. /\ Limited(stock') => Limited(stock)
        /\ Limited(stock) =>
             /\ stock'.reserved = IF row[b] = "pending" THEN LessOne(stock.reserved)
                                  ELSE stock.reserved
             /\ stock'.sold = IF syncing[b] = "completed" THEN stock.sold + 1 ELSE stock.sold
    BY <1>t, <2>4 DEF Settled, Limited, Stock
  <2>6. Cardinality(Units') <= Cardinality(Units)
    <3>1. \A c \in Buyer : ~CommitReserve(c)
      BY <1>3, <1>c, <2>2 DEF CommitSync, SyncEnds, CommitReserve, ControlTypes, RowStatus, events
    <3> QED
      BY <1>s, <3>1
  <2>7. CASE row[b] = "pending" /\ syncing[b] # "completed"
    <3>1. syncing[b] = "expired"
      BY <1>3, <1>c, <2>2, <2>7 DEF CommitSync, SyncEnds, ControlTypes, Ended
    <3>2. HasUnit(b) /\ ~HasUnit(b)'
      BY <1>c, <2>2, <2>7, <3>1 DEF HasUnit, ControlTypes
    <3>3. Cardinality(Units') + 1 <= Cardinality(Units)
      BY <2>3, <3>2, UnitMoves
    <3> QED
      BY <1>s, <1>t, <2>2, <2>5, <3>3 DEF UnitsAreCounted, LessOne
  <2>8. CASE row[b] # "pending" \/ syncing[b] = "completed"
    BY <1>s, <1>t, <2>2, <2>5, <2>6, <2>8 DEF UnitsAreCounted, LessOne
  <2> QED
    BY <2>7, <2>8
<1>4. ASSUME NEW n \in Totals, UpdateTotal(n) PROVE UnitsAreCounted'
  <2>1. /\ stock' = [stock EXCEPT !.total = n] /\ UNCHANGED <<row, order, news, syncing>>
        /\ ~toggled' => ~toggled /\ Limited(stock') = Limited(stock)
    BY <1>4 DEF UpdateTotal, Edit, tables, events
  <2>2. stock'.reserved = stock.reserved /\ stock'.sold = stock.sold
    BY <1>t, <2>1 DEF Stock
  <2>3. Units' = Units
    BY <2>1 DEF Units, HasUnit
  <2> QED
    BY <2>1, <2>2, <2>3 DEF UnitsAreCounted
<1>5. CASE UNCHANGED <<stock, toggled>> /\ \A b \in Buyer : ~CommitReserve(b)
  BY <1>5, <1>s, <1>t DEF UnitsAreCounted, Limited
<1>6. \/ \E b \in Buyer : CommitReserve(b) \/ CommitRelease(b) \/ CommitSync(b)
      \/ \E n \in Totals : UpdateTotal(n)
      \/ UNCHANGED <<stock, toggled>>
  BY DEF Next, BuyerStep, OrderStep, OperatorStep, OpenCheckout, BeginReserve, ReserveFails,
         CreateOrder, CreateOrderThrows, AttachOrderId, AttachFails, BeginRelease,
         ReleaseFails, StatementFails, BeginSync, SameStatus, SyncFails, OrderCloses,
         WindowEnds, NoticeEmitted, NothingToSync, PublishPaymentLink,
         UnpublishPaymentLink, ArchiveOrRestore, UpdateExpiry, LinkExpires, Edit, Crash,
         StartProcessor, SetupProcessorEventForwarding, vars, link, tables, bounds
<1> QED
  BY <1>1, <1>2, <1>3, <1>4, <1>5, <1>6

(* The orders buyers can pay or have paid are never more than the units of the     *)
(* link, however late notices and events come: each of them has a reservation with *)
(* a unit, the counters are not less than these, and the table keeps their sum     *)
(* below the total.                                                                *)
THEOREM NeverOversold == Spec => []NoOversell
<1>1. Init => UnitInv
  <2> SUFFICES ASSUME Init PROVE UnitInv
    OBVIOUS
  <2>1. LinkInv
    BY InitLinkInv
  <2>2. Units = {} /\ stock.reserved = 0 /\ stock.sold = 0
    BY DEF Init, Units, HasUnit
  <2> QED
    BY <2>1, <2>2, FS_EmptySet DEF LinkInv, UnitInv, UnitsAreCounted
<1>2. UnitInv /\ [Next]_vars => UnitInv'
  BY NextTableInv, NextOutcomeInv, NextUnits DEF UnitInv, TableInv
<1>3. ASSUME UnitInv PROVE NoOversell
  <2> SUFFICES ASSUME Limited(stock), ~toggled
               PROVE  Cardinality({b \in Buyer : order[b] \in {"pending", "completed"}
                                    /\ row[b] # "deleted"}) <= stock.total
    BY DEF NoOversell
  <2> DEFINE Payable == {b \in Buyer : order[b] \in {"pending", "completed"}
                                       /\ row[b] # "deleted"}
  <2>1. Payable \subseteq Units
    BY <1>3 DEF UnitInv, TableInv, OutcomeInv, RequestInv, ControlTypes, RequestOwnsRow,
       RowTellsOutcome, RowStatus, Ended, Units, HasUnit
  <2>2. IsFiniteSet(Units)
    BY StockTypes, FS_Subset DEF Units
  <2>3. /\ Cardinality(Payable) <= Cardinality(Units)
        /\ Cardinality(Payable) \in Nat /\ Cardinality(Units) \in Nat
    BY <2>1, <2>2, FS_Subset, FS_CardinalityType
  <2>4. Cardinality(Units) <= stock.reserved + stock.sold
    BY <1>3 DEF UnitInv, UnitsAreCounted
  <2>5. /\ stock.reserved \in Nat /\ stock.sold \in Nat /\ stock.total \in Nat
        /\ stock.reserved + stock.sold <= stock.total
    BY <1>3, StockTypes DEF UnitInv, TableInv, LockInv, Stock, Consistent, Limited
  <2> HIDE DEF Payable
  <2>6. Cardinality(Payable) <= stock.total
    BY <2>3, <2>4, <2>5
  <2> QED
    BY <2>6 DEF Payable
<1> QED
  BY <1>1, <1>2, <1>3, PTL DEF Spec

=============================================================================
