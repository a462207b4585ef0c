-------------------------- MODULE DelayedConfirmation --------------------------
(***************************************************************************)
(* DelayedConfirmationService and the handlers of its events, for the      *)
(* deposits of one chain: a transfer the scanner has found waits until its  *)
(* transaction is deep enough, and is then marked and announced.           *)
(*                                                                         *)
(* A check holds the entry it was started with while it waits for the       *)
(* receipt and for the height; what it removes is the entry of that hash.   *)
(* Blocks are mined, and the last ones may be replaced, in between.          *)
(***************************************************************************)
EXTENDS Integers, FiniteSets

CONSTANTS
  Transfer,       \* one transfer event per transaction
  Cycle,          \* check cycles that may run at the same time
  Confirmations,  \* requiredConfirmations
  Capacity,       \* maxPendingTransactions
  MaxRetries,     \* maxRetries
  Safe,           \* safeBlockDistance of the scanner
  HeightLag,      \* how far a cached height may lie behind
  ReorgDepth,     \* blocks at the head that may be replaced
  BlocksAreSlow,     \* see NewBlock and TransferEvent
  RecordingIsQuick,  \* is a row inserted before its transfer is confirmed?
  MaxHeight,      \* bound on the height of the chain
  Moving,         \* bound: the transactions that may be thrown out of a block
  MaxReorgs,      \* bound on how often that happens
  MaxErrors       \* bound on the calls and statements that fail

ASSUME ConfirmationTypes ==
  /\ IsFiniteSet(Transfer) /\ IsFiniteSet(Cycle) /\ Moving \subseteq Transfer
  /\ {Confirmations, Capacity, MaxRetries, MaxHeight} \subseteq Nat \ {0}
  /\ {Safe, HeightLag, ReorgDepth, MaxReorgs, MaxErrors} \subseteq Nat
  /\ {BlocksAreSlow, RecordingIsQuick} \subseteq BOOLEAN

(* A transaction is found again after it has moved to another block. Every    *)
(* time makes a new entry, <<t, n>>, with the hash of t.                       *)
Entry == (Transfer \X {1}) \cup (Moving \X (2 .. MaxReorgs + 1))
Hash(e) == e[1]

VARIABLES
  (* the chain *)
  height,
  block,     \* the block of the transaction, 0 while it has none
  reverted,  \* transactions that failed when they were executed again
  reorgs,
  (* the scanner *)
  found,     \* the block a transfer was found in last, 0 if never
  times,     \* how often it was found
  (* the service *)
  stage,     \* where the entry is, see Stages
  discovered, \* discoveredAt, as the number of entries added before
  retries,   \* retryCount
  old,       \* entries older than maxPendingTime
  check,     \* the check of an entry in a cycle, see Idle
  (* the database, and the merchant *)
  recording, \* entries whose initialProcessing has not ended
  reads,     \* how many of its SELECTs have returned
  row,       \* transfers with a row
  confirmed, \* rows with is_confirmed
  announced, \* depositReceived events
  errors,
  (* history: it restricts no step *)
  crossed    \* transfers that two cycles have checked at the same time

chain == <<height, block, reverted, reorgs>>
scanner == <<found, times>>
service == <<stage, discovered, retries, old, check>>
tables == <<recording, reads, row, confirmed>>
vars == <<chain, scanner, service, tables, announced, errors, crossed>>

Waiting == "waiting"
Handling == {"marking", "announcing"}
GivenUp == {"replaced", "dropped", "invalid", "failed", "timeout"}
Stages == {"none", "resolving", "unresolved", Waiting, "announced", "unrecorded", "error"}
            \cup Handling \cup GivenUp

(* What a check waits for: the receipt, or the height once the receipt said    *)
(* that the transaction is in block; since is the height at that time.          *)
Idle == [wants |-> "nothing", block |-> 0, since |-> 0]
Checking(c, e) == check[c][e].wants # "nothing"
Running(c) == \E e \in Entry : Checking(c, e)
HasCheck(t) == \E c \in Cycle, e \in Entry : Hash(e) = t /\ Checking(c, e)

(* pendingTransactions, and what has ever been put there.                        *)
Waits == {e \in Entry : stage[e] = Waiting}
Added == {e \in Entry : stage[e] \notin {"none", "resolving", "unresolved"}}

Init ==
  /\ height = 1
  /\ block = [t \in Transfer |-> 0]
  /\ reverted = {} /\ reorgs = 0
  /\ found = [t \in Transfer |-> 0]
  /\ times = [t \in Transfer |-> 0]
  /\ stage = [e \in Entry |-> "none"]
  /\ discovered = [e \in Entry |-> 0]
  /\ retries = [e \in Entry |-> 0]
  /\ old = {}
  /\ check = [c \in Cycle |-> [e \in Entry |-> Idle]]
  /\ recording = {} /\ reads = [e \in Entry |-> 0]
  /\ row = {} /\ confirmed = {}
  /\ announced = [t \in Transfer |-> 0]
  /\ errors = 0
  /\ crossed = {}

CallFails ==
  /\ errors < MaxErrors
  /\ errors' = errors + 1

-----------------------------------------------------------------------------
(* The chain.                                                                 *)

(* A transfer the scanner has to look for.                                     *)
Unseen(t) ==
  /\ block[t] # 0 /\ t \notin reverted
  /\ found[t] # block[t]
  /\ block[t] <= height - Safe

(* If blocks are slow, the scanner finds what there is and the handler resolves  *)
(* it before the next block, and no check spans more than one new block.         *)
NewBlock ==
  /\ height < MaxHeight
  /\ BlocksAreSlow =>
       /\ \A t \in Transfer : ~Unseen(t)
       /\ \A e \in Entry : stage[e] # "resolving"
       /\ \A c \in Cycle, e \in Entry :
            check[c][e].wants = "height" => height = check[c][e].since
  /\ height' = height + 1
  /\ UNCHANGED <<crossed, block, reverted, reorgs, scanner, service, tables, announced,
                 errors>>

(* The transaction gets into the newest block; executed again, it may fail.     *)
Mine(t) ==
  /\ block[t] = 0
  /\ t \notin reverted
  /\ block' = [block EXCEPT ![t] = height]
  /\ \/ UNCHANGED reverted
     \/ found[t] # 0 /\ reverted' = reverted \cup {t}
  /\ UNCHANGED <<crossed, height, reorgs, scanner, service, tables, announced, errors>>

(* One of the last blocks is replaced by one without the transaction. One that  *)
(* nobody has found yet moves unnoticed.                                        *)
Reorg(t) ==
  /\ block[t] # 0
  /\ t \in Moving /\ t \notin reverted
  /\ found[t] = block[t]
  /\ block[t] > height - ReorgDepth
  /\ reorgs < MaxReorgs
  /\ reorgs' = reorgs + 1
  /\ block' = [block EXCEPT ![t] = 0]
  /\ UNCHANGED <<crossed, height, reverted, scanner, service, tables, announced, errors>>

-----------------------------------------------------------------------------
(* ProcessorCore.handleTransferEvent and addPendingTransaction.                 *)

(* The scanner finds the transfer, once in each block it has been in. If blocks *)
(* are slow, no check of it in an earlier block is still going on.              *)
TransferEvent(t) ==
  LET e == <<t, times[t] + 1>>
  IN  /\ Unseen(t)
      /\ BlocksAreSlow => ~HasCheck(t)
      /\ found' = [found EXCEPT ![t] = block[t]]
      /\ times' = [times EXCEPT ![t] = @ + 1]
      /\ stage' = [stage EXCEPT ![e] = "resolving"]
      /\ UNCHANGED <<crossed, chain, discovered, retries, old, check, tables, announced, errors>>

(* The business context cannot be read, or the address belongs to nothing any more: *)
(* the event is dropped.                                                            *)
ResolveFails(e) ==
  /\ stage[e] = "resolving"
  /\ CallFails
  /\ stage' = [stage EXCEPT ![e] = "unresolved"]
  /\ UNCHANGED <<crossed, chain, scanner, discovered, retries, old, check, tables,
                 announced>>

(* Faulty variant: an entry stays when its transaction is found in another block.  *)
KeyedByBlock(e) == {}

(* Entries that make room: the oldest one at the size limit, and then the one   *)
(* with the same hash, which needs the room no more.                             *)
Oldest ==
  {e \in Waits : /\ Cardinality(Waits) >= Capacity
                 /\ \A d \in Waits : discovered[e] <= discovered[d]}
SameHash(e) == {d \in Waits : Hash(d) = Hash(e)}

AddTo(e, events) ==
  /\ stage[e] = "resolving"
  /\ discovered' = [discovered EXCEPT ![e] = Cardinality(Added)]
  /\ stage' = [d \in Entry |-> CASE d = e -> Waiting
                                 [] d \in Oldest -> "dropped"
                                 [] d \in SameHash(e) \ Oldest -> "replaced"
                                 [] OTHER -> stage[d]]
  /\ recording' = recording \cup events
  /\ UNCHANGED <<crossed, chain, scanner, retries, old, check, reads, row, confirmed, announced,
                 errors>>

(* Faulty variant: at the size limit initialProcessing is not emitted.             *)
AddSilently(e) == AddTo(e, IF Cardinality(Waits) < Capacity THEN {e} ELSE {})

AddPendingTransaction(e) == AddTo(e, {e})

(* recordTransferOnly: a SELECT of the row, which ends it if there is one, a SELECT *)
(* of the address, and the INSERT, which refuses a second row of the same event.    *)
Recorded(e) ==
  /\ recording' = recording \ {e}
  /\ reads' = [reads EXCEPT ![e] = 0]

FindTransfer(e) ==
  /\ e \in recording /\ reads[e] = 0
  /\ IF Hash(e) \in row
     THEN Recorded(e)
     ELSE reads' = [reads EXCEPT ![e] = 1] /\ UNCHANGED recording
  /\ UNCHANGED <<crossed, chain, scanner, service, row, confirmed, announced, errors>>

FindAddress(e) ==
  /\ e \in recording /\ reads[e] = 1
  /\ reads' = [reads EXCEPT ![e] = 2]
  /\ UNCHANGED <<crossed, chain, scanner, service, recording, row, confirmed, announced,
                 errors>>

InsertTransfer(e) ==
  /\ e \in recording /\ reads[e] = 2
  /\ Recorded(e)
  /\ row' = row \cup {Hash(e)}
  /\ UNCHANGED <<crossed, chain, scanner, service, confirmed, announced, errors>>

(* A statement fails, or the pool has no row of the address: nothing is recorded.   *)
RecordingFails(e) ==
  /\ e \in recording
  /\ CallFails
  /\ Recorded(e)
  /\ UNCHANGED <<crossed, chain, scanner, service, row, confirmed, announced>>

-----------------------------------------------------------------------------
(* A check cycle.                                                               *)

CheckPendingTransactions(c) ==
  /\ Waits # {}
  /\ ~Running(c)
  /\ check' = [check EXCEPT ![c] =
                 [e \in Entry |-> IF e \in Waits THEN [Idle EXCEPT !.wants = "receipt"]
                                  ELSE Idle]]
  /\ crossed' = crossed \cup {Hash(e) : e \in {d \in Waits : HasCheck(Hash(d))}}
  /\ UNCHANGED <<chain, scanner, stage, discovered, retries, old, tables, announced,
                 errors>>

(* The check of e ends. With the last one cleanupExpiredTransactions removes     *)
(* what has waited too long. S are the entries the check removes, and why.       *)
EndsWith(c, e, S, why, Late) ==
  LET done == [check[c] EXCEPT ![e] = Idle]
      last == \A d \in Entry : done[d] = Idle
      expired == IF last THEN Late \ S ELSE {}
  IN  /\ check' = [check EXCEPT ![c] = done]
      /\ stage' = [d \in Entry |-> CASE d = e /\ S # {} -> why
                                     [] d \in S \ {e} -> "replaced"
                                     [] d \in expired -> "timeout"
                                     [] OTHER -> stage[d]]
      /\ UNCHANGED discovered

(* Faulty variants: the clean-up is forgotten; it removes what was old when the     *)
(* cycle began, though it has left the map.                                         *)
EndsStale(c, e, S, why) == EndsWith(c, e, S, why, old)
EndsUncleaned(c, e, S, why) == EndsWith(c, e, S, why, {})

CheckEnds(c, e, S, why) == EndsWith(c, e, S, why, Waits \cap old)

(* The map is keyed by the hash.                                                *)
Delete(e) == {e} \cup SameHash(e)

RetryAtMost(c, e, why, n) ==
  /\ retries' = [retries EXCEPT ![e] = @ + 1]
  /\ CheckEnds(c, e, IF retries[e] + 1 >= n THEN Delete(e) ELSE {}, why)

(* Faulty variant: the first failure is not counted as a retry.                  *)
RetryOnceMore(c, e, why) == RetryAtMost(c, e, why, MaxRetries + 1)

Retry(c, e, why) == RetryAtMost(c, e, why, MaxRetries)

(* No receipt: the transaction is in no block, or the node does not have it yet. *)
NoReceipt(c, e) ==
  /\ check[c][e].wants = "receipt"
  /\ \/ block[Hash(e)] = 0 /\ UNCHANGED errors
     \/ block[Hash(e)] # 0 /\ CallFails
  /\ Retry(c, e, "invalid")
  /\ UNCHANGED <<crossed, chain, scanner, old, tables, announced>>

ReceiptOfFailure(c, e) ==
  /\ check[c][e].wants = "receipt"
  /\ block[Hash(e)] # 0 /\ Hash(e) \in reverted
  /\ CheckEnds(c, e, Delete(e), "invalid")
  /\ UNCHANGED <<crossed, chain, scanner, retries, old, tables, announced, errors>>

(* Faulty variant: the block in which the transfer was found is used.             *)
BlockFoundIn(c, e) ==
  /\ check[c][e].wants = "receipt"
  /\ block[Hash(e)] # 0 /\ Hash(e) \notin reverted
  /\ check' = [check EXCEPT ![c][e] =
                 [wants |-> "height", block |-> found[Hash(e)], since |-> height]]
  /\ UNCHANGED <<crossed, chain, scanner, stage, discovered, retries, old, tables, announced,
                 errors>>

GetTransactionReceipt(c, e) ==
  /\ check[c][e].wants = "receipt"
  /\ block[Hash(e)] # 0 /\ Hash(e) \notin reverted
  /\ check' = [check EXCEPT ![c][e] =
                 [wants |-> "height", block |-> block[Hash(e)], since |-> height]]
  /\ UNCHANGED <<crossed, chain, scanner, stage, discovered, retries, old, tables, announced,
                 errors>>

(* The height comes from the cache blockScanned has set, or from the node.        *)
GetCurrentBlockNumber(c, e) ==
  /\ check[c][e].wants = "height"
  /\ \E h \in (height - HeightLag) .. height :
       CheckEnds(c, e, IF h - check[c][e].block + 1 >= Confirmations
                       THEN Delete(e) ELSE {}, "marking")
  /\ UNCHANGED <<crossed, chain, scanner, retries, old, tables, announced, errors>>

CallThrows(c, e) ==
  /\ Checking(c, e)
  /\ CallFails
  /\ Retry(c, e, "failed")
  /\ UNCHANGED <<crossed, chain, scanner, old, tables, announced>>

(* maxPendingTime passes for e and the entries that were added before it.        *)
TimePasses(e) ==
  /\ e \in Waits \ old
  /\ old' = old \cup {d \in Waits : discovered[d] <= discovered[e]}
  /\ UNCHANGED <<crossed, chain, scanner, stage, discovered, retries, check, tables, announced,
                 errors>>

-----------------------------------------------------------------------------
(* The handler of transactionConfirmed.                                          *)

(* markAsConfirmed                                                               *)
MarkAsConfirmed(e) ==
  /\ stage[e] = "marking"
  /\ RecordingIsQuick => e \notin recording
  /\ confirmed' = confirmed \cup (row \cap {Hash(e)})
  /\ stage' = [stage EXCEPT ![e] = "announcing"]
  /\ UNCHANGED <<crossed, chain, scanner, discovered, retries, old, check, recording, reads, row,
                 announced, errors>>

(* handleDepositConfirmation announces the transfer if it has a row.              *)
AnnounceDeposit(e) ==
  /\ stage[e] = "announcing"
  /\ IF Hash(e) \in row
     THEN /\ announced' = [announced EXCEPT ![Hash(e)] = @ + 1]
          /\ stage' = [stage EXCEPT ![e] = "announced"]
     ELSE /\ stage' = [stage EXCEPT ![e] = "unrecorded"]
          /\ UNCHANGED announced
  /\ UNCHANGED <<crossed, chain, scanner, discovered, retries, old, check, tables, errors>>

HandlerFails(e) ==
  /\ stage[e] \in Handling
  /\ CallFails
  /\ stage' = [stage EXCEPT ![e] = "error"]
  /\ UNCHANGED <<crossed, chain, scanner, discovered, retries, old, check, tables, announced>>

CheckStep(c, e) ==
  \/ NoReceipt(c, e) \/ ReceiptOfFailure(c, e) \/ GetTransactionReceipt(c, e)
  \/ GetCurrentBlockNumber(c, e) \/ CallThrows(c, e)

Next ==
  \/ NewBlock
  \/ \E t \in Transfer : Mine(t) \/ Reorg(t) \/ TransferEvent(t)
  \/ \E e \in Entry : \/ ResolveFails(e) \/ AddPendingTransaction(e)
                      \/ FindTransfer(e) \/ FindAddress(e) \/ InsertTransfer(e)
                      \/ RecordingFails(e) \/ TimePasses(e)
                      \/ MarkAsConfirmed(e) \/ AnnounceDeposit(e) \/ HandlerFails(e)
  \/ \E c \in Cycle : CheckPendingTransactions(c) \/ \E e \in Entry : CheckStep(c, e)

Spec == Init /\ [][Next]_vars

(* Answers arrive, a cycle is started as long as something waits, and time passes; *)
(* that the chain grows is not assumed.                                             *)
FairSpec ==
  /\ Spec
  /\ \A c \in Cycle : /\ WF_vars(CheckPendingTransactions(c))
                      /\ WF_vars(\E e \in Entry : CheckStep(c, e))
  /\ WF_vars(\E e \in Entry : TimePasses(e))

-----------------------------------------------------------------------------
TypeOK ==
  /\ height \in 1 .. MaxHeight
  /\ block \in [Transfer -> 0 .. MaxHeight]
  /\ reverted \subseteq Transfer
  /\ found \in [Transfer -> 0 .. MaxHeight]
  /\ times \in [Transfer -> 0 .. MaxReorgs + 1]
  /\ stage \in [Entry -> Stages]
  /\ Cardinality(Waits) <= Capacity
  /\ discovered \in [Entry -> Nat]
  /\ \A d, e \in Waits : discovered[d] = discovered[e] \/ Hash(d) = Hash(e) => d = e
  /\ retries \in [Entry -> Nat] /\ \A e \in Waits : retries[e] < MaxRetries
  /\ old \subseteq Entry
  /\ check \in [Cycle -> [Entry -> [wants: {"nothing", "receipt", "height"},
                                    block: 0 .. MaxHeight, since: 0 .. MaxHeight]]]
  /\ recording \subseteq Entry /\ reads \in [Entry -> 0 .. 2]
  /\ crossed \subseteq Transfer
  /\ confirmed \subseteq row /\ row \subseteq Transfer
  /\ announced \in [Transfer -> Nat]
  /\ {reorgs, errors} \subseteq Nat

(* When a transaction counts as confirmed it has not failed and is in a block of    *)
(* the chain, with as many blocks on top as required, though blocks are replaced     *)
(* between the receipt and the height the check compares.                           *)
ConfirmedIsDeep ==
  [][\A e \in Entry : stage[e] # "marking" /\ stage'[e] = "marking" =>
       /\ block[Hash(e)] # 0 /\ Hash(e) \notin reverted
       /\ height - block[Hash(e)] + 1 >= Confirmations]_vars

(* A deposit is announced at most once, although its transfer may be found again    *)
(* in another block, checks end in any order and cycles overlap. Excepted are        *)
(* transfers that two cycles did check at the same time, and those that moved while   *)
(* the scanner stays so far behind the head that the old entry may be confirmed        *)
(* before the transaction is found again.                                             *)
FoundLate(t) == times[t] > 1 /\ Safe + 2 > Confirmations

AnnouncedOnce ==
  \A t \in Transfer : announced[t] <= 1 \/ t \in crossed \/ FoundLate(t)

(* A deposit that is deep enough is announced, unless a statement has failed.         *)
ConfirmedIsAnnounced ==
  \A e \in Entry : stage[e] \in {"unrecorded", "error"} => errors > 0

(* Each entry leaves the queue once, for one reason.                                  *)
Place(s) == CASE s \in {"none", "resolving", "unresolved"} -> "unseen"
              [] s = Waiting -> "waiting"
              [] s \in GivenUp -> "abandoned"
              [] OTHER -> "confirmed"

Places == [e \in Entry |-> Place(stage[e])]

Abstract == INSTANCE ConfirmationQueue WITH state <- Places

KeepsQueue == Abstract!Spec

(* The same of each entry when cycles overlap: it leaves the queue once and is       *)
(* confirmed at most once, unless two cycles have checked its transfer at once.        *)
LeavesOnce ==
  [][\A e \in Entry : Hash(e) \notin crossed' =>
       Places'[e] = Places[e] \/ <<Places[e], Places'[e]>> \in Abstract!Moves]_vars

=============================================================================
