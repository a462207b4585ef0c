------------------------------- MODULE BlockScan -------------------------------
(***************************************************************************)
(* The scan of one chain and what becomes of the transfers it finds: the    *)
(* cycles of Monitor, the progress ChainBlocksRepository stores, the start  *)
(* of ProcessorCore after a crash, and the queue of pending confirmations,  *)
(* which is in memory only and is seen here as a set.                       *)
(*                                                                         *)
(* A cycle takes the targets it scans for when it begins, and acts on the   *)
(* heights that arrive later. Progress is stored without waiting for it.    *)
(***************************************************************************)
EXTENDS Integers, FiniteSets

CONSTANTS
  Safe,           \* safeBlockDistance
  Batch,          \* batchSize
  Depth,          \* RECOVERY_SAFETY_BLOCKS
  Confirmations,  \* required confirmations of the chain
  RequestsAreQuick, \* see NewBlock
  MaxHeight,      \* bound on the height of the chain
  MaxPayments,    \* bound on the payments
  MaxCrashes,     \* bound on the crashes
  MaxFailures     \* bound on the requests and statements that fail

ASSUME ScanTypes ==
  /\ {Batch, Confirmations, MaxHeight} \subseteq Nat \ {0}
  /\ {Safe, Depth, MaxPayments, MaxCrashes, MaxFailures} \subseteq Nat
  /\ Safe < MaxHeight
  /\ RequestsAreQuick \in BOOLEAN

VARIABLES
  (* the chain, and the address the payments go to *)
  height,
  paid,        \* blocks with a payment to the address since it is bound
  (* the database *)
  bound,       \* is the address bound?
  stored,      \* latest_processed_block, 0 while there is no row
  settled,     \* payments that are confirmed and announced
  (* the process *)
  read,        \* has it read the stored progress, before it is up?
  up,
  recovering,  \* ProcessorCore.isRecovering
  watched,     \* is the address among the monitor's targets?
  writes,      \* progress that is being stored
  found,       \* payments that are being recorded or wait for confirmations
  (* the monitor *)
  monitored,   \* is the chain in chainStates?
  healthy,     \* isHealthy
  last,        \* lastProcessedBlock
  current,     \* currentBlock
  range,       \* chainRanges.startBlock, 0 when it is not set
  others,      \* have the other chains caught up?
  synced,      \* isAllChainsSynced
  scan,        \* the cycle under way, see Idle
  (* history and bounds *)
  resumed,     \* the height when the process started
  lost,        \* payments given up: see NewBlock, Begin and Crash
  crashes, failures

chain == <<height, paid>>
database == <<bound, stored, settled>>
monitor == <<monitored, healthy, last, current, range, others, synced>>
process == <<read, up, recovering, watched>>
bounds == <<resumed, crashes, failures>>
vars == <<chain, database, process, writes, found, monitor, scan, lost, bounds>>

Block == 1 .. MaxHeight

(* What a cycle waits for: a height, the second height of scanLatestBlocks, or  *)
(* the blocks. It keeps the targets and the range it began with, and since is    *)
(* the height at that moment.                                                    *)
Idle == [wants |-> "nothing", targets |-> FALSE, range |-> 0, since |-> 0,
         from |-> 0, to |-> 0]

(* One cycle follows the other, so that no scan finds the lock of another cycle:  *)
(* watch starts a cycle of its own only for config.chainRanges, which nobody sets. *)
Wants(w) == up /\ scan.wants = w

Least(a, b) == IF a < b THEN a ELSE b
Most(a, b) == IF a < b THEN b ELSE a

Fails == failures < MaxFailures /\ failures' = failures + 1
               /\ UNCHANGED <<resumed, crashes>>

Init ==
  /\ height = Safe + 1
  /\ paid = {}
  /\ bound = FALSE /\ stored = 0 /\ settled = {}
  /\ read = FALSE /\ up = FALSE /\ recovering = FALSE /\ watched = FALSE
  /\ writes = {} /\ found = {}
  /\ monitored = FALSE /\ healthy = TRUE /\ last = 0 /\ current = 0
  /\ range = 0 /\ others = TRUE /\ synced = FALSE
  /\ scan = Idle
  /\ resumed = height /\ lost = {} /\ crashes = 0 /\ failures = 0

-----------------------------------------------------------------------------
(* The chain and the confirmations.                                            *)

Confirmable(b) == b \in found /\ height - b + 1 >= Confirmations

(* If requests are quick, a height is at most Safe blocks behind when it is used. *)
(* A payment to an address that this process has not restored is lost.            *)
NewBlock(payment) ==
  /\ height < MaxHeight
  /\ RequestsAreQuick /\ scan.wants \in {"height", "latest"}
       => height < scan.since + Safe
  /\ payment => bound /\ Cardinality(paid) < MaxPayments
  /\ height' = height + 1
  /\ paid' = IF payment THEN paid \cup {height'} ELSE paid
  /\ lost' = IF payment /\ (up \/ read) /\ ~watched THEN lost \cup {height'} ELSE lost
  /\ UNCHANGED <<database, process, writes, found, monitor, scan, bounds>>

(* A payment is confirmed: see DelayedConfirmation.                             *)
Settle(b) ==
  /\ up /\ Confirmable(b)
  /\ settled' = settled \cup {b}
  /\ found' = found \ {b}
  /\ UNCHANGED <<chain, bound, stored, process, writes, monitor, scan, lost, bounds>>

(* bindDepositAddress, refused during recovery. Asked again, it returns the address  *)
(* of the reference and watches nothing.                                              *)
BindDepositAddress ==
  /\ up /\ ~recovering /\ ~bound
  /\ bound' = TRUE /\ watched' = TRUE
  /\ UNCHANGED <<chain, stored, settled, read, up, recovering, writes, found, monitor,
                 scan, lost, bounds>>

-----------------------------------------------------------------------------
(* Progress.                                                                    *)

(* updateChainBlock sets the row to what it is given, in any order.              *)
UpdateChainBlock(n) ==
  /\ up /\ n \in writes
  /\ stored' = n
  /\ writes' = writes \ {n}
  /\ UNCHANGED <<chain, bound, settled, process, found, monitor, scan, lost, bounds>>

UpdateFails(n) ==
  /\ up /\ n \in writes
  /\ Fails
  /\ writes' = writes \ {n}
  /\ UNCHANGED <<chain, database, process, found, monitor, scan, lost>>

(* Faulty variants: a chain has caught up when it has scanned one block, or only at   *)
(* the head.                                                                            *)
CaughtUpAtOnce(l, c) == range = 0 \/ l >= range
CaughtUpAtHead(l, c) == range = 0 \/ l > c - Safe

(* The recovery goal of a chain.                                                   *)
CaughtUp(l, c) == range = 0 \/ l >= c - Safe

(* updateAllChainsSyncedStatus: the ranges go when all chains have caught up.     *)
UpdateSynced(l, c, o) ==
  LET all == o /\ CaughtUp(l, c)
  IN  /\ synced' = all
      /\ range' = IF all /\ ~synced THEN 0 ELSE range

(* processScanResult                                                             *)
Processed(to) ==
  IF to <= last
  THEN UNCHANGED <<last, writes, synced, range>>
  ELSE /\ last' = to
       /\ writes' = writes \cup {to}
       /\ UpdateSynced(to, current', others)

OthersCatchUp ==
  /\ up /\ ~others
  /\ others' = TRUE
  /\ IF monitored THEN UpdateSynced(last, current, TRUE)
     ELSE synced' = TRUE /\ range' = IF synced THEN range ELSE 0
  /\ UNCHANGED <<chain, database, process, writes, found, monitored, healthy, last, current,
                 scan, lost, bounds>>

(* The other chains are higher when it is computed again.                            *)
OthersFallBehind ==
  /\ up /\ others /\ ~synced
  /\ others' = FALSE
  /\ UNCHANGED <<chain, database, process, writes, found, monitored, healthy, last, current,
                 range, synced, scan, lost, bounds>>

(* checkRecoveryCompletion, a second after the chains are in sync.                 *)
CheckRecoveryCompletion ==
  /\ up /\ recovering /\ synced
  /\ recovering' = FALSE
  /\ UNCHANGED <<chain, database, read, up, watched, writes, found, monitor, scan, lost,
                 bounds>>

-----------------------------------------------------------------------------
(* A scan cycle.                                                                 *)

ExecuteScanCycle ==
  /\ Wants("nothing") /\ monitored /\ healthy
  /\ scan' = [Idle EXCEPT !.wants = "height", !.targets = watched, !.range = range,
                          !.since = height]
  /\ UNCHANGED <<chain, database, process, writes, found, monitor, lost, bounds>>

(* A height arrives: the chain has been that high since the cycle began.           *)
Arrives(h) ==
  /\ h \in scan.since .. height
  /\ current' = h
  /\ UNCHANGED <<chain, database, process, found, monitored, healthy, others, lost, bounds>>

(* Faulty variant: the height is taken for a block that has been scanned.          *)
JumpToHead(h) ==
  /\ Wants("height") /\ scan.range = 0 /\ ~scan.targets
  /\ Arrives(h)
  /\ last' = Most(last, h)
  /\ writes' = writes \cup {h}
  /\ scan' = Idle
  /\ UNCHANGED <<synced, range>>

(* Without targets only the height is noted; the progress is set in any case.      *)
JumpToSafe(h) ==
  /\ Wants("height") /\ scan.range = 0 /\ ~scan.targets
  /\ Arrives(h)
  /\ last' = Most(last, h - Safe)
  /\ writes' = writes \cup {h - Safe}
  /\ scan' = Idle
  /\ UNCHANGED <<synced, range>>

(* Faulty variant: the head does not end a batch.                                  *)
WholeBatch(from, h) == from + Batch - 1

UpTo(from, h) == Least(from + Batch - 1, h)

(* executeRecoveryScanForChain goes up to the head.                                *)
RecoveryScan(h) ==
  LET from == Most(last + 1, scan.range)
      to == UpTo(from, h)
  IN  /\ Wants("height") /\ scan.range # 0
      /\ Arrives(h)
      /\ IF from <= to /\ scan.targets
         THEN /\ scan' = [scan EXCEPT !.wants = "blocks", !.from = from, !.to = to]
              /\ UNCHANGED <<last, writes, synced, range>>
         ELSE /\ scan' = Idle
              /\ Processed(IF from <= to THEN h - Safe ELSE last)

(* executeNormalScanForChain                                                       *)
NormalScan(h) ==
  LET from == last + 1
      to == UpTo(from, h - Safe)
  IN  /\ Wants("height") /\ scan.range = 0 /\ scan.targets
      /\ Arrives(h)
      /\ scan' = IF from > to THEN Idle
                 ELSE [scan EXCEPT !.wants = "latest", !.from = from, !.to = to]
      /\ UNCHANGED <<last, writes, synced, range>>

(* An exception makes the chain unhealthy, and it is never scanned again.          *)
HeightFails ==
  /\ Wants("height")
  /\ Fails
  /\ healthy' = FALSE
  /\ scan' = Idle
  /\ UNCHANGED <<chain, database, process, writes, found, monitored, last, current, range,
                 others, synced, lost>>

(* scanLatestBlocks reads the height again. A range of one block is left for later. *)
ScanLatestBlocks(h) ==
  LET to == Least(scan.to, h - Safe)
  IN  /\ Wants("latest")
      /\ h \in scan.since .. height
      /\ scan' = IF to <= scan.from THEN Idle
                 ELSE [scan EXCEPT !.wants = "blocks", !.to = to]
      /\ UNCHANGED <<chain, database, process, writes, found, monitor, lost, bounds>>

LatestFails ==
  /\ Wants("latest")
  /\ Fails
  /\ scan' = Idle
  /\ UNCHANGED <<chain, database, process, writes, found, monitor, lost>>

(* executeScanTask hands the transfers over before the progress is set.            *)
ExecuteScanTask ==
  /\ Wants("blocks")
  /\ found' = found \cup {b \in paid : scan.from <= b /\ b <= scan.to}
  /\ UNCHANGED current
  /\ Processed(scan.to)
  /\ scan' = Idle
  /\ UNCHANGED <<chain, database, process, monitored, healthy, others, lost, bounds>>

(* Faulty variant: the lock of the chain is not released.                           *)
FailedScanKeepsLock ==
  /\ Wants("blocks")
  /\ Fails
  /\ scan' = [scan EXCEPT !.wants = "lock"]
  /\ UNCHANGED <<chain, database, process, writes, found, monitor, lost>>

ScanFails ==
  /\ Wants("blocks")
  /\ Fails
  /\ scan' = Idle
  /\ UNCHANGED <<chain, database, process, writes, found, monitor, lost>>

-----------------------------------------------------------------------------
(* Crash and start.                                                                *)

(* Faulty variant: the scan resumes where it stopped.                              *)
NoSafetyBlocks(n) == n

(* The first block to scan after progress n.                                       *)
SafeStart(n) == Most(1, n - Depth)

(* Found payments too far behind the progress the crash leaves are lost.           *)
Crash ==
  /\ up \/ read
  /\ crashes < MaxCrashes
  /\ crashes' = crashes + 1
  /\ read' = FALSE /\ up' = FALSE /\ recovering' = FALSE /\ watched' = FALSE
  /\ stored' \in {stored} \cup writes
  /\ lost' = lost \cup {b \in found : b + Depth < stored'}
  /\ writes' = {} /\ found' = {} /\ scan' = Idle
  /\ monitored' = FALSE /\ healthy' = TRUE /\ last' = 0 /\ current' = 0
  /\ range' = 0 /\ others' = TRUE /\ synced' = FALSE
  /\ UNCHANGED <<chain, bound, settled, resumed, failures>>

(* The process begins, from a block or without a range. In recovery the targets are *)
(* restored before the monitor starts; otherwise they are not, and what has not been *)
(* confirmed by then is lost.                                                       *)
Begin(from) ==
  /\ ~up /\ ~read
  /\ read' = TRUE
  /\ range' = from /\ recovering' = (from # 0)
  /\ watched' = (bound /\ from # 0)
  /\ lost' = IF from = 0 THEN lost \cup (paid \ settled) ELSE lost
  /\ UNCHANGED <<chain, database, up, writes, found, monitored, healthy, last, current,
                 others, synced, scan>>

(* buildChainRangesFromDatabase. A chain without a row starts at its first block if   *)
(* other chains have one.                                                              *)
ReadProgress ==
  /\ \E from \in IF stored = 0 THEN {0, 1} ELSE {SafeStart(stored)} : Begin(from)
  /\ UNCHANGED bounds

(* A failed statement makes the start a normal one.                                   *)
ReadFails == Fails /\ Begin(0)

(* initializeState, for a chain whose height arrives.                                *)
Start ==
  LET from == IF range = 0 THEN height - Safe ELSE range
  IN  /\ read
      /\ read' = FALSE /\ up' = TRUE
      /\ monitored' = TRUE /\ current' = height /\ last' = from - 1
      /\ writes' = {from}
      /\ others' \in (IF range = 0 THEN {TRUE} ELSE BOOLEAN)
      /\ synced' = (others' /\ (range = 0 \/ from - 1 >= height - Safe))
      /\ range' = IF synced' THEN 0 ELSE range
      /\ resumed' = height
      /\ UNCHANGED <<chain, database, recovering, watched, found, healthy, scan, lost,
                     crashes, failures>>

(* A chain without a height is left out, and recovery does not wait for it.         *)
StartBlind ==
  /\ read
  /\ Fails
  /\ read' = FALSE /\ up' = TRUE
  /\ others' \in (IF range = 0 THEN {TRUE} ELSE BOOLEAN)
  /\ synced' = others'
  /\ range' = IF others' THEN 0 ELSE range
  /\ UNCHANGED <<chain, database, recovering, watched, writes, found, monitored, healthy,
                 last, current, scan, lost>>

Cycle ==
  \/ ExecuteScanCycle
  \/ \E h \in Block : JumpToSafe(h) \/ RecoveryScan(h) \/ NormalScan(h)
                        \/ ScanLatestBlocks(h)
  \/ ExecuteScanTask

Next ==
  \/ \E payment \in BOOLEAN : NewBlock(payment)
  \/ \E b \in Block : Settle(b)
  \/ BindDepositAddress
  \/ \E n \in Block : UpdateChainBlock(n) \/ UpdateFails(n)
  \/ OthersCatchUp \/ OthersFallBehind \/ CheckRecoveryCompletion
  \/ Cycle \/ HeightFails \/ LatestFails \/ ScanFails
  \/ Crash \/ ReadProgress \/ ReadFails \/ Start \/ StartBlind

Spec == Init /\ [][Next]_vars

(* The loop goes on, requests are answered, checks are made, and a process that has  *)
(* crashed is started again. The other chains may never catch up.                     *)
FairSpec ==
  /\ Spec
  /\ WF_vars(Cycle)
  /\ WF_vars(CheckRecoveryCompletion)
  /\ WF_vars(ReadProgress) /\ WF_vars(Start)
  /\ WF_vars(\E b \in Block : Settle(b))

-----------------------------------------------------------------------------
TypeOK ==
  /\ height \in Block /\ paid \subseteq Block
  /\ bound \in BOOLEAN /\ stored \in 0 .. height /\ settled \subseteq paid
  /\ {read, up, recovering, watched, monitored, healthy, others, synced} \subseteq BOOLEAN
  /\ writes \subseteq 1 .. height
  /\ found \subseteq paid /\ lost \subseteq paid
  /\ last \in -1 .. height /\ current \in 0 .. height
  /\ range \in 0 .. MaxHeight
  /\ scan \in [wants: {"nothing", "height", "latest", "blocks"}, targets: BOOLEAN,
               range: 0 .. MaxHeight, since: 0 .. MaxHeight, from: 0 .. MaxHeight, to: 0 .. MaxHeight]
  /\ resumed \in Block /\ {crashes, failures} \subseteq Nat

(* A payment to a bound address is confirmed, is being pursued, or lies in blocks     *)
(* that are still to be scanned, although a cycle acts on targets and heights of      *)
(* different moments, requests fail, progress is stored out of order and a crash      *)
(* forgets what was found. Given up are only payments more than Depth blocks behind   *)
(* the progress at a crash, and those of an address a normal start has not restored.  *)
NothingSkipped ==
  \A b \in paid \ (settled \cup lost) : up /\ monitored => b \in found \/ b > last

(* New business is refused until the blocks of the downtime are scanned, so that no    *)
(* address is bound while recovery jumps over blocks.                                   *)
RecoveryIsComplete ==
  up /\ monitored /\ ~recovering => last + 1 >= resumed - Safe

(* The process works on, but not on this chain: its height could not be read at the     *)
(* start or in a cycle.                                                                 *)
Blind == up /\ (~monitored \/ ~healthy)

(* Again and again every payment that is safely in the chain, with a block more, has     *)
(* been found or given up, also after a crash: the scan never stands still.               *)
PaymentsAreFound ==
  []<>(Blind \/ \A b \in paid : height > b + Safe => b \in found \cup settled \cup lost)

(* Recovery ends unless a chain drops out of it.                                          *)
RecoveryEnds == []<>(~recovering \/ Blind \/ ~others)

=============================================================================
