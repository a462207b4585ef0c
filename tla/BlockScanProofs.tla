---------------------------- MODULE BlockScanProofs ----------------------------
(***************************************************************************)
(* Theorems about BlockScan, for chains of any height, any number of        *)
(* payments, crashes and failed requests, and any batch size and distances. *)
(***************************************************************************)
EXTENDS BlockScan, TLAPS

-----------------------------------------------------------------------------
(* Types.                                                                    *)

(* The memory of a process that is not running.                              *)
DownIsEmpty ==
  ~up => ~monitored /\ writes = {} /\ found = {} /\ scan = Idle

(* The progress is read before the process is up, and gives it a block the chain *)
(* has, or no range and no recovery.                                          *)
ReadIsSound ==
  read => ~up /\ range <= height /\ (recovering <=> range # 0)

(* A cycle acts on heights the chain has had since it began, and scans the    *)
(* blocks that follow the last one.                                          *)
CycleIsSound ==
  /\ height > Safe /\ last >= 0
  /\ scan.wants # "nothing" => monitored /\ scan.since > Safe /\ scan.since <= height
                            /\ scan.range <= last + 1
  /\ scan.wants \in {"latest", "blocks"} =>
       /\ scan.from = last + 1
       /\ scan.from <= scan.to /\ scan.to <= height
       /\ scan.to - scan.from < Batch
  /\ monitored => range <= last + 1

(* TypeOK in two parts: the numbers and the flags.                             *)
CycleType ==
  [wants: {"nothing", "height", "latest", "blocks"}, targets: BOOLEAN,
   range: 0 .. MaxHeight, since: 0 .. MaxHeight, from: 0 .. MaxHeight, to: 0 .. MaxHeight]

(* The blocks and the counters are in their ranges.                           *)
NumbersOK ==
  /\ height \in Block /\ paid \subseteq Block
  /\ stored \in 0 .. height /\ settled \subseteq paid
  /\ writes \subseteq 1 .. height
  /\ found \subseteq paid /\ lost \subseteq paid
  /\ last \in -1 .. height /\ current \in 0 .. height
  /\ range \in 0 .. MaxHeight
  /\ resumed \in Block /\ {crashes, failures} \subseteq Nat

(* The flags are flags.                                                       *)
FlagsOK ==
  /\ bound \in BOOLEAN
  /\ {read, up, recovering, watched, monitored, healthy, others, synced} \subseteq BOOLEAN

(* The inductive invariant behind TypeOK: the ranges survive only because a cycle *)
(* stays within the heights it has seen.                                      *)
TypeInv ==
  /\ NumbersOK
  /\ scan \in CycleType
  /\ FlagsOK
  /\ DownIsEmpty
  /\ ReadIsSound
  /\ CycleIsSound

(* The cycles that handlers make of a cycle.                                    *)
LEMMA IdleCycle == Idle \in CycleType /\ Idle.wants = "nothing"
BY ScanTypes DEF Idle, CycleType

(* What CycleType says, field by field.                                       *)
LEMMA FieldsOfCycle ==
  ASSUME NEW c \in CycleType
  PROVE  /\ c.wants \in {"nothing", "height", "latest", "blocks"} /\ c.targets \in BOOLEAN
         /\ c.range \in 0 .. MaxHeight
         /\ c.since \in 0 .. MaxHeight /\ c.from \in 0 .. MaxHeight /\ c.to \in 0 .. MaxHeight
BY DEF CycleType

(* processScanResult moves the progress forward, or not at all.                 *)
LEMMA ProcessedWrites ==
  ASSUME last \in Int, NEW to \in Int, Processed(to)
  PROVE  \/ UNCHANGED <<last, writes, range>>
         \/ to > last /\ last' = to /\ writes' = writes \cup {to} /\ range' \in {0, range}
BY DEF Processed, UpdateSynced

(* updateAllChainsSyncedStatus writes a flag.                                 *)
LEMMA SyncedIsBoolean ==
  ASSUME NEW l, NEW c, NEW o, UpdateSynced(l, c, o)
  PROVE  synced' \in BOOLEAN
<1> DEFINE all == o /\ CaughtUp(l, c)
<1>1. synced' = all
  BY DEF UpdateSynced
<1>2. all \in BOOLEAN
  OBVIOUS
<1> QED
  BY <1>1, <1>2

(* No step writes anything but a flag to a flag.                              *)
LEMMA NextFlags ==
  ASSUME FlagsOK, [Next]_vars
  PROVE  FlagsOK'
<1> USE DEF FlagsOK, chain, database, process, monitor, bounds
<1>1. ASSUME NEW payment \in BOOLEAN, NewBlock(payment) PROVE FlagsOK'
  BY <1>1 DEF NewBlock
<1>2. ASSUME NEW b \in Block, Settle(b) PROVE FlagsOK'
  BY <1>2 DEF Settle
<1>3. CASE BindDepositAddress
  BY <1>3 DEF BindDepositAddress
<1>4. ASSUME NEW n \in Block, UpdateChainBlock(n) PROVE FlagsOK'
  BY <1>4 DEF UpdateChainBlock
<1>5. ASSUME NEW n \in Block, UpdateFails(n) PROVE FlagsOK'
  BY <1>5 DEF UpdateFails
<1>6. CASE OthersCatchUp
  <2>1. synced' \in BOOLEAN /\ others' \in BOOLEAN
    BY <1>6, SyncedIsBoolean DEF OthersCatchUp
  <2> QED
    BY <1>6, <2>1 DEF OthersCatchUp
<1>7. CASE CheckRecoveryCompletion
  BY <1>7 DEF CheckRecoveryCompletion
<1>8. CASE ExecuteScanCycle
  BY <1>8 DEF ExecuteScanCycle
<1>9. ASSUME NEW h \in Block, JumpToSafe(h) PROVE FlagsOK'
  BY <1>9 DEF JumpToSafe, Arrives
<1>10. ASSUME NEW h \in Block, RecoveryScan(h) PROVE FlagsOK'
  <2>1. synced' \in BOOLEAN
    BY <1>10, SyncedIsBoolean DEF RecoveryScan, Processed
  <2> QED
    BY <1>10, <2>1 DEF RecoveryScan, Arrives
<1>11. ASSUME NEW h \in Block, NormalScan(h) PROVE FlagsOK'
  BY <1>11 DEF NormalScan, Arrives
<1>12. ASSUME NEW h \in Block, ScanLatestBlocks(h) PROVE FlagsOK'
  BY <1>12 DEF ScanLatestBlocks
<1>13. CASE ExecuteScanTask
  <2>1. synced' \in BOOLEAN
    BY <1>13, SyncedIsBoolean DEF ExecuteScanTask, Processed
  <2> QED
    BY <1>13, <2>1 DEF ExecuteScanTask
<1>14. CASE HeightFails
  BY <1>14 DEF HeightFails, Fails
<1>15. CASE LatestFails
  BY <1>15 DEF LatestFails, Fails
<1>16. CASE ScanFails
  BY <1>16 DEF ScanFails, Fails
<1>17. CASE Crash
  BY <1>17 DEF Crash
<1>18. CASE Start
  BY <1>18 DEF Start
<1>19. CASE StartBlind
  BY <1>19 DEF StartBlind, Fails
<1>20. CASE OthersFallBehind
  BY <1>20 DEF OthersFallBehind
<1>21. CASE ReadProgress
  BY <1>21 DEF ReadProgress, Begin
<1>22. CASE ReadFails
  BY <1>22 DEF ReadFails, Begin, Fails
<1>23. CASE UNCHANGED vars
  BY <1>23 DEF vars
<1> QED
  BY <1>1, <1>2, <1>3, <1>4, <1>5, <1>6, <1>7, <1>8, <1>9, <1>10, <1>11, <1>12,
     <1>13, <1>14, <1>15, <1>16, <1>17, <1>18, <1>19, <1>20, <1>21, <1>22, <1>23 DEF Next, Cycle

(* The assumptions on the constants, one by one.                              *)
LEMMA Limits ==
  /\ Batch \in Nat /\ Batch > 0 /\ Confirmations \in Nat /\ Confirmations > 0
  /\ MaxHeight \in Nat /\ MaxHeight > 0 /\ Safe \in Nat /\ Safe < MaxHeight
  /\ Depth \in Nat
BY ScanTypes

(* Every step keeps the ranges, and what a cycle acts on sound: the progress moves *)
(* only within the heights the cycle has seen.                                *)
LEMMA NextNumbers ==
  ASSUME NumbersOK, scan \in CycleType, FlagsOK, DownIsEmpty, ReadIsSound, CycleIsSound,
         [Next]_vars
  PROVE  NumbersOK' /\ scan' \in CycleType /\ DownIsEmpty' /\ CycleIsSound'
<1> DEFINE Sound == NumbersOK /\ scan \in CycleType /\ DownIsEmpty /\ CycleIsSound
<1> SUFFICES Sound'
  OBVIOUS
<1>f. /\ scan.wants \in {"nothing", "height", "latest", "blocks"} /\ scan.targets \in BOOLEAN
      /\ scan.range \in 0 .. MaxHeight
      /\ scan.since \in 0 .. MaxHeight /\ scan.from \in 0 .. MaxHeight
      /\ scan.to \in 0 .. MaxHeight
  BY FieldsOfCycle
<1>i. Idle \in CycleType /\ Idle.wants = "nothing"
  BY IdleCycle
<1> USE Limits
    DEF Block, Wants, chain, database, process, monitor, bounds, Least, Most
<1>1. ASSUME NEW payment \in BOOLEAN, NewBlock(payment) PROVE Sound'
  <2>1. height' \in Block /\ height' = height + 1
    BY <1>1 DEF NewBlock, NumbersOK
  <2>2. paid' \subseteq Block /\ paid \subseteq paid'
    BY <1>1, <2>1 DEF NewBlock, NumbersOK
  <2>3. UNCHANGED <<database, up, writes, found, monitor, scan, bounds>>
    BY <1>1 DEF NewBlock
  <2>4. lost' \subseteq paid'
    BY <1>1, <2>2 DEF NewBlock, NumbersOK
  <2>n. NumbersOK'
    BY <1>f, <2>1, <2>2, <2>3, <2>4 DEF NumbersOK
  <2>d. DownIsEmpty'
    BY <1>f, <2>1, <2>2, <2>3 DEF DownIsEmpty
  <2>s. CycleIsSound'
    BY <1>f, <2>1, <2>2, <2>3 DEF CycleIsSound, NumbersOK
  <2> QED
    BY <1>f, <2>1, <2>2, <2>3, <2>n, <2>d, <2>s
<1>2. ASSUME NEW b \in Block, Settle(b) PROVE Sound'
  <2>1. b \in paid
    BY <1>2 DEF Settle, Confirmable, NumbersOK
  <2>2. /\ UNCHANGED <<chain, bound, stored, up, writes, monitor, scan, lost, bounds>>
        /\ settled' = settled \cup {b} /\ found' = found \ {b}
    BY <1>2 DEF Settle
  <2>n. NumbersOK'
    BY <1>f, <2>1, <2>2 DEF NumbersOK
  <2>d. DownIsEmpty'
    BY <1>f, <2>1, <2>2 DEF DownIsEmpty
  <2>s. CycleIsSound'
    BY <1>f, <2>1, <2>2 DEF CycleIsSound, NumbersOK
  <2> QED
    BY <1>f, <2>1, <2>2, <2>n, <2>d, <2>s
<1>3. CASE BindDepositAddress
  <2>1. UNCHANGED <<chain, stored, settled, up, writes, found, monitor, scan, lost, bounds>>
    BY <1>3 DEF BindDepositAddress
  <2>n. NumbersOK'
    BY <1>f, <2>1 DEF NumbersOK
  <2>d. DownIsEmpty'
    BY <1>f, <2>1 DEF DownIsEmpty
  <2>s. CycleIsSound'
    BY <1>f, <2>1 DEF CycleIsSound, NumbersOK
  <2> QED
    BY <1>f, <2>1, <2>n, <2>d, <2>s
<1>4. ASSUME NEW n \in Block, UpdateChainBlock(n) PROVE Sound'
  <2>1. /\ stored' = n /\ n \in writes /\ writes' = writes \ {n}
        /\ UNCHANGED <<chain, settled, up, found, monitor, scan, lost, bounds>>
    BY <1>4 DEF UpdateChainBlock
  <2>n. NumbersOK'
    BY <1>f, <2>1 DEF NumbersOK
  <2>d. DownIsEmpty'
    BY <1>f, <2>1 DEF DownIsEmpty
  <2>s. CycleIsSound'
    BY <1>f, <2>1 DEF CycleIsSound, NumbersOK
  <2> QED
    BY <1>f, <2>1, <2>n, <2>d, <2>s
<1>5. ASSUME NEW n \in Block, UpdateFails(n) PROVE Sound'
  <2>1. /\ failures' = failures + 1 /\ writes' = writes \ {n}
        /\ UNCHANGED <<chain, database, up, found, monitor, scan, resumed, crashes, lost>>
    BY <1>5 DEF UpdateFails, Fails
  <2>n. NumbersOK'
    BY <1>f, <2>1 DEF NumbersOK
  <2>d. DownIsEmpty'
    BY <1>f, <2>1 DEF DownIsEmpty
  <2>s. CycleIsSound'
    BY <1>f, <2>1 DEF CycleIsSound, NumbersOK
  <2> QED
    BY <1>f, <2>1, <2>n, <2>d, <2>s
<1>6. CASE OthersCatchUp
  <2>1. /\ range' \in {0, range}
        /\ UNCHANGED <<chain, database, up, writes, found, monitored, last, current, scan,
                       lost, bounds>>
    BY <1>6 DEF OthersCatchUp, UpdateSynced
  <2>n. NumbersOK'
    BY <1>f, <2>1 DEF NumbersOK
  <2>d. DownIsEmpty'
    BY <1>f, <2>1 DEF DownIsEmpty
  <2>s. CycleIsSound'
    BY <1>f, <2>1 DEF CycleIsSound, NumbersOK
  <2> QED
    BY <1>f, <2>1, <2>n, <2>d, <2>s
<1>7. CASE CheckRecoveryCompletion
  <2>1. UNCHANGED <<chain, database, up, writes, found, monitor, scan, lost, bounds>>
    BY <1>7 DEF CheckRecoveryCompletion
  <2>n. NumbersOK'
    BY <1>f, <2>1 DEF NumbersOK
  <2>d. DownIsEmpty'
    BY <1>f, <2>1 DEF DownIsEmpty
  <2>s. CycleIsSound'
    BY <1>f, <2>1 DEF CycleIsSound, NumbersOK
  <2> QED
    BY <1>f, <2>1, <2>n, <2>d, <2>s
<1>8. CASE ExecuteScanCycle
  <2>1. /\ scan' = [Idle EXCEPT !.wants = "height", !.targets = watched, !.range = range,
                                !.since = height]
        /\ monitored /\ up
        /\ UNCHANGED <<chain, database, up, writes, found, monitor, lost, bounds>>
    BY <1>8 DEF ExecuteScanCycle
  <2>2. height \in 0 .. MaxHeight
    BY DEF NumbersOK
  <2>r. range \in 0 .. MaxHeight /\ watched \in BOOLEAN
    BY DEF NumbersOK, FlagsOK
  <2>3. /\ scan' \in CycleType /\ scan'.wants = "height" /\ scan'.since = height
        /\ scan'.range = range
    BY <1>i, <2>1, <2>2, <2>r DEF CycleType
  <2>n. NumbersOK'
    BY <1>f, <2>1, <2>3 DEF NumbersOK
  <2>d. DownIsEmpty'
    BY <1>f, <2>1, <2>3 DEF DownIsEmpty
  <2>s. CycleIsSound'
    BY <1>f, <2>1, <2>3 DEF CycleIsSound, NumbersOK
  <2> QED
    BY <1>f, <2>1, <2>3, <2>n, <2>d, <2>s
<1>9. ASSUME NEW h \in Block, JumpToSafe(h) PROVE Sound'
  <2>1. /\ scan' = Idle /\ scan.wants = "height" /\ h \in scan.since .. height
        /\ last' = (IF last < h - Safe THEN h - Safe ELSE last)
        /\ writes' = writes \cup {h - Safe} /\ current' = h
        /\ UNCHANGED <<chain, database, up, found, monitored, range, lost, bounds>>
    BY <1>9 DEF JumpToSafe, Arrives
  <2>2. h - Safe \in 1 .. height /\ h \in 1 .. height
    BY <1>f, <2>1 DEF NumbersOK, CycleIsSound
  <2>3. last' \in 0 .. height /\ last' >= last
    BY <2>1, <2>2 DEF NumbersOK, CycleIsSound
  <2>4. up
    BY <1>9 DEF JumpToSafe
  <2>n. NumbersOK'
    BY <1>i, <2>1, <2>2, <2>3, <2>4 DEF NumbersOK
  <2>d. DownIsEmpty'
    BY <1>i, <2>1, <2>2, <2>3, <2>4 DEF DownIsEmpty
  <2>s. CycleIsSound'
    BY <1>i, <2>1, <2>2, <2>3, <2>4 DEF CycleIsSound, NumbersOK
  <2> QED
    BY <1>i, <2>1, <2>2, <2>3, <2>4, <2>n, <2>d, <2>s
<1>10. ASSUME NEW h \in Block, RecoveryScan(h) PROVE Sound'
  <2> DEFINE from == Most(last + 1, scan.range)
             to == UpTo(from, h)
  <2>1. /\ scan.wants = "height" /\ h \in scan.since .. height /\ current' = h /\ up
        /\ UNCHANGED <<chain, database, up, found, monitored, lost, bounds>>
    BY <1>10 DEF RecoveryScan, Arrives
  <2>2. h - Safe \in 1 .. height /\ h \in 1 .. height
    BY <1>f, <2>1 DEF NumbersOK, CycleIsSound
  <2>3. monitored /\ scan.since > Safe /\ scan.since <= height /\ scan.range <= last + 1
    BY <2>1 DEF CycleIsSound
  <2>4. from = last + 1 /\ to <= h /\ to < from + Batch /\ to \in Int
    BY <1>f, <2>2, <2>3 DEF UpTo, CycleIsSound, NumbersOK
  <2> HIDE DEF from, to
  <2>5. CASE from <= to /\ scan.targets
    <3>1. /\ scan' = [scan EXCEPT !.wants = "blocks", !.from = from, !.to = to]
          /\ UNCHANGED <<last, writes, range>>
      BY <1>10, <2>5 DEF RecoveryScan, from, to
    <3>2. from \in 1 .. MaxHeight /\ to \in 1 .. height
      BY <2>2, <2>4, <2>5 DEF NumbersOK, CycleIsSound
    <3>3. from \in 0 .. MaxHeight /\ to \in 0 .. MaxHeight
      BY <3>2 DEF NumbersOK
    <3>4. /\ scan' \in CycleType /\ scan'.wants = "blocks" /\ scan'.since = scan.since
          /\ scan'.range = scan.range /\ scan'.from = from /\ scan'.to = to
      BY <3>1, <3>3 DEF CycleType
    <3>n. NumbersOK'
      BY <1>f, <2>1, <2>2, <2>3, <2>4, <2>5, <3>1, <3>2, <3>4 DEF NumbersOK
    <3>d. DownIsEmpty'
      BY <1>f, <2>1, <2>2, <2>3, <2>4, <2>5, <3>1, <3>2, <3>4 DEF DownIsEmpty
    <3>s. CycleIsSound'
      BY <1>f, <2>1, <2>2, <2>3, <2>4, <2>5, <3>1, <3>2, <3>4 DEF CycleIsSound, NumbersOK
    <3> QED
      BY <1>f, <2>1, <2>2, <2>3, <2>4, <2>5, <3>1, <3>2, <3>4, <3>n, <3>d, <3>s
  <2>6. CASE ~(from <= to /\ scan.targets)
    <3> DEFINE goal == IF from <= to THEN h - Safe ELSE last
    <3>1. scan' = Idle /\ Processed(goal)
      BY <1>10, <2>6 DEF RecoveryScan, from, to
    <3>2. goal \in 0 .. height /\ last >= 0
      BY <2>2 DEF NumbersOK, CycleIsSound
    <3> HIDE DEF goal
    <3>3. \/ UNCHANGED <<last, writes, range>>
          \/ goal > last /\ last' = goal /\ writes' = writes \cup {goal} /\ range' \in {0, range}
      BY <3>1, <3>2, ProcessedWrites DEF NumbersOK, CycleIsSound
    <3>4. last' \in 0 .. height /\ range' \in 0 .. MaxHeight
      BY <3>2, <3>3 DEF NumbersOK
    <3>5. writes' \subseteq 1 .. height
      <4>1. \/ writes' = writes
            \/ goal \in 1 .. height /\ writes' = writes \cup {goal}
        BY <3>2, <3>3 DEF NumbersOK
      <4> QED
        BY <4>1 DEF NumbersOK
    <3>n. NumbersOK'
      BY <1>i, <2>1, <2>2, <3>1, <3>4, <3>5 DEF NumbersOK
    <3>d. DownIsEmpty'
      BY <1>i, <2>1, <2>2, <3>1, <3>2, <3>3 DEF DownIsEmpty
    <3>s. CycleIsSound'
      BY <1>i, <2>1, <2>2, <3>1, <3>2, <3>3 DEF CycleIsSound, NumbersOK
    <3> QED
      BY <1>i, <2>1, <2>2, <3>1, <3>2, <3>3, <3>n, <3>d, <3>s
  <2> QED
    BY <2>5, <2>6
<1>11. ASSUME NEW h \in Block, NormalScan(h) PROVE Sound'
  <2> DEFINE to == UpTo(last + 1, h - Safe)
  <2>1. /\ scan.wants = "height" /\ h \in scan.since .. height /\ current' = h /\ up
        /\ UNCHANGED <<chain, database, up, found, monitored, last, writes, range, lost, bounds>>
        /\ scan' = IF last + 1 > to THEN Idle
                   ELSE [scan EXCEPT !.wants = "latest", !.from = last + 1, !.to = to]
    BY <1>11 DEF NormalScan, Arrives
  <2>2. h - Safe \in 1 .. height /\ h \in 1 .. height
    BY <1>f, <2>1 DEF NumbersOK, CycleIsSound
  <2>3. monitored /\ scan.since > Safe /\ scan.since <= height /\ scan.range <= last + 1
    BY <2>1 DEF CycleIsSound
  <2>4. to <= h /\ to < last + 1 + Batch /\ to \in Int
    BY <2>2 DEF UpTo, NumbersOK, CycleIsSound
  <2> HIDE DEF to
  <2>5. CASE last + 1 > to
    <3>1. scan' = Idle
      BY <2>1, <2>5
    <3>n. NumbersOK'
      BY <1>i, <2>1, <2>2, <3>1 DEF NumbersOK
    <3>d. DownIsEmpty'
      BY <1>i, <2>1, <2>2, <3>1 DEF DownIsEmpty
    <3>s. CycleIsSound'
      BY <1>i, <2>1, <2>2, <3>1 DEF CycleIsSound, NumbersOK
    <3> QED
      BY <1>i, <2>1, <2>2, <3>1, <3>n, <3>d, <3>s
  <2>6. CASE ~(last + 1 > to)
    <3>1. last + 1 \in 1 .. MaxHeight /\ to \in 1 .. height
      BY <2>2, <2>4, <2>6 DEF NumbersOK, CycleIsSound
    <3>2. last + 1 \in 0 .. MaxHeight /\ to \in 0 .. MaxHeight
      BY <3>1 DEF NumbersOK
    <3>3. scan' = [scan EXCEPT !.wants = "latest", !.from = last + 1, !.to = to]
      BY <2>1, <2>6
    <3>4. /\ scan' \in CycleType /\ scan'.wants = "latest" /\ scan'.since = scan.since
          /\ scan'.range = scan.range /\ scan'.from = last + 1 /\ scan'.to = to
      BY <3>2, <3>3 DEF CycleType
    <3>n. NumbersOK'
      BY <1>f, <2>1, <2>2, <2>3, <2>4, <2>6, <3>1, <3>4 DEF NumbersOK
    <3>d. DownIsEmpty'
      BY <1>f, <2>1, <2>2, <2>3, <2>4, <2>6, <3>1, <3>4 DEF DownIsEmpty
    <3>s. CycleIsSound'
      BY <1>f, <2>1, <2>2, <2>3, <2>4, <2>6, <3>1, <3>4 DEF CycleIsSound, NumbersOK
    <3> QED
      BY <1>f, <2>1, <2>2, <2>3, <2>4, <2>6, <3>1, <3>4, <3>n, <3>d, <3>s
  <2> QED
    BY <2>5, <2>6
<1>12. ASSUME NEW h \in Block, ScanLatestBlocks(h) PROVE Sound'
  <2> DEFINE to == Least(scan.to, h - Safe)
  <2>1. /\ scan.wants = "latest" /\ h \in scan.since .. height /\ up
        /\ UNCHANGED <<chain, database, up, writes, found, monitor, lost, bounds>>
        /\ scan' = IF to <= scan.from THEN Idle
                   ELSE [scan EXCEPT !.wants = "blocks", !.to = to]
    BY <1>12 DEF ScanLatestBlocks
  <2>2. /\ monitored /\ scan.since > Safe /\ scan.since <= height /\ scan.range <= last + 1
        /\ scan.from = last + 1 /\ scan.to <= height /\ scan.to - scan.from < Batch
    BY <2>1 DEF CycleIsSound
  <2>3. to <= scan.to /\ to \in Int
    BY <1>f, <2>1 DEF NumbersOK
  <2> HIDE DEF to
  <2>4. CASE to <= scan.from
    <3>1. scan' = Idle
      BY <2>1, <2>4
    <3>n. NumbersOK'
      BY <1>i, <2>1, <3>1 DEF NumbersOK
    <3>d. DownIsEmpty'
      BY <1>i, <2>1, <3>1 DEF DownIsEmpty
    <3>s. CycleIsSound'
      BY <1>i, <2>1, <3>1 DEF CycleIsSound, NumbersOK
    <3> QED
      BY <1>i, <2>1, <3>1, <3>n, <3>d, <3>s
  <2>5. CASE ~(to <= scan.from)
    <3>1. to \in 0 .. MaxHeight /\ to <= height
      BY <1>f, <2>2, <2>3, <2>5 DEF NumbersOK
    <3>2. scan' = [scan EXCEPT !.wants = "blocks", !.to = to]
      BY <2>1, <2>5
    <3>3. /\ scan' \in CycleType /\ scan'.wants = "blocks" /\ scan'.since = scan.since
          /\ scan'.range = scan.range /\ scan'.from = scan.from /\ scan'.to = to
      BY <3>1, <3>2 DEF CycleType
    <3>n. NumbersOK'
      BY <1>f, <2>1, <2>2, <2>3, <2>5, <3>1, <3>3 DEF NumbersOK
    <3>d. DownIsEmpty'
      BY <1>f, <2>1, <2>2, <2>3, <2>5, <3>1, <3>3 DEF DownIsEmpty
    <3>s. CycleIsSound'
      BY <1>f, <2>1, <2>2, <2>3, <2>5, <3>1, <3>3 DEF CycleIsSound, NumbersOK
    <3> QED
      BY <1>f, <2>1, <2>2, <2>3, <2>5, <3>1, <3>3, <3>n, <3>d, <3>s
  <2> QED
    BY <2>4, <2>5
<1>13. CASE ExecuteScanTask
  <2>1. /\ scan.wants = "blocks" /\ scan' = Idle /\ up
        /\ found' = found \cup {b \in paid : scan.from <= b /\ b <= scan.to}
        /\ Processed(scan.to)
        /\ UNCHANGED <<chain, database, up, current, monitored, lost, bounds>>
    BY <1>13 DEF ExecuteScanTask
  <2>2. scan.to \in 0 .. height /\ last >= 0
    BY <1>f, <2>1 DEF NumbersOK, CycleIsSound
  <2>3. \/ UNCHANGED <<last, writes, range>>
        \/ /\ scan.to > last /\ last' = scan.to /\ writes' = writes \cup {scan.to}
           /\ range' \in {0, range}
    BY <2>1, <2>2, ProcessedWrites DEF NumbersOK, CycleIsSound
  <2>4. found' \subseteq paid
    BY <2>1 DEF NumbersOK
  <2>5. last' \in 0 .. height /\ range' \in 0 .. MaxHeight
    BY <2>2, <2>3 DEF NumbersOK
  <2>6. writes' \subseteq 1 .. height
    <3>1. \/ writes' = writes
          \/ \E n \in 1 .. height : writes' = writes \cup {n}
      BY <2>2, <2>3 DEF NumbersOK
    <3> QED
      BY <3>1 DEF NumbersOK
  <2>n. NumbersOK'
    BY <1>i, <2>1, <2>2, <2>4, <2>5, <2>6 DEF NumbersOK
  <2>d. DownIsEmpty'
    BY <1>i, <2>1, <2>2, <2>3, <2>4 DEF DownIsEmpty
  <2>s. CycleIsSound'
    BY <1>i, <2>1, <2>2, <2>3, <2>4 DEF CycleIsSound, NumbersOK
  <2> QED
    BY <1>i, <2>1, <2>2, <2>3, <2>4, <2>n, <2>d, <2>s
<1>14. CASE HeightFails
  <2>1. /\ scan' = Idle /\ up /\ failures' = failures + 1
        /\ UNCHANGED <<chain, database, up, writes, found, monitored, last, current, range,
                       resumed, crashes, lost>>
    BY <1>14 DEF HeightFails, Fails
  <2>n. NumbersOK'
    BY <1>i, <2>1 DEF NumbersOK
  <2>d. DownIsEmpty'
    BY <1>i, <2>1 DEF DownIsEmpty
  <2>s. CycleIsSound'
    BY <1>i, <2>1 DEF CycleIsSound, NumbersOK
  <2> QED
    BY <1>i, <2>1, <2>n, <2>d, <2>s
<1>15. CASE LatestFails
  <2>1. /\ scan' = Idle /\ up /\ failures' = failures + 1
        /\ UNCHANGED <<chain, database, up, writes, found, monitored, last, current, range,
                       resumed, crashes, lost>>
    BY <1>15 DEF LatestFails, Fails
  <2>n. NumbersOK'
    BY <1>i, <2>1 DEF NumbersOK
  <2>d. DownIsEmpty'
    BY <1>i, <2>1 DEF DownIsEmpty
  <2>s. CycleIsSound'
    BY <1>i, <2>1 DEF CycleIsSound, NumbersOK
  <2> QED
    BY <1>i, <2>1, <2>n, <2>d, <2>s
<1>16. CASE ScanFails
  <2>1. /\ scan' = Idle /\ up /\ failures' = failures + 1
        /\ UNCHANGED <<chain, database, up, writes, found, monitored, last, current, range,
                       resumed, crashes, lost>>
    BY <1>16 DEF ScanFails, Fails
  <2>n. NumbersOK'
    BY <1>i, <2>1 DEF NumbersOK
  <2>d. DownIsEmpty'
    BY <1>i, <2>1 DEF DownIsEmpty
  <2>s. CycleIsSound'
    BY <1>i, <2>1 DEF CycleIsSound, NumbersOK
  <2> QED
    BY <1>i, <2>1, <2>n, <2>d, <2>s
<1>17. CASE Crash
  <2>1. /\ scan' = Idle /\ crashes' = crashes + 1 /\ stored' \in {stored} \cup writes
        /\ writes' = {} /\ found' = {} /\ last' = 0 /\ current' = 0 /\ range' = 0
        /\ monitored' = FALSE /\ UNCHANGED <<chain, settled, resumed, failures>>
        /\ lost' = lost \cup {b \in found : b + Depth < stored'}
    BY <1>17 DEF Crash
  <2>2. stored' \in 0 .. height
    BY <2>1 DEF NumbersOK
  <2>3. lost' \subseteq paid
    BY <2>1 DEF NumbersOK
  <2>n. NumbersOK'
    BY <1>i, <2>1, <2>2, <2>3 DEF NumbersOK
  <2>d. DownIsEmpty'
    BY <1>i, <2>1, <2>2 DEF DownIsEmpty
  <2>s. CycleIsSound'
    BY <1>i, <2>1, <2>2 DEF CycleIsSound, NumbersOK
  <2> QED
    BY <1>i, <2>1, <2>2, <2>n, <2>d, <2>s
<1>18. CASE Start
  <2> DEFINE from == IF range = 0 THEN height - Safe ELSE range
  <2>1. from \in 1 .. height
    BY <1>18 DEF Start, ReadIsSound, NumbersOK, CycleIsSound
  <2>2. /\ up' = TRUE /\ current' = height /\ last' = from - 1 /\ writes' = {from}
        /\ range' \in {0, range} /\ resumed' = height /\ scan = Idle
        /\ UNCHANGED <<chain, database, found, scan, lost, crashes, failures>>
    BY <1>18 DEF Start, DownIsEmpty, ReadIsSound
  <2>3. range' <= last' + 1
    BY <2>1, <2>2 DEF NumbersOK
  <2> HIDE DEF from
  <2>n. NumbersOK'
    BY <1>i, <2>1, <2>2 DEF NumbersOK
  <2>d. DownIsEmpty'
    BY <1>i, <2>1, <2>2 DEF DownIsEmpty
  <2>s. CycleIsSound'
    BY <1>i, <2>1, <2>2, <2>3 DEF CycleIsSound, NumbersOK
  <2> QED
    BY <1>i, <2>1, <2>2, <2>n, <2>d, <2>s
<1>19. CASE StartBlind
  <2>1. /\ up' = TRUE /\ range' \in {0, range} /\ failures' = failures + 1
        /\ UNCHANGED <<chain, database, writes, found, monitored, last, current, scan,
                       resumed, crashes, lost>>
        /\ ~monitored /\ scan = Idle
    BY <1>19 DEF StartBlind, Fails, DownIsEmpty, ReadIsSound
  <2>n. NumbersOK'
    BY <1>i, <2>1 DEF NumbersOK
  <2>d. DownIsEmpty'
    BY <1>i, <2>1 DEF DownIsEmpty
  <2>s. CycleIsSound'
    BY <1>i, <2>1 DEF CycleIsSound, NumbersOK
  <2> QED
    BY <1>i, <2>1, <2>n, <2>d, <2>s
<1>20. CASE OthersFallBehind
  <2>1. UNCHANGED <<chain, database, up, writes, found, monitored, last, current, range, scan,
                    lost, bounds>>
    BY <1>20 DEF OthersFallBehind
  <2>n. NumbersOK'
    BY <1>f, <2>1 DEF NumbersOK
  <2>d. DownIsEmpty'
    BY <1>f, <2>1 DEF DownIsEmpty
  <2>s. CycleIsSound'
    BY <1>f, <2>1 DEF CycleIsSound, NumbersOK
  <2> QED
    BY <1>f, <2>1, <2>n, <2>d, <2>s
<1>21. ASSUME NEW from \in 0 .. MaxHeight, Begin(from),
              resumed' = resumed, crashes' \in Nat, failures' \in Nat
       PROVE  Sound'
  <2>1. /\ UNCHANGED <<chain, database, up, writes, found, monitored, last, current, scan>>
        /\ range' = from /\ ~up /\ lost' \in {lost, lost \cup (paid \ settled)}
    BY <1>21 DEF Begin
  <2>2. lost' \subseteq paid
    BY <2>1 DEF NumbersOK
  <2>3. ~monitored /\ scan = Idle
    BY <2>1 DEF DownIsEmpty
  <2>n. NumbersOK'
    BY <1>21, <2>1, <2>2 DEF NumbersOK
  <2>d. DownIsEmpty'
    BY <2>1 DEF DownIsEmpty
  <2>s. CycleIsSound'
    BY <1>i, <2>1, <2>3 DEF CycleIsSound, NumbersOK
  <2> QED
    BY <1>i, <2>1, <2>3, <2>n, <2>d, <2>s
<1>22. CASE ReadProgress
  <2>1. PICK from \in IF stored = 0 THEN {0, 1} ELSE {SafeStart(stored)} : Begin(from)
    BY <1>22 DEF ReadProgress
  <2>2. from \in 0 .. MaxHeight
    BY DEF SafeStart, NumbersOK
  <2>3. resumed' = resumed /\ crashes' \in Nat /\ failures' \in Nat
    BY <1>22 DEF ReadProgress, NumbersOK
  <2> QED
    BY <1>21, <2>1, <2>2, <2>3
<1>23. CASE ReadFails
  <2>1. Begin(0) /\ resumed' = resumed /\ crashes' \in Nat /\ failures' \in Nat
    BY <1>23 DEF ReadFails, Fails, NumbersOK
  <2> QED
    BY <1>21, <2>1
<1>24. CASE UNCHANGED vars
  BY <1>f, <1>24 DEF vars, NumbersOK, DownIsEmpty, CycleIsSound
<1> QED
  BY <1>1, <1>2, <1>3, <1>4, <1>5, <1>6, <1>7, <1>8, <1>9, <1>10, <1>11, <1>12,
     <1>13, <1>14, <1>15, <1>16, <1>17, <1>18, <1>19, <1>20, <1>22, <1>23, <1>24 DEF Next, Cycle

(* A process that has read the progress is not up, and stays so until it starts. *)
LEMMA NextRead ==
  ASSUME NumbersOK, CycleIsSound, DownIsEmpty, ReadIsSound, [Next]_vars
  PROVE  ReadIsSound'
<1> USE DEF ReadIsSound, Wants, chain, database, process, monitor, bounds
<1>1. ASSUME NEW payment \in BOOLEAN, NewBlock(payment) PROVE ReadIsSound'
  BY <1>1 DEF NewBlock, NumbersOK, Block
<1>2. ASSUME NEW b \in Block, Settle(b) PROVE ReadIsSound'
  BY <1>2 DEF Settle
<1>3. CASE BindDepositAddress
  BY <1>3 DEF BindDepositAddress
<1>4. ASSUME NEW n \in Block, UpdateChainBlock(n) PROVE ReadIsSound'
  BY <1>4 DEF UpdateChainBlock
<1>5. ASSUME NEW n \in Block, UpdateFails(n) PROVE ReadIsSound'
  BY <1>5 DEF UpdateFails
<1>6. CASE OthersCatchUp
  BY <1>6 DEF OthersCatchUp
<1>7. CASE CheckRecoveryCompletion
  BY <1>7 DEF CheckRecoveryCompletion
<1>8. CASE ExecuteScanCycle
  BY <1>8 DEF ExecuteScanCycle
<1>9. ASSUME NEW h \in Block, JumpToSafe(h) PROVE ReadIsSound'
  BY <1>9 DEF JumpToSafe, Arrives
<1>10. ASSUME NEW h \in Block, RecoveryScan(h) PROVE ReadIsSound'
  BY <1>10 DEF RecoveryScan, Arrives
<1>11. ASSUME NEW h \in Block, NormalScan(h) PROVE ReadIsSound'
  BY <1>11 DEF NormalScan, Arrives
<1>12. ASSUME NEW h \in Block, ScanLatestBlocks(h) PROVE ReadIsSound'
  BY <1>12 DEF ScanLatestBlocks
<1>13. CASE ExecuteScanTask
  BY <1>13 DEF ExecuteScanTask
<1>14. CASE HeightFails
  BY <1>14 DEF HeightFails
<1>15. CASE LatestFails
  BY <1>15 DEF LatestFails
<1>16. CASE ScanFails
  BY <1>16 DEF ScanFails
<1>17. CASE Crash
  BY <1>17 DEF Crash
<1>18. CASE Start
  BY <1>18 DEF Start
<1>19. CASE StartBlind
  BY <1>19 DEF StartBlind
<1>20. CASE OthersFallBehind
  BY <1>20 DEF OthersFallBehind
<1>21. CASE ReadProgress
  <2>1. PICK from \in IF stored = 0 THEN {0, 1} ELSE {SafeStart(stored)} : Begin(from)
    BY <1>21 DEF ReadProgress
  <2>2. from <= height
    BY Limits DEF SafeStart, Most, NumbersOK, CycleIsSound, Block
  <2>3. ~up' /\ range' = from /\ height' = height /\ (recovering' <=> from # 0)
    BY <2>1 DEF Begin
  <2> QED
    BY <2>2, <2>3
<1>22. CASE ReadFails
  <2>1. ~up' /\ range' = 0 /\ height' = height /\ (recovering' <=> 0 # 0)
    BY <1>22 DEF ReadFails, Begin
  <2>2. 0 <= height
    BY DEF NumbersOK, Block
  <2> QED
    BY <2>1, <2>2
<1>23. CASE UNCHANGED vars
  BY <1>23 DEF vars
<1> QED
  BY <1>1, <1>2, <1>3, <1>4, <1>5, <1>6, <1>7, <1>8, <1>9, <1>10, <1>11, <1>12,
     <1>13, <1>14, <1>15, <1>16, <1>17, <1>18, <1>19, <1>20, <1>21, <1>22, <1>23 DEF Next, Cycle

(* Every step keeps TypeInv.                                                  *)
LEMMA NextTypeInv == TypeInv /\ [Next]_vars => TypeInv'
BY NextNumbers, NextFlags, NextRead DEF TypeInv

(* TypeInv holds in the beginning.                                            *)
LEMMA InitTypeInv == Init => TypeInv
<1> SUFFICES ASSUME Init PROVE TypeInv
  OBVIOUS
<1>1. NumbersOK /\ ReadIsSound /\ height > Safe /\ last = 0
  BY Limits DEF Init, NumbersOK, ReadIsSound, Block
<1>2. FlagsOK /\ ~monitored /\ scan = Idle /\ writes = {} /\ found = {}
  BY DEF Init, FlagsOK
<1> QED
  BY <1>1, <1>2, IdleCycle DEF TypeInv, DownIsEmpty, CycleIsSound

(* TypeOK: no step takes a height, a cycle or the progress out of its range. *)
THEOREM TypeCorrect == Spec => []TypeOK
<1>1. TypeInv => TypeOK
  BY DEF TypeInv, NumbersOK, FlagsOK, CycleType, TypeOK
<1> QED
  BY <1>1, InitTypeInv, NextTypeInv, PTL DEF Spec

-----------------------------------------------------------------------------
(* Recovery.                                                                 *)

(* A chain leaves the recovery when it has scanned the blocks of the downtime. *)
LeavesWhenComplete ==
  /\ resumed <= height
  /\ scan.wants # "nothing" => scan.since >= resumed
  /\ monitored =>
       /\ current >= resumed
       /\ ~recovering \/ synced \/ range = 0 => last + 1 >= resumed - Safe

(* The range of a chain goes, and it counts as synced, when it has caught up.  *)
LEMMA SyncedIsCaughtUp ==
  ASSUME range \in Int, NEW l \in Int, NEW c \in Int, NEW o \in BOOLEAN, UpdateSynced(l, c, o)
  PROVE  range' \in {0, range} /\ (synced' \/ range' = 0 => range = 0 \/ l >= c - Safe)
BY DEF UpdateSynced, CaughtUp

(* Every step keeps LeavesWhenComplete: the range goes at a height that is not *)
(* older than the start.                                                      *)
LEMMA NextLeaves ==
  ASSUME TypeInv, TypeInv', LeavesWhenComplete, [Next]_vars
  PROVE  LeavesWhenComplete'
<1>t. /\ height \in Int /\ last \in Int /\ current \in Int /\ range \in Int /\ resumed \in Int
      /\ scan.since \in Int /\ scan.to \in Int /\ others \in BOOLEAN
      /\ (~up => ~monitored /\ scan = Idle)
      /\ (read => ~up)
  BY FieldsOfCycle DEF TypeInv, NumbersOK, FlagsOK, Block, DownIsEmpty, ReadIsSound
<1>i. Idle.wants = "nothing"
  BY IdleCycle
<1> USE Limits DEF Block, LeavesWhenComplete, Wants, chain, database, process, monitor, bounds, Least, Most
<1>1. ASSUME NEW payment \in BOOLEAN, NewBlock(payment) PROVE LeavesWhenComplete'
  BY <1>t, <1>1 DEF NewBlock
<1>2. ASSUME NEW b \in Block, Settle(b) PROVE LeavesWhenComplete'
  BY <1>t, <1>i, <1>2 DEF Settle
<1>3. CASE BindDepositAddress
  BY <1>t, <1>i, <1>3 DEF BindDepositAddress
<1>4. ASSUME NEW n \in Block, UpdateChainBlock(n) PROVE LeavesWhenComplete'
  BY <1>t, <1>i, <1>4 DEF UpdateChainBlock
<1>5. ASSUME NEW n \in Block, UpdateFails(n) PROVE LeavesWhenComplete'
  BY <1>t, <1>i, <1>5 DEF UpdateFails, Fails
<1>6. CASE OthersCatchUp
  <2>1. UNCHANGED <<chain, recovering, monitored, last, current, scan, bounds>>
    BY <1>6 DEF OthersCatchUp
  <2>2. CASE monitored
    <3>1. UpdateSynced(last, current, TRUE)
      BY <1>6, <2>2 DEF OthersCatchUp
    <3>2. synced' \/ range' = 0 => range = 0 \/ last >= current - Safe
      BY <1>t, <3>1, SyncedIsCaughtUp
    <3> QED
      BY <1>t, <2>1, <3>1, <3>2
  <2> QED
    BY <1>t, <2>1, <2>2
<1>7. CASE CheckRecoveryCompletion
  BY <1>t, <1>i, <1>7 DEF CheckRecoveryCompletion
<1>8. CASE ExecuteScanCycle
  <2>1. scan'.since = height
    BY <1>8 DEF ExecuteScanCycle, Idle
  <2> QED
    BY <1>t, <2>1, <1>8 DEF ExecuteScanCycle
<1>9. ASSUME NEW h \in Block, JumpToSafe(h) PROVE LeavesWhenComplete'
  <2>1. /\ h >= scan.since /\ h <= height /\ scan' = Idle /\ current' = h /\ scan.wants = "height"
        /\ last' = (IF last < h - Safe THEN h - Safe ELSE last)
        /\ UNCHANGED <<chain, recovering, monitored, range, synced, bounds>>
    BY <1>t, <1>9 DEF JumpToSafe, Arrives
  <2> QED
    BY <1>t, <1>i, <2>1
<1>10. ASSUME NEW h \in Block, RecoveryScan(h) PROVE LeavesWhenComplete'
  <2> DEFINE goal == IF Most(last + 1, scan.range) <= UpTo(Most(last + 1, scan.range), h)
                     THEN h - Safe ELSE last
  <2>1. /\ h >= scan.since /\ h <= height /\ current' = h /\ scan.wants = "height"
        /\ UNCHANGED <<chain, recovering, monitored, others, bounds>>
    BY <1>t, <1>10 DEF RecoveryScan, Arrives
  <2>2. goal \in Int
    BY <1>t
  <2>3. UNCHANGED <<last, synced, range>> \/ Processed(goal)
    BY <1>10 DEF RecoveryScan
  <2>4. scan' = Idle \/ scan'.since = scan.since
    BY <1>10 DEF RecoveryScan, TypeInv, CycleType
  <2> HIDE DEF goal
  <2>5. CASE UNCHANGED <<last, synced, range>>
    BY <1>t, <1>i, <2>1, <2>4, <2>5
  <2>6. CASE goal > last /\ last' = goal /\ UpdateSynced(goal, h, others)
    <3>1. synced' \/ range' = 0 => range = 0 \/ goal >= h - Safe
      BY <1>t, <2>1, <2>2, <2>6, SyncedIsCaughtUp
    <3> QED
      BY <1>t, <1>i, <2>1, <2>2, <2>4, <2>6, <3>1
  <2> QED
    BY <1>t, <2>1, <2>2, <2>3, <2>5, <2>6 DEF Processed
<1>11. ASSUME NEW h \in Block, NormalScan(h) PROVE LeavesWhenComplete'
  <2>1. /\ h >= scan.since /\ h <= height /\ current' = h /\ scan.wants = "height"
        /\ UNCHANGED <<chain, recovering, monitored, last, synced, range, bounds>>
    BY <1>t, <1>11 DEF NormalScan, Arrives
  <2>2. scan' = Idle \/ scan'.since = scan.since
    BY <1>11 DEF NormalScan, TypeInv, CycleType
  <2> QED
    BY <1>t, <1>i, <2>1, <2>2
<1>12. ASSUME NEW h \in Block, ScanLatestBlocks(h) PROVE LeavesWhenComplete'
  <2>1. /\ scan.wants = "latest"
        /\ UNCHANGED <<chain, recovering, monitor, bounds>>
    BY <1>12 DEF ScanLatestBlocks
  <2>2. scan' = Idle \/ scan'.since = scan.since
    BY <1>12 DEF ScanLatestBlocks, TypeInv, CycleType
  <2> QED
    BY <1>t, <1>i, <2>1, <2>2
<1>13. CASE ExecuteScanTask
  <2>1. /\ scan' = Idle /\ Processed(scan.to)
        /\ UNCHANGED <<chain, recovering, current, monitored, others, bounds>>
    BY <1>13 DEF ExecuteScanTask
  <2>2. CASE UNCHANGED <<last, synced, range>>
    BY <1>t, <1>i, <2>1, <2>2
  <2>3. CASE scan.to > last /\ last' = scan.to /\ UpdateSynced(scan.to, current, others)
    <3>1. range' \in {0, range} /\ (synced' \/ range' = 0 => range = 0 \/ scan.to >= current - Safe)
      BY <1>t, <2>3, SyncedIsCaughtUp
    <3> QED
      BY <1>t, <1>i, <2>1, <2>3, <3>1
  <2> QED
    BY <1>t, <2>1, <2>2, <2>3 DEF Processed
<1>14. CASE HeightFails
  BY <1>t, <1>i, <1>14 DEF HeightFails, Fails
<1>15. CASE LatestFails
  BY <1>t, <1>i, <1>15 DEF LatestFails, Fails
<1>16. CASE ScanFails
  BY <1>t, <1>i, <1>16 DEF ScanFails, Fails
<1>17. CASE Crash
  BY <1>t, <1>i, <1>17 DEF Crash
<1>18. CASE Start
  <2> DEFINE from == IF range = 0 THEN height - Safe ELSE range
  <2>1. /\ recovering' = recovering /\ last' = from - 1 /\ current' = height
        /\ resumed' = height /\ scan' = Idle /\ height' = height
    BY <1>t, <1>18 DEF Start
  <2>2. synced' = (others' /\ (range = 0 \/ from - 1 >= height - Safe))
    BY <1>18 DEF Start
  <2>3. range' = IF synced' THEN 0 ELSE range
    BY <1>18 DEF Start
  <2>4. recovering <=> range # 0
    BY <1>18 DEF Start, TypeInv, ReadIsSound
  <2>5. ~recovering' \/ synced' \/ range' = 0 => last' + 1 >= resumed' - Safe
    <3>1. CASE range = 0
      BY <1>t, <2>1, <3>1
    <3>2. CASE range # 0
      <4>1. recovering' /\ (~synced' => range' # 0)
        BY <2>1, <2>3, <2>4, <3>2
      <4>2. synced' => from - 1 >= height - Safe
        BY <2>2, <3>2
      <4>3. synced' => last' + 1 >= resumed' - Safe
        BY <1>t, <2>1, <3>2, <4>2
      <4> QED
        BY <4>1, <4>3
    <3> QED
      BY <3>1, <3>2
  <2> QED
    BY <1>t, <1>i, <2>1, <2>5
<1>19. CASE StartBlind
  BY <1>t, <1>i, <1>19 DEF StartBlind, Fails
<1>20. CASE OthersFallBehind
  BY <1>t, <1>i, <1>20 DEF OthersFallBehind
<1>21. CASE ReadProgress
  BY <1>t, <1>i, <1>21 DEF ReadProgress, Begin
<1>22. CASE ReadFails
  BY <1>t, <1>i, <1>22 DEF ReadFails, Begin, Fails
<1>23. CASE UNCHANGED vars
  BY <1>t, <1>i, <1>23 DEF vars
<1> QED
  BY <1>1, <1>2, <1>3, <1>4, <1>5, <1>6, <1>7, <1>8, <1>9, <1>10, <1>11, <1>12,
     <1>13, <1>14, <1>15, <1>16, <1>17, <1>18, <1>19, <1>20, <1>21, <1>22, <1>23 DEF Next, Cycle

(* RecoveryIsComplete: however heights, batches, failures and the other chains  *)
(* interleave, recovery ends for a chain only when it has scanned the blocks of  *)
(* the downtime.                                                                 *)
THEOREM RecoveryCompletes == Spec => []RecoveryIsComplete
<1>1. Init => LeavesWhenComplete
  BY IdleCycle DEF Init, LeavesWhenComplete
<1>2. LeavesWhenComplete => RecoveryIsComplete
  BY DEF LeavesWhenComplete, RecoveryIsComplete
<1>3. TypeInv /\ TypeInv' /\ LeavesWhenComplete /\ [Next]_vars => LeavesWhenComplete'
  BY NextLeaves
<1> QED
  BY <1>1, <1>2, <1>3, InitTypeInv, NextTypeInv, PTL DEF Spec

-----------------------------------------------------------------------------
(* Payments.                                                                  *)

(* The payments that are neither confirmed nor given up.                      *)
Open == paid \ (settled \cup lost)

(* Only a bound address is paid.                                              *)
PaidIsBound == paid # {} => bound

(* A process that does not watch the address has no open payment to it.       *)
OpenIsWatched == (up \/ read) /\ ~watched => Open = {}

(* A cycle without targets has begun before any open payment.                 *)
CycleKnowsTargets ==
  scan.wants # "nothing" /\ ~scan.targets => \A b \in Open : b > scan.since

(* The heights a cycle reads are at most Safe blocks old.                      *)
HeightsAreFresh ==
  scan.wants \in {"height", "latest"} => height <= scan.since + Safe

(* What makes the jump of a cycle without targets safe.                        *)
CycleInv ==
  /\ PaidIsBound
  /\ OpenIsWatched
  /\ CycleKnowsTargets
  /\ HeightsAreFresh

(* Whatever progress is written or being written, the start after it goes back   *)
(* to every open payment that memory does not know.                            *)
RestartReaches ==
  \A b \in Open \ found : \A n \in {stored} \cup writes : b >= n - Depth

(* A process that recovers begins no later than the first open payment, and one   *)
(* that does not has no targets.                                               *)
ReadGoesBack ==
  read => /\ range = 0 => ~watched
          /\ range # 0 => \A b \in Open : b >= range

(* A cycle without targets jumps over no open payment.                         *)
LEMMA JumpSkipsNothing ==
  ASSUME TypeInv, CycleInv, NEW h \in scan.since .. height,
         scan.wants = "height", ~scan.targets
  PROVE  \A b \in Open : b > h - Safe
<1>1. scan.since \in Int /\ height \in Int /\ Open \subseteq Int
  BY FieldsOfCycle DEF TypeInv, NumbersOK, Block, Open
<1>2. height <= scan.since + Safe /\ \A b \in Open : b > scan.since
  BY DEF CycleInv, CycleKnowsTargets, HeightsAreFresh
<1> QED
  BY <1>1, <1>2, Limits

(* The open payments after a step: a new one is watched or the process is down.   *)
LEMMA NextOpen ==
  ASSUME TypeInv, [Next]_vars
  PROVE  \/ Open' \subseteq Open
         \/ /\ height' = height + 1 /\ Open' \subseteq Open \cup {height'}
            /\ (up \/ read => watched)
            /\ UNCHANGED <<database, process, found, writes, scan, monitor>>
<1> DEFINE Grows == /\ height' = height + 1 /\ Open' \subseteq Open \cup {height'}
                    /\ (up \/ read => watched)
                    /\ UNCHANGED <<database, process, found, writes, scan, monitor>>
<1> SUFFICES Open' \subseteq Open \/ Grows
  OBVIOUS
<1> USE DEF Open, Wants, chain, database, process, monitor, bounds
<1>1. ASSUME NEW payment \in BOOLEAN, NewBlock(payment) PROVE Open' \subseteq Open \/ Grows
  <2>1. /\ height' = height + 1 /\ paid' \subseteq paid \cup {height'}
        /\ lost \subseteq lost'
        /\ UNCHANGED <<database, process, found, writes, scan, monitor>>
    BY <1>1 DEF NewBlock
  <2>2. CASE payment /\ (up \/ read) /\ ~watched
    <3>1. height' \in lost' /\ settled' = settled
      BY <1>1, <2>2 DEF NewBlock
    <3> QED
      BY <2>1, <3>1
  <2>3. CASE payment /\ ~((up \/ read) /\ ~watched)
    BY <2>1, <2>3
  <2>4. CASE ~payment
    <3>1. paid' = paid
      BY <1>1, <2>4 DEF NewBlock
    <3> QED
      BY <2>1, <3>1
  <2> QED
    BY <2>2, <2>3, <2>4
<1>2. ASSUME NEW b \in Block, Settle(b) PROVE Open' \subseteq Open \/ Grows
  BY <1>2 DEF Settle
<1>3. CASE BindDepositAddress
  BY <1>3 DEF BindDepositAddress
<1>4. ASSUME NEW n \in Block, UpdateChainBlock(n) PROVE Open' \subseteq Open \/ Grows
  BY <1>4 DEF UpdateChainBlock
<1>5. ASSUME NEW n \in Block, UpdateFails(n) PROVE Open' \subseteq Open \/ Grows
  BY <1>5 DEF UpdateFails, Fails
<1>6. CASE OthersCatchUp
  BY <1>6 DEF OthersCatchUp
<1>7. CASE CheckRecoveryCompletion
  BY <1>7 DEF CheckRecoveryCompletion
<1>8. CASE ExecuteScanCycle
  BY <1>8 DEF ExecuteScanCycle
<1>9. ASSUME NEW h \in Block, JumpToSafe(h) PROVE Open' \subseteq Open \/ Grows
  BY <1>9 DEF JumpToSafe, Arrives
<1>10. ASSUME NEW h \in Block, RecoveryScan(h) PROVE Open' \subseteq Open \/ Grows
  BY <1>10 DEF RecoveryScan, Arrives
<1>11. ASSUME NEW h \in Block, NormalScan(h) PROVE Open' \subseteq Open \/ Grows
  BY <1>11 DEF NormalScan, Arrives
<1>12. ASSUME NEW h \in Block, ScanLatestBlocks(h) PROVE Open' \subseteq Open \/ Grows
  BY <1>12 DEF ScanLatestBlocks
<1>13. CASE ExecuteScanTask
  BY <1>13 DEF ExecuteScanTask
<1>14. CASE HeightFails
  BY <1>14 DEF HeightFails, Fails
<1>15. CASE LatestFails
  BY <1>15 DEF LatestFails, Fails
<1>16. CASE ScanFails
  BY <1>16 DEF ScanFails, Fails
<1>17. CASE Crash
  BY <1>17 DEF Crash
<1>18. CASE Start
  BY <1>18 DEF Start
<1>19. CASE StartBlind
  BY <1>19 DEF StartBlind, Fails
<1>20. CASE OthersFallBehind
  BY <1>20 DEF OthersFallBehind
<1>21. CASE ReadProgress
  <2>1. PICK from \in IF stored = 0 THEN {0, 1} ELSE {SafeStart(stored)} : Begin(from)
    BY <1>21 DEF ReadProgress
  <2>2. paid' = paid /\ settled' = settled /\ lost \subseteq lost'
    BY <2>1 DEF Begin
  <2> QED
    BY <2>2
<1>22. CASE ReadFails
  <2>1. paid' = paid /\ settled' = settled /\ lost \subseteq lost'
    BY <1>22 DEF ReadFails, Begin
  <2> QED
    BY <2>1
<1>23. CASE UNCHANGED vars
  BY <1>23 DEF vars
<1> QED
  BY <1>1, <1>2, <1>3, <1>4, <1>5, <1>6, <1>7, <1>8, <1>9, <1>10, <1>11, <1>12, <1>13, <1>14, <1>15, <1>16, <1>17, <1>18, <1>19, <1>20, <1>21, <1>22, <1>23 DEF Next, Cycle

(* Every step keeps CycleInv: the chain grows only while the heights of the cycle *)
(* stay fresh, and an address that is not watched is given up.                *)
LEMMA NextCycleInv ==
  ASSUME RequestsAreQuick, TypeInv, CycleInv, [Next]_vars
  PROVE  CycleInv'
<1>t. /\ height \in Int /\ Open \subseteq Int
      /\ scan.since \in Int /\ bound \in BOOLEAN /\ watched \in BOOLEAN
      /\ (~up => scan = Idle) /\ (read => ~up)
      /\ (scan.wants # "nothing" => scan.since <= height)
  BY FieldsOfCycle
     DEF TypeInv, NumbersOK, FlagsOK, Block, DownIsEmpty, ReadIsSound, CycleIsSound, Open
<1>i. Idle.wants = "nothing"
  BY IdleCycle
<1>o. \/ Open' \subseteq Open
      \/ /\ height' = height + 1 /\ Open' \subseteq Open \cup {height'}
         /\ (up \/ read => watched)
         /\ UNCHANGED <<database, process, found, writes, scan, monitor>>
  BY NextOpen
<1> USE Limits DEF CycleInv, PaidIsBound, OpenIsWatched, CycleKnowsTargets, HeightsAreFresh,
                   Wants, chain, database, process, monitor, bounds
<1>1. ASSUME NEW payment \in BOOLEAN, NewBlock(payment) PROVE CycleInv'
  <2>1. /\ (paid' = paid \/ bound) /\ height' = height + 1
        /\ (scan.wants \in {"height", "latest"} => height < scan.since + Safe)
        /\ UNCHANGED <<bound, up, read, watched, scan>>
    BY <1>1 DEF NewBlock
  <2>2. OpenIsWatched'
    BY <1>o, <2>1
  <2>3. CycleKnowsTargets'
    <3> SUFFICES ASSUME scan.wants # "nothing", ~scan.targets, NEW b \in Open'
                 PROVE  b > scan.since
      BY <2>1
    <3>1. b \in Open => b > scan.since
      OBVIOUS
    <3>2. height + 1 > scan.since
      BY <1>t
    <3>3. b \in Open \/ b = height + 1
      BY <1>o, <2>1
    <3> QED
      BY <3>1, <3>2, <3>3
  <2>4. HeightsAreFresh'
    <3>1. scan.wants \in {"height", "latest"} => height + 1 <= scan.since + Safe
      BY <1>t, <2>1
    <3> QED
      BY <2>1, <3>1
  <2>5. PaidIsBound'
    BY <2>1
  <2> QED
    BY <2>2, <2>3, <2>4, <2>5
<1>2. ASSUME NEW b \in Block, Settle(b) PROVE CycleInv'
  <2>1. UNCHANGED <<height, paid, bound, up, read, watched, scan>>
    BY <1>2 DEF Settle
  <2>2. Open' \subseteq Open
    BY <1>t, <1>o, <2>1
  <2> QED
    BY <2>1, <2>2
<1>3. CASE BindDepositAddress
  BY <1>t, <1>i, <1>o, <1>3 DEF BindDepositAddress
<1>4. ASSUME NEW n \in Block, UpdateChainBlock(n) PROVE CycleInv'
  BY <1>t, <1>i, <1>o, <1>4 DEF UpdateChainBlock
<1>5. ASSUME NEW n \in Block, UpdateFails(n) PROVE CycleInv'
  BY <1>t, <1>i, <1>o, <1>5 DEF UpdateFails, Fails
<1>6. CASE OthersCatchUp
  BY <1>t, <1>i, <1>o, <1>6 DEF OthersCatchUp
<1>7. CASE CheckRecoveryCompletion
  BY <1>t, <1>i, <1>o, <1>7 DEF CheckRecoveryCompletion
<1>8. CASE ExecuteScanCycle
  <2>1. /\ scan'.wants = "height" /\ scan'.targets = watched /\ scan'.since = height
        /\ UNCHANGED <<chain, database, up, read, watched>> /\ up
    BY <1>8 DEF ExecuteScanCycle, Idle
  <2>2. Open' \subseteq Open
    BY <1>t, <1>o, <2>1
  <2>3. OpenIsWatched'
    BY <2>1, <2>2
  <2>4. CycleKnowsTargets'
    BY <2>1, <2>2
  <2>5. HeightsAreFresh' /\ PaidIsBound'
    BY <1>t, <2>1
  <2> QED
    BY <2>3, <2>4, <2>5
<1>9. ASSUME NEW h \in Block, JumpToSafe(h) PROVE CycleInv'
  BY <1>t, <1>i, <1>o, <1>9 DEF JumpToSafe, Arrives
<1>10. ASSUME NEW h \in Block, RecoveryScan(h) PROVE CycleInv'
  <2>1. UNCHANGED <<height, paid, bound, up, read, watched>>
    BY <1>10 DEF RecoveryScan, Arrives
  <2>2. scan' = Idle \/ /\ scan'.since = scan.since /\ scan'.targets = scan.targets
                        /\ scan.wants \in {"height", "latest"}
    BY <1>10 DEF RecoveryScan, Arrives, TypeInv, CycleType
  <2>3. Open' \subseteq Open
    BY <1>t, <1>o, <2>1
  <2>4. OpenIsWatched'
    BY <2>1, <2>3
  <2>5. CycleKnowsTargets'
    BY <1>i, <2>2, <2>3
  <2>6. HeightsAreFresh' /\ PaidIsBound'
    BY <1>i, <2>1, <2>2
  <2> QED
    BY <2>4, <2>5, <2>6
<1>11. ASSUME NEW h \in Block, NormalScan(h) PROVE CycleInv'
  <2>1. UNCHANGED <<height, paid, bound, up, read, watched>>
    BY <1>11 DEF NormalScan, Arrives
  <2>2. scan' = Idle \/ /\ scan'.since = scan.since /\ scan'.targets = scan.targets
                        /\ scan.wants \in {"height", "latest"}
    BY <1>11 DEF NormalScan, Arrives, TypeInv, CycleType
  <2>3. Open' \subseteq Open
    BY <1>t, <1>o, <2>1
  <2>4. OpenIsWatched'
    BY <2>1, <2>3
  <2>5. CycleKnowsTargets'
    BY <1>i, <2>2, <2>3
  <2>6. HeightsAreFresh' /\ PaidIsBound'
    BY <1>i, <2>1, <2>2
  <2> QED
    BY <2>4, <2>5, <2>6
<1>12. ASSUME NEW h \in Block, ScanLatestBlocks(h) PROVE CycleInv'
  <2>1. UNCHANGED <<height, paid, bound, up, read, watched>>
    BY <1>12 DEF ScanLatestBlocks
  <2>2. scan' = Idle \/ /\ scan'.since = scan.since /\ scan'.targets = scan.targets
                        /\ scan.wants \in {"height", "latest"}
    BY <1>12 DEF ScanLatestBlocks, TypeInv, CycleType
  <2>3. Open' \subseteq Open
    BY <1>t, <1>o, <2>1
  <2>4. OpenIsWatched'
    BY <2>1, <2>3
  <2>5. CycleKnowsTargets'
    BY <1>i, <2>2, <2>3
  <2>6. HeightsAreFresh' /\ PaidIsBound'
    BY <1>i, <2>1, <2>2
  <2> QED
    BY <2>4, <2>5, <2>6
<1>13. CASE ExecuteScanTask
  BY <1>t, <1>i, <1>o, <1>13 DEF ExecuteScanTask
<1>14. CASE HeightFails
  BY <1>t, <1>i, <1>o, <1>14 DEF HeightFails, Fails
<1>15. CASE LatestFails
  BY <1>t, <1>i, <1>o, <1>15 DEF LatestFails, Fails
<1>16. CASE ScanFails
  BY <1>t, <1>i, <1>o, <1>16 DEF ScanFails, Fails
<1>17. CASE Crash
  BY <1>t, <1>i, <1>o, <1>17 DEF Crash
<1>18. CASE Start
  BY <1>t, <1>i, <1>o, <1>18 DEF Start
<1>19. CASE StartBlind
  BY <1>t, <1>i, <1>o, <1>19 DEF StartBlind, Fails
<1>20. CASE OthersFallBehind
  BY <1>t, <1>i, <1>o, <1>20 DEF OthersFallBehind
<1>21. CASE ReadProgress
  <2>1. PICK from : Begin(from)
    BY <1>21 DEF ReadProgress
  <2>2. /\ UNCHANGED <<chain, bound, settled, scan>> /\ ~up
        /\ watched' = (bound /\ from # 0)
        /\ lost' = IF from = 0 THEN lost \cup (paid \ settled) ELSE lost
    BY <2>1 DEF Begin
  <2>3. ~watched' => Open' = {}
    <3>1. CASE from = 0
      <4>1. lost' = lost \cup (paid \ settled)
        BY <2>2, <3>1
      <4> QED
        BY <2>2, <4>1 DEF Open
    <3>2. CASE from # 0
      <4>1. ~watched' => paid = {}
        BY <1>t, <2>2, <3>2
      <4> QED
        BY <2>2, <4>1 DEF Open
    <3> QED
      BY <3>1, <3>2
  <2>4. OpenIsWatched'
    BY <2>3
  <2>5. CycleKnowsTargets' /\ HeightsAreFresh' /\ PaidIsBound'
    BY <1>t, <1>i, <2>2
  <2> QED
    BY <2>4, <2>5
<1>22. CASE ReadFails
  <2>1. PICK from : Begin(from)
    BY <1>22 DEF ReadFails
  <2>2. /\ UNCHANGED <<chain, bound, settled, scan>> /\ ~up
        /\ watched' = (bound /\ from # 0)
        /\ lost' = IF from = 0 THEN lost \cup (paid \ settled) ELSE lost
    BY <2>1 DEF Begin
  <2>3. ~watched' => Open' = {}
    <3>1. CASE from = 0
      <4>1. lost' = lost \cup (paid \ settled)
        BY <2>2, <3>1
      <4> QED
        BY <2>2, <4>1 DEF Open
    <3>2. CASE from # 0
      <4>1. ~watched' => paid = {}
        BY <1>t, <2>2, <3>2
      <4> QED
        BY <2>2, <4>1 DEF Open
    <3> QED
      BY <3>1, <3>2
  <2>4. OpenIsWatched'
    BY <2>3
  <2>5. CycleKnowsTargets' /\ HeightsAreFresh' /\ PaidIsBound'
    BY <1>t, <1>i, <2>2
  <2> QED
    BY <2>4, <2>5
<1>23. CASE UNCHANGED vars
  <2>1. UNCHANGED <<height, paid, bound, up, read, watched, scan>>
    BY <1>23 DEF vars
  <2>2. Open' \subseteq Open
    BY <1>t, <1>o, <2>1
  <2> QED
    BY <2>1, <2>2
<1> QED
  BY <1>1, <1>2, <1>3, <1>4, <1>5, <1>6, <1>7, <1>8, <1>9, <1>10, <1>11, <1>12, <1>13, <1>14, <1>15, <1>16, <1>17, <1>18, <1>19, <1>20, <1>21, <1>22, <1>23 DEF Next, Cycle

(* The progress of a chain passes only blocks in which nothing is left to find. *)
Passed == up /\ monitored => \A b \in Open : b \in found \/ b > last

(* Every step keeps it: a jump passes nothing, a scan hands over what it passes,  *)
(* and a start goes back far enough.                                          *)
LEMMA NextPassed ==
  ASSUME TypeInv, CycleInv, ReadGoesBack, Passed, [Next]_vars
  PROVE  Passed'
<1>t. /\ height \in Int /\ Open \subseteq Int /\ last \in Int /\ last <= height
      /\ stored \in Int /\ stored <= height
      /\ (~up => ~monitored /\ found = {} /\ writes = {}) /\ (read => ~up)
      /\ (\A b \in Open : b >= 1) /\ (\A n \in writes : n \in Int /\ n <= height)
  BY DEF TypeInv, NumbersOK, Block, DownIsEmpty, ReadIsSound, Open
<1>o. \/ Open' \subseteq Open
      \/ /\ height' = height + 1 /\ Open' \subseteq Open \cup {height'}
         /\ (up \/ read => watched)
         /\ UNCHANGED <<database, process, found, writes, scan, monitor>>
  BY NextOpen
<1>d. \A n \in {stored} \cup writes : n - Depth <= height
  BY <1>t, Limits
<1> USE Limits DEF Passed, Wants, chain, database, process, monitor, bounds
<1>1. ASSUME NEW payment \in BOOLEAN, NewBlock(payment) PROVE Passed'
  <2>1. height' = height + 1 /\ UNCHANGED <<up, monitored, last, found>>
    BY <1>1 DEF NewBlock
  <2>2. \A b \in Open' : b \in Open \/ b > last
    BY <1>t, <1>o, <2>1
  <2> QED
    BY <2>1, <2>2
<1>2. ASSUME NEW b \in Block, Settle(b) PROVE Passed'
  <2>1. /\ UNCHANGED <<height, up, monitored, last, lost, paid>>
        /\ found' = found \ {b} /\ settled' = settled \cup {b}
    BY <1>2 DEF Settle
  <2>2. Open' = Open \ {b}
    BY <2>1 DEF Open
  <2> QED
    BY <2>1, <2>2
<1>3. CASE BindDepositAddress
  <2>1. UNCHANGED <<height, up, monitored, last, found>>
    BY <1>3 DEF BindDepositAddress
  <2>2. Open' \subseteq Open
    BY <1>t, <1>o, <2>1
  <2> QED
    BY <2>1, <2>2
<1>4. ASSUME NEW n \in Block, UpdateChainBlock(n) PROVE Passed'
  <2>1. UNCHANGED <<height, up, monitored, last, found>>
    BY <1>4 DEF UpdateChainBlock
  <2>2. Open' \subseteq Open
    BY <1>t, <1>o, <2>1
  <2> QED
    BY <2>1, <2>2
<1>5. ASSUME NEW n \in Block, UpdateFails(n) PROVE Passed'
  <2>1. UNCHANGED <<height, up, monitored, last, found>>
    BY <1>5 DEF UpdateFails, Fails
  <2>2. Open' \subseteq Open
    BY <1>t, <1>o, <2>1
  <2> QED
    BY <2>1, <2>2
<1>6. CASE OthersCatchUp
  <2>1. UNCHANGED <<height, up, monitored, last, found>>
    BY <1>6 DEF OthersCatchUp
  <2>2. Open' \subseteq Open
    BY <1>t, <1>o, <2>1
  <2> QED
    BY <2>1, <2>2
<1>7. CASE CheckRecoveryCompletion
  <2>1. UNCHANGED <<height, up, monitored, last, found>>
    BY <1>7 DEF CheckRecoveryCompletion
  <2>2. Open' \subseteq Open
    BY <1>t, <1>o, <2>1
  <2> QED
    BY <2>1, <2>2
<1>8. CASE ExecuteScanCycle
  <2>1. UNCHANGED <<height, up, monitored, last, found>>
    BY <1>8 DEF ExecuteScanCycle
  <2>2. Open' \subseteq Open
    BY <1>t, <1>o, <2>1
  <2> QED
    BY <2>1, <2>2
<1>9. ASSUME NEW h \in Block, JumpToSafe(h) PROVE Passed'
  <2>1. /\ UNCHANGED <<height, up, found, monitored>>
        /\ last' = (IF last < h - Safe THEN h - Safe ELSE last)
        /\ h \in scan.since .. height /\ scan.wants = "height" /\ ~scan.targets
    BY <1>9 DEF JumpToSafe, Arrives, Most
  <2>2. \A b \in Open : b > h - Safe
    BY <2>1, JumpSkipsNothing
  <2>3. Open' \subseteq Open
    BY <1>t, <1>o, <2>1
  <2> QED
    BY <1>t, <2>1, <2>2, <2>3
<1>10. ASSUME NEW h \in Block, RecoveryScan(h) PROVE Passed'
  <2> DEFINE from == Most(last + 1, scan.range)
             to == UpTo(from, h)
  <2>1. /\ UNCHANGED <<height, up, found, monitored>>
        /\ h \in scan.since .. height /\ scan.wants = "height"
    BY <1>10 DEF RecoveryScan, Arrives
  <2>2. Open' \subseteq Open
    BY <1>t, <1>o, <2>1
  <2>3. CASE from <= to /\ ~scan.targets
    <3>1. Processed(h - Safe)
      BY <1>10, <2>3 DEF RecoveryScan
    <3>2. last' \in {last, h - Safe}
      BY <3>1 DEF Processed
    <3>3. \A b \in Open : b > h - Safe
      BY <2>1, <2>3, JumpSkipsNothing
    <3> QED
      BY <1>t, <2>1, <2>2, <3>2, <3>3
  <2>4. CASE ~(from <= to /\ ~scan.targets)
    <3>1. last' = last
      BY <1>10, <2>4 DEF RecoveryScan, Processed
    <3> QED
      BY <2>1, <2>2, <3>1
  <2> QED
    BY <2>3, <2>4
<1>11. ASSUME NEW h \in Block, NormalScan(h) PROVE Passed'
  <2>1. UNCHANGED <<height, up, monitored, last, found>>
    BY <1>11 DEF NormalScan, Arrives
  <2>2. Open' \subseteq Open
    BY <1>t, <1>o, <2>1
  <2> QED
    BY <2>1, <2>2
<1>12. ASSUME NEW h \in Block, ScanLatestBlocks(h) PROVE Passed'
  <2>1. UNCHANGED <<height, up, monitored, last, found>>
    BY <1>12 DEF ScanLatestBlocks
  <2>2. Open' \subseteq Open
    BY <1>t, <1>o, <2>1
  <2> QED
    BY <2>1, <2>2
<1>13. CASE ExecuteScanTask
  <2>1. /\ UNCHANGED <<height, paid, up, monitored>> /\ last' \in {last, scan.to}
        /\ found' = found \cup {b \in paid : scan.from <= b /\ b <= scan.to}
        /\ scan.wants = "blocks"
    BY <1>13 DEF ExecuteScanTask, Processed
  <2>2. scan.from = last + 1 /\ scan.to \in Int
    BY <2>1, FieldsOfCycle DEF TypeInv, CycleIsSound
  <2>h. height' = height
    BY <2>1
  <2>3. Open' \subseteq Open
    BY <1>t, <1>o, <2>h
  <2>4. ASSUME NEW b \in Open
        PROVE  b \in found' \/ b < scan.from \/ b > scan.to
    <3>1. b \in paid
      BY DEF Open
    <3>2. b \in Int
      BY <1>t
    <3>3. b < scan.from \/ b > scan.to \/ (scan.from <= b /\ b <= scan.to)
      BY <1>t, <2>2, <3>2
    <3> QED
      BY <2>1, <3>1, <3>3
  <2>5. up /\ monitored => \A b \in Open : b \in found' \/ b > last'
    BY <1>t, <2>1, <2>2, <2>4
  <2> QED
    BY <2>1, <2>3, <2>5
<1>14. CASE HeightFails
  <2>1. UNCHANGED <<height, up, monitored, last, found>>
    BY <1>14 DEF HeightFails, Fails
  <2>2. Open' \subseteq Open
    BY <1>t, <1>o, <2>1
  <2> QED
    BY <2>1, <2>2
<1>15. CASE LatestFails
  <2>1. UNCHANGED <<height, up, monitored, last, found>>
    BY <1>15 DEF LatestFails, Fails
  <2>2. Open' \subseteq Open
    BY <1>t, <1>o, <2>1
  <2> QED
    BY <2>1, <2>2
<1>16. CASE ScanFails
  <2>1. UNCHANGED <<height, up, monitored, last, found>>
    BY <1>16 DEF ScanFails, Fails
  <2>2. Open' \subseteq Open
    BY <1>t, <1>o, <2>1
  <2> QED
    BY <2>1, <2>2
<1>17. CASE Crash
  BY <1>17 DEF Crash
<1>18. CASE Start
  <2> DEFINE from == IF range = 0 THEN height - Safe ELSE range
  <2>1. read /\ height' = height /\ last' = from - 1
    BY <1>18 DEF Start
  <2>h. height' = height
    BY <2>1
  <2>2. Open' \subseteq Open
    BY <1>t, <1>o, <2>h
  <2>3. CASE range = 0
    <3>1. Open = {}
      BY <2>1, <2>3 DEF ReadGoesBack, CycleInv, OpenIsWatched
    <3> QED
      BY <2>2, <3>1
  <2>4. CASE range # 0
    <3>1. \A b \in Open : b >= range
      BY <2>1, <2>4 DEF ReadGoesBack
    <3>2. last' = range - 1 /\ range \in Int
      BY <2>1, <2>4 DEF TypeInv, NumbersOK
    <3> QED
      BY <1>t, <2>2, <3>1, <3>2
  <2> QED
    BY <2>3, <2>4
<1>19. CASE StartBlind
  <2>1. ~up /\ monitored' = monitored
    BY <1>t, <1>19 DEF StartBlind
  <2> QED
    BY <1>t, <2>1
<1>20. CASE OthersFallBehind
  <2>1. UNCHANGED <<height, up, monitored, last, found>>
    BY <1>20 DEF OthersFallBehind
  <2>2. Open' \subseteq Open
    BY <1>t, <1>o, <2>1
  <2> QED
    BY <2>1, <2>2
<1>21. CASE ReadProgress
  <2>1. ~up /\ up' = up
    BY <1>21 DEF ReadProgress, Begin
  <2> QED
    BY <2>1
<1>22. CASE ReadFails
  <2>1. ~up /\ up' = up
    BY <1>22 DEF ReadFails, Begin
  <2> QED
    BY <2>1
<1>23. CASE UNCHANGED vars
  <2>1. UNCHANGED <<height, up, monitored, last, found>>
    BY <1>23 DEF vars
  <2>2. Open' \subseteq Open
    BY <1>t, <1>o, <2>1
  <2> QED
    BY <2>1, <2>2
<1> QED
  BY <1>1, <1>2, <1>3, <1>4, <1>5, <1>6, <1>7, <1>8, <1>9, <1>10, <1>11, <1>12, <1>13, <1>14, <1>15, <1>16, <1>17, <1>18, <1>19, <1>20, <1>21, <1>22, <1>23 DEF Next, Cycle

(* Every step keeps RestartReaches: what a cycle writes as progress lies before all *)
(* that is left to find, and what a crash forgets is near the progress or given up. *)
LEMMA NextRestartReaches ==
  ASSUME TypeInv, CycleInv, ReadGoesBack, Passed, RestartReaches, [Next]_vars
  PROVE  RestartReaches'
<1>t. /\ height \in Int /\ Open \subseteq Int /\ last \in Int /\ last <= height
      /\ stored \in Int /\ stored <= height
      /\ (~up => ~monitored /\ found = {} /\ writes = {}) /\ (read => ~up)
      /\ (\A b \in Open : b >= 1) /\ (\A n \in writes : n \in Int /\ n <= height)
  BY DEF TypeInv, NumbersOK, Block, DownIsEmpty, ReadIsSound, Open
<1>o. \/ Open' \subseteq Open
      \/ /\ height' = height + 1 /\ Open' \subseteq Open \cup {height'}
         /\ (up \/ read => watched)
         /\ UNCHANGED <<database, process, found, writes, scan, monitor>>
  BY NextOpen
<1>d. \A n \in {stored} \cup writes : n - Depth <= height
  BY <1>t, Limits
<1> USE Limits DEF RestartReaches, Wants, chain, database, process, monitor, bounds
<1>1. ASSUME NEW payment \in BOOLEAN, NewBlock(payment) PROVE RestartReaches'
  <2>1. height' = height + 1 /\ UNCHANGED <<stored, writes, found>>
    BY <1>1 DEF NewBlock
  <2>2. \A b \in Open' : b \in Open \/ b = height + 1
    BY <1>o, <2>1
  <2>3. \A n \in {stored} \cup writes : height + 1 >= n - Depth
    BY <1>t, <1>d
  <2> QED
    BY <2>1, <2>2, <2>3
<1>2. ASSUME NEW b \in Block, Settle(b) PROVE RestartReaches'
  <2>1. /\ UNCHANGED <<stored, writes, lost, paid>>
        /\ found' = found \ {b} /\ settled' = settled \cup {b}
    BY <1>2 DEF Settle
  <2>2. Open' \ found' \subseteq Open \ found
    BY <2>1 DEF Open
  <2> QED
    BY <2>1, <2>2
<1>3. CASE BindDepositAddress
  <2>1. UNCHANGED <<height, stored, writes, found>>
    BY <1>3 DEF BindDepositAddress
  <2>2. Open' \subseteq Open
    BY <1>t, <1>o, <2>1
  <2> QED
    BY <2>1, <2>2
<1>4. ASSUME NEW n \in Block, UpdateChainBlock(n) PROVE RestartReaches'
  <2>1. /\ UNCHANGED <<height, found>> /\ stored' \in {stored} \cup writes
        /\ writes' \subseteq writes
    BY <1>4 DEF UpdateChainBlock
  <2>2. Open' \subseteq Open
    BY <1>t, <1>o, <2>1
  <2>3. {stored'} \cup writes' \subseteq {stored} \cup writes
    BY <2>1
  <2> QED
    BY <2>1, <2>2, <2>3
<1>5. ASSUME NEW n \in Block, UpdateFails(n) PROVE RestartReaches'
  <2>1. /\ UNCHANGED <<height, found>> /\ stored' \in {stored} \cup writes
        /\ writes' \subseteq writes
    BY <1>5 DEF UpdateFails, Fails
  <2>2. Open' \subseteq Open
    BY <1>t, <1>o, <2>1
  <2>3. {stored'} \cup writes' \subseteq {stored} \cup writes
    BY <2>1
  <2> QED
    BY <2>1, <2>2, <2>3
<1>6. CASE OthersCatchUp
  <2>1. UNCHANGED <<height, stored, writes, found>>
    BY <1>6 DEF OthersCatchUp
  <2>2. Open' \subseteq Open
    BY <1>t, <1>o, <2>1
  <2> QED
    BY <2>1, <2>2
<1>7. CASE CheckRecoveryCompletion
  <2>1. UNCHANGED <<height, stored, writes, found>>
    BY <1>7 DEF CheckRecoveryCompletion
  <2>2. Open' \subseteq Open
    BY <1>t, <1>o, <2>1
  <2> QED
    BY <2>1, <2>2
<1>8. CASE ExecuteScanCycle
  <2>1. UNCHANGED <<height, stored, writes, found>>
    BY <1>8 DEF ExecuteScanCycle
  <2>2. Open' \subseteq Open
    BY <1>t, <1>o, <2>1
  <2> QED
    BY <2>1, <2>2
<1>9. ASSUME NEW h \in Block, JumpToSafe(h) PROVE RestartReaches'
  <2>1. /\ UNCHANGED <<height, stored, found>> /\ writes' = writes \cup {h - Safe}
        /\ h \in scan.since .. height /\ scan.wants = "height" /\ ~scan.targets
    BY <1>9 DEF JumpToSafe, Arrives
  <2>2. \A b \in Open : b > h - Safe
    BY <2>1, JumpSkipsNothing
  <2>3. Open' \subseteq Open
    BY <1>t, <1>o, <2>1
  <2>4. h \in Int
    BY <2>1, FieldsOfCycle DEF TypeInv
  <2>5. \A b \in Open : b >= (h - Safe) - Depth
    BY <1>t, <2>2, <2>4
  <2> QED
    BY <2>1, <2>3, <2>5
<1>10. ASSUME NEW h \in Block, RecoveryScan(h) PROVE RestartReaches'
  <2> DEFINE from == Most(last + 1, scan.range)
             to == UpTo(from, h)
  <2>1. /\ UNCHANGED <<height, stored, found>>
        /\ h \in scan.since .. height /\ scan.wants = "height"
    BY <1>10 DEF RecoveryScan, Arrives
  <2>2. Open' \subseteq Open
    BY <1>t, <1>o, <2>1
  <2>3. CASE from <= to /\ ~scan.targets
    <3>1. Processed(h - Safe)
      BY <1>10, <2>3 DEF RecoveryScan
    <3>2. writes' \subseteq writes \cup {h - Safe}
      BY <3>1 DEF Processed
    <3>3. \A b \in Open : b > h - Safe
      BY <2>1, <2>3, JumpSkipsNothing
    <3>4. h \in Int
      BY <2>1, FieldsOfCycle DEF TypeInv
    <3>5. \A b \in Open : b >= (h - Safe) - Depth
      BY <1>t, <3>3, <3>4
    <3> QED
      BY <2>1, <2>2, <3>2, <3>5
  <2>4. CASE ~(from <= to /\ ~scan.targets)
    <3>1. writes' = writes
      BY <1>t, <1>10, <2>4 DEF RecoveryScan, Processed
    <3> QED
      BY <2>1, <2>2, <3>1
  <2> QED
    BY <2>3, <2>4
<1>11. ASSUME NEW h \in Block, NormalScan(h) PROVE RestartReaches'
  <2>1. UNCHANGED <<height, stored, writes, found>>
    BY <1>11 DEF NormalScan, Arrives
  <2>2. Open' \subseteq Open
    BY <1>t, <1>o, <2>1
  <2> QED
    BY <2>1, <2>2
<1>12. ASSUME NEW h \in Block, ScanLatestBlocks(h) PROVE RestartReaches'
  <2>1. UNCHANGED <<height, stored, writes, found>>
    BY <1>12 DEF ScanLatestBlocks
  <2>2. Open' \subseteq Open
    BY <1>t, <1>o, <2>1
  <2> QED
    BY <2>1, <2>2
<1>13. CASE ExecuteScanTask
  <2>1. /\ UNCHANGED <<height, stored>> /\ writes' \subseteq writes \cup {scan.to}
        /\ found' = found \cup {b \in paid : scan.from <= b /\ b <= scan.to}
        /\ scan.wants = "blocks" /\ up
    BY <1>13 DEF ExecuteScanTask, Processed
  <2>2. scan.from = last + 1 /\ scan.to \in Int /\ monitored
    BY <2>1, FieldsOfCycle DEF TypeInv, CycleIsSound
  <2>h. height' = height
    BY <2>1
  <2>3. Open' \subseteq Open
    BY <1>t, <1>o, <2>h
  <2>4. ASSUME NEW b \in Open
        PROVE  b \in found' \/ b < scan.from \/ b > scan.to
    <3>1. b \in paid
      BY DEF Open
    <3>2. b \in Int
      BY <1>t
    <3>3. b < scan.from \/ b > scan.to \/ (scan.from <= b /\ b <= scan.to)
      BY <1>t, <2>2, <3>2
    <3> QED
      BY <2>1, <3>1, <3>3
  <2>5. \A b \in Open \ found' : b > scan.to
    BY <1>t, <2>1, <2>2, <2>4 DEF Passed
  <2>6. \A b \in Open \ found' : b >= scan.to - Depth
    BY <1>t, <2>2, <2>5
  <2> QED
    BY <2>1, <2>3, <2>6
<1>14. CASE HeightFails
  <2>1. UNCHANGED <<height, stored, writes, found>>
    BY <1>14 DEF HeightFails, Fails
  <2>2. Open' \subseteq Open
    BY <1>t, <1>o, <2>1
  <2> QED
    BY <2>1, <2>2
<1>15. CASE LatestFails
  <2>1. UNCHANGED <<height, stored, writes, found>>
    BY <1>15 DEF LatestFails, Fails
  <2>2. Open' \subseteq Open
    BY <1>t, <1>o, <2>1
  <2> QED
    BY <2>1, <2>2
<1>16. CASE ScanFails
  <2>1. UNCHANGED <<height, stored, writes, found>>
    BY <1>16 DEF ScanFails, Fails
  <2>2. Open' \subseteq Open
    BY <1>t, <1>o, <2>1
  <2> QED
    BY <2>1, <2>2
<1>17. CASE Crash
  <2>1. /\ UNCHANGED <<height, paid, settled>> /\ writes' = {} /\ found' = {}
        /\ stored' \in {stored} \cup writes
        /\ lost' = lost \cup {b \in found : b + Depth < stored'}
    BY <1>17 DEF Crash
  <2>2. stored' \in Int
    BY <1>t, <2>1
  <2>3. ASSUME NEW b \in Open'
        PROVE  b >= stored' - Depth
    <3>1. b \in Open /\ b \in Int
      BY <1>t, <2>1 DEF Open
    <3>2. CASE b \in found
      <4>1. ~(b + Depth < stored')
        BY <2>1, <3>2 DEF Open
      <4>2. \A m \in Int, k \in Int : ~(m + Depth < k) => m >= k - Depth
        BY Limits
      <4> QED
        BY <2>2, <3>1, <4>1, <4>2
    <3>3. CASE b \notin found
      BY <2>1, <3>1, <3>3
    <3> QED
      BY <3>2, <3>3
  <2> QED
    BY <2>1, <2>3
<1>18. CASE Start
  <2> DEFINE from == IF range = 0 THEN height - Safe ELSE range
  <2>1. read /\ UNCHANGED <<height, stored, found>> /\ writes' = {from}
    BY <1>18 DEF Start
  <2>h. height' = height
    BY <2>1
  <2>2. Open' \subseteq Open
    BY <1>t, <1>o, <2>h
  <2>3. CASE range = 0
    <3>1. Open = {}
      BY <2>1, <2>3 DEF ReadGoesBack, CycleInv, OpenIsWatched
    <3> QED
      BY <2>2, <3>1
  <2>4. CASE range # 0
    <3>1. \A b \in Open : b >= range
      BY <2>1, <2>4 DEF ReadGoesBack
    <3>2. writes' = {range} /\ range \in Int
      BY <2>1, <2>4 DEF TypeInv, NumbersOK
    <3>3. \A b \in Open : b >= range - Depth
      BY <1>t, <3>1, <3>2
    <3> QED
      BY <2>1, <2>2, <3>2, <3>3
  <2> QED
    BY <2>3, <2>4
<1>19. CASE StartBlind
  <2>1. UNCHANGED <<height, stored, writes, found>>
    BY <1>19 DEF StartBlind, Fails
  <2>2. Open' \subseteq Open
    BY <1>t, <1>o, <2>1
  <2> QED
    BY <2>1, <2>2
<1>20. CASE OthersFallBehind
  <2>1. UNCHANGED <<height, stored, writes, found>>
    BY <1>20 DEF OthersFallBehind
  <2>2. Open' \subseteq Open
    BY <1>t, <1>o, <2>1
  <2> QED
    BY <2>1, <2>2
<1>21. CASE ReadProgress
  <2>1. UNCHANGED <<height, stored, writes, found>>
    BY <1>21 DEF ReadProgress, Begin
  <2>2. Open' \subseteq Open
    BY <1>t, <1>o, <2>1
  <2> QED
    BY <2>1, <2>2
<1>22. CASE ReadFails
  <2>1. UNCHANGED <<height, stored, writes, found>>
    BY <1>22 DEF ReadFails, Begin, Fails
  <2>2. Open' \subseteq Open
    BY <1>t, <1>o, <2>1
  <2> QED
    BY <2>1, <2>2
<1>23. CASE UNCHANGED vars
  <2>1. UNCHANGED <<height, stored, writes, found>>
    BY <1>23 DEF vars
  <2>2. Open' \subseteq Open
    BY <1>t, <1>o, <2>1
  <2> QED
    BY <2>1, <2>2
<1> QED
  BY <1>1, <1>2, <1>3, <1>4, <1>5, <1>6, <1>7, <1>8, <1>9, <1>10, <1>11, <1>12, <1>13, <1>14, <1>15, <1>16, <1>17, <1>18, <1>19, <1>20, <1>21, <1>22, <1>23 DEF Next, Cycle

(* Without memory, all that is open lies before no stored progress.           *)
LEMMA NothingFoundYet ==
  ASSUME RestartReaches, found = {}
  PROVE  \A b \in Open : b >= stored - Depth
<1>1. Open \ found = Open
  OBVIOUS
<1>2. stored \in {stored} \cup writes
  OBVIOUS
<1> QED
  BY <1>1, <1>2 DEF RestartReaches

(* Every step keeps ReadGoesBack: new payments come after the block a process goes *)
(* back to.                                                                   *)
LEMMA NextReadGoesBack ==
  ASSUME TypeInv, CycleInv, ReadGoesBack, RestartReaches, [Next]_vars
  PROVE  ReadGoesBack'
<1>t. /\ height \in Int /\ Open \subseteq Int /\ last \in Int /\ last <= height
      /\ stored \in Int /\ stored <= height
      /\ (~up => ~monitored /\ found = {} /\ writes = {}) /\ (read => ~up)
      /\ (\A b \in Open : b >= 1) /\ (\A n \in writes : n \in Int /\ n <= height)
  BY DEF TypeInv, NumbersOK, Block, DownIsEmpty, ReadIsSound, Open
<1>o. \/ Open' \subseteq Open
      \/ /\ height' = height + 1 /\ Open' \subseteq Open \cup {height'}
         /\ (up \/ read => watched)
         /\ UNCHANGED <<database, process, found, writes, scan, monitor>>
  BY NextOpen
<1>d. \A n \in {stored} \cup writes : n - Depth <= height
  BY <1>t, Limits
<1> USE Limits DEF ReadGoesBack, Wants, chain, database, process, monitor, bounds
<1>1. ASSUME NEW payment \in BOOLEAN, NewBlock(payment) PROVE ReadGoesBack'
  <2>1. height' = height + 1 /\ UNCHANGED <<read, range, watched>>
    BY <1>1 DEF NewBlock
  <2>2. \A b \in Open' : b \in Open \/ b = height + 1
    BY <1>o, <2>1
  <2>3. read => height + 1 >= range
    BY <1>t DEF TypeInv, NumbersOK, ReadIsSound
  <2> QED
    BY <2>1, <2>2, <2>3
<1>2. ASSUME NEW b \in Block, Settle(b) PROVE ReadGoesBack'
  <2>1. up /\ read' = read
    BY <1>2 DEF Settle
  <2> QED
    BY <1>t, <2>1
<1>3. CASE BindDepositAddress
  <2>1. up /\ read' = read
    BY <1>3 DEF BindDepositAddress
  <2> QED
    BY <1>t, <2>1
<1>4. ASSUME NEW n \in Block, UpdateChainBlock(n) PROVE ReadGoesBack'
  <2>1. up /\ read' = read
    BY <1>4 DEF UpdateChainBlock
  <2> QED
    BY <1>t, <2>1
<1>5. ASSUME NEW n \in Block, UpdateFails(n) PROVE ReadGoesBack'
  <2>1. up /\ read' = read
    BY <1>5 DEF UpdateFails
  <2> QED
    BY <1>t, <2>1
<1>6. CASE OthersCatchUp
  <2>1. up /\ read' = read
    BY <1>6 DEF OthersCatchUp
  <2> QED
    BY <1>t, <2>1
<1>7. CASE CheckRecoveryCompletion
  <2>1. up /\ read' = read
    BY <1>7 DEF CheckRecoveryCompletion
  <2> QED
    BY <1>t, <2>1
<1>8. CASE ExecuteScanCycle
  <2>1. up /\ read' = read
    BY <1>8 DEF ExecuteScanCycle
  <2> QED
    BY <1>t, <2>1
<1>9. ASSUME NEW h \in Block, JumpToSafe(h) PROVE ReadGoesBack'
  <2>1. up /\ read' = read
    BY <1>9 DEF JumpToSafe, Arrives
  <2> QED
    BY <1>t, <2>1
<1>10. ASSUME NEW h \in Block, RecoveryScan(h) PROVE ReadGoesBack'
  <2>1. up /\ read' = read
    BY <1>10 DEF RecoveryScan, Arrives
  <2> QED
    BY <1>t, <2>1
<1>11. ASSUME NEW h \in Block, NormalScan(h) PROVE ReadGoesBack'
  <2>1. up /\ read' = read
    BY <1>11 DEF NormalScan, Arrives
  <2> QED
    BY <1>t, <2>1
<1>12. ASSUME NEW h \in Block, ScanLatestBlocks(h) PROVE ReadGoesBack'
  <2>1. up /\ read' = read
    BY <1>12 DEF ScanLatestBlocks
  <2> QED
    BY <1>t, <2>1
<1>13. CASE ExecuteScanTask
  <2>1. up /\ read' = read
    BY <1>13 DEF ExecuteScanTask
  <2> QED
    BY <1>t, <2>1
<1>14. CASE HeightFails
  <2>1. up /\ read' = read
    BY <1>14 DEF HeightFails
  <2> QED
    BY <1>t, <2>1
<1>15. CASE LatestFails
  <2>1. up /\ read' = read
    BY <1>15 DEF LatestFails
  <2> QED
    BY <1>t, <2>1
<1>16. CASE ScanFails
  <2>1. up /\ read' = read
    BY <1>16 DEF ScanFails
  <2> QED
    BY <1>t, <2>1
<1>17. CASE Crash
  BY <1>17 DEF Crash
<1>18. CASE Start
  BY <1>18 DEF Start
<1>19. CASE StartBlind
  BY <1>19 DEF StartBlind
<1>20. CASE OthersFallBehind
  <2>1. up /\ read' = read
    BY <1>20 DEF OthersFallBehind
  <2> QED
    BY <1>t, <2>1
<1>21. CASE ReadProgress
  <2>1. PICK from \in IF stored = 0 THEN {0, 1} ELSE {SafeStart(stored)} : Begin(from)
    BY <1>21 DEF ReadProgress
  <2>2. /\ range' = from /\ watched' = (bound /\ from # 0) /\ height' = height /\ ~up
    BY <2>1 DEF Begin
  <2>3. Open' \subseteq Open
    BY <1>t, <1>o, <2>2
  <2>4. found = {}
    BY <1>t, <2>2
  <2>5. \A b \in Open : b >= 1 /\ b >= stored - Depth
    <3>1. \A b \in Open : b >= stored - Depth
      BY <2>4, NothingFoundYet
    <3> QED
      BY <1>t, <3>1
  <2>6. from # 0 => \A b \in Open : b >= from
    BY <1>t, <2>5 DEF SafeStart, Most
  <2> QED
    BY <2>2, <2>3, <2>6
<1>22. CASE ReadFails
  <2>1. range' = 0 /\ watched' = (bound /\ 0 # 0)
    BY <1>22 DEF ReadFails, Begin
  <2> QED
    BY <2>1
<1>23. CASE UNCHANGED vars
  <2>1. UNCHANGED <<height, read, range, watched>>
    BY <1>23 DEF vars
  <2>2. Open' \subseteq Open
    BY <1>t, <1>o, <2>1
  <2> QED
    BY <2>1, <2>2
<1> QED
  BY <1>1, <1>2, <1>3, <1>4, <1>5, <1>6, <1>7, <1>8, <1>9, <1>10, <1>11, <1>12, <1>13, <1>14, <1>15, <1>16, <1>17, <1>18, <1>19, <1>20, <1>21, <1>22, <1>23 DEF Next, Cycle

(* The inductive invariant of the payments.                                   *)
ScanInv ==
  /\ TypeInv
  /\ CycleInv
  /\ ReadGoesBack
  /\ Passed
  /\ RestartReaches

(* NothingSkipped: however cycles, failures, stored progress, crashes and starts   *)
(* interleave, a payment to a bound address that has not been given up is confirmed, *)
(* pursued or still to be scanned.                                             *)
THEOREM NoPaymentSkipped ==
  ASSUME RequestsAreQuick
  PROVE  Spec => []NothingSkipped
<1>1. Init => ScanInv
  <2>1. ASSUME Init
        PROVE  CycleInv /\ ReadGoesBack /\ Passed /\ RestartReaches
    <3>1. Open = {} /\ paid = {} /\ ~read /\ scan.wants = "nothing"
      BY <2>1, IdleCycle DEF Init, Open
    <3> QED
      BY <3>1 DEF CycleInv, PaidIsBound, OpenIsWatched, CycleKnowsTargets, HeightsAreFresh,
                  ReadGoesBack, Passed, RestartReaches
  <2> QED
    BY <2>1, InitTypeInv DEF ScanInv
<1>2. ScanInv /\ [Next]_vars => ScanInv'
  BY NextTypeInv, NextCycleInv, NextReadGoesBack, NextPassed, NextRestartReaches DEF ScanInv
<1>3. ScanInv => NothingSkipped
  BY DEF ScanInv, Passed, Open, NothingSkipped
<1> QED
  BY <1>1, <1>2, <1>3, PTL DEF Spec

=============================================================================
