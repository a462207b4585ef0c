------------------------ MODULE NotificationQueueProofs ------------------------
(***************************************************************************)
(* Theorems about NotificationQueue, for any number of events, endpoints,   *)
(* slots, retries, stops, manual retries and failed statements.             *)
(***************************************************************************)
EXTENDS NotificationQueue, FiniteSetTheorems, TLAPS

-----------------------------------------------------------------------------
(* Types.                                                                    *)

(* A new process has an empty memory.                                        *)
StartsEmpty ==
  mode \in {"down", "starting"} =>
    /\ loop = "off"
    /\ \A s \in Slot : pc[s] = "idle"

(* A worker tries again only within max_retries.                             *)
RetriesAreLimited ==
  \A s \in Slot : pc[s] = "again" => tried[s] < MaxRetries

(* The inductive invariant behind TypeOK.                                     *)
TypeInv ==
  /\ TypeOK
  /\ StartsEmpty
  /\ RetriesAreLimited

(* TypeInv holds in the beginning.                                            *)
LEMMA InitTypeInv == Init => TypeInv
<1> SUFFICES ASSUME Init PROVE TypeInv
  OBVIOUS
<1>1. /\ limit \in 0..BatchSize /\ tries \in [Job -> 0..MaxRetries]
      /\ tried \in [Slot -> 0..MaxRetries]
      /\ attempts \in [Job -> Nat] /\ manual \in [Job -> Nat]
      /\ stops \in 0..MaxStops /\ failures \in 0..MaxFailures
  BY ConstantTypes DEF Init
<1>2. StartsEmpty /\ RetriesAreLimited
  BY DEF Init, StartsEmpty, RetriesAreLimited
<1>3. /\ batch = {} /\ loop = "off" /\ died \in BOOLEAN
      /\ pc \in [Slot -> {"idle", "look", "cancel", "claim", "send", "ok", "bad",
                          "again", "catch"}]
      /\ job \in [Slot -> Job \cup {Nobody}]
      /\ \A s \in Slot : busy(s) <=> job[s] # Nobody
  BY DEF Init, busy
<1>4. /\ endpoint \in [Endpoint -> {"enabled", "disabled", "deleted"}]
      /\ status \in [Job -> {"none", "pending", "sending", "success", "failed",
                             "cancelled"}]
      /\ later \subseteq Job /\ mode = "down"
      /\ inRetry \subseteq Job /\ published \subseteq Event
      /\ sendingTo \in [Event -> SUBSET Endpoint]
  BY DEF Init
<1> QED
  BY <1>1, <1>2, <1>3, <1>4 DEF TypeInv, TypeOK

(* What a worker that ends leaves of the loop and of the slots.                *)
LEMMA WorkerEnds ==
  ASSUME TypeInv, NEW s \in Slot, busy(s), NEW rejects \in BOOLEAN, EndWorker(s, rejects),
         UNCHANGED mode
  PROVE  /\ loop' \in {"off", "timer", "fetching", "sending"}
         /\ limit' \in 0..BatchSize
         /\ batch' \subseteq {t \in Slot : busy(t)'}
         /\ loop' = "sending" <=> batch' # {}
         /\ pc' = [pc EXCEPT ![s] = "idle"]
         /\ job' \in [Slot -> Job \cup {Nobody}]
         /\ \A t \in Slot : busy(t)' <=> job'[t] # Nobody
         /\ tried' \in [Slot -> 0..MaxRetries]
         /\ StartsEmpty' /\ RetriesAreLimited'
BY ConstantTypes DEF TypeInv, TypeOK, StartsEmpty, RetriesAreLimited, busy, EndWorker,
   NextCheck

(* A fetch finds nothing, or gives each row it finds to an idle slot of its own. *)
Fetches(S, T, f) ==
  /\ S # {} /\ {f[s] : s \in T} = S /\ Cardinality(T) = Cardinality(S)
  /\ job' = [s \in Slot |-> IF s \in T THEN f[s] ELSE job[s]]
  /\ tried' = [s \in Slot |-> IF s \in T THEN tries[f[s]] ELSE tried[s]]
  /\ pc' = [s \in Slot |-> IF s \in T THEN "look" ELSE pc[s]]
  /\ batch' = T
  /\ loop' = "sending"

(* fetchBatch claims rows only for idle slots.                                *)
LEMMA FetchCases ==
  ASSUME FetchBatch
  PROVE  /\ loop = "fetching" /\ limit' = 0
         /\ UNCHANGED <<endpoint, rows, mode, inRetry, sendingTo, outside>>
         /\ \/ loop' = NextCheck /\ UNCHANGED <<batch, workers>>
            \/ \E S \in SUBSET DueJobs, T \in SUBSET {s \in Slot : ~busy(s)} :
                 \E f \in [T -> S] : Fetches(S, T, f)
<1>1. ASSUME NEW S \in SUBSET DueJobs, NEW T \in SUBSET {s \in Slot : ~busy(s)}, S # {},
             NEW f \in [T -> S],
             {f[s] : s \in T} = S /\ Cardinality(T) = Cardinality(S),
             job' = [s \in Slot |-> IF s \in T THEN f[s] ELSE job[s]],
             tried' = [s \in Slot |-> IF s \in T THEN tries[f[s]] ELSE tried[s]],
             pc' = [s \in Slot |-> IF s \in T THEN "look" ELSE pc[s]],
             batch' = T, loop' = "sending"
      PROVE  Fetches(S, T, f)
  BY <1>1 DEF Fetches
<1> HIDE DEF Fetches
<1> QED
  BY <1>1 DEF FetchBatch

(* Every step keeps TypeInv.                                                  *)
LEMMA NextTypeInv == TypeInv /\ [Next]_vars => TypeInv'
<1> SUFFICES ASSUME TypeInv, [Next]_vars PROVE TypeInv'
  OBVIOUS
<1> USE ConstantTypes
    DEF TypeInv, TypeOK, StartsEmpty, RetriesAreLimited, busy, Goes, rows, looping,
        workers, outside
<1>1. CASE StartProcessor
  BY <1>1 DEF StartProcessor
<1>2. CASE StartNotifications
  BY <1>2 DEF StartNotifications
<1>3. CASE StopQueue
  BY <1>3 DEF StopQueue
<1>4. CASE QueueStopped
  BY <1>4 DEF QueueStopped
<1>5. CASE ProcessExits
  BY <1>5 DEF ProcessExits, MemoryLost
<1>6. CASE Crash
  BY <1>6 DEF Crash, MemoryLost
<1>7. CASE CheckQueue
  <2>1. limit' \in 0..BatchSize
    <3>1. Cardinality({s \in Slot : ~busy(s)}) \in Nat
      BY FS_Subset, FS_CardinalityType
    <3> QED
      BY <1>7, <3>1 DEF CheckQueue, Smaller
  <2>2. /\ loop' = "fetching" /\ loop = "timer"
        /\ UNCHANGED <<endpoint, rows, mode, batch, workers, inRetry, sendingTo, outside>>
    BY <1>7 DEF CheckQueue
  <2> QED
    BY <2>1, <2>2
<1>8. CASE FetchBatch
  <2>1. CASE loop' = NextCheck /\ UNCHANGED <<batch, workers>>
    BY <1>8, <2>1, FetchCases DEF NextCheck
  <2>2. ASSUME NEW S \in SUBSET DueJobs, NEW T \in SUBSET {s \in Slot : ~busy(s)},
               NEW f \in [T -> S], Fetches(S, T, f)
        PROVE  TypeInv'
    <3>1. S \subseteq Job /\ Nobody \notin Job
      BY DEF DueJobs, Job
    <3>2. loop = "fetching" /\ limit' = 0
          /\ UNCHANGED <<endpoint, rows, mode, inRetry, sendingTo, outside>>
      BY <1>8, FetchCases
    <3>3. T # {} /\ T \subseteq Slot
      BY <2>2 DEF Fetches
    <3>4. \A s \in T : f[s] \in Job /\ tries[f[s]] \in 0..MaxRetries
      BY <3>1
    <3> QED
      BY <2>2, <3>1, <3>2, <3>3, <3>4 DEF Fetches
  <2> QED
    BY <1>8, <2>1, <2>2, FetchCases
<1>9. ASSUME NEW s \in Slot, LookUpEndpoint(s) PROVE TypeInv'
  <2>1. \E next \in {"claim", "cancel", "catch"} : Goes(s, next)
    BY <1>9 DEF LookUpEndpoint
  <2> QED
    BY <1>9, <2>1 DEF LookUpEndpoint
<1>10. ASSUME NEW s \in Slot, CancelNotification(s) PROVE TypeInv'
  <2>1. /\ busy(s) /\ UNCHANGED mode /\ EndWorker(s, FALSE)
    BY <1>10 DEF CancelNotification
  <2>2. job[s] \in Job
    BY <2>1
  <2> QED
    BY <1>10, <2>1, <2>2, WorkerEnds DEF CancelNotification
<1>11. ASSUME NEW s \in Slot, MarkSending(s) PROVE TypeInv'
  BY <1>11 DEF MarkSending
<1>12. ASSUME NEW s \in Slot, Send(s) PROVE TypeInv'
  <2>1. PICK next \in {"ok", "bad", "again"} :
          Goes(s, next) /\ (next = "again" => ShouldRetry(s))
    BY <1>12 DEF Send
  <2>2. job[s] \in Job
    BY <1>12 DEF Send
  <2> QED
    BY <1>12, <2>1, <2>2 DEF Send, ShouldRetry
<1>13. ASSUME NEW s \in Slot, RecordResult(s) PROVE TypeInv'
  <2>1. /\ busy(s) /\ UNCHANGED mode /\ EndWorker(s, FALSE)
    BY <1>13 DEF RecordResult
  <2>2. job[s] \in Job
    BY <2>1
  <2>3. \E result \in {"success", "failed", "pending"} :
          status' = [status EXCEPT ![job[s]] = result]
    BY <1>13 DEF RecordResult
  <2>4. tries' \in [Job -> 0..MaxRetries] /\ later' \subseteq Job
    BY <1>13, <2>2 DEF RecordResult
  <2> QED
    BY <1>13, <2>1, <2>2, <2>3, <2>4, WorkerEnds DEF RecordResult
<1>14. ASSUME NEW s \in Slot, StatementFails(s) PROVE TypeInv'
  BY <1>14 DEF StatementFails
<1>15. ASSUME NEW s \in Slot, CatchError(s) PROVE TypeInv'
  <2>1. /\ busy(s) /\ UNCHANGED mode /\ EndWorker(s, FALSE)
    BY <1>15 DEF CatchError
  <2>2. job[s] \in Job
    BY <2>1
  <2> QED
    BY <1>15, <2>1, <2>2, WorkerEnds DEF CatchError
<1>16. ASSUME NEW s \in Slot, WorkerRejects(s) PROVE TypeInv'
  <2>1. /\ busy(s) /\ UNCHANGED mode /\ EndWorker(s, TRUE)
    BY <1>16 DEF WorkerRejects
  <2>2. job[s] \in Job
    BY <2>1
  <2>3. failures' \in 0..MaxFailures
    BY <1>16 DEF WorkerRejects
  <2> QED
    BY <1>16, <2>1, <2>2, <2>3, WorkerEnds DEF WorkerRejects
<1>17. ASSUME NEW j \in Job, RetryNotification(j) PROVE TypeInv'
  BY <1>17 DEF RetryNotification
<1>18. ASSUME NEW j \in Job, ResetForRetry(j) PROVE TypeInv'
  BY <1>18 DEF ResetForRetry
<1>19. ASSUME NEW j \in Job, RetryComesDue(j) PROVE TypeInv'
  BY <1>19 DEF RetryComesDue
<1>20. ASSUME NEW e \in Event, Publish(e) PROVE TypeInv'
  <2>1. Enabled \subseteq Endpoint
    BY DEF Enabled
  <2> QED
    BY <1>20, <2>1 DEF Publish
<1>21. ASSUME NEW e \in Event, NEW p \in Endpoint, Enqueue(e, p) PROVE TypeInv'
  BY <1>21 DEF Enqueue
<1>22. ASSUME NEW e \in Event, NEW p \in Endpoint, EnqueueFails(e, p) PROVE TypeInv'
  BY <1>22 DEF EnqueueFails, MemoryLost
<1>23. ASSUME NEW p \in Endpoint, SwitchEndpoint(p) PROVE TypeInv'
  BY <1>23 DEF SwitchEndpoint
<1>24. ASSUME NEW p \in Endpoint, DeleteEndpoint(p) PROVE TypeInv'
  BY <1>24 DEF DeleteEndpoint
<1>25. CASE UNCHANGED vars
  BY <1>25 DEF vars
<1> QED
  BY <1>1, <1>2, <1>3, <1>4, <1>5, <1>6, <1>7, <1>8, <1>9, <1>10, <1>11, <1>12,
     <1>13, <1>14, <1>15, <1>16, <1>17, <1>18, <1>19, <1>20, <1>21, <1>22, <1>23,
     <1>24, <1>25
     DEF Next, Lifecycle, LoopStep, WorkerStep, JobStep

(* Every variable keeps its type: retry_count stays within max_retries, the loop    *)
(* waits exactly while it has a batch, and batches are of working slots.            *)
THEOREM TypeCorrect == Spec => []TypeOK
<1>1. Init => TypeInv
  BY InitTypeInv
<1>2. TypeInv /\ [Next]_vars => TypeInv'
  BY NextTypeInv
<1>3. TypeInv => TypeOK
  BY DEF TypeInv
<1> QED
  BY <1>1, <1>2, <1>3, PTL DEF Spec

-----------------------------------------------------------------------------
(* One sender.                                                               *)

(* A row under a manual retry has been retried by hand.                       *)
RetriedByHand == \A j \in inRetry : manual[j] > 0

(* The rows of a deleted endpoint are gone for good, and a row that went under *)
(* its worker is such a row.                                                   *)
DeletedIsGone ==
  /\ \A j \in Job : endpoint[j[2]] = "deleted" => status[j] = "none"
  /\ \A s \in Slot : busy(s) /\ status[job[s]] = "none" => endpoint[job[s][2]] = "deleted"

(* Whoever sends has claimed the row.                                          *)
SendersHaveClaimed ==
  \A s \in Slot :
    /\ pc[s] \in {"send", "ok", "bad", "again"}
    /\ manual[job[s]] = 0
    => status[job[s]] # "pending"

(* The rows the loop is about to fetch are nobody's.                           *)
FetchesTheFree ==
  loop = "fetching" =>
    \A s \in Slot : busy(s) /\ manual[job[s]] = 0 => status[job[s]] # "pending"

(* The inductive invariant behind OneSender.                                  *)
SenderInv ==
  /\ TypeInv
  /\ RetriedByHand
  /\ DeletedIsGone
  /\ SendersHaveClaimed
  /\ FetchesTheFree
  /\ OneSender

(* A worker throws because of a failed statement, a closed pool or a row that  *)
(* is gone.                                                                    *)
ThrowsForAReason ==
  \A s \in Slot :
    pc[s] = "catch" => failures >= 1 \/ mode = "closing" \/ status[job[s]] = "none"

(* What a graceful stop leaves behind.                                         *)
StopsClean ==
  ~died /\ failures <= 1 /\ mode \in {"down", "starting", "closing"} =>
    \A j \in Job : status[j] # "sending"

(* The inductive invariant behind SendingHasSender.                           *)
SendingInv ==
  /\ TypeInv
  /\ DeletedIsGone
  /\ ThrowsForAReason
  /\ StopsClean
  /\ SendingHasSender

(* A worker that ends is idle; the others, and a fetch in progress, are not affected. *)
LEMMA WorkerGone ==
  ASSUME TypeInv, NEW s \in Slot, busy(s), NEW rejects \in BOOLEAN, EndWorker(s, rejects)
  PROVE  /\ job[s] \in Job
         /\ ~busy(s)'
         /\ \A t \in Slot \ {s} : pc'[t] = pc[t] /\ job'[t] = job[t]
         /\ loop' = "fetching" => loop = "fetching"
BY DEF TypeInv, TypeOK, busy, EndWorker, NextCheck

(* A worker that ends may write its own row as it likes: nobody else has it, or it *)
(* has been retried by hand.                                                       *)
LEMMA EndKeepsSenders ==
  ASSUME SenderInv, TypeInv', NEW s \in Slot, busy(s),
         NEW rejects \in BOOLEAN, EndWorker(s, rejects),
         UNCHANGED <<endpoint, inRetry, manual>>,
         \A j \in Job \ {job[s]} : status'[j] = status[j],
         status'[job[s]] = "none" <=> status[job[s]] = "none"
  PROVE  SenderInv'
<1>1. /\ job[s] \in Job /\ ~busy(s)'
      /\ \A t \in Slot \ {s} : pc'[t] = pc[t] /\ job'[t] = job[t]
      /\ loop' = "fetching" => loop = "fetching"
  BY WorkerGone DEF SenderInv
<1>2. \A t \in Slot : busy(t)' =>
        t # s /\ busy(t) /\ pc'[t] = pc[t] /\ job'[t] = job[t] /\ job[t] \in Job
  BY <1>1 DEF busy, SenderInv, TypeInv, TypeOK
<1>3. OneSender'
  BY <1>2 DEF SenderInv, OneSender
<1>4. DeletedIsGone'
  BY <1>2 DEF SenderInv, DeletedIsGone
<1>5. \A t \in Slot : busy(t)' /\ manual'[job'[t]] = 0 =>
        status'[job'[t]] = status[job[t]] /\ manual[job[t]] = 0
  BY <1>2 DEF SenderInv, OneSender
<1>6. SendersHaveClaimed'
  BY <1>2, <1>5 DEF SenderInv, SendersHaveClaimed, busy
<1>7. FetchesTheFree'
  BY <1>1, <1>2, <1>5 DEF SenderInv, FetchesTheFree
<1> QED
  BY <1>3, <1>4, <1>6, <1>7 DEF SenderInv, RetriedByHand

(* Every step keeps SenderInv: a row is given away only when nobody has it.   *)
LEMMA NextSenderInv ==
  ASSUME StatementsAreQuick, SenderInv, [Next]_vars
  PROVE  SenderInv'
<1>t. TypeInv'
  BY NextTypeInv DEF SenderInv
<1> USE <1>t, ConstantTypes
    DEF SenderInv, RetriedByHand, DeletedIsGone, SendersHaveClaimed, FetchesTheFree,
        OneSender, TypeInv, TypeOK, busy, Goes, rows, looping, workers, outside, Job
<1>1. CASE StartProcessor
  BY <1>1 DEF StartProcessor
<1>2. CASE StartNotifications
  BY <1>2 DEF StartNotifications
<1>3. CASE StopQueue
  BY <1>3 DEF StopQueue
<1>4. CASE QueueStopped
  BY <1>4 DEF QueueStopped
<1>5. CASE ProcessExits
  BY <1>5 DEF ProcessExits, MemoryLost
<1>6. CASE Crash
  BY <1>6 DEF Crash, MemoryLost
<1>7. CASE CheckQueue
  BY <1>7 DEF CheckQueue
<1>8. CASE FetchBatch
  <2>1. CASE loop' = NextCheck /\ UNCHANGED <<batch, workers>>
    BY <1>8, <2>1, FetchCases DEF NextCheck
  <2>2. ASSUME NEW S \in SUBSET DueJobs, NEW T \in SUBSET {s \in Slot : ~busy(s)},
               NEW f \in [T -> S], Fetches(S, T, f)
        PROVE  SenderInv'
    <3>1. \A s, t \in T : f[s] = f[t] => s = t
      <4>1. IsFiniteSet(T) /\ Cardinality(T) = Cardinality(S) /\ f \in Surjection(T, S)
        BY <2>2, ConstantTypes, FS_Subset DEF Fetches, Surjection
      <4>2. f \in Injection(T, S)
        BY <2>2, <4>1, FS_Surjection
      <4> QED
        BY <4>2 DEF Injection, IsInjective
    <3>2. \A s \in T : f[s] \in Job /\ status[f[s]] = "pending"
      BY DEF DueJobs
    <3>3. /\ loop = "fetching" /\ loop' = "sending"
          /\ UNCHANGED <<endpoint, rows, inRetry, outside>>
          /\ \A s \in T : ~busy(s) /\ pc'[s] = "look" /\ job'[s] = f[s]
          /\ \A s \in Slot \ T : pc'[s] = pc[s] /\ job'[s] = job[s]
      BY <1>8, <2>2, FetchCases DEF Fetches
    <3>4. \A s \in Slot : busy(s)' =>
            \/ s \in T /\ status[job'[s]] = "pending"
            \/ s \notin T /\ busy(s) /\ job'[s] = job[s] /\ job[s] \in Job
                /\ (manual[job[s]] = 0 => status[job[s]] # "pending")
      BY <3>2, <3>3
    <3>5. OneSender'
      BY <3>1, <3>3, <3>4
    <3>6. DeletedIsGone'
      BY <3>2, <3>3, <3>4
    <3>7. SendersHaveClaimed'
      BY <3>3
    <3> QED
      BY <3>3, <3>5, <3>6, <3>7
  <2> QED
    BY <1>8, <2>1, <2>2, FetchCases
<1>9. ASSUME NEW s \in Slot, LookUpEndpoint(s) PROVE SenderInv'
  <2>1. \E next \in {"claim", "cancel", "catch"} : Goes(s, next)
    BY <1>9 DEF LookUpEndpoint
  <2> QED
    BY <1>9, <2>1 DEF LookUpEndpoint
<1>10. ASSUME NEW s \in Slot, CancelNotification(s) PROVE SenderInv'
  <2>1. busy(s) /\ EndWorker(s, FALSE) /\ UNCHANGED mode
    BY <1>10 DEF CancelNotification
  <2>2. UNCHANGED <<endpoint, inRetry, manual>>
    BY <1>10 DEF CancelNotification
  <2>3. \A j \in Job \ {job[s]} : status'[j] = status[j]
    BY <1>10 DEF CancelNotification
  <2>4. status'[job[s]] = "none" <=> status[job[s]] = "none"
    BY <1>10, <2>1 DEF CancelNotification, Writable
  <2> QED
    BY <2>1, <2>2, <2>3, <2>4, EndKeepsSenders
<1>11. ASSUME NEW s \in Slot, MarkSending(s) PROVE SenderInv'
  <2>1. /\ busy(s) /\ job[s] \in Job /\ status[job[s]] # "none"
        /\ UNCHANGED <<endpoint, loop, inRetry, manual, job>>
        /\ status' = [status EXCEPT ![job[s]] = "sending"]
        /\ pc' = [pc EXCEPT ![s] = "send"]
    BY <1>11 DEF MarkSending, Writable
  <2>2. OneSender'
    BY <2>1
  <2>3. DeletedIsGone'
    BY <2>1
  <2>4. SendersHaveClaimed'
    BY <2>1
  <2>5. FetchesTheFree'
    BY <2>1
  <2> QED
    BY <2>1, <2>2, <2>3, <2>4, <2>5
<1>12. ASSUME NEW s \in Slot, Send(s) PROVE SenderInv'
  BY <1>12 DEF Send
<1>13. ASSUME NEW s \in Slot, RecordResult(s) PROVE SenderInv'
  <2>1. busy(s) /\ EndWorker(s, FALSE) /\ UNCHANGED mode
    BY <1>13 DEF RecordResult
  <2>2. UNCHANGED <<endpoint, inRetry, manual>>
    BY <1>13 DEF RecordResult
  <2>3. \A j \in Job \ {job[s]} : status'[j] = status[j]
    BY <1>13 DEF RecordResult
  <2>4. status'[job[s]] = "none" <=> status[job[s]] = "none"
    BY <1>13, <2>1 DEF RecordResult, Writable
  <2> QED
    BY <2>1, <2>2, <2>3, <2>4, EndKeepsSenders
<1>14. ASSUME NEW s \in Slot, StatementFails(s) PROVE SenderInv'
  BY <1>14 DEF StatementFails
<1>15. ASSUME NEW s \in Slot, CatchError(s) PROVE SenderInv'
  <2>1. busy(s) /\ EndWorker(s, FALSE) /\ UNCHANGED mode
    BY <1>15 DEF CatchError
  <2>2. UNCHANGED <<endpoint, inRetry, manual>>
    BY <1>15 DEF CatchError
  <2>3. \A j \in Job \ {job[s]} : status'[j] = status[j]
    BY <1>15 DEF CatchError
  <2>4. status'[job[s]] = "none" <=> status[job[s]] = "none"
    BY <1>15, <2>1 DEF CatchError, Writable
  <2> QED
    BY <2>1, <2>2, <2>3, <2>4, EndKeepsSenders
<1>16. ASSUME NEW s \in Slot, WorkerRejects(s) PROVE SenderInv'
  <2>1. busy(s) /\ EndWorker(s, TRUE) /\ UNCHANGED mode
    BY <1>16 DEF WorkerRejects
  <2>2. UNCHANGED <<endpoint, inRetry, manual>>
    BY <1>16 DEF WorkerRejects
  <2>3. \A j \in Job \ {job[s]} : status'[j] = status[j]
    BY <1>16 DEF WorkerRejects
  <2>4. status'[job[s]] = "none" <=> status[job[s]] = "none"
    BY <1>16, <2>1 DEF WorkerRejects, Writable
  <2> QED
    BY <2>1, <2>2, <2>3, <2>4, EndKeepsSenders
<1>17. ASSUME NEW j \in Job, RetryNotification(j) PROVE SenderInv'
  <2>1. /\ UNCHANGED <<endpoint, rows, looping, workers>>
        /\ inRetry' = inRetry \cup {j}
        /\ manual' = [manual EXCEPT ![j] = @ + 1]
    BY <1>17 DEF RetryNotification
  <2>2. \A i \in Job : manual'[i] \in Nat /\ manual'[i] >= manual[i]
    BY <2>1
  <2>3. manual'[j] > 0
    BY <2>1
  <2>4. \A s \in Slot : busy(s) => job[s] \in Job
    OBVIOUS
  <2>5. RetriedByHand'
    BY <2>1, <2>2, <2>3
  <2>6. \A i \in Job : manual'[i] = 0 => manual[i] = 0
    BY <2>2
  <2>7. OneSender'
    BY <2>1, <2>4, <2>6
  <2>8. SendersHaveClaimed' /\ FetchesTheFree'
    BY <2>1, <2>4, <2>6
  <2> QED
    BY <2>1, <2>5, <2>7, <2>8
<1>18. ASSUME NEW j \in Job, ResetForRetry(j) PROVE SenderInv'
  <2>1. /\ UNCHANGED <<endpoint, looping, workers, manual>> /\ inRetry' \subseteq inRetry
        /\ manual[j] > 0
        /\ \/ UNCHANGED status
           \/ status[j] # "none" /\ status' = [status EXCEPT ![j] = "pending"]
    BY <1>18 DEF ResetForRetry, Writable
  <2>2. /\ \A i \in Job \ {j} : status'[i] = status[i]
        /\ status'[j] = "none" <=> status[j] = "none"
    BY <2>1
  <2>3. manual[j] # 0
    BY <2>1
  <2>4. \A s \in Slot : busy(s) => job[s] \in Job
    OBVIOUS
  <2>5. DeletedIsGone'
    BY <2>1, <2>2, <2>4
  <2>6. SendersHaveClaimed' /\ FetchesTheFree'
    BY <2>1, <2>2, <2>3, <2>4
  <2> QED
    BY <2>1, <2>5, <2>6
<1>19. ASSUME NEW j \in Job, RetryComesDue(j) PROVE SenderInv'
  BY <1>19 DEF RetryComesDue
<1>20. ASSUME NEW e \in Event, Publish(e) PROVE SenderInv'
  BY <1>20 DEF Publish
<1>21. ASSUME NEW e \in Event, NEW p \in Endpoint, Enqueue(e, p) PROVE SenderInv'
  <2> DEFINE j == <<IdOf[e], p>>
  <2>1. /\ UNCHANGED <<endpoint, looping, workers, inRetry, manual>>
        /\ status' = [status EXCEPT ![j] = IF @ = "none" THEN "pending" ELSE @]
        /\ endpoint[p] # "deleted"
    BY <1>21 DEF Enqueue
  <2>2. j \in Job /\ j[2] = p
    OBVIOUS
  <2> HIDE DEF j
  <2>3. \A s \in Slot : busy(s) => job[s] \in Job /\ (job[s] = j => status[j] # "none")
    BY <2>1, <2>2
  <2>4. /\ \A i \in Job \ {j} : status'[i] = status[i]
        /\ status'[j] # "none" /\ (status[j] # "none" => status'[j] = status[j])
    BY <2>1, <2>2
  <2>5. \A s \in Slot : busy(s) => status'[job[s]] = status[job[s]]
    BY <2>3, <2>4
  <2>6. DeletedIsGone'
    BY <2>1, <2>2, <2>4, <2>5
  <2>7. OneSender' /\ SendersHaveClaimed' /\ FetchesTheFree'
    BY <2>1, <2>5
  <2> QED
    BY <2>1, <2>6, <2>7
<1>22. ASSUME NEW e \in Event, NEW p \in Endpoint, EnqueueFails(e, p) PROVE SenderInv'
  BY <1>22 DEF EnqueueFails, MemoryLost
<1>23. ASSUME NEW p \in Endpoint, SwitchEndpoint(p) PROVE SenderInv'
  BY <1>23 DEF SwitchEndpoint
<1>24. ASSUME NEW p \in Endpoint, DeleteEndpoint(p) PROVE SenderInv'
  BY <1>24 DEF DeleteEndpoint
<1>25. CASE UNCHANGED vars
  BY <1>25 DEF vars
<1> QED
  BY <1>1, <1>2, <1>3, <1>4, <1>5, <1>6, <1>7, <1>8, <1>9, <1>10, <1>11, <1>12,
     <1>13, <1>14, <1>15, <1>16, <1>17, <1>18, <1>19, <1>20, <1>21, <1>22, <1>23,
     <1>24, <1>25
     DEF Next, Lifecycle, LoopStep, WorkerStep, JobStep

(* One sender at most, if a statement is done before the next check is due:      *)
(* a notification nobody has retried by hand is in the hands of one worker, even   *)
(* when a worker rejects and the loop goes on without the rest of its batch.       *)
THEOREM OneSenderAtMost ==
  ASSUME StatementsAreQuick
  PROVE  Spec => []OneSender
<1>1. Init => SenderInv
  <2> SUFFICES ASSUME Init PROVE SenderInv
    OBVIOUS
  <2>1. TypeInv
    BY InitTypeInv
  <2>2. /\ RetriedByHand /\ SendersHaveClaimed /\ FetchesTheFree /\ OneSender
        /\ \A s \in Slot : ~busy(s)
    BY DEF Init, RetriedByHand, SendersHaveClaimed, FetchesTheFree, OneSender, busy
  <2>3. DeletedIsGone
    BY <2>2 DEF Init, DeletedIsGone, Job
  <2> QED
    BY <2>1, <2>2, <2>3 DEF SenderInv
<1>2. SenderInv /\ [Next]_vars => SenderInv'
  BY NextSenderInv
<1>3. SenderInv => OneSender
  BY DEF SenderInv
<1> QED
  BY <1>1, <1>2, <1>3, PTL DEF Spec

-----------------------------------------------------------------------------
(* Nothing stays marked as sending.                                               *)

(* A worker that ends leaves its own row, and that is not marked as sending.       *)
LEMMA EndKeepsSending ==
  ASSUME SendingInv, TypeInv', NEW s \in Slot, busy(s),
         NEW rejects \in BOOLEAN, EndWorker(s, rejects),
         UNCHANGED <<endpoint, mode, died>>, failures' >= failures,
         \A j \in Job \ {job[s]} : status'[j] = status[j],
         status'[job[s]] = "none" <=> status[job[s]] = "none",
         ~died' /\ failures' <= 1 => status'[job[s]] # "sending"
  PROVE  SendingInv'
<1>1. /\ job[s] \in Job /\ ~busy(s)'
      /\ \A t \in Slot \ {s} : pc'[t] = pc[t] /\ job'[t] = job[t]
  BY WorkerGone DEF SendingInv
<1>2. \A t \in Slot : busy(t)' =>
        t # s /\ busy(t) /\ pc'[t] = pc[t] /\ job'[t] = job[t] /\ job[t] \in Job
  BY <1>1 DEF busy, SendingInv, TypeInv, TypeOK
<1>3. failures \in Nat /\ failures' \in Nat
  BY DEF SendingInv, TypeInv, TypeOK
<1>4. DeletedIsGone'
  BY <1>2 DEF SendingInv, DeletedIsGone
<1>5. ThrowsForAReason'
  BY <1>2, <1>3 DEF SendingInv, ThrowsForAReason, busy
<1>6. StopsClean'
  BY <1>3 DEF SendingInv, StopsClean
<1>7. SendingHasSender'
  BY <1>1, <1>3 DEF SendingInv, SendingHasSender
<1> QED
  BY <1>4, <1>5, <1>6, <1>7 DEF SendingInv

(* Every step keeps SendingInv: whoever leaves a row takes its mark away first. *)
LEMMA NextSendingInv ==
  ASSUME SendingInv, [Next]_vars
  PROVE  SendingInv'
<1>t. TypeInv'
  BY NextTypeInv DEF SendingInv
<1> USE <1>t, ConstantTypes
    DEF SendingInv, DeletedIsGone, ThrowsForAReason, StopsClean, SendingHasSender,
        TypeInv, TypeOK, StartsEmpty, busy, Goes, rows, looping, workers, outside, Job
<1>1. CASE StartProcessor
  BY <1>1 DEF StartProcessor
<1>2. CASE StartNotifications
  BY <1>2 DEF StartNotifications
<1>3. CASE StopQueue
  BY <1>3 DEF StopQueue
<1>4. CASE QueueStopped
  <2>1. \A s \in Slot : job[s] = Nobody
    BY <1>4 DEF QueueStopped
  <2>2. Nobody \notin Job
    OBVIOUS
  <2> QED
    BY <1>4, <2>1, <2>2 DEF QueueStopped
<1>5. CASE ProcessExits
  BY <1>5 DEF ProcessExits, MemoryLost
<1>6. CASE Crash
  BY <1>6 DEF Crash, MemoryLost
<1>7. CASE CheckQueue
  BY <1>7 DEF CheckQueue
<1>8. CASE FetchBatch
  <2>1. CASE loop' = NextCheck /\ UNCHANGED <<batch, workers>>
    BY <1>8, <2>1, FetchCases DEF NextCheck
  <2>2. ASSUME NEW S \in SUBSET DueJobs, NEW T \in SUBSET {s \in Slot : ~busy(s)},
               NEW f \in [T -> S], Fetches(S, T, f)
        PROVE  SendingInv'
    <3>1. \A s \in T : f[s] \in Job /\ status[f[s]] = "pending"
      BY DEF DueJobs
    <3>2. /\ UNCHANGED <<endpoint, rows, mode, outside>>
          /\ \A s \in T : ~busy(s) /\ pc'[s] = "look" /\ job'[s] = f[s]
          /\ \A s \in Slot \ T : pc'[s] = pc[s] /\ job'[s] = job[s]
      BY <1>8, <2>2, FetchCases DEF Fetches
    <3>3. DeletedIsGone' /\ ThrowsForAReason' /\ StopsClean'
      BY <3>1, <3>2
    <3>4. SendingHasSender'
      BY <3>2
    <3> QED
      BY <3>3, <3>4
  <2> QED
    BY <1>8, <2>1, <2>2, FetchCases
<1>9. ASSUME NEW s \in Slot, LookUpEndpoint(s) PROVE SendingInv'
  <2>1. /\ UNCHANGED <<endpoint, rows, mode, job, outside>>
        /\ busy(s) /\ job[s] \in Job /\ job[s][2] \in Endpoint
    BY <1>9 DEF LookUpEndpoint
  <2>2. CASE \E next \in {"claim", "cancel"} : Goes(s, next)
    BY <2>1, <2>2
  <2>3. CASE Goes(s, "catch") /\ endpoint[job[s][2]] \notin {"enabled", "disabled"}
    <3>1. status[job[s]] = "none"
      BY <2>1, <2>3
    <3> QED
      BY <2>1, <2>3, <3>1
  <2> HIDE DEF SendingInv
  <2> QED
    BY <1>9, <2>2, <2>3 DEF LookUpEndpoint
<1>10. ASSUME NEW s \in Slot, CancelNotification(s) PROVE SendingInv'
  <2>1. busy(s) /\ EndWorker(s, FALSE) /\ UNCHANGED <<endpoint, mode, died, failures>>
    BY <1>10 DEF CancelNotification
  <2>2. \A j \in Job \ {job[s]} : status'[j] = status[j]
    BY <1>10 DEF CancelNotification
  <2>3. /\ status'[job[s]] = "none" <=> status[job[s]] = "none"
        /\ status'[job[s]] # "sending"
    BY <1>10, <2>1 DEF CancelNotification, Writable
  <2>4. failures' >= failures
    BY <2>1
  <2> QED
    BY <2>1, <2>2, <2>3, <2>4, EndKeepsSending
<1>11. ASSUME NEW s \in Slot, MarkSending(s) PROVE SendingInv'
  <2>1. /\ busy(s) /\ job[s] \in Job /\ status[job[s]] # "none" /\ mode # "closing"
        /\ UNCHANGED <<endpoint, mode, job, died, failures>>
        /\ status' = [status EXCEPT ![job[s]] = "sending"]
        /\ pc' = [pc EXCEPT ![s] = "send"]
    BY <1>11 DEF MarkSending, Writable
  <2>2. mode \notin {"down", "starting", "closing"}
    BY <2>1
  <2>3. DeletedIsGone' /\ ThrowsForAReason' /\ StopsClean'
    BY <2>1, <2>2
  <2>4. SendingHasSender'
    BY <2>1
  <2> QED
    BY <2>3, <2>4
<1>12. ASSUME NEW s \in Slot, Send(s) PROVE SendingInv'
  BY <1>12 DEF Send
<1>13. ASSUME NEW s \in Slot, RecordResult(s) PROVE SendingInv'
  <2>1. busy(s) /\ EndWorker(s, FALSE) /\ UNCHANGED <<endpoint, mode, died, failures>>
    BY <1>13 DEF RecordResult
  <2>2. \A j \in Job \ {job[s]} : status'[j] = status[j]
    BY <1>13 DEF RecordResult
  <2>3. /\ status'[job[s]] = "none" <=> status[job[s]] = "none"
        /\ status'[job[s]] # "sending"
    BY <1>13, <2>1 DEF RecordResult, Writable
  <2>4. failures' >= failures
    BY <2>1
  <2> QED
    BY <2>1, <2>2, <2>3, <2>4, EndKeepsSending
<1>14. ASSUME NEW s \in Slot, StatementFails(s) PROVE SendingInv'
  BY <1>14 DEF StatementFails
<1>15. ASSUME NEW s \in Slot, CatchError(s) PROVE SendingInv'
  <2>1. busy(s) /\ EndWorker(s, FALSE) /\ UNCHANGED <<endpoint, mode, died, failures>>
    BY <1>15 DEF CatchError
  <2>2. \A j \in Job \ {job[s]} : status'[j] = status[j]
    BY <1>15 DEF CatchError
  <2>3. /\ status'[job[s]] = "none" <=> status[job[s]] = "none"
        /\ status'[job[s]] # "sending"
    BY <1>15, <2>1 DEF CatchError, Writable
  <2>4. failures' >= failures
    BY <2>1
  <2> QED
    BY <2>1, <2>2, <2>3, <2>4, EndKeepsSending
<1>16. ASSUME NEW s \in Slot, WorkerRejects(s) PROVE SendingInv'
  <2>1. /\ busy(s) /\ EndWorker(s, TRUE)
        /\ UNCHANGED <<endpoint, rows, mode, died>>
    BY <1>16 DEF WorkerRejects
  <2>2. failures' >= failures
    BY <1>16 DEF WorkerRejects
  <2>3. ~died' /\ failures' <= 1 => status[job[s]] # "sending"
    BY <1>16 DEF WorkerRejects, Writable
  <2> QED
    BY <2>1, <2>2, <2>3, EndKeepsSending
<1>17. ASSUME NEW j \in Job, RetryNotification(j) PROVE SendingInv'
  BY <1>17 DEF RetryNotification
<1>18. ASSUME NEW j \in Job, ResetForRetry(j) PROVE SendingInv'
  <2>1. /\ UNCHANGED <<endpoint, mode, workers, died, failures>>
        /\ \/ UNCHANGED status
           \/ status[j] # "none" /\ status' = [status EXCEPT ![j] = "pending"]
    BY <1>18 DEF ResetForRetry, Writable
  <2>2. /\ \A i \in Job \ {j} : status'[i] = status[i]
        /\ status'[j] = "none" <=> status[j] = "none"
        /\ status'[j] = "sending" => status[j] = "sending"
    BY <2>1
  <2>3. \A s \in Slot : busy(s) => job[s] \in Job
    OBVIOUS
  <2>4. DeletedIsGone'
    BY <2>1, <2>2, <2>3
  <2>5. ThrowsForAReason'
    BY <2>1, <2>2, <2>3
  <2>6. StopsClean' /\ SendingHasSender'
    BY <2>1, <2>2
  <2> QED
    BY <2>4, <2>5, <2>6
<1>19. ASSUME NEW j \in Job, RetryComesDue(j) PROVE SendingInv'
  BY <1>19 DEF RetryComesDue
<1>20. ASSUME NEW e \in Event, Publish(e) PROVE SendingInv'
  BY <1>20 DEF Publish
<1>21. ASSUME NEW e \in Event, NEW p \in Endpoint, Enqueue(e, p) PROVE SendingInv'
  <2> DEFINE j == <<IdOf[e], p>>
  <2>1. /\ UNCHANGED <<endpoint, mode, workers, died, failures>>
        /\ status' = [status EXCEPT ![j] = IF @ = "none" THEN "pending" ELSE @]
        /\ endpoint[p] # "deleted"
    BY <1>21 DEF Enqueue
  <2>2. j \in Job /\ j[2] = p
    OBVIOUS
  <2> HIDE DEF j
  <2>3. \A s \in Slot : busy(s) => job[s] \in Job /\ (job[s] = j => status[j] # "none")
    BY <2>1, <2>2
  <2>4. /\ \A i \in Job \ {j} : status'[i] = status[i]
        /\ status'[j] # "none" /\ (status[j] # "none" => status'[j] = status[j])
        /\ status'[j] = "sending" => status[j] = "sending"
    BY <2>1, <2>2
  <2>5. \A s \in Slot : busy(s) => status'[job[s]] = status[job[s]]
    BY <2>3, <2>4
  <2>6. DeletedIsGone'
    BY <2>1, <2>2, <2>4, <2>5
  <2>7. ThrowsForAReason' /\ StopsClean' /\ SendingHasSender'
    BY <2>1, <2>4, <2>5
  <2> QED
    BY <2>6, <2>7
<1>22. ASSUME NEW e \in Event, NEW p \in Endpoint, EnqueueFails(e, p) PROVE SendingInv'
  BY <1>22 DEF EnqueueFails, MemoryLost
<1>23. ASSUME NEW p \in Endpoint, SwitchEndpoint(p) PROVE SendingInv'
  BY <1>23 DEF SwitchEndpoint
<1>24. ASSUME NEW p \in Endpoint, DeleteEndpoint(p) PROVE SendingInv'
  BY <1>24 DEF DeleteEndpoint
<1>25. CASE UNCHANGED vars
  BY <1>25 DEF vars
<1> QED
  BY <1>1, <1>2, <1>3, <1>4, <1>5, <1>6, <1>7, <1>8, <1>9, <1>10, <1>11, <1>12,
     <1>13, <1>14, <1>15, <1>16, <1>17, <1>18, <1>19, <1>20, <1>21, <1>22, <1>23,
     <1>24, <1>25
     DEF Next, Lifecycle, LoopStep, WorkerStep, JobStep

(* As long as the process has not died and one statement at most has failed, a     *)
(* notification marked as sending has a worker that will record how it went: a      *)
(* graceful stop leaves none behind, however many workers and rows there are.       *)
THEOREM SendingIsAttended == Spec => []SendingHasSender
<1>1. Init => SendingInv
  <2> SUFFICES ASSUME Init PROVE SendingInv
    OBVIOUS
  <2>1. TypeInv
    BY InitTypeInv
  <2>2. /\ \A j \in Job : status[j] = "none"
        /\ \A s \in Slot : ~busy(s) /\ pc[s] # "catch"
        /\ \A j \in Job : endpoint[j[2]] # "deleted"
    BY DEF Init, busy, Job
  <2> QED
    BY <2>1, <2>2 DEF SendingInv, DeletedIsGone, ThrowsForAReason, StopsClean,
       SendingHasSender
<1>2. SendingInv /\ [Next]_vars => SendingInv'
  BY NextSendingInv
<1>3. SendingInv => SendingHasSender
  BY DEF SendingInv
<1> QED
  BY <1>1, <1>2, <1>3, PTL DEF Spec

-----------------------------------------------------------------------------
(* The attempts.                                                             *)

(* How often a worker that has claimed its row may still send, or have sent.   *)
PotOf(step, n) ==
  CASE step = "send" -> MaxRetries + 1 - n
    [] step = "again" -> MaxRetries - n
    [] OTHER -> 0

(* The attempts workers at steps p, with rows b and counts t, owe j, one pair  *)
(* for each.                                                                   *)
OwedBy(p, b, t, j) ==
  {x \in Slot \X (1..MaxRetries + 1) :
     b[x[1]] = j /\ x[2] <= PotOf(p[x[1]], t[x[1]])}

(* There are finitely many of them.                                            *)
LEMMA OwedIsFinite ==
  ASSUME NEW p, NEW b, NEW t, NEW j
  PROVE  /\ IsFiniteSet(OwedBy(p, b, t, j))
         /\ Cardinality(OwedBy(p, b, t, j)) \in Nat
<1>1. IsFiniteSet(1..MaxRetries + 1)
  BY ConstantTypes, FS_Interval
<1>2. IsFiniteSet(Slot \X (1..MaxRetries + 1))
  BY <1>1, ConstantTypes, FS_Product
<1>3. OwedBy(p, b, t, j) \subseteq Slot \X (1..MaxRetries + 1)
  BY DEF OwedBy
<1>4. IsFiniteSet(OwedBy(p, b, t, j))
  BY <1>2, <1>3, FS_Subset
<1> QED
  BY <1>4, FS_CardinalityType

(* Less is owed when every worker owes less.                                   *)
LEMMA OwedLess ==
  ASSUME NEW p, NEW b, NEW t, NEW p2, NEW b2, NEW t2, NEW j,
         \A s \in Slot, k \in 1..MaxRetries + 1 :
           b2[s] = j /\ k <= PotOf(p2[s], t2[s]) => b[s] = j /\ k <= PotOf(p[s], t[s])
  PROVE  Cardinality(OwedBy(p2, b2, t2, j)) <= Cardinality(OwedBy(p, b, t, j))
<1>1. OwedBy(p2, b2, t2, j) \subseteq OwedBy(p, b, t, j)
  BY DEF OwedBy
<1> QED
  BY <1>1, OwedIsFinite, FS_Subset

(* Two states of the workers that differ in one of them.                       *)
DifferIn(s, p, b, t, p2, b2, t2) ==
  \A u \in Slot \ {s} : b2[u] = b[u] /\ p2[u] = p[u] /\ t2[u] = t[u]

(* What is owed grows by what a worker owes that owed nothing before.          *)
LEMMA OwedMore ==
  ASSUME NEW p, NEW b, NEW t, NEW p2, NEW b2, NEW t2,
         NEW s \in Slot, DifferIn(s, p, b, t, p2, b2, t2),
         PotOf(p2[s], t2[s]) \in 0..MaxRetries + 1,
         b[s] = b2[s] => PotOf(p[s], t[s]) = 0
  PROVE  Cardinality(OwedBy(p2, b2, t2, b2[s]))
           = Cardinality(OwedBy(p, b, t, b2[s])) + PotOf(p2[s], t2[s])
<1> DEFINE j == b2[s]
           n == PotOf(p2[s], t2[s])
           X == {s} \X (1..n)
<1>1. MaxRetries + 1 \in Nat /\ n \in Nat
  BY ConstantTypes
<1>2. IsFiniteSet(1..n) /\ Cardinality(1..n) = n
  BY <1>1, FS_Interval
<1>3. IsFiniteSet(X) /\ Cardinality(X) = n
  <2>1. IsFiniteSet({s}) /\ Cardinality({s}) = 1
    BY FS_Singleton
  <2>2. IsFiniteSet(X) /\ Cardinality(X) = Cardinality({s}) * Cardinality(1..n)
    BY <2>1, <1>2, FS_Product
  <2>3. 1 * n = n
    BY <1>1
  <2> QED
    BY <2>1, <2>2, <2>3, <1>2
<1>4. OwedBy(p2, b2, t2, j) = OwedBy(p, b, t, j) \cup X
  <2>1. ASSUME NEW x \in Slot \X (1..MaxRetries + 1)
        PROVE  x \in OwedBy(p2, b2, t2, j) <=> x \in OwedBy(p, b, t, j) \cup X
    <3>1. x[1] \in Slot /\ x[2] \in 1..MaxRetries + 1 /\ x = <<x[1], x[2]>>
      OBVIOUS
    <3>2. x \in X <=> x[1] = s /\ x[2] \in 1..n
      BY <3>1
    <3>3. CASE x[1] = s
      <4>1. ~(x[2] <= 0)
        BY <3>1, <1>1
      <4>2. x \notin OwedBy(p, b, t, j)
        BY <3>3, <4>1 DEF OwedBy
      <4>3. x \in OwedBy(p2, b2, t2, j) <=> x[2] <= n
        BY <3>3, <2>1 DEF OwedBy
      <4>4. x[2] <= n <=> x[2] \in 1..n
        BY <3>1, <1>1
      <4> QED
        BY <3>2, <3>3, <4>2, <4>3, <4>4
    <3>4. CASE x[1] # s
      <4>1. b2[x[1]] = b[x[1]] /\ p2[x[1]] = p[x[1]] /\ t2[x[1]] = t[x[1]]
        BY <3>1, <3>4 DEF DifferIn
      <4>2. x \in OwedBy(p2, b2, t2, j) <=> x \in OwedBy(p, b, t, j)
        BY <4>1 DEF OwedBy
      <4> QED
        BY <3>2, <3>4, <4>2
    <3> QED
      BY <3>3, <3>4
  <2>2. X \subseteq Slot \X (1..MaxRetries + 1)
    BY <1>1
  <2>3. /\ OwedBy(p2, b2, t2, j) \subseteq Slot \X (1..MaxRetries + 1)
        /\ OwedBy(p, b, t, j) \subseteq Slot \X (1..MaxRetries + 1)
    BY DEF OwedBy
  <2> HIDE DEF X
  <2> QED
    BY <2>1, <2>2, <2>3
<1>5. OwedBy(p, b, t, j) \cap X = {}
  <2>1. ASSUME NEW x \in OwedBy(p, b, t, j), x \in X PROVE FALSE
    <3>1. x[1] = s /\ x[2] \in 1..n /\ b[s] = j /\ x[2] <= PotOf(p[s], t[s])
      BY <2>1 DEF OwedBy
    <3>2. x[2] <= 0
      BY <3>1
    <3> QED
      BY <3>1, <3>2, <1>1
  <2> QED
    BY <2>1
<1>6. Cardinality(OwedBy(p, b, t, j) \cup X)
        = Cardinality(OwedBy(p, b, t, j)) + n - Cardinality(OwedBy(p, b, t, j) \cap X)
  <2> HIDE DEF X, n
  <2> QED
    BY <1>3, OwedIsFinite, FS_Union
<1>7. Cardinality(OwedBy(p, b, t, j) \cap X) = 0
  BY <1>5, FS_EmptySet
<1>8. Cardinality(OwedBy(p2, b2, t2, j)) = Cardinality(OwedBy(p, b, t, j)) + n
  <2> HIDE DEF X, n
  <2> QED
    BY <1>1, <1>4, <1>6, <1>7, OwedIsFinite
<1> QED
  BY <1>8

(* Workers that have a row and have not claimed it yet.                        *)
Unclaimed == {s \in Slot : pc[s] \in {"look", "claim"}}

(* What has been sent for a row, is owed by workers, or in the hands of an      *)
(* operator, who gives the row a whole round.                                   *)
used ==
  [j \in Job |-> attempts[j] + Cardinality(OwedBy(pc, job, tried, j))
                   + (IF j \in inRetry THEN MaxRetries + 1 ELSE 0)]

(* What the row itself still promises.                                          *)
left ==
  [j \in Job |->
     CASE status[j] = "pending" -> MaxRetries + 1 - tries[j]
       [] status[j] = "none" /\ endpoint[j[2]] # "deleted" -> MaxRetries + 1
       [] OTHER -> 0]

(* A round of attempts, and one more for each manual retry.                     *)
allowed == [j \in Job |-> (1 + MaxRetries) * (1 + manual[j])]

(* Nothing is promised beyond what is allowed, by the row or by a worker that   *)
(* may still claim it, whatever became of the row meanwhile.                    *)
Covered ==
  \A j \in Job :
    /\ used[j] + left[j] <= allowed[j]
    /\ \A s \in Unclaimed : job[s] = j =>
         used[j] + (MaxRetries + 1 - tried[s]) <= allowed[j]

(* Two workers never have the same row and both have to claim it yet.           *)
ClaimsDiffer == \A s, t \in Unclaimed : job[s] = job[t] => s = t

(* The inductive invariant behind AttemptsAreBounded.                          *)
BudgetInv ==
  /\ TypeInv
  /\ Covered
  /\ ClaimsDiffer
  /\ loop = "fetching" => Unclaimed = {}

(* The accounts are numbers.                                                   *)
LEMMA AccountsAreNumbers ==
  ASSUME TypeInv, NEW j \in Job
  PROVE  /\ used[j] \in Nat /\ left[j] \in 0..MaxRetries + 1 /\ allowed[j] \in Nat
         /\ attempts[j] <= used[j]
<1>1. /\ attempts[j] \in Nat /\ manual[j] \in Nat /\ tries[j] \in 0..MaxRetries
      /\ MaxRetries \in Nat
  BY ConstantTypes DEF TypeInv, TypeOK
<1>2. Cardinality(OwedBy(pc, job, tried, j)) \in Nat
  BY OwedIsFinite
<1>3. used[j] \in Nat /\ attempts[j] <= used[j]
  BY <1>1, <1>2 DEF used
<1>4. left[j] \in 0..MaxRetries + 1
  BY <1>1 DEF left
<1>5. allowed[j] \in Nat
  BY <1>1 DEF allowed
<1> QED
  BY <1>3, <1>4, <1>5

(* So they are after a step.                                                   *)
LEMMA AccountsStayNumbers ==
  ASSUME TypeInv', NEW j \in Job
  PROVE  used'[j] \in Nat /\ left'[j] \in 0..MaxRetries + 1
<1>1. /\ attempts'[j] \in Nat /\ tries'[j] \in 0..MaxRetries
      /\ MaxRetries \in Nat
  BY ConstantTypes DEF TypeInv, TypeOK
<1>2. Cardinality(OwedBy(pc', job', tried', j)) \in Nat
  BY OwedIsFinite
<1>3. used'[j] \in Nat
  BY <1>1, <1>2 DEF used
<1>4. left'[j] \in 0..MaxRetries + 1
  BY <1>1 DEF left
<1> QED
  BY <1>3, <1>4

(* Workers that do not claim and do not send owe no more than before.          *)
LEMMA UsesLess ==
  ASSUME TypeInv, TypeInv', UNCHANGED attempts, inRetry' \subseteq inRetry,
         \A s \in Slot : pc'[s] \in {"send", "again"} =>
           pc'[s] = pc[s] /\ job'[s] = job[s] /\ tried'[s] = tried[s],
         NEW j \in Job
  PROVE  used'[j] <= used[j]
<1>1. ASSUME NEW s \in Slot, NEW k \in 1..MaxRetries + 1,
             job'[s] = j, k <= PotOf(pc'[s], tried'[s])
      PROVE  job[s] = j /\ k <= PotOf(pc[s], tried[s])
  <2>1. pc'[s] \in {"send", "again"}
    BY <1>1, ConstantTypes DEF PotOf
  <2> QED
    BY <1>1, <2>1
<1>2. Cardinality(OwedBy(pc', job', tried', j)) <= Cardinality(OwedBy(pc, job, tried, j))
  BY <1>1, OwedLess
<1>3. /\ Cardinality(OwedBy(pc', job', tried', j)) \in Nat
      /\ Cardinality(OwedBy(pc, job, tried, j)) \in Nat
  BY OwedIsFinite
<1>4. attempts[j] \in Nat /\ MaxRetries \in Nat
  BY ConstantTypes DEF TypeInv, TypeOK
<1> QED
  BY <1>2, <1>3, <1>4 DEF used

(* A step that uses no more, and lets the row promise no more than it has used   *)
(* less, keeps BudgetInv.                                                       *)
LEMMA SpendsLess ==
  ASSUME BudgetInv, TypeInv', UNCHANGED manual,
         \A j \in Job : used'[j] <= used[j] /\ used'[j] + left'[j] <= used[j] + left[j],
         \A s \in Slot : pc'[s] \in {"look", "claim"} =>
           s \in Unclaimed /\ job'[s] = job[s] /\ tried'[s] = tried[s],
         loop' = "fetching" => loop = "fetching" \/ Unclaimed' = {}
  PROVE  BudgetInv'
<1>1. \A j \in Job :
        /\ used[j] \in Nat /\ left[j] \in Nat /\ allowed[j] \in Nat
        /\ used'[j] \in Nat /\ left'[j] \in Nat /\ allowed'[j] = allowed[j]
  <2>1. \A j \in Job : used[j] \in Nat /\ left[j] \in Nat /\ allowed[j] \in Nat
    BY AccountsAreNumbers, ConstantTypes DEF BudgetInv
  <2>2. \A j \in Job : used'[j] \in Nat /\ left'[j] \in Nat
    BY AccountsStayNumbers, ConstantTypes
  <2>3. \A j \in Job : allowed'[j] = allowed[j]
    BY DEF allowed
  <2> QED
    BY <2>1, <2>2, <2>3
<1>2. \A s \in Unclaimed' : s \in Unclaimed /\ job'[s] = job[s] /\ tried'[s] = tried[s]
  BY DEF Unclaimed
<1>3. ClaimsDiffer'
  BY <1>2 DEF BudgetInv, ClaimsDiffer
<1>4. ASSUME NEW j \in Job
      PROVE  /\ used'[j] + left'[j] <= allowed'[j]
             /\ \A s \in Unclaimed' : job'[s] = j =>
                  used'[j] + (MaxRetries + 1 - tried'[s]) <= allowed'[j]
  <2>1. used[j] + left[j] <= allowed[j]
    BY DEF BudgetInv, Covered
  <2>2. used'[j] + left'[j] <= allowed'[j]
    BY <1>1, <2>1
  <2>3. ASSUME NEW s \in Unclaimed', job'[s] = j
        PROVE  used'[j] + (MaxRetries + 1 - tried'[s]) <= allowed'[j]
    <3>1. used[j] + (MaxRetries + 1 - tried[s]) <= allowed[j] /\ tried'[s] = tried[s]
      BY <1>2, <2>3 DEF BudgetInv, Covered
    <3>2. tried[s] \in Nat /\ MaxRetries \in Nat
      BY <1>2, ConstantTypes DEF BudgetInv, TypeInv, TypeOK, Unclaimed
    <3> QED
      BY <1>1, <3>1, <3>2
  <2> QED
    BY <2>2, <2>3
<1>5. Covered'
  BY <1>4 DEF Covered
<1>6. loop' = "fetching" => Unclaimed' = {}
  BY <1>2 DEF BudgetInv
<1> QED
  BY <1>3, <1>5, <1>6 DEF BudgetInv

(* A step that leaves the attempts alone and claims nothing keeps BudgetInv, if   *)
(* the rows promise no more than before.                                        *)
LEMMA QuietStep ==
  ASSUME BudgetInv, TypeInv', UNCHANGED <<attempts, manual>>, inRetry' \subseteq inRetry,
         \A s \in Slot : pc'[s] \in {"look", "claim", "send", "again"} =>
           /\ pc'[s] = pc[s] \/ (pc[s] = "look" /\ pc'[s] = "claim")
           /\ job'[s] = job[s] /\ tried'[s] = tried[s],
         \A j \in Job : left'[j] <= left[j],
         loop' = "fetching" => loop = "fetching" \/ Unclaimed' = {}
  PROVE  BudgetInv'
<1>1. \A j \in Job : used'[j] <= used[j]
  BY UsesLess DEF BudgetInv
<1>2. \A j \in Job : used'[j] + left'[j] <= used[j] + left[j]
  <2>1. \A j \in Job : used[j] \in Nat /\ left[j] \in Nat
    BY AccountsAreNumbers, ConstantTypes DEF BudgetInv
  <2>2. \A j \in Job : used'[j] \in Nat /\ left'[j] \in Nat
    BY AccountsStayNumbers, ConstantTypes
  <2> QED
    BY <1>1, <2>1, <2>2
<1>3. \A s \in Slot : pc'[s] \in {"look", "claim"} =>
        s \in Unclaimed /\ job'[s] = job[s] /\ tried'[s] = tried[s]
  BY DEF Unclaimed
<1> QED
  BY <1>1, <1>2, <1>3, SpendsLess

(* A worker that ends owes nothing any more; its row may end, or it promises     *)
(* what it promised.                                                           *)
LEMMA EndKeepsBudget ==
  ASSUME BudgetInv, TypeInv', NEW s \in Slot, busy(s),
         NEW rejects \in BOOLEAN, EndWorker(s, rejects),
         UNCHANGED <<attempts, manual, inRetry>>,
         \A j \in Job : left'[j] <= left[j]
  PROVE  BudgetInv'
<1>1. /\ pc' = [pc EXCEPT ![s] = "idle"]
      /\ job' = [job EXCEPT ![s] = Nobody] /\ tried' = [tried EXCEPT ![s] = 0]
      /\ loop' = "fetching" => loop = "fetching"
  BY WorkerGone DEF BudgetInv, EndWorker
<1>2. \A t \in Slot : pc'[t] # "idle" =>
        pc'[t] = pc[t] /\ job'[t] = job[t] /\ tried'[t] = tried[t]
  BY <1>1 DEF BudgetInv, TypeInv, TypeOK
<1> QED
  BY <1>1, <1>2, QuietStep

(* Whoever claims a row takes over what he read, and the row promises no more.   *)
LEMMA ClaimKeepsBudget ==
  ASSUME BudgetInv, TypeInv', NEW s \in Slot, MarkSending(s)
  PROVE  BudgetInv'
<1> DEFINE j == job[s]
           n == MaxRetries + 1 - tried[s]
<1>1. /\ pc[s] = "claim" /\ s \in Unclaimed /\ j \in Job /\ status[j] # "none"
      /\ n \in 0..MaxRetries + 1 /\ MaxRetries \in Nat
  BY ConstantTypes
     DEF MarkSending, Writable, Unclaimed, BudgetInv, TypeInv, TypeOK, busy
<1>2. /\ pc' = [pc EXCEPT ![s] = "send"] /\ status' = [status EXCEPT ![j] = "sending"]
      /\ UNCHANGED <<endpoint, tries, loop, job, tried, inRetry, attempts, manual>>
  BY DEF MarkSending, Goes, looping, outside
<1>3. pc'[s] = "send" /\ \A t \in Slot \ {s} : pc'[t] = pc[t]
  BY <1>2 DEF BudgetInv, TypeInv, TypeOK
<1>4. Cardinality(OwedBy(pc', job', tried', j)) = Cardinality(OwedBy(pc, job, tried, j)) + n
  <2>1. PotOf(pc[s], tried[s]) = 0 /\ PotOf(pc'[s], tried'[s]) = n
    BY <1>1, <1>2, <1>3 DEF PotOf
  <2>2. DifferIn(s, pc, job, tried, pc', job', tried')
    BY <1>2, <1>3 DEF DifferIn
  <2>3. n \in 0..MaxRetries + 1 /\ job'[s] = j
    BY <1>1, <1>2
  <2> HIDE DEF n
  <2> QED
    BY <2>1, <2>2, <2>3, OwedMore
<1>5. used'[j] = used[j] + n
  <2>1. /\ Cardinality(OwedBy(pc', job', tried', j)) \in Nat
        /\ Cardinality(OwedBy(pc, job, tried, j)) \in Nat
    BY OwedIsFinite
  <2>2. attempts[j] \in Nat
    BY <1>1 DEF BudgetInv, TypeInv, TypeOK
  <2> HIDE DEF n, j
  <2> QED
    BY <1>1, <1>2, <1>4, <2>1, <2>2 DEF used
<1>6. ASSUME NEW i \in Job \ {j} PROVE used'[i] <= used[i]
  <2>1. ASSUME NEW t \in Slot, NEW k \in 1..MaxRetries + 1,
               job'[t] = i, k <= PotOf(pc'[t], tried'[t])
        PROVE  job[t] = i /\ k <= PotOf(pc[t], tried[t])
    BY <1>2, <1>3, <2>1
  <2>2. Cardinality(OwedBy(pc', job', tried', i)) <= Cardinality(OwedBy(pc, job, tried, i))
    BY <2>1, OwedLess
  <2>3. /\ Cardinality(OwedBy(pc', job', tried', i)) \in Nat
        /\ Cardinality(OwedBy(pc, job, tried, i)) \in Nat
    BY OwedIsFinite
  <2>4. attempts[i] \in Nat
    BY DEF BudgetInv, TypeInv, TypeOK
  <2> QED
    BY <1>1, <1>2, <2>2, <2>3, <2>4 DEF used
<1>7. left'[j] = 0 /\ \A i \in Job \ {j} : left'[i] = left[i]
  <2>1. status'[j] = "sending" /\ \A i \in Job \ {j} : status'[i] = status[i]
    BY <1>1, <1>2 DEF BudgetInv, TypeInv, TypeOK
  <2> HIDE DEF j
  <2> QED
    BY <1>1, <1>2, <2>1 DEF left
<1>8. \A t \in Unclaimed' :
        t \in Unclaimed /\ t # s /\ job'[t] = job[t] /\ tried'[t] = tried[t]
  BY <1>2, <1>3 DEF Unclaimed
<1>9. \A t \in Unclaimed' : job'[t] # j
  BY <1>1, <1>8 DEF BudgetInv, ClaimsDiffer
<1>10. \A i \in Job : /\ used[i] \in Nat /\ left[i] \in Nat /\ allowed[i] \in Nat
                      /\ used'[i] \in Nat /\ allowed'[i] = allowed[i]
  BY <1>2, AccountsAreNumbers, AccountsStayNumbers, ConstantTypes DEF BudgetInv, allowed
<1>11. used'[j] + left'[j] <= allowed'[j]
  <2>1. used[j] + n <= allowed[j]
    BY <1>1 DEF BudgetInv, Covered
  <2> HIDE DEF n, j
  <2> QED
    BY <1>1, <1>5, <1>7, <1>10, <2>1
<1>12. ASSUME NEW i \in Job \ {j}
       PROVE  /\ used'[i] + left'[i] <= allowed'[i]
              /\ \A t \in Unclaimed' : job'[t] = i =>
                   used'[i] + (MaxRetries + 1 - tried'[t]) <= allowed'[i]
  <2>1. used[i] + left[i] <= allowed[i]
    BY DEF BudgetInv, Covered
  <2>2. used'[i] + left'[i] <= allowed'[i]
    BY <1>6, <1>7, <1>10, <2>1
  <2>3. ASSUME NEW t \in Unclaimed', job'[t] = i
        PROVE  used'[i] + (MaxRetries + 1 - tried'[t]) <= allowed'[i]
    <3>1. used[i] + (MaxRetries + 1 - tried[t]) <= allowed[i] /\ tried'[t] = tried[t]
      BY <1>8, <2>3 DEF BudgetInv, Covered
    <3>2. tried[t] \in Nat
      BY <1>8, ConstantTypes DEF BudgetInv, TypeInv, TypeOK, Unclaimed
    <3> QED
      BY <1>1, <1>6, <1>10, <3>1, <3>2
  <2> QED
    BY <2>2, <2>3
<1>13. Covered'
  <2> HIDE DEF j
  <2> QED
    BY <1>9, <1>11, <1>12 DEF Covered
<1>14. ClaimsDiffer' /\ (loop' = "fetching" => Unclaimed' = {})
  BY <1>2, <1>8 DEF BudgetInv, ClaimsDiffer
<1> QED
  BY <1>13, <1>14 DEF BudgetInv

(* Every request is one the worker owed.                                       *)
LEMMA SendKeepsBudget ==
  ASSUME BudgetInv, TypeInv', NEW s \in Slot, Send(s)
  PROVE  BudgetInv'
<1> DEFINE j == job[s]
           idle == [pc EXCEPT ![s] = "idle"]
           Before == Cardinality(OwedBy(pc, job, tried, j))
           After == Cardinality(OwedBy(pc', job', tried', j))
           Base == Cardinality(OwedBy(idle, job, tried, j))
<1>1. /\ pc[s] = "send" /\ j \in Job /\ tried[s] \in 0..MaxRetries /\ MaxRetries \in Nat
  BY ConstantTypes DEF Send, BudgetInv, TypeInv, TypeOK, busy
<1>2. /\ UNCHANGED <<endpoint, status, tries, loop, job, tried, inRetry, manual>>
      /\ attempts' = [attempts EXCEPT ![j] = @ + 1]
  BY DEF Send, rows, looping
<1>3. PICK next \in {"ok", "bad", "again"} :
        pc' = [pc EXCEPT ![s] = next] /\ (next = "again" => tried[s] < MaxRetries)
  BY DEF Send, Goes, ShouldRetry
<1>4. /\ pc'[s] = next /\ idle[s] = "idle"
      /\ \A t \in Slot \ {s} : pc'[t] = pc[t] /\ idle[t] = pc[t]
  BY <1>3 DEF BudgetInv, TypeInv, TypeOK
<1>5. Before = Base + (MaxRetries + 1 - tried[s])
  <2>1. PotOf(pc[s], tried[s]) = MaxRetries + 1 - tried[s] /\ PotOf(idle[s], tried[s]) = 0
    BY <1>1, <1>4 DEF PotOf
  <2>2. DifferIn(s, idle, job, tried, pc, job, tried)
    BY <1>4 DEF DifferIn
  <2>3. MaxRetries + 1 - tried[s] \in 0..MaxRetries + 1
    BY <1>1
  <2> HIDE DEF idle
  <2> QED
    BY <2>1, <2>2, <2>3, OwedMore
<1>6. /\ After = Base + PotOf(next, tried[s])
      /\ PotOf(next, tried[s]) \in 0..MaxRetries - tried[s]
  <2>1. /\ PotOf(pc'[s], tried'[s]) \in 0..MaxRetries - tried[s]
        /\ PotOf(idle[s], tried[s]) = 0
    BY <1>1, <1>2, <1>3, <1>4 DEF PotOf
  <2>2. DifferIn(s, idle, job, tried, pc', job', tried')
    BY <1>2, <1>4 DEF DifferIn
  <2>3. PotOf(pc'[s], tried'[s]) \in 0..MaxRetries + 1 /\ job'[s] = j
    BY <1>1, <1>2, <2>1
  <2> HIDE DEF idle
  <2>4. Cardinality(OwedBy(pc', job', tried', job'[s]))
          = Cardinality(OwedBy(idle, job, tried, job'[s])) + PotOf(pc'[s], tried'[s])
    BY <2>1, <2>2, <2>3, OwedMore
  <2> QED
    BY <1>2, <1>4, <2>1, <2>4
<1>7. Before \in Nat /\ After \in Nat /\ Base \in Nat
  BY OwedIsFinite
<1>8. After + 1 <= Before
  <2> HIDE DEF Before, After, Base
  <2> QED
    BY <1>1, <1>5, <1>6, <1>7
<1>9. used'[j] <= used[j]
  <2>1. attempts[j] \in Nat /\ attempts'[j] = attempts[j] + 1
    BY <1>1, <1>2 DEF BudgetInv, TypeInv, TypeOK
  <2>2. /\ used[j] = attempts[j] + Before + (IF j \in inRetry THEN MaxRetries + 1 ELSE 0)
        /\ used'[j] = attempts'[j] + After + (IF j \in inRetry' THEN MaxRetries + 1 ELSE 0)
    BY <1>1 DEF used
  <2> HIDE DEF Before, After, Base, j
  <2> QED
    BY <1>1, <1>2, <1>7, <1>8, <2>1, <2>2
<1>10. ASSUME NEW i \in Job \ {j} PROVE used'[i] <= used[i]
  <2>1. ASSUME NEW t \in Slot, NEW k \in 1..MaxRetries + 1,
               job'[t] = i, k <= PotOf(pc'[t], tried'[t])
        PROVE  job[t] = i /\ k <= PotOf(pc[t], tried[t])
    BY <1>2, <1>4, <2>1
  <2>2. Cardinality(OwedBy(pc', job', tried', i)) <= Cardinality(OwedBy(pc, job, tried, i))
    BY <2>1, OwedLess
  <2>3. /\ Cardinality(OwedBy(pc', job', tried', i)) \in Nat
        /\ Cardinality(OwedBy(pc, job, tried, i)) \in Nat
    BY OwedIsFinite
  <2>4. attempts[i] \in Nat /\ attempts'[i] = attempts[i]
    BY <1>2 DEF BudgetInv, TypeInv, TypeOK
  <2> QED
    BY <1>1, <1>2, <2>2, <2>3, <2>4 DEF used
<1>11. \A i \in Job : used'[i] <= used[i] /\ used'[i] + left'[i] <= used[i] + left[i]
  <2>1. \A i \in Job : used'[i] <= used[i]
    <3> HIDE DEF j
    <3> QED
      BY <1>9, <1>10
  <2>2. \A i \in Job : left'[i] = left[i]
    BY <1>2 DEF left
  <2>3. \A i \in Job : used[i] \in Nat /\ left[i] \in Nat /\ used'[i] \in Nat
    BY AccountsAreNumbers, AccountsStayNumbers, ConstantTypes DEF BudgetInv
  <2> QED
    BY <2>1, <2>2, <2>3
<1>12. \A t \in Slot : pc'[t] \in {"look", "claim"} =>
         t \in Unclaimed /\ job'[t] = job[t] /\ tried'[t] = tried[t]
  BY <1>2, <1>3, <1>4 DEF Unclaimed
<1> QED
  BY <1>2, <1>11, <1>12, SpendsLess

(* What a worker that tries again owed, the row promises from now on.          *)
LEMMA RecordKeepsBudget ==
  ASSUME BudgetInv, TypeInv', NEW s \in Slot, RecordResult(s)
  PROVE  BudgetInv'
<1> DEFINE j == job[s]
<1>1. /\ pc[s] \in {"ok", "bad", "again"} /\ busy(s) /\ j \in Job /\ status[j] # "none"
      /\ tried[s] \in 0..MaxRetries /\ MaxRetries \in Nat
  BY ConstantTypes DEF RecordResult, Writable, BudgetInv, TypeInv, TypeOK, busy
<1>2. UNCHANGED <<endpoint, inRetry, attempts, manual>> /\ EndWorker(s, FALSE)
  BY DEF RecordResult, outside
<1>3. \A i \in Job \ {j} : left'[i] = left[i]
  <2>1. \A i \in Job \ {j} : status'[i] = status[i] /\ tries'[i] = tries[i]
    BY <1>1 DEF RecordResult, BudgetInv, TypeInv, TypeOK
  <2> HIDE DEF j
  <2> QED
    BY <1>2, <2>1 DEF left
<1>4. \A i \in Job : /\ used[i] \in Nat /\ left[i] \in Nat
                     /\ used'[i] \in Nat /\ left'[i] \in Nat
  BY AccountsAreNumbers, AccountsStayNumbers, ConstantTypes DEF BudgetInv
<1>5. CASE pc[s] # "again"
  <2>1. status'[j] \in {"success", "failed"}
    BY <1>1, <1>5 DEF RecordResult, BudgetInv, TypeInv, TypeOK
  <2>2. left'[j] = 0
    BY <1>1, <2>1 DEF left
  <2>3. \A i \in Job : left'[i] <= left[i]
    <3> HIDE DEF j
    <3> QED
      BY <1>3, <1>4, <2>2
  <2> QED
    BY <1>1, <1>2, <2>3, EndKeepsBudget
<1>6. CASE pc[s] = "again"
  <2> DEFINE n == MaxRetries - tried[s]
             Before == Cardinality(OwedBy(pc, job, tried, j))
             After == Cardinality(OwedBy(pc', job', tried', j))
  <2>1. status'[j] = "pending" /\ tries'[j] = tried[s] + 1
    BY <1>1, <1>6 DEF RecordResult, BudgetInv, TypeInv, TypeOK
  <2>2. left'[j] = n
    BY <1>1, <2>1 DEF left
  <2>3. /\ pc'[s] = "idle" /\ job'[s] = Nobody
        /\ loop' = "fetching" => loop = "fetching"
        /\ \A t \in Slot \ {s} : pc'[t] = pc[t] /\ job'[t] = job[t] /\ tried'[t] = tried[t]
    BY <1>2 DEF EndWorker, BudgetInv, TypeInv, TypeOK, NextCheck
  <2>4. Before = After + n
    <3>1. PotOf(pc[s], tried[s]) = n /\ PotOf(pc'[s], tried'[s]) = 0
      BY <1>6, <2>3 DEF PotOf
    <3>2. DifferIn(s, pc', job', tried', pc, job, tried)
      BY <2>3 DEF DifferIn
    <3>3. n \in 0..MaxRetries + 1
      BY <1>1
    <3> HIDE DEF n
    <3> QED
      BY <3>1, <3>2, <3>3, OwedMore
  <2>5. Before \in Nat /\ After \in Nat /\ n \in Nat
    BY <1>1, OwedIsFinite
  <2>6. used'[j] + n = used[j]
    <3>1. /\ used[j] = attempts[j] + Before + (IF j \in inRetry THEN MaxRetries + 1 ELSE 0)
          /\ used'[j]
               = attempts'[j] + After + (IF j \in inRetry' THEN MaxRetries + 1 ELSE 0)
          /\ attempts[j] \in Nat
      BY <1>1 DEF used, BudgetInv, TypeInv, TypeOK
    <3> HIDE DEF Before, After, n, j
    <3> QED
      BY <1>1, <1>2, <2>4, <2>5, <3>1
  <2>7. \A i \in Job : used'[i] <= used[i]
    <3>1. \A t \in Slot : pc'[t] \in {"send", "again"} =>
            pc'[t] = pc[t] /\ job'[t] = job[t] /\ tried'[t] = tried[t]
      BY <2>3
    <3> QED
      BY <1>2, <3>1, UsesLess DEF BudgetInv
  <2>8. \A i \in Job : used'[i] + left'[i] <= used[i] + left[i]
    <3> HIDE DEF j, n
    <3> QED
      BY <1>3, <1>4, <2>2, <2>5, <2>6, <2>7
  <2>9. \A t \in Slot : pc'[t] \in {"look", "claim"} =>
          t \in Unclaimed /\ job'[t] = job[t] /\ tried'[t] = tried[t]
    BY <2>3 DEF Unclaimed
  <2> QED
    BY <1>2, <2>3, <2>7, <2>8, <2>9, SpendsLess
<1> QED
  BY <1>5, <1>6

(* A fetch hands on what the rows promise, each row to one worker, and only when  *)
(* nobody has a row to claim yet.                                               *)
LEMMA FetchKeepsBudget ==
  ASSUME BudgetInv, TypeInv', FetchBatch
  PROVE  BudgetInv'
<1>1. /\ loop = "fetching" /\ Unclaimed = {}
      /\ UNCHANGED <<endpoint, status, tries, inRetry, attempts, manual>>
  BY FetchCases DEF BudgetInv, rows, outside
<1>2. \A i \in Job : left'[i] = left[i] /\ left[i] \in Nat
  BY <1>1, AccountsAreNumbers, ConstantTypes DEF left, BudgetInv
<1>3. CASE loop' = NextCheck /\ UNCHANGED <<batch, workers>>
  <2>1. loop' # "fetching"
    BY <1>3 DEF NextCheck
  <2> QED
    BY <1>1, <1>2, <1>3, <2>1, QuietStep DEF workers
<1>4. ASSUME NEW S \in SUBSET DueJobs, NEW T \in SUBSET {s \in Slot : ~busy(s)},
             NEW f \in [T -> S], Fetches(S, T, f)
      PROVE  BudgetInv'
  <2>1. \A s, t \in T : f[s] = f[t] => s = t
    <3>1. IsFiniteSet(T) /\ Cardinality(T) = Cardinality(S) /\ f \in Surjection(T, S)
      BY <1>4, ConstantTypes, FS_Subset DEF Fetches, Surjection
    <3>2. f \in Injection(T, S)
      BY <1>4, <3>1, FS_Surjection
    <3> QED
      BY <3>2 DEF Injection, IsInjective
  <2>2. /\ loop' = "sending" /\ T \subseteq Slot
        /\ \A s \in T : pc'[s] = "look" /\ job'[s] = f[s] /\ tried'[s] = tries[f[s]]
        /\ \A s \in Slot \ T : pc'[s] = pc[s] /\ job'[s] = job[s] /\ tried'[s] = tried[s]
    BY <1>4 DEF Fetches
  <2>3. Unclaimed' \subseteq T
    BY <1>1, <2>2 DEF Unclaimed
  <2>4. ClaimsDiffer'
    BY <2>1, <2>2, <2>3 DEF ClaimsDiffer
  <2>5. \A i \in Job : used'[i] <= used[i]
    <3>1. \A s \in Slot : pc'[s] \in {"send", "again"} =>
            pc'[s] = pc[s] /\ job'[s] = job[s] /\ tried'[s] = tried[s]
      BY <2>2
    <3> QED
      BY <1>1, <3>1, UsesLess DEF BudgetInv
  <2>6. \A i \in Job : /\ used[i] \in Nat /\ used'[i] \in Nat
                       /\ allowed[i] \in Nat /\ allowed'[i] = allowed[i]
    BY <1>1, AccountsAreNumbers, AccountsStayNumbers DEF BudgetInv, allowed
  <2>7. ASSUME NEW i \in Job
        PROVE  /\ used'[i] + left'[i] <= allowed'[i]
               /\ \A s \in Unclaimed' : job'[s] = i =>
                    used'[i] + (MaxRetries + 1 - tried'[s]) <= allowed'[i]
    <3>1. used[i] + left[i] <= allowed[i]
      BY DEF BudgetInv, Covered
    <3>2. used'[i] + left'[i] <= allowed'[i]
      BY <1>2, <2>5, <2>6, <3>1
    <3>3. ASSUME NEW s \in Unclaimed', job'[s] = i
          PROVE  MaxRetries + 1 - tried'[s] = left'[i]
      <4>1. f[s] = i /\ s \in T /\ tried'[s] = tries[i]
        BY <2>2, <2>3, <3>3
      <4>2. status[i] = "pending"
        BY <4>1 DEF DueJobs
      <4> QED
        BY <1>2, <4>1, <4>2 DEF left
    <3> QED
      BY <3>2, <3>3
  <2> QED
    BY <2>2, <2>4, <2>7 DEF BudgetInv, Covered
<1> QED
  BY <1>3, <1>4, FetchCases

(* An operator's reset gives the row the round it was counted for already.     *)
LEMMA ResetKeepsBudget ==
  ASSUME BudgetInv, TypeInv', NEW j \in Job, ResetForRetry(j)
  PROVE  BudgetInv'
<1>1. /\ j \in inRetry /\ inRetry' = inRetry \ {j} /\ MaxRetries \in Nat
      /\ UNCHANGED <<endpoint, tries, loop, pc, job, tried, attempts, manual>>
      /\ \A i \in Job \ {j} : status'[i] = status[i]
  BY ConstantTypes DEF ResetForRetry, looping, workers, outside, BudgetInv, TypeInv, TypeOK
<1>2. \A i \in Job : /\ used[i] \in Nat /\ used'[i] \in Nat
                     /\ left[i] \in Nat /\ left'[i] \in 0..MaxRetries + 1
  BY AccountsAreNumbers, AccountsStayNumbers, ConstantTypes DEF BudgetInv
<1>3. \A i \in Job \ {j} : left'[i] = left[i]
  BY <1>1 DEF left
<1>4. \A i \in Job \ {j} : used'[i] = used[i]
  BY <1>1 DEF used
<1>5. used'[j] + (MaxRetries + 1) = used[j]
  <2>1. Cardinality(OwedBy(pc, job, tried, j)) \in Nat /\ attempts[j] \in Nat
    BY OwedIsFinite DEF BudgetInv, TypeInv, TypeOK
  <2>2. /\ used[j] = attempts[j] + Cardinality(OwedBy(pc, job, tried, j)) + (MaxRetries + 1)
        /\ used'[j] = attempts[j] + Cardinality(OwedBy(pc, job, tried, j)) + 0
    BY <1>1 DEF used
  <2> QED
    BY <1>1, <2>1, <2>2
<1>6. \A i \in Job : used'[i] <= used[i] /\ used'[i] + left'[i] <= used[i] + left[i]
  <2>1. used'[j] <= used[j] /\ used'[j] + left'[j] <= used[j] + left[j]
    BY <1>1, <1>2, <1>5
  <2> QED
    BY <1>2, <1>3, <1>4, <2>1
<1>7. \A s \in Slot : pc'[s] \in {"look", "claim"} =>
        s \in Unclaimed /\ job'[s] = job[s] /\ tried'[s] = tried[s]
  BY <1>1 DEF Unclaimed
<1> QED
  BY <1>1, <1>6, <1>7, SpendsLess

(* A manual retry is allowed a round more, and takes it in hand.               *)
LEMMA RetryKeepsBudget ==
  ASSUME BudgetInv, TypeInv', NEW j \in Job, RetryNotification(j)
  PROVE  BudgetInv'
<1>1. /\ j \notin inRetry /\ inRetry' = inRetry \cup {j} /\ MaxRetries \in Nat
      /\ UNCHANGED <<endpoint, status, tries, loop, pc, job, tried, attempts>>
      /\ manual[j] \in Nat /\ manual'[j] = manual[j] + 1
      /\ \A i \in Job \ {j} : manual'[i] = manual[i]
  BY ConstantTypes
     DEF RetryNotification, rows, looping, workers, outside, BudgetInv, TypeInv, TypeOK
<1>2. \A i \in Job : used[i] \in Nat /\ left[i] \in Nat /\ allowed[i] \in Nat
  BY AccountsAreNumbers, ConstantTypes DEF BudgetInv
<1>3. \A i \in Job : left'[i] = left[i]
  BY <1>1 DEF left
<1>4. \A i \in Job \ {j} : used'[i] = used[i] /\ allowed'[i] = allowed[i]
  BY <1>1 DEF used, allowed
<1>5. used'[j] = used[j] + (MaxRetries + 1)
  <2>1. Cardinality(OwedBy(pc, job, tried, j)) \in Nat /\ attempts[j] \in Nat
    BY OwedIsFinite DEF BudgetInv, TypeInv, TypeOK
  <2>2. /\ used'[j]
             = attempts[j] + Cardinality(OwedBy(pc, job, tried, j)) + (MaxRetries + 1)
        /\ used[j] = attempts[j] + Cardinality(OwedBy(pc, job, tried, j)) + 0
    BY <1>1 DEF used
  <2> QED
    BY <1>1, <2>1, <2>2
<1>6. allowed'[j] = allowed[j] + (MaxRetries + 1)
  <2>1. allowed[j] = (1 + MaxRetries) * (1 + manual[j])
        /\ allowed'[j] = (1 + MaxRetries) * (1 + (manual[j] + 1))
    BY <1>1 DEF allowed
  <2>2. \A m, n \in Nat : (1 + m) * (1 + (n + 1)) = (1 + m) * (1 + n) + (m + 1)
    OBVIOUS
  <2> QED
    BY <1>1, <2>1, <2>2
<1>7. Unclaimed' = Unclaimed
  BY <1>1 DEF Unclaimed
<1>8. ASSUME NEW i \in Job
      PROVE  /\ used'[i] + left'[i] <= allowed'[i]
             /\ \A s \in Unclaimed' : job'[s] = i =>
                  used'[i] + (MaxRetries + 1 - tried'[s]) <= allowed'[i]
  <2>1. PICK more \in Nat : used'[i] = used[i] + more /\ allowed'[i] = allowed[i] + more
    <3>1. CASE i = j
      BY <1>1, <1>5, <1>6, <3>1
    <3>2. CASE i # j
      BY <1>2, <1>4, <3>2
    <3> QED
      BY <3>1, <3>2
  <2>2. used[i] + left[i] <= allowed[i]
    BY DEF BudgetInv, Covered
  <2>3. ASSUME NEW s \in Unclaimed', job'[s] = i
        PROVE  used'[i] + (MaxRetries + 1 - tried'[s]) <= allowed'[i]
    <3>1. used[i] + (MaxRetries + 1 - tried[s]) <= allowed[i] /\ tried'[s] = tried[s]
      BY <1>1, <1>7, <2>3 DEF BudgetInv, Covered
    <3>2. tried[s] \in Nat
      BY <1>7, ConstantTypes DEF BudgetInv, TypeInv, TypeOK, Unclaimed
    <3> QED
      BY <1>1, <1>2, <2>1, <3>1, <3>2
  <2> QED
    BY <1>2, <1>3, <2>1, <2>2, <2>3
<1> QED
  BY <1>1, <1>7, <1>8 DEF BudgetInv, Covered, ClaimsDiffer

(* Every step keeps BudgetInv.                                                 *)
LEMMA NextBudgetInv ==
  ASSUME StatementsAreQuick, BudgetInv, [Next]_vars
  PROVE  BudgetInv'
<1>t. TypeInv'
  BY NextTypeInv DEF BudgetInv
<1>n. \A i \in Job : left[i] \in Nat
  BY AccountsAreNumbers, ConstantTypes DEF BudgetInv
<1>same. UNCHANGED <<endpoint, status, tries>> => \A i \in Job : left'[i] <= left[i]
  BY <1>n DEF left
<1>types. /\ pc \in [Slot -> {"idle", "look", "cancel", "claim", "send", "ok", "bad",
                              "again", "catch"}]
          /\ status \in [Job -> {"none", "pending", "sending", "success", "failed",
                                 "cancelled"}]
          /\ tries \in [Job -> 0..MaxRetries] /\ MaxRetries \in Nat
          /\ \A s \in Slot : busy(s) => job[s] \in Job
  BY ConstantTypes DEF BudgetInv, TypeInv, TypeOK
(* The worker of s ends and its row does not become pending.                   *)
<1>end. ASSUME NEW s \in Slot, busy(s), UNCHANGED <<endpoint, tries>>,
               NEW result \in {"failed", "cancelled"},
               status' = [status EXCEPT ![job[s]] = result]
        PROVE  \A i \in Job : left'[i] <= left[i]
  <2>1. \A i \in Job : status'[i] = status[i] \/ status'[i] = result
    BY <1>end, <1>types
  <2> QED
    BY <1>n, <1>end, <2>1 DEF left
<1> USE DEF Goes, rows, looping, workers, outside
<1>1. CASE StartProcessor
  BY <1>t, <1>same, <1>1, QuietStep DEF StartProcessor
<1>2. CASE StartNotifications
  BY <1>t, <1>same, <1>2, QuietStep DEF StartNotifications
<1>3. CASE StopQueue
  BY <1>t, <1>same, <1>3, QuietStep DEF StopQueue
<1>4. CASE QueueStopped
  BY <1>t, <1>same, <1>4, QuietStep DEF QueueStopped
<1>5. CASE ProcessExits
  BY <1>t, <1>same, <1>5, QuietStep DEF ProcessExits, MemoryLost
<1>6. CASE Crash
  BY <1>t, <1>same, <1>6, QuietStep DEF Crash, MemoryLost
<1>7. CASE CheckQueue
  <2>1. \A s \in Slot : pc[s] \notin {"look", "claim"}
    BY <1>7 DEF CheckQueue
  <2>2. UNCHANGED <<endpoint, rows, workers, inRetry, outside>>
    BY <1>7 DEF CheckQueue
  <2>3. Unclaimed' = {}
    BY <2>1, <2>2 DEF Unclaimed
  <2> QED
    BY <1>t, <1>same, <2>2, <2>3, QuietStep
<1>8. CASE FetchBatch
  BY <1>t, <1>8, FetchKeepsBudget
<1>9. ASSUME NEW s \in Slot, LookUpEndpoint(s) PROVE BudgetInv'
  <2>1. PICK next \in {"claim", "cancel", "catch"} : Goes(s, next)
    BY <1>9 DEF LookUpEndpoint
  <2>2. pc[s] = "look"
        /\ UNCHANGED <<endpoint, rows, looping, job, tried, inRetry, outside>>
    BY <1>9 DEF LookUpEndpoint
  <2>3. \A t \in Slot : pc'[t] \in {"look", "claim", "send", "again"} =>
          pc'[t] = pc[t] \/ (pc[t] = "look" /\ pc'[t] = "claim")
    BY <1>types, <2>1, <2>2
  <2> QED
    BY <1>t, <1>same, <2>2, <2>3, QuietStep
<1>10. ASSUME NEW s \in Slot, CancelNotification(s) PROVE BudgetInv'
  <2>1. /\ busy(s) /\ EndWorker(s, FALSE)
        /\ UNCHANGED <<endpoint, tries, attempts, manual, inRetry>>
        /\ status' = [status EXCEPT ![job[s]] = "cancelled"]
    BY <1>10 DEF CancelNotification, busy
  <2>2. \A i \in Job : left'[i] <= left[i]
    BY <1>end, <2>1
  <2> QED
    BY <1>t, <2>1, <2>2, EndKeepsBudget
<1>11. ASSUME NEW s \in Slot, MarkSending(s) PROVE BudgetInv'
  BY <1>t, <1>11, ClaimKeepsBudget
<1>12. ASSUME NEW s \in Slot, Send(s) PROVE BudgetInv'
  BY <1>t, <1>12, SendKeepsBudget
<1>13. ASSUME NEW s \in Slot, RecordResult(s) PROVE BudgetInv'
  BY <1>t, <1>13, RecordKeepsBudget
<1>14. ASSUME NEW s \in Slot, StatementFails(s) PROVE BudgetInv'
  <2>1. /\ pc' = [pc EXCEPT ![s] = "catch"]
        /\ UNCHANGED <<endpoint, rows, looping, job, tried, inRetry, attempts, manual>>
    BY <1>14 DEF StatementFails
  <2>2. \A t \in Slot : pc'[t] \in {"look", "claim", "send", "again"} => pc'[t] = pc[t]
    BY <1>types, <2>1
  <2> QED
    BY <1>t, <1>same, <2>1, <2>2, QuietStep
<1>15. ASSUME NEW s \in Slot, CatchError(s) PROVE BudgetInv'
  <2>1. /\ busy(s) /\ EndWorker(s, FALSE)
        /\ UNCHANGED <<endpoint, tries, attempts, manual, inRetry>>
        /\ status' = [status EXCEPT ![job[s]] = "failed"]
    BY <1>15 DEF CatchError, busy
  <2>2. \A i \in Job : left'[i] <= left[i]
    BY <1>end, <2>1
  <2> QED
    BY <1>t, <2>1, <2>2, EndKeepsBudget
<1>16. ASSUME NEW s \in Slot, WorkerRejects(s) PROVE BudgetInv'
  <2>1. /\ busy(s) /\ EndWorker(s, TRUE)
        /\ UNCHANGED <<endpoint, rows, attempts, manual, inRetry>>
    BY <1>16 DEF WorkerRejects, busy
  <2> QED
    BY <1>t, <1>same, <2>1, EndKeepsBudget
<1>17. ASSUME NEW j \in Job, RetryNotification(j) PROVE BudgetInv'
  BY <1>t, <1>17, RetryKeepsBudget
<1>18. ASSUME NEW j \in Job, ResetForRetry(j) PROVE BudgetInv'
  BY <1>t, <1>18, ResetKeepsBudget
<1>19. ASSUME NEW j \in Job, RetryComesDue(j) PROVE BudgetInv'
  BY <1>t, <1>same, <1>19, QuietStep DEF RetryComesDue
<1>20. ASSUME NEW e \in Event, Publish(e) PROVE BudgetInv'
  BY <1>t, <1>same, <1>20, QuietStep DEF Publish
<1>21. ASSUME NEW e \in Event, NEW p \in Endpoint, Enqueue(e, p) PROVE BudgetInv'
  <2> DEFINE j == <<IdOf[e], p>>
  <2>1. /\ UNCHANGED <<endpoint, tries, looping, workers, inRetry, outside>>
        /\ status' = [status EXCEPT ![j] = IF @ = "none" THEN "pending" ELSE @]
        /\ endpoint[p] # "deleted"
    BY <1>21 DEF Enqueue
  <2>2. j \in Job /\ j[2] = p
    BY ConstantTypes DEF Job
  <2> HIDE DEF j
  <2>3. /\ \A i \in Job \ {j} : status'[i] = status[i]
        /\ status'[j] = IF status[j] = "none" THEN "pending" ELSE status[j]
    BY <1>types, <2>1, <2>2
  <2>4. \A i \in Job \ {j} : left'[i] <= left[i]
    BY <1>n, <2>1, <2>3 DEF left
  <2>5. left'[j] <= left[j]
    <3>1. CASE status[j] = "none"
      <4>1. left[j] = MaxRetries + 1
        BY <2>1, <2>2, <3>1 DEF left
      <4>2. left'[j] = MaxRetries + 1 - tries[j] /\ tries[j] \in Nat
        BY <1>types, <2>1, <2>2, <2>3, <3>1 DEF left
      <4> QED
        BY <1>types, <4>1, <4>2
    <3>2. CASE status[j] # "none"
      <4>1. status'[j] = status[j]
        BY <2>3, <3>2
      <4> QED
        BY <1>n, <2>1, <2>2, <4>1 DEF left
    <3> QED
      BY <3>1, <3>2
  <2> QED
    BY <1>t, <2>1, <2>4, <2>5, QuietStep
<1>22. ASSUME NEW e \in Event, NEW p \in Endpoint, EnqueueFails(e, p) PROVE BudgetInv'
  BY <1>t, <1>same, <1>22, QuietStep DEF EnqueueFails, MemoryLost
<1>23. ASSUME NEW p \in Endpoint, SwitchEndpoint(p) PROVE BudgetInv'
  <2>1. /\ UNCHANGED <<rows, looping, workers, inRetry, outside>>
        /\ \A q \in Endpoint : endpoint'[q] = "deleted" <=> endpoint[q] = "deleted"
    BY <1>23 DEF SwitchEndpoint, BudgetInv, TypeInv, TypeOK
  <2>2. \A i \in Job : left'[i] <= left[i]
    BY <1>n, <2>1 DEF left, Job
  <2> QED
    BY <1>t, <2>1, <2>2, QuietStep
<1>24. ASSUME NEW p \in Endpoint, DeleteEndpoint(p) PROVE BudgetInv'
  <2>1. /\ UNCHANGED <<looping, workers, inRetry, outside>>
        /\ endpoint'[p] = "deleted" /\ \A q \in Endpoint \ {p} : endpoint'[q] = endpoint[q]
        /\ \A i \in Job : IF i[2] = p THEN status'[i] = "none"
                          ELSE status'[i] = status[i] /\ tries'[i] = tries[i]
    BY <1>24 DEF DeleteEndpoint, BudgetInv, TypeInv, TypeOK
  <2>2. \A i \in Job : left'[i] <= left[i]
    BY <1>n, <2>1 DEF left, Job
  <2> QED
    BY <1>t, <2>1, <2>2, QuietStep
<1>25. CASE UNCHANGED vars
  BY <1>t, <1>same, <1>25, QuietStep DEF vars
<1> QED
  BY <1>1, <1>2, <1>3, <1>4, <1>5, <1>6, <1>7, <1>8, <1>9, <1>10, <1>11, <1>12,
     <1>13, <1>14, <1>15, <1>16, <1>17, <1>18, <1>19, <1>20, <1>21, <1>22, <1>23,
     <1>24, <1>25
     DEF Next, Lifecycle, LoopStep, WorkerStep, JobStep

(* The merchant is sent a notification once and at most max_retries times more, and *)
(* a manual retry grants no more than another such round, whatever fails, however  *)
(* often the process dies and however many workers there are, if a statement is    *)
(* done before the next check is due: a row that is read is claimed before it can  *)
(* be read again.                                                              *)
THEOREM AttemptsStayBounded ==
  ASSUME StatementsAreQuick
  PROVE  Spec => []AttemptsAreBounded
<1>1. Init => BudgetInv
  <2> SUFFICES ASSUME Init PROVE BudgetInv
    OBVIOUS
  <2>1. TypeInv
    BY InitTypeInv
  <2>2. Unclaimed = {}
    BY DEF Init, Unclaimed
  <2>3. ASSUME NEW j \in Job PROVE used[j] + left[j] <= allowed[j]
    <3>1. OwedBy(pc, job, tried, j) = {}
      BY ConstantTypes DEF Init, OwedBy, PotOf
    <3>2. used[j] = 0
      BY <3>1, FS_EmptySet DEF Init, used
    <3>3. left[j] = MaxRetries + 1
      BY <2>3 DEF Init, left, Job
    <3>4. allowed[j] = 1 + MaxRetries
      BY ConstantTypes DEF Init, allowed
    <3> QED
      BY <3>2, <3>3, <3>4, ConstantTypes
  <2> QED
    BY <2>1, <2>2, <2>3 DEF BudgetInv, Covered, ClaimsDiffer
<1>2. BudgetInv /\ [Next]_vars => BudgetInv'
  BY NextBudgetInv
<1>3. BudgetInv => AttemptsAreBounded
  <2> SUFFICES ASSUME BudgetInv, NEW j \in Job
               PROVE  attempts[j] <= (1 + MaxRetries) * (1 + manual[j])
    BY DEF AttemptsAreBounded
  <2>1. used[j] + left[j] <= allowed[j]
    BY DEF BudgetInv, Covered
  <2>2. used[j] \in Nat /\ left[j] \in Nat /\ allowed[j] \in Nat /\ attempts[j] <= used[j]
        /\ attempts[j] \in Nat
    BY AccountsAreNumbers, ConstantTypes DEF BudgetInv, TypeInv, TypeOK
  <2>3. attempts[j] <= allowed[j]
    BY <2>1, <2>2
  <2> QED
    BY <2>3 DEF allowed
<1> QED
  BY <1>1, <1>2, <1>3, PTL DEF Spec

=============================================================================
