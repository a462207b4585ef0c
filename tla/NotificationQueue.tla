--------------------------- MODULE NotificationQueue ---------------------------
(***************************************************************************)
(* The way of an event of the processor to the merchant's endpoints: the   *)
(* manager that starts and stops the services and forwards events, the     *)
(* notification_logs table, and NotificationQueue, one loop that fetches   *)
(* due notifications and sends each batch in parallel.                     *)
(*                                                                         *)
(* Statements are actions of their own. A worker keeps the retry_count it  *)
(* was fetched with; requests of operators and merchants run in between.   *)
(***************************************************************************)
EXTENDS Naturals, FiniteSetsExt

CONSTANTS
  Event,       \* events of the processor
  Id,          \* notification ids
  IdOf,        \* IdOf[e]: the id event-mapper gives to e, from its business id
  Endpoint,    \* endpoints, all subscribed to every event
  Slot,        \* one for each of the maxConcurrency notifications in flight
  BatchSize,   \* notifications fetched at a time
  MaxRetries,  \* max_retries of every endpoint
  Nobody,      \* the job of an idle slot
  StatementsAreQuick,  \* is a statement done before the next check is due?
  MaxStops,    \* bound on the graceful stops of one behaviour
  MaxManual,   \* bound on the manual retries
  MayCrash,    \* may the process crash, unless it has died before?
  MaxFailures  \* bound on the statements that fail

ASSUME ConstantTypes ==
  /\ IdOf \in [Event -> Id]
  /\ IsFiniteSet(Slot)
  /\ BatchSize \in Nat \ {0}
  /\ MaxRetries \in Nat
  /\ Nobody \notin Id \X Endpoint
  /\ {StatementsAreQuick, MayCrash} \subseteq BOOLEAN
  /\ {MaxStops, MaxManual, MaxFailures} \subseteq Nat

(* A row of notification_logs; (event_id, endpoint_id) is unique.            *)
Job == Id \X Endpoint

VARIABLES
  (* tables *)
  endpoint,   \* enabled, disabled or deleted
  status,     \* status of each row, "none" while there is no row
  tries,      \* retry_count
  later,      \* rows whose next_retry_at lies in the future
  (* memory of the process *)
  mode,       \* down, starting, up, stopping (the queue), closing (the rest)
  loop,       \* the loop: off, timer, fetching or sending
  limit,      \* the number of rows it is about to fetch
  batch,      \* the slots it waits for
  pc,         \* what the worker in a slot does next
  job,        \* the row it was fetched with ...
  tried,      \* ... and its retry_count then
  inRetry,    \* rows a manual retry has found fit to be retried
  sendingTo,  \* endpoints sendNotification has still to enqueue an event for
  (* the outside *)
  published,  \* events so far
  attempts,   \* requests sent to the merchant for each row
  manual,     \* manual retries of each row
  stops,      \* graceful stops so far
  died,       \* has the process ever died?
  failures    \* failed statements so far

rows == <<status, tries, later>>
looping == <<loop, limit, batch>>
workers == <<pc, job, tried>>
outside == <<published, attempts, manual, stops, died, failures>>
vars == <<endpoint, rows, mode, looping, workers, inRetry, sendingTo, outside>>

busy(s) == pc[s] # "idle"
Enabled == {p \in Endpoint : endpoint[p] = "enabled"}
Smaller(m, n) == IF m < n THEN m ELSE n

(* Faulty variant: processQueue does not schedule the next check.            *)
NoNextCheck == "off"

(* The loop's state after scheduleNextCheck                                  *)
NextCheck == IF mode = "up" THEN "timer" ELSE "off"

Init ==
  /\ endpoint = [p \in Endpoint |-> "enabled"]
  /\ status = [j \in Job |-> "none"]
  /\ tries = [j \in Job |-> 0]
  /\ later = {}
  /\ mode = "down"
  /\ loop = "off"
  /\ limit = 0
  /\ batch = {}
  /\ pc = [s \in Slot |-> "idle"]
  /\ job = [s \in Slot |-> Nobody]
  /\ tried = [s \in Slot |-> 0]
  /\ inRetry = {}
  /\ sendingTo = [e \in Event |-> {}]
  /\ published = {}
  /\ attempts = [j \in Job |-> 0]
  /\ manual = [j \in Job |-> 0]
  /\ stops = 0
  /\ died = FALSE
  /\ failures = 0

-----------------------------------------------------------------------------
(* Manager and NotificationService.                                          *)

(* startProcessor: the processor starts first and restores what it missed;   *)
(* its events have no subscriber yet.                                        *)
StartProcessor ==
  /\ mode = "down"
  /\ mode' = "starting"
  /\ UNCHANGED <<endpoint, rows, looping, workers, inRetry, sendingTo, outside>>

(* startNotificationService, setupProcessorEventForwarding                   *)
StartNotifications ==
  /\ mode = "starting"
  /\ mode' = "up"
  /\ loop' = "timer"
  /\ UNCHANGED <<endpoint, rows, limit, batch, workers, inRetry, sendingTo,
                 outside>>

(* The processor emits e. sendNotification reads the enabled endpoints; the   *)
(* service takes events until it has stopped, shortly before the processor.  *)
Publish(e) ==
  /\ mode \in {"starting", "up", "stopping"}
  /\ e \notin published
  /\ published' = published \cup {e}
  /\ sendingTo' = IF mode = "starting" THEN sendingTo
                  ELSE [sendingTo EXCEPT ![e] = Enabled]
  /\ UNCHANGED <<endpoint, rows, mode, looping, workers, inRetry, attempts,
                 manual, stops, died, failures>>

(* enqueue: INSERT ... ON CONFLICT (event_id, endpoint_id) DO NOTHING         *)
Enqueue(e, p) ==
  LET j == <<IdOf[e], p>>
  IN  /\ mode # "closing"
      /\ p \in sendingTo[e]
      /\ endpoint[p] # "deleted"
      /\ sendingTo' = [sendingTo EXCEPT ![e] = @ \ {p}]
      /\ status' = [status EXCEPT ![j] = IF @ = "none" THEN "pending" ELSE @]
      /\ UNCHANGED <<endpoint, tries, later, mode, looping, workers, inRetry,
                     outside>>

(* The memory of the process is gone.                                        *)
MemoryLost ==
  /\ mode' = "down"
  /\ loop' = "off"
  /\ limit' = 0
  /\ batch' = {}
  /\ pc' = [s \in Slot |-> "idle"]
  /\ job' = [s \in Slot |-> Nobody]
  /\ tried' = [s \in Slot |-> 0]
  /\ inRetry' = {}
  /\ sendingTo' = [e \in Event |-> {}]

(* The endpoint is gone, the database refuses the INSERT or the pool has been *)
(* closed. The error is rethrown as an 'error' event without a listener, by   *)
(* the service and by the event bus, and becomes an unhandled rejection,      *)
(* which ends the process.                                                    *)
EnqueueFails(e, p) ==
  /\ p \in sendingTo[e]
  /\ \/ /\ endpoint[p] = "deleted" \/ mode = "closing"
        /\ UNCHANGED failures
     \/ /\ failures < MaxFailures
        /\ failures' = failures + 1
  /\ died' = TRUE
  /\ MemoryLost
  /\ UNCHANGED <<endpoint, rows, published, attempts, manual, stops>>

Crash ==
  /\ mode # "down"
  /\ MayCrash /\ ~died
  /\ died' = TRUE
  /\ MemoryLost
  /\ UNCHANGED <<endpoint, rows, published, attempts, manual, stops,
                 failures>>

(* stopProcessor: NotificationQueue.stop clears the timer ...                 *)
StopQueue ==
  /\ mode = "up"
  /\ stops < MaxStops
  /\ stops' = stops + 1
  /\ mode' = "stopping"
  /\ loop' = IF loop = "timer" THEN "off" ELSE loop
  /\ UNCHANGED <<endpoint, rows, limit, batch, workers, inRetry, sendingTo,
                 published, attempts, manual, died, failures>>

(* Faulty variant: stop does not wait.                                       *)
CloseAtOnce ==
  /\ mode = "stopping"
  /\ mode' = "closing"
  /\ UNCHANGED <<endpoint, rows, looping, workers, inRetry, sendingTo, outside>>

(* ... and waits for the active jobs; then the pool is closed.                *)
QueueStopped ==
  /\ mode = "stopping"
  /\ \A s \in Slot : ~busy(s)
  /\ mode' = "closing"
  /\ UNCHANGED <<endpoint, rows, looping, workers, inRetry, sendingTo, outside>>

ProcessExits ==
  /\ mode = "closing"
  /\ MemoryLost
  /\ UNCHANGED <<endpoint, rows, outside>>

-----------------------------------------------------------------------------
(* The loop.                                                                 *)

(* processQueue: how many slots are available                                *)
CheckQueue ==
  /\ loop = "timer"
  /\ StatementsAreQuick =>
       \A s \in Slot : pc[s] \notin {"look", "cancel", "claim", "catch"}
  /\ \E s \in Slot : ~busy(s)
  /\ limit' = Smaller(Cardinality({s \in Slot : ~busy(s)}), BatchSize)
  /\ loop' = "fetching"
  /\ UNCHANGED <<endpoint, rows, mode, batch, workers, inRetry, sendingTo, outside>>

DueJobs == {j \in Job : status[j] = "pending" /\ j \notin later}

(* getPendingNotifications(limit) and the start of a worker for each row. The *)
(* query takes the oldest rows; the model takes any. A query that fails counts *)
(* as one that finds nothing.                                                  *)
FetchBatch ==
  /\ loop = "fetching"
  /\ \/ /\ DueJobs = {}
        /\ loop' = NextCheck
        /\ UNCHANGED <<batch, workers>>
     \/ \E S \in SUBSET DueJobs, T \in SUBSET {s \in Slot : ~busy(s)} :
          /\ S # {}
          /\ Cardinality(S) = Smaller(limit, Cardinality(DueJobs))
          /\ \E f \in [T -> S] :
               /\ {f[s] : s \in T} = S /\ Cardinality(T) = Cardinality(S)
               /\ job' = [s \in Slot |-> IF s \in T THEN f[s] ELSE job[s]]
               /\ tried' = [s \in Slot |-> IF s \in T THEN tries[f[s]] ELSE tried[s]]
          /\ pc' = [s \in Slot |-> IF s \in T THEN "look" ELSE pc[s]]
          /\ batch' = T
          /\ loop' = "sending"
  /\ limit' = 0
  /\ UNCHANGED <<endpoint, rows, mode, inRetry, sendingTo, outside>>

(* A worker ends. Promise.all waits for all of them, or for the first that    *)
(* rejects; the others then go on unobserved.                                 *)
EndWorker(s, rejects) ==
  /\ pc' = [pc EXCEPT ![s] = "idle"]
  /\ job' = [job EXCEPT ![s] = Nobody]
  /\ tried' = [tried EXCEPT ![s] = 0]
  /\ batch' = IF s \in batch /\ rejects THEN {} ELSE batch \ {s}
  /\ loop' = IF s \in batch /\ batch' = {} THEN NextCheck ELSE loop
  /\ UNCHANGED limit

-----------------------------------------------------------------------------
(* A worker: processNotification.                                            *)

Goes(s, next) == pc' = [pc EXCEPT ![s] = next]

(* An UPDATE of a row that has been deleted throws, and so does every          *)
(* statement on a pool that has been closed.                                   *)
Writable(j) == status[j] # "none" /\ mode # "closing"

LookUpEndpoint(s) ==
  /\ pc[s] = "look"
  /\ mode # "closing"
  /\ Goes(s, CASE endpoint[job[s][2]] = "enabled" -> "claim"
               [] endpoint[job[s][2]] = "disabled" -> "cancel"
               [] OTHER -> "catch")
  /\ UNCHANGED <<endpoint, rows, mode, looping, job, tried, inRetry, sendingTo,
                 outside>>

CancelNotification(s) ==
  /\ pc[s] = "cancel"
  /\ Writable(job[s])
  /\ status' = [status EXCEPT ![job[s]] = "cancelled"]
  /\ EndWorker(s, FALSE)
  /\ UNCHANGED <<endpoint, tries, later, mode, inRetry, sendingTo, outside>>

(* Faulty variant: the row stays pending while it is sent.                    *)
ClaimNothing(s) ==
  /\ pc[s] = "claim"
  /\ Writable(job[s])
  /\ Goes(s, "send")
  /\ UNCHANGED <<endpoint, rows, mode, looping, job, tried, inRetry, sendingTo,
                 outside>>

MarkSending(s) ==
  /\ pc[s] = "claim"
  /\ Writable(job[s])
  /\ status' = [status EXCEPT ![job[s]] = "sending"]
  /\ Goes(s, "send")
  /\ UNCHANGED <<endpoint, tries, later, mode, looping, job, tried, inRetry,
                 sendingTo, outside>>

(* Faulty variant: retries are not limited.                                   *)
RetryAlways(s) == TRUE

(* shouldScheduleRetry, when the answer was a server error or none came       *)
ShouldRetry(s) == tried[s] < MaxRetries

(* notifier.send: 2xx; 5xx, a network error or a timeout, after which the     *)
(* merchant may have the notification or not; 4xx.                            *)
Send(s) ==
  /\ pc[s] = "send"
  /\ attempts' = [attempts EXCEPT ![job[s]] = @ + 1]
  /\ \E next \in {"ok", "bad"} \cup (IF ShouldRetry(s) THEN {"again"} ELSE {}) :
       Goes(s, next)
  /\ UNCHANGED <<endpoint, rows, mode, looping, job, tried, inRetry, sendingTo,
                 published, manual, stops, died, failures>>

(* Faulty variant: retry_count is not increased.                              *)
RecordWithoutCounting(s) ==
  LET j == job[s]
  IN  /\ pc[s] \in {"ok", "bad", "again"}
      /\ Writable(j)
      /\ status' = [status EXCEPT ![j] = CASE pc[s] = "ok" -> "success"
                                           [] pc[s] = "bad" -> "failed"
                                           [] OTHER -> "pending"]
      /\ later' = later \cup (IF pc[s] = "again" THEN {j} ELSE {})
      /\ EndWorker(s, FALSE)
      /\ UNCHANGED <<endpoint, tries, mode, inRetry, sendingTo, outside>>

(* The result is recorded: success, failed, or pending with a later retry.     *)
RecordResult(s) ==
  LET j == job[s]
  IN  /\ pc[s] \in {"ok", "bad", "again"}
      /\ Writable(j)
      /\ status' = [status EXCEPT ![j] = CASE pc[s] = "ok" -> "success"
                                           [] pc[s] = "bad" -> "failed"
                                           [] OTHER -> "pending"]
      /\ IF pc[s] = "again"
         THEN /\ tries' = [tries EXCEPT ![j] = tried[s] + 1]
              /\ later' = later \cup {j}
         ELSE UNCHANGED <<tries, later>>
      /\ EndWorker(s, FALSE)
      /\ UNCHANGED <<endpoint, mode, inRetry, sendingTo, outside>>

(* A statement of the worker throws.                                          *)
StatementFails(s) ==
  /\ pc[s] \in {"look", "cancel", "claim", "ok", "bad", "again"}
  /\ \/ /\ mode = "closing" \/ (pc[s] # "look" /\ status[job[s]] = "none")
        /\ UNCHANGED failures
     \/ /\ failures < MaxFailures
        /\ failures' = failures + 1
  /\ Goes(s, "catch")
  /\ UNCHANGED <<endpoint, rows, mode, looping, job, tried, inRetry, sendingTo,
                 published, attempts, manual, stops, died>>

(* The catch block marks the notification as failed, whatever has been        *)
(* delivered ...                                                              *)
CatchError(s) ==
  /\ pc[s] = "catch"
  /\ Writable(job[s])
  /\ status' = [status EXCEPT ![job[s]] = "failed"]
  /\ EndWorker(s, FALSE)
  /\ UNCHANGED <<endpoint, tries, later, mode, inRetry, sendingTo, outside>>

(* ... or throws itself, and the worker rejects.                              *)
WorkerRejects(s) ==
  /\ pc[s] = "catch"
  /\ \/ /\ ~Writable(job[s])
        /\ UNCHANGED failures
     \/ /\ failures < MaxFailures
        /\ failures' = failures + 1
  /\ EndWorker(s, TRUE)
  /\ UNCHANGED <<endpoint, rows, mode, inRetry, sendingTo, published,
                 attempts, manual, stops, died>>

-----------------------------------------------------------------------------
(* Requests of operators and merchants, and time.                             *)

(* retryNotification: the status it reads must be failed or pending ...        *)
RetryNotification(j) ==
  /\ mode \in {"up", "stopping"}
  /\ status[j] \in {"failed", "pending"}
  /\ j \notin inRetry
  /\ MapThenSumSet(LAMBDA i : manual[i], Job) < MaxManual
  /\ manual' = [manual EXCEPT ![j] = @ + 1]
  /\ inRetry' = inRetry \cup {j}
  /\ UNCHANGED <<endpoint, rows, mode, looping, workers, sendingTo, published,
                 attempts, stops, died, failures>>

(* ... and the row becomes pending, whatever it is by then.                    *)
ResetForRetry(j) ==
  /\ j \in inRetry
  /\ inRetry' = inRetry \ {j}
  /\ IF Writable(j)
     THEN /\ status' = [status EXCEPT ![j] = "pending"]
          /\ later' = later \ {j}
     ELSE UNCHANGED <<status, later>>
  /\ UNCHANGED <<endpoint, tries, mode, looping, workers, sendingTo, outside>>

RetryComesDue(j) ==
  /\ j \in later
  /\ later' = later \ {j}
  /\ UNCHANGED <<endpoint, status, tries, mode, looping, workers, inRetry,
                 sendingTo, outside>>

(* updateEndpoint, as far as is_enabled goes                                   *)
SwitchEndpoint(p) ==
  /\ endpoint[p] # "deleted"
  /\ endpoint' = [endpoint EXCEPT ![p] = IF @ = "enabled" THEN "disabled"
                                         ELSE "enabled"]
  /\ UNCHANGED <<rows, mode, looping, workers, inRetry, sendingTo, outside>>

(* deleteEndpoint; its notifications are deleted with it (ON DELETE CASCADE).  *)
DeleteEndpoint(p) ==
  /\ endpoint[p] # "deleted"
  /\ endpoint' = [endpoint EXCEPT ![p] = "deleted"]
  /\ status' = [j \in Job |-> IF j[2] = p THEN "none" ELSE status[j]]
  /\ tries' = [j \in Job |-> IF j[2] = p THEN 0 ELSE tries[j]]
  /\ later' = {j \in later : j[2] # p}
  /\ UNCHANGED <<mode, looping, workers, inRetry, sendingTo, outside>>

-----------------------------------------------------------------------------
LoopStep == CheckQueue \/ FetchBatch

WorkerStep(s) ==
  \/ LookUpEndpoint(s)
  \/ CancelNotification(s)
  \/ MarkSending(s)
  \/ Send(s)
  \/ RecordResult(s)
  \/ StatementFails(s)
  \/ CatchError(s)
  \/ WorkerRejects(s)

JobStep(j) == RetryNotification(j) \/ ResetForRetry(j) \/ RetryComesDue(j)

Lifecycle ==
  \/ StartProcessor
  \/ StartNotifications
  \/ StopQueue
  \/ QueueStopped
  \/ ProcessExits
  \/ Crash

Next ==
  \/ Lifecycle
  \/ LoopStep
  \/ \E s \in Slot : WorkerStep(s)
  \/ \E j \in Job : JobStep(j)
  \/ \E e \in Event : Publish(e) \/ \E p \in Endpoint : Enqueue(e, p) \/ EnqueueFails(e, p)
  \/ \E p \in Endpoint : SwitchEndpoint(p) \/ DeleteEndpoint(p)

Spec == Init /\ [][Next]_vars

(* The process runs again after it has ended, statements and requests return,  *)
(* timers fire. Nobody has to publish, retry, stop or change an endpoint.      *)
Fairness ==
  /\ WF_vars(StartProcessor)
  /\ WF_vars(StartNotifications)
  /\ WF_vars(QueueStopped)
  /\ WF_vars(ProcessExits)
  /\ WF_vars(LoopStep)
  /\ \A s \in Slot : WF_vars(WorkerStep(s))
  /\ \A j \in Job : WF_vars(ResetForRetry(j)) /\ WF_vars(RetryComesDue(j))
  /\ \A e \in Event, p \in Endpoint : WF_vars(Enqueue(e, p) \/ EnqueueFails(e, p))

FairSpec == Spec /\ Fairness

-----------------------------------------------------------------------------
(* Properties.                                                                *)

TypeOK ==
  /\ endpoint \in [Endpoint -> {"enabled", "disabled", "deleted"}]
  /\ status \in [Job -> {"none", "pending", "sending", "success", "failed",
                         "cancelled"}]
  /\ tries \in [Job -> 0..MaxRetries]
  /\ later \subseteq Job
  /\ mode \in {"down", "starting", "up", "stopping", "closing"}
  /\ loop \in {"off", "timer", "fetching", "sending"}
  /\ limit \in 0..BatchSize
  /\ batch \subseteq {s \in Slot : busy(s)}
  /\ loop = "sending" <=> batch # {}
  /\ pc \in [Slot -> {"idle", "look", "cancel", "claim", "send", "ok", "bad",
                      "again", "catch"}]
  /\ job \in [Slot -> Job \cup {Nobody}]
  /\ \A s \in Slot : busy(s) <=> job[s] # Nobody
  /\ tried \in [Slot -> 0..MaxRetries]
  /\ inRetry \subseteq Job
  /\ sendingTo \in [Event -> SUBSET Endpoint]
  /\ published \subseteq Event
  /\ attempts \in [Job -> Nat]
  /\ manual \in [Job -> Nat]
  /\ stops \in 0..MaxStops
  /\ died \in BOOLEAN
  /\ failures \in 0..MaxFailures

(* A notification nobody has retried by hand is in the hands of one worker at  *)
(* most, even when a worker rejects and the loop goes on without waiting for   *)
(* the rest of its batch.                                                      *)
OneSender ==
  \A s, t \in Slot :
    busy(s) /\ busy(t) /\ job[s] = job[t] /\ manual[job[s]] = 0 => s = t

(* As long as the process has not died and one statement at most has failed, a *)
(* notification marked as sending has a worker that will record how it went:   *)
(* a graceful stop leaves none behind.                                         *)
SendingHasSender ==
  ~died /\ failures <= 1 =>
    \A j \in Job : status[j] = "sending" => \E s \in Slot : job[s] = j

(* The merchant is sent a notification once and at most max_retries times more, *)
(* and a manual retry grants no more than another such round, whatever fails.   *)
AttemptsAreBounded ==
  \A j \in Job : attempts[j] <= (1 + MaxRetries) * (1 + manual[j])

(* A notification in the table ends as success, failed or cancelled, unless    *)
(* its endpoint is deleted, the process dies or a failed statement is not the  *)
(* only one.                                                                   *)
EveryNotificationEnds ==
  \A j \in Job : status[j] = "pending" ~>
    status[j] \in {"none", "success", "failed", "cancelled"}
      \/ died \/ failures > 1

=============================================================================
