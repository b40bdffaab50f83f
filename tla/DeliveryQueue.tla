--------------------------- MODULE DeliveryQueue ---------------------------
(***************************************************************************)
(* Deliveries that are not batched: the webhook handler inserts a row and  *)
(* spawns a Tokio task for it (queue_target_event_delivery), an operator   *)
(* may replay any row (replay_delivery), each task runs the retry loop     *)
(* DeliveryWorker::run_from, and a restart requeues the live rows and      *)
(* spawns a task for each (recover_deliveries, start_recovered_delivery).  *)
(*                                                                         *)
(* A task is identified by its row and its idempotency key: key 0 is       *)
(* "simple-alert-proxy-{id}", key k > 0 the fresh UUID of the k-th replay. *)
(* Sleeping between attempts is a step that may take any time.             *)
(***************************************************************************)
EXTENDS DeliveryRecords

CONSTANTS
    MaxReplays,  \* bound: how often an operator replays one row
    ReplayLive   \* does the operator also replay rows that are not settled?

Keys == 0 .. MaxReplays

ASSUME QueueAssumption == MaxReplays \in Nat /\ ReplayLive \in BOOLEAN

VARIABLES
    task,     \* per row and key: where the handler or task is, and its attempt
    next,     \* per row: next_attempt of the RecoveredDelivery, 0 if none
    replays,  \* per row: replays so far (its audit entries)
    accepted  \* history: the rounds of each row the receiver has taken

queueVars == <<task, next, replays, accepted>>
vars == <<recordVars, queueVars>>

(* idle: no task.  queueing, replaying: the row is written, the handler    *)
(* has not spawned the task yet.  attempting: top of the retry loop.       *)
(* sending: attempt recorded, request not answered.  delivered, rejected,  *)
(* failed: the answer is known, the row does not show it yet.              *)
Steps == {"idle", "queueing", "replaying", "attempting", "sending",
          "delivered", "rejected", "failed", "sleeping"}

NoTask == [step |-> "idle", attempt |-> 0]
NoTasks == [d \in Deliveries |-> [k \in Keys |-> NoTask]]

QueueTypeOK ==
    /\ task \in [Deliveries -> [Keys -> [step : Steps, attempt : Nat]]]
    /\ next \in [Deliveries -> Nat]
    /\ replays \in [Deliveries -> Keys]
    /\ accepted \in [Deliveries -> SUBSET Keys]

TypeOK == RecordsTypeOK /\ QueueTypeOK

QueueInit ==
    /\ task = NoTasks
    /\ next = [d \in Deliveries |-> 0]
    /\ replays = [d \in Deliveries |-> 0]
    /\ accepted = [d \in Deliveries |-> {}]

At(d, k, step) == task[d][k].step = step
GoTo(d, k, step) == task' = [task EXCEPT ![d][k].step = step]
Finish(d, k) == task' = [task EXCEPT ![d][k] = NoTask]
Busy(d) == \E k \in Keys : ~At(d, k, "idle")
----------------------------------------------------------------------------
(* A webhook event is planned for a configured receiver and its row is     *)
(* committed; the handler goes on to schedule the escalation.              *)
Enqueue(d) ==
    /\ phase = "up"
    /\ NextId(d)
    /\ ReceiverOf[d] \in configured
    /\ InsertRow(d)
    /\ task' = [task EXCEPT ![d][0] = [step |-> "queueing", attempt |-> 1]]
    /\ UNCHANGED <<phase, limit, configured, crashes, next, replays, accepted>>

(* An operator replays a row: whatever its status, it becomes queued.      *)
Replay(d) ==
    /\ phase = "up"
    /\ rec[d].status # "none"
    /\ ReplayLive \/ Terminal(d)
    /\ replays[d] < MaxReplays
    /\ RequeueRow(d)
    /\ replays' = [replays EXCEPT ![d] = @ + 1]
    /\ task' = [task EXCEPT ![d][replays[d] + 1] =
                   [step |-> "replaying", attempt |-> 1]]
    /\ UNCHANGED <<phase, limit, configured, crashes, next, accepted>>

(* The handler spawns the task.  A replay first looks its receiver up and  *)
(* answers 500 if a restart has dropped it, leaving the row queued.        *)
Spawn(d, k) ==
    /\ \/ At(d, k, "queueing") /\ GoTo(d, k, "attempting")
       \/ /\ At(d, k, "replaying")
          /\ IF ReceiverOf[d] \in configured
                THEN GoTo(d, k, "attempting")
                ELSE Finish(d, k)
    /\ UNCHANGED <<recordVars, next, replays, accepted>>

(* The write between the row and the spawn (the escalation task, or the    *)
(* audit entry of a replay) fails: the handler answers 500, no task.       *)
AbortSpawn(d, k) ==
    /\ StorageFails
    /\ At(d, k, "queueing") \/ At(d, k, "replaying")
    /\ Finish(d, k)
    /\ UNCHANGED <<recordVars, next, replays, accepted>>
----------------------------------------------------------------------------
(* for attempt in first_attempt..=max_attempts: record the attempt.        *)
Attempt(d, k) ==
    /\ At(d, k, "attempting")
    /\ task[d][k].attempt <= limit
    /\ MarkAttempt(d, task[d][k].attempt)
    /\ GoTo(d, k, "sending")
    /\ UNCHANGED <<phase, limit, configured, crashes, next, replays, accepted>>

(* The range is empty: the loop body never runs and the task ends.         *)
LoopIsEmpty(d, k) ==
    /\ At(d, k, "attempting")
    /\ task[d][k].attempt > limit
    /\ Finish(d, k)
    /\ UNCHANGED <<recordVars, next, replays, accepted>>

(* Mutant of Send: a timeout counts as delivered.                          *)
SendTrustingTimeouts(d, k) ==
    /\ At(d, k, "sending")
    /\ GoTo(d, k, "delivered")
    /\ \/ accepted' = [accepted EXCEPT ![d] = @ \cup {replays[d]}]
       \/ UNCHANGED accepted
    /\ UNCHANGED <<recordVars, next, replays>>

(* The request and its answer.  The receiver may take it and the answer be *)
(* lost (a timeout), which the worker sees as a retryable failure.         *)
Send(d, k) ==
    /\ At(d, k, "sending")
    /\ \E taken \in BOOLEAN, answer \in {"delivered", "rejected", "failed"} :
          /\ answer = "delivered" => taken
          /\ answer = "rejected" => ~taken
          /\ GoTo(d, k, answer)
          /\ accepted' = IF taken
                            THEN [accepted EXCEPT ![d] = @ \cup {replays[d]}]
                            ELSE accepted
    /\ UNCHANGED <<recordVars, next, replays>>

(* Mutant of RecordSuccess: no return after the success.                   *)
RecordSuccessAndGoOn(d, k) ==
    /\ At(d, k, "delivered")
    /\ MarkSucceeded(d)
    /\ GoTo(d, k, "sleeping")
    /\ UNCHANGED <<phase, limit, configured, crashes, next, replays, accepted>>

RecordSuccess(d, k) ==
    /\ At(d, k, "delivered")
    /\ MarkSucceeded(d)
    /\ Finish(d, k)
    /\ UNCHANGED <<phase, limit, configured, crashes, next, replays, accepted>>

RecordDeadLetter(d, k) ==
    /\ \/ At(d, k, "rejected")
       \/ At(d, k, "failed") /\ task[d][k].attempt >= limit
    /\ MarkDeadLetter(d)
    /\ Finish(d, k)
    /\ UNCHANGED <<phase, limit, configured, crashes, next, replays, accepted>>

(* Mutant of RecordRetry: one attempt too many.                            *)
RecordRetryAtLimit(d, k) ==
    /\ At(d, k, "failed")
    /\ task[d][k].attempt <= limit
    /\ MarkRetrying(d)
    /\ GoTo(d, k, "sleeping")
    /\ UNCHANGED <<phase, limit, configured, crashes, next, replays, accepted>>

RecordRetry(d, k) ==
    /\ At(d, k, "failed")
    /\ task[d][k].attempt < limit
    /\ MarkRetrying(d)
    /\ GoTo(d, k, "sleeping")
    /\ UNCHANGED <<phase, limit, configured, crashes, next, replays, accepted>>

(* The backoff is over.                                                    *)
Wake(d, k) ==
    /\ At(d, k, "sleeping")
    /\ task' = [task EXCEPT ![d][k] = [step |-> "attempting", attempt |-> @.attempt + 1]]
    /\ UNCHANGED <<recordVars, next, replays, accepted>>

Worker(d, k) ==
    \/ Spawn(d, k) \/ Attempt(d, k) \/ LoopIsEmpty(d, k) \/ Send(d, k)
    \/ RecordSuccess(d, k) \/ RecordDeadLetter(d, k) \/ RecordRetry(d, k)
    \/ Wake(d, k)
----------------------------------------------------------------------------
(* Mutants of Recoverable: rows between two attempts, or with an attempt   *)
(* under way, are overlooked; the dead letters are taken up again.         *)
RecoverableQueuedOnly ==
    {d \in Deliveries : rec[d].status \in {"queued", "retrying"} /\ next[d] = 0}
RecoverableNotRetrying ==
    {d \in Deliveries : rec[d].status \in {"queued", "delivering"} /\ next[d] = 0}
RecoverableDeadLetters ==
    {d \in Deliveries :
        (Live(d) \/ rec[d].status = "dead_letter") /\ next[d] = 0}

(* The rows the startup query selects and has not requeued yet.            *)
Recoverable == {d \in Deliveries : Live(d) /\ next[d] = 0}

(* Mutant of RecoveredAttempt: every restart begins again with attempt 1.  *)
RecoveredAttemptOne(d) == 1

(* The attempt a recovered task starts with: the interrupted one again, or *)
(* the one after the failed one.                                           *)
RecoveredAttempt(d) ==
    CASE rec[d].status = "delivering" -> IF rec[d].attempts = 0 THEN 1 ELSE rec[d].attempts
      [] rec[d].status = "retrying"   -> rec[d].attempts + 1
      [] OTHER                        -> 1

(* recover_deliveries requeues the rows one UPDATE at a time, in id order. *)
RecoverRow(d, rows) ==
    /\ phase = "recovering"
    /\ Lowest(d, rows)
    /\ next' = [next EXCEPT ![d] = RecoveredAttempt(d)]
    /\ RequeueRow(d)
    /\ UNCHANGED <<phase, limit, configured, crashes, task, replays, accepted>>

RecoveryDone(rows) ==
    /\ phase = "recovering"
    /\ rows = {}
    /\ phase' = "spawning"
    /\ UNCHANGED <<rec, limit, configured, crashes, queueVars>>

Found == {d \in Deliveries : next[d] > 0}

(* start_recovered_delivery, in id order.  The task gets the plain key.    *)
SpawnRecovered(d) ==
    /\ phase = "spawning"
    /\ Lowest(d, Found)
    /\ ReceiverOf[d] \in configured
    /\ next' = [next EXCEPT ![d] = 0]
    /\ task' = [task EXCEPT ![d][0] = [step |-> "attempting", attempt |-> next[d]]]
    /\ UNCHANGED <<recordVars, replays, accepted>>

TasksDie ==
    /\ task' = NoTasks
    /\ next' = [d \in Deliveries |-> 0]
    /\ UNCHANGED <<replays, accepted>>

(* A recovered row's receiver is not configured: the start is aborted, and *)
(* the tasks already spawned end with the process.                         *)
RefuseToStart(d) ==
    /\ phase = "spawning"
    /\ Lowest(d, Found)
    /\ ReceiverOf[d] \notin configured
    /\ ProcessEnds
    /\ TasksDie

Listen ==
    /\ phase = "spawning"
    /\ Found = {}
    /\ phase' = "up"
    /\ UNCHANGED <<rec, limit, configured, crashes, queueVars>>

Startup ==
    \/ Boot /\ UNCHANGED <<rec, queueVars>>
    \/ \E d \in Deliveries :
          RecoverRow(d, Recoverable) \/ SpawnRecovered(d) \/ RefuseToStart(d)
    \/ RecoveryDone(Recoverable)
    \/ Listen

Crash == ProcessEnds /\ TasksDie

(* Nothing is left to do: the server waits for the next request.           *)
Quiet ==
    /\ phase = "up"
    /\ \A d \in Deliveries : ~Live(d) /\ ~Busy(d)
    /\ UNCHANGED vars
----------------------------------------------------------------------------
Init == RecordsInit /\ QueueInit

Next ==
    \/ Startup
    \/ Crash
    \/ \E d \in Deliveries :
          \/ Enqueue(d)
          \/ Replay(d)
          \/ \E k \in Keys : Worker(d, k) \/ AbortSpawn(d, k)
    \/ Quiet

Spec == Init /\ [][Next]_vars

(* Tokio polls every spawned task, timers fire and requests end by their   *)
(* timeout, so each task keeps moving; the service is restarted when it    *)
(* has died.  Nobody is obliged to send events, replay or crash.           *)
Fairness ==
    /\ WF_vars(Startup)
    /\ \A d \in Deliveries, k \in Keys : WF_vars(Worker(d, k))

FairSpec == Spec /\ Fairness
----------------------------------------------------------------------------
(* Properties.                                                             *)

(* The circumstances under which the strongest promises hold: operators    *)
(* replay settled deliveries only, max_attempts is never lowered between   *)
(* two runs, and no storage call of a running task fails.                  *)
Careful == ~ReplayLive /\ ~LimitMayDrop /\ ~StorageFails

(* While the server is up every row that is not settled has a task or a    *)
(* handler working on it: nothing waits for a restart to be remembered.    *)
(* About run_from's empty range, the recovery of interrupted rows and the  *)
(* handlers' window between the row and the spawn.                         *)
NoOrphan ==
    Careful => \A d \in Deliveries :
        phase = "up" /\ Live(d) /\ ReceiverOf[d] \in configured => Busy(d)

(* A row that waits for a retry still has an attempt left, so the attempt  *)
(* after it, which recovery resumes with, is inside the retry loop's range.*)
RetriesRemain ==
    Careful => \A d \in Deliveries :
        rec[d].status = "retrying" => rec[d].attempts < limit

(* Without overlapping replays one task at most works on a row, and none   *)
(* on a settled row, so no request is ever sent for a settled delivery.    *)
OneTaskPerRow ==
    ~ReplayLive => \A d \in Deliveries :
        /\ Busy(d) => Live(d)
        /\ \A j, k \in Keys : ~At(d, j, "idle") /\ ~At(d, k, "idle") => j = k

(* A row says succeeded only if its receiver took a request for it, even   *)
(* with overlapping replays and failing storage calls.                     *)
SucceededMeansTaken ==
    \A d \in Deliveries : rec[d].status = "succeeded" => accepted[d] # {}

(* A verdict stands until an operator replays the row: no crash, recovery, *)
(* late answer or second task changes it.  About the unconditional UPDATEs *)
(* of mark_* and the statuses recover_deliveries selects.                  *)
VerdictStands ==
    [][\A d \in Deliveries :
          Terminal(d) /\ rec'[d] # rec[d] => replays'[d] > 0]_vars

(* One crash does not give a delivery its attempts back: attempt_count     *)
(* falls only for a replay, or when a second crash hits a row between its  *)
(* requeueing at startup and its next attempt.                             *)
CountSurvivesACrash ==
    [][\A d \in Deliveries :
          rec'[d].attempts < rec[d].attempts => replays[d] > 0 \/ crashes > 1]_vars

(* A request carries the idempotency key of the delivery's current round:  *)
(* stable across retries and restarts, new after a replay (docs/N8N.md).   *)
KeyOfTheRound ==
    \A d \in Deliveries, k \in Keys : At(d, k, "sending") => k = replays[d]

(* Every delivery the proxy accepted ends up succeeded or dead-lettered.   *)
EventuallySettled == \A d \in Deliveries : Live(d) ~> Terminal(d)

(* The queue keeps the abstract promise.  A round's receipt is one taken   *)
(* since its replay.                                                       *)
PromiseOf(status) ==
    CASE status = "none" -> "none"
      [] status \in LiveStatus -> "owed"
      [] status = "succeeded" -> "delivered"
      [] status = "dead_letter" -> "given_up"

Promise == INSTANCE DeliveryPromise WITH
    promise <- [d \in Deliveries |-> PromiseOf(rec[d].status)],
    received <- [d \in Deliveries |-> replays[d] \in accepted[d]]

PromiseKept == Promise!Spec
============================================================================
