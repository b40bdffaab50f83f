------------------------ MODULE NotificationBatches ------------------------
(***************************************************************************)
(* Batched deliveries: the webhook handler adds each event to the pending  *)
(* batch of its key in one transaction (queue_notification_batch), a       *)
(* single worker claims the due batches one after the other, sends each    *)
(* and records the answer on the batch and on all its member rows          *)
(* (claim_due_notification_batch, run_notification_batch,                  *)
(* finish_notification_batch), and a restart makes the interrupted batches *)
(* pending again (recover_notification_batches).                           *)
(*                                                                         *)
(* Time is a counter that advances on its own; due_at is compared with it. *)
(***************************************************************************)
EXTENDS DeliveryRecords, FiniteSetsExt

CONSTANTS
    BatchKeys,       \* values of batch_key
    KeyReceiver,     \* the receiver is part of the key's identity
    EventSizes,      \* sizes of a normalized event, in bytes
    MaxEvents,       \* notification_batching.max_events
    MaxBytes,        \* notification_batching.max_payload_bytes
    GroupWait,       \* notification_batching.group_wait_millis
    InitialBackoff,  \* delivery.initial_backoff_millis
    MaxBackoff,      \* delivery.max_backoff_millis
    Horizon          \* bound: until when time passes though nobody waits

Batches == Deliveries  \* a row opens at most one batch

ASSUME BatchAssumption ==
    /\ KeyReceiver \in [BatchKeys -> Receivers]
    /\ EventSizes \subseteq Nat \ {0}
    /\ {MaxEvents, MaxBytes, GroupWait, InitialBackoff} \subseteq Nat \ {0}
    /\ MaxBackoff \in Nat /\ MaxBackoff >= InitialBackoff
    /\ Horizon \in Nat

VARIABLES
    batch,   \* notification_batches
    member,  \* notification_batch_members: the batch and size of each row
    worker,  \* the batch worker: the batch it holds and its request's rows
    now,     \* the clock
    taken,   \* history: rows the receiver has taken
    lost,    \* history: batches whose outcome this run could not record
    named    \* history: the rows a batch's idempotency key stood for at first

batchVars == <<batch, member, worker, now, taken, lost, named>>
vars == <<recordVars, batchVars>>

NoBatch == [status |-> "none", key |-> "none", due |-> 0,
            attempts |-> 0, count |-> 0, bytes |-> 0]

NoMember == [batch |-> 0, bytes |-> 0]

Idle == [step |-> "idle", batch |-> 0, attempt |-> 0, content |-> {}]

BatchTypeOK ==
    /\ batch \in [Batches ->
          [status : {"none", "pending", "delivering", "retrying"} \cup TerminalStatus,
           key : BatchKeys \cup {"none"}, due : Nat, attempts : Nat,
           count : Nat, bytes : Nat]]
    /\ member \in [Deliveries -> [batch : {0} \cup Batches, bytes : Nat]]
    /\ worker \in [step : {"idle", "sending", "delivered", "rejected", "failed"},
                   batch : {0} \cup Batches, attempt : Nat,
                   content : SUBSET Deliveries]
    /\ now \in Nat
    /\ taken \subseteq Deliveries
    /\ lost \subseteq Batches
    /\ named \in [Batches -> SUBSET Deliveries]

TypeOK == RecordsTypeOK /\ BatchTypeOK

BatchInit ==
    /\ batch = [b \in Batches |-> NoBatch]
    /\ member = [d \in Deliveries |-> NoMember]
    /\ worker = Idle
    /\ now = 0
    /\ taken = {}
    /\ lost = {}
    /\ named = [b \in Batches |-> {}]

Members(b) == {d \in Deliveries : member[d].batch = b}
Pending(key) == {b \in Batches : batch[b].status = "pending" /\ batch[b].key = key}
Waiting(b) == batch[b].status \in {"pending", "retrying"}

NewBatchId(b) ==
    /\ batch[b].status = "none"
    /\ \A c \in 1 .. (b - 1) : batch[c].status # "none"
----------------------------------------------------------------------------
(* Queueing an event: one transaction.                                     *)

(* Mutant of Fits: the event's own size is forgotten.                      *)
FitsWithoutEvent(row, size) == row.count < MaxEvents /\ row.bytes <= MaxBytes

Fits(row, size) == row.count < MaxEvents /\ row.bytes + size <= MaxBytes

(* Mutants of WithEvent: every event postpones the batch anew; the counter *)
(* misses it.                                                              *)
WithEventPostponed(row, size) ==
    [row EXCEPT !.count = @ + 1, !.bytes = @ + size, !.due = now + GroupWait]
WithEventUncounted(row, size) == [row EXCEPT !.bytes = @ + size]

(* The row of a batch one event larger; it is due at once if it is full.   *)
WithEvent(row, size) ==
    [row EXCEPT
        !.count = @ + 1,
        !.bytes = @ + size,
        !.due = IF row.count + 1 >= MaxEvents \/ row.bytes + size >= MaxBytes
                   THEN now ELSE @]

EmptyBatch(key) ==
    [NoBatch EXCEPT !.status = "pending", !.key = key, !.due = now + GroupWait]

(* Mutant of Joinable: an event also joins a batch that is being sent.     *)
JoinableInFlight(key) ==
    {b \in Batches : batch[b].status \in {"pending", "delivering"} /\ batch[b].key = key}

Joinable(key) == Pending(key)

(* The newest joinable batch takes the event if it has room; if it has     *)
(* not, it becomes due and a new batch is opened, as when there is none.   *)
AddToBatch(d, key, size) ==
    \/ \E b \in Joinable(key) :
          /\ \A c \in Joinable(key) : c <= b
          /\ Fits(batch[b], size)
          /\ batch' = [batch EXCEPT ![b] = WithEvent(@, size)]
          /\ member' = [member EXCEPT ![d] = [batch |-> b, bytes |-> size]]
    \/ \E b \in Joinable(key), n \in Batches :
          /\ \A c \in Joinable(key) : c <= b
          /\ ~Fits(batch[b], size)
          /\ NewBatchId(n)
          /\ batch' = [batch EXCEPT ![b].due = now,
                                    ![n] = WithEvent(EmptyBatch(key), size)]
          /\ member' = [member EXCEPT ![d] = [batch |-> n, bytes |-> size]]
    \/ \E n \in Batches :
          /\ Joinable(key) = {}
          /\ NewBatchId(n)
          /\ batch' = [batch EXCEPT ![n] = WithEvent(EmptyBatch(key), size)]
          /\ member' = [member EXCEPT ![d] = [batch |-> n, bytes |-> size]]

QueueBatched(d, key, size) ==
    /\ phase = "up"
    /\ NextId(d)
    /\ KeyReceiver[key] = ReceiverOf[d]
    /\ ReceiverOf[d] \in configured
    /\ InsertRow(d)
    /\ AddToBatch(d, key, size)
    /\ UNCHANGED <<phase, limit, configured, crashes, worker, now, taken, lost, named>>
----------------------------------------------------------------------------
(* The worker.                                                             *)

(* Mutant of Earlier: the newest batch first.                              *)
EarlierNewest(b, c) == b >= c

(* ORDER BY due_at ASC, id ASC                                             *)
Earlier(b, c) ==
    batch[b].due < batch[c].due \/ (batch[b].due = batch[c].due /\ b <= c)

Due(b) == Waiting(b) /\ batch[b].due <= now

(* Every member row follows its batch.                                     *)
MoveMembers(b, status, attempts) ==
    [d \in Deliveries |->
        IF d \in Members(b) THEN [status |-> status, attempts |-> attempts]
                            ELSE rec[d]]

Claim(b) ==
    /\ phase \in {"spawning", "up"}
    /\ worker.step = "idle"
    /\ Due(b)
    /\ \A c \in Batches : Due(c) => Earlier(b, c)
    /\ LET attempt == batch[b].attempts + 1
       IN  /\ batch' = [batch EXCEPT ![b].status = "delivering", ![b].attempts = attempt]
           /\ rec' = MoveMembers(b, "delivering", attempt)
           /\ worker' = [step |-> "sending", batch |-> b, attempt |-> attempt,
                         content |-> Members(b)]
    /\ UNCHANGED <<phase, limit, configured, crashes, member, now, taken, lost, named>>

(* send_notification_batch: a missing receiver and a batch without members *)
(* are permanent failures; otherwise the receiver may take the request and *)
(* its answer be lost.                                                     *)
SendBatch ==
    /\ worker.step = "sending"
    /\ LET b == worker.batch IN
       \/ /\ KeyReceiver[batch[b].key] \notin configured \/ worker.content = {}
          /\ worker' = [worker EXCEPT !.step = "rejected"]
          /\ UNCHANGED <<taken, named>>
       \/ /\ KeyReceiver[batch[b].key] \in configured /\ worker.content # {}
          /\ named' = [named EXCEPT ![b] = IF @ = {} THEN worker.content ELSE @]
          /\ \E took \in BOOLEAN, answer \in {"delivered", "rejected", "failed"} :
                /\ answer = "delivered" => took
                /\ answer = "rejected" => ~took
                /\ worker' = [worker EXCEPT !.step = answer]
                /\ taken' = IF took THEN taken \cup worker.content ELSE taken
    /\ UNCHANGED <<recordVars, batch, member, now, lost>>

Backoff(attempt) ==
    LET exponent == IF attempt - 1 < 31 THEN attempt - 1 ELSE 31
        delay == InitialBackoff * 2 ^ exponent
    IN  IF delay < MaxBackoff THEN delay ELSE MaxBackoff

(* Mutant of FinishBatch: the member rows are forgotten.                   *)
FinishBatchOnly(status, due) ==
    /\ batch' = [batch EXCEPT ![worker.batch].status = status,
                              ![worker.batch].due = due]
    /\ worker' = Idle
    /\ UNCHANGED <<rec, phase, limit, configured, crashes, member, now, taken, lost, named>>

(* One transaction on the batch and all its rows.  Its failure is logged   *)
(* only, and the worker turns to the next batch.                           *)
FinishBatch(status, due) ==
    /\ LET b == worker.batch IN
       \/ /\ batch' = [batch EXCEPT ![b].status = status, ![b].due = due]
          /\ rec' = [d \in Deliveries |->
                        IF d \in Members(b) THEN [rec[d] EXCEPT !.status = status]
                                            ELSE rec[d]]
          /\ UNCHANGED lost
       \/ /\ StorageFails
          /\ lost' = lost \cup {b}
          /\ UNCHANGED <<batch, rec>>
    /\ worker' = Idle
    /\ UNCHANGED <<phase, limit, configured, crashes, member, now, taken, named>>

BatchSucceeded ==
    /\ worker.step = "delivered"
    /\ FinishBatch("succeeded", batch[worker.batch].due)

BatchDeadLettered ==
    /\ \/ worker.step = "rejected"
       \/ worker.step = "failed" /\ worker.attempt >= limit
    /\ FinishBatch("dead_letter", batch[worker.batch].due)

(* Mutant of BatchRetrying: the limit is not looked at.                    *)
BatchRetryingForever ==
    /\ worker.step = "failed"
    /\ FinishBatch("retrying", now + Backoff(worker.attempt))

BatchRetrying ==
    /\ worker.step = "failed"
    /\ worker.attempt < limit
    /\ FinishBatch("retrying", now + Backoff(worker.attempt))

BatchWorker ==
    \/ \E b \in Batches : Claim(b)
    \/ SendBatch \/ BatchSucceeded \/ BatchDeadLettered \/ BatchRetrying
----------------------------------------------------------------------------
(* Mutant of Interrupted: batches in flight are not taken up again.        *)
InterruptedPendingOnly == {"pending"}

Interrupted == {"pending", "delivering"}

(* Startup: one transaction makes interrupted batches pending and due, and *)
(* the queued and delivering rows of every pending batch queued.           *)
RecoverBatches ==
    LET recovered == {b \in Batches : batch[b].status \in Interrupted}
    IN  /\ batch' = [b \in Batches |->
              IF b \in recovered
                 THEN [batch[b] EXCEPT !.status = "pending", !.due = now]
                 ELSE batch[b]]
        /\ rec' = [d \in Deliveries |->
              IF member[d].batch \in recovered /\ rec[d].status \in {"queued", "delivering"}
                 THEN [rec[d] EXCEPT !.status = "queued"]
                 ELSE rec[d]]
        /\ lost' = {}
        /\ UNCHANGED <<member, worker, now, taken, named>>

(* The worker is started and the server listens.                           *)
StartWorker ==
    /\ phase = "recovering"
    /\ phase' = "up"
    /\ UNCHANGED <<rec, limit, configured, crashes, batchVars>>

WorkerDies == worker' = Idle /\ UNCHANGED <<batch, member, now, taken, lost, named>>

Startup == (Boot /\ RecoverBatches) \/ StartWorker

Crash == ProcessEnds /\ WorkerDies

Tick ==
    /\ now < Horizon \/ \E b \in Batches : Waiting(b) /\ batch[b].due > now
    /\ now' = now + 1
    /\ UNCHANGED <<recordVars, batch, member, worker, taken, lost, named>>

(* Nothing is left to do: the server waits for the next request.           *)
Quiet ==
    /\ phase = "up"
    /\ worker = Idle
    /\ \A d \in Deliveries : Live(d) => member[d].batch \in lost
    /\ UNCHANGED vars
----------------------------------------------------------------------------
Init == RecordsInit /\ BatchInit

Next ==
    \/ Startup
    \/ Crash
    \/ \E d \in Deliveries, key \in BatchKeys, size \in EventSizes :
          QueueBatched(d, key, size)
    \/ BatchWorker
    \/ Tick
    \/ Quiet

Spec == Init /\ [][Next]_vars

(* The worker polls every 25 ms and requests end by their timeout; time    *)
(* passes; the service is restarted when it has died.                      *)
Fairness == WF_vars(Startup) /\ WF_vars(BatchWorker) /\ WF_vars(Tick)

FairSpec == Spec /\ Fairness
----------------------------------------------------------------------------
(* Properties.                                                             *)

InUse(b) == batch[b].status # "none"

(* No batch outgrows the configured bounds, except that a single event     *)
(* larger than max_payload_bytes travels alone, as long as the bounds stay *)
(* the same from run to run.  About the order of the test and the          *)
(* insertion in queue_notification_batch.                                  *)
WithinBounds ==
    \A b \in Batches : InUse(b) =>
        /\ batch[b].count \in 1 .. MaxEvents
        /\ batch[b].bytes <= MaxBytes \/ batch[b].count = 1

(* The counters the bounds are tested against agree with the member table. *)
CountersMatchMembers ==
    \A b \in Batches :
        /\ batch[b].count = Cardinality(Members(b))
        /\ batch[b].bytes = MapThenSumSet(LAMBDA d : member[d].bytes, Members(b))

(* What operators and recover_deliveries read in a member's own row is     *)
(* what its batch is doing; only rows that joined after a crash lag behind *)
(* the batch's attempts.                                                   *)
MembersFollowBatch ==
    \A d \in Deliveries : member[d].batch # 0 =>
        LET row == batch[member[d].batch]
        IN  /\ rec[d].status = IF row.status = "pending" THEN "queued" ELSE row.status
            /\ rec[d].attempts <= row.attempts
            /\ row.status # "pending" => rec[d].attempts = row.attempts

(* A batch in flight is the one the worker holds, or one whose outcome     *)
(* could not be recorded: nothing else is left in flight, which only a     *)
(* restart could ever take up, and a restart takes all of it up.           *)
InFlightIsHeld ==
    phase = "up" => \A b \in Batches :
        batch[b].status = "delivering" <=>
            (worker.step # "idle" /\ worker.batch = b) \/ b \in lost

(* An event is not overtaken by a later one of its key on their first way  *)
(* out: no batch is sent for the first time while an older one of its key  *)
(* is pending.  A key has one status: an alert and its resolution are not  *)
(* ordered by it.  About due_at of a full batch and ORDER BY due_at, id.   *)
OldestOfKeyFirst ==
    [][\A b, c \in Batches :
          /\ b < c
          /\ batch[b].key = batch[c].key
          /\ batch[c].attempts = 0
          /\ batch'[c].attempts = 1
          => batch[b].status # "pending"]_vars

(* Events that join a batch never push its due time past the wait its      *)
(* first event was given, and never past now once it is overdue.           *)
WaitIsNotExtended ==
    [][\A b \in Batches :
          batch[b].status = "pending" /\ batch'[b].status = "pending" =>
              batch'[b].due <= batch[b].due \/ batch'[b].due <= now]_vars

(* A batch is attempted max_attempts times at most, plus once for each     *)
(* crash, which may have interrupted an attempt or followed one whose      *)
(* outcome could not be recorded.                                          *)
AttemptsBounded ==
    ~LimitMayDrop => \A b \in Batches : InUse(b) =>
        batch[b].attempts <= limit + crashes

(* One idempotency key stands for one set of events: a receiver that drops *)
(* a request whose key it has seen drops nothing new.                      *)
KeyNamesOneContent ==
    worker.step = "sending" => named[worker.batch] \in {{}, worker.content}

(* The backlog is cleared again and again: every batched event ends up     *)
(* succeeded or dead-lettered, unless the outcome of its batch could not   *)
(* be recorded.  About the worker's single lane, its order and the         *)
(* recovery of interrupted batches.                                        *)
BacklogIsCleared ==
    []<>(\A d \in Deliveries : Live(d) => member[d].batch \in lost)

(* The member rows keep the abstract promise: in particular a row that     *)
(* says succeeded was part of the request the receiver took.               *)
PromiseOf(status) ==
    CASE status = "none" -> "none"
      [] status \in LiveStatus -> "owed"
      [] status = "succeeded" -> "delivered"
      [] status = "dead_letter" -> "given_up"

Promise == INSTANCE DeliveryPromise WITH
    promise <- [d \in Deliveries |-> PromiseOf(rec[d].status)],
    received <- [d \in Deliveries |-> d \in taken]

PromiseKept == Promise!Spec
============================================================================
