------------------------ MODULE DeliverySystemProofs ------------------------
(***************************************************************************)
(* Proofs about DeliverySystem, for any number of rows, replays and        *)
(* crashes, any receivers, keys, limits, sizes, bounds and delays.         *)
(*                                                                         *)
(* The parts are instances, so their own proofs are about other variables: *)
(* here each step of a part is first reduced to what it does to the tables *)
(* the parts share (LEMMA Steps), and everything else follows from that.   *)
(***************************************************************************)
EXTENDS DeliverySystem, TLAPS

TaskSteps == {"idle", "queueing", "replaying", "attempting", "sending",
              "delivered", "rejected", "failed", "sleeping"}

TaskState == [step : TaskSteps, attempt : Nat]

Batches == Deliveries

BatchRow ==
    [status : {"none", "pending", "delivering", "retrying"} \cup TerminalStatus,
     key : BatchKeys \cup {"none"}, due : Nat, attempts : Nat,
     count : Nat, bytes : Nat]

WorkerState ==
    [step : {"idle", "sending", "delivered", "rejected", "failed"},
     batch : {0} \cup Batches, attempt : Nat, content : SUBSET Deliveries]

(* The types of the tables, without the prefixes of the instances.         *)
Tables ==
    /\ phase \in Phases /\ rec \in [Deliveries -> Row]
    /\ limit \in {0} \cup AttemptLimits /\ (phase # "down" => limit \in AttemptLimits)
    /\ configured \subseteq Receivers /\ crashes \in 0 .. MaxCrashes
    /\ task \in [Deliveries -> [Keys -> TaskState]]
    /\ next \in [Deliveries -> Nat]
    /\ replays \in [Deliveries -> Keys]
    /\ accepted \in [Deliveries -> SUBSET Keys]
    /\ batch \in [Batches -> BatchRow]
    /\ member \in [Deliveries -> [batch : {0} \cup Batches, bytes : Nat]]
    /\ worker \in WorkerState
    /\ now \in Nat /\ taken \subseteq Deliveries
    /\ lost \subseteq Batches
    /\ named \in [Batches -> SUBSET Deliveries]

(* The worker holds a batch, and an attempt it has counted.                *)
WorkerIsReal ==
    worker.step # "idle" => worker.batch \in Batches /\ worker.attempt > 0
----------------------------------------------------------------------------
LEMMA ConstantTypes ==
    /\ MaxEvents \in Nat /\ MaxBytes \in Nat
    /\ GroupWait \in Nat /\ InitialBackoff \in Nat /\ MaxBackoff \in Nat
    /\ EventSizes \subseteq Nat
    /\ AttemptLimits \subseteq Nat \ {0}
    /\ Batches \subseteq Nat \ {0} /\ 0 \notin Batches /\ 0 \notin Deliveries
    /\ 0 \in Keys /\ Keys \subseteq Nat
    /\ MaxCrashes \in Nat /\ MaxReplays \in Nat
    /\ ~StorageFails
BY SystemAssumption, RecordsAssumption DEF Batches, Deliveries, Keys

(* The two ways of writing the types agree.                                *)
LEMMA TypesAreTables == TypeOK <=> Tables
BY DEF TypeOK, RecordsTypeOK, Queue!QueueTypeOK, Batching!BatchTypeOK, Tables,
       Queue!Keys, Keys, Queue!Steps, TaskSteps, TaskState, Queue!Deliveries, Deliveries,
       Batching!Batches, Batching!Deliveries, Batches, Batching!TerminalStatus,
       TerminalStatus, BatchRow, WorkerState

(* The powers of two that the shift takes, and so the backoff, are numbers. *)
LEMMA BackoffType == ASSUME NEW a \in Nat \ {0} PROVE Batching!Backoff(a) \in Nat
<1>1. /\ 2 ^ 0 \in Nat /\ 2 ^ 1 \in Nat /\ 2 ^ 2 \in Nat /\ 2 ^ 3 \in Nat
      /\ 2 ^ 4 \in Nat /\ 2 ^ 5 \in Nat /\ 2 ^ 6 \in Nat /\ 2 ^ 7 \in Nat
      /\ 2 ^ 8 \in Nat /\ 2 ^ 9 \in Nat /\ 2 ^ 10 \in Nat /\ 2 ^ 11 \in Nat
      /\ 2 ^ 12 \in Nat /\ 2 ^ 13 \in Nat /\ 2 ^ 14 \in Nat /\ 2 ^ 15 \in Nat
      /\ 2 ^ 16 \in Nat /\ 2 ^ 17 \in Nat /\ 2 ^ 18 \in Nat /\ 2 ^ 19 \in Nat
      /\ 2 ^ 20 \in Nat /\ 2 ^ 21 \in Nat /\ 2 ^ 22 \in Nat /\ 2 ^ 23 \in Nat
      /\ 2 ^ 24 \in Nat /\ 2 ^ 25 \in Nat /\ 2 ^ 26 \in Nat /\ 2 ^ 27 \in Nat
      /\ 2 ^ 28 \in Nat /\ 2 ^ 29 \in Nat /\ 2 ^ 30 \in Nat /\ 2 ^ 31 \in Nat
  OBVIOUS
<1>2. \A n \in 0 .. 31 : 2 ^ n \in Nat
  <2>1. \A n \in 0 .. 31 :
           \/ n = 0 \/ n = 1 \/ n = 2 \/ n = 3 \/ n = 4 \/ n = 5 \/ n = 6 \/ n = 7
           \/ n = 8 \/ n = 9 \/ n = 10 \/ n = 11 \/ n = 12 \/ n = 13 \/ n = 14 \/ n = 15
           \/ n = 16 \/ n = 17 \/ n = 18 \/ n = 19 \/ n = 20 \/ n = 21 \/ n = 22 \/ n = 23
           \/ n = 24 \/ n = 25 \/ n = 26 \/ n = 27 \/ n = 28 \/ n = 29 \/ n = 30 \/ n = 31
    OBVIOUS
  <2> QED BY <1>1, <2>1
<1> DEFINE exponent == IF a - 1 < 31 THEN a - 1 ELSE 31
           delay == InitialBackoff * 2 ^ exponent
<1>3. 2 ^ exponent \in Nat
  <2>1. exponent \in 0 .. 31
    OBVIOUS
  <2> QED BY <1>2, <2>1
<1>4. delay \in Nat
  <2> HIDE DEF exponent
  <2> QED BY <1>3, ConstantTypes
<1>5. Batching!Backoff(a) = IF delay < MaxBackoff THEN delay ELSE MaxBackoff
  BY DEF Batching!Backoff
<1> HIDE DEF delay
<1> QED BY <1>4, <1>5, ConstantTypes
----------------------------------------------------------------------------
(* What a step does to the shared tables.                                  *)

Running == UNCHANGED <<phase, limit, configured, crashes>>
BatchesRest == UNCHANGED <<batch, member, worker, taken>>
TasksRest == UNCHANGED <<task, next, replays, accepted>>

(* Nothing of a row and of the tasks on it changes ...                     *)
Untouched(d) ==
    /\ rec'[d] = rec[d] /\ task'[d] = task[d] /\ next'[d] = next[d]
    /\ replays'[d] = replays[d] /\ accepted'[d] = accepted[d]

(* ... and nothing of any other row than d.                                *)
OnlyRow(d) == Running /\ BatchesRest /\ \A e \in Deliveries \ {d} : Untouched(e)

(* A row that differs in its status only.                                  *)
Turned(d, status) == rec'[d].status = status /\ rec'[d].attempts = rec[d].attempts

Stutters ==
    UNCHANGED <<phase, rec, limit, configured, crashes, task, next, replays, accepted,
                batch, member, worker, taken>>

Boots ==
    /\ phase = "down" /\ phase' = "recovering"
    /\ LimitMayDrop \/ limit' >= limit
    /\ UNCHANGED <<crashes, member, worker, taken>> /\ TasksRest
    /\ \A b \in Batches :
          IF batch[b].status \in {"pending", "delivering"}
             THEN batch'[b].status = "pending" ELSE batch'[b] = batch[b]
    /\ \A d \in Deliveries :
          IF /\ rec[d].status \in {"queued", "delivering"}
             /\ \E b \in Batches :
                   member[d].batch = b /\ batch[b].status \in {"pending", "delivering"}
             THEN Turned(d, "queued")
             ELSE rec'[d] = rec[d]

Requeues(d) ==
    /\ OnlyRow(d)
    /\ phase = "recovering" /\ ~Batched(d) /\ Live(d) /\ next[d] = 0
    /\ Turned(d, "queued") /\ next'[d] = Queue!RecoveredAttempt(d)
    /\ task'[d] = task[d] /\ replays'[d] = replays[d] /\ accepted'[d] = accepted[d]

Requeued ==
    /\ phase = "recovering" /\ phase' = "spawning"
    /\ \A d \in Deliveries : ~Batched(d) /\ Live(d) => next[d] > 0
    /\ UNCHANGED <<rec, limit, configured, crashes>> /\ TasksRest /\ BatchesRest

Restarts(d) ==
    /\ OnlyRow(d)
    /\ phase = "spawning" /\ next[d] > 0 /\ next'[d] = 0
    /\ task'[d][0] = [step |-> "attempting", attempt |-> next[d]]
    /\ \A k \in Keys \ {0} : task'[d][k] = task[d][k]
    /\ rec'[d] = rec[d] /\ replays'[d] = replays[d] /\ accepted'[d] = accepted[d]

Listens ==
    /\ phase = "spawning" /\ phase' = "up" /\ \A d \in Deliveries : next[d] = 0
    /\ UNCHANGED <<rec, limit, configured, crashes>> /\ TasksRest /\ BatchesRest

Ends ==
    /\ phase # "down" /\ phase' = "down"
    /\ UNCHANGED <<rec, limit, configured, batch, member, taken, replays, accepted>>
    /\ \A d \in Deliveries : next'[d] = 0 /\ \A k \in Keys : task'[d][k].step = "idle"
    /\ worker'.step = "idle"

Inserts(d) ==
    /\ OnlyRow(d)
    /\ phase = "up" /\ rec[d].status = "none"
    /\ rec'[d] = [status |-> "queued", attempts |-> 0]
    /\ task'[d][0] = [step |-> "queueing", attempt |-> 1]
    /\ \A k \in Keys \ {0} : task'[d][k] = task[d][k]
    /\ next'[d] = next[d] /\ replays'[d] = replays[d] /\ accepted'[d] = accepted[d]

Replays(d, k) ==
    /\ OnlyRow(d)
    /\ phase = "up" /\ rec[d].status # "none" /\ (ReplayLive \/ Terminal(d))
    /\ k = replays[d] + 1 /\ replays'[d] = k
    /\ Turned(d, "queued")
    /\ task'[d][k] = [step |-> "replaying", attempt |-> 1]
    /\ \A j \in Keys \ {k} : task'[d][j] = task[d][j]
    /\ next'[d] = next[d] /\ accepted'[d] = accepted[d]

(* A step of the task with key k on row d, and each of the steps it makes. *)
Works(d, k) ==
    /\ OnlyRow(d)
    /\ task[d][k].step # "idle"
    /\ \A j \in Keys \ {k} : task'[d][j] = task[d][j]
    /\ next'[d] = next[d] /\ replays'[d] = replays[d]

Continues(d, k) ==
    /\ rec'[d] = rec[d] /\ accepted'[d] = accepted[d]
    /\ task'[d][k].step = "attempting"
    /\ \/ task[d][k].step \in {"queueing", "replaying"}
          /\ task'[d][k].attempt = task[d][k].attempt
       \/ task[d][k].step = "sleeping" /\ task'[d][k].attempt = task[d][k].attempt + 1

Stops(d, k) ==
    /\ rec'[d] = rec[d] /\ accepted'[d] = accepted[d]
    /\ task'[d][k].step = "idle"
    /\ \/ task[d][k].step = "replaying" /\ ReceiverOf[d] \notin configured
       \/ task[d][k].step = "attempting" /\ task[d][k].attempt > limit

Tries(d, k) ==
    /\ accepted'[d] = accepted[d]
    /\ task[d][k].step = "attempting" /\ task[d][k].attempt <= limit
    /\ rec'[d] = [status |-> "delivering", attempts |-> task[d][k].attempt]
    /\ task'[d][k].step = "sending" /\ task'[d][k].attempt = task[d][k].attempt

Requests(d, k) ==
    /\ rec'[d] = rec[d]
    /\ task[d][k].step = "sending"
    /\ task'[d][k].step \in {"delivered", "rejected", "failed"}
    /\ task'[d][k].attempt = task[d][k].attempt
    /\ accepted'[d] \in {accepted[d], accepted[d] \cup {replays[d]}}
    /\ task'[d][k].step = "delivered" => replays[d] \in accepted'[d]

Settles(d, k) ==
    /\ accepted'[d] = accepted[d]
    /\ task'[d][k].step = "idle"
    /\ \/ task[d][k].step = "delivered" /\ Turned(d, "succeeded")
       \/ task[d][k].step \in {"rejected", "failed"} /\ Turned(d, "dead_letter")

Retries(d, k) ==
    /\ accepted'[d] = accepted[d] /\ Turned(d, "retrying")
    /\ task[d][k].step = "failed" /\ task[d][k].attempt < limit
    /\ task'[d][k].step = "sleeping" /\ task'[d][k].attempt = task[d][k].attempt

TaskMoves(d, k) ==
    /\ Works(d, k)
    /\ \/ Continues(d, k) \/ Stops(d, k) \/ Tries(d, k) \/ Requests(d, k)
       \/ Settles(d, k) \/ Retries(d, k)

(* Row d is inserted as a member of batch b, which it joins or opens.      *)
Joins(d, b) ==
    /\ Running /\ TasksRest /\ UNCHANGED <<worker, taken>>
    /\ phase = "up" /\ rec[d].status = "none"
    /\ rec'[d] = [status |-> "queued", attempts |-> 0]
    /\ member'[d].batch = b
    /\ \A e \in Deliveries \ {d} : rec'[e] = rec[e] /\ member'[e] = member[e]
    /\ batch[b].status \in {"none", "pending"} /\ batch'[b].status = "pending"
    /\ \A c \in Batches \ {b} : batch'[c].status = batch[c].status

MembersOf(b) == {d \in Deliveries : member[d].batch = b}

Claims(b) ==
    /\ Running /\ TasksRest /\ UNCHANGED <<member, taken>>
    /\ phase \in {"spawning", "up"} /\ worker.step = "idle"
    /\ batch[b].status \in {"pending", "retrying"} /\ batch'[b].status = "delivering"
    /\ \A c \in Batches \ {b} : batch'[c] = batch[c]
    /\ \A d \in Deliveries :
          IF d \in MembersOf(b) THEN rec'[d].status = "delivering" ELSE rec'[d] = rec[d]
    /\ worker'.step = "sending" /\ worker'.batch = b /\ worker'.content = MembersOf(b)

Sends ==
    /\ Running /\ TasksRest /\ UNCHANGED <<rec, batch, member>>
    /\ worker.step = "sending" /\ worker'.step \in {"delivered", "rejected", "failed"}
    /\ worker'.batch = worker.batch /\ worker'.content = worker.content
    /\ taken' \in {taken, taken \cup worker.content}
    /\ worker'.step = "delivered" => worker.content \subseteq taken'

Records(status) ==
    /\ Running /\ TasksRest /\ UNCHANGED <<member, taken>>
    /\ worker.step \notin {"idle", "sending"} /\ worker'.step = "idle"
    /\ status = "succeeded" => worker.step = "delivered"
    /\ batch'[worker.batch].status = status
    /\ \A c \in Batches \ {worker.batch} : batch'[c] = batch[c]
    /\ \A d \in Deliveries :
          IF d \in MembersOf(worker.batch) THEN Turned(d, status) ELSE rec'[d] = rec[d]

Moves ==
    \/ Stutters \/ Boots \/ Requeued \/ Listens \/ Ends \/ Sends
    \/ \E d \in Deliveries :
          \/ Requeues(d) \/ Restarts(d) \/ Inserts(d)
          \/ \E k \in Keys : Replays(d, k) \/ TaskMoves(d, k)
          \/ \E b \in Batches : Joins(d, b)
    \/ \E b \in Batches : Claims(b)
    \/ \E status \in {"retrying"} \cup TerminalStatus : Records(status)
----------------------------------------------------------------------------
(* The steps of the tasks and of their startup.                            *)

(* Updates of one row, or of one task, keep the tables' types.             *)
LEMMA Updates ==
    ASSUME Tables, NEW d \in Deliveries
    PROVE  /\ \A s \in LiveStatus \cup TerminalStatus :
                 LET row == [rec[d] EXCEPT !.status = s]
                 IN  row \in Row /\ row.status = s /\ row.attempts = rec[d].attempts
           /\ \A row \in Row : [rec EXCEPT ![d] = row] \in [Deliveries -> Row]
           /\ \A k \in Keys, t \in TaskState :
                 /\ [task EXCEPT ![d][k] = t] \in [Deliveries -> [Keys -> TaskState]]
                 /\ [task EXCEPT ![d][k] = t][d][k] = t
                 /\ \A j \in Keys \ {k} : [task EXCEPT ![d][k] = t][d][j] = task[d][j]
                 /\ \A e \in Deliveries \ {d} : [task EXCEPT ![d][k] = t][e] = task[e]
<1>1. rec[d] \in Row
  BY DEF Tables
<1>2. \A s \in LiveStatus \cup TerminalStatus :
         LET row == [rec[d] EXCEPT !.status = s]
         IN  row \in Row /\ row.status = s /\ row.attempts = rec[d].attempts
  BY <1>1 DEF Row
<1>3. \A row \in Row : [rec EXCEPT ![d] = row] \in [Deliveries -> Row]
  BY DEF Tables
<1>4. ASSUME NEW k \in Keys, NEW t \in TaskState
      PROVE  /\ [task EXCEPT ![d][k] = t] \in [Deliveries -> [Keys -> TaskState]]
             /\ [task EXCEPT ![d][k] = t][d][k] = t
             /\ \A j \in Keys \ {k} : [task EXCEPT ![d][k] = t][d][j] = task[d][j]
             /\ \A e \in Deliveries \ {d} : [task EXCEPT ![d][k] = t][e] = task[e]
  <2>1. task \in [Deliveries -> [Keys -> TaskState]] /\ task[d] \in [Keys -> TaskState]
    BY DEF Tables
  <2>2. [task[d] EXCEPT ![k] = t] \in [Keys -> TaskState]
    BY <2>1
  <2> QED BY <2>1, <2>2
<1> QED BY <1>2, <1>3, <1>4

SetsRow(d, row) == rec' = [rec EXCEPT ![d] = row]
SetsTask(d, k, t) == task' = [task EXCEPT ![d][k] = t]

(* The same attempt, at another step.                                      *)
StepTo(d, k, s) == [step |-> s, attempt |-> task[d][k].attempt]

(* The parts' own names for a step of a task and its end.                  *)
LEMMA TaskUpdates ==
    ASSUME Tables, NEW d \in Deliveries, NEW k \in Keys
    PROVE  /\ \A s \in TaskSteps :
                 /\ StepTo(d, k, s) \in TaskState
                 /\ StepTo(d, k, s).step = s /\ StepTo(d, k, s).attempt = task[d][k].attempt
                 /\ Queue!GoTo(d, k, s) => SetsTask(d, k, StepTo(d, k, s))
           /\ Queue!Finish(d, k) =>
                 \E t \in TaskState : t.step = "idle" /\ SetsTask(d, k, t)
<1>1. task \in [Deliveries -> [Keys -> TaskState]] /\ task[d][k] \in TaskState
  BY DEF Tables
<1>2. ASSUME NEW s \in TaskSteps
      PROVE  /\ StepTo(d, k, s) \in TaskState
             /\ StepTo(d, k, s).step = s /\ StepTo(d, k, s).attempt = task[d][k].attempt
             /\ Queue!GoTo(d, k, s) => SetsTask(d, k, StepTo(d, k, s))
  <2>1. /\ StepTo(d, k, s) \in TaskState
        /\ [task[d][k] EXCEPT !.step = s] = StepTo(d, k, s)
    BY <1>1 DEF TaskState, StepTo
  <2>2. Queue!GoTo(d, k, s) => task' = [task EXCEPT ![d][k] = [task[d][k] EXCEPT !.step = s]]
    BY DEF Queue!GoTo
  <2> QED BY <2>1, <2>2 DEF SetsTask, StepTo
<1>3. Queue!NoTask \in TaskState /\ Queue!NoTask.step = "idle"
  BY DEF Queue!NoTask, TaskState, TaskSteps
<1> QED BY <1>2, <1>3 DEF Queue!Finish, SetsTask

(* The tables keep their types and change at d, or at d and k, only.       *)
WritesRow(d) ==
    /\ rec' \in [Deliveries -> Row]
    /\ \A e \in Deliveries \ {d} : rec'[e] = rec[e]

WritesTask(d, k) ==
    /\ task' \in [Deliveries -> [Keys -> TaskState]]
    /\ \A j \in Keys \ {k} : task'[d][j] = task[d][j]
    /\ \A e \in Deliveries \ {d} : task'[e] = task[e]

WritesRounds(d) ==
    /\ accepted' \in [Deliveries -> SUBSET Keys]
    /\ \A e \in Deliveries \ {d} : accepted'[e] = accepted[e]

LEMMA Writes ==
    ASSUME Tables, NEW d \in Deliveries
    PROVE  /\ UNCHANGED rec => WritesRow(d) /\ rec'[d] = rec[d]
           /\ \A row \in Row : SetsRow(d, row) => WritesRow(d) /\ rec'[d] = row
           /\ \A k \in Keys, t \in TaskState :
                 SetsTask(d, k, t) => WritesTask(d, k) /\ task'[d][k] = t
           /\ UNCHANGED accepted => WritesRounds(d) /\ accepted'[d] = accepted[d]
<1>1. /\ UNCHANGED rec => WritesRow(d) /\ rec'[d] = rec[d]
      /\ UNCHANGED accepted => WritesRounds(d) /\ accepted'[d] = accepted[d]
  BY DEF Tables, WritesRow, WritesRounds
<1>2. \A row \in Row : SetsRow(d, row) => WritesRow(d) /\ rec'[d] = row
  BY DEF Tables, WritesRow, SetsRow
<1>3. \A k \in Keys, t \in TaskState :
         SetsTask(d, k, t) => WritesTask(d, k) /\ task'[d][k] = t
  BY Updates DEF WritesTask, SetsTask
<1> QED BY <1>1, <1>2, <1>3

LEMMA OneTask ==
    ASSUME Tables, NEW d \in Deliveries, NEW k \in Keys,
           Running, UNCHANGED batchVars, UNCHANGED next, UNCHANGED replays,
           task[d][k].step # "idle",
           WritesRow(d), WritesTask(d, k), WritesRounds(d)
    PROVE  Works(d, k) /\ Tables'
<1>1. Tables'
  BY DEF Tables, Running, batchVars, WritesRow, WritesTask, WritesRounds
<1>2. Works(d, k)
  BY DEF Works, OnlyRow, BatchesRest, Untouched, batchVars, WritesRow, WritesTask, WritesRounds
<1> QED BY <1>1, <1>2

LEMMA TaskStep ==
    ASSUME Tables, NEW d \in Deliveries, NEW k \in Keys, Task(d, k)
    PROVE  TaskMoves(d, k) /\ Tables'
<1>a. UNCHANGED batchVars /\ Queue!Worker(d, k)
  BY DEF Task
<1>b. /\ rec[d] \in Row /\ accepted[d] \in SUBSET Keys /\ task[d][k] \in TaskState
      /\ replays[d] \in Keys
  BY DEF Tables
<1>c. ~StorageFails
  BY ConstantTypes
<1>d. \A s \in TaskSteps :
         /\ StepTo(d, k, s) \in TaskState
         /\ StepTo(d, k, s).step = s /\ StepTo(d, k, s).attempt = task[d][k].attempt
         /\ Queue!GoTo(d, k, s) => SetsTask(d, k, StepTo(d, k, s))
  BY TaskUpdates
<1>e. {"idle", "queueing", "replaying", "attempting", "sending",
       "delivered", "rejected", "failed", "sleeping"} = TaskSteps
  BY DEF TaskSteps
<1>f. ASSUME Queue!Finish(d, k)
      PROVE  \E t \in TaskState : t.step = "idle" /\ SetsTask(d, k, t)
  BY <1>f, TaskUpdates
<1>1. CASE Queue!Spawn(d, k)
  <2>1. /\ Running /\ UNCHANGED <<rec, next, replays, accepted>>
        /\ \/ task[d][k].step \in {"queueing", "replaying"} /\ Queue!GoTo(d, k, "attempting")
           \/ /\ task[d][k].step = "replaying" /\ ReceiverOf[d] \notin configured
              /\ Queue!Finish(d, k)
    BY <1>1 DEF Queue!Spawn, Queue!At, Queue!recordVars, Running
  <2>2. CASE Queue!GoTo(d, k, "attempting") /\ task[d][k].step \in {"queueing", "replaying"}
    <3>1. SetsTask(d, k, StepTo(d, k, "attempting")) /\ StepTo(d, k, "attempting") \in TaskState
      BY <1>d, <1>e, <2>2
    <3>2. Works(d, k) /\ Tables' /\ task'[d][k] = StepTo(d, k, "attempting")
      BY <1>a, <1>b, <2>1, <2>2, <3>1, OneTask, Writes
    <3>3. Continues(d, k)
      BY <1>d, <1>e, <2>1, <2>2, <3>2 DEF Continues
    <3> QED BY <3>2, <3>3 DEF TaskMoves
  <2>3. CASE task[d][k].step = "replaying" /\ ReceiverOf[d] \notin configured
             /\ Queue!Finish(d, k)
    <3>1. PICK t \in TaskState : t.step = "idle" /\ SetsTask(d, k, t)
      BY <1>f, <2>3
    <3>2. Works(d, k) /\ Tables' /\ task'[d][k] = t
      BY <1>a, <1>b, <2>1, <2>3, <3>1, OneTask, Writes
    <3>3. Stops(d, k)
      BY <2>1, <2>3, <3>1, <3>2 DEF Stops
    <3> QED BY <3>2, <3>3 DEF TaskMoves
  <2> QED BY <2>1, <2>2, <2>3
<1>2. CASE Queue!Attempt(d, k)
  <2> DEFINE row == [status |-> "delivering", attempts |-> task[d][k].attempt]
  <2>1. /\ Running /\ UNCHANGED <<next, replays, accepted>>
        /\ task[d][k].step = "attempting" /\ task[d][k].attempt <= limit
        /\ SetsRow(d, row) /\ Queue!GoTo(d, k, "sending")
    BY <1>2, <1>c
    DEF Queue!Attempt, Queue!At, Queue!MarkAttempt, Queue!UpdateRow, Running, SetsRow
  <2>2. row \in Row
    BY <1>b DEF Row, LiveStatus, TaskState
  <2>3. SetsTask(d, k, StepTo(d, k, "sending")) /\ StepTo(d, k, "sending") \in TaskState
    BY <1>d, <1>e, <2>1
  <2>4. Works(d, k) /\ Tables' /\ rec'[d] = row /\ task'[d][k] = StepTo(d, k, "sending")
    BY <1>a, <1>b, <2>1, <2>2, <2>3, OneTask, Writes
  <2>5. Tries(d, k)
    BY <1>d, <1>e, <2>1, <2>4 DEF Tries
  <2> QED BY <2>4, <2>5 DEF TaskMoves
<1>3. CASE Queue!LoopIsEmpty(d, k)
  <2>1. /\ Running /\ UNCHANGED <<rec, next, replays, accepted>>
        /\ task[d][k].step = "attempting" /\ task[d][k].attempt > limit /\ Queue!Finish(d, k)
    BY <1>3 DEF Queue!LoopIsEmpty, Queue!At, Queue!recordVars, Running
  <2>2. PICK t \in TaskState : t.step = "idle" /\ SetsTask(d, k, t)
    BY <1>f, <2>1
  <2>3. Works(d, k) /\ Tables' /\ task'[d][k] = t
    BY <1>a, <1>b, <2>1, <2>2, OneTask, Writes
  <2>4. Stops(d, k)
    BY <2>1, <2>2, <2>3 DEF Stops
  <2> QED BY <2>3, <2>4 DEF TaskMoves
<1>4. CASE Queue!Send(d, k)
  <2>1. PICK took \in BOOLEAN, answer \in {"delivered", "rejected", "failed"} :
           /\ answer = "delivered" => took
           /\ Queue!GoTo(d, k, answer)
           /\ accepted' = IF took THEN [accepted EXCEPT ![d] = @ \cup {replays[d]}] ELSE accepted
    BY <1>4 DEF Queue!Send
  <2>2. Running /\ UNCHANGED <<rec, next, replays>> /\ task[d][k].step = "sending"
    BY <1>4 DEF Queue!Send, Queue!At, Queue!recordVars, Running
  <2> DEFINE rounds == IF took THEN accepted[d] \cup {replays[d]} ELSE accepted[d]
  <2>3. WritesRounds(d) /\ accepted'[d] = rounds
    BY <1>b, <2>1 DEF Tables, WritesRounds
  <2>4. SetsTask(d, k, StepTo(d, k, answer)) /\ StepTo(d, k, answer) \in TaskState
    BY <1>d, <1>e, <2>1
  <2>5. Works(d, k) /\ Tables' /\ accepted'[d] = rounds /\ task'[d][k] = StepTo(d, k, answer)
    <3> HIDE DEF rounds
    <3> QED BY <1>a, <2>2, <2>3, <2>4, OneTask, Writes
  <2>6. Requests(d, k)
    BY <1>d, <1>e, <2>1, <2>2, <2>5 DEF Requests
  <2> QED BY <2>5, <2>6 DEF TaskMoves
<1>5. ASSUME NEW s \in {"succeeded", "dead_letter", "retrying"},
             NEW t \in TaskState, Running, UNCHANGED <<next, replays, accepted>>,
             task[d][k].step # "idle", SetsTask(d, k, t),
             SetsRow(d, [rec[d] EXCEPT !.status = s])
      PROVE  Works(d, k) /\ Tables' /\ Turned(d, s) /\ task'[d][k] = t
  <2> DEFINE row == [rec[d] EXCEPT !.status = s]
  <2>1. row \in Row /\ row.status = s /\ row.attempts = rec[d].attempts
    BY Updates DEF LiveStatus, TerminalStatus
  <2>2. SetsRow(d, row)
    BY <1>5
  <2> HIDE DEF row
  <2>3. Works(d, k) /\ Tables' /\ rec'[d] = row /\ task'[d][k] = t
    BY <1>a, <1>b, <1>5, <2>1, <2>2, OneTask, Writes
  <2> QED BY <2>1, <2>3 DEF Turned
<1>6. CASE Queue!RecordSuccess(d, k) \/ Queue!RecordDeadLetter(d, k)
  <2>1. /\ Running /\ UNCHANGED <<next, replays, accepted>> /\ Queue!Finish(d, k)
        /\ \/ /\ task[d][k].step = "delivered"
              /\ SetsRow(d, [rec[d] EXCEPT !.status = "succeeded"])
           \/ /\ task[d][k].step \in {"rejected", "failed"}
              /\ SetsRow(d, [rec[d] EXCEPT !.status = "dead_letter"])
    BY <1>6, <1>c
    DEF Queue!RecordSuccess, Queue!RecordDeadLetter, Queue!MarkSucceeded,
        Queue!MarkDeadLetter, Queue!UpdateRow, Queue!At, Running, SetsRow
  <2>2. PICK t \in TaskState : t.step = "idle" /\ SetsTask(d, k, t)
    BY <1>f, <2>1
  <2>3. Works(d, k) /\ Tables' /\ Settles(d, k)
    BY <1>5, <2>1, <2>2 DEF Settles
  <2> QED BY <2>3 DEF TaskMoves
<1>7. CASE Queue!RecordRetry(d, k)
  <2>1. /\ Running /\ UNCHANGED <<next, replays, accepted>>
        /\ task[d][k].step = "failed" /\ task[d][k].attempt < limit
        /\ Queue!GoTo(d, k, "sleeping")
        /\ SetsRow(d, [rec[d] EXCEPT !.status = "retrying"])
    BY <1>7, <1>c DEF Queue!RecordRetry, Queue!MarkRetrying, Queue!UpdateRow, Queue!At, Running, SetsRow
  <2>2. SetsTask(d, k, StepTo(d, k, "sleeping")) /\ StepTo(d, k, "sleeping") \in TaskState
    BY <1>d, <1>e, <2>1
  <2>3. Works(d, k) /\ Tables' /\ Turned(d, "retrying") /\ task'[d][k] = StepTo(d, k, "sleeping")
    BY <1>5, <2>1, <2>2
  <2>4. Retries(d, k)
    BY <1>d, <1>e, <2>1, <2>3 DEF Retries
  <2> QED BY <2>3, <2>4 DEF TaskMoves
<1>8. CASE Queue!Wake(d, k)
  <2> DEFINE t == [step |-> "attempting", attempt |-> task[d][k].attempt + 1]
  <2>1. /\ Running /\ UNCHANGED <<rec, next, replays, accepted>>
        /\ task[d][k].step = "sleeping" /\ SetsTask(d, k, t)
    BY <1>8 DEF Queue!Wake, Queue!At, Queue!recordVars, Running, SetsTask
  <2>2. t \in TaskState
    BY <1>b, <1>e DEF TaskState
  <2>3. Works(d, k) /\ Tables' /\ task'[d][k] = t
    BY <1>a, <1>b, <2>1, <2>2, OneTask, Writes
  <2>4. Continues(d, k)
    BY <1>d, <1>e, <2>1, <2>3 DEF Continues
  <2> QED BY <2>3, <2>4 DEF TaskMoves
<1> QED
  BY <1>a, <1>1, <1>2, <1>3, <1>4, <1>6, <1>7, <1>8 DEF Queue!Worker

(* The handlers' steps and those of the startup, on one row.               *)
LEMMA OneRow ==
    ASSUME Tables, NEW d \in Deliveries, NEW k \in Keys,
           Running, UNCHANGED batchVars, UNCHANGED accepted,
           WritesRow(d), WritesTask(d, k),
           next' \in [Deliveries -> Nat], replays' \in [Deliveries -> Keys],
           \A e \in Deliveries \ {d} : next'[e] = next[e] /\ replays'[e] = replays[e]
    PROVE  OnlyRow(d) /\ Tables'
BY DEF Tables, Running, batchVars, WritesRow, WritesTask, OnlyRow, BatchesRest, Untouched

LEMMA RowStep ==
    ASSUME Tables, NEW d \in Deliveries
    PROVE  /\ Queue!Enqueue(d) /\ UNCHANGED batchVars => Inserts(d) /\ Tables'
           /\ Queue!Replay(d) /\ UNCHANGED batchVars =>
                 (\E k \in Keys : Replays(d, k)) /\ Tables'
           /\ Queue!RecoverRow(d, Unbatched) /\ UNCHANGED batchVars => Requeues(d) /\ Tables'
           /\ Queue!SpawnRecovered(d) /\ UNCHANGED batchVars => Restarts(d) /\ Tables'
<1>a. /\ rec[d] \in Row /\ replays[d] \in Keys /\ next[d] \in Nat
      /\ task \in [Deliveries -> [Keys -> TaskState]]
      /\ next \in [Deliveries -> Nat] /\ replays \in [Deliveries -> Keys]
  BY DEF Tables
<1>b. 0 \in Keys /\ Keys \subseteq Nat
  BY ConstantTypes
<1> DEFINE queued == [rec[d] EXCEPT !.status = "queued"]
<1>c. queued \in Row /\ queued.status = "queued" /\ queued.attempts = rec[d].attempts
  BY Updates DEF LiveStatus
<1> HIDE DEF queued
<1>1. ASSUME Queue!Enqueue(d), UNCHANGED batchVars PROVE Inserts(d) /\ Tables'
  <2> DEFINE row == [status |-> "queued", attempts |-> 0]
             t == [step |-> "queueing", attempt |-> 1]
  <2>1. /\ Running /\ UNCHANGED accepted /\ next' = next /\ replays' = replays
        /\ phase = "up" /\ rec[d].status = "none"
        /\ SetsRow(d, row) /\ SetsTask(d, 0, t)
    BY <1>1 DEF Queue!Enqueue, Queue!NextId, Queue!InsertRow, Running, SetsRow, SetsTask
  <2>2. row \in Row /\ t \in TaskState
    BY DEF Row, LiveStatus, TaskState, TaskSteps
  <2>3. WritesRow(d) /\ rec'[d] = row /\ WritesTask(d, 0) /\ task'[d][0] = t
    BY <1>b, <2>1, <2>2, Writes
  <2>4. OnlyRow(d) /\ Tables'
    BY <1>1, <1>a, <1>b, <2>1, <2>3, OneRow
  <2> QED BY <2>1, <2>3, <2>4 DEF Inserts, WritesTask
<1>2. ASSUME Queue!Replay(d), UNCHANGED batchVars
      PROVE  (\E k \in Keys : Replays(d, k)) /\ Tables'
  <2> DEFINE t == [step |-> "replaying", attempt |-> 1]
  <2>1. replays[d] + 1 \in Keys
    BY <1>2, <1>a, <1>b, ConstantTypes DEF Queue!Replay, Keys
  <2>2. PICK k \in Keys : k = replays[d] + 1
    BY <2>1
  <2>3. /\ Running /\ UNCHANGED accepted /\ next' = next
        /\ phase = "up" /\ rec[d].status # "none" /\ (ReplayLive \/ Terminal(d))
        /\ replays' = [replays EXCEPT ![d] = replays[d] + 1]
        /\ SetsRow(d, queued) /\ SetsTask(d, k, t)
    BY <1>2, <2>2
    DEF Queue!Replay, Queue!RequeueRow, Queue!Terminal, Queue!TerminalStatus, Terminal,
        TerminalStatus, Running, SetsRow, SetsTask, queued
  <2>4. t \in TaskState
    BY DEF TaskState, TaskSteps
  <2>5. WritesRow(d) /\ rec'[d] = queued /\ WritesTask(d, k) /\ task'[d][k] = t
    BY <1>c, <2>3, <2>4, Writes
  <2>6. /\ replays' \in [Deliveries -> Keys] /\ replays'[d] = k
        /\ \A e \in Deliveries \ {d} : replays'[e] = replays[e]
    BY <1>a, <2>2, <2>3
  <2>7. OnlyRow(d) /\ Tables'
    BY <1>2, <1>a, <2>3, <2>5, <2>6, OneRow
  <2>8. Replays(d, k)
    BY <1>c, <2>2, <2>3, <2>5, <2>6, <2>7 DEF Replays, Turned, WritesTask
  <2> QED BY <2>7, <2>8
<1>3. ASSUME Queue!RecoverRow(d, Unbatched), UNCHANGED batchVars PROVE Requeues(d) /\ Tables'
  <2>1. /\ Running /\ UNCHANGED accepted /\ task' = task /\ replays' = replays
        /\ phase = "recovering" /\ d \in Unbatched
        /\ next' = [next EXCEPT ![d] = Queue!RecoveredAttempt(d)]
        /\ SetsRow(d, queued)
    BY <1>3 DEF Queue!RecoverRow, Queue!RequeueRow, Queue!Lowest, Running, SetsRow, queued
  <2>2. ~Batched(d) /\ Live(d) /\ next[d] = 0
    BY <2>1 DEF Unbatched, Queue!Recoverable, Queue!Live, Queue!LiveStatus, Live, LiveStatus
  <2>3. Queue!RecoveredAttempt(d) \in Nat
    BY <1>a DEF Queue!RecoveredAttempt, Row
  <2>4. WritesRow(d) /\ rec'[d] = queued /\ WritesTask(d, 0)
    BY <1>a, <1>c, <2>1, Writes DEF WritesTask
  <2>5. /\ next' \in [Deliveries -> Nat] /\ next'[d] = Queue!RecoveredAttempt(d)
        /\ \A e \in Deliveries \ {d} : next'[e] = next[e]
    BY <1>a, <2>1, <2>3
  <2>6. OnlyRow(d) /\ Tables'
    BY <1>3, <1>a, <1>b, <2>1, <2>4, <2>5, OneRow
  <2> QED BY <1>c, <2>1, <2>2, <2>4, <2>5, <2>6 DEF Requeues, Turned
<1>4. ASSUME Queue!SpawnRecovered(d), UNCHANGED batchVars PROVE Restarts(d) /\ Tables'
  <2> DEFINE t == [step |-> "attempting", attempt |-> next[d]]
  <2>1. /\ Running /\ UNCHANGED <<rec, accepted>> /\ replays' = replays
        /\ phase = "spawning" /\ next[d] > 0
        /\ next' = [next EXCEPT ![d] = 0] /\ SetsTask(d, 0, t)
    BY <1>4
    DEF Queue!SpawnRecovered, Queue!recordVars, Queue!Lowest, Queue!Found, Running, SetsTask
  <2>2. t \in TaskState
    BY <1>a DEF TaskState, TaskSteps
  <2>3. WritesRow(d) /\ rec'[d] = rec[d] /\ WritesTask(d, 0) /\ task'[d][0] = t
    BY <1>b, <2>1, <2>2, Writes
  <2>4. /\ next' \in [Deliveries -> Nat] /\ next'[d] = 0
        /\ \A e \in Deliveries \ {d} : next'[e] = next[e]
    BY <1>a, <2>1
  <2>5. OnlyRow(d) /\ Tables'
    BY <1>4, <1>a, <1>b, <2>1, <2>3, <2>4, OneRow
  <2> QED BY <2>1, <2>3, <2>4, <2>5 DEF Restarts, WritesTask
<1> QED BY <1>1, <1>2, <1>3, <1>4

(* The other steps of the process's life.                                  *)
LEMMA LifeStep ==
    ASSUME Tables
    PROVE  /\ Queue!RecoveryDone(Unbatched) /\ UNCHANGED batchVars => Requeued /\ Tables'
           /\ Queue!Listen /\ UNCHANGED batchVars => Listens /\ Tables'
           /\ ProcessEnds /\ Queue!TasksDie /\ Batching!WorkerDies => Ends /\ Tables'
<1>1. ASSUME Queue!RecoveryDone(Unbatched), UNCHANGED batchVars PROVE Requeued /\ Tables'
  <2>1. /\ phase = "recovering" /\ phase' = "spawning" /\ Unbatched = {}
        /\ UNCHANGED <<rec, limit, configured, crashes, task, next, replays, accepted>>
    BY <1>1 DEF Queue!RecoveryDone, Queue!queueVars
  <2>2. ASSUME NEW d \in Deliveries, ~Batched(d), Live(d) PROVE next[d] > 0
    <3>1. next[d] # 0
      BY <2>1, <2>2
      DEF Unbatched, Queue!Recoverable, Queue!Live, Queue!LiveStatus, Live, LiveStatus,
          Queue!Deliveries, Deliveries
    <3> QED BY <3>1 DEF Tables
  <2> QED BY <1>1, <2>1, <2>2 DEF Requeued, Tables, Phases, TasksRest, BatchesRest, batchVars
<1>2. ASSUME Queue!Listen, UNCHANGED batchVars PROVE Listens /\ Tables'
  <2>1. /\ phase = "spawning" /\ phase' = "up" /\ Queue!Found = {}
        /\ UNCHANGED <<rec, limit, configured, crashes, task, next, replays, accepted>>
    BY <1>2 DEF Queue!Listen, Queue!queueVars
  <2>2. \A d \in Deliveries : next[d] = 0
    BY <2>1 DEF Queue!Found, Queue!Deliveries, Deliveries, Tables
  <2> QED BY <1>2, <2>1, <2>2 DEF Listens, Tables, Phases, TasksRest, BatchesRest, batchVars
<1>3. ASSUME ProcessEnds, Queue!TasksDie, Batching!WorkerDies PROVE Ends /\ Tables'
  <2>1. /\ phase # "down" /\ phase' = "down" /\ crashes' = crashes + 1 /\ crashes < MaxCrashes
        /\ UNCHANGED <<rec, limit, configured, replays, accepted, batch, member, now, taken,
                       lost, named>>
    BY <1>3 DEF ProcessEnds, Queue!TasksDie, Batching!WorkerDies
  <2>2. /\ next' \in [Deliveries -> Nat] /\ task' \in [Deliveries -> [Keys -> TaskState]]
        /\ \A d \in Deliveries : next'[d] = 0 /\ \A k \in Keys : task'[d][k].step = "idle"
    BY <1>3
    DEF Queue!TasksDie, Queue!NoTasks, Queue!NoTask, Queue!Keys, Keys, Queue!Deliveries,
        Deliveries, TaskState, TaskSteps
  <2>3. worker'.step = "idle" /\ worker' \in WorkerState
    BY <1>3 DEF Batching!WorkerDies, Batching!Idle, WorkerState
  <2>4. crashes' \in 0 .. MaxCrashes
    BY <2>1, ConstantTypes DEF Tables
  <2> QED BY <2>1, <2>2, <2>3, <2>4 DEF Ends, Tables, Phases
<1> QED BY <1>1, <1>2, <1>3
----------------------------------------------------------------------------
(* The steps of the batches and their worker.                              *)

LEMMA EventFields ==
    ASSUME now \in Nat, NEW row \in BatchRow, NEW size \in EventSizes
    PROVE  /\ Batching!WithEvent(row, size) \in BatchRow
           /\ Batching!WithEvent(row, size).status = row.status
<1> DEFINE due == IF row.count + 1 >= MaxEvents \/ row.bytes + size >= MaxBytes
                     THEN now ELSE row.due
<1>1. row.count + 1 \in Nat /\ row.bytes + size \in Nat /\ due \in Nat
  BY ConstantTypes DEF BatchRow
<1>2. Batching!WithEvent(row, size) =
         [row EXCEPT !.count = row.count + 1, !.bytes = row.bytes + size, !.due = due]
  BY DEF Batching!WithEvent
<1> QED BY <1>1, <1>2 DEF BatchRow

(* The row of a batch that an event opens.                                 *)
LEMMA NewBatchFields ==
    ASSUME now \in Nat, NEW key \in BatchKeys, NEW size \in EventSizes
    PROVE  LET row == Batching!WithEvent(Batching!EmptyBatch(key), size)
           IN  row \in BatchRow /\ row.status = "pending"
<1>1. Batching!NoBatch \in BatchRow /\ now + GroupWait \in Nat
  BY ConstantTypes DEF Batching!NoBatch, BatchRow
<1>2. Batching!EmptyBatch(key) \in BatchRow /\ Batching!EmptyBatch(key).status = "pending"
  BY <1>1 DEF Batching!EmptyBatch, BatchRow
<1> QED BY <1>2, EventFields

LEMMA JoinStep ==
    ASSUME Tables, NEW d \in Deliveries, NEW key \in BatchKeys, NEW size \in EventSizes,
           Batching!QueueBatched(d, key, size), UNCHANGED queueVars
    PROVE  /\ \E b \in Batches : Joins(d, b)
           /\ Tables' /\ UNCHANGED worker
<1>a. /\ batch \in [Batches -> BatchRow] /\ now \in Nat
      /\ member \in [Deliveries -> [batch : {0} \cup Batches, bytes : Nat]]
      /\ Batches = Batching!Batches /\ size \in Nat
  BY ConstantTypes DEF Tables, Batches, Batching!Batches, Deliveries, Batching!Deliveries
<1> DEFINE fresh == Batching!WithEvent(Batching!EmptyBatch(key), size)
           OnlyBatch(b) ==
               /\ batch' \in [Batches -> BatchRow]
               /\ batch[b].status \in {"none", "pending"} /\ batch'[b].status = "pending"
               /\ \A c \in Batches \ {b} : batch'[c].status = batch[c].status
<1>b. fresh \in BatchRow /\ fresh.status = "pending"
  BY <1>a, NewBatchFields
<1>c. /\ \A b \in Batching!Joinable(key) : b \in Batches /\ batch[b].status = "pending"
      /\ \A b \in Batches : Batching!NewBatchId(b) => batch[b].status = "none"
  BY <1>a DEF Batching!Joinable, Batching!Pending, Batching!NewBatchId
<1>1. ASSUME NEW b \in Batching!Joinable(key),
             batch' = [batch EXCEPT ![b] = Batching!WithEvent(batch[b], size)]
      PROVE  OnlyBatch(b)
  <2>1. /\ Batching!WithEvent(batch[b], size) \in BatchRow
        /\ Batching!WithEvent(batch[b], size).status = "pending"
    BY <1>a, <1>c, EventFields
  <2> QED BY <1>a, <1>c, <1>1, <2>1
<1>2. ASSUME NEW b \in Batching!Joinable(key), NEW n \in Batches, Batching!NewBatchId(n),
             batch' = [batch EXCEPT ![b].due = now, ![n] = fresh]
      PROVE  OnlyBatch(n)
  <2> DEFINE due == [batch[b] EXCEPT !.due = now]
  <2>0. batch[b] \in BatchRow /\ batch[b].status = "pending" /\ b \in Batches /\ b # n
    BY <1>a, <1>c, <1>2
  <2>1. due \in BatchRow /\ due.status = "pending" /\ b # n
    BY <1>a, <2>0 DEF BatchRow
  <2>2. batch' = [[batch EXCEPT ![b] = due] EXCEPT ![n] = fresh]
    BY <1>2
  <2> HIDE DEF due, fresh
  <2> QED BY <1>a, <1>b, <1>c, <1>2, <2>1, <2>2
<1>3. ASSUME NEW n \in Batches, Batching!NewBatchId(n), batch' = [batch EXCEPT ![n] = fresh]
      PROVE  OnlyBatch(n)
  <2> HIDE DEF fresh
  <2> QED BY <1>a, <1>b, <1>c, <1>3
<1>4. \E b \in Batches :
         OnlyBatch(b) /\ member' = [member EXCEPT ![d] = [batch |-> b, bytes |-> size]]
  <2>1. Batching!AddToBatch(d, key, size)
    BY DEF Batching!QueueBatched
  <2> HIDE DEF OnlyBatch, fresh
  <2>2. CASE \E b \in Batching!Joinable(key) :
                /\ batch' = [batch EXCEPT ![b] = Batching!WithEvent(batch[b], size)]
                /\ member' = [member EXCEPT ![d] = [batch |-> b, bytes |-> size]]
    BY <1>1, <1>c, <2>2
  <2>3. CASE \E b \in Batching!Joinable(key), n \in Batches :
                /\ Batching!NewBatchId(n)
                /\ batch' = [batch EXCEPT ![b].due = now, ![n] = fresh]
                /\ member' = [member EXCEPT ![d] = [batch |-> n, bytes |-> size]]
    BY <1>2, <2>3
  <2>4. CASE \E n \in Batches :
                /\ Batching!NewBatchId(n)
                /\ batch' = [batch EXCEPT ![n] = fresh]
                /\ member' = [member EXCEPT ![d] = [batch |-> n, bytes |-> size]]
    BY <1>3, <2>4
  <2> QED BY <1>a, <2>1, <2>2, <2>3, <2>4 DEF Batching!AddToBatch, fresh
<1>5. PICK b \in Batches :
         OnlyBatch(b) /\ member' = [member EXCEPT ![d] = [batch |-> b, bytes |-> size]]
  BY <1>4
<1> DEFINE row == [status |-> "queued", attempts |-> 0]
<1>6. /\ phase = "up" /\ rec[d].status = "none" /\ SetsRow(d, row)
      /\ UNCHANGED <<phase, limit, configured, crashes, worker, now, taken, lost, named>>
  BY DEF Batching!QueueBatched, Batching!NextId, Batching!InsertRow, SetsRow
<1>7. WritesRow(d) /\ rec'[d] = row
  <2>1. row \in Row
    BY DEF Row, LiveStatus
  <2> QED BY <1>6, <2>1, Writes
<1>8. /\ member' \in [Deliveries -> [batch : {0} \cup Batches, bytes : Nat]]
      /\ member'[d].batch = b /\ \A e \in Deliveries \ {d} : member'[e] = member[e]
  BY <1>a, <1>5
<1>9. UNCHANGED <<task, next, replays, accepted>>
  BY DEF queueVars
<1>10. Tables'
  BY <1>5, <1>6, <1>7, <1>8, <1>9 DEF Tables, WritesRow
<1>11. Joins(d, b)
  BY <1>5, <1>6, <1>7, <1>8, <1>9 DEF Joins, WritesRow, Running, TasksRest
<1> QED BY <1>6, <1>10, <1>11

LEMMA BootStep ==
    ASSUME Tables, Boot, Batching!RecoverBatches, UNCHANGED queueVars
    PROVE  Boots /\ Tables' /\ UNCHANGED worker
<1>a. /\ batch \in [Batches -> BatchRow] /\ rec \in [Deliveries -> Row] /\ now \in Nat
      /\ member \in [Deliveries -> [batch : {0} \cup Batches, bytes : Nat]]
  BY DEF Tables
<1>1. /\ batch' = [b \in Batches |->
             IF batch[b].status \in {"pending", "delivering"}
                THEN [batch[b] EXCEPT !.status = "pending", !.due = now] ELSE batch[b]]
      /\ rec' = [d \in Deliveries |->
             IF /\ rec[d].status \in {"queued", "delivering"}
                /\ \E b \in Batches :
                      member[d].batch = b /\ batch[b].status \in {"pending", "delivering"}
                THEN [rec[d] EXCEPT !.status = "queued"] ELSE rec[d]]
      /\ lost' = {} /\ UNCHANGED <<member, worker, now, taken, named>>
  BY DEF Batching!RecoverBatches, Batching!Interrupted, Batching!Batches, Batches,
         Batching!Deliveries, Deliveries
<1>2. \A b \in Batches :
         /\ [batch[b] EXCEPT !.status = "pending", !.due = now] \in BatchRow
         /\ [batch[b] EXCEPT !.status = "pending", !.due = now].status = "pending"
  <2> SUFFICES ASSUME NEW b \in Batches
               PROVE  LET row == [batch[b] EXCEPT !.status = "pending", !.due = now]
                      IN  row \in BatchRow /\ row.status = "pending"
    OBVIOUS
  <2>1. batch[b] \in BatchRow
    BY <1>a
  <2> QED BY <1>a, <2>1 DEF BatchRow
<1>3. \A d \in Deliveries :
         /\ [rec[d] EXCEPT !.status = "queued"] \in Row
         /\ [rec[d] EXCEPT !.status = "queued"].status = "queued"
         /\ [rec[d] EXCEPT !.status = "queued"].attempts = rec[d].attempts
  BY Updates DEF LiveStatus
<1>4. batch' \in [Batches -> BatchRow] /\ rec' \in [Deliveries -> Row]
  BY <1>a, <1>1, <1>2, <1>3
<1>5. /\ phase = "down" /\ phase' = "recovering" /\ UNCHANGED crashes
      /\ limit' \in AttemptLimits /\ (LimitMayDrop \/ limit' >= limit)
      /\ configured' \subseteq Receivers
  BY RecordsAssumption DEF Boot
<1>6. UNCHANGED <<task, next, replays, accepted>>
  BY DEF queueVars
<1>7. Tables'
  BY <1>1, <1>4, <1>5, <1>6 DEF Tables, Phases
<1>8. Boots
  <2>1. \A b \in Batches :
           IF batch[b].status \in {"pending", "delivering"}
              THEN batch'[b].status = "pending" ELSE batch'[b] = batch[b]
    BY <1>1, <1>2
  <2>2. \A d \in Deliveries :
           IF /\ rec[d].status \in {"queued", "delivering"}
              /\ \E b \in Batches :
                    member[d].batch = b /\ batch[b].status \in {"pending", "delivering"}
              THEN Turned(d, "queued")
              ELSE rec'[d] = rec[d]
    BY <1>1, <1>3 DEF Turned
  <2> QED BY <1>1, <1>5, <1>6, <2>1, <2>2 DEF Boots, TasksRest
<1> QED BY <1>1, <1>7, <1>8

LEMMA ClaimStep ==
    ASSUME Tables, NEW b \in Batches, Batching!Claim(b), UNCHANGED queueVars
    PROVE  Claims(b) /\ Tables' /\ WorkerIsReal'
<1>a. batch[b] \in BatchRow /\ batch \in [Batches -> BatchRow] /\ rec \in [Deliveries -> Row]
  BY DEF Tables
<1> DEFINE attempt == batch[b].attempts + 1
           claimed == [batch[b] EXCEPT !.status = "delivering", !.attempts = attempt]
           row == [status |-> "delivering", attempts |-> attempt]
<1>1. attempt \in Nat /\ attempt > 0
  BY <1>a DEF BatchRow
<1>2. claimed \in BatchRow /\ claimed.status = "delivering"
  BY <1>a, <1>1 DEF BatchRow
<1>3. row \in Row
  BY <1>1 DEF Row, LiveStatus
<1>4. /\ batch' = [batch EXCEPT ![b] = claimed]
      /\ rec' = [d \in Deliveries |-> IF d \in MembersOf(b) THEN row ELSE rec[d]]
      /\ worker' = [step |-> "sending", batch |-> b, attempt |-> attempt,
                    content |-> MembersOf(b)]
  BY DEF Batching!Claim, Batching!MoveMembers, Batching!Members, MembersOf,
         Batching!Deliveries, Deliveries
<1>5. /\ phase \in {"spawning", "up"} /\ worker.step = "idle"
      /\ batch[b].status \in {"pending", "retrying"}
      /\ UNCHANGED <<phase, limit, configured, crashes, member, now, taken, lost, named>>
  BY DEF Batching!Claim, Batching!Due, Batching!Waiting
<1>6. UNCHANGED <<task, next, replays, accepted>>
  BY DEF queueVars
<1>7. MembersOf(b) \subseteq Deliveries
  BY DEF MembersOf
<1> HIDE DEF claimed, attempt
<1>8. /\ batch' \in [Batches -> BatchRow] /\ batch'[b].status = "delivering"
      /\ \A c \in Batches \ {b} : batch'[c] = batch[c]
  BY <1>a, <1>2, <1>4
<1>9. /\ rec' \in [Deliveries -> Row]
      /\ \A d \in Deliveries :
            IF d \in MembersOf(b) THEN rec'[d].status = "delivering" ELSE rec'[d] = rec[d]
  BY <1>a, <1>3, <1>4
<1>10. /\ worker' \in WorkerState /\ WorkerIsReal'
       /\ worker'.step = "sending" /\ worker'.batch = b /\ worker'.content = MembersOf(b)
  BY <1>1, <1>4, <1>7 DEF WorkerState, WorkerIsReal
<1>11. Tables'
  BY <1>5, <1>6, <1>8, <1>9, <1>10 DEF Tables
<1>12. Claims(b)
  BY <1>5, <1>6, <1>8, <1>9, <1>10 DEF Claims, Running, TasksRest
<1> QED BY <1>10, <1>11, <1>12

LEMMA SendStep ==
    ASSUME Tables, WorkerIsReal, Batching!SendBatch, UNCHANGED queueVars
    PROVE  Sends /\ Tables' /\ WorkerIsReal'
<1>a. worker \in WorkerState /\ taken \subseteq Deliveries /\ worker.content \subseteq Deliveries
  BY DEF Tables, WorkerState
<1>1. PICK answer \in {"delivered", "rejected", "failed"} :
         /\ worker' = [worker EXCEPT !.step = answer]
         /\ taken' \in {taken, taken \cup worker.content}
         /\ answer = "delivered" => worker.content \subseteq taken'
  BY DEF Batching!SendBatch
<1>2. /\ worker.step = "sending"
      /\ UNCHANGED <<phase, rec, limit, configured, crashes, batch, member, now, lost>>
  BY DEF Batching!SendBatch, Batching!recordVars
<1>3. UNCHANGED <<task, next, replays, accepted>>
  BY DEF queueVars
<1>4. /\ worker' \in WorkerState /\ worker'.step = answer
      /\ worker'.batch = worker.batch /\ worker'.content = worker.content
      /\ worker'.attempt = worker.attempt
  BY <1>a, <1>1 DEF WorkerState
<1>5. named' \in [Batches -> SUBSET Deliveries]
  BY <1>a DEF Batching!SendBatch, Tables
<1>6. Tables'
  BY <1>a, <1>1, <1>2, <1>3, <1>4, <1>5 DEF Tables
<1>7. Sends
  BY <1>1, <1>2, <1>3, <1>4 DEF Sends, Running, TasksRest
<1> QED BY <1>2, <1>4, <1>6, <1>7 DEF WorkerIsReal

LEMMA RecordStep ==
    ASSUME Tables, WorkerIsReal, UNCHANGED queueVars,
           Batching!BatchSucceeded \/ Batching!BatchDeadLettered \/ Batching!BatchRetrying
    PROVE  /\ \E status \in {"retrying"} \cup TerminalStatus : Records(status)
           /\ Tables' /\ WorkerIsReal'
<1>a. /\ worker.step \notin {"idle", "sending"} /\ worker.batch \in Batches
      /\ worker.attempt \in Nat \ {0}
  BY DEF Batching!BatchSucceeded, Batching!BatchDeadLettered, Batching!BatchRetrying,
         WorkerIsReal, Tables, WorkerState
<1>b. /\ batch \in [Batches -> BatchRow] /\ rec \in [Deliveries -> Row]
      /\ batch[worker.batch].due \in Nat /\ now + Batching!Backoff(worker.attempt) \in Nat
  <2>1. /\ batch \in [Batches -> BatchRow] /\ rec \in [Deliveries -> Row] /\ now \in Nat
    BY DEF Tables
  <2>2. batch[worker.batch] \in BatchRow /\ Batching!Backoff(worker.attempt) \in Nat
    BY <1>a, <2>1, BackoffType
  <2>3. batch[worker.batch].due \in Nat
    BY <2>2 DEF BatchRow
  <2> QED BY <2>1, <2>2, <2>3
<1>1. PICK status \in {"retrying"} \cup TerminalStatus, due \in Nat :
         /\ Batching!FinishBatch(status, due)
         /\ status = "succeeded" => worker.step = "delivered"
  BY <1>b
  DEF Batching!BatchSucceeded, Batching!BatchDeadLettered, Batching!BatchRetrying,
      TerminalStatus
<1>2. /\ batch' = [batch EXCEPT ![worker.batch].status = status, ![worker.batch].due = due]
      /\ rec' = [d \in Deliveries |->
             IF d \in MembersOf(worker.batch) THEN [rec[d] EXCEPT !.status = status] ELSE rec[d]]
      /\ lost' = lost /\ worker' = Batching!Idle
      /\ UNCHANGED <<phase, limit, configured, crashes, member, now, taken, named>>
  BY <1>1, ConstantTypes
  DEF Batching!FinishBatch, Batching!Members, MembersOf, Batching!Deliveries, Deliveries
<1>3. UNCHANGED <<task, next, replays, accepted>>
  BY DEF queueVars
<1>4. batch' = [batch EXCEPT ![worker.batch] =
                   [batch[worker.batch] EXCEPT !.status = status, !.due = due]]
  BY <1>a, <1>b, <1>2
<1>5. /\ [batch[worker.batch] EXCEPT !.status = status, !.due = due] \in BatchRow
      /\ [batch[worker.batch] EXCEPT !.status = status, !.due = due].status = status
  <2>1. batch[worker.batch] \in BatchRow /\ status \in {"retrying"} \cup TerminalStatus
    BY <1>a, <1>b, <1>1
  <2> QED BY <1>1, <2>1 DEF BatchRow
<1>6. /\ batch' \in [Batches -> BatchRow] /\ batch'[worker.batch].status = status
      /\ \A c \in Batches \ {worker.batch} : batch'[c] = batch[c]
  BY <1>a, <1>b, <1>4, <1>5
<1>7. \A d \in Deliveries :
         /\ [rec[d] EXCEPT !.status = status] \in Row
         /\ [rec[d] EXCEPT !.status = status].status = status
         /\ [rec[d] EXCEPT !.status = status].attempts = rec[d].attempts
  BY Updates DEF LiveStatus
<1>8. /\ rec' \in [Deliveries -> Row]
      /\ \A d \in Deliveries :
            IF d \in MembersOf(worker.batch) THEN Turned(d, status) ELSE rec'[d] = rec[d]
  BY <1>b, <1>2, <1>7 DEF Turned
<1>9. worker' \in WorkerState /\ worker'.step = "idle"
  BY <1>2 DEF WorkerState, Batching!Idle
<1>10. Tables'
  BY <1>2, <1>3, <1>6, <1>8, <1>9 DEF Tables
<1>11. Records(status)
  BY <1>a, <1>1, <1>2, <1>3, <1>6, <1>8, <1>9 DEF Records, Running, TasksRest
<1> QED BY <1>9, <1>10, <1>11 DEF WorkerIsReal

(* Each step of the system is one of the moves, and keeps the types.       *)
LEMMA Steps ==
    ASSUME Tables, WorkerIsReal, [Next]_vars
    PROVE  Moves /\ Tables' /\ WorkerIsReal'
<1>a. Deliveries = Queue!Deliveries /\ Batches = Batching!Batches /\ Keys = Queue!Keys
  BY DEF Deliveries, Queue!Deliveries, Batches, Batching!Batches, Batching!Deliveries, Keys,
         Queue!Keys
<1>1. CASE UNCHANGED vars
  BY <1>1 DEF vars, recordVars, queueVars, batchVars, Stutters, Moves, Tables, WorkerIsReal
<1>2. CASE Startup
  <2>1. ASSUME Boot, Batching!RecoverBatches, UNCHANGED queueVars
        PROVE  Moves /\ Tables' /\ WorkerIsReal'
    BY <2>1, BootStep DEF Moves, WorkerIsReal
  <2>2. ASSUME UNCHANGED batchVars,
               NEW d \in Deliveries, Queue!RecoverRow(d, Unbatched) \/ Queue!SpawnRecovered(d)
        PROVE  Moves /\ Tables' /\ WorkerIsReal'
    BY <2>2, RowStep DEF Moves, WorkerIsReal, batchVars
  <2>3. ASSUME UNCHANGED batchVars, Queue!RecoveryDone(Unbatched) \/ Queue!Listen
        PROVE  Moves /\ Tables' /\ WorkerIsReal'
    BY <2>3, LifeStep DEF Moves, WorkerIsReal, batchVars
  <2>4. ASSUME NEW d \in Deliveries, Queue!RefuseToStart(d), Batching!WorkerDies
        PROVE  Moves /\ Tables' /\ WorkerIsReal'
    <3>1. ProcessEnds /\ Queue!TasksDie
      BY <2>4 DEF Queue!RefuseToStart, Queue!ProcessEnds, ProcessEnds
    <3> QED BY <2>4, <3>1, LifeStep DEF Moves, WorkerIsReal, Ends
  <2> QED BY <1>2, <2>1, <2>2, <2>3, <2>4 DEF Startup
<1>3. CASE Crash
  BY <1>3, LifeStep DEF Crash, Moves, WorkerIsReal, Ends
<1>4. ASSUME NEW d \in Deliveries, QueueEventDelivery(d)
      PROVE  Moves /\ Tables' /\ WorkerIsReal'
  <2>1. ASSUME Queue!Enqueue(d), UNCHANGED batchVars PROVE Moves /\ Tables' /\ WorkerIsReal'
    BY <2>1, RowStep DEF Moves, WorkerIsReal, batchVars
  <2>2. ASSUME NEW key \in BatchKeys, NEW size \in EventSizes,
               Batching!QueueBatched(d, key, size), UNCHANGED queueVars
        PROVE  Moves /\ Tables' /\ WorkerIsReal'
    BY <2>2, JoinStep DEF Moves, WorkerIsReal
  <2> QED BY <1>4, <2>1, <2>2 DEF QueueEventDelivery
<1>5. ASSUME NEW d \in Deliveries, ReplayDelivery(d) PROVE Moves /\ Tables' /\ WorkerIsReal'
  BY <1>5, RowStep DEF ReplayDelivery, Moves, WorkerIsReal, batchVars
<1>6. ASSUME NEW d \in Deliveries, NEW k \in Keys, Task(d, k)
      PROVE  Moves /\ Tables' /\ WorkerIsReal'
  <2>1. TaskMoves(d, k) /\ Tables'
    BY <1>6, TaskStep
  <2>2. UNCHANGED worker
    BY <1>6 DEF Task, batchVars
  <2> QED BY <2>1, <2>2 DEF Moves, WorkerIsReal
<1>7. CASE BatchWorker
  <2>1. ASSUME NEW b \in Batches, Batching!Claim(b), UNCHANGED queueVars
        PROVE  Moves /\ Tables' /\ WorkerIsReal'
    BY <2>1, ClaimStep DEF Moves
  <2>2. ASSUME Batching!SendBatch, UNCHANGED queueVars PROVE Moves /\ Tables' /\ WorkerIsReal'
    BY <2>2, SendStep DEF Moves
  <2>3. ASSUME Batching!BatchSucceeded \/ Batching!BatchDeadLettered \/ Batching!BatchRetrying,
               UNCHANGED queueVars
        PROVE  Moves /\ Tables' /\ WorkerIsReal'
    BY <2>3, RecordStep DEF Moves
  <2> QED BY <1>a, <1>7, <2>1, <2>2, <2>3 DEF BatchWorker, Batching!BatchWorker
<1>8. CASE Tick
  <2>1. /\ UNCHANGED <<phase, rec, limit, configured, crashes, task, next, replays, accepted,
                       batch, member, worker, taken, lost, named>>
        /\ now' = now + 1
    BY <1>8 DEF Tick, Batching!Tick, Batching!recordVars, queueVars
  <2> QED BY <2>1 DEF Stutters, Moves, Tables, WorkerIsReal
<1>9. CASE Quiet
  BY <1>1, <1>9 DEF Quiet
<1> QED
  BY <1>1, <1>2, <1>3, <1>4, <1>5, <1>6, <1>7, <1>8, <1>9 DEF Next

LEMMA TablesAtFirst == Init => Tables /\ WorkerIsReal
BY RecordsAssumption, ConstantTypes
DEF Init, RecordsInit, Queue!QueueInit, Batching!BatchInit, Tables, Phases, Row, TaskState,
    TaskSteps, Queue!NoTasks, Queue!NoTask, Queue!Keys, Keys, Queue!Deliveries,
    Deliveries, Batching!Deliveries, Batching!Batches, Batches, BatchRow, Batching!NoBatch,
    Batching!NoMember, Batching!Idle, WorkerState, WorkerIsReal

LEMMA TablesAlways == Spec => [](Tables /\ WorkerIsReal)
<1>1. Tables /\ WorkerIsReal /\ [Next]_vars => Tables' /\ WorkerIsReal'
  BY Steps
<1> QED BY <1>1, TablesAtFirst, PTL DEF Spec

(* Every variable of the composed system keeps its type.                   *)
THEOREM TypeCorrect == Spec => []TypeOK
<1>1. Tables => TypeOK
  BY TypesAreTables
<1> QED BY <1>1, TablesAlways, PTL
----------------------------------------------------------------------------
(* Which of the two recovery paths owns a row.                             *)

Busy(d) == \E k \in Keys : task[d][k].step # "idle"

(* Tasks and the worker run only after the recovery, next_attempt is known *)
(* only during the start.                                                  *)
AtWork ==
    /\ phase \in {"down", "recovering"} =>
          worker.step = "idle" /\ \A d \in Deliveries : ~Busy(d)
    /\ phase \in {"down", "up"} => \A d \in Deliveries : next[d] = 0

HeldByWorker == worker.step # "idle" => batch[worker.batch].status = "delivering"

(* A row has one task at most, and only if it is not settled; a row that   *)
(* waits for its task is not settled, and no batch's.                      *)
SoleTask(d) ==
    /\ Busy(d) => Live(d)
    /\ next[d] > 0 => Live(d) /\ ~Busy(d) /\ ~Batched(d)
    /\ \A j, k \in Keys : task[d][j].step # "idle" /\ task[d][k].step # "idle" => j = k

(* A member's row follows its batch until an operator replays it.          *)
Follows(d) ==
    /\ rec[d].status = "none" => replays[d] = 0 /\ ~Batched(d)
    /\ Batched(d) => batch[member[d].batch].status # "none"
    /\ Batched(d) /\ replays[d] = 0 =>
          LET status == batch[member[d].batch].status
          IN  rec[d].status = IF status = "pending" THEN "queued" ELSE status

(* While the batch is to be sent, nothing else touches its members.        *)
Apart(d) == BatchIsActive(d) => replays[d] = 0 /\ ~Busy(d)

OneWay(d) == SoleTask(d) /\ Follows(d) /\ Apart(d)

Divided == AtWork /\ HeldByWorker /\ \A d \in Deliveries : OneWay(d)

(* The parts' own names for a busy row and for the types of statuses.      *)
LEMMA BusyRows == \A d \in Deliveries : Queue!Busy(d) <=> Busy(d)
BY DEF Queue!Busy, Queue!At, Queue!Keys, Keys, Busy

LEMMA StatusSets ==
    /\ \A d \in Deliveries : Live(d) <=> rec[d].status \in {"queued", "delivering", "retrying"}
    /\ \A d \in Deliveries : Terminal(d) <=> rec[d].status \in {"succeeded", "dead_letter"}
    /\ \A d \in Deliveries : Batched(d) <=> member[d].batch # 0
    /\ \A d \in Deliveries :
          BatchIsActive(d) <=>
             Batched(d) /\ batch[member[d].batch].status \notin {"succeeded", "dead_letter"}
BY DEF Live, LiveStatus, Terminal, TerminalStatus, Batched, BatchIsActive

(* A step on one row leaves what is said of any other row.                 *)
LEMMA Elsewhere ==
    ASSUME NEW d \in Deliveries, OnlyRow(d), NEW e \in Deliveries, e # d
    PROVE  /\ Busy(e)' <=> Busy(e)
           /\ OneWay(e) => OneWay(e)'
           /\ phase' = phase
<1>1. /\ Running /\ BatchesRest /\ Untouched(e)
  BY DEF OnlyRow
<1> QED
  BY <1>1
  DEF OneWay, SoleTask, Follows, Apart, Busy, Live, Batched, BatchIsActive, Running,
      BatchesRest, Untouched

(* It keeps the division if it keeps that row's own part of it.            *)
LEMMA DividedRow ==
    ASSUME Divided, NEW d \in Deliveries, OnlyRow(d), OneWay(d)',
           Busy(d)' => Busy(d) \/ phase \in {"spawning", "up"},
           next'[d] = next[d] \/ phase \in {"recovering", "spawning"}
    PROVE  Divided'
<1>1. /\ phase' = phase /\ worker' = worker /\ batch' = batch
      /\ \A e \in Deliveries \ {d} : next'[e] = next[e]
  BY DEF OnlyRow, Running, BatchesRest, Untouched
<1>2. \A e \in Deliveries : OneWay(e)'
  BY Elsewhere DEF Divided
<1>3. HeldByWorker'
  BY <1>1 DEF Divided, HeldByWorker
<1>4. AtWork'
  <2>1. ASSUME phase' \in {"down", "recovering"}
        PROVE  worker'.step = "idle" /\ \A e \in Deliveries : ~Busy(e)'
    BY <1>1, <2>1, Elsewhere DEF Divided, AtWork
  <2>2. ASSUME phase' \in {"down", "up"} PROVE \A e \in Deliveries : next'[e] = 0
    BY <1>1, <2>2 DEF Divided, AtWork
  <2> QED BY <2>1, <2>2 DEF AtWork
<1> QED BY <1>2, <1>3, <1>4 DEF Divided

LEMMA DividedByStartup ==
    ASSUME Tables, Divided, NEW d \in Deliveries, Requeues(d) \/ Restarts(d)
    PROVE  Divided'
<1>a. OnlyRow(d) /\ OneWay(d) /\ UNCHANGED <<batch, member>>
  BY DEF Requeues, Restarts, Divided, OnlyRow, BatchesRest
<1>b. next[d] \in Nat /\ 0 \in Keys
  BY ConstantTypes DEF Tables
<1>1. CASE Requeues(d)
  <2>1. /\ ~Busy(d) /\ ~Batched(d) /\ Live(d) /\ task'[d] = task[d]
        /\ rec'[d].status = "queued" /\ phase = "recovering"
    BY <1>1 DEF Requeues, Turned, Divided, AtWork
  <2>2. ~Busy(d)' /\ ~Batched(d)' /\ Live(d)'
    BY <1>a, <2>1 DEF Busy, Batched, Live, LiveStatus
  <2>3. OneWay(d)'
    BY <1>a, <2>1, <2>2 DEF OneWay, SoleTask, Follows, Apart, Busy, BatchIsActive
  <2> QED BY <1>a, <2>1, <2>2, <2>3, DividedRow
<1>2. CASE Restarts(d)
  <2>1. /\ ~Busy(d) /\ ~Batched(d) /\ Live(d) /\ rec'[d] = rec[d]
        /\ next'[d] = 0 /\ phase = "spawning"
        /\ \A k \in Keys \ {0} : task'[d][k] = task[d][k]
    BY <1>a, <1>2 DEF Restarts, OneWay, SoleTask
  <2>2. ~Batched(d)' /\ Live(d)' /\ \A k \in Keys \ {0} : task'[d][k].step = "idle"
    BY <1>a, <2>1 DEF Busy, Batched, Live
  <2>3. OneWay(d)'
    BY <2>1, <2>2, <1>a DEF OneWay, SoleTask, Follows, Apart, BatchIsActive, Live, LiveStatus
  <2> QED BY <1>a, <2>1, <2>3, DividedRow
<1> QED BY <1>1, <1>2

LEMMA DividedByRequest ==
    ASSUME ~ReplayLive, Tables, Divided, NEW d \in Deliveries, NEW k \in Keys,
           Inserts(d) \/ Replays(d, k)
    PROVE  Divided'
<1>a. OnlyRow(d) /\ OneWay(d) /\ phase = "up" /\ UNCHANGED <<batch, member>>
  BY DEF Inserts, Replays, Divided, OnlyRow, BatchesRest
<1>b. ~Live(d)
  BY DEF Inserts, Replays, Live, LiveStatus, Terminal, TerminalStatus
<1>c. ~Busy(d) /\ next[d] = 0
  BY <1>a, <1>b DEF OneWay, SoleTask, Divided, AtWork
<1>1. PICK j \in Keys : \A i \in Keys \ {j} : task'[d][i] = task[d][i]
  BY ConstantTypes DEF Inserts, Replays
<1>2. /\ next'[d] = 0 /\ rec'[d].status = "queued"
      /\ \A i \in Keys \ {j} : task'[d][i].step = "idle"
  BY <1>1, <1>c DEF Inserts, Replays, Turned, Busy
<1>3. SoleTask(d)'
  BY <1>2 DEF SoleTask, Live, LiveStatus
<1>4. CASE Inserts(d)
  <2>1. ~Batched(d)'
    BY <1>a, <1>4 DEF Inserts, OneWay, Follows, Batched
  <2> QED
    BY <1>a, <1>2, <1>3, <1>c, <2>1, DividedRow DEF OneWay, Follows, Apart, BatchIsActive
<1>5. CASE Replays(d, k)
  <2>1. replays'[d] # 0
    BY <1>5 DEF Replays, Tables, Keys
  <2>2. ~BatchIsActive(d)
    BY <1>5, <1>a, StatusSets DEF Replays, OneWay, Follows, Apart
  <2>3. ~BatchIsActive(d)' /\ (Batched(d) <=> Batched(d)')
    BY <1>a, <2>2 DEF BatchIsActive, Batched
  <2>4. OneWay(d)'
    BY <1>a, <1>2, <1>3, <2>1, <2>3 DEF OneWay, Follows, Apart
  <2> QED BY <1>a, <1>2, <1>c, <2>4, DividedRow
<1> QED BY <1>4, <1>5

LEMMA DividedByTask ==
    ASSUME Tables, Divided, NEW d \in Deliveries, NEW k \in Keys, TaskMoves(d, k)
    PROVE  Divided'
<1>a. OnlyRow(d) /\ OneWay(d) /\ Busy(d) /\ UNCHANGED <<batch, member>>
  BY DEF TaskMoves, Works, Divided, OnlyRow, BatchesRest, Busy
<1>b. Live(d) /\ next[d] = 0 /\ ~BatchIsActive(d) /\ next[d] \in Nat
  BY <1>a DEF OneWay, SoleTask, Apart, Tables
<1>1. /\ next'[d] = 0 /\ replays'[d] = replays[d]
      /\ \A j \in Keys \ {k} : task'[d][j].step = "idle"
  BY <1>a, <1>b DEF TaskMoves, Works, OneWay, SoleTask
<1>2. /\ rec'[d].status # "none"
      /\ task'[d][k].step # "idle" => Live(d)'
  BY <1>b
  DEF TaskMoves, Continues, Stops, Tries, Requests, Settles, Retries, Turned, Live, LiveStatus
<1>3. SoleTask(d)'
  BY <1>1, <1>2 DEF SoleTask, Busy
<1>4. ~BatchIsActive(d)' /\ (Batched(d)' <=> Batched(d))
  BY <1>a, <1>b DEF BatchIsActive, Batched
<1>5. Follows(d)'
  <2>1. ASSUME Batched(d), replays[d] = 0 PROVE FALSE
    BY <1>a, <1>b, <2>1, StatusSets DEF OneWay, Follows
  <2> QED BY <1>a, <1>1, <1>2, <1>4, <2>1 DEF OneWay, Follows
<1> QED BY <1>a, <1>b, <1>1, <1>3, <1>4, <1>5, DividedRow DEF OneWay, Apart

LEMMA DividedByLife ==
    ASSUME Tables, Divided, Stutters \/ Boots \/ Requeued \/ Listens \/ Ends
    PROVE  Divided'
<1>a. \A d \in Deliveries : OneWay(d) /\ next[d] \in Nat
  BY DEF Divided, Tables
<1>1. CASE Stutters
  BY <1>1
  DEF Stutters, Divided, AtWork, HeldByWorker, OneWay, SoleTask, Follows, Apart, Busy, Live,
      Batched, BatchIsActive
<1>2. CASE Requeued \/ Listens
  <2>1. /\ UNCHANGED <<rec, task, next, replays, accepted, batch, member, worker, taken>>
        /\ phase' \in {"spawning", "up"}
        /\ phase' = "up" => \A d \in Deliveries : next[d] = 0
    BY <1>2 DEF Requeued, Listens, TasksRest, BatchesRest
  <2>2. \A d \in Deliveries : OneWay(d)'
    BY <1>a, <2>1 DEF OneWay, SoleTask, Follows, Apart, Busy, Live, Batched, BatchIsActive
  <2> QED BY <2>1, <2>2 DEF Divided, AtWork, HeldByWorker
<1>3. CASE Ends
  <2>1. /\ \A d \in Deliveries : next'[d] = 0 /\ ~Busy(d)'
        /\ UNCHANGED <<rec, replays, batch, member>>
        /\ phase' = "down" /\ worker'.step = "idle"
    BY <1>3 DEF Ends, Busy
  <2>2. \A d \in Deliveries : OneWay(d)'
    BY <1>a, <2>1 DEF OneWay, SoleTask, Follows, Apart, Busy, Batched, BatchIsActive
  <2> QED BY <2>1, <2>2 DEF Divided, AtWork, HeldByWorker
<1>4. CASE Boots
  <2>1. /\ UNCHANGED <<task, next, replays, member, worker>>
        /\ phase = "down" /\ phase' = "recovering"
    BY <1>4 DEF Boots, TasksRest
  <2>2. AtWork' /\ HeldByWorker'
    BY <2>1 DEF Divided, AtWork, HeldByWorker, Busy
  <2>3. ASSUME NEW d \in Deliveries PROVE OneWay(d)'
    <3>1. ~Busy(d) /\ ~Busy(d)' /\ next[d] = 0
      BY <2>1 DEF Divided, AtWork, Busy
    <3>2. SoleTask(d)'
      BY <2>1, <3>1 DEF SoleTask, Busy
    <3>3. /\ Batched(d)' <=> Batched(d)
          /\ rec'[d].status = "none" <=> rec[d].status = "none"
      BY <1>4, <2>1 DEF Boots, Batched, Turned
    <3>4. CASE ~Batched(d)
      BY <1>a, <2>1, <3>1, <3>2, <3>3, <3>4 DEF OneWay, Follows, Apart, BatchIsActive
    <3>5. CASE Batched(d)
      <4>1. member[d].batch \in Batches
        BY <3>5 DEF Tables, Batched
      <4> DEFINE before == batch[member[d].batch].status
                 after == batch'[member[d].batch].status
      <4>2. IF before \in {"pending", "delivering"} THEN after = "pending" ELSE after = before
        BY <1>4, <4>1 DEF Boots
      <4>3. before \in {"pending", "delivering"} => replays[d] = 0
        BY <1>a, <3>5, StatusSets DEF OneWay, Apart
      <4>4. IF rec[d].status \in {"queued", "delivering"} /\ before \in {"pending", "delivering"}
               THEN rec'[d].status = "queued" ELSE rec'[d].status = rec[d].status
        BY <1>4, <4>1 DEF Boots, Turned
      <4>5. Follows(d)
        BY <1>a DEF OneWay
      <4>6. after # "none" /\ (replays[d] = 0 =>
               rec'[d].status = IF after = "pending" THEN "queued" ELSE after)
        BY <3>5, <4>2, <4>4, <4>5 DEF Follows
      <4>7. Follows(d)'
        BY <2>1, <3>3, <4>5, <4>6 DEF Follows, Batched
      <4>8. BatchIsActive(d)' => BatchIsActive(d)
        BY <2>1, <3>5, <4>2 DEF BatchIsActive, TerminalStatus, Batched
      <4>9. Apart(d)'
        BY <1>a, <2>1, <3>1, <4>8 DEF OneWay, Apart
      <4> QED BY <3>2, <4>7, <4>9 DEF OneWay
    <3> QED BY <3>4, <3>5
  <2> QED BY <2>2, <2>3 DEF Divided
<1> QED BY <1>1, <1>2, <1>3, <1>4

(* A step on the members of one batch keeps the division if those members  *)
(* still follow it, and are apart while it is to be sent.                  *)
LEMMA DividedBatch ==
    ASSUME Tables, Divided, UNCHANGED <<phase, replays>>, TasksRest, NEW b \in Batches,
           phase \in {"spawning", "up"}, HeldByWorker', batch'[b].status # "none",
           \A c \in Batches \ {b} : batch'[c].status = batch[c].status,
           \A d \in Deliveries :
              IF member'[d].batch = b
                 THEN /\ replays[d] = 0 /\ ~Busy(d) /\ next[d] = 0
                      /\ rec'[d].status =
                            IF batch'[b].status = "pending" THEN "queued" ELSE batch'[b].status
                 ELSE rec'[d] = rec[d] /\ member'[d] = member[d]
    PROVE  Divided'
<1>1. AtWork'
  BY DEF Divided, AtWork, TasksRest, Busy
<1>2. ASSUME NEW d \in Deliveries PROVE OneWay(d)'
  <2>1. CASE member'[d].batch = b
    <3>1. /\ ~Busy(d)' /\ next'[d] = 0 /\ replays'[d] = 0 /\ Batched(d)'
      BY <2>1, ConstantTypes DEF Busy, TasksRest, Batched
    <3>2. /\ rec'[d].status =
                IF batch'[b].status = "pending" THEN "queued" ELSE batch'[b].status
          /\ rec'[d].status # "none"
      BY <2>1
    <3> QED BY <2>1, <3>1, <3>2 DEF OneWay, SoleTask, Follows, Apart, Busy
  <2>2. CASE member'[d].batch # b
    <3>1. UNCHANGED <<rec[d], member[d], task[d], next[d], replays[d]>>
      BY <2>2 DEF TasksRest
    <3>2. Batched(d) => batch'[member[d].batch].status = batch[member[d].batch].status
      BY <2>2, <3>1 DEF Tables, Batched
    <3>3. OneWay(d)
      BY DEF Divided
    <3> QED
      BY <3>1, <3>2, <3>3
      DEF OneWay, SoleTask, Follows, Apart, Busy, Live, Batched, BatchIsActive
  <2> QED BY <2>1, <2>2
<1> QED BY <1>1, <1>2 DEF Divided

(* Members of a batch that is to be sent have no task and were never replayed. *)
LEMMA MembersRest ==
    ASSUME Tables, Divided, NEW b \in Batches,
           batch[b].status \notin {"none", "succeeded", "dead_letter"},
           NEW d \in Deliveries, member[d].batch = b
    PROVE  replays[d] = 0 /\ ~Busy(d) /\ next[d] = 0 /\ Live(d)
<1>1. Batched(d) /\ BatchIsActive(d) /\ OneWay(d) /\ next[d] \in Nat
  BY ConstantTypes DEF Batched, BatchIsActive, TerminalStatus, Divided, Tables
<1>2. replays[d] = 0 /\ ~Busy(d) /\ next[d] = 0
  BY <1>1 DEF OneWay, Apart, SoleTask
<1>3. batch[b].status \in {"pending", "delivering", "retrying"}
  <2>1. batch[b] \in BatchRow
    BY DEF Tables
  <2> QED BY <2>1 DEF BatchRow, TerminalStatus
<1>4. Live(d)
  BY <1>1, <1>2, <1>3, StatusSets DEF OneWay, Follows
<1> QED BY <1>2, <1>4

LEMMA DividedByBatches ==
    ASSUME Tables, Divided, WorkerIsReal, NEW b \in Batches,
           \/ \E d \in Deliveries : Joins(d, b)
           \/ Claims(b)
           \/ Sends
           \/ \E status \in {"retrying"} \cup TerminalStatus : Records(status)
    PROVE  Divided'
<1>1. ASSUME NEW d \in Deliveries, Joins(d, b) PROVE Divided'
  <2>1. /\ TasksRest /\ UNCHANGED <<phase, worker, replays>> /\ phase = "up"
        /\ rec'[d].status = "queued" /\ member'[d].batch = b
        /\ batch[b].status \in {"none", "pending"} /\ batch'[b].status = "pending"
        /\ \A c \in Batches \ {b} : batch'[c].status = batch[c].status
        /\ \A e \in Deliveries \ {d} : rec'[e] = rec[e] /\ member'[e] = member[e]
    BY <1>1 DEF Joins, Running, TasksRest
  <2>2. replays[d] = 0 /\ ~Busy(d) /\ next[d] = 0
    BY <1>1 DEF Joins, Divided, AtWork, OneWay, SoleTask, Follows, Live, LiveStatus
  <2>3. HeldByWorker'
    BY <2>1 DEF Divided, HeldByWorker, WorkerIsReal
  <2>4. ASSUME NEW e \in Deliveries, e # d, member[e].batch = b
        PROVE  replays[e] = 0 /\ ~Busy(e) /\ next[e] = 0 /\ rec[e].status = "queued"
    <3>1. OneWay(e) /\ Batched(e)
      BY <2>4, ConstantTypes DEF Divided, Batched
    <3>2. batch[b].status = "pending"
      BY <2>1, <2>4, <3>1 DEF OneWay, Follows
    <3>3. replays[e] = 0 /\ ~Busy(e) /\ next[e] = 0
      BY <2>4, <3>2, MembersRest
    <3> QED BY <2>4, <3>1, <3>2, <3>3 DEF OneWay, Follows
  <2> QED BY <2>1, <2>2, <2>3, <2>4, DividedBatch
<1>2. CASE Claims(b)
  <2>1. /\ TasksRest /\ UNCHANGED <<phase, member, replays>> /\ phase \in {"spawning", "up"}
        /\ batch[b].status \in {"pending", "retrying"} /\ batch'[b].status = "delivering"
        /\ \A c \in Batches \ {b} : batch'[c] = batch[c]
        /\ \A d \in Deliveries :
              IF member[d].batch = b THEN rec'[d].status = "delivering" ELSE rec'[d] = rec[d]
        /\ worker'.batch = b
    BY <1>2 DEF Claims, Running, TasksRest, MembersOf
  <2>2. \A d \in Deliveries : member[d].batch = b => replays[d] = 0 /\ ~Busy(d) /\ next[d] = 0
    BY <2>1, MembersRest
  <2> QED BY <2>1, <2>2, DividedBatch DEF HeldByWorker
<1>3. CASE Sends
  <2>1. /\ UNCHANGED <<phase, rec, task, next, replays, batch, member>>
        /\ worker.step = "sending" /\ worker'.batch = worker.batch
    BY <1>3 DEF Sends, Running, TasksRest
  <2> QED
    BY <2>1
    DEF Divided, AtWork, HeldByWorker, OneWay, SoleTask, Follows, Apart, Busy, Live, Batched,
        BatchIsActive
<1>4. ASSUME NEW status \in {"retrying"} \cup TerminalStatus, Records(status) PROVE Divided'
  <2> DEFINE held == worker.batch
  <2>1. /\ TasksRest /\ UNCHANGED <<phase, member, replays>> /\ worker.step # "idle"
        /\ worker'.step = "idle" /\ batch'[held].status = status
        /\ \A c \in Batches \ {held} : batch'[c] = batch[c]
        /\ \A d \in Deliveries :
              IF member[d].batch = held THEN rec'[d].status = status ELSE rec'[d] = rec[d]
    BY <1>4 DEF Records, Running, TasksRest, MembersOf, Turned
  <2>2. held \in Batches /\ batch[held].status = "delivering" /\ phase \in {"spawning", "up"}
    BY <2>1 DEF WorkerIsReal, Divided, HeldByWorker, AtWork, Tables, Phases
  <2>3. \A d \in Deliveries : member[d].batch = held => replays[d] = 0 /\ ~Busy(d) /\ next[d] = 0
    BY <2>2, MembersRest
  <2>4. status # "none" /\ status # "pending" /\ HeldByWorker'
    BY <2>1 DEF TerminalStatus, HeldByWorker
  <2> HIDE DEF held
  <2> QED BY <2>1, <2>2, <2>3, <2>4, DividedBatch
<1> QED BY <1>1, <1>2, <1>3, <1>4

LEMMA DividedStep ==
    ASSUME ~ReplayLive, Tables, WorkerIsReal, Divided, Moves PROVE Divided'
<1>1. ASSUME NEW d \in Deliveries,
             \/ Requeues(d) \/ Restarts(d) \/ Inserts(d)
             \/ \E k \in Keys : Replays(d, k) \/ TaskMoves(d, k)
             \/ \E b \in Batches : Joins(d, b)
      PROVE  Divided'
  BY <1>1, ConstantTypes, DividedByStartup, DividedByRequest, DividedByTask, DividedByBatches
<1>2. CASE Stutters \/ Boots \/ Requeued \/ Listens \/ Ends
  BY <1>2, DividedByLife
<1>3. CASE Sends
  <2>1. worker.batch \in Batches
    BY <1>3 DEF Sends, WorkerIsReal
  <2> QED BY <1>3, <2>1, DividedByBatches
<1>4. ASSUME NEW b \in Batches, Claims(b) PROVE Divided'
  BY <1>4, DividedByBatches
<1>5. ASSUME NEW status \in {"retrying"} \cup TerminalStatus, Records(status) PROVE Divided'
  <2>1. worker.batch \in Batches
    BY <1>5 DEF Records, WorkerIsReal
  <2> QED BY <1>5, <2>1, DividedByBatches
<1> QED BY <1>1, <1>2, <1>3, <1>4, <1>5 DEF Moves

LEMMA DividedAtFirst == Init => Divided
BY ConstantTypes
DEF Init, RecordsInit, Queue!QueueInit, Batching!BatchInit, Divided, AtWork, HeldByWorker,
    OneWay, SoleTask, Follows, Apart, Busy, Live, LiveStatus, Batched, BatchIsActive,
    Queue!NoTasks, Queue!NoTask, Queue!Keys, Keys, Queue!Deliveries, Deliveries,
    Batching!Deliveries, Batching!NoMember, Batching!Idle

LEMMA DividedAlways == ASSUME ~ReplayLive PROVE Spec => [](Tables /\ WorkerIsReal /\ Divided)
<1>1. /\ Tables /\ WorkerIsReal /\ Divided /\ [Next]_vars
      => Tables' /\ WorkerIsReal' /\ Divided'
  BY Steps, DividedStep
<1> QED BY <1>1, TablesAtFirst, DividedAtFirst, PTL DEF Spec

(* No task works on a row whose batch is still to be sent, so the two      *)
(* recovery paths of build_app never send one event twice.                 *)
THEOREM OneOwnerAlways == Spec => []OneOwner
<1>1. CASE ReplayLive
  <2>1. OneOwner
    BY <1>1 DEF OneOwner
  <2> QED BY <2>1, PTL
<1>2. CASE ~ReplayLive
  <2>1. Divided => OneOwner
    BY BusyRows DEF Divided, OneWay, Apart, OneOwner
  <2> QED BY <1>2, <2>1, DividedAlways, PTL
<1> QED BY <1>1, <1>2
----------------------------------------------------------------------------
(* Who works on a row without a verdict.                                   *)

(* The attempts a row outside any batch has used, and may still use.       *)
Budget(d) ==
    ~Batched(d) =>
        /\ rec[d].attempts <= limit /\ next[d] <= limit
        /\ Live(d) => limit > 0
        /\ rec[d].status = "retrying" => rec[d].attempts < limit
        /\ \A k \in Keys :
              /\ task[d][k].step # "idle" => task[d][k].attempt \in 1 .. limit
              /\ task[d][k].step \in {"sending", "delivered", "rejected", "failed"} =>
                    rec[d].attempts = task[d][k].attempt
              /\ task[d][k].step = "sleeping" => task[d][k].attempt < limit

(* Once the recovery has ended, a row outside any batch has a task, or     *)
(* will be given one.                                                      *)
Owned(d) ==
    /\ phase \in {"spawning", "up"}
    /\ Live(d) /\ ~Batched(d) /\ ReceiverOf[d] \in configured
    => Busy(d) \/ next[d] > 0

Tended == \A d \in Deliveries : Budget(d) /\ Owned(d)

(* A step on one row leaves the budget of any other, and who works on it.  *)
LEMMA TendedElsewhere ==
    ASSUME Tended, NEW d \in Deliveries, OnlyRow(d), Budget(d)', Owned(d)'
    PROVE  Tended'
<1>1. ASSUME NEW e \in Deliveries, e # d PROVE Budget(e)' /\ Owned(e)'
  <2>1. Running /\ BatchesRest /\ Untouched(e) /\ Budget(e) /\ Owned(e)
    BY <1>1 DEF OnlyRow, Tended
  <2> QED
    BY <2>1 DEF Budget, Owned, Running, BatchesRest, Untouched, Busy, Live, Batched
<1> QED BY <1>1 DEF Tended

(* Numbers the budget compares.                                            *)
LEMMA BudgetTypes ==
    ASSUME Tables, NEW d \in Deliveries
    PROVE  /\ limit \in Nat /\ rec[d].attempts \in Nat /\ next[d] \in Nat
           /\ \A k \in Keys : task[d][k].attempt \in Nat
           /\ phase # "down" => limit > 0
<1>1. rec[d] \in Row /\ \A k \in Keys : task[d][k] \in TaskState
  BY DEF Tables
<1> QED BY <1>1, ConstantTypes DEF Tables, Row, TaskState

LEMMA TendedByStartup ==
    ASSUME Tables, Divided, Tended, NEW d \in Deliveries, Requeues(d) \/ Restarts(d)
    PROVE  Tended'
<1>a. /\ OnlyRow(d) /\ UNCHANGED <<limit, phase, member, configured>>
      /\ OneWay(d) /\ Budget(d)
  BY DEF Requeues, Restarts, OnlyRow, Running, BatchesRest, Divided, Tended
<1>b. /\ limit \in Nat /\ rec[d].attempts \in Nat /\ next[d] \in Nat
      /\ 0 \in Keys
  BY BudgetTypes, ConstantTypes
<1>1. CASE Requeues(d)
  <2>1. /\ ~Batched(d) /\ Live(d) /\ task'[d] = task[d] /\ phase = "recovering"
        /\ rec'[d].status = "queued" /\ rec'[d].attempts = rec[d].attempts
        /\ next'[d] = Queue!RecoveredAttempt(d) /\ ~Busy(d)
    BY <1>1 DEF Requeues, Turned, Divided, AtWork
  <2>2. next'[d] \in Nat /\ next'[d] <= limit
    BY <1>a, <1>b, <2>1 DEF Queue!RecoveredAttempt, Budget
  <2>3. ~Batched(d)' /\ Live(d)' /\ ~Busy(d)'
    BY <1>a, <2>1 DEF Batched, Live, LiveStatus, Busy
  <2>4. Budget(d)'
    BY <1>a, <2>1, <2>2, <2>3 DEF Budget, Busy
  <2>5. Owned(d)'
    BY <1>a, <2>1 DEF Owned
  <2> QED BY <1>a, <2>4, <2>5, TendedElsewhere
<1>2. CASE Restarts(d)
  <2>1. /\ ~Busy(d) /\ ~Batched(d) /\ Live(d) /\ rec'[d] = rec[d]
        /\ next[d] > 0 /\ next'[d] = 0
        /\ task'[d][0] = [step |-> "attempting", attempt |-> next[d]]
        /\ \A k \in Keys \ {0} : task'[d][k] = task[d][k]
    BY <1>a, <1>2 DEF Restarts, OneWay, SoleTask
  <2>2. /\ \A k \in Keys \ {0} : task'[d][k].step = "idle"
        /\ task'[d][0].step = "attempting" /\ task'[d][0].attempt = next[d]
    BY <2>1 DEF Busy
  <2>3. ~Batched(d)' /\ Live(d)'
    BY <1>a, <2>1 DEF Batched, Live
  <2>4. Budget(d)'
    BY <1>a, <1>b, <2>1, <2>2, <2>3 DEF Budget
  <2>5. Owned(d)'
    BY <1>b, <2>2 DEF Owned, Busy
  <2> QED BY <1>a, <2>4, <2>5, TendedElsewhere
<1> QED BY <1>1, <1>2

LEMMA TendedByRequest ==
    ASSUME ~ReplayLive, Tables, Divided, Tended, NEW d \in Deliveries, NEW k \in Keys,
           Inserts(d) \/ Replays(d, k)
    PROVE  Tended'
<1>a. /\ OnlyRow(d) /\ UNCHANGED <<limit, phase, member, configured>> /\ phase = "up"
      /\ OneWay(d) /\ Budget(d)
  BY DEF Inserts, Replays, OnlyRow, Running, BatchesRest, Divided, Tended
<1>b. /\ limit \in Nat /\ limit > 0 /\ rec[d].attempts \in Nat
  BY <1>a, BudgetTypes
<1>c. ~Busy(d) /\ next[d] = 0
  <2>1. ~Live(d)
    BY DEF Inserts, Replays, Live, LiveStatus, Terminal, TerminalStatus
  <2> QED BY <1>a, <2>1 DEF OneWay, SoleTask, Divided, AtWork
<1>1. PICK j \in Keys :
         /\ \A i \in Keys \ {j} : task'[d][i] = task[d][i]
         /\ task'[d][j].step \in {"queueing", "replaying"} /\ task'[d][j].attempt = 1
  BY ConstantTypes DEF Inserts, Replays
<1>2. /\ next'[d] = 0 /\ rec'[d].status = "queued"
      /\ rec'[d].attempts \in {0, rec[d].attempts}
      /\ \A i \in Keys \ {j} : task'[d][i].step = "idle"
  BY <1>1, <1>c DEF Inserts, Replays, Turned, Busy
<1>3. Budget(d)'
  <2>1. Batched(d)' <=> Batched(d)
    BY <1>a DEF Batched
  <2> QED BY <1>a, <1>b, <1>1, <1>2, <2>1 DEF Budget
<1>4. Owned(d)'
  BY <1>1 DEF Owned, Busy
<1> QED BY <1>a, <1>3, <1>4, TendedElsewhere

LEMMA TendedByTask ==
    ASSUME Tables, Divided, Tended, NEW d \in Deliveries, NEW k \in Keys, TaskMoves(d, k)
    PROVE  Tended'
<1>a. /\ OnlyRow(d) /\ UNCHANGED <<limit, phase, member, configured>>
      /\ OneWay(d) /\ Budget(d) /\ Owned(d) /\ Busy(d)
  BY DEF TaskMoves, Works, OnlyRow, Running, BatchesRest, Divided, Tended, Busy
<1>b. /\ limit \in Nat /\ rec[d].attempts \in Nat /\ task[d][k].attempt \in Nat
      /\ next[d] \in Nat
  BY BudgetTypes
<1>1. /\ next'[d] = 0 /\ Live(d) /\ task[d][k].step # "idle"
      /\ \A j \in Keys \ {k} : task'[d][j].step = "idle"
      /\ Batched(d)' <=> Batched(d)
  BY <1>a, <1>b DEF TaskMoves, Works, OneWay, SoleTask, Batched
<1>2. CASE Batched(d)
  <2>1. Budget(d)' /\ Owned(d)'
    BY <1>1, <1>2 DEF Budget, Owned
  <2> QED BY <1>a, <2>1, TendedElsewhere
<1>3. CASE ~Batched(d)
  <2>1. /\ task[d][k].attempt \in 1 .. limit /\ limit > 0 /\ rec[d].attempts <= limit
        /\ rec[d].status = "retrying" => rec[d].attempts < limit
        /\ task[d][k].step \in {"sending", "delivered", "rejected", "failed"} =>
              rec[d].attempts = task[d][k].attempt
        /\ task[d][k].step = "sleeping" => task[d][k].attempt < limit
    BY <1>a, <1>1, <1>3 DEF Budget
  <2>2. SUFFICES /\ rec'[d].attempts <= limit
                 /\ rec'[d].status = "retrying" => rec'[d].attempts < limit
                 /\ task'[d][k].step # "idle" => task'[d][k].attempt \in 1 .. limit
                 /\ task'[d][k].step \in {"sending", "delivered", "rejected", "failed"} =>
                       rec'[d].attempts = task'[d][k].attempt
                 /\ task'[d][k].step = "sleeping" => task'[d][k].attempt < limit
                 /\ \/ task'[d][k].step # "idle"
                    \/ ~Live(d)'
                    \/ ReceiverOf[d] \notin configured
    <3>1. Budget(d)'
      BY <1>a, <1>b, <1>1, <2>1, <2>2 DEF Budget
    <3>2. Owned(d)'
      BY <1>a, <1>1, <2>2 DEF Owned, Busy
    <3> QED BY <1>a, <3>1, <3>2, TendedElsewhere
  <2>3. CASE Continues(d, k)
    BY <1>b, <2>1, <2>3 DEF Continues
  <2>4. CASE Stops(d, k)
    BY <1>b, <2>1, <2>4 DEF Stops
  <2>5. CASE Tries(d, k)
    BY <1>b, <2>1, <2>5 DEF Tries
  <2>6. CASE Requests(d, k)
    BY <1>b, <2>1, <2>6 DEF Requests
  <2>7. CASE Settles(d, k)
    BY <1>b, <2>1, <2>7 DEF Settles, Turned, Live, LiveStatus
  <2>8. CASE Retries(d, k)
    BY <1>b, <2>1, <2>8 DEF Retries, Turned
  <2> QED BY <2>3, <2>4, <2>5, <2>6, <2>7, <2>8 DEF TaskMoves
<1> QED BY <1>2, <1>3

LEMMA TendedByLife ==
    ASSUME ~LimitMayDrop, Tables, Tables', Divided, Tended,
           Stutters \/ Boots \/ Requeued \/ Listens \/ Ends
    PROVE  Tended'
<1>a. \A d \in Deliveries : Budget(d) /\ Owned(d) /\ next[d] \in Nat
  BY DEF Tended, Tables
<1>1. CASE Stutters
  BY <1>1 DEF Stutters, Tended, Budget, Owned, Busy, Live, Batched
<1>2. CASE Requeued
  <2>1. UNCHANGED <<rec, limit, configured, task, next, member>>
    BY <1>2 DEF Requeued, TasksRest, BatchesRest
  <2>2. \A d \in Deliveries : Budget(d)'
    BY <1>a, <2>1 DEF Budget, Live, Batched
  <2>3. \A d \in Deliveries : Owned(d)'
    BY <1>2, <2>1 DEF Owned, Requeued, Live, Batched
  <2> QED BY <2>2, <2>3 DEF Tended
<1>3. CASE Listens
  <2>1. UNCHANGED <<rec, limit, configured, task, next, member>> /\ phase = "spawning"
    BY <1>3 DEF Listens, TasksRest, BatchesRest
  <2>2. \A d \in Deliveries : Budget(d)'
    BY <1>a, <2>1 DEF Budget, Live, Batched
  <2>3. \A d \in Deliveries : Owned(d)'
    BY <1>a, <2>1 DEF Owned, Live, Batched, Busy
  <2> QED BY <2>2, <2>3 DEF Tended
<1>4. CASE Ends
  <2>1. /\ UNCHANGED <<rec, limit, member>> /\ phase' = "down"
        /\ \A d \in Deliveries : next'[d] = 0 /\ \A k \in Keys : task'[d][k].step = "idle"
    BY <1>4 DEF Ends
  <2>2. ASSUME NEW d \in Deliveries PROVE Budget(d)'
    <3>1. limit \in Nat
      BY BudgetTypes
    <3> QED BY <1>a, <2>1, <3>1 DEF Budget, Live, Batched
  <2>3. \A d \in Deliveries : Owned(d)'
    BY <2>1 DEF Owned
  <2> QED BY <2>2, <2>3 DEF Tended
<1>5. CASE Boots
  <2>1. /\ UNCHANGED <<task, next, member>> /\ phase = "down" /\ phase' = "recovering"
        /\ limit' >= limit
    BY <1>5 DEF Boots, TasksRest
  <2>2. ASSUME NEW d \in Deliveries PROVE Budget(d)'
    <3>1. /\ limit \in Nat /\ limit' \in Nat /\ limit' > 0 /\ rec[d].attempts \in Nat
          /\ next[d] = 0
      BY <2>1, BudgetTypes, ConstantTypes DEF Tables, Divided, AtWork
    <3>2. \A k \in Keys : task[d][k].step = "idle"
      BY <2>1 DEF Divided, AtWork, Busy
    <3>3. /\ rec'[d].attempts = rec[d].attempts
          /\ rec'[d].status \in {"queued", rec[d].status}
      BY <1>5 DEF Boots, Turned
    <3> QED BY <1>a, <2>1, <3>1, <3>2, <3>3 DEF Budget, Batched
  <2>3. \A d \in Deliveries : Owned(d)'
    BY <2>1 DEF Owned
  <2> QED BY <2>2, <2>3 DEF Tended
<1> QED BY <1>1, <1>2, <1>3, <1>4, <1>5

LEMMA TendedByBatches ==
    ASSUME Tables, Divided, WorkerIsReal, Tended, NEW b \in Batches,
           \/ \E d \in Deliveries : Joins(d, b)
           \/ Claims(b)
           \/ Sends
           \/ \E status \in {"retrying"} \cup TerminalStatus : Records(status)
    PROVE  Tended'
<1>1. TasksRest /\ UNCHANGED <<phase, limit, configured>>
  BY DEF Joins, Claims, Sends, Records, Running
<1>2. ASSUME NEW d \in Deliveries PROVE Budget(d)' /\ Owned(d)'
  <2>1. Batched(d)' \/ (rec'[d] = rec[d] /\ member'[d] = member[d])
    BY ConstantTypes DEF Joins, Claims, Sends, Records, MembersOf, Batched, WorkerIsReal
  <2>2. Budget(d) /\ Owned(d)
    BY DEF Tended
  <2> QED BY <1>1, <2>1, <2>2 DEF TasksRest, Budget, Owned, Batched, Busy, Live
<1> QED BY <1>2 DEF Tended

LEMMA TendedStep ==
    ASSUME ~ReplayLive, ~LimitMayDrop, Tables, Tables', WorkerIsReal, Divided, Tended, Moves
    PROVE  Tended'
<1>1. ASSUME NEW d \in Deliveries,
             \/ Requeues(d) \/ Restarts(d) \/ Inserts(d)
             \/ \E k \in Keys : Replays(d, k) \/ TaskMoves(d, k)
             \/ \E b \in Batches : Joins(d, b)
      PROVE  Tended'
  BY <1>1, ConstantTypes, TendedByStartup, TendedByRequest, TendedByTask, TendedByBatches
<1>2. CASE Stutters \/ Boots \/ Requeued \/ Listens \/ Ends
  BY <1>2, TendedByLife
<1>3. CASE Sends
  <2>1. worker.batch \in Batches
    BY <1>3 DEF Sends, WorkerIsReal
  <2> QED BY <1>3, <2>1, TendedByBatches
<1>4. ASSUME NEW b \in Batches, Claims(b) PROVE Tended'
  BY <1>4, TendedByBatches
<1>5. ASSUME NEW status \in {"retrying"} \cup TerminalStatus, Records(status) PROVE Tended'
  <2>1. worker.batch \in Batches
    BY <1>5 DEF Records, WorkerIsReal
  <2> QED BY <1>5, <2>1, TendedByBatches
<1> QED BY <1>1, <1>2, <1>3, <1>4, <1>5 DEF Moves

LEMMA TendedAtFirst == Init => Tended
BY ConstantTypes
DEF Init, RecordsInit, Queue!QueueInit, Tended, Budget, Owned, Live, LiveStatus,
    Queue!NoTasks, Queue!NoTask, Queue!Keys, Keys, Queue!Deliveries, Deliveries

LEMMA TendedAlways ==
    ASSUME ~ReplayLive, ~LimitMayDrop PROVE Spec => [](Tables /\ Divided /\ Tended)
<1>1. /\ Tables /\ WorkerIsReal /\ Divided /\ Tended /\ [Next]_vars
      => Tables' /\ WorkerIsReal' /\ Divided' /\ Tended'
  BY Steps, DividedStep, TendedStep
<1> QED BY <1>1, TablesAtFirst, DividedAtFirst, TendedAtFirst, PTL DEF Spec

(* In careful operation the server, once up, leaves no row without a       *)
(* verdict to itself, except a member of a batch that an operator has      *)
(* replayed: recover_deliveries passes over every row of a batch.          *)
THEOREM OnlyReplayedMembersOrphaned == Spec => []OrphansAreReplayedMembers
<1>1. CASE Queue!Careful
  <2>1. ~ReplayLive /\ ~LimitMayDrop
    BY <1>1 DEF Queue!Careful
  <2>2. ASSUME Tables, Divided, Tended PROVE OrphansAreReplayedMembers
    <3>1. SUFFICES ASSUME NEW d \in Deliveries, phase = "up", Live(d),
                          ReceiverOf[d] \in configured, ~(Batched(d) /\ replays[d] > 0)
                   PROVE  Queue!Busy(d) \/ BatchIsActive(d)
      BY DEF OrphansAreReplayedMembers
    <3>2. OneWay(d) /\ Owned(d) /\ next[d] = 0 /\ replays[d] \in Nat
      BY <2>2, <3>1, ConstantTypes DEF Divided, Tended, AtWork, Tables
    <3>3. CASE Batched(d)
      <4>1. replays[d] = 0
        BY <3>1, <3>2, <3>3
      <4> QED BY <3>1, <3>2, <3>3, <4>1, StatusSets DEF OneWay, Follows
    <3>4. CASE ~Batched(d)
      BY <3>1, <3>2, <3>4, BusyRows DEF Owned
    <3> QED BY <3>3, <3>4
  <2>3. Tables /\ Divided /\ Tended => OrphansAreReplayedMembers
    BY <2>2
  <2> QED BY <2>1, <2>3, TendedAlways, PTL
<1>2. CASE ~Queue!Careful
  <2>1. OrphansAreReplayedMembers
    BY <1>2 DEF OrphansAreReplayedMembers
  <2> QED BY <2>1, PTL
<1> QED BY <1>1, <1>2
----------------------------------------------------------------------------
(* What the receivers have taken.                                          *)

(* The rounds taken are rounds that have begun; an answer that a request   *)
(* was delivered is the receiver's.                                        *)
Receipts(d) ==
    /\ \A k \in accepted[d] : k <= replays[d]
    /\ \A k \in Keys : task[d][k].step = "delivered" => replays[d] \in accepted[d]

WorkerReceipt ==
    worker.step # "idle" =>
        /\ worker.content = MembersOf(worker.batch)
        /\ worker.step = "delivered" => worker.content \subseteq taken

Acknowledged == WorkerReceipt /\ \A d \in Deliveries : Receipts(d)

LEMMA ReceiptsOfTasks ==
    ASSUME Tables, Divided, ~ReplayLive, NEW d \in Deliveries, Receipts(d),
           \/ Requeues(d) \/ Restarts(d) \/ Inserts(d)
           \/ \E k \in Keys : Replays(d, k) \/ TaskMoves(d, k)
    PROVE  Receipts(d)' /\ OnlyRow(d)
<1>a. /\ replays[d] \in Nat /\ accepted[d] \subseteq Nat
  <2>1. replays[d] \in Keys /\ accepted[d] \subseteq Keys
    BY DEF Tables
  <2> QED BY <2>1, ConstantTypes
<1>1. CASE Requeues(d) \/ Restarts(d) \/ Inserts(d)
  BY <1>1 DEF Requeues, Restarts, Inserts, Receipts
<1>2. ASSUME NEW k \in Keys, Replays(d, k) PROVE Receipts(d)' /\ OnlyRow(d)
  <2>1. ~Busy(d)
    BY <1>2 DEF Replays, Divided, OneWay, SoleTask, Live, LiveStatus, Terminal, TerminalStatus
  <2>2. /\ replays'[d] = replays[d] + 1 /\ accepted'[d] = accepted[d] /\ OnlyRow(d)
        /\ \A j \in Keys : task'[d][j].step # "delivered"
    BY <1>2, <2>1 DEF Replays, Busy
  <2>3. \A j \in accepted'[d] : j <= replays'[d]
    BY <1>a, <2>2 DEF Receipts
  <2> QED BY <2>2, <2>3 DEF Receipts
<1>3. ASSUME NEW k \in Keys, TaskMoves(d, k) PROVE Receipts(d)' /\ OnlyRow(d)
  <2>1. /\ replays'[d] = replays[d] /\ OnlyRow(d)
        /\ \A j \in Keys \ {k} : task'[d][j] = task[d][j]
    BY <1>3 DEF TaskMoves, Works
  <2>2. /\ accepted'[d] \in {accepted[d], accepted[d] \cup {replays[d]}}
        /\ task'[d][k].step = "delivered" => replays[d] \in accepted'[d]
    BY <1>3 DEF TaskMoves, Continues, Stops, Tries, Requests, Settles, Retries
  <2>3. \A j \in accepted'[d] : j <= replays[d]
    BY <1>a, <2>2 DEF Receipts
  <2> QED BY <2>1, <2>2, <2>3 DEF Receipts
<1> QED BY <1>1, <1>2, <1>3 DEF Requeues, Restarts, Inserts

LEMMA AcknowledgedStep ==
    ASSUME ~ReplayLive, Tables, WorkerIsReal, Divided, Acknowledged, Moves
    PROVE  Acknowledged'
<1>a. WorkerReceipt /\ \A d \in Deliveries : Receipts(d)
  BY DEF Acknowledged
<1>1. ASSUME NEW d \in Deliveries,
             \/ Requeues(d) \/ Restarts(d) \/ Inserts(d)
             \/ \E k \in Keys : Replays(d, k) \/ TaskMoves(d, k)
      PROVE  Acknowledged'
  <2>1. Receipts(d)' /\ OnlyRow(d)
    BY <1>1, <1>a, ReceiptsOfTasks
  <2>2. \A e \in Deliveries \ {d} : Receipts(e)'
    BY <1>a, <2>1 DEF OnlyRow, Untouched, Receipts
  <2>3. WorkerReceipt'
    BY <1>a, <2>1 DEF OnlyRow, BatchesRest, WorkerReceipt, MembersOf
  <2> QED BY <2>1, <2>2, <2>3 DEF Acknowledged
<1>2. CASE Stutters \/ Requeued \/ Listens
  <2>1. UNCHANGED <<task, replays, accepted, member, worker, taken>>
    BY <1>2 DEF Stutters, Requeued, Listens, TasksRest, BatchesRest
  <2> QED BY <1>a, <2>1 DEF Acknowledged, WorkerReceipt, Receipts, MembersOf
<1>3. CASE Boots
  <2>1. UNCHANGED <<task, replays, accepted, member, worker, taken>>
    BY <1>3 DEF Boots, TasksRest
  <2> QED BY <1>a, <2>1 DEF Acknowledged, WorkerReceipt, Receipts, MembersOf
<1>4. CASE Ends
  <2>1. /\ UNCHANGED <<replays, accepted>> /\ worker'.step = "idle"
        /\ \A d \in Deliveries : \A k \in Keys : task'[d][k].step = "idle"
    BY <1>4 DEF Ends
  <2> QED BY <1>a, <2>1 DEF Acknowledged, WorkerReceipt, Receipts
<1>5. ASSUME NEW d \in Deliveries, NEW b \in Batches, Joins(d, b) PROVE Acknowledged'
  <2>1. /\ TasksRest /\ UNCHANGED <<worker, taken>>
        /\ batch[b].status \in {"none", "pending"} /\ member'[d].batch = b
        /\ \A e \in Deliveries \ {d} : member'[e] = member[e]
        /\ ~Batched(d)
    BY <1>5 DEF Joins, Divided, OneWay, Follows
  <2>2. \A e \in Deliveries : Receipts(e)'
    BY <1>a, <2>1 DEF TasksRest, Receipts
  <2>3. ASSUME worker.step # "idle" PROVE MembersOf(worker.batch)' = MembersOf(worker.batch)
    <3>1. worker.batch # b /\ worker.batch # 0
      BY <2>1, <2>3, ConstantTypes DEF Divided, HeldByWorker, WorkerIsReal
    <3> QED BY <2>1, <3>1 DEF MembersOf, Batched
  <2> QED BY <1>a, <2>1, <2>2, <2>3 DEF Acknowledged, WorkerReceipt
<1>6. ASSUME NEW b \in Batches, Claims(b) PROVE Acknowledged'
  <2>1. /\ TasksRest /\ UNCHANGED <<member, taken>> /\ worker'.step = "sending"
        /\ worker'.batch = b /\ worker'.content = MembersOf(b)
    BY <1>6 DEF Claims
  <2> QED BY <1>a, <2>1 DEF Acknowledged, WorkerReceipt, TasksRest, Receipts, MembersOf
<1>7. CASE Sends
  <2>1. /\ TasksRest /\ UNCHANGED member /\ worker.step # "idle"
        /\ worker'.batch = worker.batch /\ worker'.content = worker.content
        /\ worker'.step = "delivered" => worker.content \subseteq taken'
    BY <1>7 DEF Sends
  <2> QED BY <1>a, <2>1 DEF Acknowledged, WorkerReceipt, TasksRest, Receipts, MembersOf
<1>8. ASSUME NEW status \in {"retrying"} \cup TerminalStatus, Records(status)
      PROVE  Acknowledged'
  <2>1. TasksRest /\ worker'.step = "idle"
    BY <1>8 DEF Records
  <2> QED BY <1>a, <2>1 DEF Acknowledged, WorkerReceipt, TasksRest, Receipts
<1> QED BY <1>1, <1>2, <1>3, <1>4, <1>5, <1>6, <1>7, <1>8 DEF Moves
----------------------------------------------------------------------------
(* Refinement: batched and unbatched rows together keep the promise.       *)

Says(d) == Queue!PromiseOf(rec[d].status)
Received(d) == replays[d] \in accepted[d] \/ (replays[d] = 0 /\ d \in taken)

Said == [d \in Deliveries |-> Says(d)]
Got == [d \in Deliveries |-> Received(d)]

(* What each status says of its row.                                       *)
LEMMA PromiseValues ==
    /\ Queue!PromiseOf("none") = "none"
    /\ Queue!PromiseOf("queued") = "owed" /\ Queue!PromiseOf("delivering") = "owed"
    /\ Queue!PromiseOf("retrying") = "owed"
    /\ Queue!PromiseOf("succeeded") = "delivered"
    /\ Queue!PromiseOf("dead_letter") = "given_up"
    /\ \A d \in Deliveries : Live(d) => Says(d) = "owed"
    /\ \A d \in Deliveries : Live(d)' => Says(d)' = "owed"
BY DEF Queue!PromiseOf, Queue!LiveStatus, Live, LiveStatus, Says

LEMMA SaysTheSame ==
    ASSUME \A d \in Deliveries : Says(d)' = Says(d) /\ (Received(d)' <=> Received(d))
    PROVE  UNCHANGED <<Said, Got>>
<1>1. \A d \in Deliveries : Received(d)' = Received(d)
  BY DEF Received
<1> QED BY <1>1 DEF Said, Got

(* The steps of the promise, row by row.                                   *)
LEMMA PromiseSteps ==
    /\ \A d \in Deliveries :
          (/\ Says(d) = "none" /\ Says(d)' = "owed"
           /\ \A e \in Deliveries \ {d} : Says(e)' = Says(e)
           /\ \A e \in Deliveries : Received(e)' <=> Received(e))
          => Promise!Next
    /\ \A d \in Deliveries :
          (/\ Says(d) \in {"delivered", "given_up"} /\ Says(d)' = "owed" /\ ~Received(d)'
           /\ \A e \in Deliveries \ {d} :
                 Says(e)' = Says(e) /\ (Received(e)' <=> Received(e)))
          => Promise!Next
    /\ \A S \in SUBSET Deliveries :
          (/\ \A d \in S : Says(d) = "owed"
           /\ \A d \in Deliveries :
                 Says(d)' = Says(d) /\ (Received(d)' <=> Received(d) \/ d \in S))
          => Promise!Next
    /\ \A S \in SUBSET Deliveries, verdict \in {"delivered", "given_up"} :
          (/\ \A d \in S : Says(d) = "owed" /\ (verdict = "delivered" => Received(d))
           /\ \A d \in Deliveries :
                 /\ Says(d)' = IF d \in S THEN verdict ELSE Says(d)
                 /\ Received(d)' <=> Received(d))
          => Promise!Next
<1>a. /\ Said = [d \in Deliveries |-> Queue!PromiseOf(rec[d].status)]
      /\ Got = [d \in Deliveries |->
                   replays[d] \in accepted[d] \/ (replays[d] = 0 /\ d \in taken)]
  BY DEF Said, Got, Says, Received
<1>b. \A d \in Deliveries : Said[d] = Says(d) /\ Said'[d] = Says(d)' /\ (Got[d] <=> Received(d))
  BY DEF Said, Got
<1>1. ASSUME NEW d \in Deliveries, Says(d) = "none", Says(d)' = "owed",
             \A e \in Deliveries \ {d} : Says(e)' = Says(e),
             \A e \in Deliveries : Received(e)' <=> Received(e)
      PROVE  Promise!Next
  <2>1. \A e \in Deliveries : Received(e)' = Received(e)
    BY <1>1 DEF Received
  <2>2. UNCHANGED Got /\ Said' = [Said EXCEPT ![d] = "owed"] /\ Said[d] = "none"
    BY <1>1, <2>1 DEF Got, Said
  <2>3. Promise!Accept(d)
    BY <2>2 DEF Promise!Accept, Said, Got, Says, Received
  <2> QED BY <2>3 DEF Promise!Next
<1>2. ASSUME NEW d \in Deliveries, Says(d) \in {"delivered", "given_up"}, Says(d)' = "owed",
             ~Received(d)',
             \A e \in Deliveries \ {d} : Says(e)' = Says(e) /\ (Received(e)' <=> Received(e))
      PROVE  Promise!Next
  <2>1. \A e \in Deliveries : Received(e)' = (e # d /\ Got[e])
    BY <1>2, <1>b DEF Received
  <2>2. /\ Got' = [e \in Deliveries |-> e # d /\ Got[e]]
        /\ Said' = [Said EXCEPT ![d] = "owed"] /\ Said[d] \in {"delivered", "given_up"}
    BY <1>2, <2>1 DEF Got, Said
  <2>3. Promise!Replay(d)
    BY <2>2 DEF Promise!Replay, Said, Got, Says, Received
  <2> QED BY <2>3 DEF Promise!Next
<1>3. ASSUME NEW S \in SUBSET Deliveries, \A d \in S : Says(d) = "owed",
             \A d \in Deliveries :
                Says(d)' = Says(d) /\ (Received(d)' <=> Received(d) \/ d \in S)
      PROVE  Promise!Next
  <2>1. \A d \in Deliveries : Received(d)' = (Got[d] \/ d \in S)
    BY <1>3, <1>b DEF Received
  <2>2. /\ Got' = [d \in Deliveries |-> Got[d] \/ d \in S]
        /\ UNCHANGED Said /\ \A d \in S : Said[d] = "owed"
    BY <1>3, <2>1 DEF Got, Said
  <2>3. Promise!Receive(S)
    BY <2>2 DEF Promise!Receive, Said, Got, Says, Received
  <2> QED BY <2>3 DEF Promise!Next
<1>4. ASSUME NEW S \in SUBSET Deliveries, NEW verdict \in {"delivered", "given_up"},
             \A d \in S : Says(d) = "owed" /\ (verdict = "delivered" => Received(d)),
             \A d \in Deliveries :
                /\ Says(d)' = IF d \in S THEN verdict ELSE Says(d)
                /\ Received(d)' <=> Received(d)
      PROVE  Promise!Next
  <2>1. \A d \in Deliveries : Received(d)' = Received(d)
    BY <1>4 DEF Received
  <2>2. /\ UNCHANGED Got
        /\ Said' = [d \in Deliveries |-> IF d \in S THEN verdict ELSE Said[d]]
        /\ \A d \in S : Said[d] = "owed" /\ (verdict = "delivered" => Got[d])
    BY <1>4, <2>1 DEF Got, Said
  <2>3. Promise!Settle(S, verdict)
    BY <2>2 DEF Promise!Settle, Said, Got, Says, Received
  <2>4. verdict = "delivered" => Promise!Deliver(S)
    BY <2>2, <2>3 DEF Promise!Deliver, Said, Got, Says, Received
  <2>5. verdict = "given_up" => Promise!GiveUp(S)
    BY <2>3 DEF Promise!GiveUp
  <2> QED BY <2>4, <2>5 DEF Promise!Next
<1> QED BY <1>1, <1>2, <1>3, <1>4

(* A step on one row says and takes nothing about any other.               *)
LEMMA SaysElsewhere ==
    ASSUME NEW d \in Deliveries, OnlyRow(d)
    PROVE  \A e \in Deliveries \ {d} : Says(e)' = Says(e) /\ (Received(e)' <=> Received(e))
BY DEF OnlyRow, Untouched, BatchesRest, Says, Received

LEMMA PromiseOfStartup ==
    ASSUME NEW d \in Deliveries, Requeues(d) \/ Restarts(d), Tables, Divided
    PROVE  UNCHANGED <<Said, Got>>
<1>1. /\ OnlyRow(d) /\ replays'[d] = replays[d] /\ accepted'[d] = accepted[d]
      /\ UNCHANGED taken
      /\ rec'[d] = rec[d] \/ (Live(d) /\ Live(d)')
  BY DEF Requeues, Restarts, OnlyRow, BatchesRest, Turned, Live, LiveStatus
<1>2. Says(d)' = Says(d)
  BY <1>1, PromiseValues DEF Says
<1>3. Received(d)' <=> Received(d)
  BY <1>1 DEF Received
<1> QED BY <1>1, <1>2, <1>3, SaysElsewhere, SaysTheSame

LEMMA PromiseOfRequest ==
    ASSUME ~ReplayLive, Tables, Divided, Acknowledged, NEW d \in Deliveries, NEW k \in Keys,
           Inserts(d) \/ Replays(d, k)
    PROVE  Promise!Next
<1>a. OnlyRow(d) /\ UNCHANGED taken /\ accepted'[d] = accepted[d]
  BY DEF Inserts, Replays, OnlyRow, BatchesRest
<1>b. rec'[d].status = "queued" /\ Says(d)' = "owed"
  BY PromiseValues DEF Inserts, Replays, Turned, Says
<1>1. CASE Inserts(d)
  <2>1. Says(d) = "none"
    BY <1>1, PromiseValues DEF Inserts, Says
  <2>2. Received(d)' <=> Received(d)
    BY <1>1, <1>a DEF Inserts, Received
  <2> QED BY <1>a, <1>b, <2>1, <2>2, SaysElsewhere, PromiseSteps
<1>2. CASE Replays(d, k)
  <2>1. Says(d) \in {"delivered", "given_up"}
    BY <1>2, PromiseValues, StatusSets DEF Replays, Says
  <2>2. ~Received(d)'
    <3>1. replays[d] \in Nat /\ replays'[d] = replays[d] + 1
      BY <1>2, ConstantTypes DEF Replays, Tables
    <3>2. \A j \in accepted[d] : j <= replays[d]
      BY DEF Acknowledged, Receipts
    <3> QED BY <1>a, <3>1, <3>2 DEF Received
  <2> QED BY <1>a, <1>b, <2>1, <2>2, SaysElsewhere, PromiseSteps
<1> QED BY <1>1, <1>2

LEMMA PromiseOfTask ==
    ASSUME Tables, Divided, Acknowledged, NEW d \in Deliveries, NEW k \in Keys,
           TaskMoves(d, k)
    PROVE  Promise!Next \/ UNCHANGED <<Said, Got>>
<1>a. /\ OnlyRow(d) /\ UNCHANGED taken /\ replays'[d] = replays[d] /\ Busy(d)
      /\ {d} \in SUBSET Deliveries
  BY DEF TaskMoves, Works, OnlyRow, BatchesRest, Busy
<1>b. Live(d) /\ Says(d) = "owed"
  BY <1>a, PromiseValues DEF Divided, OneWay, SoleTask
<1>c. \A e \in Deliveries \ {d} : Says(e)' = Says(e) /\ (Received(e)' <=> Received(e))
  BY <1>a, SaysElsewhere
<1>1. ASSUME accepted'[d] = accepted[d], Live(d)' PROVE UNCHANGED <<Said, Got>>
  <2>1. Says(d)' = Says(d) /\ (Received(d)' <=> Received(d))
    BY <1>1, <1>a, <1>b, PromiseValues DEF Received
  <2> QED BY <1>c, <2>1, SaysTheSame
<1>2. CASE Continues(d, k) \/ Stops(d, k)
  BY <1>1, <1>2, <1>b DEF Continues, Stops, Live
<1>3. CASE Tries(d, k) \/ Retries(d, k)
  BY <1>1, <1>3 DEF Tries, Retries, Turned, Live, LiveStatus
<1>4. CASE Requests(d, k)
  <2>1. /\ Says(d)' = Says(d)
        /\ accepted'[d] = accepted[d] \/ accepted'[d] = accepted[d] \cup {replays[d]}
    BY <1>4 DEF Requests, Says
  <2>2. CASE accepted'[d] = accepted[d]
    <3>1. Received(d)' <=> Received(d)
      BY <1>a, <2>2 DEF Received
    <3> QED BY <1>c, <2>1, <3>1, SaysTheSame
  <2>3. CASE accepted'[d] = accepted[d] \cup {replays[d]}
    <3>1. Received(d)'
      BY <1>a, <2>3 DEF Received
    <3> QED BY <1>a, <1>b, <1>c, <2>1, <3>1, PromiseSteps
  <2> QED BY <2>1, <2>2, <2>3
<1>5. CASE Settles(d, k)
  <2>1. Received(d)' <=> Received(d)
    BY <1>5, <1>a DEF Settles, Received
  <2>2. CASE rec'[d].status = "succeeded" /\ task[d][k].step = "delivered"
    <3>1. Received(d)
      BY <2>2 DEF Acknowledged, Receipts, Received
    <3>2. Says(d)' = "delivered"
      BY <2>2, PromiseValues DEF Says
    <3> QED BY <1>a, <1>b, <1>c, <2>1, <3>1, <3>2, PromiseSteps
  <2>3. CASE rec'[d].status = "dead_letter"
    <3>1. Says(d)' = "given_up"
      BY <2>3, PromiseValues DEF Says
    <3> QED BY <1>a, <1>b, <1>c, <2>1, <3>1, PromiseSteps
  <2> QED BY <1>5, <2>2, <2>3 DEF Settles, Turned
<1> QED BY <1>2, <1>3, <1>4, <1>5 DEF TaskMoves

LEMMA PromiseOfLife ==
    ASSUME Tables, Divided, Stutters \/ Boots \/ Requeued \/ Listens \/ Ends
    PROVE  UNCHANGED <<Said, Got>>
<1>1. UNCHANGED <<replays, accepted, taken>>
  BY DEF Stutters, Boots, Requeued, Listens, Ends, TasksRest, BatchesRest
<1>2. ASSUME NEW d \in Deliveries PROVE Says(d)' = Says(d)
  <2>1. rec'[d] = rec[d] \/ (Live(d) /\ Live(d)')
    BY DEF Stutters, Boots, Requeued, Listens, Ends, Turned, Live, LiveStatus
  <2> QED BY <2>1, PromiseValues DEF Says
<1>3. \A d \in Deliveries : Received(d)' <=> Received(d)
  BY <1>1 DEF Received
<1> QED BY <1>2, <1>3, SaysTheSame

LEMMA PromiseOfBatches ==
    ASSUME Tables, Divided, WorkerIsReal, Acknowledged, NEW b \in Batches,
           \/ \E d \in Deliveries : Joins(d, b)
           \/ Claims(b)
           \/ Sends
           \/ \E status \in {"retrying"} \cup TerminalStatus : Records(status)
    PROVE  Promise!Next \/ UNCHANGED <<Said, Got>>
<1>1. ASSUME NEW d \in Deliveries, Joins(d, b) PROVE Promise!Next
  <2>1. \A e \in Deliveries : Received(e)' <=> Received(e)
    BY <1>1 DEF Joins, TasksRest, Received
  <2>2. Says(d) = "none" /\ Says(d)' = "owed"
    BY <1>1, PromiseValues DEF Joins, Says
  <2>3. \A e \in Deliveries \ {d} : Says(e)' = Says(e)
    BY <1>1 DEF Joins, Says
  <2> QED BY <2>1, <2>2, <2>3, PromiseSteps
<1>2. CASE Claims(b)
  <2>1. \A d \in Deliveries : Received(d)' <=> Received(d)
    BY <1>2 DEF Claims, TasksRest, Received
  <2>2. ASSUME NEW d \in Deliveries PROVE Says(d)' = Says(d)
    <3>1. rec'[d] = rec[d] \/ (Live(d) /\ Live(d)')
      BY <1>2, MembersRest DEF Claims, MembersOf, Live, LiveStatus
    <3> QED BY <3>1, PromiseValues DEF Says
  <2> QED BY <2>1, <2>2, SaysTheSame
<1>3. ASSUME worker.step # "idle"
      PROVE  /\ worker.batch \in Batches /\ worker.content \in SUBSET Deliveries
             /\ worker.content = MembersOf(worker.batch)
             /\ \A d \in worker.content : Live(d) /\ Says(d) = "owed" /\ replays[d] = 0
  <2>1. /\ worker.batch \in Batches /\ worker.content = MembersOf(worker.batch)
        /\ batch[worker.batch].status = "delivering"
    BY <1>3 DEF WorkerIsReal, Acknowledged, WorkerReceipt, Divided, HeldByWorker
  <2>2. \A d \in worker.content : Live(d) /\ replays[d] = 0 /\ d \in Deliveries
    BY <2>1, MembersRest DEF MembersOf
  <2> QED BY <2>1, <2>2, PromiseValues
<1>4. CASE Sends
  <2>1. /\ UNCHANGED <<rec, replays, accepted>> /\ worker.step # "idle"
        /\ taken' = taken \/ taken' = taken \cup worker.content
    BY <1>4 DEF Sends, TasksRest
  <2>2. \A d \in Deliveries : Says(d)' = Says(d)
    BY <2>1 DEF Says
  <2>3. CASE taken' = taken
    <3>1. \A d \in Deliveries : Received(d)' <=> Received(d)
      BY <2>1, <2>3 DEF Received
    <3> QED BY <2>2, <3>1, SaysTheSame
  <2>4. CASE taken' = taken \cup worker.content
    <3>1. \A d \in Deliveries : Received(d)' <=> Received(d) \/ d \in worker.content
      BY <1>3, <2>1, <2>4 DEF Received
    <3> QED BY <1>3, <2>1, <2>2, <3>1, PromiseSteps
  <2> QED BY <2>1, <2>3, <2>4
<1>5. ASSUME NEW status \in {"retrying"} \cup TerminalStatus, Records(status)
      PROVE  Promise!Next \/ UNCHANGED <<Said, Got>>
  <2>1. /\ UNCHANGED <<replays, accepted, taken>> /\ worker.step # "idle"
        /\ status = "succeeded" => worker.step = "delivered"
    BY <1>5 DEF Records, TasksRest
  <2>2. \A d \in Deliveries : Received(d)' <=> Received(d)
    BY <2>1 DEF Received
  <2>3. \A d \in Deliveries :
           Says(d)' = IF d \in worker.content THEN Queue!PromiseOf(status) ELSE Says(d)
    BY <1>3, <1>5, <2>1 DEF Records, Turned, Says
  <2>4. CASE status = "retrying"
    <3>1. \A d \in Deliveries : Says(d)' = Says(d)
      BY <1>3, <2>1, <2>3, <2>4, PromiseValues
    <3> QED BY <2>2, <3>1, SaysTheSame
  <2>5. CASE status = "succeeded"
    <3>1. \A d \in worker.content : Received(d)
      BY <1>3, <2>1, <2>5 DEF Acknowledged, WorkerReceipt, Received
    <3> QED BY <1>3, <2>1, <2>2, <2>3, <2>5, <3>1, PromiseValues, PromiseSteps
  <2>6. CASE status = "dead_letter"
    BY <1>3, <2>1, <2>2, <2>3, <2>6, PromiseValues, PromiseSteps
  <2> QED BY <2>4, <2>5, <2>6 DEF TerminalStatus
<1> QED BY <1>1, <1>2, <1>4, <1>5

(* Each step of the system is one of the promise, or none.                 *)
LEMMA PromiseStep ==
    ASSUME ~ReplayLive, Tables, WorkerIsReal, Divided, Acknowledged, Moves
    PROVE  Promise!Next \/ UNCHANGED <<Said, Got>>
<1>1. ASSUME NEW d \in Deliveries,
             \/ Requeues(d) \/ Restarts(d) \/ Inserts(d)
             \/ \E k \in Keys : Replays(d, k) \/ TaskMoves(d, k)
             \/ \E b \in Batches : Joins(d, b)
      PROVE  Promise!Next \/ UNCHANGED <<Said, Got>>
  BY <1>1, ConstantTypes, PromiseOfStartup, PromiseOfRequest, PromiseOfTask, PromiseOfBatches
<1>2. CASE Stutters \/ Boots \/ Requeued \/ Listens \/ Ends
  BY <1>2, PromiseOfLife
<1>3. CASE Sends
  <2>1. worker.batch \in Batches
    BY <1>3 DEF Sends, WorkerIsReal
  <2> QED BY <1>3, <2>1, PromiseOfBatches
<1>4. ASSUME NEW b \in Batches, Claims(b) PROVE Promise!Next \/ UNCHANGED <<Said, Got>>
  BY <1>4, PromiseOfBatches
<1>5. ASSUME NEW status \in {"retrying"} \cup TerminalStatus, Records(status)
      PROVE  Promise!Next \/ UNCHANGED <<Said, Got>>
  <2>1. worker.batch \in Batches
    BY <1>5 DEF Records, WorkerIsReal
  <2> QED BY <1>5, <2>1, PromiseOfBatches
<1> QED BY <1>1, <1>2, <1>3, <1>4, <1>5 DEF Moves

(* The whole delivery side keeps the promise of DeliveryPromise to every   *)
(* delivery, batched or not, through crashes, restarts and replays of      *)
(* settled rows: what is said delivered in a round has been taken in that  *)
(* round, and nothing is sent for a settled row.                           *)
THEOREM SystemKeepsPromise == ASSUME ~ReplayLive PROVE Spec => PromiseKept
<1>1. Init => Promise!Init
  <2> SUFFICES ASSUME Init PROVE Promise!Init
    OBVIOUS
  <2>1. \A d \in Deliveries : Queue!PromiseOf(rec[d].status) = "none"
    BY PromiseValues DEF Init, RecordsInit
  <2>2. \A d \in Deliveries :
           (replays[d] \in accepted[d] \/ (replays[d] = 0 /\ d \in taken)) = FALSE
    BY DEF Init, Queue!QueueInit, Batching!BatchInit, Queue!Deliveries, Deliveries
  <2> QED BY <2>1, <2>2 DEF Promise!Init
<1>2. Init => Acknowledged
  BY ConstantTypes
  DEF Init, Queue!QueueInit, Batching!BatchInit, Acknowledged, WorkerReceipt, Receipts,
      Batching!Idle, Queue!NoTasks, Queue!NoTask, Queue!Keys, Keys, Queue!Deliveries,
      Deliveries
<1>3. /\ Tables /\ WorkerIsReal /\ Divided /\ Acknowledged /\ [Next]_vars
      => Acknowledged' /\ [Promise!Next]_(Promise!vars)
  BY Steps, AcknowledgedStep, PromiseStep DEF Promise!vars, Said, Got, Says, Received
<1> QED
  BY <1>1, <1>2, <1>3, DividedAlways, PTL DEF Spec, PromiseKept, Promise!Spec
==============================================================================
