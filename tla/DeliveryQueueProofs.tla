------------------------ MODULE DeliveryQueueProofs ------------------------
(***************************************************************************)
(* Proofs about DeliveryQueue, for any number of rows, replays and         *)
(* crashes, any receivers and any attempt limits.                          *)
(***************************************************************************)
EXTENDS DeliveryQueue, TLAPS


----------------------------------------------------------------------------
(* The updates of task keep its type.                                      *)
LEMMA TaskTypes ==
    ASSUME task \in [Deliveries -> [Keys -> [step : Steps, attempt : Nat]]],
           NEW d \in Deliveries, NEW k \in Keys
    PROVE  /\ \A step \in Steps : GoTo(d, k, step) =>
                 task' \in [Deliveries -> [Keys -> [step : Steps, attempt : Nat]]]
           /\ \A t \in [step : Steps, attempt : Nat] : task' = [task EXCEPT ![d][k] = t] =>
                 task' \in [Deliveries -> [Keys -> [step : Steps, attempt : Nat]]]
<1>1. ASSUME NEW t \in [step : Steps, attempt : Nat]
      PROVE  [task EXCEPT ![d][k] = t]
                \in [Deliveries -> [Keys -> [step : Steps, attempt : Nat]]]
  <2>1. [task[d] EXCEPT ![k] = t] \in [Keys -> [step : Steps, attempt : Nat]]
    OBVIOUS
  <2> QED BY <2>1
<1>2. ASSUME NEW step \in Steps, GoTo(d, k, step)
      PROVE  task' \in [Deliveries -> [Keys -> [step : Steps, attempt : Nat]]]
  <2>1. task[d][k] \in [step : Steps, attempt : Nat]
    OBVIOUS
  <2>2. [task[d][k] EXCEPT !.step = step] = [step |-> step, attempt |-> task[d][k].attempt]
    BY <2>1
  <2>3. [step |-> step, attempt |-> task[d][k].attempt] \in [step : Steps, attempt : Nat]
    BY <2>1
  <2>4. task' = [task EXCEPT ![d][k] = [step |-> step, attempt |-> task[d][k].attempt]]
    BY <1>2, <2>2 DEF GoTo
  <2> QED BY <2>3, <2>4, <1>1
<1> QED BY <1>1, <1>2

(* The row updates of the storage methods keep its type.                   *)
LEMMA RowTypes ==
    ASSUME rec \in [Deliveries -> Row], NEW d \in Deliveries
    PROVE  /\ \A attempt \in Nat : MarkAttempt(d, attempt) => rec' \in [Deliveries -> Row]
           /\ MarkSucceeded(d) => rec' \in [Deliveries -> Row]
           /\ MarkRetrying(d) => rec' \in [Deliveries -> Row]
           /\ MarkDeadLetter(d) => rec' \in [Deliveries -> Row]
           /\ RequeueRow(d) => rec' \in [Deliveries -> Row]
           /\ InsertRow(d) => rec' \in [Deliveries -> Row]
<1>1. rec[d] \in Row
  OBVIOUS
<1>2. \A s \in LiveStatus \cup TerminalStatus :
         [rec[d] EXCEPT !.status = s] \in Row
  BY <1>1 DEF Row
<1>3. \A s \in LiveStatus, a \in Nat : [status |-> s, attempts |-> a] \in Row
  BY DEF Row
<1>4. \A row \in Row : [rec EXCEPT ![d] = row] \in [Deliveries -> Row]
  OBVIOUS
<1> QED
  BY <1>2, <1>3, <1>4
  DEF MarkAttempt, MarkSucceeded, MarkRetrying, MarkDeadLetter, RequeueRow, InsertRow,
      UpdateRow, LiveStatus, TerminalStatus

(* Every variable keeps its type.                                          *)
THEOREM TypeCorrect == Spec => []TypeOK
<1>1. Init => TypeOK
  BY RecordsAssumption, QueueAssumption
  DEF Init, RecordsInit, QueueInit, TypeOK, RecordsTypeOK, QueueTypeOK, NoTasks, NoTask,
      Row, Phases, Steps, Keys, LiveStatus, TerminalStatus
<1>2. TypeOK /\ [Next]_vars => TypeOK'
  <2> SUFFICES ASSUME TypeOK, [Next]_vars PROVE TypeOK'
    OBVIOUS
  <2> USE DEF TypeOK, RecordsTypeOK, QueueTypeOK, queueVars, recordVars, Phases
  <2>1. CASE UNCHANGED vars
    BY <2>1 DEF vars
  <2>2. ASSUME Boot, UNCHANGED <<rec, queueVars>> PROVE TypeOK'
    BY <2>2, RecordsAssumption DEF Boot
  <2>3. ASSUME NEW d \in Deliveries, RecoverRow(d, Recoverable) PROVE TypeOK'
    <3>1. RecoveredAttempt(d) \in Nat
      BY DEF RecoveredAttempt, Row
    <3> QED BY <2>3, <3>1, RowTypes DEF RecoverRow
  <2>4. ASSUME RecoveryDone(Recoverable) PROVE TypeOK'
    BY <2>4 DEF RecoveryDone
  <2>5. ASSUME NEW d \in Deliveries, SpawnRecovered(d) PROVE TypeOK'
    <3>1. 0 \in Keys /\ [step |-> "attempting", attempt |-> next[d]] \in [step : Steps, attempt : Nat]
      BY QueueAssumption DEF Keys, Steps
    <3> QED BY <2>5, <3>1, TaskTypes DEF SpawnRecovered
  <2>6. ASSUME ProcessEnds, TasksDie PROVE TypeOK'
    BY <2>6, RecordsAssumption DEF ProcessEnds, TasksDie, NoTasks, NoTask, Steps
  <2>7. ASSUME Listen PROVE TypeOK'
    BY <2>7 DEF Listen
  <2>8. ASSUME NEW d \in Deliveries, Enqueue(d) PROVE TypeOK'
    <3>1. 0 \in Keys /\ [step |-> "queueing", attempt |-> 1] \in [step : Steps, attempt : Nat]
      BY QueueAssumption DEF Keys, Steps
    <3> QED BY <2>8, <3>1, TaskTypes, RowTypes DEF Enqueue
  <2>9. ASSUME NEW d \in Deliveries, Replay(d) PROVE TypeOK'
    <3>1. replays[d] + 1 \in Keys
      BY <2>9, QueueAssumption DEF Replay, Keys
    <3>2. [step |-> "replaying", attempt |-> 1] \in [step : Steps, attempt : Nat]
      BY DEF Steps
    <3>3. task' \in [Deliveries -> [Keys -> [step : Steps, attempt : Nat]]]
      BY <2>9, <3>1, <3>2, TaskTypes DEF Replay
    <3> QED BY <2>9, <3>1, <3>3, RowTypes DEF Replay
  <2>10. ASSUME NEW d \in Deliveries, NEW k \in Keys, Worker(d, k) PROVE TypeOK'
    <3>a. /\ \A step \in Steps : GoTo(d, k, step) =>
                 task' \in [Deliveries -> [Keys -> [step : Steps, attempt : Nat]]]
          /\ \A t \in [step : Steps, attempt : Nat] : task' = [task EXCEPT ![d][k] = t] =>
                 task' \in [Deliveries -> [Keys -> [step : Steps, attempt : Nat]]]
      BY TaskTypes
    <3>b. NoTask \in [step : Steps, attempt : Nat]
      BY DEF NoTask, Steps
    <3>c. {"attempting", "sending", "sleeping", "delivered", "rejected", "failed"} \subseteq Steps
      BY DEF Steps
    <3>d. task[d][k].attempt \in Nat
      OBVIOUS
    <3> USE <3>a, <3>b, <3>c, <3>d DEF Finish
    <3>1. CASE Spawn(d, k)
      BY <3>1 DEF Spawn
    <3>2. CASE Attempt(d, k)
      BY <3>2, RowTypes DEF Attempt
    <3>3. CASE LoopIsEmpty(d, k)
      BY <3>3 DEF LoopIsEmpty
    <3>4. CASE Send(d, k)
      BY <3>4 DEF Send
    <3>5. CASE RecordSuccess(d, k)
      BY <3>5, RowTypes DEF RecordSuccess
    <3>6. CASE RecordDeadLetter(d, k)
      BY <3>6, RowTypes DEF RecordDeadLetter
    <3>7. CASE RecordRetry(d, k)
      BY <3>7, RowTypes DEF RecordRetry
    <3>8. CASE Wake(d, k)
      BY <3>8 DEF Wake
    <3> QED BY <2>10, <3>1, <3>2, <3>3, <3>4, <3>5, <3>6, <3>7, <3>8 DEF Worker
  <2>11. ASSUME NEW d \in Deliveries, NEW k \in Keys, AbortSpawn(d, k) PROVE TypeOK'
    BY <2>11 DEF AbortSpawn, Finish, NoTask, Steps
  <2>12. ASSUME Quiet PROVE TypeOK'
    BY <2>12 DEF Quiet, vars
  <2> QED
    BY <2>1, <2>2, <2>3, <2>4, <2>5, <2>6, <2>7, <2>8, <2>9, <2>10, <2>11, <2>12
    DEF Next, Startup, RefuseToStart, Crash
<1>3. QED
  BY <1>1, <1>2, PTL DEF Spec
----------------------------------------------------------------------------
(* What a worker step, or a handler's failure to spawn, may touch: its own *)
(* task and its own row, which it leaves live unless the task ends.        *)
LEMMA WorkerFrame ==
    ASSUME TypeOK, NEW d \in Deliveries, NEW k \in Keys,
           Worker(d, k) \/ AbortSpawn(d, k)
    PROVE  /\ UNCHANGED <<phase, limit, configured, next, replays>>
           /\ ~At(d, k, "idle")
           /\ \A e \in Deliveries \ {d} : rec'[e] = rec[e] /\ task'[e] = task[e]
           /\ \A j \in Keys \ {k} : task'[d][j] = task[d][j]
           /\ \/ rec'[d] = rec[d]
              \/ rec'[d].status \in LiveStatus
              \/ task'[d][k].step = "idle"
<1> USE DEF TypeOK, RecordsTypeOK, QueueTypeOK, recordVars, At, GoTo, Finish, NoTask
<1>1. CASE Spawn(d, k)
  BY <1>1 DEF Spawn
<1>2. CASE Attempt(d, k)
  BY <1>2 DEF Attempt, MarkAttempt, UpdateRow, LiveStatus
<1>3. CASE LoopIsEmpty(d, k)
  BY <1>3 DEF LoopIsEmpty
<1>4. CASE Send(d, k)
  BY <1>4 DEF Send
<1>5. CASE RecordSuccess(d, k)
  BY <1>5 DEF RecordSuccess, MarkSucceeded, UpdateRow
<1>6. CASE RecordDeadLetter(d, k)
  BY <1>6 DEF RecordDeadLetter, MarkDeadLetter, UpdateRow
<1>7. CASE RecordRetry(d, k)
  BY <1>7 DEF RecordRetry, MarkRetrying, UpdateRow, LiveStatus, Row
<1>8. CASE Wake(d, k)
  BY <1>8 DEF Wake
<1>9. CASE AbortSpawn(d, k)
  BY <1>9 DEF AbortSpawn
<1> QED
  BY <1>1, <1>2, <1>3, <1>4, <1>5, <1>6, <1>7, <1>8, <1>9 DEF Worker

----------------------------------------------------------------------------
(* The inductive core of everything below: tasks exist only once startup   *)
(* spawns them, recovered rows only during startup, and a row without      *)
(* overlapping replays is worked on by one task at most, only while it is  *)
(* live, and not before its recovery has handed it out.                    *)
Calm(d) == ~ReplayLive \/ replays[d] = 0

SoleTask(d) ==
    /\ Busy(d) => Live(d)
    /\ next[d] > 0 => Live(d) /\ ~Busy(d)
    /\ \A j, k \in Keys : ~At(d, j, "idle") /\ ~At(d, k, "idle") => j = k

Exclusive ==
    /\ phase \in {"down", "recovering"} => \A d \in Deliveries : ~Busy(d)
    /\ phase \in {"down", "up"} => \A d \in Deliveries : next[d] = 0
    /\ \A d \in Deliveries : Calm(d) => SoleTask(d)

(* A row nothing of which changes keeps what is known of it.               *)
LEMMA UntouchedRow ==
    ASSUME NEW e \in Deliveries, Calm(e) => SoleTask(e),
           rec'[e] = rec[e], task'[e] = task[e], replays'[e] = replays[e],
           next'[e] = next[e]
    PROVE  Calm(e)' => SoleTask(e)'
BY DEF Calm, SoleTask, Busy, At, Live

LEMMA ExclusiveStep ==
    ASSUME TypeOK, Exclusive, [Next]_vars
    PROVE  Exclusive'
<1> USE DEF TypeOK, RecordsTypeOK, QueueTypeOK, recordVars, queueVars
<1>1. CASE UNCHANGED vars
  BY <1>1 DEF vars, Exclusive, Calm, SoleTask, Busy, At, Live
<1>2. ASSUME Boot, UNCHANGED <<rec, queueVars>> PROVE Exclusive'
  BY <1>2 DEF Boot, Exclusive, Calm, SoleTask, Busy, At, Live
<1>3. ASSUME NEW d \in Deliveries, RecoverRow(d, Recoverable) PROVE Exclusive'
  <2>1. Live(d) /\ Live(d)'
    BY <1>3 DEF RecoverRow, RequeueRow, Lowest, Recoverable, Live, LiveStatus, Row
  <2>2. \A e \in Deliveries \ {d} : rec'[e] = rec[e] /\ next'[e] = next[e]
    BY <1>3 DEF RecoverRow, RequeueRow
  <2>3. UNCHANGED <<phase, task, replays>> /\ phase = "recovering"
    BY <1>3 DEF RecoverRow
  <2> QED
    BY <2>1, <2>2, <2>3 DEF Exclusive, Calm, SoleTask, Busy, At, Live
<1>4. ASSUME RecoveryDone(Recoverable) PROVE Exclusive'
  BY <1>4 DEF RecoveryDone, Exclusive, Calm, SoleTask, Busy, At, Live
<1>5. ASSUME NEW d \in Deliveries, SpawnRecovered(d) PROVE Exclusive'
  <2>1. /\ phase = "spawning" /\ UNCHANGED <<phase, rec, replays>>
        /\ next[d] > 0 /\ next'[d] = 0
        /\ \A e \in Deliveries \ {d} : next'[e] = next[e] /\ task'[e] = task[e]
        /\ \A k \in Keys \ {0} : task'[d][k] = task[d][k]
    BY <1>5 DEF SpawnRecovered, Lowest, Found
  <2>2. \A e \in Deliveries \ {d} : Calm(e)' => SoleTask(e)'
    BY <2>1, UntouchedRow DEF Exclusive
  <2>3. ASSUME Calm(d)' PROVE SoleTask(d)'
    <3>1. Calm(d) /\ Live(d) /\ ~Busy(d)
      BY <2>1, <2>3 DEF Calm, Exclusive, SoleTask
    <3>2. \A k \in Keys : ~At(d, k, "idle")' => k = 0
      BY <2>1, <3>1 DEF Busy, At
    <3>3. Live(d)' /\ ~(next'[d] > 0)
      BY <2>1, <3>1 DEF Live
    <3> QED BY <3>2, <3>3 DEF SoleTask
  <2> QED
    BY <2>1, <2>2, <2>3 DEF Exclusive
<1>6. ASSUME ProcessEnds, TasksDie PROVE Exclusive'
  <2>1. /\ UNCHANGED <<rec, replays>>
        /\ \A e \in Deliveries : next'[e] = 0
        /\ \A e \in Deliveries, k \in Keys : task'[e][k].step = "idle"
    BY <1>6 DEF ProcessEnds, TasksDie, NoTasks, NoTask
  <2> QED
    BY <2>1 DEF Exclusive, Calm, SoleTask, Busy, At, Live
<1>7. ASSUME Listen PROVE Exclusive'
  BY <1>7 DEF Listen, Found, Exclusive, Calm, SoleTask, Busy, At, Live
<1>8. ASSUME NEW d \in Deliveries, Enqueue(d) PROVE Exclusive'
  <2>1. /\ phase = "up" /\ UNCHANGED <<phase, next, replays>>
        /\ ~Live(d) /\ Live(d)'
        /\ \A e \in Deliveries \ {d} : rec'[e] = rec[e] /\ task'[e] = task[e]
        /\ \A k \in Keys \ {0} : task'[d][k] = task[d][k]
    BY <1>8 DEF Enqueue, NextId, InsertRow, Live, LiveStatus
  <2>2. \A e \in Deliveries \ {d} : Calm(e)' => SoleTask(e)'
    BY <2>1, UntouchedRow DEF Exclusive
  <2>3. ASSUME Calm(d)' PROVE SoleTask(d)'
    <3>1. Calm(d) /\ ~Busy(d)
      BY <2>1, <2>3 DEF Calm, Exclusive, SoleTask
    <3>2. \A k \in Keys : ~At(d, k, "idle")' => k = 0
      BY <2>1, <3>1 DEF Busy, At
    <3>3. ~(next'[d] > 0)
      BY <2>1 DEF Exclusive
    <3> QED BY <2>1, <3>2, <3>3 DEF SoleTask
  <2> QED
    BY <2>1, <2>2, <2>3 DEF Exclusive
<1>9. ASSUME NEW d \in Deliveries, Replay(d) PROVE Exclusive'
  <2>1. /\ phase = "up" /\ UNCHANGED <<phase, next>>
        /\ Live(d)' /\ replays'[d] # 0
        /\ ReplayLive \/ ~Live(d)
        /\ \A e \in Deliveries \ {d} :
              rec'[e] = rec[e] /\ task'[e] = task[e] /\ replays'[e] = replays[e]
        /\ \A k \in Keys \ {replays[d] + 1} : task'[d][k] = task[d][k]
    BY <1>9, QueueAssumption
    DEF Replay, RequeueRow, Live, Terminal, LiveStatus, TerminalStatus, Row, Keys
  <2>2. \A e \in Deliveries \ {d} : Calm(e)' => SoleTask(e)'
    BY <2>1, UntouchedRow DEF Exclusive
  <2>3. ASSUME Calm(d)' PROVE SoleTask(d)'
    <3>1. ~ReplayLive /\ Calm(d)
      BY <2>1, <2>3 DEF Calm
    <3>2. ~Busy(d)
      BY <2>1, <3>1 DEF Exclusive, SoleTask
    <3>3. \A k \in Keys : ~At(d, k, "idle")' => k = replays[d] + 1
      BY <2>1, <3>2 DEF Busy, At
    <3>4. ~(next'[d] > 0)
      BY <2>1 DEF Exclusive
    <3> QED BY <2>1, <3>3, <3>4 DEF SoleTask
  <2> QED
    BY <2>1, <2>2, <2>3 DEF Exclusive
<1>10. ASSUME NEW d \in Deliveries, NEW k \in Keys, Worker(d, k) \/ AbortSpawn(d, k)
       PROVE  Exclusive'
  <2>1. /\ UNCHANGED <<phase, limit, configured, next, replays>>
        /\ ~At(d, k, "idle")
        /\ \A e \in Deliveries \ {d} : rec'[e] = rec[e] /\ task'[e] = task[e]
        /\ \A j \in Keys \ {k} : task'[d][j] = task[d][j]
        /\ \/ rec'[d] = rec[d]
           \/ rec'[d].status \in LiveStatus
           \/ task'[d][k].step = "idle"
    BY <1>10, WorkerFrame
  <2>2. \A e \in Deliveries \ {d} : Calm(e)' => SoleTask(e)'
    BY <2>1, UntouchedRow DEF Exclusive
  <2>3. Busy(d)
    BY <2>1 DEF Busy
  <2>4. phase' \in {"spawning", "up"} /\ (phase' = "up" => \A e \in Deliveries : next'[e] = 0)
    BY <2>1, <2>3 DEF Exclusive, Phases
  <2>5. ASSUME Calm(d)' PROVE SoleTask(d)'
    <3>1. SoleTask(d)
      BY <2>1, <2>5 DEF Calm, Exclusive
    <3>2. Live(d) /\ \A j \in Keys \ {k} : At(d, j, "idle")
      BY <2>1, <2>3, <3>1 DEF SoleTask
    <3>3. \A j \in Keys \ {k} : At(d, j, "idle")'
      BY <2>1, <3>2 DEF At
    <3>4. Busy(d)' => Live(d)'
      BY <2>1, <3>2, <3>3 DEF Busy, At, Live
    <3>5. ~(next'[d] > 0)
      BY <2>1, <2>3, <3>1 DEF SoleTask
    <3> QED BY <3>3, <3>4, <3>5 DEF SoleTask
  <2> QED
    BY <2>2, <2>4, <2>5 DEF Exclusive
<1>11. ASSUME Quiet PROVE Exclusive'
  BY <1>11, <1>1 DEF Quiet
<1> QED
  BY <1>1, <1>2, <1>3, <1>4, <1>5, <1>6, <1>7, <1>8, <1>9, <1>10, <1>11
  DEF Next, Startup, RefuseToStart, Crash

LEMMA ExclusiveAlways == Spec => []Exclusive
<1>1. Init => Exclusive
  BY DEF Init, RecordsInit, QueueInit, NoTasks, NoTask, Exclusive, Calm, SoleTask, Busy,
         At, Live, LiveStatus
<1>2. TypeOK /\ Exclusive /\ [Next]_vars => Exclusive'
  BY ExclusiveStep
<1>3. QED
  BY <1>1, <1>2, TypeCorrect, PTL DEF Spec
----------------------------------------------------------------------------
(* OneTaskPerRow, for every instance.  Without overlapping replays every   *)
(* row is calm.                                                            *)
THEOREM OneTaskAlways == Spec => []OneTaskPerRow
<1>1. TypeOK /\ Exclusive => OneTaskPerRow
  BY DEF Exclusive, Calm, SoleTask, OneTaskPerRow
<1>2. QED
  BY <1>1, TypeCorrect, ExclusiveAlways, PTL

(* VerdictStands, for every instance: no step but a replay changes a       *)
(* settled row that was never replayed, because no task is left that could *)
(* and recovery selects live rows only.                                    *)
THEOREM VerdictAlwaysStands == Spec => VerdictStands
<1>1. ASSUME TypeOK, Exclusive, [Next]_vars, NEW d \in Deliveries,
             Terminal(d), rec'[d] # rec[d]
      PROVE  replays'[d] > 0
  <2> USE <1>1 DEF TypeOK, RecordsTypeOK, QueueTypeOK, recordVars, queueVars
  <2>1. ~Live(d) /\ rec[d].status # "none"
    BY DEF Terminal, Live, TerminalStatus, LiveStatus
  <2>2. CASE replays[d] > 0
    <3>1. replays'[d] = replays[d] \/ \E e \in Deliveries : Replay(e)
      BY DEF Next, Startup, Boot, RecoverRow, RecoveryDone, SpawnRecovered, RefuseToStart,
             ProcessEnds, TasksDie, Listen, Crash, Enqueue, Worker, Spawn, Attempt,
             LoopIsEmpty, Send, RecordSuccess, RecordDeadLetter, RecordRetry, Wake,
             AbortSpawn, Quiet, vars
    <3>2. ASSUME NEW e \in Deliveries, Replay(e) PROVE replays'[d] > 0
      BY <2>2, <3>2, QueueAssumption DEF Replay, Keys
    <3> QED BY <2>2, <3>1, <3>2
  <2>3. CASE replays[d] = 0
    <3>1. ~Busy(d)
      BY <2>1, <2>3 DEF Exclusive, Calm, SoleTask
    <3>2. \A e \in Deliveries, k \in Keys : Worker(e, k) \/ AbortSpawn(e, k) => rec'[d] = rec[d]
      <4> TAKE e \in Deliveries, k \in Keys
      <4>1. ASSUME Worker(e, k) \/ AbortSpawn(e, k) PROVE rec'[d] = rec[d]
        <5>1. ~At(e, k, "idle") /\ (e # d => rec'[d] = rec[d])
          BY <4>1, WorkerFrame
        <5> QED BY <5>1, <3>1 DEF Busy
      <4> QED BY <4>1
    <3>3. \A e \in Deliveries : RecoverRow(e, Recoverable) \/ Enqueue(e) => rec'[d] = rec[d]
      BY <2>1 DEF RecoverRow, Lowest, Recoverable, RequeueRow, Enqueue, NextId, InsertRow
    <3>4. \E e \in Deliveries : Replay(e)
      BY <3>2, <3>3
      DEF Next, Startup, Boot, RecoveryDone, SpawnRecovered, RefuseToStart,
          ProcessEnds, TasksDie, Listen, Crash, Quiet, vars
    <3>5. PICK e \in Deliveries : Replay(e)
      BY <3>4
    <3>6. e = d
      BY <3>5 DEF Replay, RequeueRow
    <3> QED BY <2>3, <3>5, <3>6, QueueAssumption DEF Replay, Keys
  <2> QED BY <2>2, <2>3, QueueAssumption DEF Keys
<1>2. TypeOK /\ Exclusive /\ [Next]_vars =>
         [\A d \in Deliveries : Terminal(d) /\ rec'[d] # rec[d] => replays'[d] > 0]_vars
  BY <1>1
<1>3. QED
  BY <1>2, TypeCorrect, ExclusiveAlways, PTL DEF Spec, VerdictStands
----------------------------------------------------------------------------
(* Receipts: a row reported as succeeded, or about to be, was taken by its *)
(* receiver, in a round that has begun, and in the current round if        *)
(* replays do not overlap with tasks.                                      *)
Receipt(d) ==
    /\ accepted[d] \subseteq 0 .. replays[d]
    /\ rec[d].status = "succeeded" => accepted[d] # {}
    /\ \A k \in Keys : At(d, k, "delivered") =>
          accepted[d] # {} /\ (Calm(d) => replays[d] \in accepted[d])

Receipts == \A d \in Deliveries : Receipt(d)

(* A row's receipts survive what neither reports it nor opens a round.     *)
LEMMA ReceiptKept ==
    ASSUME NEW d \in Deliveries, Receipt(d),
           replays'[d] = replays[d], accepted[d] \subseteq accepted'[d],
           accepted'[d] \subseteq 0 .. replays[d],
           rec'[d].status \in {rec[d].status, "queued", "delivering", "retrying", "dead_letter"},
           \A k \in Keys : task'[d][k].step \in {task[d][k].step} \cup (Steps \ {"delivered"})
    PROVE  Receipt(d)'
BY DEF Receipt, At, Calm

LEMMA ReceiptsStep ==
    ASSUME TypeOK, Exclusive, Receipts, [Next]_vars
    PROVE  Receipts'
<1> USE DEF TypeOK, RecordsTypeOK, QueueTypeOK, recordVars, queueVars
<1>1. CASE UNCHANGED vars
  BY <1>1 DEF vars, Receipts, Receipt, At, Calm
<1>2. ASSUME Boot, UNCHANGED <<rec, queueVars>> PROVE Receipts'
  BY <1>2 DEF Receipts, Receipt, At, Calm
<1>3. ASSUME NEW d \in Deliveries, RecoverRow(d, Recoverable) PROVE Receipts'
  <2>1. \A e \in Deliveries : rec'[e].status \in {rec[e].status, "queued"}
    BY <1>3 DEF RecoverRow, RequeueRow, Row
  <2> QED BY <1>3, <2>1, ReceiptKept DEF RecoverRow, Receipts, Receipt
<1>4. ASSUME RecoveryDone(Recoverable) PROVE Receipts'
  BY <1>4 DEF RecoveryDone, Receipts, Receipt, At, Calm
<1>5. ASSUME NEW d \in Deliveries, SpawnRecovered(d) PROVE Receipts'
  <2>1. \A e \in Deliveries, k \in Keys :
           task'[e][k].step \in {task[e][k].step, "attempting"}
    BY <1>5 DEF SpawnRecovered
  <2> QED BY <1>5, <2>1, ReceiptKept DEF SpawnRecovered, Receipts, Receipt, Steps
<1>6. ASSUME ProcessEnds, TasksDie PROVE Receipts'
  <2>1. \A e \in Deliveries, k \in Keys : task'[e][k].step = "idle"
    BY <1>6 DEF TasksDie, NoTasks, NoTask
  <2> QED BY <1>6, <2>1, ReceiptKept DEF ProcessEnds, TasksDie, Receipts, Receipt, Steps
<1>7. ASSUME Listen PROVE Receipts'
  BY <1>7 DEF Listen, Receipts, Receipt, At, Calm
<1>8. ASSUME NEW d \in Deliveries, Enqueue(d) PROVE Receipts'
  <2>1. \A e \in Deliveries, k \in Keys :
           task'[e][k].step \in {task[e][k].step, "queueing"}
    BY <1>8 DEF Enqueue
  <2>2. \A e \in Deliveries : rec'[e].status \in {rec[e].status, "queued"}
    BY <1>8 DEF Enqueue, InsertRow
  <2> QED BY <1>8, <2>1, <2>2, ReceiptKept DEF Enqueue, Receipts, Receipt, Steps
<1>9. ASSUME NEW d \in Deliveries, Replay(d) PROVE Receipts'
  <2>1. \A e \in Deliveries, k \in Keys :
           task'[e][k].step \in {task[e][k].step, "replaying"}
    BY <1>9 DEF Replay
  <2>2. \A e \in Deliveries : rec'[e].status \in {rec[e].status, "queued"}
    BY <1>9 DEF Replay, RequeueRow, Row
  <2>3. \A e \in Deliveries \ {d} : Receipt(e)'
    <3>1. \A e \in Deliveries \ {d} : replays'[e] = replays[e] /\ accepted'[e] = accepted[e]
      BY <1>9 DEF Replay
    <3> QED BY <2>1, <2>2, <3>1, ReceiptKept DEF Receipts, Receipt, Steps
  <2>4. Receipt(d)'
    <3>1. /\ accepted'[d] = accepted[d] /\ replays'[d] = replays[d] + 1
          /\ rec'[d].status = "queued"
      BY <1>9 DEF Replay, RequeueRow, Row
    <3>2. accepted'[d] \subseteq 0 .. replays'[d]
      BY <3>1, QueueAssumption DEF Receipts, Receipt, Keys
    <3>3. ASSUME NEW k \in Keys, At(d, k, "delivered")'
          PROVE  accepted'[d] # {} /\ ~Calm(d)'
      <4>1. At(d, k, "delivered")
        BY <2>1, <3>3 DEF At
      <4>2. accepted'[d] # {} /\ Busy(d)
        BY <3>1, <4>1 DEF Receipts, Receipt, Busy, At
      <4>3. CASE ReplayLive
        BY <4>2, <4>3, <3>1, QueueAssumption DEF Calm, Keys
      <4>4. CASE ~ReplayLive
        <5>1. Live(d) /\ Terminal(d)
          BY <4>2, <4>4, <1>9 DEF Exclusive, Calm, SoleTask, Replay
        <5> QED BY <5>1 DEF Live, Terminal, LiveStatus, TerminalStatus
      <4> QED BY <4>3, <4>4
    <3> QED BY <3>1, <3>2, <3>3 DEF Receipt
  <2> QED BY <2>3, <2>4 DEF Receipts
<1>10. ASSUME NEW d \in Deliveries, NEW k \in Keys, Worker(d, k) \/ AbortSpawn(d, k)
       PROVE  Receipts'
  <2> USE DEF At, GoTo, Finish, NoTask
  <2>1. /\ UNCHANGED replays
        /\ \A e \in Deliveries \ {d} : rec'[e] = rec[e] /\ task'[e] = task[e]
        /\ \A j \in Keys \ {k} : task'[d][j] = task[d][j]
    BY <1>10, WorkerFrame
  <2>2. ASSUME UNCHANGED accepted,
               rec'[d].status \in {rec[d].status, "delivering", "retrying", "dead_letter"},
               task'[d][k].step \in Steps \ {"delivered"}
        PROVE  Receipts'
    BY <2>1, <2>2, ReceiptKept DEF Receipts, Receipt
  <2>3. CASE Spawn(d, k)
    BY <2>2, <2>3 DEF Spawn, Steps
  <2>4. CASE Attempt(d, k)
    BY <2>2, <2>4 DEF Attempt, MarkAttempt, UpdateRow, Steps
  <2>5. CASE LoopIsEmpty(d, k)
    BY <2>2, <2>5 DEF LoopIsEmpty, Steps
  <2>6. CASE Send(d, k)
    <3>1. /\ UNCHANGED rec
          /\ \A e \in Deliveries \ {d} : accepted'[e] = accepted[e]
          /\ accepted'[d] \in {accepted[d], accepted[d] \cup {replays[d]}}
          /\ \/ task'[d][k].step \in Steps \ {"delivered"}
             \/ accepted'[d] = accepted[d] \cup {replays[d]}
      BY <2>6 DEF Send, Steps
    <3>2. \A e \in Deliveries \ {d} : Receipt(e)'
      BY <2>1, <3>1, ReceiptKept DEF Receipts, Receipt
    <3>3. replays[d] \in 0 .. replays[d]
      BY QueueAssumption DEF Keys
    <3>4. CASE task'[d][k].step \in Steps \ {"delivered"}
      <4>1. Receipt(d)'
        BY <2>1, <3>1, <3>3, <3>4, ReceiptKept DEF Receipts, Receipt
      <4> QED BY <3>2, <4>1 DEF Receipts
    <3>5. CASE accepted'[d] = accepted[d] \cup {replays[d]}
      <4>1. Receipt(d)'
        BY <2>1, <3>1, <3>3, <3>5 DEF Receipts, Receipt
      <4> QED BY <3>2, <4>1 DEF Receipts
    <3> QED BY <3>1, <3>4, <3>5
  <2>7. CASE RecordSuccess(d, k)
    <3>1. /\ UNCHANGED accepted /\ At(d, k, "delivered")
          /\ task'[d][k].step = "idle"
      BY <2>7 DEF RecordSuccess
    <3>2. \A e \in Deliveries \ {d} : Receipt(e)'
      BY <2>1, <3>1, ReceiptKept DEF Receipts, Receipt
    <3>3. Receipt(d)'
      <4>1. accepted[d] # {}
        BY <3>1 DEF Receipts, Receipt
      <4>2. \A j \in Keys : At(d, j, "delivered")' => At(d, j, "delivered")
        BY <2>1, <3>1
      <4> QED BY <2>1, <3>1, <4>1, <4>2 DEF Receipts, Receipt, Calm
    <3> QED BY <3>2, <3>3 DEF Receipts
  <2>8. CASE RecordDeadLetter(d, k)
    BY <2>2, <2>8 DEF RecordDeadLetter, MarkDeadLetter, UpdateRow, Row, Steps
  <2>9. CASE RecordRetry(d, k)
    BY <2>2, <2>9 DEF RecordRetry, MarkRetrying, UpdateRow, Row, Steps
  <2>10. CASE Wake(d, k)
    BY <2>2, <2>10 DEF Wake, Steps
  <2>11. CASE AbortSpawn(d, k)
    BY <2>2, <2>11 DEF AbortSpawn, Steps
  <2> QED
    BY <1>10, <2>3, <2>4, <2>5, <2>6, <2>7, <2>8, <2>9, <2>10, <2>11 DEF Worker
<1>11. ASSUME Quiet PROVE Receipts'
  BY <1>11, <1>1 DEF Quiet
<1> QED
  BY <1>1, <1>2, <1>3, <1>4, <1>5, <1>6, <1>7, <1>8, <1>9, <1>10, <1>11
  DEF Next, Startup, RefuseToStart, Crash

LEMMA ReceiptsAlways == Spec => []Receipts
<1>1. Init => Receipts
  BY DEF Init, RecordsInit, QueueInit, NoTasks, NoTask, Receipts, Receipt, At
<1>2. TypeOK /\ Exclusive /\ Receipts /\ [Next]_vars => Receipts'
  BY ReceiptsStep
<1>3. QED
  BY <1>1, <1>2, TypeCorrect, ExclusiveAlways, PTL DEF Spec

(* SucceededMeansTaken, for every instance, overlapping replays and failed *)
(* storage calls included.                                                 *)
THEOREM SuccessIsReceived == Spec => []SucceededMeansTaken
<1>1. Receipts => SucceededMeansTaken
  BY DEF Receipts, Receipt, SucceededMeansTaken
<1>2. QED
  BY <1>1, ReceiptsAlways, PTL
----------------------------------------------------------------------------
(* The queue implements DeliveryPromise: a step writes one row at most,    *)
(* and what it does to that row is one of the promise's steps.             *)
LEMMA PromiseMapped ==
    ASSUME TypeOK
    PROVE  \A d \in Deliveries :
              /\ (rec[d].status = "none") <=> (PromiseOf(rec[d].status) = "none")
              /\ Live(d) <=> (PromiseOf(rec[d].status) = "owed")
              /\ (rec[d].status = "succeeded") <=> (PromiseOf(rec[d].status) = "delivered")
              /\ (rec[d].status = "dead_letter") <=> (PromiseOf(rec[d].status) = "given_up")
BY DEF TypeOK, RecordsTypeOK, Row, PromiseOf, Live, LiveStatus, TerminalStatus

LEMMA PromiseValues ==
    /\ PromiseOf("none") = "none"
    /\ \A status \in LiveStatus : PromiseOf(status) = "owed"
    /\ PromiseOf("succeeded") = "delivered"
    /\ PromiseOf("dead_letter") = "given_up"
BY DEF PromiseOf, LiveStatus

Said == [d \in Deliveries |-> PromiseOf(rec[d].status)]
Got == [d \in Deliveries |-> replays[d] \in accepted[d]]

LEMMA SaysTheSame ==
    ASSUME \A d \in Deliveries :
              /\ PromiseOf(rec'[d].status) = PromiseOf(rec[d].status)
              /\ (replays'[d] \in accepted'[d]) = (replays[d] \in accepted[d])
    PROVE  UNCHANGED <<Said, Got>>
BY DEF Said, Got

(* The steps that are visible, each as the step of the promise it is.      *)
LEMMA WorkerPromise ==
    ASSUME TypeOK, Exclusive, Receipts, ~ReplayLive,
           NEW d \in Deliveries, NEW k \in Keys, Worker(d, k) \/ AbortSpawn(d, k)
    PROVE  Promise!Next \/ UNCHANGED <<Said, Got>>
<1> USE DEF TypeOK, RecordsTypeOK, QueueTypeOK, recordVars, queueVars
<1>a. Live(d) /\ PromiseOf(rec[d].status) = "owed"
  <2>1. Busy(d)
    BY WorkerFrame DEF Busy
  <2> QED BY <2>1, PromiseMapped DEF Exclusive, Calm, SoleTask
<1>b. /\ \A e \in Deliveries \ {d} : rec'[e] = rec[e]
      /\ UNCHANGED replays
  BY WorkerFrame
<1>1. ASSUME UNCHANGED accepted, PromiseOf(rec'[d].status) = "owed"
      PROVE  UNCHANGED <<Said, Got>>
  BY <1>1, <1>a, <1>b, SaysTheSame
<1>2. ASSUME UNCHANGED accepted, rec'[d].status = rec[d].status
      PROVE  UNCHANGED <<Said, Got>>
  BY <1>2, <1>b, SaysTheSame
<1>3. CASE Spawn(d, k)
  BY <1>2, <1>3 DEF Spawn
<1>4. CASE Attempt(d, k)
  BY <1>1, <1>2, <1>4 DEF Attempt, MarkAttempt, UpdateRow, PromiseOf, LiveStatus
<1>5. CASE LoopIsEmpty(d, k)
  BY <1>2, <1>5 DEF LoopIsEmpty
<1>6. CASE Send(d, k)
  <2>1. CASE UNCHANGED accepted
    BY <1>2, <1>6, <2>1 DEF Send
  <2>2. CASE accepted' = [accepted EXCEPT ![d] = @ \cup {replays[d]}]
    <3>1. UNCHANGED rec
      BY <1>6 DEF Send
    <3>2. \A e \in Deliveries :
             (replays'[e] \in accepted'[e]) = (replays[e] \in accepted[e] \/ e \in {d})
      BY <2>2, <1>b
    <3>3. Promise!Receive({d})
      BY <3>1, <3>2, <1>a DEF Promise!Receive
    <3> QED BY <3>3 DEF Promise!Next
  <2> QED BY <1>6, <2>1, <2>2 DEF Send
<1>7. CASE RecordSuccess(d, k)
  <2>1. CASE UNCHANGED rec
    BY <1>2, <1>7, <2>1 DEF RecordSuccess
  <2>2. CASE ~UNCHANGED rec
    <3>1. UNCHANGED accepted /\ rec'[d].status = "succeeded"
      BY <1>7, <2>2 DEF RecordSuccess, MarkSucceeded, UpdateRow, Row
    <3>2. replays[d] \in accepted[d]
      BY <1>7 DEF RecordSuccess, Receipts, Receipt, Calm
    <3>3. \A e \in Deliveries :
             PromiseOf(rec'[e].status) = IF e \in {d} THEN "delivered" ELSE PromiseOf(rec[e].status)
      BY <3>1, <1>b, PromiseValues
    <3>4. Promise!Deliver({d})
      BY <3>1, <3>2, <3>3, <1>a, <1>b DEF Promise!Deliver, Promise!Settle
    <3> QED BY <3>4 DEF Promise!Next
  <2> QED BY <2>1, <2>2
<1>8. CASE RecordDeadLetter(d, k)
  <2>1. CASE UNCHANGED rec
    BY <1>2, <1>8, <2>1 DEF RecordDeadLetter
  <2>2. CASE ~UNCHANGED rec
    <3>1. UNCHANGED accepted /\ rec'[d].status = "dead_letter"
      BY <1>8, <2>2 DEF RecordDeadLetter, MarkDeadLetter, UpdateRow, Row
    <3>2. \A e \in Deliveries :
             PromiseOf(rec'[e].status) = IF e \in {d} THEN "given_up" ELSE PromiseOf(rec[e].status)
      BY <3>1, <1>b, PromiseValues
    <3>3. Promise!GiveUp({d})
      BY <3>1, <3>2, <1>a, <1>b DEF Promise!GiveUp, Promise!Settle
    <3> QED BY <3>3 DEF Promise!Next
  <2> QED BY <2>1, <2>2
<1>9. CASE RecordRetry(d, k)
  BY <1>1, <1>2, <1>9 DEF RecordRetry, MarkRetrying, UpdateRow, PromiseOf, LiveStatus, Row
<1>10. CASE Wake(d, k)
  BY <1>2, <1>10 DEF Wake
<1>11. CASE AbortSpawn(d, k)
  BY <1>2, <1>11 DEF AbortSpawn
<1> QED
  BY <1>3, <1>4, <1>5, <1>6, <1>7, <1>8, <1>9, <1>10, <1>11 DEF Worker

LEMMA StepPromise ==
    ASSUME TypeOK, Exclusive, Receipts, ~ReplayLive, [Next]_vars
    PROVE  Promise!Next \/ UNCHANGED <<Said, Got>>
<1> USE DEF TypeOK, RecordsTypeOK, QueueTypeOK, recordVars, queueVars
<1>1. ASSUME UNCHANGED <<rec, replays, accepted>>
      PROVE  UNCHANGED <<Said, Got>>
  BY <1>1, SaysTheSame
<1>2. CASE UNCHANGED vars
  BY <1>1, <1>2 DEF vars
<1>3. ASSUME Boot, UNCHANGED <<rec, queueVars>> PROVE UNCHANGED <<Said, Got>>
  BY <1>1, <1>3
<1>4. ASSUME NEW d \in Deliveries, RecoverRow(d, Recoverable)
      PROVE  UNCHANGED <<Said, Got>>
  <2>1. /\ UNCHANGED <<replays, accepted>> /\ Live(d)
        /\ rec'[d].status = "queued"
        /\ \A e \in Deliveries \ {d} : rec'[e] = rec[e]
    BY <1>4 DEF RecoverRow, Lowest, Recoverable, RequeueRow, Row
  <2>2. PromiseOf(rec'[d].status) = PromiseOf(rec[d].status)
    BY <2>1, PromiseMapped DEF PromiseOf, LiveStatus
  <2> QED BY <2>1, <2>2, SaysTheSame
<1>5. ASSUME RecoveryDone(Recoverable) PROVE UNCHANGED <<Said, Got>>
  BY <1>1, <1>5 DEF RecoveryDone
<1>6. ASSUME NEW d \in Deliveries, SpawnRecovered(d) PROVE UNCHANGED <<Said, Got>>
  BY <1>1, <1>6 DEF SpawnRecovered
<1>7. ASSUME ProcessEnds, TasksDie PROVE UNCHANGED <<Said, Got>>
  BY <1>1, <1>7 DEF ProcessEnds, TasksDie
<1>8. ASSUME Listen PROVE UNCHANGED <<Said, Got>>
  BY <1>1, <1>8 DEF Listen
<1>9. ASSUME NEW d \in Deliveries, Enqueue(d) PROVE Promise!Next
  <2>1. /\ UNCHANGED <<replays, accepted>>
        /\ rec[d].status = "none" /\ rec'[d].status = "queued"
        /\ \A e \in Deliveries \ {d} : rec'[e] = rec[e]
    BY <1>9 DEF Enqueue, NextId, InsertRow
  <2>2. PromiseOf(rec[d].status) = "none" /\ PromiseOf(rec'[d].status) = "owed"
    BY <2>1 DEF PromiseOf, LiveStatus
  <2>3. Promise!Accept(d)
    BY <2>1, <2>2 DEF Promise!Accept
  <2> QED BY <2>3 DEF Promise!Next
<1>10. ASSUME NEW d \in Deliveries, Replay(d) PROVE Promise!Next
  <2>1. /\ UNCHANGED accepted
        /\ Terminal(d) /\ rec'[d].status = "queued"
        /\ \A e \in Deliveries \ {d} : rec'[e] = rec[e] /\ replays'[e] = replays[e]
        /\ replays'[d] = replays[d] + 1
    BY <1>10 DEF Replay, RequeueRow, Row
  <2>2. /\ PromiseOf(rec[d].status) \in {"delivered", "given_up"}
        /\ PromiseOf(rec'[d].status) = "owed"
    BY <2>1 DEF PromiseOf, LiveStatus, Terminal, TerminalStatus
  <2>3. replays'[d] \notin accepted'[d]
    BY <2>1, QueueAssumption DEF Receipts, Receipt, Keys
  <2>4. Promise!Replay(d)
    <3>1. [e \in Deliveries |-> PromiseOf(rec'[e].status)]
             = [[e \in Deliveries |-> PromiseOf(rec[e].status)] EXCEPT ![d] = "owed"]
      BY <2>1, <2>2
    <3>2. [e \in Deliveries |-> replays'[e] \in accepted'[e]]
             = [e \in Deliveries |-> e # d /\ replays[e] \in accepted[e]]
      <4>1. \A e \in Deliveries :
               (replays'[e] \in accepted'[e]) = (e # d /\ replays[e] \in accepted[e])
        <5> TAKE e \in Deliveries
        <5>1. CASE e = d
          BY <5>1, <2>3
        <5>2. CASE e # d
          BY <5>2, <2>1
        <5> QED BY <5>1, <5>2
      <4> QED BY <4>1
    <3> QED BY <2>2, <3>1, <3>2 DEF Promise!Replay
  <2> QED BY <2>4 DEF Promise!Next
<1>11. ASSUME NEW d \in Deliveries, NEW k \in Keys, Worker(d, k) \/ AbortSpawn(d, k)
       PROVE  Promise!Next \/ UNCHANGED <<Said, Got>>
  BY <1>11, WorkerPromise
<1>12. ASSUME Quiet PROVE UNCHANGED <<Said, Got>>
  BY <1>1, <1>12 DEF Quiet, vars
<1> QED
  BY <1>2, <1>3, <1>4, <1>5, <1>6, <1>7, <1>8, <1>9, <1>10, <1>11, <1>12
  DEF Next, Startup, RefuseToStart, Crash

(* PromiseKept, for every instance in which operators replay settled       *)
(* deliveries only; crashes, restarts that lower max_attempts or drop a    *)
(* receiver, and failed storage calls are all included.                    *)
THEOREM QueueKeepsPromise == ASSUME ~ReplayLive PROVE Spec => PromiseKept
<1>1. Init => Promise!Init
  <2> SUFFICES ASSUME Init PROVE Promise!Init
    OBVIOUS
  <2>1. \A d \in Deliveries : PromiseOf(rec[d].status) = "none"
    BY PromiseValues DEF Init, RecordsInit
  <2>2. \A d \in Deliveries : (replays[d] \in accepted[d]) = FALSE
    BY DEF Init, QueueInit
  <2> QED BY <2>1, <2>2 DEF Promise!Init
<1>2. TypeOK /\ Exclusive /\ Receipts /\ [Next]_vars => [Promise!Next]_(Promise!vars)
  BY StepPromise DEF Promise!vars, Said, Got
<1>3. QED
  BY <1>1, <1>2, TypeCorrect, ExclusiveAlways, ReceiptsAlways, PTL
  DEF Spec, PromiseKept, Promise!Spec
----------------------------------------------------------------------------
(* Attempts stay within the limit of the run, and a row shows the attempt  *)
(* its task is making.                                                     *)
InAttempt == {"sending", "delivered", "rejected", "failed", "sleeping"}

RowBudget(d) ==
    /\ rec[d].attempts <= limit
    /\ rec[d].status = "retrying" => rec[d].attempts < limit
    /\ next[d] <= limit
    /\ Live(d) => limit > 0

TaskBudget(d, k) ==
    /\ ~At(d, k, "idle") => task[d][k].attempt \in 1 .. limit
    /\ task[d][k].step \in InAttempt => rec[d].attempts = task[d][k].attempt
    /\ At(d, k, "sleeping") => task[d][k].attempt < limit

Budget == \A d \in Deliveries : RowBudget(d) /\ \A k \in Keys : TaskBudget(d, k)

(* A row and its tasks stay within the budget if the limit does not fall   *)
(* and none of them changes.                                               *)
LEMMA BudgetKept ==
    ASSUME TypeOK, TypeOK', limit <= limit',
           NEW d \in Deliveries, rec'[d] = rec[d]
    PROVE  /\ RowBudget(d) /\ next'[d] \in {0, next[d]} => RowBudget(d)'
           /\ \A k \in Keys : TaskBudget(d, k) /\ task'[d][k] = task[d][k] => TaskBudget(d, k)'
<1> USE DEF TypeOK, RecordsTypeOK, QueueTypeOK, Row
<1>1. limit \in Nat /\ limit' \in Nat
  BY RecordsAssumption
<1>2. RowBudget(d) /\ next'[d] \in {0, next[d]} => RowBudget(d)'
  BY <1>1 DEF RowBudget, Live
<1>3. \A k \in Keys : TaskBudget(d, k) /\ task'[d][k] = task[d][k] => TaskBudget(d, k)'
  BY <1>1 DEF TaskBudget, At
<1> QED BY <1>2, <1>3

(* No budget is asked of what does not run.                                *)
LEMMA IdleBudget ==
    ASSUME NEW d \in Deliveries, NEW k \in Keys, task'[d][k].step = "idle"
    PROVE  TaskBudget(d, k)'
BY DEF TaskBudget, InAttempt, At

(* The worker's steps, on its own row and task.                            *)
LEMMA WorkerBudget ==
    ASSUME TypeOK, Budget, Careful, Exclusive,
           NEW d \in Deliveries, NEW k \in Keys, Worker(d, k)
    PROVE  RowBudget(d)' /\ TaskBudget(d, k)'
<1> USE DEF TypeOK, RecordsTypeOK, QueueTypeOK, recordVars, Row, At, GoTo, Finish, NoTask
<1>1. /\ limit \in Nat /\ rec[d].attempts \in Nat /\ task[d][k].attempt \in Nat
      /\ UNCHANGED <<limit, next>>
  BY RecordsAssumption, WorkerFrame
<1>2. RowBudget(d) /\ TaskBudget(d, k) /\ ~StorageFails
  BY DEF Budget, Careful
<1>3. Live(d)
  BY WorkerFrame DEF Exclusive, Calm, SoleTask, Busy, Careful
<1>4. CASE Spawn(d, k)
  <2>1. /\ UNCHANGED rec
        /\ \/ task'[d][k].step = "idle"
           \/ task'[d][k].step = "attempting" /\ task'[d][k].attempt = task[d][k].attempt
    BY <1>4 DEF Spawn
  <2>2. RowBudget(d)'
    BY <1>1, <1>2, <2>1 DEF RowBudget, Live
  <2>3. TaskBudget(d, k)'
    BY <1>1, <1>2, <2>1, IdleBudget, WorkerFrame DEF TaskBudget, InAttempt
  <2> QED BY <2>2, <2>3
<1>5. CASE Attempt(d, k)
  BY <1>1, <1>2, <1>3, <1>5
  DEF Attempt, MarkAttempt, UpdateRow, RowBudget, TaskBudget, InAttempt, Live
<1>6. CASE LoopIsEmpty(d, k)
  BY <1>1, <1>2, <1>6 DEF LoopIsEmpty, RowBudget, TaskBudget, InAttempt, Live
<1>7. CASE Send(d, k)
  BY <1>1, <1>2, <1>7 DEF Send, RowBudget, TaskBudget, InAttempt, Live
<1>8. CASE RecordSuccess(d, k)
  BY <1>1, <1>2, <1>3, <1>8
  DEF RecordSuccess, MarkSucceeded, UpdateRow, RowBudget, TaskBudget, InAttempt, Live
<1>9. CASE RecordDeadLetter(d, k)
  <2>1. /\ rec'[d].status = "dead_letter" /\ rec'[d].attempts = rec[d].attempts
        /\ task'[d][k].step = "idle"
    BY <1>2, <1>9 DEF RecordDeadLetter, MarkDeadLetter, UpdateRow
  <2>2. RowBudget(d)'
    BY <1>1, <1>2, <1>3, <2>1 DEF RowBudget
  <2> QED BY <2>1, <2>2, IdleBudget
<1>10. CASE RecordRetry(d, k)
  BY <1>1, <1>2, <1>3, <1>10
  DEF RecordRetry, MarkRetrying, UpdateRow, RowBudget, TaskBudget, InAttempt, Live
<1>11. CASE Wake(d, k)
  BY <1>1, <1>2, <1>11 DEF Wake, RowBudget, TaskBudget, InAttempt, Live
<1> QED
  BY <1>4, <1>5, <1>6, <1>7, <1>8, <1>9, <1>10, <1>11 DEF Worker

LEMMA BudgetStep ==
    ASSUME TypeOK, TypeOK', Exclusive, Budget, Careful, [Next]_vars
    PROVE  Budget'
<1> USE DEF TypeOK, RecordsTypeOK, QueueTypeOK, recordVars, queueVars
<1>a. limit \in Nat /\ ~StorageFails /\ ~LimitMayDrop
  BY RecordsAssumption DEF Careful
<1>1. CASE UNCHANGED vars
  BY <1>1, <1>a, BudgetKept DEF vars, Budget
<1>2. ASSUME Boot, UNCHANGED <<rec, queueVars>> PROVE Budget'
  <2>1. limit <= limit'
    BY <1>2, <1>a DEF Boot
  <2> QED BY <1>2, <2>1, BudgetKept DEF Budget
<1>3. ASSUME NEW d \in Deliveries, RecoverRow(d, Recoverable) PROVE Budget'
  <2>1. /\ phase = "recovering" /\ UNCHANGED <<limit, task>>
        /\ rec'[d] = [rec[d] EXCEPT !.status = "queued"]
        /\ next'[d] = RecoveredAttempt(d)
        /\ \A e \in Deliveries \ {d} : rec'[e] = rec[e] /\ next'[e] = next[e]
    BY <1>3 DEF RecoverRow, RequeueRow
  <2>2. \A e \in Deliveries \ {d} : RowBudget(e)' /\ \A k \in Keys : TaskBudget(e, k)'
    BY <2>1, <1>a, BudgetKept DEF Budget
  <2>3. limit > 0
    BY <2>1, RecordsAssumption
  <2>4. RecoveredAttempt(d) <= limit
    BY <2>3, <1>a DEF RecoveredAttempt, Budget, RowBudget, Row
  <2>5. RowBudget(d)'
    BY <2>1, <2>3, <2>4, <1>a DEF Budget, RowBudget, Row
  <2>6. \A k \in Keys : TaskBudget(d, k)'
    BY <2>1 DEF Budget, TaskBudget, At, Row
  <2> QED BY <2>2, <2>5, <2>6 DEF Budget
<1>4. ASSUME RecoveryDone(Recoverable) PROVE Budget'
  BY <1>4, <1>a, BudgetKept DEF RecoveryDone, Budget
<1>5. ASSUME NEW d \in Deliveries, SpawnRecovered(d) PROVE Budget'
  <2>1. /\ UNCHANGED <<rec, limit>> /\ next[d] > 0
        /\ task'[d][0] = [step |-> "attempting", attempt |-> next[d]]
        /\ \A e \in Deliveries : next'[e] \in {0, next[e]}
        /\ \A e \in Deliveries \ {d} : task'[e] = task[e]
        /\ \A k \in Keys \ {0} : task'[d][k] = task[d][k]
    BY <1>5, QueueAssumption DEF SpawnRecovered, Lowest, Found, Keys
  <2>2. \A e \in Deliveries : RowBudget(e)'
    BY <2>1, <1>a, BudgetKept DEF Budget
  <2>3. \A e \in Deliveries \ {d}, k \in Keys : TaskBudget(e, k)'
    BY <2>1, <1>a, BudgetKept DEF Budget
  <2>4. \A k \in Keys \ {0} : TaskBudget(d, k)'
    BY <2>1, <1>a, BudgetKept DEF Budget
  <2>5. TaskBudget(d, 0)'
    BY <2>1, <1>a DEF Budget, RowBudget, TaskBudget, InAttempt, At
  <2> QED BY <2>2, <2>3, <2>4, <2>5 DEF Budget
<1>6. ASSUME ProcessEnds, TasksDie PROVE Budget'
  <2>1. /\ UNCHANGED <<rec, limit>>
        /\ \A e \in Deliveries : next'[e] = 0
        /\ \A e \in Deliveries, k \in Keys : task'[e][k].step = "idle"
    BY <1>6 DEF ProcessEnds, TasksDie, NoTasks, NoTask
  <2>2. \A e \in Deliveries : RowBudget(e)'
    BY <2>1, <1>a, BudgetKept DEF Budget
  <2>3. \A e \in Deliveries, k \in Keys : TaskBudget(e, k)'
    BY <2>1 DEF TaskBudget, InAttempt, At
  <2> QED BY <2>2, <2>3 DEF Budget
<1>7. ASSUME Listen PROVE Budget'
  BY <1>7, <1>a, BudgetKept DEF Listen, Budget
<1>8. ASSUME NEW d \in Deliveries, Enqueue(d) PROVE Budget'
  <2>1. /\ phase = "up" /\ UNCHANGED <<limit, next>>
        /\ ~Live(d) /\ rec'[d] = [status |-> "queued", attempts |-> 0]
        /\ task'[d][0] = [step |-> "queueing", attempt |-> 1]
        /\ \A e \in Deliveries \ {d} : rec'[e] = rec[e] /\ task'[e] = task[e]
        /\ \A k \in Keys \ {0} : task'[d][k] = task[d][k]
    BY <1>8, QueueAssumption DEF Enqueue, NextId, InsertRow, Live, LiveStatus, Keys
  <2>2. \A e \in Deliveries \ {d} : RowBudget(e)' /\ \A k \in Keys : TaskBudget(e, k)'
    BY <2>1, <1>a, BudgetKept DEF Budget
  <2>3. limit > 0
    BY <2>1, RecordsAssumption
  <2>4. \A k \in Keys : At(d, k, "idle")
    BY <2>1, <1>a DEF Exclusive, Calm, SoleTask, Busy, Careful
  <2>5. RowBudget(d)'
    BY <2>1, <2>3, <1>a DEF Budget, RowBudget
  <2>6. TaskBudget(d, 0)'
    BY <2>1, <2>3, <1>a DEF TaskBudget, InAttempt, At
  <2>7. \A k \in Keys \ {0} : TaskBudget(d, k)'
    BY <2>1, <2>4, IdleBudget DEF At
  <2> QED BY <2>2, <2>5, <2>6, <2>7 DEF Budget
<1>9. ASSUME NEW d \in Deliveries, Replay(d) PROVE Budget'
  <2>0. PICK n \in Keys : n = replays[d] + 1
    BY <1>9, QueueAssumption DEF Replay, Keys
  <2>1. /\ phase = "up" /\ UNCHANGED <<limit, next>>
        /\ Terminal(d) /\ rec'[d] = [rec[d] EXCEPT !.status = "queued"]
        /\ task'[d][n] = [step |-> "replaying", attempt |-> 1]
        /\ \A e \in Deliveries \ {d} : rec'[e] = rec[e] /\ task'[e] = task[e]
        /\ \A k \in Keys \ {n} : task'[d][k] = task[d][k]
    BY <1>9, <2>0, QueueAssumption DEF Replay, RequeueRow, Careful, Keys
  <2>2. \A e \in Deliveries \ {d} : RowBudget(e)' /\ \A k \in Keys : TaskBudget(e, k)'
    BY <2>1, <1>a, BudgetKept DEF Budget
  <2>3. limit > 0
    BY <2>1, RecordsAssumption
  <2>4. \A k \in Keys : At(d, k, "idle")
    BY <2>1, <1>a
    DEF Exclusive, Calm, SoleTask, Busy, Careful, Terminal, Live, LiveStatus, TerminalStatus
  <2>5. RowBudget(d)'
    BY <2>1, <2>3, <1>a DEF Budget, RowBudget, Row
  <2>6. TaskBudget(d, n)'
    BY <2>1, <2>3, <1>a DEF TaskBudget, InAttempt, At
  <2>7. \A k \in Keys \ {n} : TaskBudget(d, k)'
    BY <2>1, <2>4, IdleBudget DEF At
  <2> QED BY <2>2, <2>5, <2>6, <2>7 DEF Budget
<1>10. ASSUME NEW d \in Deliveries, NEW k \in Keys, Worker(d, k)
       PROVE  Budget'
  <2>1. /\ UNCHANGED <<limit, next>> /\ ~At(d, k, "idle")
        /\ \A e \in Deliveries \ {d} : rec'[e] = rec[e] /\ task'[e] = task[e]
        /\ \A j \in Keys \ {k} : task'[d][j] = task[d][j]
    BY <1>10, WorkerFrame
  <2>2. \A e \in Deliveries \ {d} : RowBudget(e)' /\ \A j \in Keys : TaskBudget(e, j)'
    BY <2>1, <1>a, BudgetKept DEF Budget
  <2>3. RowBudget(d)' /\ TaskBudget(d, k)'
    BY <1>10, WorkerBudget
  <2>4. \A j \in Keys \ {k} : TaskBudget(d, j)'
    <3>1. \A j \in Keys \ {k} : At(d, j, "idle")
      BY <2>1 DEF Exclusive, Calm, SoleTask, Careful
    <3> QED BY <2>1, <3>1 DEF TaskBudget, InAttempt, At
  <2> QED BY <2>2, <2>3, <2>4 DEF Budget
<1>11. ASSUME NEW d \in Deliveries, NEW k \in Keys, AbortSpawn(d, k) PROVE Budget'
  BY <1>11, <1>a DEF AbortSpawn
<1>12. ASSUME Quiet PROVE Budget'
  BY <1>12, <1>1 DEF Quiet
<1> QED
  BY <1>1, <1>2, <1>3, <1>4, <1>5, <1>6, <1>7, <1>8, <1>9, <1>10, <1>11, <1>12
  DEF Next, Startup, RefuseToStart, Crash

LEMMA BudgetAlways == ASSUME Careful PROVE Spec => []Budget
<1>1. Init => Budget
  BY DEF Init, RecordsInit, QueueInit, NoTasks, NoTask, Budget, RowBudget, TaskBudget,
         InAttempt, At, Live, LiveStatus
<1>2. TypeOK /\ TypeOK' /\ Exclusive /\ Budget /\ [Next]_vars => Budget'
  BY BudgetStep
<1>3. QED
  BY <1>1, <1>2, TypeCorrect, ExclusiveAlways, PTL DEF Spec

(* RetriesRemain, for every instance: a row that waits for a retry always  *)
(* has an attempt left.                                                    *)
THEOREM RetriesAlwaysRemain == Spec => []RetriesRemain
<1>1. CASE Careful
  <2>1. Budget => RetriesRemain
    BY DEF Budget, RowBudget, RetriesRemain
  <2> QED BY <1>1, <2>1, BudgetAlways, PTL
<1>2. CASE ~Careful
  <2>1. RetriesRemain
    BY <1>2 DEF RetriesRemain
  <2> QED BY <2>1, PTL
<1> QED BY <1>1, <1>2
----------------------------------------------------------------------------
(* Once recovery is over, each live row whose receiver is configured is    *)
(* worked on or, during startup, about to be.                              *)
OwnedRow(d) ==
    Live(d) /\ ReceiverOf[d] \in configured =>
        /\ phase = "up" => Busy(d)
        /\ phase = "spawning" => Busy(d) \/ next[d] > 0

Owned == \A d \in Deliveries : OwnedRow(d)

LEMMA OwnedKept ==
    ASSUME NEW d \in Deliveries, OwnedRow(d),
           UNCHANGED <<phase, configured>>,
           rec'[d] = rec[d], task'[d] = task[d], next'[d] = next[d]
    PROVE  OwnedRow(d)'
BY DEF OwnedRow, Live, Busy, At

(* A worker that ends leaves its row settled, or its receiver is gone.     *)
LEMMA WorkerOwned ==
    ASSUME TypeOK, Budget, Careful, Exclusive,
           NEW d \in Deliveries, NEW k \in Keys, Worker(d, k) \/ AbortSpawn(d, k)
    PROVE  \/ ~At(d, k, "idle")'
           \/ Terminal(d)'
           \/ ReceiverOf[d] \notin configured
<1> USE DEF TypeOK, RecordsTypeOK, QueueTypeOK, recordVars, Row, At, GoTo, Finish, NoTask
<1>a. ~StorageFails
  BY DEF Careful
<1>1. CASE Spawn(d, k)
  BY <1>1 DEF Spawn
<1>2. CASE Attempt(d, k)
  BY <1>2 DEF Attempt
<1>3. CASE LoopIsEmpty(d, k)
  <2>1. task[d][k].attempt \in 1 .. limit
    BY <1>3 DEF LoopIsEmpty, Budget, TaskBudget
  <2>2. limit \in Nat
    BY RecordsAssumption
  <2> QED BY <1>3, <2>1, <2>2 DEF LoopIsEmpty
<1>4. CASE Send(d, k)
  BY <1>4 DEF Send
<1>5. CASE RecordSuccess(d, k)
  BY <1>5, <1>a DEF RecordSuccess, MarkSucceeded, UpdateRow, Terminal, TerminalStatus
<1>6. CASE RecordDeadLetter(d, k)
  BY <1>6, <1>a DEF RecordDeadLetter, MarkDeadLetter, UpdateRow, Terminal, TerminalStatus
<1>7. CASE RecordRetry(d, k)
  BY <1>7 DEF RecordRetry
<1>8. CASE Wake(d, k)
  BY <1>8 DEF Wake
<1>9. CASE AbortSpawn(d, k)
  BY <1>9, <1>a DEF AbortSpawn
<1> QED
  BY <1>1, <1>2, <1>3, <1>4, <1>5, <1>6, <1>7, <1>8, <1>9 DEF Worker

LEMMA OwnedStep ==
    ASSUME TypeOK, Exclusive, Budget, Careful, Owned, [Next]_vars
    PROVE  Owned'
<1> USE DEF TypeOK, RecordsTypeOK, QueueTypeOK, recordVars, queueVars
<1>1. CASE UNCHANGED vars
  BY <1>1, OwnedKept DEF vars, Owned
<1>2. ASSUME phase' \notin {"spawning", "up"} PROVE Owned'
  BY <1>2 DEF Owned, OwnedRow
<1>3. ASSUME Boot PROVE Owned'
  BY <1>2, <1>3 DEF Boot
<1>4. ASSUME NEW d \in Deliveries, RecoverRow(d, Recoverable) PROVE Owned'
  BY <1>2, <1>4 DEF RecoverRow
<1>5. ASSUME RecoveryDone(Recoverable) PROVE Owned'
  <2>1. \A d \in Deliveries : Live(d) => next[d] > 0
    BY <1>5 DEF RecoveryDone, Recoverable
  <2> QED BY <1>5, <2>1 DEF RecoveryDone, Owned, OwnedRow, Live
<1>6. ASSUME NEW d \in Deliveries, SpawnRecovered(d) PROVE Owned'
  <2>1. /\ UNCHANGED <<phase, configured, rec>>
        /\ task'[d][0].step = "attempting"
        /\ \A e \in Deliveries \ {d} : next'[e] = next[e] /\ task'[e] = task[e]
    BY <1>6, QueueAssumption DEF SpawnRecovered, Keys
  <2>2. 0 \in Keys
    BY QueueAssumption DEF Keys
  <2>3. Busy(d)'
    BY <2>1, <2>2 DEF Busy, At
  <2>4. OwnedRow(d)'
    BY <2>3 DEF OwnedRow
  <2> QED BY <2>1, <2>4, OwnedKept DEF Owned
<1>7. ASSUME ProcessEnds, TasksDie PROVE Owned'
  BY <1>2, <1>7 DEF ProcessEnds
<1>8. ASSUME Listen PROVE Owned'
  <2>1. \A d \in Deliveries : Live(d) /\ ReceiverOf[d] \in configured => Busy(d)
    BY <1>8 DEF Listen, Found, Owned, OwnedRow
  <2> QED BY <1>8, <2>1 DEF Listen, Owned, OwnedRow, Live, Busy, At
<1>9. ASSUME NEW d \in Deliveries, Enqueue(d) PROVE Owned'
  <2>1. /\ UNCHANGED <<phase, configured, next>>
        /\ task'[d][0].step = "queueing"
        /\ \A e \in Deliveries \ {d} : rec'[e] = rec[e] /\ task'[e] = task[e]
    BY <1>9, QueueAssumption DEF Enqueue, InsertRow, Keys
  <2>2. 0 \in Keys
    BY QueueAssumption DEF Keys
  <2>3. Busy(d)'
    BY <2>1, <2>2 DEF Busy, At
  <2>4. OwnedRow(d)'
    BY <2>3 DEF OwnedRow
  <2> QED BY <2>1, <2>4, OwnedKept DEF Owned
<1>10. ASSUME NEW d \in Deliveries, Replay(d) PROVE Owned'
  <2>1. PICK k \in Keys : k = replays[d] + 1
    BY <1>10, QueueAssumption DEF Replay, Keys
  <2>2. /\ UNCHANGED <<phase, configured, next>>
        /\ task'[d][k].step = "replaying"
        /\ \A e \in Deliveries \ {d} : rec'[e] = rec[e] /\ task'[e] = task[e]
    BY <1>10, <2>1 DEF Replay, RequeueRow
  <2>3. Busy(d)'
    BY <2>2 DEF Busy, At
  <2>4. OwnedRow(d)'
    BY <2>3 DEF OwnedRow
  <2> QED BY <2>2, <2>4, OwnedKept DEF Owned
<1>11. ASSUME NEW d \in Deliveries, NEW k \in Keys, Worker(d, k) \/ AbortSpawn(d, k)
       PROVE  Owned'
  <2>1. /\ UNCHANGED <<phase, configured, next>>
        /\ \A e \in Deliveries \ {d} : rec'[e] = rec[e] /\ task'[e] = task[e]
    BY <1>11, WorkerFrame
  <2>2. \/ ~At(d, k, "idle")'
        \/ Terminal(d)'
        \/ ReceiverOf[d] \notin configured
    BY <1>11, WorkerOwned
  <2>3. OwnedRow(d)'
    BY <2>1, <2>2 DEF OwnedRow, Busy, Live, Terminal, LiveStatus, TerminalStatus
  <2> QED BY <2>1, <2>3, OwnedKept DEF Owned
<1>12. ASSUME Quiet PROVE Owned'
  BY <1>12, <1>1 DEF Quiet
<1> QED
  BY <1>1, <1>3, <1>4, <1>5, <1>6, <1>7, <1>8, <1>9, <1>10, <1>11, <1>12
  DEF Next, Startup, RefuseToStart, Crash

(* NoOrphan, for every instance: while the server is up, every row that is *)
(* not settled and whose receiver is configured has a task or a handler.   *)
THEOREM NeverOrphaned == Spec => []NoOrphan
<1>1. CASE Careful
  <2>1. Init => Owned
    BY DEF Init, RecordsInit, QueueInit, Owned, OwnedRow, Live, LiveStatus
  <2>2. TypeOK /\ Exclusive /\ Budget /\ Owned /\ [Next]_vars => Owned'
    BY <1>1, OwnedStep
  <2>3. Owned => NoOrphan
    BY DEF Owned, OwnedRow, NoOrphan
  <2> QED
    BY <1>1, <2>1, <2>2, <2>3, TypeCorrect, ExclusiveAlways, BudgetAlways, PTL DEF Spec
<1>2. CASE ~Careful
  <2>1. NoOrphan
    BY <1>2 DEF NoOrphan
  <2> QED BY <2>1, PTL
<1> QED BY <1>1, <1>2

----------------------------------------------------------------------------
(* What a row that was never replayed and saw one crash at most knows of   *)
(* its attempts: its only task is at its last recorded attempt or past it, *)
(* recovery hands out no earlier one, and a queued row that has attempts   *)
(* was requeued after that crash and is not requeued again.                *)
Counted(d) ==
    /\ \A k \in Keys \ {0} : At(d, k, "idle")
    /\ ~At(d, 0, "idle") => task[d][0].attempt >= rec[d].attempts
    /\ next[d] > 0 => next[d] >= rec[d].attempts
    /\ rec[d].status = "none" => rec[d].attempts = 0
    /\ rec[d].status = "queued" /\ rec[d].attempts > 0 =>
          crashes = 1 /\ phase # "down" /\ (phase = "recovering" => next[d] > 0)

Counts ==
    /\ crashes = 0 /\ phase # "up" => \A d \in Deliveries :
          rec[d].status = "none" /\ next[d] = 0 /\ ~Busy(d)
    /\ \A d \in Deliveries : replays[d] = 0 /\ crashes <= 1 => Counted(d)

(* What else is left alone does not disturb a row's count.                 *)
LEMMA CountedKept ==
    ASSUME TypeOK, NEW d \in Deliveries, Counted(d), rec'[d] = rec[d], crashes' = crashes,
           task'[d] = task[d] \/ \A k \in Keys : task'[d][k].step = "idle",
           next'[d] = next[d], phase' = phase \/ phase' \in {"spawning", "up"}
    PROVE  Counted(d)'
<1>1. 0 \in Keys
  BY QueueAssumption DEF Keys
<1>2. \A k \in Keys : At(d, k, "idle") => At(d, k, "idle")'
  BY DEF At
<1>3. ~At(d, 0, "idle")' => ~At(d, 0, "idle") /\ task'[d][0].attempt = task[d][0].attempt
  BY <1>1 DEF At
<1>4. phase' = "down" => phase = "down"
  OBVIOUS
<1>5. phase' = "recovering" => phase = "recovering"
  OBVIOUS
<1> QED BY <1>1, <1>2, <1>3, <1>4, <1>5 DEF Counted

(* A worker's step leaves its row's count at its own attempt, or alone.    *)
LEMMA WorkerCounts ==
    ASSUME TypeOK, NEW d \in Deliveries, NEW k \in Keys, Worker(d, k) \/ AbortSpawn(d, k)
    PROVE  /\ crashes' = crashes
           /\ rec'[d].status # "none" \/ rec'[d] = rec[d]
           /\ rec'[d].status # "queued" \/ rec'[d] = rec[d]
           /\ rec'[d].attempts \in {rec[d].attempts, task[d][k].attempt}
           /\ \/ task'[d][k].step = "idle"
              \/ task'[d][k].attempt \in {task[d][k].attempt, task[d][k].attempt + 1}
<1> USE DEF TypeOK, RecordsTypeOK, QueueTypeOK, recordVars, GoTo, Finish, NoTask, UpdateRow, Row
<1>1. CASE Spawn(d, k)
  <2>1. UNCHANGED <<rec, crashes>> /\ (GoTo(d, k, "attempting") \/ Finish(d, k))
    BY <1>1 DEF Spawn
  <2>2. task[d][k] \in [step : Steps, attempt : Nat]
    OBVIOUS
  <2>3. GoTo(d, k, "attempting") => task'[d][k] = [task[d][k] EXCEPT !.step = "attempting"]
    OBVIOUS
  <2>4. Finish(d, k) => task'[d][k].step = "idle"
    OBVIOUS
  <2>5. task'[d][k].step = "idle" \/ task'[d][k].attempt = task[d][k].attempt
    BY <2>1, <2>2, <2>3, <2>4
  <2> QED BY <2>1, <2>5
<1>2. CASE Attempt(d, k)
  BY <1>2 DEF Attempt, MarkAttempt
<1>3. CASE LoopIsEmpty(d, k)
  BY <1>3 DEF LoopIsEmpty
<1>4. CASE Send(d, k)
  BY <1>4 DEF Send
<1>5. CASE RecordSuccess(d, k)
  BY <1>5 DEF RecordSuccess, MarkSucceeded
<1>6. CASE RecordDeadLetter(d, k)
  BY <1>6 DEF RecordDeadLetter, MarkDeadLetter
<1>7. CASE RecordRetry(d, k)
  BY <1>7 DEF RecordRetry, MarkRetrying
<1>8. CASE Wake(d, k)
  BY <1>8 DEF Wake
<1>9. CASE AbortSpawn(d, k)
  BY <1>9 DEF AbortSpawn
<1> QED
  BY <1>1, <1>2, <1>3, <1>4, <1>5, <1>6, <1>7, <1>8, <1>9 DEF Worker

LEMMA CountsStep ==
    ASSUME TypeOK, Exclusive, Counts, [Next]_vars
    PROVE  Counts'
<1> USE DEF TypeOK, RecordsTypeOK, QueueTypeOK, recordVars, queueVars
<1>a. crashes \in Nat /\ 0 \in Keys /\ \A d \in Deliveries : replays[d] \in Nat
  BY RecordsAssumption, QueueAssumption DEF Keys
<1>1. CASE UNCHANGED vars
  BY <1>1, CountedKept DEF vars, Counts, Busy, At
<1>2. ASSUME Boot, UNCHANGED <<rec, queueVars>> PROVE Counts'
  BY <1>2 DEF Boot, Counts, Counted, Busy, At
<1>3. ASSUME NEW d \in Deliveries, RecoverRow(d, Recoverable) PROVE Counts'
  <2>1. /\ phase = "recovering" /\ UNCHANGED <<phase, crashes, task, replays>>
        /\ Live(d) /\ next[d] = 0
        /\ rec'[d].status = "queued" /\ rec'[d].attempts = rec[d].attempts
        /\ next'[d] = RecoveredAttempt(d)
        /\ \A e \in Deliveries \ {d} : rec'[e] = rec[e] /\ next'[e] = next[e]
    BY <1>3 DEF RecoverRow, RequeueRow, Lowest, Recoverable
  <2>2. crashes # 0
    BY <2>1 DEF Counts, Live, LiveStatus
  <2>3. \A e \in Deliveries \ {d} : replays'[e] = 0 /\ crashes' <= 1 => Counted(e)'
    BY <2>1, CountedKept DEF Counts
  <2>4. ASSUME replays'[d] = 0, crashes' <= 1 PROVE Counted(d)'
    <3>a. crashes' = crashes /\ replays' = replays
      BY <2>1
    <3>b. rec[d].attempts \in Nat
      BY DEF Row
    <3>1. crashes = 1 /\ replays[d] = 0 /\ rec[d].attempts \in Nat
      BY <1>a, <2>2, <2>4, <3>a, <3>b
    <3>2. Counted(d)
      BY <3>1 DEF Counts
    <3>3. RecoveredAttempt(d) >= rec[d].attempts /\ RecoveredAttempt(d) > 0
      BY <2>1, <3>1, <3>2 DEF RecoveredAttempt, Counted, Live, LiveStatus
    <3> QED BY <2>1, <3>1, <3>2, <3>3 DEF Counted, At
  <2> QED BY <2>1, <2>2, <2>3, <2>4 DEF Counts
<1>4. ASSUME RecoveryDone(Recoverable) PROVE Counts'
  BY <1>4, CountedKept DEF RecoveryDone, Counts, Busy, At
<1>5. ASSUME NEW d \in Deliveries, SpawnRecovered(d) PROVE Counts'
  <2>1. /\ phase = "spawning" /\ UNCHANGED <<phase, rec, crashes, replays>>
        /\ next[d] > 0 /\ next'[d] = 0 /\ task'[d][0].attempt = next[d]
        /\ \A e \in Deliveries \ {d} : next'[e] = next[e] /\ task'[e] = task[e]
        /\ \A k \in Keys \ {0} : task'[d][k] = task[d][k]
    BY <1>5, <1>a DEF SpawnRecovered, Lowest, Found
  <2>2. \A e \in Deliveries \ {d} : replays'[e] = 0 /\ crashes' <= 1 => Counted(e)'
    BY <2>1, CountedKept DEF Counts
  <2>3. replays'[d] = 0 /\ crashes' <= 1 => Counted(d)'
    BY <2>1 DEF Counts, Counted, At
  <2>4. crashes # 0
    BY <2>1 DEF Counts
  <2> QED BY <2>1, <2>2, <2>3, <2>4 DEF Counts
<1>6. ASSUME ProcessEnds, TasksDie PROVE Counts'
  <2>1. /\ UNCHANGED <<rec, replays>> /\ crashes' = crashes + 1
        /\ \A e \in Deliveries : next'[e] = 0
        /\ \A e \in Deliveries, k \in Keys : task'[e][k].step = "idle"
    BY <1>6 DEF ProcessEnds, TasksDie, NoTasks, NoTask
  <2>2. ASSUME NEW d \in Deliveries, replays'[d] = 0, crashes' <= 1 PROVE Counted(d)'
    <3>1. Counted(d) /\ crashes = 0 /\ crashes' = 1 /\ rec[d].attempts \in Nat
      BY <1>a, <2>1, <2>2 DEF Counts, Row
    <3> QED BY <1>a, <2>1, <3>1 DEF Counted, At
  <2>3. crashes' # 0
    BY <1>a, <2>1
  <2> QED BY <2>2, <2>3 DEF Counts
<1>7. ASSUME Listen PROVE Counts'
  BY <1>7, CountedKept DEF Listen, Counts
<1>8. ASSUME NEW d \in Deliveries, Enqueue(d) PROVE Counts'
  <2>1. /\ phase = "up" /\ UNCHANGED <<phase, crashes, next, replays>>
        /\ rec'[d] = [status |-> "queued", attempts |-> 0]
        /\ task'[d][0].attempt = 1
        /\ \A e \in Deliveries \ {d} : rec'[e] = rec[e] /\ task'[e] = task[e]
        /\ \A k \in Keys \ {0} : task'[d][k] = task[d][k]
    BY <1>8, <1>a DEF Enqueue, InsertRow
  <2>2. \A e \in Deliveries \ {d} : replays'[e] = 0 /\ crashes' <= 1 => Counted(e)'
    BY <2>1, CountedKept DEF Counts
  <2>3. replays'[d] = 0 /\ crashes' <= 1 => Counted(d)'
    BY <2>1 DEF Counts, Counted, At
  <2> QED BY <2>1, <2>2, <2>3 DEF Counts
<1>9. ASSUME NEW d \in Deliveries, Replay(d) PROVE Counts'
  <2>1. /\ phase = "up" /\ UNCHANGED <<phase, crashes, next>> /\ replays'[d] # 0
        /\ \A e \in Deliveries \ {d} :
              rec'[e] = rec[e] /\ task'[e] = task[e] /\ replays'[e] = replays[e]
    BY <1>9, <1>a DEF Replay, RequeueRow
  <2>2. \A e \in Deliveries \ {d} : replays'[e] = 0 /\ crashes' <= 1 => Counted(e)'
    BY <2>1, CountedKept DEF Counts
  <2> QED BY <2>1, <2>2 DEF Counts
<1>10. ASSUME NEW d \in Deliveries, NEW k \in Keys, Worker(d, k) \/ AbortSpawn(d, k)
       PROVE  Counts'
  <2>1. /\ UNCHANGED <<phase, crashes, next, replays>> /\ ~At(d, k, "idle")
        /\ \A e \in Deliveries \ {d} : rec'[e] = rec[e] /\ task'[e] = task[e]
        /\ \A j \in Keys \ {k} : task'[d][j] = task[d][j]
    BY <1>10, WorkerFrame, WorkerCounts
  <2>2. \A e \in Deliveries \ {d} : replays'[e] = 0 /\ crashes' <= 1 => Counted(e)'
    BY <2>1, CountedKept DEF Counts
  <2>3. ASSUME replays'[d] = 0, crashes' <= 1 PROVE Counted(d)'
    <3>1. Counted(d) /\ k = 0
      BY <2>1, <2>3 DEF Counts, Counted
    <3>2. /\ rec'[d].status # "none" \/ rec'[d] = rec[d]
          /\ rec'[d].status # "queued" \/ rec'[d] = rec[d]
          /\ rec'[d].attempts \in {rec[d].attempts, task[d][0].attempt}
          /\ \/ task'[d][0].step = "idle"
             \/ task'[d][0].attempt \in {task[d][0].attempt, task[d][0].attempt + 1}
      BY <1>10, <3>1, WorkerCounts
    <3>3. task[d][0].attempt >= rec[d].attempts
      BY <2>1, <3>1 DEF Counted
    <3>4. /\ rec[d].attempts \in Nat /\ task[d][0].attempt \in Nat /\ next[d] \in Nat
      BY <1>a DEF Row
    <3>5. next[d] = 0
      <4>1. SoleTask(d) /\ Busy(d)
        BY <2>1, <2>3 DEF Exclusive, Calm, Busy
      <4> QED BY <3>4, <4>1 DEF SoleTask
    <3> QED BY <2>1, <3>1, <3>2, <3>3, <3>4, <3>5 DEF Counted, At
  <2>4. crashes = 0 => phase = "up"
    BY <2>1 DEF Counts, Busy
  <2> QED BY <2>1, <2>2, <2>3, <2>4 DEF Counts
<1>11. ASSUME Quiet PROVE Counts'
  BY <1>11, <1>1 DEF Quiet
<1> QED
  BY <1>1, <1>2, <1>3, <1>4, <1>5, <1>6, <1>7, <1>8, <1>9, <1>10, <1>11
  DEF Next, Startup, RefuseToStart, Crash

LEMMA CountsAlways == Spec => []Counts
<1>1. Init => Counts
  BY QueueAssumption
  DEF Init, RecordsInit, QueueInit, NoTasks, NoTask, Counts, Counted, Busy, At, Keys
<1>2. TypeOK /\ Exclusive /\ Counts /\ [Next]_vars => Counts'
  BY CountsStep
<1>3. QED
  BY <1>1, <1>2, TypeCorrect, ExclusiveAlways, PTL DEF Spec

(* CountSurvivesACrash, for every instance, overlapping replays and        *)
(* failing storage calls included: only a replay or a second crash can     *)
(* make attempt_count fall.                                                *)
THEOREM CountAlwaysSurvives == Spec => CountSurvivesACrash
<1>1. ASSUME TypeOK, Exclusive, Counts, [Next]_vars, NEW d \in Deliveries,
             rec'[d].attempts < rec[d].attempts
      PROVE  replays[d] > 0 \/ crashes > 1
  <2> USE <1>1 DEF TypeOK, RecordsTypeOK, QueueTypeOK, recordVars, queueVars
  <2>1. crashes \in Nat /\ replays[d] \in Nat
    BY RecordsAssumption, QueueAssumption DEF Keys
  <2>2. SUFFICES ASSUME replays[d] = 0, crashes <= 1 PROVE FALSE
    BY <2>1
  <2>3. Counted(d) /\ rec[d] \in Row
    BY <2>2 DEF Counts
  <2>4. ASSUME NEW e \in Deliveries, NEW k \in Keys, Worker(e, k) \/ AbortSpawn(e, k)
        PROVE  FALSE
    <3>1. e = d /\ ~At(d, k, "idle")
      BY <2>3, <2>4, WorkerFrame DEF Row
    <3>2. k = 0
      BY <2>3, <3>1 DEF Counted
    <3>3. rec'[d].attempts \in {rec[d].attempts, task[d][0].attempt}
      BY <2>4, <3>1, <3>2, WorkerCounts
    <3> QED BY <2>3, <3>1, <3>2, <3>3 DEF Counted, Row
  <2>5. ASSUME NEW e \in Deliveries, RecoverRow(e, Recoverable) \/ Replay(e) PROVE FALSE
    <3>1. rec' = [rec EXCEPT ![e] = [rec[e] EXCEPT !.status = "queued"]] /\ rec[e] \in Row
      BY <2>5 DEF RecoverRow, Replay, RequeueRow
    <3>2. rec'[d].attempts = rec[d].attempts
      BY <3>1 DEF Row
    <3> QED BY <2>3, <3>2 DEF Row
  <2>6. ASSUME NEW e \in Deliveries, Enqueue(e) PROVE FALSE
    <3>1. rec[e].status = "none" /\ rec' = [rec EXCEPT ![e] = [status |-> "queued", attempts |-> 0]]
      BY <2>6 DEF Enqueue, NextId, InsertRow
    <3> QED BY <2>3, <3>1 DEF Counted, Row
  <2>7. rec' = rec
    BY <2>4, <2>5, <2>6
    DEF Next, Startup, Boot, RecoveryDone, SpawnRecovered, RefuseToStart,
        ProcessEnds, TasksDie, Listen, Crash, Quiet, vars
  <2> QED BY <2>3, <2>7 DEF Row
<1>2. TypeOK /\ Exclusive /\ Counts /\ [Next]_vars =>
         [\A d \in Deliveries :
             rec'[d].attempts < rec[d].attempts => replays[d] > 0 \/ crashes > 1]_vars
  BY <1>1
<1>3. QED
  BY <1>2, TypeCorrect, ExclusiveAlways, CountsAlways, PTL DEF Spec, CountSurvivesACrash
==============================================================================
