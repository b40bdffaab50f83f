------------------------ MODULE AlertEscalationProofs ------------------------
(***************************************************************************)
(* Theorems about AlertEscalation, for any number of groups, events,       *)
(* routes, tasks, crashes and faults, and any policies.                    *)
(***************************************************************************)
EXTENDS AlertEscalation, TLAPS

LEMMA ConstantTypes ==
    /\ MaxEvents \in Nat /\ MaxRoutes \in Nat /\ MaxTasks \in Nat
    /\ MaxCrashes \in Nat /\ MaxFaults \in Nat /\ Horizon \in Nat
BY EscalationAssumption

(* Step i of the policy in use is a policy step.                           *)
LEMMA PolicyStep ==
    ASSUME policy \in Policies, NEW i \in 1 .. Len(policy)
    PROVE  /\ policy[i] \in PolicySteps
           /\ policy[i].stopOnAck \in BOOLEAN /\ policy[i].stopOnResolve \in BOOLEAN
           /\ policy[i].delay \in Nat /\ policy[i].rows \in Nat
<1>1. policy \in Seq(PolicySteps)
  BY EscalationAssumption
<1>2. policy[i] \in PolicySteps
  BY <1>1
<1> QED BY <1>2 DEF PolicySteps

(* Changing the status of a task keeps its type and its other columns.     *)
LEMMA StatusChange ==
    ASSUME NEW row \in TaskRow,
           NEW status \in {"processing", "completed", "canceled", "failed"}
    PROVE  /\ [row EXCEPT !.status = status] \in TaskRow
           /\ [row EXCEPT !.status = status].status = status
           /\ [row EXCEPT !.status = status].group = row.group
           /\ [row EXCEPT !.status = status].step = row.step
           /\ [row EXCEPT !.status = status].stopOnAck = row.stopOnAck
BY DEF TaskRow

(* A scheduled step is a well-typed row.                                   *)
LEMMA ScheduledRow ==
    ASSUME TypeOK, policy \in Policies, NEW i \in 1 .. Len(policy), NEW g \in Groups
    PROVE  /\ Scheduled(g, i) \in TaskRow
           /\ Scheduled(g, i).status = "scheduled"
           /\ Scheduled(g, i).group = g
           /\ Scheduled(g, i).step = i
           /\ Scheduled(g, i).stopOnAck = policy[i].stopOnAck
<1>1. /\ policy[i].stopOnAck \in BOOLEAN /\ policy[i].stopOnResolve \in BOOLEAN
      /\ now + policy[i].delay \in Nat
  BY PolicyStep DEF TypeOK
<1>2. i \in Nat
  OBVIOUS
<1> QED BY <1>1, <1>2 DEF Scheduled, TaskRow
----------------------------------------------------------------------------
(* What goes with the types: open requests and executed tasks belong to a  *)
(* running process, and task ids are given out without gaps.               *)
OpenRequest(r) ==
    /\ up /\ policy # <<>>
    /\ request[r].group \in Groups
    /\ request[r].left > 0

Handling ==
    /\ up => policy \in Policies
    /\ \A r \in Events : request[r].step = "queueing" => OpenRequest(r)
    /\ \A t \in Tasks : Exists(t) => tasks[t].group \in Groups /\ tasks[t].step > 0
    /\ \A s, t \in Tasks : s < t /\ Exists(t) => Exists(s)
    /\ worker # Idle =>
          up /\ worker.task \in Tasks /\ tasks[worker.task].status = "processing"

(* The effect of a step on the task table: rows change their status, or    *)
(* one step is inserted besides.                                           *)
Became(t) ==
    \/ tasks'[t] = tasks[t]
    \/ /\ tasks[t].status = "scheduled"
       /\ \E status \in {"processing", "canceled"} :
             tasks'[t] = [tasks[t] EXCEPT !.status = status]
    \/ /\ worker # Idle /\ t = worker.task
       /\ \E status \in {"completed", "failed"} :
             tasks'[t] = [tasks[t] EXCEPT !.status = status]

Inserts(n, g, i, c) ==
    /\ n \in Tasks /\ NewTaskId(n) /\ policy \in Policies
    /\ g \in Groups /\ i \in 1 .. Len(policy) /\ Allows(g, policy[i])
    /\ tasks'[n] = Scheduled(g, i)
    /\ origin' = [origin EXCEPT ![n] = [chain |-> c, incident |-> group[g].incident]]

(* A chain begins with its first task, or goes on when the worker has      *)
(* completed the step before.                                              *)
Begins(n) == \E g \in Groups : Inserts(n, g, 1, n)

GoesOn(n) ==
    /\ worker # Idle
    /\ Inserts(n, tasks[worker.task].group, tasks[worker.task].step + 1,
               origin[worker.task].chain)
    /\ tasks'[worker.task] = [tasks[worker.task] EXCEPT !.status = "completed"]

TableStep ==
    /\ DOMAIN tasks' = Tasks /\ tasks' = [t \in Tasks |-> tasks'[t]]
    /\ \/ (\A t \in Tasks : Became(t)) /\ origin' = origin
       \/ \E n \in Tasks :
             /\ \A t \in Tasks \ {n} : Became(t)
             /\ Begins(n) \/ GoesOn(n)

LEMMA TableUnchanged ==
    ASSUME TypeOK, UNCHANGED <<tasks, origin>>
    PROVE  TableStep
BY DEF TableStep, Became, TypeOK

LEMMA EveryTableStep ==
    ASSUME TypeOK, Handling, [Next]_vars
    PROVE  TableStep
<1> USE DEF taskVars
<1>1. CASE UNCHANGED vars \/ Boot \/ Crash \/ Tick \/ QueueRow
  BY <1>1, TableUnchanged DEF vars, Boot, Crash, Tick, QueueRow
<1>2. ASSUME NEW r \in Events, NEW g \in Groups, NEW status \in {"active", "resolved"},
             NEW routes \in 0 .. MaxRoutes, StoreEvent(r, g, status, routes)
      PROVE  TableStep
  BY <1>2, TableUnchanged DEF StoreEvent
<1>3. ASSUME NEW r \in Events, NEW n \in Tasks, QueueEscalation(r, n)
      PROVE  TableStep
  <2>1. /\ request[r].group \in Groups
        /\ policy \in Policies /\ 1 \in 1 .. Len(policy)
    <3>1. policy \in Seq(PolicySteps) /\ policy # <<>>
      BY <1>3, EscalationAssumption DEF QueueEscalation, Handling, OpenRequest
    <3> QED BY <1>3, <3>1 DEF QueueEscalation, Handling, OpenRequest
  <2>2. CASE UNCHANGED <<tasks, origin>>
    BY <2>2, TableUnchanged
  <2>3. CASE Allows(request[r].group, policy[1])
             /\ Schedule(request[r].group, 1, n, n, tasks)
    <3>1. /\ tasks' = [tasks EXCEPT ![n] = Scheduled(request[r].group, 1)]
          /\ origin' = [origin EXCEPT ![n] =
                [chain |-> n, incident |-> group[request[r].group].incident]]
      BY <2>3 DEF Schedule
    <3>2. Begins(n)
      BY <1>3, <2>1, <2>3, <3>1 DEF Begins, Inserts, QueueEscalation, TypeOK
    <3>3. \A t \in Tasks \ {n} : Became(t)
      BY <3>1 DEF Became, TypeOK
    <3>4. tasks' = [t \in Tasks |-> tasks'[t]]
      BY <3>1 DEF TypeOK
    <3> QED BY <3>2, <3>3, <3>4 DEF TableStep
  <2> QED
    BY <1>3, <2>2, <2>3 DEF QueueEscalation, Schedule
<1>4. ASSUME NEW S \in SUBSET Tasks, tasks' = Canceled(S), origin' = origin
      PROVE  TableStep
  <2>1. \A t \in Tasks : Became(t)
    BY <1>4 DEF Canceled, Became
  <2>2. tasks' = [t \in Tasks |-> tasks'[t]]
    BY <1>4 DEF Canceled
  <2> QED BY <1>4, <2>1, <2>2 DEF TableStep
<1>5. ASSUME NEW g \in Groups, Acknowledge(g) \/ Resolve(g)
      PROVE  TableStep
  <2>1. UNCHANGED <<tasks, origin>>
        \/ \E S \in SUBSET Tasks : tasks' = Canceled(S) /\ origin' = origin
    BY <1>5 DEF Acknowledge, Resolve, TasksOf
  <2> QED BY <2>1, <1>4, TableUnchanged
<1>6. ASSUME NEW u \in Tasks, Claim(u)
      PROVE  TableStep
  <2>1. \A t \in Tasks : Became(t)
    BY <1>6 DEF Claim, Claimable, Became, TypeOK
  <2>2. tasks' = [t \in Tasks |-> tasks'[t]] /\ origin' = origin
    BY <1>6 DEF Claim, TypeOK
  <2> QED BY <2>1, <2>2 DEF TableStep
<1>7. CASE FailTask
  <2>1. CASE UNCHANGED tasks
    BY <1>7, <2>1, TableUnchanged DEF FailTask
  <2>2. CASE tasks' = [tasks EXCEPT ![worker.task].status = "failed"]
    <3>1. \A t \in Tasks : Became(t)
      BY <1>7, <2>2 DEF FailTask, Became, Handling, TypeOK
    <3>2. tasks' = [t \in Tasks |-> tasks'[t]] /\ origin' = origin
      BY <1>7, <2>2 DEF FailTask, TypeOK
    <3> QED BY <3>1, <3>2 DEF TableStep
  <2> QED BY <1>7, <2>1, <2>2 DEF FailTask
<1>8. ASSUME NEW n \in Tasks, CompleteTask(n)
      PROVE  TableStep
  <2> DEFINE w == worker.task
             g == tasks[w].group
             i == tasks[w].step + 1
             completed == [tasks EXCEPT ![w].status = "completed"]
  <2>1. /\ worker # Idle /\ w \in Tasks /\ tasks[w].status = "processing"
        /\ policy \in Policies /\ g \in Groups /\ tasks[w].step \in Nat \ {0}
    BY <1>8 DEF CompleteTask, Handling, TypeOK, TaskRow, Exists
  <2>2. CASE UNCHANGED <<tasks, origin>>
    BY <2>2, TableUnchanged
  <2>3. CASE tasks' = completed /\ UNCHANGED origin
    <3>1. \A t \in Tasks : Became(t)
      BY <2>1, <2>3 DEF Became, TypeOK
    <3>2. tasks' = [t \in Tasks |-> tasks'[t]]
      BY <2>3 DEF TypeOK
    <3> QED BY <2>3, <3>1, <3>2 DEF TableStep
  <2>4. CASE /\ NewTaskId(n) /\ i \in 1 .. Len(policy) /\ Allows(g, policy[i])
             /\ Schedule(g, i, n, origin[w].chain, completed)
    <3>1. /\ tasks' = [completed EXCEPT ![n] = Scheduled(g, i)]
          /\ origin' = [origin EXCEPT ![n] =
                [chain |-> origin[w].chain, incident |-> group[g].incident]]
      BY <2>4 DEF Schedule
    <3>2. n # w
      BY <2>1, <2>4 DEF NewTaskId
    <3>3. GoesOn(n)
      BY <2>1, <2>4, <3>1, <3>2 DEF GoesOn, Inserts, TypeOK
    <3>4. \A t \in Tasks \ {n} : Became(t)
      BY <2>1, <3>1 DEF Became, TypeOK
    <3>5. tasks' = [t \in Tasks |-> tasks'[t]]
      BY <3>1 DEF TypeOK
    <3> QED BY <3>3, <3>4, <3>5 DEF TableStep
  <2>5. CASE tasks[w].step < Len(policy) /\ NewTaskId(n)
             /\ Schedule(g, i, n, origin[w].chain, completed)
    <3>1. i \in 1 .. Len(policy)
      <4>1. policy \in Seq(PolicySteps)
        BY <2>1, EscalationAssumption
      <4>2. Len(policy) \in Nat
        BY <4>1
      <4> QED BY <2>1, <2>5, <4>2
    <3> QED BY <2>3, <2>4, <2>5, <3>1 DEF Schedule
  <2> QED BY <1>8, <2>2, <2>3, <2>5 DEF CompleteTask
<1> QED
  BY <1>1, <1>2, <1>3, <1>5, <1>6, <1>7, <1>8 DEF Next, Handler, Worker
----------------------------------------------------------------------------
(* Type correctness.                                                       *)
LEMMA TableTypes ==
    ASSUME TypeOK, Handling, TableStep
    PROVE  /\ tasks' \in [Tasks -> TaskRow]
           /\ origin' \in [Tasks -> [chain : {0} \cup Tasks, incident : Nat]]
<1>1. ASSUME NEW t \in Tasks, Became(t) PROVE tasks'[t] \in TaskRow
  <2>1. tasks[t] \in TaskRow
    BY DEF TypeOK
  <2>2. tasks'[t] = tasks[t]
        \/ \E status \in {"processing", "canceled", "completed", "failed"} :
              tasks'[t] = [tasks[t] EXCEPT !.status = status]
    BY <1>1 DEF Became
  <2> QED BY <2>1, <2>2, StatusChange
<1>2. ASSUME NEW n \in Tasks, Begins(n) \/ GoesOn(n)
      PROVE  tasks'[n] \in TaskRow
             /\ origin' \in [Tasks -> [chain : {0} \cup Tasks, incident : Nat]]
  <2>1. PICK g, i, c : Inserts(n, g, i, c) /\ c \in {0} \cup Tasks
    <3>1. CASE Begins(n)
      BY <3>1 DEF Begins
    <3>2. CASE GoesOn(n)
      <4>1. origin[worker.task].chain \in {0} \cup Tasks
        BY <3>2 DEF GoesOn, Handling, TypeOK
      <4> QED BY <3>2, <4>1 DEF GoesOn
    <3> QED BY <1>2, <3>1, <3>2
  <2>2. group[g].incident \in Nat
    BY <2>1 DEF Inserts, TypeOK, GroupRow
  <2> QED BY <2>1, <2>2, ScheduledRow DEF Inserts, TypeOK
<1> QED BY <1>1, <1>2 DEF TableStep, TypeOK

LEMMA GroupTypes ==
    ASSUME TypeOK, NEW g \in Groups
    PROVE  /\ \A status \in {"active", "resolved"} : Upserted(group[g], status) \in GroupRow
           /\ [group EXCEPT ![g].acknowledged = TRUE] \in [Groups -> GroupRow]
           /\ [group EXCEPT ![g].status = "resolved"] \in [Groups -> GroupRow]
<1>1. group[g] \in GroupRow
  BY DEF TypeOK
<1>2. \A status \in {"active", "resolved"} : Upserted(group[g], status) \in GroupRow
  BY <1>1 DEF Upserted, GroupRow
<1>3. /\ [group[g] EXCEPT !.acknowledged = TRUE] \in GroupRow
      /\ [group[g] EXCEPT !.status = "resolved"] \in GroupRow
  BY <1>1 DEF GroupRow
<1> QED BY <1>2, <1>3 DEF TypeOK

LEMMA ClosedRequest ==
    ASSUME NEW row \in RequestRow
    PROVE  [row EXCEPT !.step = "done", !.left = 0] \in RequestRow
<1>1. [row EXCEPT !.step = "done"] \in RequestRow
  BY DEF RequestRow
<1>2. \A r \in RequestRow : [r EXCEPT !.left = 0] \in RequestRow
  BY ConstantTypes DEF RequestRow
<1> QED BY <1>1, <1>2

LEMMA StoredRequest ==
    ASSUME NEW g \in Groups, NEW routes \in 0 .. MaxRoutes,
           NEW step \in {"queueing", "done", "lost"}
    PROVE  [step |-> step, group |-> g, left |-> routes] \in RequestRow
BY ConstantTypes DEF RequestRow

LEMMA TypesStep ==
    ASSUME TypeOK, Handling, [Next]_vars
    PROVE  TypeOK'
<1>1. /\ tasks' \in [Tasks -> TaskRow]
      /\ origin' \in [Tasks -> [chain : {0} \cup Tasks, incident : Nat]]
  BY EveryTableStep, TableTypes
<1> USE ConstantTypes DEF processVars, taskVars
<1> DEFINE Rest == /\ up \in BOOLEAN
                   /\ policy \in Policies \cup {<<>>}
                   /\ crashes \in 0 .. MaxCrashes
                   /\ faults \in 0 .. MaxFaults
                   /\ group \in [Groups -> GroupRow]
                   /\ request \in [Events -> RequestRow]
                   /\ worker \in [task : {0} \cup Tasks, rows : Nat]
                   /\ now \in Nat
                   /\ queued \in [Tasks -> Nat]
<1>2. Rest
  BY DEF TypeOK
<1>3. Rest'
  <2> USE <1>2
  <2>f. Whole \/ Fault => faults' \in 0 .. MaxFaults
    BY DEF Whole, Fault
  <2>1. CASE UNCHANGED vars
    BY <2>1 DEF vars
  <2>2. CASE Boot
    BY <2>2 DEF Boot
  <2>3. CASE Crash
    <3>1. \A r \in Events : [request[r] EXCEPT !.step = "done", !.left = 0] \in RequestRow
      BY ClosedRequest DEF TypeOK
    <3>2. request' \in [Events -> RequestRow]
      BY <2>3, <3>1 DEF Crash
    <3>3. worker' \in [task : {0} \cup Tasks, rows : Nat]
      BY <2>3 DEF Crash, Idle
    <3>4. crashes' \in 0 .. MaxCrashes
      <4>1. crashes' = crashes + 1 /\ crashes < MaxCrashes
        BY <2>3 DEF Crash
      <4> QED BY <4>1
    <3>5. /\ up' \in BOOLEAN /\ policy' \in Policies \cup {<<>>}
          /\ faults' \in 0 .. MaxFaults /\ group' \in [Groups -> GroupRow]
          /\ now' \in Nat /\ queued' \in [Tasks -> Nat]
      BY <2>3 DEF Crash
    <3> QED BY <3>2, <3>3, <3>4, <3>5
  <2>4. ASSUME NEW r \in Events, NEW g \in Groups, NEW status \in {"active", "resolved"},
               NEW routes \in 0 .. MaxRoutes, StoreEvent(r, g, status, routes)
        PROVE  Rest'
    <3>1. request' \in [Events -> RequestRow]
      <4>1. PICK row \in RequestRow : request' = [request EXCEPT ![r] = row]
        <5>1. CASE request' = [request EXCEPT ![r] =
                     [step |-> IF routes = 0 THEN "done" ELSE "queueing",
                      group |-> g, left |-> routes]]
          BY <5>1, StoredRequest
        <5>2. CASE request' = [request EXCEPT ![r] =
                     [step |-> "lost", group |-> g, left |-> 0]]
          <6>1. [step |-> "lost", group |-> g, left |-> 0] \in RequestRow
            BY DEF RequestRow
          <6> QED BY <5>2, <6>1
        <5> QED BY <2>4, <5>1, <5>2 DEF StoreEvent
      <4> QED BY <4>1
    <3>2. group' \in [Groups -> GroupRow]
      BY <2>4, GroupTypes DEF StoreEvent
    <3> QED BY <2>f, <2>4, <3>1, <3>2 DEF StoreEvent
  <2>5. ASSUME NEW r \in Events, NEW n \in Tasks, QueueEscalation(r, n)
        PROVE  Rest'
    <3>1. request[r].left \in 1 .. MaxRoutes
      BY <2>5 DEF QueueEscalation, Handling, OpenRequest, RequestRow
    <3>2. request' \in [Events -> RequestRow]
      BY <2>5, <3>1 DEF QueueEscalation, RequestRow
    <3> QED BY <2>f, <2>5, <3>2 DEF QueueEscalation
  <2>6. ASSUME NEW g \in Groups, Acknowledge(g) \/ Resolve(g)
        PROVE  Rest'
    <3>1. group' \in [Groups -> GroupRow]
      BY <2>6, GroupTypes DEF Acknowledge, Resolve
    <3> QED BY <2>f, <2>6, <3>1 DEF Acknowledge, Resolve
  <2>7. ASSUME NEW t \in Tasks, Claim(t)
        PROVE  Rest'
    BY <2>f, <2>7 DEF Claim, Idle
  <2>8. CASE FailTask
    BY <2>f, <2>8 DEF FailTask, Idle
  <2>9. CASE QueueRow
    BY <2>f, <2>9 DEF QueueRow, Idle
  <2>10. ASSUME NEW n \in Tasks, CompleteTask(n)
         PROVE  Rest'
    BY <2>f, <2>10 DEF CompleteTask, Idle
  <2>11. CASE Tick
    BY <2>11 DEF Tick
  <2> QED
    BY <2>1, <2>2, <2>3, <2>4, <2>5, <2>6, <2>7, <2>8, <2>9, <2>10, <2>11
    DEF Next, Handler, Worker
<1> QED BY <1>1, <1>3 DEF TypeOK
----------------------------------------------------------------------------
(* Rows neither disappear nor leave gaps.                                  *)
LEMMA RowsStay ==
    ASSUME TypeOK, Handling, TableStep
    PROVE  /\ \A t \in Tasks : Exists(t) => Exists(t)'
           /\ \A t \in Tasks : Exists(t)' => tasks'[t].group \in Groups /\ tasks'[t].step > 0
           /\ \A s, t \in Tasks : s < t /\ Exists(t)' => Exists(s)'
<1>1. ASSUME NEW t \in Tasks, Became(t)
      PROVE  /\ Exists(t)' <=> Exists(t)
             /\ tasks'[t].group = tasks[t].group /\ tasks'[t].step = tasks[t].step
  <2>1. tasks[t] \in TaskRow
    BY DEF TypeOK
  <2>2. CASE tasks'[t] = tasks[t]
    BY <2>2 DEF Exists
  <2>3. CASE \E status \in {"processing", "canceled", "completed", "failed"} :
                tasks'[t] = [tasks[t] EXCEPT !.status = status]
             /\ tasks[t].status # "none"
    BY <2>1, <2>3, StatusChange DEF Exists
  <2> QED BY <1>1, <2>2, <2>3 DEF Became, Handling
<1>2. ASSUME NEW n \in Tasks, Begins(n) \/ GoesOn(n)
      PROVE  /\ NewTaskId(n) /\ Exists(n)'
             /\ tasks'[n].group \in Groups /\ tasks'[n].step > 0
  <2>1. PICK g, i, c : Inserts(n, g, i, c)
    BY <1>2 DEF Begins, GoesOn
  <2> QED BY <2>1, ScheduledRow DEF Inserts, Exists
<1>3. CASE \A t \in Tasks : Became(t)
  BY <1>1, <1>3 DEF Handling
<1>4. ASSUME NEW n \in Tasks, \A t \in Tasks \ {n} : Became(t), Begins(n) \/ GoesOn(n)
      PROVE  /\ \A t \in Tasks : Exists(t) => Exists(t)'
             /\ \A t \in Tasks : Exists(t)' => tasks'[t].group \in Groups /\ tasks'[t].step > 0
             /\ \A s, t \in Tasks : s < t /\ Exists(t)' => Exists(s)'
  <2>1. NewTaskId(n) /\ Exists(n)' /\ tasks'[n].group \in Groups /\ tasks'[n].step > 0
    BY <1>2, <1>4
  <2>2. \A t \in Tasks \ {n} : /\ Exists(t)' <=> Exists(t)
                              /\ tasks'[t].group = tasks[t].group
                              /\ tasks'[t].step = tasks[t].step
    BY <1>1, <1>4
  <2>3. \A s \in Tasks : s < n => Exists(s)
    BY <2>1 DEF NewTaskId, Exists, Tasks
  <2> QED BY <2>1, <2>2, <2>3 DEF Handling
<1> QED BY <1>3, <1>4 DEF TableStep

LEMMA RequestsOpen ==
    ASSUME TypeOK, Handling, [Next]_vars, NEW q \in Events, request'[q].step = "queueing"
    PROVE  OpenRequest(q)'
<1>1. request[q] \in RequestRow
  BY DEF TypeOK
<1>2. CASE UNCHANGED <<up, policy, request>>
  BY <1>2 DEF Handling, OpenRequest
<1>3. CASE Boot
  BY <1>3 DEF Boot, Handling, OpenRequest
<1>4. CASE Crash
  <2>1. request'[q] = IF request[q].step = "queueing"
                         THEN [request[q] EXCEPT !.step = "done", !.left = 0]
                         ELSE request[q]
    BY <1>4 DEF Crash
  <2> QED BY <1>1, <2>1
<1>5. ASSUME NEW r \in Events, NEW g \in Groups, NEW status \in {"active", "resolved"},
             NEW routes \in 0 .. MaxRoutes, StoreEvent(r, g, status, routes)
      PROVE  OpenRequest(q)'
  <2>1. CASE r # q
    <3>1. request'[q] = request[q]
      BY <1>5, <2>1 DEF StoreEvent, TypeOK
    <3> QED BY <1>5, <3>1 DEF StoreEvent, Handling, OpenRequest, processVars
  <2>2. CASE r = q
    <3>1. /\ request'[q] = [step |-> IF routes = 0 THEN "done" ELSE "queueing",
                            group |-> g, left |-> routes]
          \/ request'[q] = [step |-> "lost", group |-> g, left |-> 0]
      BY <1>5, <2>2 DEF StoreEvent, TypeOK
    <3>2. routes # 0 /\ request'[q].group = g /\ request'[q].left = routes
      BY <3>1
    <3> QED BY <1>5, <3>2, ConstantTypes DEF StoreEvent, OpenRequest, processVars
  <2> QED BY <2>1, <2>2
<1>6. ASSUME NEW r \in Events, NEW n \in Tasks, QueueEscalation(r, n)
      PROVE  OpenRequest(q)'
  <2>1. CASE r # q
    <3>1. request'[q] = request[q]
      BY <1>6, <2>1 DEF QueueEscalation, TypeOK
    <3> QED BY <1>6, <3>1 DEF QueueEscalation, Handling, OpenRequest, processVars
  <2>2. CASE r = q
    <3>1. OpenRequest(q) /\ request[q].left \in 0 .. MaxRoutes
      BY <1>1, <1>6, <2>2 DEF QueueEscalation, Handling, RequestRow
    <3>2. request'[q].group = request[q].group
          /\ request[q].left # 1 /\ request'[q].left = request[q].left - 1
      BY <1>1, <1>6, <2>2 DEF QueueEscalation, TypeOK, RequestRow
    <3> QED BY <1>6, <3>1, <3>2, ConstantTypes DEF QueueEscalation, OpenRequest, processVars
  <2> QED BY <2>1, <2>2
<1> QED
  BY <1>2, <1>3, <1>4, <1>5, <1>6
  DEF Next, Handler, Worker, Acknowledge, Resolve, Claim, FailTask, QueueRow,
      CompleteTask, Tick, vars, processVars

LEMMA WorkerHolds ==
    ASSUME TypeOK, Handling, [Next]_vars, worker' # Idle
    PROVE  up' /\ worker'.task \in Tasks /\ tasks'[worker'.task].status = "processing"
<1> USE DEF processVars, taskVars
<1>1. CASE worker' = worker /\ up' = up
           /\ \A t \in Tasks : tasks[t].status = "processing" => tasks'[t] = tasks[t]
  BY <1>1 DEF Handling
<1>2. CASE UNCHANGED <<worker, up, tasks>>
  BY <1>1, <1>2
<1>3. CASE Boot
  BY <1>3 DEF Boot, Handling
<1>4. CASE Crash
  BY <1>4 DEF Crash
<1>5. ASSUME NEW r \in Events, NEW n \in Tasks, QueueEscalation(r, n)
      PROVE  \A t \in Tasks : tasks[t].status = "processing" => tasks'[t] = tasks[t]
  BY <1>5 DEF QueueEscalation, Schedule, NewTaskId, TypeOK
<1>6. ASSUME NEW g \in Groups, Acknowledge(g) \/ Resolve(g)
      PROVE  \A t \in Tasks : tasks[t].status = "processing" => tasks'[t] = tasks[t]
  BY <1>6 DEF Acknowledge, Resolve, Canceled
<1>7. ASSUME NEW t \in Tasks, Claim(t)
      PROVE  up' /\ worker'.task \in Tasks /\ tasks'[worker'.task].status = "processing"
  <2>1. tasks[t] \in TaskRow /\ tasks'[t] = [tasks[t] EXCEPT !.status = "processing"]
    BY <1>7 DEF Claim, TypeOK
  <2>2. worker'.task = t
    BY <1>7 DEF Claim
  <2>3. tasks'[t].status = "processing"
    BY <2>1, StatusChange
  <2> QED BY <1>7, <2>2, <2>3 DEF Claim
<1>8. CASE QueueRow
  <2>1. worker'.task = worker.task
    BY <1>8 DEF QueueRow, TypeOK
  <2>2. worker # Idle /\ up' = up /\ tasks' = tasks
    BY <1>8 DEF QueueRow
  <2> QED BY <2>1, <2>2 DEF Handling
<1>9. ASSUME NEW g \in Groups, Acknowledge(g) \/ Resolve(g)
      PROVE  worker' = worker /\ up' = up
  BY <1>9 DEF Acknowledge, Resolve
<1>10. ASSUME NEW r \in Events, NEW n \in Tasks, QueueEscalation(r, n)
       PROVE  worker' = worker /\ up' = up
  BY <1>10 DEF QueueEscalation
<1> QED
  BY <1>1, <1>2, <1>3, <1>4, <1>5, <1>6, <1>7, <1>8, <1>9, <1>10
  DEF Next, Handler, Worker, StoreEvent, FailTask, CompleteTask, Tick, vars

LEMMA HandlingStep ==
    ASSUME TypeOK, Handling, [Next]_vars
    PROVE  Handling'
<1>1. up' => policy' \in Policies
  <2>1. CASE UNCHANGED <<up, policy>>
    BY <2>1 DEF Handling
  <2> QED
    BY <2>1 DEF Next, Handler, Worker, Boot, Crash, StoreEvent, QueueEscalation, Acknowledge,
       Resolve, Claim, FailTask, QueueRow, CompleteTask, Tick, vars, processVars
<1>2. \A r \in Events : request'[r].step = "queueing" => OpenRequest(r)'
  BY RequestsOpen
<1>3. /\ \A t \in Tasks : Exists(t)' => tasks'[t].group \in Groups /\ tasks'[t].step > 0
      /\ \A s, t \in Tasks : s < t /\ Exists(t)' => Exists(s)'
  BY RowsStay, EveryTableStep
<1>4. worker' # Idle =>
         up' /\ worker'.task \in Tasks /\ tasks'[worker'.task].status = "processing"
  BY WorkerHolds
<1> QED BY <1>1, <1>2, <1>3, <1>4 DEF Handling, Idle
----------------------------------------------------------------------------
LEMMA Inductive == Spec => [](TypeOK /\ Handling)
<1>1. Init => TypeOK /\ Handling
  <2> SUFFICES ASSUME Init PROVE TypeOK /\ Handling
    OBVIOUS
  <2>1. NoTask \in TaskRow
    BY DEF NoTask, TaskRow
  <2>2. \A t \in Tasks : tasks[t] = NoTask
    BY DEF Init
  <2>3. tasks \in [Tasks -> TaskRow]
    BY <2>1 DEF Init
  <2>4. /\ group \in [Groups -> GroupRow] /\ request \in [Events -> RequestRow]
        /\ worker \in [task : {0} \cup Tasks, rows : Nat]
        /\ origin \in [Tasks -> [chain : {0} \cup Tasks, incident : Nat]]
    BY ConstantTypes DEF Init, GroupRow, RequestRow, Idle
  <2>5. TypeOK
    <3>1. /\ up \in BOOLEAN /\ policy \in Policies \cup {<<>>}
          /\ now \in Nat /\ queued \in [Tasks -> Nat]
      BY DEF Init
    <3>2. crashes \in 0 .. MaxCrashes /\ faults \in 0 .. MaxFaults
      BY ConstantTypes DEF Init
    <3> QED BY <2>3, <2>4, <3>1, <3>2 DEF TypeOK
  <2>6. \A t \in Tasks : ~Exists(t)
    BY <2>2 DEF Exists, NoTask
  <2>7. \A r \in Events : request[r].step = "none"
    BY DEF Init
  <2> QED BY <2>5, <2>6, <2>7 DEF Init, Handling
<1>2. TypeOK /\ Handling /\ [Next]_vars => (TypeOK /\ Handling)'
  BY TypesStep, HandlingStep
<1> QED BY <1>1, <1>2, PTL DEF Spec

(* The variables keep their types: every row of the schedule is a row of   *)
(* the table's columns, and the counters stay within their bounds.         *)
THEOREM TypeCorrect == Spec => []TypeOK
BY Inductive, PTL
----------------------------------------------------------------------------
(* What a step leaves of a row, and which rows are scheduled after it.     *)
LEMMA RowKept ==
    ASSUME TypeOK, Handling, NEW t \in Tasks, Became(t)
    PROVE  /\ Exists(t)' => Exists(t)
           /\ tasks'[t].step = tasks[t].step
           /\ tasks[t].status = "completed" => tasks'[t].status = "completed"
           /\ tasks'[t].status = "scheduled" => tasks'[t] = tasks[t]
<1>1. tasks[t] \in TaskRow
  BY DEF TypeOK
<1>2. CASE tasks'[t] = tasks[t]
  BY <1>2 DEF Exists
<1>3. CASE \E status \in {"processing", "canceled", "completed", "failed"} :
              tasks'[t] = [tasks[t] EXCEPT !.status = status]
           /\ tasks[t].status \notin {"none", "completed"}
  BY <1>1, <1>3, StatusChange DEF Exists
<1> QED BY <1>2, <1>3 DEF Became, Handling

LEMMA ScheduledFrom ==
    ASSUME TypeOK, Handling, TableStep, NEW t \in Tasks, tasks'[t].status = "scheduled"
    PROVE  \/ tasks'[t] = tasks[t]
           \/ /\ tasks'[t].group \in Groups
              /\ ~tasks'[t].stopOnAck \/ ~group[tasks'[t].group].acknowledged
<1>1. CASE Became(t)
  BY <1>1, RowKept
<1>2. CASE Begins(t) \/ GoesOn(t)
  <2>1. PICK g, i, c : Inserts(t, g, i, c)
    BY <1>2 DEF Begins, GoesOn
  <2>2. tasks'[t].group = g /\ tasks'[t].stopOnAck = policy[i].stopOnAck
    BY <2>1, ScheduledRow DEF Inserts
  <2> QED BY <2>1, <2>2 DEF Inserts, Allows
<1> QED BY <1>1, <1>2 DEF TableStep
----------------------------------------------------------------------------
(* Escalation chains.  A chain is named by its first task, so every task   *)
(* of a chain follows it.                                                  *)
ChainsNamed == \A t \in Tasks : Exists(t) => origin[t].chain \in 1 .. t

LEMMA ChainStep ==
    ASSUME TypeOK, Handling, ChainsNamed, ChainInOrder, TableStep
    PROVE  ChainsNamed' /\ ChainInOrder'
<1> \A t \in Tasks : t \in Nat /\ t > 0
  BY ConstantTypes DEF Tasks
<1>1. CASE (\A t \in Tasks : Became(t)) /\ origin' = origin
  <2>1. ChainsNamed'
    BY <1>1, RowKept DEF ChainsNamed
  <2>2. ChainInOrder'
    BY <1>1, RowKept DEF ChainInOrder
  <2> QED BY <2>1, <2>2
<1>2. ASSUME NEW n \in Tasks, \A t \in Tasks \ {n} : Became(t), Begins(n) \/ GoesOn(n)
      PROVE  ChainsNamed' /\ ChainInOrder'
  <2> DEFINE w == worker.task
  <2>1. PICK g, i, c : /\ Inserts(n, g, i, c)
                       /\ \/ c = n
                          \/ GoesOn(n) /\ c = origin[w].chain /\ i = tasks[w].step + 1
    BY <1>2 DEF Begins, GoesOn
  <2>2. /\ \A t \in Tasks \ {n} : origin'[t] = origin[t]
        /\ origin'[n].chain = c
    BY <2>1 DEF Inserts, TypeOK
  <2>3. ~Exists(n) /\ \A t \in Tasks : t < n => Exists(t)
    BY <2>1 DEF Inserts, NewTaskId, Exists, Tasks
  <2>4. \A t \in Tasks : Exists(t) => t < n
    BY <2>3 DEF Handling
  <2>5. ASSUME GoesOn(n)
        PROVE  /\ w \in Tasks /\ Exists(w) /\ w < n
               /\ tasks[w].status = "processing" /\ tasks'[w].status = "completed"
               /\ tasks[w].step \in Nat
    <3>1. w \in Tasks /\ tasks[w].status = "processing"
      BY <2>5 DEF GoesOn, Handling
    <3>2. tasks[w] \in TaskRow
      BY <3>1 DEF TypeOK
    <3>3. tasks'[w].status = "completed"
      BY <2>5, <3>2, StatusChange DEF GoesOn
    <3>4. tasks[w].step \in Nat
      BY <3>2 DEF TaskRow
    <3> QED BY <2>4, <3>1, <3>3, <3>4 DEF Exists
  <2>6. c \in 1 .. n
    <3>1. n \in Nat /\ n > 0
      OBVIOUS
    <3>2. CASE c = n
      BY <3>1, <3>2
    <3>3. CASE GoesOn(n) /\ c = origin[w].chain
      <4>1. c \in 1 .. w /\ w \in Nat /\ w < n
        BY <2>5, <3>3 DEF ChainsNamed
      <4> QED BY <3>1, <4>1
    <3> QED BY <2>1, <3>2, <3>3
  <2>7. ChainsNamed'
    BY <1>2, <2>2, <2>6, RowKept DEF ChainsNamed
  <2>8. ASSUME NEW s \in Tasks, s < n, Exists(s), origin[s].chain = c
        PROVE  tasks'[s].status = "completed" /\ tasks'[s].step < tasks'[n].step
    <3>1. GoesOn(n) /\ c = origin[w].chain /\ i = tasks[w].step + 1
      BY <2>1, <2>8 DEF ChainsNamed
    <3>2. tasks'[n].step = i
      BY <2>1, ScheduledRow DEF Inserts
    <3>3. tasks'[s].step = tasks[s].step
      BY <1>2, <2>8, RowKept
    <3>4. s \in Nat /\ w \in Nat /\ ~(w < s)
      BY <2>5, <2>8, <3>1 DEF ChainInOrder
    <3>5. CASE s = w
      BY <2>5, <3>1, <3>2, <3>3, <3>5
    <3>6. CASE s < w
      <4>1. tasks[s].status = "completed" /\ tasks[s].step < tasks[w].step
        BY <2>5, <2>8, <3>1, <3>6 DEF ChainInOrder
      <4>2. tasks'[s].status = "completed"
        BY <1>2, <2>8, <4>1, RowKept
      <4>3. tasks[s].step \in Nat
        BY DEF TypeOK, TaskRow
      <4>4. tasks[w].step \in Nat /\ tasks'[n].step = tasks[w].step + 1
        BY <2>5, <3>1, <3>2
      <4>5. tasks[s].step < tasks'[n].step
        BY <4>1, <4>3, <4>4
      <4> QED BY <3>3, <4>2, <4>5
    <3> QED BY <2>5, <3>1, <3>4, <3>5, <3>6
  <2>9. ChainInOrder'
    <3> SUFFICES ASSUME NEW s \in Tasks, NEW t \in Tasks, Exists(s)', Exists(t)', s < t,
                        origin'[s].chain = origin'[t].chain
                 PROVE  tasks'[s].status = "completed" /\ tasks'[s].step < tasks'[t].step
      BY DEF ChainInOrder
    <3>1. \A u \in Tasks \ {n} : Exists(u)' => Exists(u)
      BY <1>2, RowKept
    <3>2. CASE t = n
      <4>1. s # n
        BY <3>2
      <4> QED BY <2>2, <2>8, <3>1, <3>2, <4>1
    <3>3. CASE s = n
      <4>1. t # n /\ t \in Nat /\ n \in Nat
        BY <3>3
      <4> QED BY <2>4, <3>1, <3>3, <4>1
    <3>4. CASE s # n /\ t # n
      <4>1. tasks[s].status = "completed" /\ tasks[s].step < tasks[t].step
        BY <2>2, <3>1, <3>4 DEF ChainInOrder
      <4> QED BY <1>2, <3>4, <4>1, RowKept
    <3> QED BY <3>2, <3>3, <3>4
  <2> QED BY <2>7, <2>9
<1> QED BY <1>1, <1>2 DEF TableStep

(* Of one chain at most the last task is open, and the tasks before it are *)
(* completed and are earlier steps of the policy, whatever operators do,   *)
(* fails or crashes.                                                       *)
THEOREM ChainAlwaysInOrder == Spec => []ChainInOrder
<1>1. Init => ChainsNamed /\ ChainInOrder
  <2>1. Init => \A t \in Tasks : ~Exists(t)
    BY DEF Init, Exists, NoTask
  <2> QED BY <2>1 DEF ChainsNamed, ChainInOrder
<1>2. TypeOK /\ Handling /\ ChainsNamed /\ ChainInOrder /\ [Next]_vars
          => (ChainsNamed /\ ChainInOrder)'
  BY ChainStep, EveryTableStep
<1> QED BY <1>1, <1>2, Inductive, PTL DEF Spec
----------------------------------------------------------------------------
(* Acknowledgement.  Only an operator acknowledges a group; a step that    *)
(* changes the schedule otherwise leaves the groups alone.                 *)
LEMMA QuietStep ==
    ASSUME TypeOK, Handling, AcknowledgedIsQuiet, [Next]_vars
    PROVE  AcknowledgedIsQuiet'
<1> SUFFICES ASSUME faults' = 0, NEW t \in Tasks,
                    tasks'[t].status = "scheduled", tasks'[t].stopOnAck
             PROVE  ~group'[tasks'[t].group].acknowledged
  BY DEF AcknowledgedIsQuiet
<1> USE DEF processVars, taskVars
<1>1. faults \in Nat /\ ~Fault
  BY ConstantTypes DEF TypeOK, Fault
<1>2. TableStep
  BY EveryTableStep
<1>3. ASSUME faults = 0, tasks'[t] = tasks[t]
      PROVE  tasks[t].group \in Groups /\ ~group[tasks[t].group].acknowledged
  BY <1>3 DEF AcknowledgedIsQuiet, Handling, Exists
<1>4. CASE UNCHANGED <<group, faults>>
  BY <1>2, <1>3, <1>4, ScheduledFrom
<1>5. ASSUME NEW r \in Events, NEW g \in Groups, NEW status \in {"active", "resolved"},
             NEW routes \in 0 .. MaxRoutes, StoreEvent(r, g, status, routes)
      PROVE  ~group'[tasks'[t].group].acknowledged
  <2>1. faults = 0 /\ tasks' = tasks /\ group' = [group EXCEPT ![g] = Upserted(@, status)]
    BY <1>1, <1>5 DEF StoreEvent, Whole
  <2>2. group'[g].acknowledged => group[g].acknowledged
    BY <2>1 DEF Upserted, TypeOK
  <2> QED BY <1>3, <2>1, <2>2 DEF TypeOK
<1>6. ASSUME NEW g \in Groups, NEW stopped \in SUBSET Tasks,
             tasks' = Canceled(stopped), faults = 0
      PROVE  t \notin stopped /\ tasks'[t] = tasks[t]
  <2>1. tasks[t] \in TaskRow
    BY DEF TypeOK
  <2> QED BY <1>6, <2>1, StatusChange DEF Canceled
<1>7. ASSUME NEW g \in Groups, Acknowledge(g)
      PROVE  ~group'[tasks'[t].group].acknowledged
  <2>1. /\ faults = 0 /\ group' = [group EXCEPT ![g].acknowledged = TRUE]
        /\ tasks' = Canceled({u \in TasksOf(g) : tasks[u].stopOnAck})
    BY <1>1, <1>7 DEF Acknowledge, Whole
  <2>2. tasks'[t] = tasks[t] /\ tasks[t].group # g
    BY <1>6, <2>1 DEF TasksOf
  <2> QED BY <1>3, <2>1, <2>2 DEF TypeOK
<1>8. ASSUME NEW g \in Groups, Resolve(g)
      PROVE  ~group'[tasks'[t].group].acknowledged
  <2>1. /\ faults = 0 /\ group' = [group EXCEPT ![g].status = "resolved"]
        /\ tasks' = Canceled({u \in TasksOf(g) : tasks[u].stopOnResolve})
    BY <1>1, <1>8 DEF Resolve, Whole
  <2>2. tasks'[t] = tasks[t]
    BY <1>6, <2>1 DEF TasksOf
  <2>3. \A h \in Groups : group'[h].acknowledged = group[h].acknowledged
    BY <2>1 DEF TypeOK, GroupRow
  <2> QED BY <1>3, <2>1, <2>2, <2>3
<1> QED
  BY <1>1, <1>4, <1>5, <1>7, <1>8
  DEF Next, Handler, Worker, Boot, Crash, QueueEscalation, Claim, FailTask, QueueRow,
      CompleteTask, Tick, vars, Whole

(* As long as no storage method ends early, an acknowledged group has no   *)
(* scheduled step that an acknowledgement stops, however handlers, the     *)
(* worker, operators and restarts interleave.                              *)
THEOREM AcknowledgedAlwaysQuiet == Spec => []AcknowledgedIsQuiet
<1>1. Init => AcknowledgedIsQuiet
  BY DEF Init, NoTask, AcknowledgedIsQuiet
<1>2. TypeOK /\ Handling /\ AcknowledgedIsQuiet /\ [Next]_vars => AcknowledgedIsQuiet'
  BY QuietStep
<1> QED BY <1>1, <1>2, Inductive, PTL DEF Spec
----------------------------------------------------------------------------
(* Execution of steps.  The worker's count is the task's count, within the *)
(* receivers of a step of the policy in use.                               *)
CountsAgree ==
    worker # Idle =>
        /\ queued[worker.task] = worker.rows
        /\ worker.rows > 0 =>
              StepIsConfigured /\ worker.rows <= policy[tasks[worker.task].step].rows

LEMMA ExecutionStep ==
    ASSUME TypeOK, Handling, StepsExecutedOnce, CountsAgree, [Next]_vars
    PROVE  StepsExecutedOnce' /\ CountsAgree'
<1> USE DEF processVars, taskVars
<1> DEFINE w == worker.task
<1>1. ASSUME NEW t \in Tasks, tasks'[t] = tasks[t], queued'[t] = queued[t]
      PROVE  ExecutedOnce(t)'
  BY <1>1 DEF StepsExecutedOnce, ExecutedOnce
<1>2. ASSUME NEW t \in Tasks, queued'[t] = 0, tasks'[t].status # "completed"
      PROVE  ExecutedOnce(t)'
  BY <1>2 DEF ExecutedOnce
<1>3. ASSUME NEW t \in Tasks, tasks[t].status \notin {"processing", "completed"}
      PROVE  queued[t] = 0
  BY <1>3 DEF StepsExecutedOnce, ExecutedOnce, TypeOK
<1>4. ASSUME NEW t \in Tasks, t # w \/ worker = Idle, queued' = queued
      PROVE  ExecutedOnce(t)'
  <2>1. CASE Became(t)
    <3>1. tasks'[t] = tasks[t] \/ tasks[t].status = "scheduled"
      BY <1>4, <2>1 DEF Became
    <3>2. tasks[t].status = "scheduled" => tasks'[t].status # "completed"
      <4>1. tasks[t] \in TaskRow
        BY DEF TypeOK
      <4>2. tasks'[t] = tasks[t]
            \/ \E status \in {"processing", "canceled"} :
                  tasks'[t] = [tasks[t] EXCEPT !.status = status]
        BY <1>4, <2>1 DEF Became
      <4>3. ASSUME NEW status \in {"processing", "canceled"},
                   tasks'[t] = [tasks[t] EXCEPT !.status = status]
            PROVE  tasks'[t].status # "completed"
        <5>1. tasks'[t].status = status
          BY <4>1, <4>3, StatusChange
        <5> QED BY <5>1
      <4> QED BY <4>2, <4>3
    <3> QED BY <1>1, <1>2, <1>3, <1>4, <3>1, <3>2
  <2>2. CASE Begins(t) \/ GoesOn(t)
    <3>1. PICK g, i, c : Inserts(t, g, i, c)
      BY <2>2 DEF Begins, GoesOn
    <3>2. tasks[t].status = "none" /\ tasks'[t].status = "scheduled"
      BY <3>1, ScheduledRow DEF Inserts, NewTaskId
    <3> QED BY <1>2, <1>3, <1>4, <3>2
  <2> QED BY <2>1, <2>2, EveryTableStep DEF TableStep
<1>5. ASSUME worker # Idle
      PROVE  /\ w \in Tasks /\ tasks[w] \in TaskRow /\ tasks[w].status = "processing"
             /\ policy \in Policies
             /\ StepIsConfigured => tasks[w].step \in 1 .. Len(policy)
  <2>1. w \in Tasks /\ tasks[w].status = "processing" /\ policy \in Policies
    BY <1>5 DEF Handling
  <2>2. tasks[w] \in TaskRow /\ tasks[w].step > 0
    BY <2>1 DEF TypeOK, Handling, Exists
  <2>3. Len(policy) \in Nat
    BY <2>1, EscalationAssumption
  <2> QED BY <2>1, <2>2, <2>3 DEF StepIsConfigured, TaskRow
<1>6. CASE worker' = worker /\ UNCHANGED <<queued, policy>>
           /\ (worker # Idle => tasks'[w] = tasks[w])
  <2>1. StepsExecutedOnce'
    BY <1>1, <1>4, <1>6 DEF StepsExecutedOnce
  <2>2. CountsAgree'
    BY <1>6 DEF CountsAgree, StepIsConfigured
  <2> QED BY <2>1, <2>2
<1>7. CASE worker' = Idle /\ queued' = queued
           /\ (worker # Idle => tasks'[w] = tasks[w])
  <2>1. StepsExecutedOnce'
    BY <1>1, <1>4, <1>7 DEF StepsExecutedOnce
  <2> QED BY <1>7, <2>1 DEF CountsAgree
<1>8. ASSUME NEW r \in Events, NEW n \in Tasks, QueueEscalation(r, n)
      PROVE  worker # Idle => tasks'[w] = tasks[w]
  <2>1. tasks' = tasks \/ tasks' = [tasks EXCEPT ![n] = Scheduled(request[r].group, 1)]
    BY <1>8 DEF QueueEscalation, Schedule
  <2>2. worker # Idle => w # n
    BY <1>5, <1>8 DEF QueueEscalation, NewTaskId
  <2> QED BY <1>5, <2>1, <2>2 DEF TypeOK
<1>9. ASSUME NEW g \in Groups, Acknowledge(g) \/ Resolve(g)
      PROVE  worker # Idle => tasks'[w] = tasks[w]
  <2>1. ASSUME NEW S \in SUBSET Tasks, tasks' = Canceled(S), worker # Idle
        PROVE  tasks'[w] = tasks[w]
    BY <1>5, <2>1 DEF Canceled
  <2>2. CASE UNCHANGED tasks
    BY <2>2
  <2>3. CASE Acknowledge(g)
    BY <2>1, <2>2, <2>3 DEF Acknowledge, TasksOf
  <2>4. CASE Resolve(g)
    BY <2>1, <2>2, <2>4 DEF Resolve, TasksOf
  <2> QED BY <1>9, <2>3, <2>4
<1>10. ASSUME NEW t \in Tasks, Claim(t)
       PROVE  StepsExecutedOnce' /\ CountsAgree'
  <2>1. worker = Idle /\ tasks[t].status = "scheduled" /\ queued' = queued
    BY <1>10 DEF Claim, Claimable
  <2>2. StepsExecutedOnce'
    BY <1>4, <2>1 DEF StepsExecutedOnce
  <2>3. worker' = Idle \/ (worker'.task = t /\ worker'.rows = 0)
    BY <1>10 DEF Claim
  <2> QED BY <1>3, <2>1, <2>2, <2>3 DEF CountsAgree
<1>11. CASE FailTask
  <2>1. worker # Idle /\ queued' = queued /\ worker' = Idle /\ worker.rows \in Nat
    BY <1>11 DEF FailTask, TypeOK
  <2>2. queued[w] = 0
    BY <1>11, <2>1 DEF FailTask, CountsAgree
  <2>3. tasks'[w].status # "completed"
    BY <1>5, <1>11, <2>1, StatusChange DEF FailTask, TypeOK
  <2>4. StepsExecutedOnce'
    <3>1. \A t \in Tasks : ExecutedOnce(t)'
      BY <1>2, <1>4, <2>1, <2>2, <2>3
    <3> QED BY <3>1 DEF StepsExecutedOnce
  <2> QED BY <2>1, <2>4 DEF CountsAgree
<1>12. CASE QueueRow
  <2>1. CASE worker' = Idle /\ UNCHANGED queued
    BY <1>7, <1>12, <2>1 DEF QueueRow
  <2>2. CASE queued' = [queued EXCEPT ![w] = @ + 1] /\ worker' = [worker EXCEPT !.rows = @ + 1]
    <3>1. /\ worker # Idle /\ StepIsConfigured /\ UNCHANGED <<tasks, policy>>
          /\ worker.rows < policy[tasks[w].step].rows
      BY <1>12 DEF QueueRow
    <3>2. policy[tasks[w].step].rows \in Nat
      BY <1>5, <3>1, PolicyStep
    <3>3. worker'.task = w /\ worker'.rows = worker.rows + 1 /\ worker.rows \in Nat
      BY <2>2 DEF TypeOK
    <3>4. queued'[w] = worker.rows + 1
      BY <1>5, <2>2, <3>1 DEF CountsAgree, TypeOK
    <3>5. ASSUME NEW t \in Tasks, t = w
          PROVE  ExecutedOnce(t)'
      <4>1. queued'[t] <= policy[tasks'[t].step].rows
        BY <3>1, <3>2, <3>3, <3>4, <3>5
      <4>2. tasks'[t].status = "processing" /\ tasks'[t].step <= Len(policy)
        BY <1>5, <3>1, <3>5 DEF StepIsConfigured
      <4> QED BY <1>5, <3>1, <4>1, <4>2 DEF ExecutedOnce
    <3>6. StepsExecutedOnce'
      <4>1. \A t \in Tasks : t # w => queued'[t] = queued[t]
        BY <2>2 DEF TypeOK
      <4> QED BY <1>1, <3>1, <3>5, <4>1 DEF StepsExecutedOnce
    <3>7. CountsAgree'
      BY <3>1, <3>2, <3>3, <3>4 DEF CountsAgree, StepIsConfigured
    <3> QED BY <3>6, <3>7
  <2> QED BY <1>12, <2>1, <2>2 DEF QueueRow
<1>13. ASSUME NEW n \in Tasks, CompleteTask(n)
       PROVE  StepsExecutedOnce' /\ CountsAgree'
  <2> DEFINE completed == [tasks EXCEPT ![w].status = "completed"]
  <2>1. /\ worker # Idle /\ StepIsConfigured /\ worker' = Idle /\ queued' = queued
        /\ worker.rows = policy[tasks[w].step].rows
    BY <1>13 DEF CompleteTask
  <2>2. CASE tasks'[w] = tasks[w]
    BY <1>7, <2>1, <2>2
  <2>3. CASE tasks'[w] = [tasks[w] EXCEPT !.status = "completed"]
    <3>1. tasks'[w].status = "completed" /\ tasks'[w].step = tasks[w].step
      BY <1>5, <2>1, <2>3, StatusChange
    <3>2. queued'[w] = policy[tasks[w].step].rows /\ queued'[w] \in Nat
      BY <1>5, <2>1 DEF CountsAgree, TypeOK
    <3>3. ASSUME NEW t \in Tasks, t = w
          PROVE  ExecutedOnce(t)'
      <4>1. tasks'[t].status = "completed" /\ tasks'[t].step <= Len(policy)
        BY <1>5, <2>1, <3>1, <3>3 DEF StepIsConfigured
      <4>2. queued'[t] = policy[tasks'[t].step].rows /\ queued'[t] \in Nat
        BY <3>1, <3>2, <3>3
      <4> QED BY <1>5, <2>1, <4>1, <4>2 DEF ExecutedOnce
    <3>4. StepsExecutedOnce'
      BY <1>4, <2>1, <3>3 DEF StepsExecutedOnce
    <3> QED BY <2>1, <3>4 DEF CountsAgree
  <2>4. tasks'[w] = tasks[w] \/ tasks'[w] = [tasks[w] EXCEPT !.status = "completed"]
    <3>1. completed[w] = [tasks[w] EXCEPT !.status = "completed"]
      BY <1>5, <2>1 DEF TypeOK
    <3>2. CASE tasks' = tasks \/ tasks' = completed
      BY <3>1, <3>2
    <3>3. ASSUME NEW row, tasks' = [completed EXCEPT ![n] = row], NewTaskId(n)
          PROVE  tasks'[w] = completed[w]
      <4>1. n # w
        BY <1>5, <2>1, <3>3 DEF NewTaskId
      <4> QED BY <1>5, <2>1, <3>3, <4>1 DEF TypeOK
    <3> QED BY <1>13, <3>1, <3>2, <3>3 DEF CompleteTask, Schedule
  <2> QED BY <2>2, <2>3, <2>4
<1>14. CASE Crash
  BY <1>7, <1>14 DEF Crash
<1>15. CASE Boot
  <2>1. worker = Idle
    BY <1>15 DEF Boot, Handling
  <2> QED BY <1>7, <1>15, <2>1 DEF Boot
<1> QED
  BY <1>6, <1>8, <1>9, <1>10, <1>11, <1>12, <1>13, <1>14, <1>15
  DEF Next, Handler, Worker, StoreEvent, QueueEscalation, Acknowledge, Resolve, Tick, vars

(* No step is executed twice: the deliveries of a task are queued only     *)
(* after it was claimed, never more than the step has receivers and all of *)
(* them when it is completed, whatever fails or crashes.                   *)
THEOREM StepsAlwaysExecutedOnce == Spec => []StepsExecutedOnce
<1>1. Init => StepsExecutedOnce /\ CountsAgree
  <2>1. Init => \A t \in Tasks : queued[t] = 0 /\ tasks[t].status # "completed"
    BY DEF Init, NoTask
  <2>2. Init => worker = Idle
    BY DEF Init
  <2> QED BY <2>1, <2>2 DEF StepsExecutedOnce, ExecutedOnce, CountsAgree
<1>2. TypeOK /\ Handling /\ StepsExecutedOnce /\ CountsAgree /\ [Next]_vars
          => (StepsExecutedOnce /\ CountsAgree)'
  BY ExecutionStep
<1> QED BY <1>1, <1>2, Inductive, PTL DEF Spec

----------------------------------------------------------------------------
(* Counts of what went wrong only grow.                                    *)
LEMMA CountsGrow ==
    ASSUME TypeOK, [Next]_vars
    PROVE  /\ crashes' = 0 => crashes = 0 /\ ~Crash
           /\ faults' = 0 => faults = 0 /\ ~Fault
<1>1. crashes \in Nat /\ faults \in Nat
  BY ConstantTypes DEF TypeOK
<1>2. faults' \in {faults, faults + 1}
  BY DEF Next, vars, Boot, Crash, StoreEvent, Handler, QueueEscalation, Acknowledge, Resolve,
         Worker, Claim, CompleteTask, FailTask, QueueRow, Tick, Whole, Fault
<1>3. UNCHANGED crashes \/ Crash
  BY DEF Next, vars, processVars, Boot, StoreEvent, Handler, QueueEscalation, Acknowledge,
         Resolve, Worker, Claim, CompleteTask, FailTask, QueueRow, Tick
<1>4. Fault => faults' = faults + 1
  BY DEF Fault
<1>5. Crash => crashes' = crashes + 1
  BY DEF Crash
<1>6. faults' = 0 => faults = 0 /\ ~Fault
  BY <1>1, <1>2, <1>4
<1>7. crashes' = 0 => ~Crash
  BY <1>1, <1>5
<1>8. crashes' = 0 => crashes = 0
  BY <1>3, <1>7
<1> QED BY <1>6, <1>7, <1>8

LEMMA HeldStep ==
    ASSUME TypeOK, Handling, ClaimedIsHeld, [Next]_vars
    PROVE  ClaimedIsHeld'
<1> SUFFICES ASSUME crashes' = 0, faults' = 0,
                    NEW t \in Tasks, tasks'[t].status = "processing"
             PROVE  worker'.task = t
  <2>1. crashes' \in Nat /\ faults' \in Nat
    BY TypesStep, ConstantTypes DEF TypeOK
  <2> QED BY <2>1 DEF ClaimedIsHeld
<1>a. ~Crash /\ ~Fault /\ (tasks[t].status = "processing" => worker.task = t /\ worker # Idle)
  BY CountsGrow, ConstantTypes DEF ClaimedIsHeld, Idle, Tasks
<1>b. tasks \in [Tasks -> TaskRow]
  BY DEF TypeOK
<1>1. CASE UNCHANGED <<tasks, worker>>
  BY <1>a, <1>1
<1>2. ASSUME NEW r \in Events, NEW n \in Tasks, QueueEscalation(r, n) PROVE worker'.task = t
  <2>1. UNCHANGED worker /\ Schedule(request[r].group, 1, n, n, tasks)
    BY <1>a, <1>2 DEF QueueEscalation
  <2>2. tasks'[t] = tasks[t]
    BY <1>b, <2>1 DEF Schedule, Scheduled
  <2> QED BY <1>a, <2>1, <2>2
<1>3. ASSUME NEW g \in Groups, Acknowledge(g) \/ Resolve(g) PROVE worker'.task = t
  <2>1. UNCHANGED worker /\ \E S \in SUBSET Tasks : tasks' = Canceled(S)
    BY <1>a, <1>3 DEF Acknowledge, Resolve, TasksOf
  <2>2. tasks'[t] = tasks[t]
    BY <1>b, <2>1 DEF Canceled, TaskRow
  <2> QED BY <1>a, <2>1, <2>2
<1>4. ASSUME NEW u \in Tasks, Claim(u) PROVE worker'.task = t
  <2>1. /\ worker = Idle /\ worker' = [task |-> u, rows |-> 0]
        /\ tasks' = [tasks EXCEPT ![u].status = "processing"]
    BY <1>a, <1>4 DEF Claim
  <2>2. t = u
    BY <1>a, <1>b, <2>1
  <2> QED BY <2>1, <2>2
<1>5. CASE FailTask
  <2>1. worker # Idle /\ tasks' = [tasks EXCEPT ![worker.task].status = "failed"]
    BY <1>a, <1>5 DEF FailTask
  <2> QED BY <1>a, <1>b, <2>1
<1>6. CASE QueueRow
  BY <1>a, <1>6 DEF QueueRow, taskVars, TypeOK
<1>7. ASSUME NEW n \in Tasks, CompleteTask(n) PROVE worker'.task = t
  <2> DEFINE completed == [tasks EXCEPT ![worker.task].status = "completed"]
  <2>1. \/ tasks' = completed
        \/ Schedule(tasks[worker.task].group, tasks[worker.task].step + 1, n,
                    origin[worker.task].chain, completed)
    BY <1>a, <1>7 DEF CompleteTask
  <2>2. worker.task \in Tasks
    BY <1>7 DEF CompleteTask, Handling
  <2>3. tasks'[t] = completed[t]
    BY <1>b, <2>1 DEF Schedule, Scheduled
  <2> QED BY <1>a, <1>b, <2>2, <2>3
<1> QED
  BY <1>a, <1>1, <1>2, <1>3, <1>4, <1>5, <1>6, <1>7
  DEF Next, vars, taskVars, Boot, StoreEvent, Handler, Worker, Tick

(* ClaimedIsHeld: a task is left "processing" by nobody but a crash or a   *)
(* failing statement.                                                      *)
THEOREM ClaimedAlwaysHeld == Spec => []ClaimedIsHeld
<1>1. Init => ClaimedIsHeld
  BY DEF Init, NoTask, ClaimedIsHeld
<1>2. TypeOK /\ Handling /\ ClaimedIsHeld /\ [Next]_vars => ClaimedIsHeld'
  BY HeldStep
<1>3. QED
  BY <1>1, <1>2, Inductive, PTL DEF Spec
==============================================================================
