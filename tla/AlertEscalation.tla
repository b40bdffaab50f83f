--------------------------- MODULE AlertEscalation ---------------------------
(***************************************************************************)
(* Alert groups, their lifecycle and their escalation: an event creates or *)
(* updates the group of its fingerprint (store_event_with_team) and starts *)
(* one escalation chain for each route with a policy (queue_escalation);   *)
(* operators acknowledge and resolve groups, which cancels scheduled       *)
(* steps; one worker claims the due steps one after the other, queues the  *)
(* deliveries of the step and schedules the next one                       *)
(* (start_escalation_worker, run_escalation_task).                         *)
(*                                                                         *)
(* Each storage method holds the connection's mutex, so the other actors   *)
(* see it as one step; but its statements are committed one by one, so it  *)
(* may also end after some of them (a fault): a statement fails, or the    *)
(* process ends, which is the same followed by a crash.                    *)
(* The routes of an event that have a policy are all given the same one.   *)
(***************************************************************************)
EXTENDS Naturals, Sequences, FiniteSets

CONSTANTS
    Groups,         \* pairs of group namespace and fingerprint
    MaxEvents,      \* bound: how many events arrive
    MaxRoutes,      \* bound: how many routes with a policy an event matches
    MaxTasks,       \* bound: how many escalation tasks are ever inserted
    MaxCrashes,     \* bound: how often the process ends
    Policies,       \* the policies a restart may find configured, <<>> if removed
    MaxFaults,      \* bound: how often a storage method ends early
    Horizon         \* bound: until when time passes though nobody waits

Events == 1 .. MaxEvents
Tasks == 1 .. MaxTasks

PolicySteps == [delay : Nat \ {0}, stopOnAck : BOOLEAN, stopOnResolve : BOOLEAN,
                rows : Nat]

ASSUME EscalationAssumption ==
    /\ {MaxEvents, MaxRoutes, MaxTasks, MaxCrashes, MaxFaults,
        Horizon} \subseteq Nat
    /\ Policies \subseteq Seq(PolicySteps)
    /\ \A policy \in Policies : MaxTasks >= MaxEvents * MaxRoutes * Len(policy)

VARIABLES
    up,       \* is the process running?
    policy,   \* the steps of the policy in the current run
    crashes,  \* how often the process has ended
    faults,   \* how often a storage method has ended early
    group,    \* alert_groups: status, acknowledged_at
    request,  \* the handler of each event: its step, group and open routes
    tasks,    \* escalation_tasks
    worker,   \* the escalation worker: the task it executes, 0 if none, and
              \* how many rows it has queued for it
    now,      \* the clock
    queued,   \* history: how many delivery rows each task has queued
    origin    \* history: per task, the first task of its chain and the
              \* incident (activation of the group) it was scheduled in

processVars == <<up, policy, crashes>>
taskVars == <<tasks, queued, origin>>
vars == <<processVars, faults, group, request, taskVars, worker, now>>

Idle == [task |-> 0, rows |-> 0]

NoTask == [status |-> "none", group |-> "none", step |-> 0, stopOnAck |-> FALSE,
           stopOnResolve |-> FALSE, due |-> 0]

GroupRow == [status : {"none", "active", "resolved"}, acknowledged : BOOLEAN,
             incident : Nat]

RequestRow == [step : {"none", "queueing", "done", "lost"},
               group : Groups \cup {"none"}, left : 0 .. MaxRoutes]

TaskRow ==
    [status : {"none", "scheduled", "processing", "completed", "canceled", "failed"},
     group : Groups \cup {"none"}, step : Nat, stopOnAck : BOOLEAN,
     stopOnResolve : BOOLEAN, due : Nat]

TypeOK ==
    /\ up \in BOOLEAN
    /\ policy \in Policies \cup {<<>>}
    /\ crashes \in 0 .. MaxCrashes
    /\ faults \in 0 .. MaxFaults
    /\ group \in [Groups -> GroupRow]
    /\ request \in [Events -> RequestRow]
    /\ tasks \in [Tasks -> TaskRow]
    /\ worker \in [task : {0} \cup Tasks, rows : Nat]
    /\ now \in Nat
    /\ queued \in [Tasks -> Nat]
    /\ origin \in [Tasks -> [chain : {0} \cup Tasks, incident : Nat]]

Init ==
    /\ up = FALSE
    /\ policy = <<>>
    /\ crashes = 0
    /\ faults = 0
    /\ group = [g \in Groups |->
          [status |-> "none", acknowledged |-> FALSE, incident |-> 0]]
    /\ request = [r \in Events |-> [step |-> "none", group |-> "none", left |-> 0]]
    /\ tasks = [t \in Tasks |-> NoTask]
    /\ worker = Idle
    /\ now = 0
    /\ queued = [t \in Tasks |-> 0]
    /\ origin = [t \in Tasks |-> [chain |-> 0, incident |-> 0]]
----------------------------------------------------------------------------
(* Mutant of Allows: the acknowledgement is not looked at.                 *)
AllowsResolvedOnly(g, step) == ~step.stopOnResolve \/ group[g].status # "resolved"

(* group_allows_escalation, and the conditions of the claiming query.      *)
Allows(g, step) ==
    /\ ~step.stopOnResolve \/ group[g].status # "resolved"
    /\ ~step.stopOnAck \/ ~group[g].acknowledged

(* A storage method runs to its end, or ends early.                        *)
Whole == UNCHANGED faults
Fault == faults < MaxFaults /\ faults' = faults + 1

NewTaskId(n) ==
    /\ tasks[n].status = "none"
    /\ \A t \in 1 .. (n - 1) : tasks[t].status # "none"

(* A row for step i of the policy, due after the step's delay.             *)
Scheduled(g, i) ==
    [status |-> "scheduled", group |-> g, step |-> i,
     stopOnAck |-> policy[i].stopOnAck, stopOnResolve |-> policy[i].stopOnResolve,
     due |-> now + policy[i].delay]

(* Step i is scheduled as task n if the group allows it, as part of the    *)
(* chain that began with task c; rows is the table before that.            *)
Schedule(g, i, n, c, rows) ==
    IF Allows(g, policy[i])
       THEN /\ tasks' = [rows EXCEPT ![n] = Scheduled(g, i)]
            /\ origin' = [origin EXCEPT ![n] =
                             [chain |-> c, incident |-> group[g].incident]]
       ELSE /\ tasks' = rows
            /\ UNCHANGED origin
----------------------------------------------------------------------------
(* Intake.                                                                 *)

(* Mutant of Upserted: the event's status is stored as it came.            *)
UpsertedRaw(row, status) ==
    [status |-> IF status = "active" THEN "firing" ELSE status,
     acknowledged |-> row.acknowledged, incident |-> row.incident]

(* The group of an event: a resolved group that fires again loses its      *)
(* acknowledgement; a repeated event changes nothing but the status.       *)
Upserted(row, status) ==
    [status |-> status,
     acknowledged |-> row.acknowledged /\ ~(row.status = "resolved" /\ status = "active"),
     incident |-> IF row.status # "active" /\ status = "active" THEN row.incident + 1
                                                                ELSE row.incident]

(* The group is written, then the event; routes is the number of matching  *)
(* routes with an escalation policy.  (Deliveries are not modelled here.)  *)
StoreEvent(r, g, status, routes) ==
    /\ up
    /\ request[r].step = "none"
    /\ routes > 0 => policy # <<>>
    /\ \A q \in 1 .. (r - 1) : request[q].step # "none"
    /\ group' = [group EXCEPT ![g] = Upserted(@, status)]
    /\ \/ /\ Whole
          /\ request' = [request EXCEPT ![r] =
                [step |-> IF routes = 0 THEN "done" ELSE "queueing", group |-> g,
                 left |-> routes]]
       \/ /\ Fault
          /\ request' = [request EXCEPT ![r] = [step |-> "lost", group |-> g, left |-> 0]]
    /\ UNCHANGED <<processVars, taskVars, worker, now>>

(* queue_escalation for the next matching route; an error ends the request.*)
QueueEscalation(r, n) ==
    /\ request[r].step = "queueing"
    /\ NewTaskId(n)
    /\ \/ /\ Whole
          /\ Schedule(request[r].group, 1, n, n, tasks)
          /\ request' = [request EXCEPT ![r].left = @ - 1,
                            ![r].step = IF request[r].left = 1 THEN "done" ELSE @]
       \/ /\ Fault
          /\ request' = [request EXCEPT ![r].left = 0, ![r].step = "done"]
          /\ UNCHANGED <<tasks, origin>>
    /\ UNCHANGED <<processVars, group, worker, now, queued>>
----------------------------------------------------------------------------
(* Operators.                                                              *)

Canceled(stopped) ==
    [t \in Tasks |->
        IF t \in stopped /\ tasks[t].status = "scheduled"
           THEN [tasks[t] EXCEPT !.status = "canceled"]
           ELSE tasks[t]]

TasksOf(g) == {t \in Tasks : tasks[t].group = g}

(* Mutant of Acknowledge: the scheduled steps are left to the claim.       *)
AcknowledgeOnly(g) ==
    /\ up
    /\ group[g].status # "none"
    /\ group' = [group EXCEPT ![g].acknowledged = TRUE]
    /\ UNCHANGED <<faults, processVars, request, worker, now, taskVars>>

Acknowledge(g) ==
    /\ up
    /\ group[g].status # "none"
    /\ group' = [group EXCEPT ![g].acknowledged = TRUE]
    /\ \/ Whole /\ tasks' = Canceled({t \in TasksOf(g) : tasks[t].stopOnAck})
       \/ Fault /\ UNCHANGED tasks
    /\ UNCHANGED <<processVars, request, worker, now, queued, origin>>

Resolve(g) ==
    /\ up
    /\ group[g].status # "none"
    /\ group' = [group EXCEPT ![g].status = "resolved"]
    /\ \/ Whole /\ tasks' = Canceled({t \in TasksOf(g) : tasks[t].stopOnResolve})
       \/ Fault /\ UNCHANGED tasks
    /\ UNCHANGED <<processVars, request, worker, now, queued, origin>>
----------------------------------------------------------------------------
(* The worker.                                                             *)

(* Mutants of Claimable: a task found processing is executed again; the    *)
(* first task in line is looked at alone, before its stop conditions.      *)
ClaimableAgain(t) ==
    /\ tasks[t].status \in {"scheduled", "processing"}
    /\ tasks[t].due <= now
    /\ Allows(tasks[t].group, tasks[t])
ClaimableInLine(t) ==
    /\ tasks[t].status = "scheduled"
    /\ \A s \in Tasks : tasks[s].status = "scheduled" => t <= s
    /\ tasks[t].due <= now
    /\ Allows(tasks[t].group, tasks[t])

Claimable(t) ==
    /\ tasks[t].status = "scheduled"
    /\ tasks[t].due <= now
    /\ Allows(tasks[t].group, tasks[t])

(* ORDER BY due_at ASC, id ASC                                             *)
Earlier(t, s) ==
    tasks[t].due < tasks[s].due \/ (tasks[t].due = tasks[s].due /\ t <= s)

(* The task is taken out of the schedule, then its group's latest event is *)
(* read; if that fails, the worker never hears of the task.                *)
Claim(t) ==
    /\ up
    /\ worker = Idle
    /\ Claimable(t)
    /\ \A s \in Tasks : Claimable(s) => Earlier(t, s)
    /\ tasks' = [tasks EXCEPT ![t].status = "processing"]
    /\ \/ Whole /\ worker' = [task |-> t, rows |-> 0]
       \/ Fault /\ worker' = Idle
    /\ UNCHANGED <<processVars, group, request, now, queued, origin>>

StepIsConfigured == tasks[worker.task].step <= Len(policy)

(* The step is no longer in the policy.                                    *)
FailTask ==
    /\ worker # Idle
    /\ ~StepIsConfigured
    /\ \/ Whole /\ tasks' = [tasks EXCEPT ![worker.task].status = "failed"]
       \/ Fault /\ UNCHANGED tasks
    /\ worker' = Idle
    /\ UNCHANGED <<processVars, group, request, now, queued, origin>>

(* A delivery for one of the step's receivers.  An error is only logged:   *)
(* the task stays as it is and the worker turns to the next one.           *)
QueueRow ==
    /\ worker # Idle
    /\ StepIsConfigured
    /\ worker.rows < policy[tasks[worker.task].step].rows
    /\ \/ /\ Whole
          /\ queued' = [queued EXCEPT ![worker.task] = @ + 1]
          /\ worker' = [worker EXCEPT !.rows = @ + 1]
       \/ Fault /\ worker' = Idle /\ UNCHANGED queued
    /\ UNCHANGED <<processVars, group, request, now, tasks, origin>>

(* Mutants of CompleteTask: without a next step it returns before the      *)
(* update; the step itself is scheduled again.                             *)
CompleteTaskUnlessLast(n) ==
    /\ worker # Idle
    /\ StepIsConfigured
    /\ worker.rows = policy[tasks[worker.task].step].rows
    /\ LET step == tasks[worker.task].step
       IN  IF step < Len(policy)
              THEN /\ NewTaskId(n)
                   /\ Schedule(tasks[worker.task].group, step + 1, n,
                               origin[worker.task].chain,
                               [tasks EXCEPT ![worker.task].status = "completed"])
              ELSE UNCHANGED <<tasks, origin>>
    /\ worker' = Idle
    /\ UNCHANGED <<faults, processVars, group, request, now, queued>>

CompleteTaskAndRepeat(n) ==
    /\ worker # Idle
    /\ StepIsConfigured
    /\ worker.rows = policy[tasks[worker.task].step].rows
    /\ NewTaskId(n)
    /\ Schedule(tasks[worker.task].group, tasks[worker.task].step, n,
                origin[worker.task].chain, [tasks EXCEPT ![worker.task].status = "completed"])
    /\ worker' = Idle
    /\ UNCHANGED <<faults, processVars, group, request, now, queued>>

(* The task is completed and the next step scheduled, if there is one and  *)
(* the group allows it.                                                    *)
CompleteTask(n) ==
    /\ worker # Idle
    /\ StepIsConfigured
    /\ worker.rows = policy[tasks[worker.task].step].rows
    /\ LET step == tasks[worker.task].step
           chain == origin[worker.task].chain
           completed == [tasks EXCEPT ![worker.task].status = "completed"]
       IN  \/ /\ step < Len(policy)
              /\ Whole
              /\ NewTaskId(n)
              /\ Schedule(tasks[worker.task].group, step + 1, n, chain, completed)
           \/ /\ (step = Len(policy) /\ Whole) \/ Fault
              /\ tasks' = completed
              /\ UNCHANGED origin
           \/ Fault /\ UNCHANGED <<tasks, origin>>
    /\ worker' = Idle
    /\ UNCHANGED <<processVars, group, request, now, queued>>

Worker ==
    \/ \E t \in Tasks : Claim(t) \/ CompleteTask(t)
    \/ FailTask \/ QueueRow
----------------------------------------------------------------------------
(* The process starts.  It looks for no interrupted escalation.            *)
Boot ==
    /\ ~up
    /\ up' = TRUE
    /\ policy' \in Policies
    /\ UNCHANGED <<faults, crashes, group, request, taskVars, worker, now>>

Crash ==
    /\ up
    /\ crashes < MaxCrashes
    /\ crashes' = crashes + 1
    /\ up' = FALSE
    /\ worker' = Idle
    /\ request' = [r \in Events |->
          IF request[r].step = "queueing" THEN [request[r] EXCEPT !.step = "done", !.left = 0]
                                          ELSE request[r]]
    /\ UNCHANGED <<faults, policy, group, taskVars, now>>

Tick ==
    /\ now < Horizon \/ \E t \in Tasks : tasks[t].status = "scheduled" /\ tasks[t].due > now
    /\ now' = now + 1
    /\ UNCHANGED <<faults, processVars, group, request, taskVars, worker>>
----------------------------------------------------------------------------
Handler(r) == \E n \in Tasks : QueueEscalation(r, n)

Next ==
    \/ Boot
    \/ Crash
    \/ \E r \in Events :
          \/ \E g \in Groups, status \in {"active", "resolved"}, routes \in 0 .. MaxRoutes :
                StoreEvent(r, g, status, routes)
          \/ Handler(r)
    \/ \E g \in Groups : Acknowledge(g) \/ Resolve(g)
    \/ Worker
    \/ Tick

Spec == Init /\ [][Next]_vars

(* Tokio polls the handlers and the worker, which looks for due tasks      *)
(* every 50 ms; time passes; the service is restarted when it has died.    *)
Fairness ==
    /\ WF_vars(Boot)
    /\ WF_vars(Worker)
    /\ WF_vars(Tick)
    /\ \A r \in Events : WF_vars(Handler(r))

FairSpec == Spec /\ Fairness
----------------------------------------------------------------------------
(* Properties.                                                             *)

Exists(t) == tasks[t].status # "none"
Open(t) == tasks[t].status \in {"scheduled", "processing"}

(* An acknowledged group has no scheduled step that an acknowledgement     *)
(* stops: neither the worker, which may be in the middle of a step when    *)
(* the operator acknowledges, nor a handler schedules one behind the       *)
(* operator's back.  Such a step would come to life with the next incident.*)
AcknowledgedIsQuiet ==
    faults = 0 => \A t \in Tasks :
        tasks[t].status = "scheduled" /\ tasks[t].stopOnAck =>
            ~group[tasks[t].group].acknowledged

(* A chain takes its steps in order and one at a time: the tasks before a  *)
(* task of the same chain are completed and are the steps before its own.  *)
ChainInOrder ==
    \A s, t \in Tasks :
        Exists(s) /\ Exists(t) /\ s < t /\ origin[s].chain = origin[t].chain =>
            tasks[s].status = "completed" /\ tasks[s].step < tasks[t].step

ExecutedOnce(t) ==
    queued[t] > 0 \/ tasks[t].status = "completed" =>
        /\ tasks[t].status \in {"processing", "completed"}
        /\ \E p \in Policies :
              /\ tasks[t].step <= Len(p)
              /\ queued[t] <= p[tasks[t].step].rows
              /\ tasks[t].status = "completed" => queued[t] = p[tasks[t].step].rows

(* No step is executed twice, whatever fails or crashes: its deliveries    *)
(* are queued only after it was claimed, no more of them than it has       *)
(* receivers, and all of them when it is completed.                        *)
StepsExecutedOnce == \A t \in Tasks : ExecutedOnce(t)

(* Without crashes and failing statements a claimed task is the one the    *)
(* worker executes.  After one it may stay "processing", taken up by       *)
(* nobody, and its chain is lost: nothing else has that effect.            *)
ClaimedIsHeld ==
    \A t \in Tasks :
        tasks[t].status = "processing" =>
            worker.task = t \/ crashes > 0 \/ faults > 0

(* A scheduled step does not wait for ever: it is claimed or canceled, or  *)
(* its group does not allow it, whatever other groups do and however often *)
(* the process is restarted.                                               *)
StepsAreTaken ==
    \A t \in Tasks :
        tasks[t].status = "scheduled" ~>
            tasks[t].status # "scheduled" \/ ~Allows(tasks[t].group, tasks[t])

(* Escalation stops when the group is resolved (REQ-6.2 of the docs): a    *)
(* step that a resolution stops is only claimed in the incident that       *)
(* scheduled it.                                                           *)
EndedIncidentStaysQuiet ==
    [][\A t \in Tasks :
          worker.task # t /\ worker'.task = t /\ tasks[t].stopOnResolve =>
              origin[t].incident = group[tasks[t].group].incident]_vars
============================================================================
