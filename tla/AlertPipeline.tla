---------------------------- MODULE AlertPipeline ----------------------------
(***************************************************************************)
(* From the configuration file and the request to the notification: the    *)
(* proxy starts with a file or refuses it (main, build_app), handlers take *)
(* requests and store, queue and escalate their events item by item        *)
(* (process_generic_events), deliveries and batches are rendered and sent, *)
(* and records past their retention are removed (prune_alerts_before_tx).  *)
(*                                                                         *)
(* What is stored refers to the request it came from: the event <<n, i>>   *)
(* is the i-th of the n-th request, the delivery row <<n, k>> belongs to   *)
(* its k-th item of work.  The retry loop, claims and the escalation steps *)
(* are the subject of DeliveryQueue, NotificationBatches and               *)
(* AlertEscalation; here an attempt ends a delivery or leaves it queued.   *)
(* A storage method holds the connection's mutex: one step, except that    *)
(* its statements may fail one by one where it opens no transaction.       *)
(***************************************************************************)
EXTENDS AlertIntake, AlertRendering

CONSTANTS
    Configs,      \* the configuration files, by name
    Requests,     \* the requests, by name
    Teams,        \* the teams in the database
    Identity,     \* of an alert: what its source knows it by, across requests
    MaxRequests,  \* bound: how many requests arrive
    MaxTroubles,  \* bound: how many storage calls fail, or processes end
    MaxSends,     \* bound: how many attempts at a delivery or batch settle or delay it
    MaxDay        \* bound: how many days pass

ConfigNames == DOMAIN Configs
RequestNames == DOMAIN Requests

IsAccepted(config) == ConfigIsValid(config) /\ TemplatesCompile(config.receivers)

(* Any other file is refused before the database is opened.                *)
Accepted == {c \in ConfigNames : IsAccepted(Configs[c])}

(* RouteEngine::new compiles the regular expressions of the matchers.      *)
RoutesCompile(routing) ==
    \A i \in DOMAIN routing.routes : routing.routes[i].compiles

Startable == {c \in Accepted : RoutesCompile(Configs[c].routing)}

(* What intake makes of every request under every file, as a table.        *)
Outcomes == [c \in Startable |-> [r \in RequestNames |-> Outcome(Configs[c], Requests[r])]]

ASSUME PipelineAssumption ==
    /\ {MaxRequests, MaxTroubles, MaxSends, MaxDay, DiscordLines} \subseteq Nat
    /\ \A c \in ConfigNames :
          /\ Configs[c].storage.retention_days \in Nat
          /\ Configs[c].routing.routes \in Seq(Range(Configs[c].routing.routes))
    /\ \A c \in Startable, r \in RequestNames :  \* what a normalizer returns is a list
          Outcomes[c][r].events \in Seq(Range(Outcomes[c][r].events))

ASSUME TeamsAreNamed == Absent \notin Teams

ReceiverKinds == PayloadOnlyKinds \cup ChatKinds \cup {"google_chat", "matrix"}

IntegrationTypes == {"builtin", "generic_json", "cloud_events"}

IsOptional(block) == block = <<>> \/ DOMAIN block = {1}

(* The types of what is parsed: a kind and a type are one of an enum, a    *)
(* template is there or not, and one without syntax asks nothing of the    *)
(* event.                                                                  *)
ASSUME ConfigsAreTyped ==
    \A c \in ConfigNames :
        /\ \A name \in DOMAIN Configs[c].integrations :
              Configs[c].integrations[name].type \in IntegrationTypes
        /\ \A name \in DOMAIN Configs[c].receivers :
              LET receiver == Configs[c].receivers[name]
              IN  /\ receiver.kind \in ReceiverKinds
                  /\ IsOptional(receiver.template)
                  /\ receiver.template # <<>> =>
                        \A field \in FieldsOf(receiver.template[1]) :
                            LET tpl == receiver.template[1][field][1]
                            IN  tpl.static => tpl.needs = {} /\ tpl.size \in Nat

VARIABLES
    up,           \* does the process run?
    running,      \* the name of the file it runs with
    handlers,     \* the requests taken so far: where each handler is, its answer
    alertGroups,  \* alert_groups, by the event that created them
    alertEvents,  \* alert_events: their group and day
    rows,         \* delivery_records: their status
    batches,      \* notification_batches: members, event_count, status
    lastBatch,    \* the last id of a batch
    tasks,        \* escalation_tasks: their group
    workers,      \* the rows a delivery task of the process works on
    today,
    troubles, sends

storeVars == <<alertGroups, alertEvents, rows, batches, lastBatch, tasks>>
vars == <<up, running, handlers, storeVars, workers, today, troubles, sends>>

Open == 0
Lost == 1
Limits == Configs[running].server
Batching == Configs[running].batching

EventOf(id) == handlers[id[1]].events[id[2]]
ItemOf(row) == handlers[row[1]].work[row[2]]
EventId(row) == <<row[1], ItemOf(row).event>>
Delivery(row) == ItemOf(row).delivery

MemberRows == UNION {Range(batches[b].members) : b \in DOMAIN batches}
----------------------------------------------------------------------------
(* The handler comes from item k - 1 of its work to item k, or its answer. *)
At(h, k) ==
    LET opens == h.work[k].event # h.work[k - 1].event
    IN  IF k > Len(h.work) THEN [h EXCEPT !.k = k, !.step = "done", !.code = 202]
        ELSE [h EXCEPT !.k = k, !.step = IF opens THEN "store" ELSE "queue"]

OpenHandlers == {n \in DOMAIN handlers : handlers[n].code = Open}

(* A request that is refused, or shed behind the router, leaves nothing.   *)
Receive(r) ==
    /\ up /\ Len(handlers) < MaxRequests
    /\ Cardinality(OpenHandlers) < Limits.webhook_concurrency
    /\ \E outcome \in {Outcomes[running][r]} :
          /\ outcome.code = 202
          /\ handlers' = Append(handlers,
                 [request |-> r, config |-> running, day |-> today,
                  events |-> outcome.events, work |-> outcome.work,
                  k |-> 1, step |-> IF outcome.work = <<>> THEN "done" ELSE "store",
                  code |-> IF outcome.work = <<>> THEN 202 ELSE Open])
    /\ UNCHANGED <<up, running, storeVars, workers, today, troubles, sends>>

AlertStatus(event) == IF event.status \in {"resolved", "Resolved"} THEN "resolved" ELSE "active"

Key(id) == <<EventOf(id).group_namespace, EventOf(id).fingerprint>>

(* INSERT INTO the table.                                                  *)
Inserted(table, id, row) ==
    [x \in DOMAIN table \cup {id} |-> IF x = id THEN row ELSE table[x]]

(* The group's own key and an unknown team are kept.                       *)
Upserted(id, owner) ==
    LET known == {g \in DOMAIN alertGroups : Key(g) = Key(id)}
        team == IF owner \in Teams THEN owner ELSE Absent
        status == AlertStatus(EventOf(id))
    IN  IF known = {}
        THEN Inserted(alertGroups, id,
                 [status |-> status, count |-> 1, team |-> team,
                  first |-> today, last |-> today])
        ELSE LET g == CHOOSE g \in known : TRUE
             IN  [alertGroups EXCEPT ![g].status = status, ![g].count = @ + 1,
                                ![g].team = Or(@, team), ![g].last = today]

GroupAfter(id, owner) == CHOOSE g \in DOMAIN Upserted(id, owner) : Key(g) = Key(id)

(* store_event_with_team: the group's statement, then the event's.         *)
StoreEvent(n) ==
    /\ handlers[n].step = "store"
    /\ LET row == <<n, handlers[n].k>>
           owner == ItemOf(row).owner
       IN  /\ alertGroups' = Upserted(EventId(row), owner)
           /\ alertEvents' = Inserted(alertEvents, EventId(row),
                            [group |-> GroupAfter(EventId(row), owner), day |-> today])
    /\ handlers' = [handlers EXCEPT ![n].step = "queue"]
    /\ UNCHANGED <<rows, batches, lastBatch, tasks, workers, troubles>>

PayloadOf(members) ==
    SumFunction([i \in DOMAIN members |-> EventSize(EventOf(EventId(members[i])))])

Fits(batch, row) ==
    /\ batch.count < Batching.max_events
    /\ PayloadOf(Append(batch.members, row)) <= Batching.max_payload_kib

(* The open batches of the row's key; only the youngest takes more events. *)
OpenBatches(row) ==
    {b \in DOMAIN batches :
        /\ batches[b].status = "pending"
        /\ batches[b].key = BatchKey(EventOf(EventId(row)), Delivery(row))}

(* queue_notification_batch, in one transaction.                           *)
JoinBatch(row) ==
    LET youngest == Max(OpenBatches(row) \cup {0})
        joins == youngest # 0 /\ Fits(batches[youngest], row)
    IN  IF joins
        THEN /\ batches' = [batches EXCEPT ![youngest].members = Append(@, row),
                                           ![youngest].count = @ + 1]
             /\ UNCHANGED lastBatch
        ELSE /\ batches' = Inserted(batches, lastBatch + 1,
                    [key |-> BatchKey(EventOf(EventId(row)), Delivery(row)),
                     members |-> <<row>>, count |-> 1, status |-> "pending"])
             /\ lastBatch' = lastBatch + 1

IsBatched(row) ==
    Batching.enabled /\ BatchKey(EventOf(EventId(row)), Delivery(row)) # {}

(* Once its delivery is queued, and its escalation if there is one, a      *)
(* delivery of its own is given to a task.                                 *)
NextItem(n, own) ==
    /\ handlers' = [handlers EXCEPT ![n] = At(@, @.k + 1)]
    /\ workers' = workers \cup own

HasPolicy(row) == Delivery(row).policy \in DOMAIN Configs[running].policies

(* queue_event_delivery up to the row: of a batch, or of its own.          *)
QueueDelivery(n) ==
    LET row == <<n, handlers[n].k>>
    IN  /\ handlers[n].step = "queue"
        /\ rows' = Inserted(rows, row, "queued")
        /\ IF IsBatched(row) THEN JoinBatch(row) ELSE UNCHANGED <<batches, lastBatch>>
        /\ IF HasPolicy(row)
           THEN handlers' = [handlers EXCEPT ![n].step = "escalate"] /\ UNCHANGED workers
           ELSE NextItem(n, IF IsBatched(row) THEN {} ELSE {row})
        /\ UNCHANGED <<alertGroups, alertEvents, tasks, troubles>>

(* queue_escalation_if_configured: the first step of the route's policy,   *)
(* unless the group's state stops it.                                      *)
Escalates(row) ==
    LET step == Configs[running].policies[Delivery(row).policy][1]
        group == alertGroups[alertEvents[EventId(row)].group]
    IN  step.stop_on_resolve => group.status # "resolved"

QueueEscalation(n) ==
    LET row == <<n, handlers[n].k>>
    IN  /\ handlers[n].step = "escalate"
        /\ tasks' = IF Escalates(row) THEN Inserted(tasks, row, alertEvents[EventId(row)].group)
                    ELSE tasks
        /\ NextItem(n, {row} \ MemberRows)
        /\ UNCHANGED <<alertGroups, alertEvents, rows, batches, lastBatch, troubles>>

(* The first of the two statements of store_event_with_team.              *)
HalfStored(n) ==
    /\ handlers[n].step = "store"
    /\ LET row == <<n, handlers[n].k>>
       IN  alertGroups' = Upserted(EventId(row), ItemOf(row).owner)

(* A storage call fails; of store_event_with_team perhaps only the second  *)
(* statement.                                                              *)
Fail(n) ==
    /\ troubles < MaxTroubles
    /\ troubles' = troubles + 1
    /\ handlers' = [handlers EXCEPT ![n].code = 500]
    /\ UNCHANGED alertGroups \/ HalfStored(n)
    /\ UNCHANGED <<alertEvents, rows, batches, lastBatch, tasks, workers>>

Handle(n) ==
    /\ up /\ handlers[n].code = Open
    /\ StoreEvent(n) \/ QueueDelivery(n) \/ QueueEscalation(n) \/ Fail(n)
    /\ UNCHANGED <<up, running, today, sends>>
----------------------------------------------------------------------------
BatchOf(ids) == [i \in DOMAIN ids |-> EventOf(EventId(ids[i]))]

(* The end of an attempt: delivered, given up, or to be repeated.          *)
Verdict(outgoing, answer, last) ==
    IF HasFailed(outgoing) \/ IsFinal(answer) THEN "dead_letter"
    ELSE IF IsTaken(answer) THEN "succeeded"
    ELSE IF last THEN "dead_letter" ELSE "retrying"

TargetAnswers == {"200", "400", "none"}

(* What is posted for a delivery of its own, or for a batch.               *)
OutgoingOf(ids, batched) ==
    LET receivers == Configs[running].receivers
        name == Delivery(ids[1]).receiver
    IN  IF name \in DOMAIN receivers
        THEN Outgoing(receivers[name], BatchOf(ids), batched)
        ELSE Failed("receiver")

(* What an attempt makes of a row: "queued" stands for the states of one   *)
(* that is not settled.                                                    *)
RowAfter(verdict) == IF verdict = "retrying" THEN "queued" ELSE verdict

Verdicts(ids, batched) ==
    {Verdict(OutgoingOf(ids, batched), answer, last) :
        answer \in TargetAnswers, last \in BOOLEAN}

(* A delivery task works from memory: that its row is gone does not stop   *)
(* it.  An attempt it is to repeat changes nothing here.                   *)
SendDelivery(row) ==
    /\ \E verdict \in Verdicts(<<row>>, FALSE) \ {"retrying"} :
          rows' = IF row \in DOMAIN rows THEN [rows EXCEPT ![row] = verdict] ELSE rows
    /\ workers' = workers \ {row}
    /\ UNCHANGED batches

SendBatch(b) ==
    /\ batches[b].status \in {"pending", "retrying"}
    /\ \E verdict \in Verdicts(batches[b].members, TRUE) :
          /\ rows' = [row \in DOMAIN rows |->
                          IF row \in Range(batches[b].members)
                          THEN RowAfter(verdict) ELSE rows[row]]
          /\ batches' = [batches EXCEPT ![b].status = verdict]
    /\ UNCHANGED workers

Send ==
    /\ up /\ sends < MaxSends
    /\ \/ \E row \in workers : SendDelivery(row)
       \/ \E b \in DOMAIN batches : SendBatch(b)
    /\ sends' = sends + 1
    /\ UNCHANGED <<up, running, handlers, alertGroups, alertEvents, lastBatch, tasks,
                   today, troubles>>
----------------------------------------------------------------------------
OldEvents(retention) == {e \in DOMAIN alertEvents : alertEvents[e].day + retention < today}

(* The members of a batch whose events are not old.                        *)
MembersLeft(b, old) ==
    LET members == batches[b].members
    IN  Kept(members, {i \in DOMAIN members : EventId(members[i]) \notin old})

(* Mutant of RemainingBatches: their counters are not brought up to date.  *)
UncountedBatches(old) ==
    LET Left(b) == MembersLeft(b, old)
        kept == {b \in DOMAIN batches : Left(b) # <<>>}
    IN  [b \in kept |-> [batches[b] EXCEPT !.members = Left(b)]]

(* Mutant of RemainingBatches: a batch outlives its last member.           *)
EmptiedBatches(old) ==
    LET Left(b) == MembersLeft(b, old)
    IN  [b \in DOMAIN batches |->
            [batches[b] EXCEPT !.members = Left(b), !.count = Len(Left(b))]]

(* A batch loses its old members, and goes with the last of them.          *)
RemainingBatches(old) ==
    LET Left(b) == MembersLeft(b, old)
        kept == {b \in DOMAIN batches : Left(b) # <<>>}
    IN  [b \in kept |-> [batches[b] EXCEPT
            !.members = Left(b),
            !.count = IF Left(b) = batches[b].members THEN @ ELSE Len(Left(b))]]

EventsOf(g) == {e \in DOMAIN alertEvents : alertEvents[e].group = g}

(* The days of a group's remaining events.                                 *)
DaysLeft(g, old) == {alertEvents[e].day : e \in EventsOf(g) \ old}

RemainingGroups(old) ==
    LET affected == {alertEvents[e].group : e \in old}
        orphans == {g \in affected : DaysLeft(g, old) = {}}
    IN  [g \in DOMAIN alertGroups \ orphans |->
            IF g \notin affected THEN alertGroups[g]
            ELSE [alertGroups[g] EXCEPT
                    !.count = Cardinality(EventsOf(g) \ old),
                    !.first = Min(DaysLeft(g, old)),
                    !.last = Max(DaysLeft(g, old))]]

(* prune_alerts_before_tx, in one transaction.                             *)
Pruned(retention) ==
    LET old == OldEvents(retention)
    IN  /\ alertEvents' = Restrict(alertEvents, DOMAIN alertEvents \ old)
        /\ rows' = [row \in {r \in DOMAIN rows : EventId(r) \notin old} |-> rows[row]]
        /\ batches' = RemainingBatches(old)
        /\ alertGroups' = RemainingGroups(old)
        /\ tasks' = [task \in {t \in DOMAIN tasks : tasks[t] \in DOMAIN RemainingGroups(old)}
                        |-> tasks[task]]
        /\ UNCHANGED lastBatch

(* The pruner's daily round.                                               *)
Prune ==
    /\ up
    /\ OldEvents(Configs[running].storage.retention_days) # {}
    /\ Pruned(Configs[running].storage.retention_days)
    /\ UNCHANGED <<up, running, handlers, workers, today, troubles, sends>>

(* Requests are answered within the day; days without alerts are left out. *)
Tick ==
    /\ today < MaxDay /\ OpenHandlers = {} /\ alertEvents # <<>>
    /\ today' = today + 1
    /\ UNCHANGED <<up, running, handlers, storeVars, workers, troubles, sends>>
----------------------------------------------------------------------------
(* recover_deliveries.                                                     *)
Recovered == {row \in DOMAIN rows \ MemberRows : rows[row] = "queued"}

ReceiversAreThere(c) ==
    \A row \in Recovered : Delivery(row).receiver \in DOMAIN Configs[c].receivers

(* The database is opened and pruned before the routes are compiled and    *)
(* the recovered deliveries are given their receivers: the process may end *)
(* there, too.  The recovered deliveries are those read before the         *)
(* pruning.                                                                *)
Start(c) ==
    /\ ~up
    /\ Pruned(Configs[c].storage.retention_days)
    /\ IF c \in Startable /\ ReceiversAreThere(c)
       THEN up' = TRUE /\ running' = c /\ workers' = Recovered
       ELSE UNCHANGED <<up, running, workers>>
    /\ UNCHANGED <<handlers, today, troubles, sends>>

(* The process ends, perhaps between the two statements of a store.        *)
Crash ==
    /\ up /\ troubles < MaxTroubles
    /\ troubles' = troubles + 1
    /\ up' = FALSE
    /\ workers' = {}
    /\ handlers' = [n \in DOMAIN handlers |->
                        IF handlers[n].code = Open THEN [handlers[n] EXCEPT !.code = Lost]
                        ELSE handlers[n]]
    /\ UNCHANGED alertGroups \/ \E n \in OpenHandlers : HalfStored(n)
    /\ UNCHANGED <<running, alertEvents, rows, batches, lastBatch, tasks, today, sends>>
(* The server waits for the next request; a request it has taken it does   *)
(* not leave unanswered.                                                   *)
Quiet ==
    /\ up /\ OpenHandlers = {}
    /\ UNCHANGED vars
----------------------------------------------------------------------------
Init ==
    /\ up = FALSE /\ running = Absent
    /\ handlers = <<>>
    /\ alertGroups = <<>> /\ alertEvents = <<>>
    /\ rows = <<>> /\ batches = <<>> /\ tasks = <<>>
    /\ lastBatch = 0
    /\ workers = {}
    /\ today = 0 /\ troubles = 0 /\ sends = 0

Next ==
    \/ \E c \in Accepted : Start(c)
    \/ \E r \in RequestNames : Receive(r)
    \/ \E n \in DOMAIN handlers : Handle(n)
    \/ Send \/ Prune \/ Tick \/ Crash \/ Quiet

Spec == Init /\ [][Next]_vars
----------------------------------------------------------------------------
GroupRecord ==
    [status : {"active", "resolved"}, count : Nat \ {0}, team : Teams \cup {Absent},
     first : 0 .. MaxDay, last : 0 .. MaxDay]

(* The state is well typed: ids name stored things of known requests, and  *)
(* a handler's place is within its work.                                   *)
TypeOK ==
    /\ up \in BOOLEAN /\ running \in Startable \cup {Absent}
    /\ \A n \in DOMAIN handlers :
          LET h == handlers[n]
          IN  /\ h.request \in RequestNames /\ h.config \in Startable /\ h.day \in 0 .. today
              /\ h.k \in 1 .. Len(h.work) + 1
              /\ h.step \in {"store", "queue", "escalate", "done"}
              /\ h.code \in {Open, Lost, 202, 500}
    /\ \A g \in DOMAIN alertGroups : alertGroups[g] \in GroupRecord
    /\ \A e \in DOMAIN alertEvents :
          alertEvents[e] \in [group : DOMAIN alertGroups, day : 0 .. MaxDay]
    /\ \A row \in DOMAIN rows : rows[row] \in {"queued", "succeeded", "dead_letter"}
    /\ \A b \in DOMAIN batches :
          /\ b \in 1 .. lastBatch
          /\ batches[b].status \in {"pending", "retrying", "succeeded", "dead_letter"}
          /\ batches[b].members # <<>>
    /\ \A task \in DOMAIN tasks : tasks[task] \in DOMAIN alertGroups
    /\ today \in 0 .. MaxDay /\ troubles \in 0 .. MaxTroubles /\ sends \in 0 .. MaxSends

(* The least retention of a file that may have pruned the database.        *)
LeastRetention ==
    Min({Configs[c].storage.retention_days : c \in Accepted})

MayBeExpired(h) == h.day + LeastRetention < today

IsBeingDelivered(row) ==
    rows[row] = "queued" =>
        \/ row \in workers
        \/ \E b \in DOMAIN batches :
              row \in Range(batches[b].members) /\ batches[b].status \in {"pending", "retrying"}

(* Whose normalizer reads a request: SigNoz's at the server's own path.    *)
Reader(config, request) ==
    LET names == IntegrationAt(config, request.path)
        integration == config.integrations[CHOOSE n \in names : TRUE]
    IN  IF names = {} THEN "signoz"
        ELSE IF integration.type = "builtin" THEN integration.preset ELSE integration.type

(* The alerts in a body, as its source lists them.                         *)
AlertsListed(reader, body) ==
    IF reader \in {"gvmd", "generic_json"} THEN <<body.id>>
    ELSE IF reader = "cloud_events" THEN <<body.alert>>
    ELSE IF reader = "grafana" /\ body.alerts = <<>> THEN <<body.id>>
    ELSE [i \in DOMAIN body.alerts |-> body.alerts[i].id]

(* Of the requests: the alerts one carries are listed in its body, each    *)
(* once.                                                                   *)
RequestsListTheirAlerts ==
    \A c \in Startable, r \in RequestNames :
        Outcomes[c][r].code = 202 =>
            LET reader == Reader(Configs[c], Requests[r])
                body == Requests[r].body
                listed == AlertsListed(reader, body)
            IN  /\ IsInjective(listed) /\ Requests[r].alerts \subseteq Range(listed)
                /\ reader \in {"signoz", "alertmanager"} =>
                      "alerts" \in DOMAIN body /\ body.alerts \in Seq(Range(body.alerts))

(* An answer tells the sender the truth (main.rs:1144-1383).  202: every   *)
(* alert of the request is in one event, and each delivery the routes plan *)
(* for an event has its row, which somebody delivers, until retention      *)
(* removes it.  And nothing is stored of a request without the token its   *)
(* path asks for.                                                          *)
AnswersAreTrue ==
    \A n \in DOMAIN handlers :
        LET h == handlers[n]
            file == Configs[h.config]
            request == Requests[h.request]
            own == {file.integrations[name].auth : name \in IntegrationAt(file, request.path)}
            asked == IF own \subseteq {Absent} THEN {file.server.auth} ELSE own
        IN  /\ h.code = 202 =>
                  /\ \A alert \in request.alerts :
                        Cardinality({i \in DOMAIN h.events :
                                        alert \in h.events[i].raw_payload.alerts}) = 1
                  /\ \A i \in DOMAIN h.events : \A j \in DOMAIN Planned(file, h.events[i]) :
                        \/ MayBeExpired(h)
                        \/ \E k \in DOMAIN h.work :
                              /\ h.work[k].event = i
                              /\ h.work[k].delivery = Planned(file, h.events[i])[j]
                              /\ <<n, k>> \in DOMAIN rows
                              /\ up => IsBeingDelivered(<<n, k>>)
            /\ (\E e \in DOMAIN alertEvents : e[1] = n) =>
                  asked = {Absent} \/ request.token \in asked

IdentitiesOf(event) == {Identity[alert] : alert \in event.raw_payload.alerts} \ {Absent}
Identities(e) == IdentitiesOf(EventOf(e))

(* A Grafana alert that has no fingerprint is known by a digest, which the *)
(* group key is part of (grafana.rs:95-107, 353).                          *)
IsDigested(event) == event.source = "grafana" /\ event.fingerprint[1] = "grafana"

Regrouped(d, e) ==
    /\ IsDigested(d) /\ IsDigested(e)
    /\ d.notification_group_key # e.notification_group_key

(* What a source takes for the same alert, be it sent again or with        *)
(* another status, is one group of the proxy, and nothing else is          *)
(* (grafana.rs:195-201, 346-374; signoz.rs:152-166, 210-252;               *)
(* gvmd.rs:298-340).  Sent in another grouping it still is, if Grafana     *)
(* gives it a fingerprint or SigNoz a rule.  A Grafana alert without one   *)
(* is another group then, although "duplicate notifications from contact   *)
(* points in the same Grafana organization still converge on one group"    *)
(* (README.md:850-852): contact points may have group keys of their own.   *)
(* A source names its alerts always or never.                              *)
IdentityIsStable ==
    \A e, f \in DOMAIN alertEvents :
        /\ Cardinality(Identities(e)) <= 1
        /\ (/\ Identities(e) # {} /\ Identities(f) # {}
            /\ EventOf(e).integration = EventOf(f).integration) =>
              (alertEvents[e].group = alertEvents[f].group
               <=> Identities(e) = Identities(f) /\ ~Regrouped(EventOf(e), EventOf(f)))

(* Of all that is stored, two events are in one group if and only if they  *)
(* are of one integration, namespace and fingerprint: also when the pruner *)
(* took a group away and its alert opens it again, when handlers store the *)
(* same alert side by side and when a torn store_event_with_team left the  *)
(* half of an event; and a group with events of an owning team belongs to  *)
(* a team, whoever opened it (storage.rs:1906-1985).                       *)
GroupsAreKeyed ==
    \A e, f \in DOMAIN alertEvents :
        /\ alertEvents[e].group = alertEvents[f].group <=>
              /\ EventOf(e).integration = EventOf(f).integration
              /\ EventOf(e).group_namespace = EventOf(f).group_namespace
              /\ EventOf(e).fingerprint = EventOf(f).fingerprint
        /\ FirstOwnerTeam(Planned(Configs[handlers[e[1]].config], EventOf(e))) \in Teams =>
              alertGroups[alertEvents[e].group].team # Absent

(* The tables refer to each other and agree, also after the pruner has     *)
(* taken the old records out of their middle (storage.rs:2652-2808): a     *)
(* group counts its events and spans their days, exactly so if no storage  *)
(* call failed; a row has its event, a batch its rows, their count and no  *)
(* row of another batch.                                                   *)
TablesAgree ==
    /\ \A e \in DOMAIN alertEvents : alertEvents[e].group \in DOMAIN alertGroups
    /\ \A g \in DOMAIN alertGroups :
          /\ Cardinality(EventsOf(g)) <= alertGroups[g].count
          /\ DaysLeft(g, {}) \subseteq alertGroups[g].first .. alertGroups[g].last
          /\ troubles = 0 =>
                /\ alertGroups[g].count = Cardinality(EventsOf(g))
                /\ {alertGroups[g].first, alertGroups[g].last} \subseteq DaysLeft(g, {})
    /\ \A row \in DOMAIN rows : EventId(row) \in DOMAIN alertEvents
    /\ \A task \in DOMAIN tasks : tasks[task] \in DOMAIN alertGroups
    /\ \A b \in DOMAIN batches :
          /\ Range(batches[b].members) \subseteq DOMAIN rows
          /\ batches[b].count = Len(batches[b].members)
          /\ \A c \in DOMAIN batches \ {b} :
                Range(batches[b].members) \cap Range(batches[c].members) = {}

(* The store is one whole after every step of a handler, the attempts, the *)
(* pruner and a failure: the tables agree, and a group holds just the      *)
(* events that belong together (storage.rs:248-433, 1906-1985, 2652-2808). *)
StoreIsConsistent == TablesAgree /\ GroupsAreKeyed

IsNamed(event, message) ==
    \/ <<"event", event.event_id>> \in message.names
    \/ {<<"instance", alert>> : alert \in event.raw_payload.alerts} \subseteq message.names

IsTemplated(receiver) == receiver.template # <<>>

HasFixedTemplate(receiver) ==
    IsTemplated(receiver) /\ HasField(receiver, "payload") /\ receiver.template[1].payload[1].static

(* What is posted for every delivery and batch under way is of the         *)
(* target's shape and stands for every event behind it, unless a template  *)
(* or Discord's text limit decides what is shown; the events of a batch    *)
(* have one status, as the message shows only one.  And nothing is given   *)
(* up before it is posted but for a template that depends on the event, a  *)
(* secret that is missing, or a contract's size limit (google_chat.rs:     *)
(* 38-594; template.rs:123-280).                                           *)
IsWhole(ids, batched) ==
    LET batch == BatchOf(ids)
        receiver == Configs[running].receivers[Delivery(ids[1]).receiver]
    IN  \A outgoing \in {OutgoingOf(ids, batched)} :
            IF HasFailed(outgoing)
            THEN CASE outgoing.failed = "template" ->
                         IsTemplated(receiver) /\ ~HasFixedTemplate(receiver)
                   [] outgoing.failed = "size" ->
                         IsTemplated(receiver) \/ BatchSize(batch) > ByteLimit(receiver.kind)
                   [] outgoing.failed = "secret" -> ~SecretIsThere(receiver)
                   [] outgoing.failed = "receiver" -> handlers[ids[1][1]].config # running
            ELSE /\ ShapeIsValid(receiver.kind, outgoing.fields)
                 /\ batched => \A i \in DOMAIN batch : batch[i].status = batch[1].status
                 /\ \/ IsTemplated(receiver)
                    \/ receiver.kind = "discord" /\ InstanceCount(batch) > DiscordLines
                    \/ \A i \in DOMAIN batch : IsNamed(batch[i], outgoing)

UnderWay ==
    {<<<<row>>, FALSE>> : row \in workers}
    \cup {<<batches[b].members, TRUE>> :
             b \in {b \in DOMAIN batches : batches[b].status \in {"pending", "retrying"}}}

MessagesAreWhole == up => \A attempt \in UnderWay : IsWhole(attempt[1], attempt[2])
============================================================================
