-------------------------- MODULE AlertAnswersProofs --------------------------
(***************************************************************************)
(* Proofs about what an answer of the AlertPipeline tells its sender: that *)
(* a request was let in, and that the deliveries planned for its events    *)
(* are stored and somebody delivers them.                                  *)
(***************************************************************************)
EXTENDS AlertPipelineProofs

----------------------------------------------------------------------------
(* The work of a request is complete.                                      *)

(* Unrolled, FlattenSeq is a function of the places.                       *)
LEMMA FlattenedByStep ==
    ASSUME NEW seqs, Len(seqs) \in Nat, Len(seqs) # 0
    PROVE  \E flatten : /\ JoinsUpTo(flatten, seqs, Len(seqs))
                        /\ FlattenSeq(seqs) = flatten[Len(seqs)]
<1> DEFINE flatten == CHOOSE flatten :
        flatten = [i \in 1 .. Len(seqs) |->
                      IF i = 1 THEN seqs[i] ELSE flatten[i - 1] \o seqs[i]]
<1>1. FlattenSeq(seqs) = flatten[Len(seqs)]
  BY DEF FlattenSeq
<1>2. PICK f : JoinsUpTo(f, seqs, Len(seqs))
  BY JoinedByStep
<1>3. f = [i \in 1 .. Len(seqs) |-> IF i = 1 THEN seqs[i] ELSE f[i - 1] \o seqs[i]]
  BY <1>2 DEF JoinsUpTo
<1>4. flatten = [i \in 1 .. Len(seqs) |-> IF i = 1 THEN seqs[i] ELSE flatten[i - 1] \o seqs[i]]
  BY <1>3
<1> HIDE DEF flatten
<1>5. JoinsUpTo(flatten, seqs, Len(seqs))
  BY <1>4 DEF JoinsUpTo
<1> QED BY <1>1, <1>5

(* A list that has every element of the lists up to place i.               *)
HasAllUpTo(w, X, seqs, i) ==
    /\ w \in Seq(X)
    /\ \A j \in 1 .. i : \A k \in 1 .. Len(seqs[j]) :
          \E m \in 1 .. Len(w) : w[m] = seqs[j][k]

LEMMA JoinedHasAll ==
    ASSUME NEW X, NEW seqs, NEW i \in Nat, NEW w, HasAllUpTo(w, X, seqs, i),
           NEW v \in Seq(X), v = seqs[i + 1]
    PROVE  HasAllUpTo(w \o v, X, seqs, i + 1)
<1>1. w \in Seq(X) /\ Len(w) \in Nat /\ Len(v) \in Nat
  BY DEF HasAllUpTo
<1> DEFINE u == w \o v
<1>2. /\ u \in Seq(X) /\ Len(u) = Len(w) + Len(v)
      /\ \A m \in 1 .. Len(w) : u[m] = w[m]
      /\ \A m \in Len(w) + 1 .. Len(w) + Len(v) : u[m] = v[m - Len(w)]
  BY <1>1
<1> HIDE DEF u
<1>3. ASSUME NEW j \in 1 .. i, NEW k \in 1 .. Len(seqs[j])
      PROVE  \E m \in 1 .. Len(u) : u[m] = seqs[j][k]
  <2>1. PICK m \in 1 .. Len(w) : w[m] = seqs[j][k]
    BY DEF HasAllUpTo
  <2>2. m \in 1 .. Len(u) /\ u[m] = w[m]
    BY <1>1, <1>2
  <2> QED BY <2>1, <2>2
<1>4. ASSUME NEW k \in 1 .. Len(v)
      PROVE  \E m \in 1 .. Len(u) : u[m] = v[k]
  <2>1. Len(w) + k \in Len(w) + 1 .. Len(w) + Len(v) /\ Len(w) + k - Len(w) = k
    BY <1>1
  <2>2. Len(w) + k \in 1 .. Len(u) /\ u[Len(w) + k] = v[k]
    BY <1>1, <1>2, <2>1
  <2> QED BY <2>2
<1>5. \A j \in 1 .. i + 1 : j \in 1 .. i \/ j = i + 1
  OBVIOUS
<1>6. HasAllUpTo(u, X, seqs, i + 1)
  BY <1>2, <1>3, <1>4, <1>5 DEF HasAllUpTo
<1> QED BY <1>6 DEF u

LEMMA FlattenedHasAll ==
    ASSUME NEW X, NEW seqs \in Seq(Seq(X))
    PROVE  HasAllUpTo(FlattenSeq(seqs), X, seqs, Len(seqs))
<1>1. PICK n : n = Len(seqs)
  OBVIOUS
<1>2. n \in Nat /\ \A i \in 1 .. n : seqs[i] \in Seq(X)
  BY <1>1
<1>3. CASE n = 0
  <2>1. Len(seqs) = 0
    BY <1>1, <1>3
  <2>2. FlattenSeq(seqs) = seqs
    BY <2>1, Zenon DEF FlattenSeq
  <2>3. seqs = <<>>
    BY <2>1
  <2> QED BY <1>1, <1>3, <2>2, <2>3 DEF HasAllUpTo
<1>4. CASE n # 0
  <2>1. PICK flatten : JoinsUpTo(flatten, seqs, n) /\ FlattenSeq(seqs) = flatten[n]
    BY <1>1, <1>2, <1>4, FlattenedByStep
  <2> DEFINE Right(i) == HasAllUpTo(flatten[i], X, seqs, i)
             S == {i \in 1 .. n : ~ Right(i)}
  <2>2. CASE S = {}
    BY <1>1, <1>2, <1>4, <2>1, <2>2
  <2>3. CASE S # {}
    <3>1. PICK m \in S : \A k \in S : m <= k
      <4>1. S \subseteq Nat
        OBVIOUS
      <4> HIDE DEF S
      <4> QED BY <2>3, <4>1, LeastNatural
    <3>2. m \in 1 .. n /\ ~ Right(m) /\ \A k \in 1 .. n : k < m => Right(k)
      BY <3>1
    <3> HIDE DEF S
    <3>3. CASE m = 1
      <4>1. flatten[1] = seqs[1] /\ seqs[1] \in Seq(X)
        BY <1>2, <2>1, <3>2, <3>3 DEF JoinsUpTo
      <4>2. \A j \in 1 .. 1 : j = 1
        OBVIOUS
      <4> QED BY <3>2, <3>3, <4>1, <4>2 DEF HasAllUpTo
    <3>4. CASE m # 1
      <4>1. m - 1 \in Nat /\ m - 1 \in 1 .. n /\ Right(m - 1) /\ m - 1 + 1 = m
        BY <1>2, <3>2, <3>4
      <4>2. flatten[m] = flatten[m - 1] \o seqs[m] /\ seqs[m] \in Seq(X)
        BY <1>2, <2>1, <3>2, <3>4 DEF JoinsUpTo
      <4> QED BY <3>2, <4>1, <4>2, JoinedHasAll
    <3> QED BY <3>3, <3>4
  <2> QED BY <2>2, <2>3
<1> QED BY <1>3, <1>4

LEMMA PlanReceivers ==
    ASSUME NEW config, IsList(config.routing.routes), RoutingIsValid(config), NEW event,
           NEW j \in DOMAIN Plan(config.routing, event)
    PROVE  Plan(config.routing, event)[j].receiver \in DOMAIN config.receivers
<1> DEFINE routing == config.routing
           matching == {i \in DOMAIN routing.routes : RouteMatches(routing.routes[i], event)}
           hits == Kept(routing.routes, matching)
           last == {i \in DOMAIN hits : ~hits[i].continue}
           first == CHOOSE i \in last : \A k \in last : i <= k
           planned == IF last = {} THEN hits ELSE SubSeq(hits, 1, first)
<1>1. /\ IsList(hits) /\ Range(hits) \subseteq Range(routing.routes)
  <2>1. matching \subseteq DOMAIN routing.routes
    OBVIOUS
  <2> HIDE DEF matching
  <2>2. Range(hits) = {routing.routes[i] : i \in matching}
    BY <2>1, KeptElements
  <2> QED BY <2>1, <2>2, KeptIsList DEF Range
<1>2. Len(hits) \in Nat /\ DOMAIN hits = 1 .. Len(hits)
  BY <1>1, ListFields
<1> HIDE DEF hits
<1>3. last # {} => first \in 1 .. Len(hits)
  <2>1. last \subseteq Nat /\ last \subseteq 1 .. Len(hits)
    BY <1>2
  <2> HIDE DEF last
  <2>2. last # {} => \E i \in last : \A k \in last : i <= k
    BY <2>1, LeastNatural
  <2>3. last # {} => first \in last
    BY <2>2, Zenon
  <2> QED BY <2>1, <2>3
<1>4. \A i \in DOMAIN planned : planned[i] \in Range(hits)
  <2> HIDE DEF first, last
  <2>1. CASE last = {}
    BY <2>1 DEF Range
  <2>2. CASE last # {}
    <3>1. hits \in Seq(Range(hits)) /\ first \in 1 .. Len(hits)
      BY <1>1, <1>3, <2>2 DEF IsList
    <3>2. SubSeq(hits, 1, first) \in Seq(Range(hits))
      BY <1>2, <3>1
    <3>3. \A i \in DOMAIN SubSeq(hits, 1, first) : SubSeq(hits, 1, first)[i] \in Range(hits)
      BY <3>2
    <3> QED BY <2>2, <3>3
  <2> QED BY <2>1, <2>2
<1> HIDE DEF planned
<1>5. \A route \in Range(routing.routes) : route.receiver \in DOMAIN config.receivers
  BY DEF RoutingIsValid, RouteIsValid, IsReceiver, Range
<1> DEFINE all == [i \in DOMAIN planned |-> DeliveryOf(planned[i])]
           default == <<DefaultDelivery(routing.default)>>
<1>6. \/ Plan(routing, event) = all
      \/ Plan(routing, event) = default /\ routing.default # Absent
  BY Zenon DEF Plan, planned, hits, last
<1>7. CASE Plan(routing, event) = all
  <2>1. j \in DOMAIN planned /\ Plan(routing, event)[j] = DeliveryOf(planned[j])
    BY <1>7
  <2> QED BY <1>1, <1>4, <1>5, <2>1 DEF DeliveryOf
<1>8. CASE Plan(routing, event) = default /\ routing.default # Absent
  <2>1. Plan(routing, event)[j] = DefaultDelivery(routing.default)
    BY <1>8
  <2> QED BY <1>8, <2>1 DEF DefaultDelivery, RoutingIsValid, IsReceiver
<1> QED BY <1>6, <1>7, <1>8

(* A plan names receivers that the file has, whoever owns the delivery.    *)
LEMMA PlannedReceivers ==
    ASSUME NEW config, IsList(config.routing.routes), RoutingIsValid(config), NEW event,
           NEW j \in DOMAIN Planned(config, event)
    PROVE  Planned(config, event)[j].receiver \in DOMAIN config.receivers
<1>1. PICK s : s = Plan(config.routing, event)
  OBVIOUS
<1>2. j \in DOMAIN s
  BY <1>1 DEF Planned, WithReceiverOwnership
<1>3. s[j].receiver \in DOMAIN config.receivers
  BY <1>1, <1>2, PlanReceivers
<1>4. PICK team : Planned(config, event)[j] \in {s[j], [s[j] EXCEPT !.team = team]}
  BY <1>1, <1>2 DEF Planned, WithReceiverOwnership
<1>5. [s[j] EXCEPT !.team = team].receiver = s[j].receiver
  OBVIOUS
<1> QED BY <1>3, <1>4, <1>5

(* Every delivery planned for an event of the request is an item of work.  *)
WorkCovers(config, events, work) ==
    \A i \in DOMAIN events : \A j \in DOMAIN Planned(config, events[i]) :
        \E k \in DOMAIN work :
            work[k].event = i /\ work[k].delivery = Planned(config, events[i])[j]

LEMMA WorkIsComplete ==
    ASSUME NEW config, IsList(config.routing.routes), RoutingIsValid(config),
           NEW events, IsList(events)
    PROVE  WorkCovers(config, events, WorkOn(config, events))
<1> DEFINE planned(i) == Planned(config, events[i])
           there(i) == {j \in DOMAIN planned(i) :
                           planned(i)[j].receiver \in DOMAIN config.receivers}
           plan(i) == Kept(planned(i), there(i))
           items(i) == [j \in DOMAIN plan(i) |->
                [event |-> i, delivery |-> plan(i)[j], owner |-> FirstOwnerTeam(planned(i))]]
           seqs == [i \in DOMAIN events |-> items(i)]
           X == UNION {Range(items(i)) : i \in DOMAIN events}
<1>1. Len(events) \in Nat /\ DOMAIN events = 1 .. Len(events)
  BY ListFields
<1>2. ASSUME NEW i \in DOMAIN events
      PROVE  /\ items(i) \in Seq(X)
             /\ \A j \in DOMAIN planned(i) :
                   \E k \in 1 .. Len(items(i)) :
                      items(i)[k].event = i /\ items(i)[k].delivery = planned(i)[j]
  <2>1. there(i) = DOMAIN planned(i)
    BY PlannedReceivers
  <2>2. IsList(planned(i))
    BY PlannedIsList
  <2> HIDE DEF planned, there
  <2>3. IsList(plan(i)) /\ Range(plan(i)) = {planned(i)[j] : j \in DOMAIN planned(i)}
    BY <2>1, <2>2, KeptElements, KeptIsList
  <2> HIDE DEF plan
  <2>4. Len(plan(i)) \in Nat /\ DOMAIN plan(i) = 1 .. Len(plan(i))
    BY <2>3, ListFields
  <2>5. \A j \in DOMAIN items(i) : items(i)[j] \in X
    <3> HIDE DEF items
    <3> QED BY <1>2 DEF Range
  <2>6. items(i) \in [1 .. Len(plan(i)) -> X]
    <3> HIDE DEF X
    <3> QED BY <2>4, <2>5
  <2>7. items(i) \in Seq(X) /\ Len(items(i)) = Len(plan(i))
    <3> HIDE DEF X, items
    <3> QED BY <2>4, <2>6
  <2> HIDE DEF X
  <2>8. \A k \in 1 .. Len(plan(i)) :
            items(i)[k].event = i /\ items(i)[k].delivery = plan(i)[k]
    BY <2>4
  <2> HIDE DEF items
  <2>9. \A j \in DOMAIN planned(i) : \E k \in 1 .. Len(plan(i)) : plan(i)[k] = planned(i)[j]
    BY <2>3, <2>4 DEF Range
  <2> QED BY <2>7, <2>8, <2>9
<1>3. WorkOn(config, events) = FlattenSeq(seqs)
  BY Zenon DEF WorkOn
<1> HIDE DEF X, items
<1>4. seqs \in Seq(Seq(X)) /\ Len(seqs) = Len(events)
  <2>1. seqs \in [1 .. Len(events) -> Seq(X)]
    BY <1>1, <1>2
  <2> QED BY <1>1, <2>1
<1>5. \A i \in DOMAIN events : i \in 1 .. Len(seqs) /\ seqs[i] = items(i)
  BY <1>1, <1>4
<1> HIDE DEF seqs
<1>6. PICK work : work = WorkOn(config, events)
  OBVIOUS
<1>7. HasAllUpTo(work, X, seqs, Len(seqs))
  BY <1>3, <1>4, <1>6, FlattenedHasAll
<1>8. DOMAIN work = 1 .. Len(work)
  BY <1>7 DEF HasAllUpTo
<1>9. ASSUME NEW i \in DOMAIN events, NEW j \in DOMAIN Planned(config, events[i])
      PROVE  \E k \in DOMAIN work :
                work[k].event = i /\ work[k].delivery = Planned(config, events[i])[j]
  <2>1. PICK k \in 1 .. Len(items(i)) :
            items(i)[k].event = i /\ items(i)[k].delivery = Planned(config, events[i])[j]
    BY <1>2
  <2>2. PICK m \in 1 .. Len(work) : work[m] = seqs[i][k]
    BY <1>5, <1>7, <2>1 DEF HasAllUpTo
  <2> QED BY <1>5, <1>8, <2>1, <2>2
<1>10. WorkCovers(config, events, work)
  BY <1>9 DEF WorkCovers
<1> QED BY <1>6, <1>10

----------------------------------------------------------------------------
(* What intake makes of a request.                                         *)

AskedOf(config, request) ==
    LET own == {config.integrations[name].auth : name \in IntegrationAt(config, request.path)}
    IN  IF own \subseteq {Absent} THEN {config.server.auth} ELSE own

LEMMA AcceptedIsAuthorized ==
    ASSUME NEW config, NEW request, Handled(config, request).code = 202
    PROVE  AskedOf(config, request) = {Absent} \/ request.token \in AskedOf(config, request)
<1> DEFINE names == IntegrationAt(config, request.path)
<1>1. IsAuthorized(config, names, request.token)
  <2>1. SUFFICES ASSUME ~ IsAuthorized(config, names, request.token) PROVE FALSE
    OBVIOUS
  <2>2. Handled(config, request) \in {Answer(413, <<>>), Answer(404, <<>>), Answer(401, <<>>)}
    BY <2>1 DEF Handled
  <2> QED BY <2>2 DEF Answer
<1>2. PICK own : own = {config.integrations[name].auth : name \in names}
  OBVIOUS
<1>3. AskedOf(config, request) = IF own \subseteq {Absent} THEN {config.server.auth} ELSE own
  BY <1>2, Zenon DEF AskedOf
<1>4. IF own \ {Absent} # {} THEN request.token \in own \ {Absent}
      ELSE config.server.auth \in {Absent, request.token}
  BY <1>1, <1>2, Zenon DEF IsAuthorized
<1>5. CASE own \subseteq {Absent}
  <2>1. own \ {Absent} = {}
    BY <1>5
  <2> QED BY <1>3, <1>4, <1>5, <2>1
<1>6. CASE ~ (own \subseteq {Absent})
  <2>1. own \ {Absent} # {}
    BY <1>6
  <2> QED BY <1>3, <1>4, <1>6, <2>1
<1> QED BY <1>5, <1>6

LEMMA OutcomesAreWhole ==
    ASSUME NEW c \in Startable, NEW r \in RequestNames
    PROVE  /\ WorkCovers(Configs[c], Outcomes[c][r].events, Outcomes[c][r].work)
           /\ Outcomes[c][r].code = 202 =>
                 \/ AskedOf(Configs[c], Requests[r]) = {Absent}
                 \/ Requests[r].token \in AskedOf(Configs[c], Requests[r])
<1>1. Outcomes[c][r] = Outcome(Configs[c], Requests[r])
  BY DEF Outcomes
<1>2. IsList(Configs[c].routing.routes) /\ RoutingIsValid(Configs[c])
  BY PipelineAssumption DEF Startable, Accepted, IsAccepted, ConfigIsValid, IsList
<1>3. PICK events : events = Outcomes[c][r].events
  OBVIOUS
<1>4. IsList(events)
  BY <1>3, PipelineAssumption DEF IsList
<1>5. /\ Outcomes[c][r].work = WorkOn(Configs[c], events)
      /\ Outcomes[c][r].code = Handled(Configs[c], Requests[r]).code
  BY <1>1, <1>3 DEF Outcome
<1>6. WorkCovers(Configs[c], events, WorkOn(Configs[c], events))
  BY <1>2, <1>4, WorkIsComplete
<1> QED BY <1>3, <1>5, <1>6, AcceptedIsAuthorized

(* The least retention is one of a file that may prune.                    *)
LEMMA RetentionIsLeast ==
    ASSUME NEW c \in Accepted
    PROVE  /\ LeastRetention \in Nat /\ Configs[c].storage.retention_days \in Nat
           /\ LeastRetention <= Configs[c].storage.retention_days
<1>1. PICK S : S = {Configs[a].storage.retention_days : a \in Accepted}
  OBVIOUS
<1>2. S \subseteq Nat /\ S # {} /\ Configs[c].storage.retention_days \in S
  BY <1>1, PipelineAssumption DEF Accepted
<1>3. LeastRetention = CHOOSE n \in S : \A m \in S : n <= m
  BY <1>1, Zenon DEF LeastRetention, Min
<1>4. \E n \in S : \A m \in S : n <= m
  BY <1>2, LeastNatural
<1>5. LeastRetention \in S /\ \A m \in S : LeastRetention <= m
  BY <1>3, <1>4, Zenon
<1> QED BY <1>2, <1>5
----------------------------------------------------------------------------
(* The invariants that hold together with those of the pipeline.           *)

TakenAs(h) == Outcomes[h.config][h.request]

(* A handler works on a request that was accepted, and answers 202 once it *)
(* has come to the end of its work.                                        *)
RequestIsReal(h) ==
    /\ h.events = TakenAs(h).events /\ h.work = TakenAs(h).work /\ TakenAs(h).code = 202
    /\ h.code = 202 => h.k > Len(h.work)

RequestsAreReal == \A n \in DOMAIN handlers : RequestIsReal(handlers[n])

(* An event is stored on the day of its request.                           *)
EventDays == \A e \in DOMAIN alertEvents : alertEvents[e].day = handlers[e[1]].day

(* The handler has queued its row, but not yet its escalation.             *)
IsQueueing(n) == IsOpen(n) /\ handlers[n].step = "escalate"

HasQueued(n, k) == k < handlers[n].k \/ (k = handlers[n].k /\ IsQueueing(n))

(* Only retention removes a row.                                           *)
RowsRemain ==
    \A n \in DOMAIN handlers : \A k \in 1 .. Len(handlers[n].work) :
        HasQueued(n, k) => <<n, k>> \in DOMAIN rows \/ MayBeExpired(handlers[n])

(* A batch is under way until all of its members are settled.              *)
LiveMembers ==
    \A b \in DOMAIN batches : \A row \in Range(batches[b].members) :
        rows[row] = "queued" => batches[b].status \in {"pending", "retrying"}

(* A row of its own that no task works on: the call that would have given  *)
(* it to one failed, or is still to be made.                               *)
IsUntended(row) ==
    \/ handlers[row[1]].code = 500
    \/ IsQueueing(row[1]) /\ row[2] = handlers[row[1]].k

Tended ==
    up => \A row \in DOMAIN rows \ MemberRows :
              rows[row] = "queued" => row \in workers \/ IsUntended(row)

----------------------------------------------------------------------------
(* The requests, and the days of their events.                             *)

LEMMA CrashedHandlers ==
    ASSUME HandlersAreReal, Crash, NEW n \in DOMAIN handlers
    PROVE  /\ DOMAIN handlers' = DOMAIN handlers
           /\ SameRequest(handlers'[n], handlers[n]) /\ handlers'[n].k = handlers[n].k
           /\ handlers'[n].code \in {handlers[n].code, Lost} /\ handlers'[n].code # Open
<1>1. Ends
  BY CrashEffect
<1>2. handlers'[n] = IF handlers[n].code = Open THEN WithCode(handlers[n], Lost) ELSE handlers[n]
  BY DEF Crash, WithCode
<1>3. handlers[n] \in HandlerRecord /\ handlers[n].k \in Nat
  BY HandlerFields, WorkIsOrdered
<1>4. Placed(WithCode(handlers[n], Lost), handlers[n], handlers[n].k, handlers[n].step, Lost)
  BY <1>3, Updates, ConstantTypes
<1> QED BY <1>1, <1>2, <1>4 DEF Ends, Placed

LEMMA RequestsAfterReceiving ==
    ASSUME HandlersAreReal, RequestsAreReal, NEW r \in RequestNames, Receive(r)
    PROVE  RequestsAreReal'
<1>1. PICK o : o = Outcomes[running][r]
  OBVIOUS
<1> DEFINE h == [request |-> r, config |-> running, day |-> today,
                 events |-> o.events, work |-> o.work,
                 k |-> 1, step |-> IF o.work = <<>> THEN "done" ELSE "store",
                 code |-> IF o.work = <<>> THEN 202 ELSE Open]
<1>2. o.code = 202 /\ handlers' = Append(handlers, h)
  BY <1>1, Zenon DEF Receive
<1>3. TakenAs(h) = o
  BY <1>1 DEF TakenAs
<1>4. h.code = 202 => h.k > Len(h.work)
  <2>1. h.code = 202 => o.work = <<>>
    BY ConstantTypes
  <2> QED BY <2>1
<1>5. RequestIsReal(h)
  BY <1>2, <1>3, <1>4 DEF RequestIsReal
<1> HIDE DEF h
<1>6. PICK T : handlers \in Seq(T) /\ h \in T
  <2>1. handlers \in Seq(HandlerRecord \cup {h})
    BY DEF HandlersAreReal
  <2> QED BY <2>1
<1>7. \A n \in DOMAIN handlers' :
          handlers'[n] = h \/ (n \in DOMAIN handlers /\ handlers'[n] = handlers[n])
  BY <1>2, <1>6
<1>8. \A n \in DOMAIN handlers' : RequestIsReal(handlers'[n])
  BY <1>5, <1>7 DEF RequestsAreReal
<1> QED BY <1>8 DEF RequestsAreReal, RequestIsReal, TakenAs

(* The answer of a request that stays what it was.                         *)
LEMMA RequestKept ==
    ASSUME NEW new, NEW old, RequestIsReal(old), SameRequest(new, old),
           new.code = 202 => new.k > Len(new.work)
    PROVE  RequestIsReal(new)
<1>1. TakenAs(new) = TakenAs(old)
  BY DEF TakenAs, SameRequest
<1> QED BY <1>1 DEF RequestIsReal, SameRequest

LEMMA RequestsStayReal ==
    ASSUME HandlersAreReal, RequestsAreReal, [Next]_vars
    PROVE  RequestsAreReal'
<1>1. CASE \E r \in RequestNames : Receive(r)
  BY <1>1, RequestsAfterReceiving
<1>2. CASE \E n \in DOMAIN handlers : Handle(n)
  <2>1. PICK n \in DOMAIN handlers : Handling(n)
    BY <1>2, HandleEffect
  <2>2. /\ IsOpen(n) /\ SameRequest(handlers'[n], handlers[n])
        /\ DOMAIN handlers' = DOMAIN handlers
        /\ \A m \in DOMAIN handlers \ {n} : handlers'[m] = handlers[m]
    BY <2>1 DEF Handling, OnlyHandler
  <2>3. handlers'[n].code = 202 => handlers'[n].k > Len(handlers'[n].work)
    <3>1. CASE handlers'[n].code \in {handlers[n].code, 500}
      BY <2>2, <3>1, ConstantTypes DEF IsOpen
    <3>2. CASE Advanced(handlers'[n], handlers[n])
      BY <2>2, <3>2, ConstantTypes DEF Advanced, IsOpen, SameRequest
    <3> QED BY <2>1, <3>1, <3>2 DEF Handling
  <2>4. RequestIsReal(handlers'[n])
    BY <2>2, <2>3, RequestKept DEF RequestsAreReal
  <2>5. \A m \in DOMAIN handlers' : RequestIsReal(handlers'[m])
    BY <2>2, <2>4 DEF RequestsAreReal
  <2> QED BY <2>5 DEF RequestsAreReal, RequestIsReal, TakenAs
<1>3. CASE Crash
  <2>1. ASSUME NEW n \in DOMAIN handlers'
        PROVE  RequestIsReal(handlers'[n])
    <3>1. n \in DOMAIN handlers
      BY <1>3, CrashEffect DEF Ends
    <3>2. RequestIsReal(handlers[n])
      BY <3>1 DEF RequestsAreReal
    <3>3. /\ SameRequest(handlers'[n], handlers[n]) /\ handlers'[n].k = handlers[n].k
          /\ handlers'[n].code \in {handlers[n].code, Lost}
      BY <1>3, <3>1, CrashedHandlers
    <3>4. handlers'[n].code = 202 => handlers'[n].k > Len(handlers'[n].work)
      BY <3>2, <3>3 DEF RequestIsReal, SameRequest, Lost
    <3> QED BY <3>2, <3>3, <3>4, RequestKept
  <2> QED BY <2>1 DEF RequestsAreReal, RequestIsReal, TakenAs
<1>4. CASE \/ \E c \in Accepted : Start(c)
           \/ Send \/ Prune \/ Tick \/ Quiet \/ UNCHANGED vars
  <2>1. handlers' = handlers
    BY <1>4 DEF Start, Send, Prune, Tick, Quiet, vars
  <2>2. \A n \in DOMAIN handlers' : RequestIsReal(handlers'[n])
    BY <2>1 DEF RequestsAreReal
  <2> QED BY <2>2 DEF RequestsAreReal, RequestIsReal, TakenAs
<1> QED BY <1>1, <1>2, <1>3, <1>4, Zenon DEF Next

LEMMA EventDaysKept ==
    ASSUME HandlersAreReal, AlertsAreReal, Onward, EventDays,
           \A e \in DOMAIN alertEvents' :
               \/ e \in DOMAIN alertEvents /\ alertEvents'[e] = alertEvents[e]
               \/ alertEvents'[e].day = handlers'[e[1]].day
    PROVE  EventDays'
<1>1. ASSUME NEW e \in DOMAIN alertEvents
      PROVE  handlers'[e[1]].day = alertEvents[e].day
  <2>1. e[1] \in DOMAIN handlers
    BY DEF AlertsAreReal, EventIsReal, IsEventId
  <2> QED BY <2>1 DEF EventDays, Onward, RequestsKept, SameRequest
<1>2. \A e \in DOMAIN alertEvents' : alertEvents'[e].day = handlers'[e[1]].day
  BY <1>1
<1> QED BY <1>2 DEF EventDays

LEMMA EventDaysStay ==
    ASSUME HandlersAreReal, AlertsAreReal, EventDays, [Next]_vars
    PROVE  EventDays'
<1>1. Onward
  BY EveryStepOnward
<1>2. CASE (\E c \in Accepted : Start(c)) \/ Prune
  <2>1. PICK retention : Pruned(retention) /\ UNCHANGED <<today, troubles>>
    <3>1. CASE \E c \in Accepted : Start(c)
      BY <3>1, Zenon DEF Start
    <3>2. CASE Prune
      BY <3>2, Zenon DEF Prune
    <3> QED BY <1>2, <3>1, <3>2
  <2>2. EventsPruned(OldEvents(retention))
    BY <2>1, PrunedEvents
  <2>3. \A e \in DOMAIN alertEvents' : e \in DOMAIN alertEvents /\ alertEvents'[e] = alertEvents[e]
    BY <2>2 DEF EventsPruned
  <2> QED BY <1>1, <2>3, EventDaysKept
<1>3. CASE \E n \in DOMAIN handlers : Handle(n)
  <2>1. PICK n \in DOMAIN handlers : Handle(n)
    BY <1>3
  <2>2. CASE StoreEvent(n)
    <3>1. Handling(n)
      BY <2>1, HandleEffect
    <3>2. IsOpen(n) /\ handlers'[n].day = handlers[n].day
      BY <3>1 DEF Handling, SameRequest
    <3>3. handlers'[n].day = today
      BY <3>2 DEF HandlersAreReal
    <3>4. PICK g : alertEvents' =
                      Inserted(alertEvents, <<n, EventAt(n)>>, [group |-> g, day |-> today])
      BY <2>2, <3>2, OpenRow DEF StoreEvent
    <3>5. \A e \in DOMAIN alertEvents' :
              \/ e \in DOMAIN alertEvents /\ alertEvents'[e] = alertEvents[e]
              \/ e = <<n, EventAt(n)>> /\ alertEvents'[e].day = today
      BY <3>4 DEF Inserted
    <3>6. \A e \in DOMAIN alertEvents' :
              \/ e \in DOMAIN alertEvents /\ alertEvents'[e] = alertEvents[e]
              \/ alertEvents'[e].day = handlers'[e[1]].day
      BY <3>3, <3>5
    <3> QED BY <1>1, <3>6, EventDaysKept
  <2>3. CASE QueueDelivery(n) \/ QueueEscalation(n) \/ Fail(n)
    <3>1. alertEvents' = alertEvents
      BY <2>3 DEF QueueDelivery, QueueEscalation, Fail
    <3> QED BY <1>1, <3>1, EventDaysKept
  <2> QED BY <2>1, <2>2, <2>3 DEF Handle
<1>4. CASE \/ \E r \in RequestNames : Receive(r)
           \/ Send \/ Tick \/ Crash \/ Quiet \/ UNCHANGED vars
  <2>1. alertEvents' = alertEvents
    BY <1>4 DEF Receive, Send, Tick, Crash, Quiet, vars, storeVars
  <2> QED BY <1>1, <2>1, EventDaysKept
<1> QED BY <1>2, <1>3, <1>4, Zenon DEF Next

----------------------------------------------------------------------------
(* The rows remain.                                                        *)

(* What may have expired still may.                                        *)
LEMMA ExpiryKept ==
    ASSUME HandlersAreReal, Onward, NEW n \in DOMAIN handlers, MayBeExpired(handlers[n])
    PROVE  MayBeExpired(handlers[n])'
<1>1. handlers[n].config \in Accepted /\ handlers[n].day \in Nat
  BY HandlerFields, WorkIsOrdered DEF HandlerRecord, Startable
<1>2. LeastRetention \in Nat
  BY <1>1, RetentionIsLeast
<1>3. today \in Nat /\ today' \in Nat /\ today <= today'
  BY ConstantTypes DEF HandlersAreReal, Onward
<1>4. handlers'[n].day = handlers[n].day
  BY DEF Onward, RequestsKept, SameRequest
<1>5. PICK day : day = handlers[n].day /\ handlers'[n].day = day
  BY <1>4
<1>6. day \in Nat /\ day + LeastRetention < today
  BY <1>1, <1>5 DEF MayBeExpired
<1>7. day + LeastRetention < today'
  BY <1>2, <1>3, <1>6
<1> QED BY <1>5, <1>7 DEF MayBeExpired

(* What a handler has queued stays so, and no row is removed.              *)
RowsGrow ==
    /\ DOMAIN rows \subseteq DOMAIN rows'
    /\ \A n \in DOMAIN handlers' : \A k \in 1 .. Len(handlers'[n].work) :
          HasQueued(n, k)' => \/ n \in DOMAIN handlers /\ HasQueued(n, k)
                              \/ <<n, k>> \in DOMAIN rows'

LEMMA RowsRemainGrowing ==
    ASSUME HandlersAreReal, Onward, RowsRemain, RowsGrow
    PROVE  RowsRemain'
<1>1. ASSUME NEW n \in DOMAIN handlers', NEW k \in 1 .. Len(handlers'[n].work),
             HasQueued(n, k)'
      PROVE  <<n, k>> \in DOMAIN rows' \/ MayBeExpired(handlers[n])'
  <2>1. CASE <<n, k>> \in DOMAIN rows'
    BY <2>1
  <2>2. CASE n \in DOMAIN handlers /\ HasQueued(n, k)
    <3>1. handlers'[n].work = handlers[n].work
      BY <2>2 DEF Onward, RequestsKept, SameRequest
    <3>2. <<n, k>> \in DOMAIN rows \/ MayBeExpired(handlers[n])
      BY <2>2, <3>1 DEF RowsRemain
    <3> QED BY <2>2, <3>2, ExpiryKept DEF RowsGrow
  <2> QED BY <1>1, <2>1, <2>2 DEF RowsGrow
<1> QED BY <1>1 DEF RowsRemain

LEMMA RowsRemainPruned ==
    ASSUME HandlersAreReal, Onward, DeliveriesAreReal, EventDays, RowsRemain,
           UNCHANGED <<handlers, today>>, NEW c \in Accepted,
           Pruned(Configs[c].storage.retention_days)
    PROVE  RowsRemain'
<1>1. PICK retention, old :
          retention = Configs[c].storage.retention_days /\ old = OldEvents(retention)
  OBVIOUS
<1>2. rows' = [row \in {r \in DOMAIN rows : EventId(r) \notin old} |-> rows[row]]
  BY <1>1, Zenon DEF Pruned
<1>3. retention \in Nat /\ LeastRetention \in Nat /\ LeastRetention <= retention
  BY <1>1, RetentionIsLeast
<1>4. handlers' = handlers /\ today' = today /\ today \in Nat
  BY ConstantTypes DEF HandlersAreReal
<1>5. ASSUME NEW n \in DOMAIN handlers, NEW k, <<n, k>> \in DOMAIN rows,
             <<n, k>> \notin DOMAIN rows'
      PROVE  MayBeExpired(handlers[n])'
  <2>1. PICK row, e : row = <<n, k>> /\ e = EventId(row)
    OBVIOUS
  <2>2. IsRow(row) /\ e \in DOMAIN alertEvents /\ e \in old
    BY <1>2, <1>5, <2>1 DEF DeliveriesAreReal, RowIsReal
  <2>3. e[1] = n
    BY <2>1, <2>2, RowsEvent
  <2>4. alertEvents[e].day = handlers[n].day
    BY <2>2, <2>3 DEF EventDays
  <2>5. alertEvents[e].day + retention < today
    BY <1>1, <2>2 DEF OldEvents
  <2>6. PICK day : day = handlers[n].day
    OBVIOUS
  <2>7. day \in Nat /\ day + retention < today
    BY <2>4, <2>5, <2>6, HandlerFields, WorkIsOrdered
  <2>8. day + LeastRetention < today
    BY <1>3, <1>4, <2>7
  <2> QED BY <1>4, <2>6, <2>8 DEF MayBeExpired
<1>6. ASSUME NEW n \in DOMAIN handlers, NEW k \in 1 .. Len(handlers[n].work),
             HasQueued(n, k)'
      PROVE  <<n, k>> \in DOMAIN rows' \/ MayBeExpired(handlers[n])'
  <2>1. HasQueued(n, k)
    BY <1>4, <1>6 DEF HasQueued, IsQueueing, IsOpen
  <2>2. <<n, k>> \in DOMAIN rows \/ MayBeExpired(handlers[n])
    BY <2>1 DEF RowsRemain
  <2> QED BY <1>5, <2>2, ExpiryKept
<1> QED BY <1>4, <1>6 DEF RowsRemain

LEMMA RowsGrowByHandling ==
    ASSUME HandlersAreReal, NEW n \in DOMAIN handlers, Handle(n)
    PROVE  RowsGrow
<1>1. Handling(n)
  BY HandleEffect
<1>2. PICK K : K = handlers[n].k
  OBVIOUS
<1>3. /\ IsOpen(n) /\ DOMAIN handlers' = DOMAIN handlers /\ K \in Nat
      /\ \A m \in DOMAIN handlers \ {n} : handlers'[m] = handlers[m]
  BY <1>1, <1>2, HandlerFields, WorkIsOrdered DEF Handling, OnlyHandler
<1>4. DOMAIN rows \subseteq DOMAIN rows'
  BY DEF Handle, StoreEvent, QueueDelivery, QueueEscalation, Fail, Inserted
<1>5. \A m \in DOMAIN handlers \ {n} : \A k : HasQueued(m, k)' => HasQueued(m, k)
  BY <1>3 DEF HasQueued, IsQueueing, IsOpen
<1>6. ASSUME NEW k \in 1 .. Len(handlers'[n].work), HasQueued(n, k)'
      PROVE  HasQueued(n, k) \/ <<n, k>> \in DOMAIN rows'
  <2>1. k \in Nat
    OBVIOUS
  <2>2. CASE StoreEvent(n)
    <3>1. handlers'[n].k = K /\ handlers'[n].step = "queue"
      BY <1>2, <2>2, StepGiven DEF StoreEvent
    <3>2. k < K
      BY <1>6, <3>1 DEF HasQueued, IsQueueing
    <3> QED BY <1>2, <3>2 DEF HasQueued
  <2>3. CASE QueueDelivery(n)
    <3>1. <<n, K>> \in DOMAIN rows'
      BY <1>2, <2>3 DEF QueueDelivery, Inserted
    <3>2. k <= K
      <4>1. CASE handlers' = [handlers EXCEPT ![n].step = "escalate"]
        <5>1. handlers'[n].k = K
          BY <1>2, <4>1, StepGiven
        <5> QED BY <1>3, <1>6, <2>1, <5>1 DEF HasQueued
      <4>2. CASE handlers' = [handlers EXCEPT ![n] = At(@, @.k + 1)]
        <5>1. Advanced(handlers'[n], handlers[n])
          BY <4>2, ItemGiven
        <5>2. handlers'[n].k = K + 1 /\ handlers'[n].step # "escalate"
          BY <1>2, <5>1 DEF Advanced
        <5> QED BY <1>3, <1>6, <2>1, <5>2 DEF HasQueued, IsQueueing
      <4> QED BY <2>3, <4>1, <4>2 DEF QueueDelivery, NextItem
    <3>3. k < K \/ k = K
      BY <1>3, <2>1, <3>2
    <3> QED BY <1>2, <3>1, <3>3 DEF HasQueued
  <2>4. CASE QueueEscalation(n)
    <3>1. Advanced(handlers'[n], handlers[n]) /\ IsQueueing(n)
      BY <1>3, <2>4, ItemGiven DEF QueueEscalation, NextItem, IsQueueing
    <3>2. handlers'[n].k = K + 1 /\ handlers'[n].step # "escalate"
      BY <1>2, <3>1 DEF Advanced
    <3>3. k < K + 1
      BY <1>6, <3>2 DEF HasQueued, IsQueueing
    <3>4. k < K \/ k = K
      BY <1>3, <2>1, <3>3
    <3> QED BY <1>2, <3>1, <3>4 DEF HasQueued
  <2>5. CASE Fail(n)
    <3>1. handlers'[n].k = K /\ handlers'[n].code = 500
      BY <1>2, <2>5, CodeGiven, ZenonT(40) DEF Fail
    <3>2. k < K
      BY <1>6, <3>1, ConstantTypes DEF HasQueued, IsQueueing, IsOpen
    <3> QED BY <1>2, <3>2 DEF HasQueued
  <2> QED BY <2>2, <2>3, <2>4, <2>5 DEF Handle
<1> QED BY <1>3, <1>4, <1>5, <1>6 DEF RowsGrow

LEMMA RowsStay ==
    ASSUME HandlersAreReal, DeliveriesAreReal, EventDays, RowsRemain, [Next]_vars
    PROVE  RowsRemain'
<1>1. Onward
  BY EveryStepOnward
<1>2. CASE \E c \in Accepted : Start(c)
  <2>1. PICK c \in Accepted :
            UNCHANGED <<handlers, today>> /\ Pruned(Configs[c].storage.retention_days)
    BY <1>2, Zenon DEF Start
  <2> QED BY <1>1, <2>1, RowsRemainPruned
<1>3. CASE Prune
  <2>1. /\ running \in Accepted /\ UNCHANGED <<handlers, today>>
        /\ Pruned(Configs[running].storage.retention_days)
    BY <1>3 DEF Prune, HandlersAreReal, Startable
  <2> QED BY <1>1, <2>1, RowsRemainPruned
<1>4. CASE \E n \in DOMAIN handlers : Handle(n)
  BY <1>1, <1>4, RowsGrowByHandling, RowsRemainGrowing
<1>5. CASE \E r \in RequestNames : Receive(r)
  <2>1. PICK h : Arrives(h)
    BY <1>5, ReceiveEffect
  <2>2. PICK last : last = Len(handlers) + 1
    OBVIOUS
  <2>3. /\ DOMAIN handlers' = DOMAIN handlers \cup {last} /\ handlers'[last] = h
        /\ \A n \in DOMAIN handlers : handlers'[n] = handlers[n]
    BY <2>1, <2>2, HandlersAfterArrival
  <2>4. rows' = rows
    BY <1>5 DEF Receive, storeVars
  <2>5. \A n \in DOMAIN handlers : \A k : HasQueued(n, k)' => HasQueued(n, k)
    BY <2>3 DEF HasQueued, IsQueueing, IsOpen
  <2>6. \A k \in 1 .. Len(handlers'[last].work) : ~ HasQueued(last, k)'
    <3>1. h.k = 1 /\ (h.code = Open => h.step = "store")
      BY <2>1 DEF Arrives
    <3> QED BY <2>3, <3>1 DEF HasQueued, IsQueueing, IsOpen
  <2>7. RowsGrow
    BY <2>3, <2>4, <2>5, <2>6 DEF RowsGrow
  <2> QED BY <1>1, <2>7, RowsRemainGrowing
<1>6. CASE Crash
  <2>1. rows' = rows
    BY <1>6 DEF Crash
  <2>2. \A n \in DOMAIN handlers : \A k : HasQueued(n, k)' => HasQueued(n, k)
    BY <1>6, CrashedHandlers DEF HasQueued, IsQueueing, IsOpen
  <2>3. DOMAIN handlers' = DOMAIN handlers
    BY <1>6, CrashEffect DEF Ends
  <2>4. RowsGrow
    BY <2>1, <2>2, <2>3 DEF RowsGrow
  <2> QED BY <1>1, <2>4, RowsRemainGrowing
<1>7. CASE Send \/ Tick \/ Quiet \/ UNCHANGED vars
  <2>1. handlers' = handlers /\ DOMAIN rows \subseteq DOMAIN rows'
    <3>1. CASE Send
      BY <3>1 DEF Send, SendDelivery, SendBatch
    <3>2. CASE Tick \/ Quiet \/ UNCHANGED vars
      BY <3>2 DEF Tick, Quiet, vars, storeVars
    <3> QED BY <1>7, <3>1, <3>2
  <2>2. RowsGrow
    BY <2>1 DEF RowsGrow, HasQueued, IsQueueing, IsOpen
  <2> QED BY <1>1, <2>2, RowsRemainGrowing
<1> QED BY <1>2, <1>3, <1>4, <1>5, <1>6, <1>7, Zenon DEF Next

----------------------------------------------------------------------------
(* The batches are under way.                                              *)

(* An attempt at a row of its own settles it.                              *)
SettlesRow(one) ==
    /\ UNCHANGED batches /\ workers' = workers \ {one} /\ DOMAIN rows' = DOMAIN rows
    /\ one \in DOMAIN rows => rows'[one] # "queued"
    /\ \A row \in DOMAIN rows \ {one} : rows'[row] = rows[row]

(* An attempt at a batch settles its members, or leaves it under way.      *)
SettlesBatch(sent) ==
    /\ sent \in DOMAIN batches /\ UNCHANGED workers
    /\ DOMAIN rows' = DOMAIN rows /\ DOMAIN batches' = DOMAIN batches
    /\ \A b \in DOMAIN batches :
          batches'[b].members = batches[b].members /\ batches'[b].key = batches[b].key
    /\ \A b \in DOMAIN batches \ {sent} : batches'[b].status = batches[b].status
    /\ \A row \in DOMAIN rows :
          IF row \in Range(batches[sent].members)
          THEN rows'[row] = "queued" => batches'[sent].status = "retrying"
          ELSE rows'[row] = rows[row]

LEMMA SendEffect ==
    ASSUME DeliveriesAreReal, Send
    PROVE  (\E one : SettlesRow(one)) \/ (\E sent : SettlesBatch(sent))
<1>1. \A ids, batched :
          Verdicts(ids, batched) \subseteq {"succeeded", "dead_letter", "retrying"}
  BY DEF Verdicts, Verdict
<1>2. CASE \E row \in workers : SendDelivery(row)
  <2>1. PICK one \in workers : SendDelivery(one)
    BY <1>2
  <2>2. PICK verdict \in Verdicts(<<one>>, FALSE) \ {"retrying"} :
            rows' = IF one \in DOMAIN rows THEN [rows EXCEPT ![one] = verdict] ELSE rows
    BY <2>1, Zenon DEF SendDelivery
  <2>3. verdict # "queued"
    BY <1>1, <2>2
  <2>4. batches' = batches /\ workers' = workers \ {one}
    BY <2>1 DEF SendDelivery
  <2>5. SettlesRow(one)
    BY <2>2, <2>3, <2>4 DEF SettlesRow
  <2> QED BY <2>5
<1>3. CASE \E b \in DOMAIN batches : SendBatch(b)
  <2>1. PICK sent \in DOMAIN batches, verdict \in {"succeeded", "dead_letter", "retrying"} :
            /\ rows' = [row \in DOMAIN rows |->
                           IF row \in Range(batches[sent].members)
                           THEN RowAfter(verdict) ELSE rows[row]]
            /\ batches' = [batches EXCEPT ![sent].status = verdict]
            /\ workers' = workers
    <3>1. PICK sent \in DOMAIN batches : SendBatch(sent)
      BY <1>3
    <3>2. PICK verdict \in Verdicts(batches[sent].members, TRUE) :
              /\ rows' = [row \in DOMAIN rows |->
                             IF row \in Range(batches[sent].members)
                             THEN RowAfter(verdict) ELSE rows[row]]
              /\ batches' = [batches EXCEPT ![sent].status = verdict]
      BY <3>1, Zenon DEF SendBatch
    <3>3. verdict \in {"succeeded", "dead_letter", "retrying"} /\ workers' = workers
      BY <1>1, <3>1, <3>2 DEF SendBatch
    <3> QED BY <3>2, <3>3
  <2>2. PICK batch : batch = batches[sent]
    OBVIOUS
  <2>3. batch \in BatchRecord(batch.key)
    BY <2>2 DEF DeliveriesAreReal, BatchIsReal
  <2>4. /\ [batch EXCEPT !.status = verdict].status = verdict
        /\ [batch EXCEPT !.status = verdict].members = batch.members
        /\ [batch EXCEPT !.status = verdict].key = batch.key
    BY <2>3 DEF BatchRecord
  <2>5. /\ DOMAIN batches' = DOMAIN batches
        /\ batches'[sent] = [batch EXCEPT !.status = verdict]
        /\ \A b \in DOMAIN batches \ {sent} : batches'[b] = batches[b]
    BY <2>1, <2>2
  <2>6. RowAfter(verdict) = "queued" => verdict = "retrying"
    BY DEF RowAfter
  <2>7. SettlesBatch(sent)
    BY <2>1, <2>2, <2>4, <2>5, <2>6 DEF SettlesBatch
  <2> QED BY <2>7
<1> QED BY <1>2, <1>3 DEF Send

(* The members of a batch that pruning leaves are those whose events stay. *)
LEMMA MembersThatStay ==
    ASSUME DeliveriesAreReal, NEW b \in DOMAIN batches, NEW old
    PROVE  Range(MembersLeft(b, old)) = {row \in Range(batches[b].members) : EventId(row) \notin old}
<1>1. PICK s, left : s = batches[b].members /\ left = MembersLeft(b, old)
  OBVIOUS
<1>2. IsList(s)
  BY <1>1, BatchFields
<1>3. PICK places : places = {i \in DOMAIN s : EventId(s[i]) \notin old}
  OBVIOUS
<1>4. places \subseteq DOMAIN s /\ left = Kept(s, places)
  BY <1>1, <1>3 DEF MembersLeft
<1>5. Range(left) = {s[i] : i \in places}
  BY <1>2, <1>4, KeptElements
<1>6. {s[i] : i \in places} = {row \in Range(s) : EventId(row) \notin old}
  BY <1>3 DEF Range
<1> QED BY <1>1, <1>5, <1>6

(* What pruning leaves of rows and batches.                                *)
DeliveriesPruned(old) ==
    /\ DOMAIN rows' = {row \in DOMAIN rows : EventId(row) \notin old}
    /\ \A row \in DOMAIN rows' : rows'[row] = rows[row]
    /\ DOMAIN batches' \subseteq DOMAIN batches
    /\ \A b \in DOMAIN batches' :
          /\ batches'[b].status = batches[b].status /\ batches'[b].key = batches[b].key
          /\ Range(batches'[b].members) \subseteq Range(batches[b].members)
          /\ \A row \in Range(batches'[b].members) : EventId(row) \notin old
    /\ \A b \in DOMAIN batches : \A row \in Range(batches[b].members) :
          EventId(row) \notin old =>
              b \in DOMAIN batches' /\ row \in Range(batches'[b].members)

LEMMA PrunedDeliveries ==
    ASSUME DeliveriesAreReal, NEW retention, Pruned(retention)
    PROVE  \E old : DeliveriesPruned(old)
<1>1. PICK old : old = OldEvents(retention)
  OBVIOUS
<1>2. /\ rows' = [row \in {r \in DOMAIN rows : EventId(r) \notin old} |-> rows[row]]
      /\ batches' = RemainingBatches(old)
  BY <1>1, Zenon DEF Pruned
<1> DEFINE Left(b) == MembersLeft(b, old)
<1>3. /\ DOMAIN batches' = {b \in DOMAIN batches : Left(b) # <<>>}
      /\ \A b \in DOMAIN batches' :
            batches'[b] = [batches[b] EXCEPT
                  !.members = Left(b),
                  !.count = IF Left(b) = batches[b].members THEN @ ELSE Len(Left(b))]
  BY <1>2 DEF RemainingBatches
<1>4. \A b \in DOMAIN batches :
          Range(Left(b)) = {row \in Range(batches[b].members) : EventId(row) \notin old}
  BY MembersThatStay
<1> HIDE DEF Left
<1>5. ASSUME NEW b \in DOMAIN batches'
      PROVE  /\ batches'[b].status = batches[b].status /\ batches'[b].members = Left(b)
             /\ batches'[b].key = batches[b].key
  <2>1. PICK batch, left, n :
            /\ batch = batches[b] /\ left = Left(b)
            /\ n = IF left = batch.members THEN batch.count ELSE Len(left)
    OBVIOUS
  <2>2. batches'[b] = [batch EXCEPT !.members = left, !.count = n]
    BY <1>3, <2>1
  <2>3. batch \in BatchRecord(batch.key)
    BY <1>3, <2>1 DEF DeliveriesAreReal, BatchIsReal
  <2>4. /\ batches'[b].status = batch.status /\ batches'[b].members = left
        /\ batches'[b].key = batch.key
    BY <2>2, <2>3 DEF BatchRecord
  <2> QED BY <2>1, <2>4
<1>6. ASSUME NEW b \in DOMAIN batches, NEW row \in Range(batches[b].members),
             EventId(row) \notin old
      PROVE  b \in DOMAIN batches' /\ row \in Range(batches'[b].members)
  <2>1. row \in Range(Left(b))
    BY <1>4, <1>6
  <2>2. Left(b) # <<>>
    BY <2>1 DEF Range
  <2> QED BY <1>3, <1>5, <2>1, <2>2
<1>7. DeliveriesPruned(old)
  BY <1>2, <1>3, <1>4, <1>5, <1>6 DEF DeliveriesPruned
<1> QED BY <1>7

(* A row that is queued is new, and waits in a batch, in a task or for its *)
(* escalation.                                                             *)
Queued(n, row) ==
    /\ row = <<n, handlers[n].k>> /\ row \notin DOMAIN rows
    /\ rows' = Inserted(rows, row, "queued") /\ workers \subseteq workers'
    /\ \/ RowKey(row) # {} /\ \E b : Joined(b, row)
       \/ UNCHANGED batches /\ (row \in workers' \/ IsQueueing(n)')

LEMMA QueueEffect ==
    ASSUME HandlersAreReal, DeliveriesAreReal, InProgress,
           NEW n \in DOMAIN handlers, IsOpen(n), QueueDelivery(n)
    PROVE  handlers[n].step = "queue" /\ \E row : Queued(n, row)
<1>1. PICK row : row = <<n, handlers[n].k>>
  OBVIOUS
<1>2. /\ rows' = Inserted(rows, row, "queued") /\ handlers[n].step = "queue"
      /\ IF IsBatched(row) THEN JoinBatch(row) ELSE UNCHANGED <<batches, lastBatch>>
      /\ IF HasPolicy(row)
         THEN handlers' = [handlers EXCEPT ![n].step = "escalate"] /\ UNCHANGED workers
         ELSE NextItem(n, IF IsBatched(row) THEN {} ELSE {row})
  BY <1>1, Zenon DEF QueueDelivery
<1>3. IsRow(row)
  BY <1>1, OpenRow
<1>4. row \notin DOMAIN rows
  <2>1. \A r \in DOMAIN rows : r[1] = n => r[2] < handlers[n].k
    BY <1>2 DEF InProgress, Progress
  <2>2. handlers[n].k \in Nat
    BY HandlerFields, WorkIsOrdered
  <2> QED BY <1>1, <2>1, <2>2
<1>5. CASE HasPolicy(row)
  <2>1. workers' = workers /\ handlers' = [handlers EXCEPT ![n].step = "escalate"]
    BY <1>2, <1>5
  <2>2. handlers'[n].step = "escalate" /\ handlers'[n].code = handlers[n].code
    BY <2>1, StepGiven
  <2>3. IsQueueing(n)'
    BY <2>2 DEF IsQueueing, IsOpen
  <2>4. (RowKey(row) # {} /\ \E b : Joined(b, row)) \/ UNCHANGED batches
    BY <1>2, <1>3, JoinEffect DEF IsBatched, RowKey
  <2>5. Queued(n, row)
    BY <1>1, <1>2, <1>4, <2>1, <2>3, <2>4 DEF Queued
  <2> QED BY <1>2, <2>5
<1>6. CASE ~ HasPolicy(row)
  <2>1. workers' = workers \cup (IF IsBatched(row) THEN {} ELSE {row})
    BY <1>2, <1>6 DEF NextItem
  <2>2. \/ RowKey(row) # {} /\ \E b : Joined(b, row)
        \/ UNCHANGED batches /\ row \in workers'
    BY <1>2, <1>3, <2>1, JoinEffect DEF IsBatched, RowKey
  <2>3. Queued(n, row)
    BY <1>1, <1>2, <1>4, <2>1, <2>2 DEF Queued
  <2> QED BY <1>2, <2>3
<1> QED BY <1>5, <1>6

LEMMA LiveAtRest ==
    ASSUME LiveMembers, UNCHANGED <<rows, batches>>
    PROVE  LiveMembers'
BY DEF LiveMembers

LEMMA LiveAfterQueueing ==
    ASSUME DeliveriesAreReal, LiveMembers, NEW n, NEW row, Queued(n, row)
    PROVE  LiveMembers'
<1>1. /\ row \notin DOMAIN rows
      /\ \A r \in DOMAIN rows : rows'[r] = rows[r]
  BY DEF Queued, Inserted
<1>2. \A b \in DOMAIN batches : Range(batches[b].members) \subseteq DOMAIN rows
  BY DEF DeliveriesAreReal, BatchIsReal
<1>3. \A b \in DOMAIN batches : \A r \in Range(batches[b].members) :
          rows'[r] = "queued" => batches[b].status \in {"pending", "retrying"}
  BY <1>1, <1>2 DEF LiveMembers
<1>4. CASE UNCHANGED batches
  BY <1>3, <1>4 DEF LiveMembers
<1>5. CASE \E b : Joined(b, row)
  <2>1. PICK b : Joined(b, row)
    BY <1>5
  <2>2. /\ DOMAIN batches' = DOMAIN batches \cup {b}
        /\ \A c \in DOMAIN batches \ {b} : batches'[c] = batches[c]
        /\ batches'[b].status = "pending"
    BY <2>1 DEF Joined
  <2> QED BY <1>3, <2>2 DEF LiveMembers
<1> QED BY <1>4, <1>5 DEF Queued

LEMMA LiveAfterSend ==
    ASSUME DeliveriesAreReal, LiveMembers, Send
    PROVE  LiveMembers'
<1>1. \A b \in DOMAIN batches : Range(batches[b].members) \subseteq DOMAIN rows
  BY DEF DeliveriesAreReal, BatchIsReal
<1>2. CASE \E one : SettlesRow(one)
  <2>1. PICK one : SettlesRow(one)
    BY <1>2
  <2>2. \A row \in DOMAIN rows : rows'[row] = "queued" => rows[row] = "queued"
    BY <2>1 DEF SettlesRow
  <2>3. batches' = batches
    BY <2>1 DEF SettlesRow
  <2> QED BY <1>1, <2>2, <2>3 DEF LiveMembers
<1>3. CASE \E sent : SettlesBatch(sent)
  <2>1. PICK sent : SettlesBatch(sent)
    BY <1>3
  <2>2. ASSUME NEW b \in DOMAIN batches, NEW row \in Range(batches[b].members),
               rows'[row] = "queued"
        PROVE  batches'[b].status \in {"pending", "retrying"}
    <3>1. row \in DOMAIN rows /\ sent \in DOMAIN batches
      BY <1>1, <2>1 DEF SettlesBatch
    <3>2. CASE b = sent
      BY <2>1, <2>2, <3>1, <3>2 DEF SettlesBatch
    <3>3. CASE b # sent
      <4>1. row \notin Range(batches[sent].members)
        BY <3>1, <3>3 DEF DeliveriesAreReal, BatchIsReal
      <4>2. rows[row] = "queued" /\ batches'[b].status = batches[b].status
        BY <2>1, <2>2, <3>1, <3>3, <4>1 DEF SettlesBatch
      <4> QED BY <4>2 DEF LiveMembers
    <3> QED BY <3>2, <3>3
  <2>3. /\ DOMAIN batches' = DOMAIN batches
        /\ \A b \in DOMAIN batches : batches'[b].members = batches[b].members
    BY <2>1 DEF SettlesBatch
  <2> QED BY <2>2, <2>3 DEF LiveMembers
<1> QED BY <1>2, <1>3, SendEffect

LEMMA LiveAfterPruning ==
    ASSUME DeliveriesAreReal, LiveMembers, NEW old, DeliveriesPruned(old)
    PROVE  LiveMembers'
<1>1. \A b \in DOMAIN batches : Range(batches[b].members) \subseteq DOMAIN rows
  BY DEF DeliveriesAreReal, BatchIsReal
<1>2. ASSUME NEW b \in DOMAIN batches', NEW row \in Range(batches'[b].members),
             rows'[row] = "queued"
      PROVE  batches'[b].status \in {"pending", "retrying"}
  <2>1. /\ b \in DOMAIN batches /\ row \in Range(batches[b].members)
        /\ EventId(row) \notin old /\ batches'[b].status = batches[b].status
    BY DEF DeliveriesPruned
  <2>2. rows[row] = "queued"
    BY <1>1, <1>2, <2>1 DEF DeliveriesPruned
  <2> QED BY <2>1, <2>2 DEF LiveMembers
<1> QED BY <1>2 DEF LiveMembers

LEMMA BatchesStayLive ==
    ASSUME HandlersAreReal, DeliveriesAreReal, InProgress, LiveMembers, [Next]_vars
    PROVE  LiveMembers'
<1>1. CASE (\E c \in Accepted : Start(c)) \/ Prune
  <2>1. PICK retention : Pruned(retention)
    <3>1. CASE \E c \in Accepted : Start(c)
      BY <3>1, Zenon DEF Start
    <3>2. CASE Prune
      BY <3>2, Zenon DEF Prune
    <3> QED BY <1>1, <3>1, <3>2
  <2> QED BY <2>1, PrunedDeliveries, LiveAfterPruning
<1>2. CASE \E n \in DOMAIN handlers : Handle(n)
  <2>1. PICK n \in DOMAIN handlers : Handle(n) /\ IsOpen(n)
    BY <1>2 DEF Handle, IsOpen
  <2>2. CASE QueueDelivery(n)
    BY <2>1, <2>2, QueueEffect, LiveAfterQueueing
  <2>3. CASE StoreEvent(n) \/ QueueEscalation(n) \/ Fail(n)
    <3>1. UNCHANGED <<rows, batches>>
      BY <2>3 DEF StoreEvent, QueueEscalation, Fail
    <3> QED BY <3>1, LiveAtRest
  <2> QED BY <2>1, <2>2, <2>3 DEF Handle
<1>3. CASE Send
  BY <1>3, LiveAfterSend
<1>4. CASE \/ \E r \in RequestNames : Receive(r)
           \/ Tick \/ Crash \/ Quiet \/ UNCHANGED vars
  <2>1. UNCHANGED <<rows, batches>>
    BY <1>4 DEF Receive, Tick, Crash, Quiet, vars, storeVars
  <2> QED BY <2>1, LiveAtRest
<1> QED BY <1>1, <1>2, <1>3, <1>4, Zenon DEF Next

----------------------------------------------------------------------------
(* Somebody tends the rows.                                                *)

IsTended(row) == rows[row] = "queued" => row \in workers \/ IsUntended(row)

LEMMA MemberRowsAre ==
    ASSUME NEW row
    PROVE  row \in MemberRows <=> \E b \in DOMAIN batches : row \in Range(batches[b].members)
BY DEF MemberRows

(* The rows, the batches, and the handlers of the rows are left alone.     *)
LEMMA TendedAtRest ==
    ASSUME DeliveriesAreReal, Tended, UNCHANGED <<up, rows, batches>>, workers \subseteq workers',
           \A n \in DOMAIN handlers : handlers'[n] = handlers[n]
    PROVE  Tended'
<1>1. MemberRows' = MemberRows
  BY DEF MemberRows
<1>2. \A row \in DOMAIN rows : IsUntended(row) => IsUntended(row)'
  BY DEF DeliveriesAreReal, RowIsReal, IsRow, IsEventId, IsUntended, IsQueueing, IsOpen
<1> QED BY <1>1, <1>2 DEF Tended

LEMMA TendedAfterSend ==
    ASSUME DeliveriesAreReal, Tended, Send
    PROVE  Tended'
<1>1. up' = up /\ handlers' = handlers
  BY DEF Send
<1>2. \A row : IsUntended(row) => IsUntended(row)'
  BY <1>1 DEF IsUntended, IsQueueing, IsOpen
<1>3. CASE \E one : SettlesRow(one)
  <2>1. PICK one : SettlesRow(one)
    BY <1>3
  <2>2. MemberRows' = MemberRows /\ DOMAIN rows' = DOMAIN rows
    BY <2>1 DEF SettlesRow, MemberRows
  <2>3. ASSUME NEW row \in DOMAIN rows, IsTended(row)
        PROVE  IsTended(row)'
    <3>1. CASE row = one
      BY <2>1, <3>1 DEF SettlesRow, IsTended
    <3>2. CASE row # one
      BY <1>2, <2>1, <2>3, <3>2 DEF SettlesRow, IsTended
    <3> QED BY <3>1, <3>2
  <2> QED BY <1>1, <2>2, <2>3 DEF Tended, IsTended
<1>4. CASE \E sent : SettlesBatch(sent)
  <2>1. PICK sent : SettlesBatch(sent)
    BY <1>4
  <2>2. MemberRows' = MemberRows
    BY <2>1 DEF SettlesBatch, MemberRows
  <2>3. ASSUME NEW row \in DOMAIN rows \ MemberRows
        PROVE  rows'[row] = rows[row]
    <3>1. row \notin Range(batches[sent].members)
      BY <2>1 DEF SettlesBatch, MemberRows
    <3> QED BY <2>1, <3>1 DEF SettlesBatch
  <2>4. workers' = workers /\ DOMAIN rows' = DOMAIN rows
    BY <2>1 DEF SettlesBatch
  <2> QED BY <1>1, <1>2, <2>2, <2>3, <2>4 DEF Tended
<1> QED BY <1>3, <1>4, SendEffect

(* A row that stays, and is no member afterwards, was none before.         *)
LEMMA OwnRowsThatStay ==
    ASSUME NEW old, DeliveriesPruned(old), NEW row \in DOMAIN rows' \ MemberRows'
    PROVE  row \in DOMAIN rows \ MemberRows /\ rows'[row] = rows[row]
<1>1. row \in DOMAIN rows /\ EventId(row) \notin old /\ rows'[row] = rows[row]
  BY DEF DeliveriesPruned
<1>2. ASSUME NEW b \in DOMAIN batches, row \in Range(batches[b].members)
      PROVE  FALSE
  <2>1. b \in DOMAIN batches' /\ row \in Range(batches'[b].members)
    BY <1>1, <1>2 DEF DeliveriesPruned
  <2> QED BY <2>1 DEF MemberRows
<1> QED BY <1>1, <1>2 DEF MemberRows

LEMMA TendedAfterPruning ==
    ASSUME DeliveriesAreReal, Tended, NEW retention, Pruned(retention), UNCHANGED handlers,
           \/ UNCHANGED <<up, workers>>
           \/ workers' = Recovered
    PROVE  Tended'
<1>1. PICK old : DeliveriesPruned(old)
  BY PrunedDeliveries
<1>2. handlers' = handlers
  OBVIOUS
<1>3. \A row : IsUntended(row) => IsUntended(row)'
  BY <1>2 DEF IsUntended, IsQueueing, IsOpen
<1>4. ASSUME up', NEW row \in DOMAIN rows' \ MemberRows', rows'[row] = "queued"
      PROVE  row \in workers' \/ IsUntended(row)'
  <2>1. row \in DOMAIN rows \ MemberRows /\ rows[row] = "queued"
    BY <1>1, <1>4, OwnRowsThatStay
  <2>2. CASE UNCHANGED <<up, workers>>
    BY <1>3, <1>4, <2>1, <2>2 DEF Tended
  <2>3. CASE workers' = Recovered
    BY <2>1, <2>3 DEF Recovered
  <2> QED BY <2>2, <2>3
<1> QED BY <1>4 DEF Tended

LEMMA TendedAfterHandling ==
    ASSUME HandlersAreReal, DeliveriesAreReal, InProgress, Tended,
           NEW n \in DOMAIN handlers, Handle(n)
    PROVE  Tended'
<1>1. Handling(n) /\ up
  BY HandleEffect DEF Handle
<1>2. /\ IsOpen(n) /\ up' = up
      /\ \A m \in DOMAIN handlers \ {n} : handlers'[m] = handlers[m]
  BY <1>1 DEF Handling, OnlyHandler
<1>3. \A row \in DOMAIN rows : row[1] \in DOMAIN handlers
  BY DEF DeliveriesAreReal, RowIsReal, IsRow, IsEventId
<1>4. \A row \in DOMAIN rows : row[1] # n /\ IsUntended(row) => IsUntended(row)'
  BY <1>2, <1>3 DEF IsUntended, IsQueueing, IsOpen
<1>5. \A row \in DOMAIN rows : row[1] = n /\ IsUntended(row) =>
          handlers[n].step = "escalate" /\ row[2] = handlers[n].k
  BY <1>2, ConstantTypes DEF IsUntended, IsQueueing, IsOpen
<1>6. \A row \in DOMAIN rows \ MemberRows : IsTended(row)
  BY <1>1 DEF Tended, IsTended
<1>7. CASE StoreEvent(n)
  <2>1. UNCHANGED <<rows, batches, workers>> /\ handlers[n].step = "store"
    BY <1>7 DEF StoreEvent
  <2>2. MemberRows' = MemberRows /\ rows' = rows /\ workers' = workers
    BY <2>1 DEF MemberRows
  <2>3. \A row \in DOMAIN rows : IsUntended(row) => IsUntended(row)'
    BY <1>4, <1>5, <2>1
  <2> QED BY <1>6, <2>2, <2>3 DEF Tended, IsTended
<1>8. CASE QueueDelivery(n)
  <2>1. PICK one : Queued(n, one) /\ handlers[n].step = "queue"
    BY <1>2, <1>8, QueueEffect
  <2>2. \A row \in DOMAIN rows : IsUntended(row) => IsUntended(row)'
    BY <1>4, <1>5, <2>1
  <2>3. /\ DOMAIN rows' = DOMAIN rows \cup {one} /\ workers \subseteq workers'
        /\ \A row \in DOMAIN rows : rows'[row] = rows[row]
    BY <2>1 DEF Queued, Inserted
  <2>4. MemberRows \subseteq MemberRows'
    <3>1. CASE UNCHANGED batches
      BY <3>1 DEF MemberRows
    <3>2. CASE \E b : Joined(b, one)
      <4>1. PICK b : Joined(b, one)
        BY <3>2
      <4>2. \A c \in DOMAIN batches :
                c \in DOMAIN batches' /\ Range(batches[c].members) \subseteq Range(batches'[c].members)
        BY <4>1 DEF Joined
      <4> QED BY <4>2 DEF MemberRows
    <3> QED BY <2>1, <3>1, <3>2 DEF Queued
  <2>5. ASSUME one \notin MemberRows'
        PROVE  one \in workers' \/ IsUntended(one)'
    <3>1. ~ \E b : Joined(b, one)
      BY <2>5 DEF Joined, MemberRows
    <3>2. one \in workers' \/ IsQueueing(n)'
      BY <2>1, <3>1 DEF Queued
    <3>3. one = <<n, handlers[n].k>>
      BY <2>1 DEF Queued
    <3>4. IsQueueing(n)' => handlers'[n].k = handlers[n].k
      <4>1. CASE handlers' = [handlers EXCEPT ![n].step = "escalate"]
        BY <4>1, StepGiven
      <4>2. CASE handlers' = [handlers EXCEPT ![n] = At(@, @.k + 1)]
        BY <4>2, ItemGiven DEF Advanced, IsQueueing
      <4> QED BY <1>8, <4>1, <4>2 DEF QueueDelivery, NextItem
    <3>5. one[1] = n /\ one[2] = handlers[n].k
      BY <3>3
    <3> QED BY <3>2, <3>4, <3>5 DEF IsUntended
  <2>6. ASSUME NEW row \in DOMAIN rows, row \notin MemberRows'
        PROVE  rows'[row] = "queued" => row \in workers' \/ IsUntended(row)'
    BY <1>6, <2>2, <2>3, <2>4, <2>6 DEF IsTended
  <2> QED BY <2>3, <2>5, <2>6 DEF Tended
<1>9. CASE QueueEscalation(n)
  <2>1. PICK one : one = <<n, handlers[n].k>>
    OBVIOUS
  <2>2. rows' = rows /\ batches' = batches /\ workers' = workers \cup ({one} \ MemberRows)
    BY <1>9, <2>1, Zenon DEF QueueEscalation, NextItem
  <2>3. MemberRows' = MemberRows
    BY <2>2 DEF MemberRows
  <2>4. \A row \in DOMAIN rows : row[1] = n /\ row[2] = handlers[n].k => row = one
    BY <2>1 DEF DeliveriesAreReal, RowIsReal, IsRow, IsEventId, Ids
  <2>5. ASSUME NEW row \in DOMAIN rows \ MemberRows
        PROVE  IsTended(row)'
    <3>1. CASE row = one
      BY <2>2, <2>5, <3>1 DEF IsTended
    <3>2. CASE row # one
      <4>1. IsUntended(row) => IsUntended(row)'
        BY <1>4, <1>5, <2>4, <3>2
      <4> QED BY <1>6, <2>2, <4>1 DEF IsTended
    <3> QED BY <3>1, <3>2
  <2> QED BY <2>2, <2>3, <2>5 DEF Tended, IsTended
<1>10. CASE Fail(n)
  <2>1. rows' = rows /\ batches' = batches /\ workers' = workers
    BY <1>10 DEF Fail
  <2>2. MemberRows' = MemberRows
    BY <2>1 DEF MemberRows
  <2>3. handlers'[n].code = 500
    BY <1>10, CodeGiven DEF Fail
  <2>4. \A row \in DOMAIN rows : IsUntended(row) => IsUntended(row)'
    BY <1>4, <2>3 DEF IsUntended
  <2> QED BY <1>6, <2>1, <2>2, <2>4 DEF Tended, IsTended
<1> QED BY <1>7, <1>8, <1>9, <1>10 DEF Handle

LEMMA RowsStayTended ==
    ASSUME HandlersAreReal, DeliveriesAreReal, InProgress, Tended, [Next]_vars
    PROVE  Tended'
<1>1. CASE \E c \in Accepted : Start(c)
  <2>1. PICK c : /\ Pruned(Configs[c].storage.retention_days) /\ UNCHANGED handlers
                 /\ \/ UNCHANGED <<up, workers>>
                    \/ workers' = Recovered
    BY <1>1, Zenon DEF Start
  <2> QED BY <2>1, TendedAfterPruning
<1>2. CASE Prune
  <2>1. /\ Pruned(Configs[running].storage.retention_days) /\ UNCHANGED handlers
        /\ UNCHANGED <<up, workers>>
    BY <1>2, Zenon DEF Prune
  <2> QED BY <2>1, TendedAfterPruning
<1>3. CASE \E n \in DOMAIN handlers : Handle(n)
  BY <1>3, TendedAfterHandling
<1>4. CASE Send
  BY <1>4, TendedAfterSend
<1>5. CASE Crash
  <2>1. up' = FALSE
    BY <1>5 DEF Crash
  <2> QED BY <2>1 DEF Tended
<1>6. CASE \/ \E r \in RequestNames : Receive(r)
           \/ Tick \/ Quiet \/ UNCHANGED vars
  <2>1. UNCHANGED <<up, rows, batches>> /\ workers' = workers
    BY <1>6 DEF Receive, Tick, Quiet, vars, storeVars
  <2>2. \A n \in DOMAIN handlers : handlers'[n] = handlers[n]
    <3>1. CASE \E r \in RequestNames : Receive(r)
      BY <3>1, ReceiveEffect, HandlersAfterArrival
    <3>2. CASE Tick \/ Quiet \/ UNCHANGED vars
      BY <3>2 DEF Tick, Quiet, vars
    <3> QED BY <1>6, <3>1, <3>2
  <2> QED BY <2>1, <2>2, TendedAtRest
<1> QED BY <1>1, <1>2, <1>3, <1>4, <1>5, <1>6, Zenon DEF Next

----------------------------------------------------------------------------
(* The theorem.                                                            *)

AnswerInvariant ==
    /\ PipelineInvariant
    /\ RequestsAreReal /\ EventDays /\ RowsRemain /\ LiveMembers /\ Tended

LEMMA AnswersStart == Init => AnswerInvariant
<1> SUFFICES ASSUME Init PROVE AnswerInvariant
  OBVIOUS
<1>1. /\ DOMAIN handlers = {} /\ DOMAIN alertEvents = {} /\ DOMAIN rows = {}
      /\ DOMAIN batches = {} /\ up = FALSE
  BY DEF Init
<1>2. RequestsAreReal /\ EventDays /\ RowsRemain /\ LiveMembers /\ Tended
  BY <1>1 DEF RequestsAreReal, EventDays, RowsRemain, LiveMembers, Tended
<1> QED BY <1>2, StartsReal DEF AnswerInvariant

LEMMA AnswersStay == AnswerInvariant /\ [Next]_vars => AnswerInvariant'
<1> SUFFICES ASSUME AnswerInvariant, [Next]_vars PROVE AnswerInvariant'
  OBVIOUS
<1>1. /\ HandlersAreReal /\ AlertsAreReal /\ DeliveriesAreReal /\ InProgress
      /\ RequestsAreReal /\ EventDays /\ RowsRemain /\ LiveMembers /\ Tended
  BY DEF AnswerInvariant, PipelineInvariant
<1>2. PipelineInvariant'
  BY StaysReal DEF AnswerInvariant
<1>3. RequestsAreReal' /\ EventDays'
  BY <1>1, RequestsStayReal, EventDaysStay
<1>4. RowsRemain' /\ LiveMembers' /\ Tended'
  BY <1>1, RowsStay, BatchesStayLive, RowsStayTended
<1> QED BY <1>2, <1>3, <1>4 DEF AnswerInvariant

(* A row that is there is being delivered once its request is answered.    *)
LEMMA RowsAreDelivered ==
    ASSUME AnswerInvariant, up, NEW row \in DOMAIN rows, handlers[row[1]].code = 202
    PROVE  IsBeingDelivered(row)
<1>1. ~ IsUntended(row)
  BY ConstantTypes DEF IsUntended, IsQueueing, IsOpen
<1>2. CASE row \in MemberRows
  <2>1. PICK b \in DOMAIN batches : row \in Range(batches[b].members)
    BY <1>2 DEF MemberRows
  <2>2. rows[row] = "queued" => batches[b].status \in {"pending", "retrying"}
    BY <2>1 DEF AnswerInvariant, LiveMembers
  <2> QED BY <2>1, <2>2 DEF IsBeingDelivered
<1>3. CASE row \notin MemberRows
  BY <1>1, <1>3 DEF AnswerInvariant, Tended, IsBeingDelivered
<1> QED BY <1>2, <1>3

(* The events that carry the alert.                                        *)
Carriers(events, alert) == {i \in DOMAIN events : alert \in events[i].raw_payload.alerts}

(* Of the normalizers: every alert of a request that is accepted is in one *)
(* of its events.                                                          *)
NormalizersKeepAlerts ==
    \A c \in Startable, r \in RequestNames :
        Outcomes[c][r].code = 202 =>
            \A alert \in Requests[r].alerts : Cardinality(Carriers(Outcomes[c][r].events, alert)) = 1

(* A request that was answered 202 has every delivery its routes plan      *)
(* stored, and under way in a running process, until retention removes it; *)
(* and nothing is stored of a request that was not let in.  That it has    *)
(* every alert in one event is what the normalizers are left to show.      *)
LEMMA AnswersTrueIfKept ==
    ASSUME NormalizersKeepAlerts
    PROVE  Spec => []AnswersAreTrue
<1>1. AnswerInvariant => AnswersAreTrue
  <2> SUFFICES ASSUME AnswerInvariant PROVE AnswersAreTrue
    OBVIOUS
  <2>1. /\ HandlersAreReal /\ AlertsAreReal /\ RequestsAreReal /\ RowsRemain
    BY DEF AnswerInvariant, PipelineInvariant
  <2>2. ASSUME NEW n \in DOMAIN handlers
        PROVE  /\ handlers[n].config \in Startable /\ handlers[n].request \in RequestNames
               /\ RequestIsReal(handlers[n])
    BY <2>1, HandlerFields DEF HandlerRecord, RequestsAreReal
  <2>3. ASSUME NEW n \in DOMAIN handlers
        PROVE  LET asked == AskedOf(Configs[handlers[n].config], Requests[handlers[n].request])
               IN  asked = {Absent} \/ Requests[handlers[n].request].token \in asked
    BY <2>2, OutcomesAreWhole DEF RequestIsReal, TakenAs
  <2>4. ASSUME NEW n \in DOMAIN handlers,
               NEW alert \in Requests[handlers[n].request].alerts
        PROVE  Cardinality({i \in DOMAIN handlers[n].events :
                               alert \in handlers[n].events[i].raw_payload.alerts}) = 1
    <3>1. PICK c, r : c = handlers[n].config /\ r = handlers[n].request
      OBVIOUS
    <3>2. /\ c \in Startable /\ r \in RequestNames /\ Outcomes[c][r].code = 202
          /\ handlers[n].events = Outcomes[c][r].events
      BY <2>2, <3>1 DEF RequestIsReal, TakenAs
    <3>3. Cardinality(Carriers(handlers[n].events, alert)) = 1
      BY <3>1, <3>2 DEF NormalizersKeepAlerts
    <3> QED BY <3>3 DEF Carriers
  <2>5. ASSUME NEW n \in DOMAIN handlers, handlers[n].code = 202,
               NEW i \in DOMAIN handlers[n].events,
               NEW j \in DOMAIN Planned(Configs[handlers[n].config], handlers[n].events[i])
        PROVE  \/ MayBeExpired(handlers[n])
               \/ \E k \in DOMAIN handlers[n].work :
                     /\ handlers[n].work[k].event = i
                     /\ handlers[n].work[k].delivery =
                           Planned(Configs[handlers[n].config], handlers[n].events[i])[j]
                     /\ <<n, k>> \in DOMAIN rows
                     /\ up => IsBeingDelivered(<<n, k>>)
    <3>1. WorkCovers(Configs[handlers[n].config], handlers[n].events, handlers[n].work)
      BY <2>2, OutcomesAreWhole DEF RequestIsReal, TakenAs
    <3>2. PICK k \in DOMAIN handlers[n].work :
              /\ handlers[n].work[k].event = i
              /\ handlers[n].work[k].delivery =
                    Planned(Configs[handlers[n].config], handlers[n].events[i])[j]
      BY <3>1 DEF WorkCovers
    <3>3. k \in 1 .. Len(handlers[n].work) /\ Len(handlers[n].work) \in Nat
      BY <2>1, HandlerFields, ListFields DEF Ordered
    <3>4. handlers[n].k > Len(handlers[n].work) /\ handlers[n].k \in Nat
      BY <2>1, <2>2, <2>5, HandlerFields, WorkIsOrdered DEF RequestIsReal
    <3>5. HasQueued(n, k)
      BY <3>3, <3>4 DEF HasQueued
    <3>6. <<n, k>> \in DOMAIN rows \/ MayBeExpired(handlers[n])
      BY <2>1, <3>3, <3>5 DEF RowsRemain
    <3>7. <<n, k>> \in DOMAIN rows /\ up => IsBeingDelivered(<<n, k>>)
      <4>1. <<n, k>>[1] = n
        OBVIOUS
      <4> QED BY <2>5, <4>1, RowsAreDelivered
    <3> QED BY <3>2, <3>6, <3>7
  <2>6. ASSUME NEW n \in DOMAIN handlers
        PROVE  LET h == handlers[n]
                   file == Configs[h.config]
                   request == Requests[h.request]
                   asked == AskedOf(file, request)
               IN  /\ h.code = 202 =>
                         /\ \A alert \in request.alerts :
                               Cardinality({i \in DOMAIN h.events :
                                               alert \in h.events[i].raw_payload.alerts}) = 1
                         /\ \A i \in DOMAIN h.events : \A j \in DOMAIN Planned(file, h.events[i]) :
                               \/ MayBeExpired(h)
                               \/ \E k \in DOMAIN h.work :
                                     /\ h.work[k].event = i
                                     /\ h.work[k].delivery = Planned(file, h.events[i])[j]
                                     /\ <<n, k>> \in DOMAIN rows
                                     /\ up => IsBeingDelivered(<<n, k>>)
                   /\ (\E e \in DOMAIN alertEvents : e[1] = n) =>
                         asked = {Absent} \/ request.token \in asked
    <3> DEFINE h == handlers[n]
               file == Configs[h.config]
               request == Requests[h.request]
               asked == AskedOf(file, request)
    <3>1. \A alert \in request.alerts :
              Cardinality({i \in DOMAIN h.events : alert \in h.events[i].raw_payload.alerts}) = 1
      BY <2>4, Zenon
    <3>2. ASSUME h.code = 202
          PROVE  \A i \in DOMAIN h.events : \A j \in DOMAIN Planned(file, h.events[i]) :
                     \/ MayBeExpired(h)
                     \/ \E k \in DOMAIN h.work :
                           /\ h.work[k].event = i
                           /\ h.work[k].delivery = Planned(file, h.events[i])[j]
                           /\ <<n, k>> \in DOMAIN rows
                           /\ up => IsBeingDelivered(<<n, k>>)
      BY <2>5, <3>2, Zenon
    <3>3. asked = {Absent} \/ request.token \in asked
      BY <2>3, Zenon
    <3> HIDE DEF h, file, request, asked
    <3> QED BY <3>1, <3>2, <3>3, Zenon DEF h, file, request, asked
  <2> QED BY <2>6, Zenon DEF AnswersAreTrue, AskedOf
<1> QED BY <1>1, AnswersStart, AnswersStay, PTL DEF Spec
==============================================================================
