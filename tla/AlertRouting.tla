---------------------------- MODULE AlertRouting ----------------------------
(***************************************************************************)
(* Which receivers an event goes to, whose it is, and which events are     *)
(* sent together.  A field of a matcher, and a selector of a grouping, is  *)
(* the tuple of its parts: <<"status">>, <<"label", "team">>,              *)
(* <<"payload", "/rule">>.  An operator that may find nothing returns the  *)
(* set of what it finds.                                                   *)
(***************************************************************************)
EXTENDS AlertEvents

Present(value) == {value} \ {Absent}

FieldValue(event, field) ==
    CASE field = <<"integration">> -> {event.integration}
      [] field = <<"source">> -> {event.source}
      [] field = <<"status">> -> {event.status}
      [] field = <<"severity">> -> {event.severity}
      [] field \in {<<"title">>, <<"alertname">>} -> {event.title}
      [] field = <<"fingerprint">> -> {event.fingerprint}
      [] field[1] = "label" -> Present(Get(event.labels, field[2]))
      [] field[1] = "annotation" -> Present(Get(event.annotations, field[2]))
      [] field[1] = "payload" ->
            Present(Get(event.raw_payload.scalars, field[2])) \ {"composite"}
      [] OTHER -> {}

(* The tests (equals, contains, regex) are the sets of values that pass.   *)
MatcherMatches(matcher, event) ==
    \E value \in FieldValue(event, matcher.field) :
        \A accepted \in matcher.tests : value \in accepted

RouteMatches(route, event) ==
    \A i \in DOMAIN route.matchers : MatcherMatches(route.matchers[i], event)

DeliveryOf(route) ==
    [route |-> route.name, receiver |-> route.receiver, team |-> route.team,
     policy |-> route.policy, group_by |-> route.group_by]

DefaultDelivery(receiver) ==
    [route |-> "default", receiver |-> receiver, team |-> Absent,
     policy |-> Absent, group_by |-> <<>>]

(* The matching routes, up to the first that does not let matching go on;  *)
(* the default receiver if there is none.                                  *)
Plan(routing, event) ==
    LET matching == {i \in DOMAIN routing.routes : RouteMatches(routing.routes[i], event)}
        hits == Kept(routing.routes, matching)
        last == {i \in DOMAIN hits : ~hits[i].continue}
        planned == IF last = {} THEN hits
                   ELSE SubSeq(hits, 1, CHOOSE i \in last : \A j \in last : i <= j)
    IN  IF planned = <<>> /\ routing.default # Absent
        THEN <<DefaultDelivery(routing.default)>>
        ELSE [i \in DOMAIN planned |-> DeliveryOf(planned[i])]

(* A delivery whose route has no owner belongs to the receiver's team.     *)
WithReceiverOwnership(receivers, deliveries) ==
    [i \in DOMAIN deliveries |->
        LET d == deliveries[i]
        IN  IF d.team = Absent /\ d.receiver \in DOMAIN receivers
            THEN [d EXCEPT !.team = receivers[d.receiver].team] ELSE d]

FirstOwnerTeam(deliveries) ==
    FirstPresent([i \in DOMAIN deliveries |-> deliveries[i].team])
----------------------------------------------------------------------------
EventFields == {"event_id", "integration", "group_namespace", "source", "status",
                "severity", "title", "fingerprint"}

SelectorIsValid(selector) ==
    IF Len(selector) = 1 THEN selector[1] \in EventFields
    ELSE selector[1] \in {"label", "annotation"} /\ selector[2] # ""

SelectorValue(event, selector) ==
    CASE selector = <<"event_id">> -> {event.event_id}
      [] selector = <<"group_namespace">> -> {event.group_namespace}
      [] selector = <<"fingerprint">> -> {event.fingerprint} \ {Given("")}
      [] OTHER -> FieldValue(event, selector) \ {""}

BatchIdentity(event, delivery, grouping) ==
    <<delivery.receiver, delivery.route, delivery.team, delivery.policy,
      event.group_namespace, event.status, grouping>>

(* The key of the batch an event joins: the values of the route's          *)
(* selectors, or the source's own key if the route has none.  An event     *)
(* that lacks one of the values has no key and is sent on its own.         *)
BatchKey(event, delivery) ==
    LET selectors == delivery.group_by
        found == [i \in DOMAIN selectors |-> SelectorValue(event, selectors[i])]
        hint == event.notification_group_key
    IN  IF selectors = <<>>
        THEN IF hint \in {NoGroupKey, Given("")} THEN {}
             ELSE {BatchIdentity(event, delivery, hint)}
        ELSE IF \E i \in DOMAIN found : found[i] = {} THEN {}
             ELSE {BatchIdentity(event, delivery,
                     [i \in DOMAIN found |-> <<selectors[i], CHOOSE v \in found[i] : TRUE>>])}
============================================================================
