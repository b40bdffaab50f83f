----------------------------- MODULE AlertIntake -----------------------------
(***************************************************************************)
(* What the proxy makes of one request under one configuration: the way    *)
(* through the body limit, the router, the authorization and the           *)
(* normalizer of the integration the path belongs to, and the deliveries   *)
(* planned for its events.  A request is the record of its path, token     *)
(* (Absent if it bears none), content type, size, whether its body is      *)
(* JSON, and the body.                                                     *)
(***************************************************************************)
EXTENDS AlertInputs, ProxyConfig

(* The code a request is answered with if storing goes well, its events.   *)
Answer(code, events) == [code |-> code, events |-> events]

(* Mutant of IsAuthorized: an integration without a token of its own is    *)
(* open.                                                                   *)
IsAuthorizedByOwn(config, integrations, token) ==
    \A name \in integrations :
        config.integrations[name].auth \in {Absent, token}

(* The token of the integration, or else the server's, if there is one.    *)
IsAuthorized(config, integrations, token) ==
    LET own == {config.integrations[name].auth : name \in integrations} \ {Absent}
    IN  IF own # {} THEN token \in own ELSE config.server.auth \in {Absent, token}

FromNormalizer(normalized) ==
    IF normalized.ok THEN Answer(202, normalized.events) ELSE Answer(400, <<>>)

ProcessBuiltin(name, preset, body) ==
    FromNormalizer(
        CASE preset \in {"signoz", "alertmanager"} -> NormalizeSigNoz(name, body)
          [] preset = "grafana" -> NormalizeGrafana(name, body)
          [] preset = "n8n" -> NormalizeN8n(name, body)
          [] preset = "gvmd" -> NormalizeGvmd(name, body))

ProcessCloudEvent(name, mapping, request) ==
    LET code == CloudEventCode(request.contentType, request.body)
    IN  IF code # 202 THEN Answer(code, <<>>)
        ELSE FromNormalizer(NormalizeCloudEvent(name, mapping, request.body))

ProcessIntegration(name, integration, request) ==
    CASE integration.type = "cloud_events" ->
            ProcessCloudEvent(name, integration.mapping, request)
      [] integration.type = "builtin" ->
            IF integration.preset = "gvmd" /\ request.contentType # "application/json"
            THEN Answer(415, <<>>)
            ELSE IF ~request.json THEN Answer(400, <<>>)
            ELSE ProcessBuiltin(name, integration.preset, request.body)
      [] integration.type = "generic_json" ->
            IF ~request.json THEN Answer(400, <<>>)
            ELSE FromNormalizer(NormalizeMapped(name, integration.source, integration.mapping,
                                                request.body.id, request.body.scalars))

(* The path of the server's own webhook takes SigNoz alerts, unless an     *)
(* integration is configured for it.                                       *)
ProcessDefault(request) ==
    IF request.json THEN ProcessBuiltin("signoz", "signoz", request.body) ELSE Answer(400, <<>>)

IntegrationAt(config, path) ==
    IF UnderWebhooks(path)
    THEN {name \in DOMAIN config.integrations : config.integrations[name].path = path}
    ELSE {}

Handled(config, request) ==
    LET names == IntegrationAt(config, request.path)
    IN  IF request.size > config.server.max_body THEN Answer(413, <<>>)
        ELSE IF names = {} /\ request.path # config.server.webhook_path
             THEN Answer(404, <<>>)
        ELSE IF ~IsAuthorized(config, names, request.token) THEN Answer(401, <<>>)
        ELSE IF names = {} THEN ProcessDefault(request)
        ELSE LET name == CHOOSE n \in names : TRUE
             IN  ProcessIntegration(name, config.integrations[name], request)
----------------------------------------------------------------------------
Planned(config, event) ==
    WithReceiverOwnership(config.receivers, Plan(config.routing, event))

(* The work of a request, in order: one item for each event and delivery.  *)
(* A delivery whose receiver is not configured is passed over.             *)
WorkOn(config, events) ==
    FlattenSeq([i \in DOMAIN events |->
        LET planned == Planned(config, events[i])
            plan == Kept(planned, {j \in DOMAIN planned :
                                      planned[j].receiver \in DOMAIN config.receivers})
        IN  [j \in DOMAIN plan |->
                [event |-> i, delivery |-> plan[j],
                 owner |-> FirstOwnerTeam(planned)]]])

Outcome(config, request) ==
    LET answer == Handled(config, request)
    IN  [code |-> answer.code, events |-> answer.events, work |-> WorkOn(config, answer.events)]
============================================================================
