---------------------------- MODULE ProxyConfig -----------------------------
(***************************************************************************)
(* The configuration file: its records, their defaults, and what validate  *)
(* refuses.  A block the file may leave out is the sequence of none or one *)
(* of it.  A path is the sequence of its segments.  A template's source,   *)
(* and a URL, is a record of what the checks and the rendering look at.    *)
(***************************************************************************)
EXTENDS AlertRouting

CONSTANTS
    Environment,   \* the variables of the process: their values by name
    EnvReference,  \* of a path written as a reference: the variable it names
    PlainNames     \* the names of letters, digits, dashes and underscores

DefaultServer ==
    [webhook_path |-> <<"webhooks", "signoz">>, max_body |-> 1024,
     webhook_concurrency |-> 64, management_concurrency |-> 16,
     loopback |-> FALSE, bind_parses |-> TRUE, auth |-> Absent, tls |-> <<>>]

DefaultManagement ==
    [auth |-> Absent, allow_unauthenticated |-> FALSE, local_users |-> TRUE,
     bootstrap_admin_password_env |-> "SIMPLE_ALERT_PROXY_BOOTSTRAP_ADMIN_PASSWORD",
     session_ttl_secs |-> 8 * 60 * 60]

DefaultStorage == [type |-> "sqlite", path |-> "simple-alert-proxy.db", retention_days |-> 90]

DefaultAttempts ==
    [max_attempts |-> 3, initial_backoff_millis |-> 250, max_backoff_millis |-> 30000]

DefaultBatching ==
    [enabled |-> TRUE, group_wait_millis |-> 1000, max_events |-> 100, max_payload_kib |-> 256]

DefaultIntelligence ==
    [enabled |-> FALSE, provider |-> Absent, allow_lifecycle_mutation |-> FALSE]

Step(target, value) ==
    target :> value
    @@ [receiver |-> Absent, schedule |-> Absent, webhook |-> Absent, user |-> Absent,
        team |-> Absent, delay_millis |-> 1, stop_on_ack |-> TRUE, stop_on_resolve |-> TRUE]
----------------------------------------------------------------------------
(* A secret that may be left out must not be empty.                        *)
TokenIsValid(auth) == auth # ""

LimitsAreValid(server) ==
    server.webhook_concurrency > 0 /\ server.management_concurrency > 0

StorageIsValid(storage) ==
    storage.type = "sqlite" /\ storage.path # "" /\ storage.retention_days > 0

DeliveryIsValid(delivery) ==
    /\ delivery.max_attempts > 0
    /\ delivery.initial_backoff_millis > 0
    /\ delivery.max_backoff_millis >= delivery.initial_backoff_millis

Targets(block, kinds) == {kind \in kinds : block[kind] # Absent}

EntryTargets == {"receiver", "user", "team"}
StepTargets == EntryTargets \cup {"schedule", "webhook"}

(* Exactly one target, and a named one.                                    *)
HasOneTarget(block, kinds) ==
    /\ Cardinality(Targets(block, kinds)) = 1
    /\ \A kind \in Targets(block, kinds) : block[kind] # ""

ScheduleIsValid(entries) ==
    entries # <<>> /\ \A i \in DOMAIN entries : HasOneTarget(entries[i], EntryTargets)

PolicyIsValid(steps) ==
    /\ steps # <<>>
    /\ \A i \in DOMAIN steps :
          steps[i].delay_millis > 0 /\ HasOneTarget(steps[i], StepTargets)

StepReceiver(step) == Or(step.receiver, step.webhook)

IsReceiver(config, name) == name \in DOMAIN config.receivers

StepRefersToKnown(config, step) ==
    /\ StepReceiver(step) # Absent => IsReceiver(config, StepReceiver(step))
    /\ step.schedule # Absent => step.schedule \in DOMAIN config.schedules

PoliciesAreValid(config) ==
    \A name \in DOMAIN config.policies :
        LET steps == config.policies[name]
        IN  /\ PolicyIsValid(steps)
            /\ \A i \in DOMAIN steps : StepRefersToKnown(config, steps[i])

SchedulesAreValid(config) ==
    \A name \in DOMAIN config.schedules :
        LET entries == config.schedules[name]
        IN  /\ ScheduleIsValid(entries)
            /\ \A i \in DOMAIN entries :
                  entries[i].receiver # Absent => IsReceiver(config, entries[i].receiver)

IntelligenceIsValid(intelligence) ==
    /\ intelligence.enabled => intelligence.provider \notin {Absent, ""}
    /\ intelligence.allow_lifecycle_mutation => intelligence.enabled

ManagementIsValid(management) ==
    /\ TokenIsValid(management.auth)
    /\ management.local_users =>
          /\ ~Blank(management.bootstrap_admin_password_env)
          /\ management.session_ttl_secs > 0

ManagementAuth(config) == Or(config.management.auth, config.server.auth)

(* Without any way to sign in, the management routes stay on the loopback. *)
ExposureIsValid(config) ==
    \/ ManagementAuth(config) # Absent
    \/ config.management.allow_unauthenticated
    \/ config.management.local_users
    \/ config.server.bind_parses /\ config.server.loopback
----------------------------------------------------------------------------
(* Where the certificate or the key comes from.                            *)
TlsSource(path, env) ==
    IF (path = Absent) = (env = Absent) THEN "refused"
    ELSE IF path # Absent
         THEN IF path \in DOMAIN EnvReference /\ EnvReference[path] \notin DOMAIN Environment
              THEN "refused" ELSE "path"
    ELSE IF env = "" \/ env \notin DOMAIN Environment THEN "refused" ELSE "pem"

TlsIsValid(tls) ==
    LET cert == TlsSource(tls.cert_path, tls.cert_env)
        key == TlsSource(tls.key_path, tls.key_env)
    IN  cert = key /\ cert # "refused"
----------------------------------------------------------------------------
UnderWebhooks(path) == Len(path) >= 2 /\ path[1] = "webhooks"

BuiltinPresets == {"signoz", "alertmanager", "grafana", "gvmd", "n8n"}
SourcePresets == {"alertmanager", "grafana", "openobserve", "openvas_scan"}

MappingIsValid(mapping) == "" \notin {mapping.status, mapping.title, mapping.fingerprint}

IntegrationNameIsValid(name) == name # "" /\ name \in PlainNames

IntegrationIsValid(integration) ==
    /\ integration.path # <<>>
    /\ UnderWebhooks(integration.path)
    /\ TokenIsValid(integration.auth)
    /\ CASE integration.type = "builtin" -> integration.preset \in BuiltinPresets
         [] integration.type = "generic_json" ->
               /\ integration.preset \in SourcePresets \cup {Absent}
               /\ integration.source # ""
               /\ MappingIsValid(integration.mapping)
         [] integration.type = "cloud_events" -> MappingIsValid(integration.mapping)

PathsAreDistinct(integrations) ==
    \A m, n \in DOMAIN integrations : integrations[m].path = integrations[n].path => m = n

BatchingIsValid(batching) ==
    batching.enabled =>
        batching.group_wait_millis > 0 /\ batching.max_events > 0 /\ batching.max_payload_kib > 0

RouteIsValid(config, route) ==
    /\ IsReceiver(config, route.receiver)
    /\ \A i \in DOMAIN route.group_by : SelectorIsValid(route.group_by[i])
    /\ route.policy # Absent => route.policy \in DOMAIN config.policies

RoutingIsValid(config) ==
    /\ config.routing.default # Absent => IsReceiver(config, config.routing.default)
    /\ \A i \in DOMAIN config.routing.routes : RouteIsValid(config, config.routing.routes[i])
----------------------------------------------------------------------------
MaxTemplateSource == 64

PayloadOnlyKinds == {"generic_webhook", "n8n_webhook", "cloudevents_webhook"}
ChatKinds == {"slack", "mattermost", "discord"}
TemplateFields == {"title", "body", "payload"}

FieldsOf(template) == {field \in TemplateFields : template[field] # <<>>}

TemplateBlockIsValid(kind, template) ==
    /\ FieldsOf(template) # {}
    /\ "payload" \in FieldsOf(template) => FieldsOf(template) = {"payload"}
    /\ kind \in PayloadOnlyKinds => FieldsOf(template) = {"payload"}
    /\ \A field \in FieldsOf(template) : template[field][1].source <= MaxTemplateSource

(* The kinds that take no title template ignore one.                       *)
LegacyTitle(receiver) ==
    IF receiver.kind \in PayloadOnlyKinds THEN Absent ELSE receiver.title_template

TemplateIsValid(receiver) ==
    receiver.template # <<>> =>
        /\ LegacyTitle(receiver) = Absent
        /\ TemplateBlockIsValid(receiver.kind, receiver.template[1])

HasHost(url) == url.absolute /\ url.http

N8nIsWell(receiver) ==
    /\ HasHost(receiver.url) /\ ~receiver.url.credentials /\ ~receiver.url.query
    /\ \A i \in DOMAIN receiver.auth :
          /\ receiver.auth[i].header_is_legal
          /\ receiver.auth[i].header \notin
                {"host", "content-length", "content-type", "idempotency-key"}
          /\ ~Blank(receiver.auth[i].env)

CloudEventsIsWell(receiver) ==
    /\ HasHost(receiver.url)
    /\ receiver.source_is_uri
    /\ ~Blank(receiver.event_type) /\ ~Blank(receiver.batch_type)

MatrixIsWell(receiver) ==
    /\ HasHost(receiver.url) /\ ~receiver.url.credentials /\ ~receiver.url.query
    /\ receiver.room_is_canonical
    /\ (receiver.access_token = Absent) # (receiver.access_token_env = Absent)
    /\ receiver.access_token # Absent => ~Blank(receiver.access_token)
    /\ receiver.access_token_env # Absent => ~Blank(receiver.access_token_env)

ReceiverIsValid(receiver) ==
    /\ TemplateIsValid(receiver)
    /\ receiver.timeout_secs > 0
    /\ CASE receiver.kind = "n8n_webhook" -> N8nIsWell(receiver)
         [] receiver.kind = "cloudevents_webhook" -> CloudEventsIsWell(receiver)
         [] receiver.kind = "matrix" -> MatrixIsWell(receiver)
         [] OTHER -> TRUE
----------------------------------------------------------------------------
(* AppConfig::validate.                                                    *)
ConfigIsValid(config) ==
    /\ DOMAIN config.receivers # {}
    /\ config.server.max_body > 0
    /\ LimitsAreValid(config.server)
    /\ StorageIsValid(config.storage)
    /\ DeliveryIsValid(config.delivery)
    /\ SchedulesAreValid(config)
    /\ PoliciesAreValid(config)
    /\ IntelligenceIsValid(config.intelligence)
    /\ TokenIsValid(config.server.auth)
    /\ ManagementIsValid(config.management)
    /\ ExposureIsValid(config)
    /\ \A i \in DOMAIN config.server.tls : TlsIsValid(config.server.tls[i])
    /\ \A name \in DOMAIN config.integrations :
          IntegrationNameIsValid(name) /\ IntegrationIsValid(config.integrations[name])
    /\ PathsAreDistinct(config.integrations)
    /\ BatchingIsValid(config.batching)
    /\ RoutingIsValid(config)
    /\ \A name \in DOMAIN config.receivers : ReceiverIsValid(config.receivers[name])
============================================================================
