--------------------------- MODULE MCAlertPipeline ---------------------------
(***************************************************************************)
(* Three files the proxy serves with, one whose start fails late, and one   *)
(* file for each rule of validate, which breaks it; requests for every     *)
(* integration: alerts that fire, repeat and resolve, alone and together,  *)
(* and malformed, unauthorized and misdirected ones.                       *)
(***************************************************************************)
EXTENDS AlertPipeline

MCEnvironment == [N8N_TOKEN |-> "n8n", EMPTY |-> "", CERT |-> "pem", KEY |-> "pem"]
MCEnvReference == [env_of_cert |-> "CERT", env_of_nothing |-> "NOTHING"]
MCPlainNames == {"graf", "other", "alerts", "gvmd", "n8n", "generic", "cloud"}
MCTeams == {"sre"}

MCQueryOf ==
    [rule_r1 |-> <<<<"ruleId", "r1">>>>, rule_r2 |-> <<<<"tab", "x">>, <<"ruleId", "r2">>>>,
     no_rule |-> <<>>]
MCGroupLabelsOf == [key_r1 |-> <<<<"ruleId", "r1">>>>, key_plain |-> <<>>]
----------------------------------------------------------------------------
GoodUrl == [absolute |-> TRUE, http |-> TRUE, credentials |-> FALSE, query |-> FALSE]

ReceiverOf(kind) ==
    [kind |-> kind, team |-> Absent, timeout_secs |-> 10, title_template |-> Absent,
     template |-> <<>>, url |-> GoodUrl, auth |-> <<>>, source_is_uri |-> TRUE,
     event_type |-> "alert", batch_type |-> "batch", mode |-> "structured",
     room_is_canonical |-> TRUE, access_token |-> "secret", access_token_env |-> Absent]

Templated(kind, template) == [ReceiverOf(kind) EXCEPT !.template = <<template>>]

Plain(size, each, needs) ==
    [source |-> 1, syntax |-> TRUE, static |-> FALSE, json |-> TRUE, object |-> TRUE,
     fields |-> {}, size |-> size, each |-> each, needs |-> needs]

Static(fields) == [Plain(1, 0, {}) EXCEPT !.static = TRUE, !.fields = fields]

Titled(title, body) == [title |-> title, body |-> body, payload |-> <<>>]
Payload(tpl) == [title |-> <<>>, body |-> <<>>, payload |-> <<tpl>>]

MatcherOn(field, values) == [field |-> field, tests |-> {values}]

RouteTo(name, receiver, matchers) ==
    [name |-> name, receiver |-> receiver, team |-> Absent, policy |-> Absent,
     group_by |-> <<>>, continue |-> FALSE, matchers |-> matchers, compiles |-> TRUE]

NoMapping ==
    [status |-> "/status", severity |-> Absent, title |-> "/title", body |-> Absent,
     fingerprint |-> "/fp", groupKey |-> Absent, labels |-> NoStrings,
     annotations |-> NoStrings, links |-> <<>>]

Builtin(preset, path, auth) ==
    [type |-> "builtin", preset |-> preset, path |-> <<"webhooks", path>>, auth |-> auth,
     source |-> preset, mapping |-> NoMapping]

BaseConfig ==
    [server |-> DefaultServer, management |-> DefaultManagement, storage |-> DefaultStorage,
     delivery |-> DefaultAttempts, policies |-> <<>>, schedules |-> <<>>,
     intelligence |-> DefaultIntelligence, integrations |-> <<>>, batching |-> DefaultBatching,
     receivers |-> [chat |-> ReceiverOf("google_chat")],
     routing |-> [routes |-> <<>>, default |-> "chat"]]

(* Grafana's alerts, batched, with owners and a policy.                    *)
Sre ==
    [BaseConfig EXCEPT
        !.storage.retention_days = 1,
        !.server.auth = "server",
        !.integrations = [graf |-> Builtin("grafana", "grafana", "graf")],
        !.batching.max_events = 2,
        !.receivers = [chat |-> ReceiverOf("google_chat"),
                       slack |-> [ReceiverOf("slack") EXCEPT !.team = "sre"],
                       board |-> Templated("discord", Titled(<<Plain(1, 0, {<<"label", "host">>})>>,
                                                             <<>>)),
                       oncall |-> Templated("mattermost", Payload(Static({<<"text", "string">>})))],
        !.policies = [page |-> <<Step("receiver", "oncall")>>],
        !.schedules = [week |-> <<Step("receiver", "oncall")>>],
        !.routing = [routes |-> <<
            [RouteTo("critical", "slack", <<MatcherOn(<<"severity">>, {"critical"})>>)
                EXCEPT !.policy = "page", !.continue = TRUE],
            [RouteTo("hosts", "board", <<MatcherOn(<<"label", "host">>, {"a", "b"}),
                                         MatcherOn(<<"status">>, {"firing", "resolved"})>>)
                EXCEPT !.group_by = <<<<"label", "host">>>>, !.continue = TRUE],
            RouteTo("page", "oncall", <<MatcherOn(<<"severity">>, {"critical"})>>)>>,
                     default |-> "chat"]]

(* The same for SigNoz's alerts.                                           *)
Ops == [Sre EXCEPT !.integrations = [alerts |-> Builtin("signoz", "alerts", Absent)]]

(* The other integrations, each event on its own or grouped by the source. *)
Vuln ==
    [BaseConfig EXCEPT
        !.storage.retention_days = 2,
        !.server.webhook_path = <<"hook">>,
        !.server.max_body = 4,
        !.server.webhook_concurrency = 1,
        !.integrations =
            [gvmd |-> Builtin("gvmd", "gvmd", "scan"),
             n8n |-> Builtin("n8n", "n8n", Absent),
             generic |-> [Builtin("openobserve", "generic", Absent) EXCEPT !.type = "generic_json"],
             cloud |-> [Builtin(Absent, "cloud", Absent) EXCEPT
                            !.type = "cloud_events", !.mapping.fingerprint = "/id",
                            !.mapping.groupKey = "/source",
                            !.mapping.links = <<"/url">>]],
        !.receivers =
            [flows |-> [ReceiverOf("n8n_webhook") EXCEPT
                            !.auth = <<[header |-> "x-token", header_is_legal |-> TRUE,
                                        env |-> "N8N_TOKEN"]>>],
             bus |-> ReceiverOf("cloudevents_webhook"),
             room |-> [ReceiverOf("matrix") EXCEPT
                            !.access_token = Absent, !.access_token_env = "EMPTY"],
             hook |-> Templated("generic_webhook", Payload(Plain(1, 1, {<<"group">>}))),
             any |-> ReceiverOf("generic_webhook")],
        !.routing = [routes |-> <<
            RouteTo("scans", "bus", <<MatcherOn(<<"integration">>, {"gvmd"})>>),
            RouteTo("flows", "flows", <<MatcherOn(<<"source">>, {"n8n"})>>),
            [RouteTo("data", "hook", <<MatcherOn(<<"payload", "/status">>, {"firing"})>>)
                EXCEPT !.continue = TRUE],
            RouteTo("room", "room", <<MatcherOn(<<"payload", "/status">>, {"firing"})>>)>>,
                     default |-> "any"]]

LostRoute == [Sre EXCEPT !.routing.routes[3].receiver = "nobody"]
BadStatic == [Sre EXCEPT !.receivers.oncall =
                Templated("mattermost", Payload(Static({<<"content", "string">>})))]

MCBrokenSre ==
    [no_receivers |-> [Sre EXCEPT !.receivers = <<>>],
     lost_route |-> LostRoute,
     lost_default |-> [Sre EXCEPT !.routing.default = "nobody"],
     lost_policy |-> [Sre EXCEPT !.routing.routes[1].policy = "nobody"],
     lost_step |-> [Sre EXCEPT !.policies.page[1].receiver = "nobody"],
     empty_policy |-> [Sre EXCEPT !.policies.page = <<>>],
     two_targets |-> [Sre EXCEPT !.policies.page[1].user = "somebody"],
     empty_schedule |-> [Sre EXCEPT !.schedules.week = <<>>],
     lost_entry |-> [Sre EXCEPT !.schedules.week[1].receiver = "nobody"],
     bad_selector |-> [Sre EXCEPT !.routing.routes[2].group_by = <<<<"label", "">>>>],
     no_body |-> [Sre EXCEPT !.server.max_body = 0],
     no_slots |-> [Sre EXCEPT !.server.webhook_concurrency = 0],
     no_attempts |-> [Sre EXCEPT !.delivery.max_attempts = 0],
     short_backoff |-> [Sre EXCEPT !.delivery.max_backoff_millis = 1],
     no_retention |-> [Sre EXCEPT !.storage.retention_days = 0],
     other_storage |-> [Sre EXCEPT !.storage.type = "postgres"],
     empty_token |-> [Sre EXCEPT !.integrations.graf.auth = ""],
     same_path |-> [Sre EXCEPT !.integrations = @ @@ [other |-> Sre.integrations.graf]],
     no_path |-> [Sre EXCEPT !.integrations.graf.path = <<>>],
     other_path |-> [Sre EXCEPT !.integrations.graf.path = <<"grafana">>],
     odd_name |-> [Sre EXCEPT !.integrations = ("odd name" :> Sre.integrations.graf)],
     odd_preset |-> [Sre EXCEPT !.integrations.graf.preset = "nagios"],
     no_group |-> [Sre EXCEPT !.batching.max_events = 0],
     provider |-> [Sre EXCEPT !.intelligence.enabled = TRUE],
     mutation |-> [Sre EXCEPT !.intelligence.allow_lifecycle_mutation = TRUE],
     no_session |-> [Sre EXCEPT !.management.session_ttl_secs = 0],
     half_tls |-> [Sre EXCEPT !.server.tls = <<[cert_path |-> "env_of_cert", cert_env |-> Absent,
                                               key_path |-> Absent, key_env |-> Absent]>>],
     mixed_tls |-> [Sre EXCEPT !.server.tls = <<[cert_path |-> "env_of_cert", cert_env |-> Absent,
                                                key_path |-> Absent, key_env |-> "KEY"]>>],
     lost_tls |-> [Sre EXCEPT !.server.tls = <<[cert_path |-> "env_of_nothing", cert_env |-> Absent,
                                               key_path |-> "key", key_env |-> Absent]>>],
     no_timeout |-> [Sre EXCEPT !.receivers.slack.timeout_secs = 0],
     two_titles |-> [Sre EXCEPT !.receivers.board.title_template = "{{title}}"],
     no_template |-> [Sre EXCEPT !.receivers.board = Templated("discord", Titled(<<>>, <<>>))],
     long_template |-> [Sre EXCEPT !.receivers.board.template[1].title[1].source = 65],
     bad_syntax |-> [Sre EXCEPT !.receivers.board.template[1].title[1].syntax = FALSE],
     bad_static |-> BadStatic]

MCBrokenVuln ==
    [open_ui |-> [Vuln EXCEPT !.management.local_users = FALSE],
     no_env |-> [Vuln EXCEPT !.management.bootstrap_admin_password_env = " "],
     no_mapping |-> [Vuln EXCEPT !.integrations.generic.mapping.title = ""],
     no_source |-> [Vuln EXCEPT !.integrations.generic.source = ""],
     no_event_title |-> [Vuln EXCEPT !.integrations.cloud.mapping.title = ""],
     own_header |-> [Vuln EXCEPT !.receivers.flows.auth[1].header = "idempotency-key"],
     in_url |-> [Vuln EXCEPT !.receivers.flows.url.credentials = TRUE],
     relative |-> [Vuln EXCEPT !.receivers.bus.url.absolute = FALSE],
     no_type |-> [Vuln EXCEPT !.receivers.bus.batch_type = ""],
     alias |-> [Vuln EXCEPT !.receivers.room.room_is_canonical = FALSE],
     two_secrets |-> [Vuln EXCEPT !.receivers.room.access_token = "secret"],
     title_only |-> [Vuln EXCEPT !.receivers.hook =
                        Templated("generic_webhook", Titled(<<Plain(1, 0, {})>>, <<>>))]]

MCConfigs ==
    [sre |-> Sre, ops |-> Ops, vuln |-> Vuln,
     bad_pattern |-> [Sre EXCEPT !.routing.routes[1].compiles = FALSE],
     lost_route |-> LostRoute, bad_static |-> BadStatic]

ASSUME EveryRuleRefuses ==
    /\ Accepted = {"sre", "ops", "vuln", "bad_pattern"}
    /\ \A name \in DOMAIN MCBrokenSre : ~IsAccepted(MCBrokenSre[name])
    /\ \A name \in DOMAIN MCBrokenVuln : ~IsAccepted(MCBrokenVuln[name])
----------------------------------------------------------------------------
Request(path, token, body, alerts) ==
    [path |-> <<"webhooks", path>>, token |-> token, contentType |-> "application/json",
     size |-> 2, json |-> TRUE, body |-> body, alerts |-> alerts]

GrafanaBodyOf(alerts) ==
    [typed |-> TRUE, id |-> "group", receiver |-> "proxy", status |-> "firing", state |-> Absent,
     orgId |-> "1", version |-> "1", truncated |-> Absent, groupKey |-> "key",
     groupLabels |-> [alertname |-> "disk"], commonLabels |-> [severity |-> "warning"],
     commonAnnotations |-> NoStrings, title |-> "title", message |-> "message",
     externalUrl |-> Absent, scalars |-> NoStrings, alerts |-> alerts]

GrafanaAlert(id, status, host) ==
    [id |-> id, status |-> status, labels |-> [host |-> host], annotations |-> NoStrings,
     fingerprint |-> Absent, valueString |-> Absent, generatorUrl |-> "no_rule",
     silenceUrl |-> Absent, dashboardUrl |-> Absent, scalars |-> NoStrings]

SigNozBodyOf(status, common, alerts) ==
    [typed |-> TRUE, status |-> status, commonLabels |-> common, commonAnnotations |-> NoStrings,
     groupLabels |-> NoStrings, groupKey |-> Absent, externalUrl |-> Absent,
     scalars |-> NoStrings, alerts |-> alerts]

SigNozAlert(id, status, labels, url) ==
    [id |-> id, status |-> status, labels |-> labels, annotations |-> NoStrings,
     fingerprint |-> Absent, generatorUrl |-> url]

Task ==
    ("version" :> "1") @@ ("test" :> "false") @@ ("alert" :> "object") @@ ("event" :> "object")
    @@ ("condition" :> "object") @@ ("task" :> "object") @@ ("report" :> "object")
    @@ ("alert.id" :> "al") @@ ("alert.name" :> "scan") @@ ("alert.method" :> "Webhook")
    @@ ("event.name" :> "Task run status changed") @@ ("event.description" :> "done")
    @@ ("event.status" :> "Done") @@ ("condition.name" :> "Always")
    @@ ("condition.description" :> "null") @@ ("task.id" :> "t1") @@ ("task.name" :> "task")
    @@ ("report.id" :> "rep1") @@ ("report.format" :> "null") @@ ("report.content" :> "null")

SecInfo ==
    [path \in DOMAIN Task \ {"event.status"} |->
        IF path \in {"task.id", "task.name", "report.id"} THEN "null"
        ELSE IF path = "event.name" THEN "New SecInfo arrived" ELSE Task[path]]
    @@ ("secinfo" :> "object") @@ ("secinfo.type" :> "nvt") @@ ("secinfo.count" :> "2")
    @@ ("secinfo.list" :> "nvt-1")

GvmdBodyOf(id, fields) == [id |-> id, fields |-> fields]

Embedded ==
    ("report.format" :> "PDF") @@ ("report.content_type" :> "application/pdf")
    @@ ("report.encoding" :> "base64") @@ ("report.size" :> "9") @@ ("report.truncated" :> "true")
    @@ Task

N8nAlert(id, fingerprint, title) ==
    [id |-> id, typed |-> TRUE, status |-> "firing", severity |-> Absent, title |-> title,
     body |-> Absent, fingerprint |-> fingerprint, groupKey |-> "flow", labels |-> NoStrings,
     annotations |-> NoStrings, links |-> <<>>, scalars |-> NoStrings]

Scalars(status) == ("/status" :> status) @@ ("/title" :> "rows") @@ ("/fp" :> "q1")

CloudBody ==
    [specHeader |-> FALSE, parses |-> TRUE, specversion |-> "1.0", id |-> "o1", source |-> "bus",
     type |-> "alert", data |-> "json", dataType |-> Absent, alert |-> "c1",
     scalars |-> ("/status" :> "firing") @@ ("/title" :> "bus") @@ ("/id" :> "o1")
                 @@ ("/source" :> "bus") @@ ("/url" :> "composite")]

CloudRequest(contentType, body) ==
    [Request("cloud", Absent, body, {body.alert}) EXCEPT !.contentType = contentType]

MCGrafanaRequests ==
    [graf_fires |-> Request("grafana", "graf",
        GrafanaBodyOf(<<GrafanaAlert("ga", "firing", "a"), GrafanaAlert("gb", "firing", "b")>>),
        {"ga", "gb"}),
     graf_resolves |-> Request("grafana", "graf",
        [GrafanaBodyOf(<<GrafanaAlert("ga2", "resolved", "a")>>) EXCEPT !.status = "resolved"],
        {"ga2"}),
     graf_own |-> Request("grafana", "graf",
        GrafanaBodyOf(<<[GrafanaAlert("go", "firing", "c") EXCEPT !.fingerprint = "f"]>>),
        {"go"}),
     graf_other_point |-> Request("grafana", "graf",
        [GrafanaBodyOf(<<GrafanaAlert("ga3", "firing", "a"),
                         [GrafanaAlert("go2", "resolved", "c") EXCEPT !.fingerprint = "f"]>>)
            EXCEPT !.receiver = "backup", !.groupKey = "key2"], {"ga3", "go2"}),
     graf_group |-> Request("grafana", "graf", GrafanaBodyOf(<<>>), {"group"}),
     graf_other_org |-> Request("grafana", "graf",
        [GrafanaBodyOf(<<GrafanaAlert("gc", Absent, "a")>>) EXCEPT !.orgId = "2"], {"gc"}),
     graf_token |-> Request("grafana", "server", GrafanaBodyOf(<<>>), {"group"}),
     graf_typed |-> Request("grafana", "graf", [GrafanaBodyOf(<<>>) EXCEPT !.typed = FALSE],
        {"group"})]

MCSigNozRequests ==
    [rules |-> Request("alerts", "server",
        SigNozBodyOf("firing", [severity |-> "warning"],
            <<SigNozAlert("s1", "firing", [ruleId |-> "r1"], Absent),
              SigNozAlert("s2", "firing", [severity |-> "critical"], "rule_r2"),
              SigNozAlert("s3", Absent, [ruleId |-> "r1"], Absent)>>),
        {"s1", "s2", "s3"}),
     one_rule |-> Request("alerts", "server",
        SigNozBodyOf("resolved", [severity |-> "critical", ruleId |-> "r2"],
            <<SigNozAlert("s4", "resolved", NoStrings, Absent)>>), {"s4"}),
     half_rule |-> Request("alerts", "server",
        SigNozBodyOf("firing", [ruleId |-> "r1"],
            <<SigNozAlert("s5", "firing", NoStrings, "no_rule"),
              SigNozAlert("s6", "firing", NoStrings, "rule_r2")>>), {"s5", "s6"}),
     no_token |-> Request("alerts", Absent, SigNozBodyOf("firing", NoStrings, <<>>), {}),
     no_json |-> [Request("alerts", "server", SigNozBodyOf("firing", NoStrings, <<>>), {})
                    EXCEPT !.json = FALSE],
     default_path |-> Request("signoz", Absent,
        SigNozBodyOf("firing", NoStrings,
            <<SigNozAlert("s7", "firing", [rule_id |-> "r3"], Absent)>>), {"s7"}),
     large |-> [Request("signoz", Absent, SigNozBodyOf("firing", NoStrings, <<>>), {})
                    EXCEPT !.size = 5],
     own_path |-> [Request("x", Absent,
        SigNozBodyOf("firing", NoStrings, <<SigNozAlert("s8", "firing", NoStrings, Absent)>>),
                           {"s8"}) EXCEPT !.path = <<"hook">>]]

MCOtherRequests ==
    [scan |-> Request("gvmd", "scan", GvmdBodyOf("v1", Task), {"v1"}),
     next_report |-> Request("gvmd", "scan",
        GvmdBodyOf("v2", ("report.id" :> "rep2") @@ Embedded), {"v2"}),
     sec_info |-> Request("gvmd", "scan", GvmdBodyOf("v3", SecInfo), {"v3"}),
     bad_scan |-> Request("gvmd", "scan",
        GvmdBodyOf("v4", ("secinfo" :> "object") @@ Task), {"v4"}),
     bad_media |-> [Request("gvmd", "scan", GvmdBodyOf("v1", Task), {"v1"})
                        EXCEPT !.contentType = "text/plain"],
     flow |-> Request("n8n", Absent,
        [form |-> "batch", alerts |-> <<N8nAlert("n1", "x", "x"), N8nAlert("n2", "y", "y")>>],
        {"n1", "n2"}),
     bad_flow |-> Request("n8n", Absent,
        [form |-> "batch", alerts |-> <<N8nAlert("n1", "x", "x"), N8nAlert("n2", "y", " ")>>],
        {"n1", "n2"}),
     mapped |-> Request("generic", Absent, [id |-> "m1", scalars |-> Scalars("firing")], {"m1"}),
     bad_mapped |-> Request("generic", Absent, [id |-> "m2", scalars |-> Scalars("composite")],
                            {"m2"}),
     occurrence |-> CloudRequest("application/cloudevents+json", CloudBody),
     binary |-> CloudRequest("application/json", [CloudBody EXCEPT !.specHeader = TRUE]),
     bad_version |-> CloudRequest("application/cloudevents+json",
                                  [CloudBody EXCEPT !.specversion = "0.3"]),
     bad_data |-> CloudRequest("application/cloudevents+json",
                               [CloudBody EXCEPT !.data = "text"]),
     unknown |-> Request("nowhere", Absent, SigNozBodyOf("firing", NoStrings, <<>>), {})]

MCRequests == MCGrafanaRequests @@ MCSigNozRequests @@ MCOtherRequests

(* The alerts of a source that repeat one another; the alerts of a SigNoz  *)
(* rule are one, and one without a rule has no identity of its own.        *)
MCIdentity ==
    [ga |-> "a", ga2 |-> "a", ga3 |-> "a", gb |-> "b", gc |-> "c", go |-> "o", go2 |-> "o",
     group |-> "group",
     s1 |-> "r1", s3 |-> "r1", s5 |-> "r1", s2 |-> "r2", s4 |-> "r2", s6 |-> "r2", s7 |-> "r3",
     s8 |-> Absent, v1 |-> "v1", v2 |-> "v2", v3 |-> "v3", n1 |-> "n1", n2 |-> "n2",
     m1 |-> "m1", c1 |-> "c1"]

(* A pair of n8n events is too large for the contract.                     *)
MCWeight == [alert \in DOMAIN MCIdentity |-> IF alert \in {"n1", "n2"} THEN 130 ELSE 1]

(* A hypothesis of the proofs, about the files and the requests alone.     *)
ASSUME MCAlertsAreListed == RequestsListTheirAlerts
==============================================================================
