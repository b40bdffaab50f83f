---------------------------- MODULE AlertInputs -----------------------------
(***************************************************************************)
(* What each integration makes of a request body: the canonical events, or *)
(* a refusal.  A body is a record of the fields its normalizer reads; the  *)
(* flat ones (Generic JSON, CloudEvents, gvmd) map JSON pointers to        *)
(* values.  "typed" says that every field has the type the body's struct   *)
(* declares.  Every alert of a body has an id, what the source knows it    *)
(* by; no normalizer reads it, it only travels with the alert.             *)
(***************************************************************************)
EXTENDS AlertEvents, SequencesExt

CONSTANTS
    QueryOf,     \* of a URL: its parameters, names and values, in order
    GroupLabelsOf \* of an Alertmanager group key: its labels, in order

Raw(alerts, scalars) == [alerts |-> alerts, scalars |-> scalars]

IdsOf(alerts) == {alerts[i].id : i \in DOMAIN alerts}
----------------------------------------------------------------------------
(* Grafana: one event for each alert, or one for the group if it lists     *)
(* none.                                                                   *)

GrafanaStatus(p, own) ==
    FirstPresent(<<
        NonBlank(own), NonBlank(p.status),
        CASE p.state = "alerting" -> "firing"
          [] p.state = "ok"       -> "resolved"
          [] OTHER                -> NonBlank(p.state),
        "unknown">>)

GroupLabels(p) == Extended(p.groupLabels, p.commonLabels)

WithReceiverAndOrg(p, labels) ==
    With(With(labels, "grafana_receiver", p.receiver), "grafana_org_id", p.orgId)

WithGroupContext(p, labels) ==
    With(With(With(WithReceiverAndOrg(p, labels),
              "grafana_group_key", p.groupKey),
         "grafana_version", p.version),
    "grafana_truncated_alerts", p.truncated)

(* Mutant of IdentityLabels: the labels of the event, the status among     *)
(* them.                                                                   *)
LabelsWithStatus(p, alert) ==
    With(Extended(GroupLabels(p), alert.labels),
         "grafana_instance_status", NonEmpty(alert.status))

(* What an alert is known by: its labels, without the status among them.   *)
IdentityLabels(p, alert) ==
    LET labels == Extended(GroupLabels(p), alert.labels)
    IN  [name \in DOMAIN labels \ {"grafana_instance_status"} |-> labels[name]]

MergedLabels(p, alert) ==
    With(WithGroupContext(p, Extended(GroupLabels(p), alert.labels)),
         "grafana_instance_status", NonEmpty(alert.status))

MergedAnnotations(p, alert) ==
    Extended(p.commonAnnotations, alert.annotations)

StableFingerprint(integration, kind, groupKey, labels) ==
    <<"grafana", integration, kind, Or(groupKey, ""), labels>>

(* The organisation is part of the namespace: two of them may use the same *)
(* fingerprint.                                                            *)
GrafanaNamespace(integration, orgId) ==
    IF orgId = Absent THEN Namespace(integration)
                      ELSE Append(Namespace(integration), orgId)

GrafanaTitle(labels, fallback) ==
    FirstPresent(<<Get(labels, "alertname"), Get(labels, "rule_name"),
                   NonEmpty(fallback), "Grafana alert">>)

GrafanaBody(annotations, fallback) ==
    FirstPresent(<<Get(annotations, "summary"), Get(annotations, "description"),
                   NonEmpty(fallback)>>)

LinksTo(urls) == SelectSeq(urls, LAMBDA u : u \notin {Absent, ""})

GrafanaEvent(integration, p, status, labels, annotations, fingerprint, raw, urls) ==
    [NewEvent(integration, "grafana", status, Or(Get(labels, "severity"), "unknown"),
              GrafanaTitle(labels, p.title), fingerprint, raw)
        EXCEPT !.group_namespace = GrafanaNamespace(integration, p.orgId),
               !.notification_group_key = GroupKey(p.groupKey),
               !.body = GrafanaBody(annotations, p.message),
               !.labels = labels,
               !.annotations = annotations,
               !.links = LinksTo(urls)]

GrafanaAlertEvent(integration, p, alert) ==
    GrafanaEvent(integration, p, GrafanaStatus(p, alert.status),
        MergedLabels(p, alert),
        With(MergedAnnotations(p, alert), "grafana_value_string", NonEmpty(alert.valueString)),
        IF Blank(alert.fingerprint)
        THEN StableFingerprint(integration, "alert", p.groupKey, IdentityLabels(p, alert))
        ELSE Given(alert.fingerprint),
        Raw({alert.id}, Extended(p.scalars, alert.scalars)),
        <<p.externalUrl, alert.generatorUrl, alert.silenceUrl, alert.dashboardUrl>>)

GrafanaGroupEvent(integration, p) ==
    GrafanaEvent(integration, p, GrafanaStatus(p, Absent),
        WithGroupContext(p, GroupLabels(p)), p.commonAnnotations,
        IF p.groupKey # Absent THEN Given(p.groupKey)
        ELSE StableFingerprint(integration, "group", Absent,
                               WithReceiverAndOrg(p, GroupLabels(p))),
        Raw({p.id}, p.scalars),
        <<p.externalUrl>>)

NormalizeGrafana(integration, p) ==
    IF ~p.typed THEN Malformed
    ELSE IF p.alerts = <<>> THEN Normalized(<<GrafanaGroupEvent(integration, p)>>)
    ELSE Normalized([i \in DOMAIN p.alerts |-> GrafanaAlertEvent(integration, p, p.alerts[i])])
----------------------------------------------------------------------------
(* SigNoz and Alertmanager: one event for each alert rule.                 *)

RuleNames == <<"ruleId", "rule_id">>
SourceNames == <<"ruleSource", "source", "source_url">>
SeverityNames == <<"severity", "threshold.name">>

RuleInUrl(url) ==
    LET rules == IF url = Absent THEN <<>>
                 ELSE SelectSeq(QueryOf[url], LAMBDA q : q[1] = "ruleId")
    IN  IF rules = <<>> THEN Absent ELSE NonEmpty(Head(rules)[2])

RuleInGroupKey(key) ==
    LET rules == IF key = Absent THEN <<>>
                 ELSE SelectSeq(GroupLabelsOf[key], LAMBDA l : l[1] \in {"ruleId", "rule_id"})
    IN  IF rules = <<>> THEN Absent ELSE NonEmpty(Head(rules)[2])

UrlLabel(labels) == ValueOf(labels, Append(SourceNames, "generatorURL"))

AlertRule(alert) ==
    FirstPresent(<<ValueOf(alert.labels, RuleNames), ValueOf(alert.annotations, RuleNames),
                   RuleInUrl(UrlLabel(alert.labels)), RuleInUrl(alert.generatorUrl)>>)

CommonRule(p) ==
    FirstPresent(<<ValueOf(p.commonLabels, RuleNames), ValueOf(p.groupLabels, RuleNames),
                   ValueOf(p.commonAnnotations, RuleNames), RuleInGroupKey(p.groupKey),
                   RuleInUrl(UrlLabel(p.commonLabels))>>)

(* The first value the alerts of a body have for what the function gives.  *)
FirstOfAlerts(p, Value(_)) == FirstPresent([i \in DOMAIN p.alerts |-> Value(p.alerts[i])])

AlertSource(alert) == Or(alert.generatorUrl, ValueOf(alert.labels, SourceNames))

SourceUrl(p) ==
    FirstPresent(<<UrlLabel(p.commonLabels), FirstOfAlerts(p, AlertSource), p.externalUrl>>)

RuleId(p) ==
    FirstPresent(<<CommonRule(p), RuleInUrl(SourceUrl(p)), FirstOfAlerts(p, AlertRule)>>)

(* The entries every one of the maps shares join the common ones.          *)
GroupedCommon(common, maps) ==
    LET shared == {name \in DOMAIN maps[1] :
                      \A i \in DOMAIN maps : Get(maps[i], name) = maps[1][name]}
    IN  Extended(common, [name \in shared |-> maps[1][name]])

RuleOfAlert(p, alert) == Or(AlertRule(alert), CommonRule(p))

(* The body reduced to the alerts of one rule.                             *)
RuleGroup(p, rule) ==
    LET alerts == Kept(p.alerts, {i \in DOMAIN p.alerts : RuleOfAlert(p, p.alerts[i]) = rule})
    IN  [p EXCEPT
            !.alerts = alerts,
            !.commonLabels = With(GroupedCommon(p.commonLabels,
                                     [i \in DOMAIN alerts |-> alerts[i].labels]),
                                  "ruleId", rule),
            !.commonAnnotations = GroupedCommon(p.commonAnnotations,
                                     [i \in DOMAIN alerts |-> alerts[i].annotations])]

(* The groups come in the order of their rules; any fixed order will do.   *)
RuleGroups(p) ==
    LET rules == {RuleOfAlert(p, p.alerts[i]) : i \in DOMAIN p.alerts}
        order == SetToSeq(rules)
    IN  IF Len(p.alerts) <= 1 \/ Cardinality(rules) <= 1 THEN <<p>>
        ELSE [i \in DOMAIN order |-> RuleGroup(p, order[i])]

SigNozName(p) ==
    LET Named(alert) == ValueOf(alert.labels, <<"alertname", "alert">>)
    IN  FirstPresent(<<ValueOf(p.commonLabels, <<"alertname", "alert">>),
                       FirstOfAlerts(p, Named), "SigNoz alert">>)

InstanceSeverity(p, alert) ==
    FirstPresent(<<ValueOf(alert.labels, SeverityNames), ValueOf(p.commonLabels, SeverityNames),
                   "unknown">>)

(* The worst severity of the alerts, unknown names last.                   *)
SigNozSeverity(p) ==
    LET severities == IF p.alerts = <<>>
                      THEN {Or(ValueOf(p.commonLabels, SeverityNames), "unknown")}
                      ELSE {InstanceSeverity(p, p.alerts[i]) : i \in DOMAIN p.alerts}
        known == SelectSeq(<<"critical", "error", "warning", "warn", "info", "unknown">>,
                           LAMBDA s : s \in severities)
    IN  IF known = <<>> THEN CHOOSE s \in severities : TRUE ELSE Head(known)

SigNozFingerprint(p) ==
    LET Own(alert) == alert.fingerprint
        known == FirstPresent(<<RuleId(p), FirstOfAlerts(p, Own), p.groupKey>>)
    IN  IF known # Absent THEN Given(known)
        ELSE <<"signoz", SigNozName(p), Or(p.status, "unknown")>>

SummaryOf(annotations) == Or(Get(annotations, "summary"), Get(annotations, "description"))

SigNozBody(p) ==
    LET Summary(alert) == Get(alert.annotations, "summary")
        Description(alert) == Get(alert.annotations, "description")
    IN  FirstPresent(<<Get(p.commonAnnotations, "summary"), FirstOfAlerts(p, Summary),
                       Get(p.commonAnnotations, "description"), FirstOfAlerts(p, Description)>>)

SourceLink(url) == IF url = Absent THEN <<>> ELSE <<url>>

SigNozInstance(p, alert) ==
    [alert       |-> alert.id,
     status      |-> FirstPresent(<<alert.status, p.status, "unknown">>),
     severity    |-> InstanceSeverity(p, alert),
     title       |-> SigNozName(p),
     body        |-> SummaryOf(Extended(p.commonAnnotations, alert.annotations)),
     labels      |-> Extended(GroupLabels(p), alert.labels),
     links       |-> SourceLink(FirstPresent(<<AlertSource(alert),
                                               ValueOf(p.commonLabels, SourceNames),
                                               p.externalUrl>>)),
     fingerprint |-> alert.fingerprint]

SigNozEvent(integration, p) ==
    [NewEvent(integration, "signoz", Or(p.status, "unknown"), SigNozSeverity(p), SigNozName(p),
              SigNozFingerprint(p), Raw(IdsOf(p.alerts), p.scalars))
        EXCEPT !.body = SigNozBody(p),
               !.labels = GroupLabels(p),
               !.annotations = IF p.alerts = <<>> THEN p.commonAnnotations
                               ELSE Extended(p.alerts[1].annotations, p.commonAnnotations),
               !.notification_group_key = GroupKey(RuleId(p)),
               !.instances = [i \in DOMAIN p.alerts |-> SigNozInstance(p, p.alerts[i])],
               !.links = SourceLink(SourceUrl(p))]

NormalizeSigNoz(integration, p) ==
    IF ~p.typed THEN Malformed
    ELSE LET ruled == RuleGroups(p)
         IN  Normalized([i \in DOMAIN ruled |-> SigNozEvent(integration, ruled[i])])
----------------------------------------------------------------------------
(* gvmd's generic webhook, version 1: a flat map of paths, where an object *)
(* is "object", a JSON null "null", and a value of another type than the   *)
(* field's "wrong".                                                        *)

GvmdField(p, path) ==
    IF path \notin DOMAIN p \/ p[path] = "null" THEN Absent ELSE p[path]

RequiredObject(p, path) == Get(p, path) = "object"
Required(p, path) == Get(p, path) \notin {Absent, "null", "wrong"}
RequiredNullable(p, path) == Get(p, path) \notin {Absent, "wrong"}
Optional(p, path) == Get(p, path) \notin {"null", "wrong"}
OptionalNullable(p, path) == Get(p, path) # "wrong"

Embedding == {"report.content_type", "report.encoding", "report.size"}

ReportIsValid(p) ==
    LET embedded == Embedding \cap DOMAIN p
        truncated == "report.truncated" \in DOMAIN p
    IN  /\ RequiredObject(p, "report")
        /\ \A path \in {"report.id", "report.format", "report.content"} :
              RequiredNullable(p, path)
        /\ OptionalNullable(p, "report.content_type")
        /\ \A path \in {"report.encoding", "report.size", "report.truncated"} :
              Optional(p, path)
        /\ embedded \in {{}, Embedding}
        /\ truncated => embedded = Embedding /\ p["report.truncated"] = "true"
        /\ embedded = Embedding =>
              /\ p["report.encoding"] = "base64"
              /\ GvmdField(p, "report.format") # Absent
              /\ truncated <=> GvmdField(p, "report.content") = Absent

GvmdSlug ==
    "Task run status changed" :> "task_run_status_changed"
    @@ "New SecInfo arrived" :> "secinfo_new"
    @@ "Updated SecInfo arrived" :> "secinfo_updated"

IsTask(p) == p["event.name"] = "Task run status changed"

TaskIsValid(p) ==
    /\ "secinfo" \notin DOMAIN p
    /\ Required(p, "event.status")
    /\ ~Blank(p["event.status"])

SecInfoIsValid(p) ==
    /\ "event.status" \notin DOMAIN p
    /\ \A path \in {"task.id", "task.name", "report.id", "report.format", "report.content"} :
          GvmdField(p, path) = Absent
    /\ (Embedding \cup {"report.truncated"}) \cap DOMAIN p = {}
    /\ RequiredObject(p, "secinfo")
    /\ RequiredNullable(p, "secinfo.type")
    /\ Required(p, "secinfo.count")
    /\ RequiredNullable(p, "secinfo.list")

GvmdIsValid(p) ==
    /\ Get(p, "version") = "1"
    /\ Required(p, "test")
    /\ \A path \in {"alert", "event", "condition", "task"} : RequiredObject(p, path)
    /\ \A path \in {"alert.id", "alert.name", "event.description", "condition.name",
                     "condition.description", "task.id", "task.name"} :
          RequiredNullable(p, path)
    /\ Get(p, "alert.method") = "Webhook"
    /\ Get(p, "event.name") \in DOMAIN GvmdSlug
    /\ ReportIsValid(p)
    /\ IF IsTask(p) THEN TaskIsValid(p) ELSE SecInfoIsValid(p)

CommonIdentity(p) ==
    <<GvmdSlug[p["event.name"]], p["test"]>>
    \o [i \in 1 .. 4 |-> GvmdField(p, <<"alert.id", "alert.name", "condition.name",
                                      "condition.description">>[i])]

(* Events of one key are sent together: a task's reports share it.         *)
GvmdGroupKey(p) ==
    <<"gvmd">> \o CommonIdentity(p)
    \o IF IsTask(p) THEN <<GvmdField(p, "task.id"), GvmdField(p, "task.name")>>
       ELSE <<GvmdField(p, "secinfo.type")>>

GvmdFingerprint(p) ==
    IF IsTask(p) THEN Append(GvmdGroupKey(p), GvmdField(p, "report.id"))
    ELSE GvmdGroupKey(p)

(* The non-blank fields among the paths, under the names they go by.       *)
NonBlankFields(p, paths) ==
    LET there == {name \in DOMAIN paths : ~Blank(GvmdField(p, paths[name]))}
    IN  [name \in there |-> GvmdField(p, paths[name])]

GvmdLabelPaths ==
    [gvmd_alert_id |-> "alert.id", gvmd_task_id |-> "task.id",
     gvmd_report_id |-> "report.id", gvmd_task_status |-> "event.status",
     gvmd_secinfo_type |-> "secinfo.type", gvmd_secinfo_count |-> "secinfo.count",
     gvmd_test |-> "test"]

GvmdAnnotationPaths ==
    [gvmd_alert_name |-> "alert.name", gvmd_event_description |-> "event.description",
     gvmd_condition_name |-> "condition.name",
     gvmd_condition_description |-> "condition.description",
     gvmd_task_name |-> "task.name", gvmd_report_format |-> "report.format",
     gvmd_report_content_type |-> "report.content_type",
     gvmd_report_encoding |-> "report.encoding", gvmd_report_size |-> "report.size",
     gvmd_report_truncated |-> "report.truncated"]

(* The text is the description, the detail, or the two of them joined.     *)
GvmdBody(p) ==
    FirstPresent(<<NonBlank(GvmdField(p, "event.description")),
                   IF IsTask(p) THEN p["event.status"]
                                ELSE NonBlank(GvmdField(p, "secinfo.list"))>>)

GvmdEvent(integration, p, id, scalars) ==
    [NewEvent(integration, "gvmd", "firing", "unknown",
              Or(NonBlank(GvmdField(p, "alert.name")), p["event.name"]),
              GvmdFingerprint(p), Raw({id}, scalars))
        EXCEPT !.body = GvmdBody(p),
               !.notification_group_key = GvmdGroupKey(p),
               !.labels = With(NonBlankFields(p, GvmdLabelPaths),
                               "gvmd_event_kind", GvmdSlug[p["event.name"]]),
               !.annotations = NonBlankFields(p, GvmdAnnotationPaths)]

NormalizeGvmd(integration, p) ==
    IF GvmdIsValid(p.fields)
    THEN Normalized(<<GvmdEvent(integration, p.fields, p.id, p.fields)>>)
    ELSE Malformed
----------------------------------------------------------------------------
(* n8n: one event, or a non-empty batch of them; one that is malformed     *)
(* spoils the batch.                                                       *)

N8nIsValid(alert) ==
    alert.typed /\ ~Blank(alert.status) /\ ~Blank(alert.title) /\ ~Blank(alert.fingerprint)

N8nEvent(integration, alert) ==
    [NewEvent(integration, "n8n", alert.status, Or(NonBlank(alert.severity), "unknown"),
              alert.title, Given(alert.fingerprint), Raw({alert.id}, alert.scalars))
        EXCEPT !.body = alert.body,
               !.notification_group_key = GroupKey(alert.groupKey),
               !.labels = alert.labels,
               !.annotations = alert.annotations,
               !.links = alert.links]

(* A body of the form "one" is the event itself.                           *)
NormalizeN8n(integration, p) ==
    IF /\ p.form \in {"one", "batch"}
       /\ p.alerts # <<>>
       /\ \A i \in DOMAIN p.alerts : N8nIsValid(p.alerts[i])
    THEN Normalized([i \in DOMAIN p.alerts |-> N8nEvent(integration, p.alerts[i])])
    ELSE Malformed
----------------------------------------------------------------------------
(* Generic JSON and CloudEvents: a mapping names the pointer of each field *)
(* in a flat body, where an object, an array or a null is "composite".     *)

MappedString(scalars, path) ==
    LET value == IF path = Absent THEN Absent ELSE Get(scalars, path)
    IN  IF value = "composite" THEN Absent ELSE value

MappedStrings(scalars, paths) ==
    LET there == {name \in DOMAIN paths : MappedString(scalars, paths[name]) # Absent}
    IN  [name \in there |-> MappedString(scalars, paths[name])]

MappedEvent(integration, source, mapping, id, scalars) ==
    [NewEvent(integration, source, MappedString(scalars, mapping.status),
              Or(MappedString(scalars, mapping.severity), "unknown"),
              MappedString(scalars, mapping.title),
              Given(MappedString(scalars, mapping.fingerprint)), Raw({id}, scalars))
        EXCEPT !.body = MappedString(scalars, mapping.body),
               !.notification_group_key = GroupKey(MappedString(scalars, mapping.groupKey)),
               !.labels = MappedStrings(scalars, mapping.labels),
               !.annotations = MappedStrings(scalars, mapping.annotations),
               !.links = SelectSeq([i \in DOMAIN mapping.links |->
                                       MappedString(scalars, mapping.links[i])],
                                   LAMBDA url : url # Absent)]

NormalizeMapped(integration, source, mapping, id, scalars) ==
    IF \E path \in {mapping.status, mapping.title, mapping.fingerprint} :
          MappedString(scalars, path) = Absent
    THEN Malformed
    ELSE Normalized(<<MappedEvent(integration, source, mapping, id, scalars)>>)

JsonMedia == {"application/json", "text/json", "application/vnd.other+json"}
StructuredMedia == "application/cloudevents+json"
BatchMedia == "application/cloudevents-batch+json"

IsJson(media) == media \in JsonMedia \cup {StructuredMedia}

(* An event in structured or binary mode; the SDK parses the message.      *)
MediaIsSupported(contentType, ce) ==
    \/ contentType = StructuredMedia
    \/ ce.specHeader /\ contentType # BatchMedia /\ IsJson(contentType)

CloudEventIsValid(ce) ==
    ce.parses /\ ce.specversion = "1.0" /\ "" \notin {ce.id, ce.source, ce.type}

DataIsJson(ce) == ce.data # "none" => Or(ce.dataType, "application/json") \in JsonMedia
DataParses(ce) == ce.data # "bytes"

(* The attributes and the data, by pointer.                                *)
Envelope(ce) ==
    Extended(ce.scalars, [id |-> ce.id, source |-> ce.source, type |-> ce.type,
                          specversion |-> ce.specversion])

(* A redelivery of the same occurrence has the same event id.              *)
OccurrenceId(ce) == <<"cloudevents", ce.source, ce.id>>

CloudEventCode(contentType, ce) ==
    IF ~MediaIsSupported(contentType, ce) THEN 415
    ELSE IF ~CloudEventIsValid(ce) THEN 400
    ELSE IF ~DataIsJson(ce) \/ ce.data = "text" THEN 415
    ELSE IF ~DataParses(ce) THEN 400
    ELSE 202

NormalizeCloudEvent(integration, mapping, ce) ==
    LET result == NormalizeMapped(integration, ce.source, mapping, ce.alert, Envelope(ce))
    IN  [result EXCEPT !.events =
            [i \in DOMAIN @ |-> [@[i] EXCEPT !.event_id = OccurrenceId(ce)]]]
============================================================================
