--------------------------- MODULE AlertRendering ---------------------------
(***************************************************************************)
(* What a receiver is sent for an event, or for a batch of events: the     *)
(* receiver's templates, the built-in messages, the limits on both, and    *)
(* which failures are final.  A template is a record: what it needs of the *)
(* event, how long its output is (some for itself, some for each alert),   *)
(* and what JSON it makes.  A message is its top-level fields with their   *)
(* types, the alerts it names, and its size.  Sizes are in KiB.            *)
(***************************************************************************)
EXTENDS ProxyConfig, FiniteSetsExt

CONSTANTS
    Weight,       \* of an alert: what its fields add to a message's JSON
    DiscordLines  \* how many instance lines 3500 characters hold

TitleLimit == 4

ByteLimit(kind) ==
    CASE kind = "google_chat" -> 32
      [] kind \in {"slack", "mattermost"} -> 40
      [] kind = "discord" -> 16
      [] kind = "matrix" -> 64
      [] kind \in PayloadOnlyKinds -> 256

ShapeIsValid(kind, fields) ==
    CASE kind \in PayloadOnlyKinds -> TRUE
      [] kind = "google_chat" -> fields \cap {<<"text", "string">>, <<"cardsV2", "array">>} # {}
      [] kind \in {"slack", "mattermost"} ->
            fields \cap {<<"text", "string">>, <<"blocks", "array">>} # {}
      [] kind = "discord" ->
            fields \cap {<<"content", "string">>, <<"embeds", "array">>} # {}
      [] kind = "matrix" -> {<<"msgtype", "string">>, <<"body", "string">>} \subseteq fields

(* A payload without template syntax is checked when it is compiled.       *)
StaticPayloadIsValid(kind, tpl) ==
    tpl.static =>
        tpl.json /\ tpl.object /\ ShapeIsValid(kind, tpl.fields) /\ tpl.size <= ByteLimit(kind)

TemplateCompiles(kind, template) ==
    \A field \in FieldsOf(template) :
        LET tpl == template[field][1]
        IN  /\ tpl.source <= MaxTemplateSource
            /\ field = "payload" => StaticPayloadIsValid(kind, tpl)
            /\ tpl.syntax

TemplatesCompile(receivers) ==
    \A name \in DOMAIN receivers : \A i \in DOMAIN receivers[name].template :
        TemplateCompiles(receivers[name].kind, receivers[name].template[i])
----------------------------------------------------------------------------
(* A batch is the sequence of its events.  The alerts it stands for: the   *)
(* instances of each event, or the event itself if it lists none.          *)
InstancesOf(event) ==
    IF event.instances = <<>> THEN {<<"event", event.event_id>>}
    ELSE {<<"instance", event.instances[i].alert>> : i \in DOMAIN event.instances}

(* Mutant of FlattenedInstances: the first event's stand for all.          *)
PrimaryInstances(batch) == InstancesOf(batch[1])

FlattenedInstances(batch) == UNION {InstancesOf(batch[i]) : i \in DOMAIN batch}

InstanceCount(batch) ==
    SumFunction([i \in DOMAIN batch |-> Max({1, Len(batch[i].instances)})])

(* What the events come to when all their fields are written out.          *)
EventSize(event) == SumFunction([alert \in event.raw_payload.alerts |-> Weight[alert]])
BatchSize(batch) == SumFunction([i \in DOMAIN batch |-> EventSize(batch[i])])
----------------------------------------------------------------------------
Failed(reason) == [failed |-> reason]
HasFailed(result) == "failed" \in DOMAIN result

(* A template may use what the event has: anything else is an error, as is *)
(* the group of an event that is sent on its own.                          *)
IsDefined(need, batch, grouped) ==
    CASE need = <<"group">> -> grouped
      [] need[1] = "label" -> need[2] \in DOMAIN batch[1].labels
      [] need[1] = "annotation" -> need[2] \in DOMAIN batch[1].annotations

(* A template without syntax is its own output.                            *)
RenderedSize(tpl, batch) ==
    IF tpl.static THEN tpl.size ELSE tpl.size + tpl.each * InstanceCount(batch)

(* Why a template gives no output, if it does not.                         *)
RenderFault(tpl, batch, grouped, limit) ==
    IF \E need \in tpl.needs : ~IsDefined(need, batch, grouped) THEN "template"
    ELSE IF RenderedSize(tpl, batch) > limit THEN "template" ELSE Absent

PayloadFault(kind, tpl, batch, grouped) ==
    FirstPresent(<<RenderFault(tpl, batch, grouped, ByteLimit(kind)),
                   IF tpl.json /\ tpl.object /\ ShapeIsValid(kind, tpl.fields)
                   THEN Absent ELSE "template">>)

(* Why the templates of a receiver cannot be rendered, if they cannot.     *)
TemplateFault(receiver, batch, grouped) ==
    IF receiver.template = <<>> THEN Absent
    ELSE LET template == receiver.template[1]
         IN  FirstPresent(
                [i \in 1 .. 3 |->
                    LET field == <<"title", "body", "payload">>[i]
                    IN  IF template[field] = <<>> THEN Absent
                        ELSE CASE field = "title" ->
                                    RenderFault(template.title[1], batch, grouped, TitleLimit)
                               [] field = "body" ->
                                    RenderFault(template.body[1], batch, grouped,
                                                ByteLimit(receiver.kind))
                               [] field = "payload" ->
                                    PayloadFault(receiver.kind, template.payload[1], batch, grouped)])

HasField(receiver, field) ==
    receiver.template # <<>> /\ receiver.template[1][field] # <<>>

PartSize(receiver, field, batch) ==
    IF HasField(receiver, field)
    THEN RenderedSize(receiver.template[1][field][1], batch) ELSE 0
----------------------------------------------------------------------------
Message(fields, names, size) == [fields |-> fields, names |-> names, size |-> size]

Card == {<<"cardsV2", "array">>}
Text == {<<"text", "string">>}
Embed == {<<"content", "string">>, <<"embeds", "array">>}
Notice == {<<"msgtype", "string">>, <<"body", "string">>, <<"format", "string">>,
           <<"formatted_body", "string">>}
ChatFields(kind) == IF kind = "discord" THEN Embed ELSE Text

Itself(event) == {<<"event", event.event_id>>}

TemplatedSize(receiver, batch) ==
    PartSize(receiver, "title", batch) + PartSize(receiver, "body", batch)

(* The card of one event shows its fields, the card of a batch one line    *)
(* for each instance; a body template comes on top of either.              *)
CardOfEvent(receiver, batch) ==
    Message(Card, Itself(batch[1]), EventSize(batch[1]) + TemplatedSize(receiver, batch))
CardOfBatch(receiver, batch) ==
    Message(Card, FlattenedInstances(batch), TemplatedSize(receiver, batch))

(* In a chat the body template replaces the event's text or the lines.     *)
ChatEvent(receiver, batch) ==
    Message(ChatFields(receiver.kind),
            IF receiver.template = <<>> THEN Itself(batch[1]) ELSE {},
            TemplatedSize(receiver, batch))

ChatBatch(receiver, batch) ==
    LET cut == receiver.kind = "discord" /\ receiver.template = <<>>
               /\ InstanceCount(batch) > DiscordLines
    IN  Message(ChatFields(receiver.kind),
                IF HasField(receiver, "body") \/ cut THEN {} ELSE FlattenedInstances(batch),
                TemplatedSize(receiver, batch))

MatrixEvent(receiver, batch) ==
    Message(Notice, IF receiver.template = <<>> THEN Itself(batch[1]) ELSE {},
            TemplatedSize(receiver, batch))

MatrixBatch(receiver, batch) ==
    Message(Notice, IF HasField(receiver, "body") THEN {} ELSE FlattenedInstances(batch),
            TemplatedSize(receiver, batch))

(* The webhook contracts carry the events themselves.                      *)
EventObject == {<<"event", "object">>, <<"delivery", "object">>}
BatchObject == {<<"batch", "object">>, <<"events", "array">>, <<"delivery", "object">>}
Contract == {<<"contract", "string">>, <<"kind", "string">>}
CloudEvent == {<<"specversion", "string">>, <<"id", "string">>, <<"source", "string">>,
               <<"type", "string">>, <<"subject", "string">>, <<"data", "object">>}

Whole(fields, batch, grouped) ==
    Message(fields \cup (IF grouped THEN BatchObject ELSE EventObject),
            FlattenedInstances(batch), BatchSize(batch))

N8nMessage(batch, grouped) == Whole(Contract, batch, grouped)

GenericEvent(batch) == Whole({}, batch, FALSE)
GenericBatch(batch) == Whole({}, batch, TRUE)

(* The envelope of a CloudEvent: a payload template replaces its data.     *)
CloudEventMessage(receiver, batch) ==
    IF HasField(receiver, "payload")
    THEN Message(CloudEvent, {}, PartSize(receiver, "payload", batch))
    ELSE Message(CloudEvent, FlattenedInstances(batch), BatchSize(batch))

PayloadMessage(receiver, batch) ==
    Message(receiver.template[1].payload[1].fields, {}, PartSize(receiver, "payload", batch))
----------------------------------------------------------------------------
(* send_receiver_event makes a batch of an event with instances for Google *)
(* Chat alone; send_receiver_batch sends a lone event to a generic webhook *)
(* without a template as an event.                                         *)
IsGrouped(receiver, batch, batched) ==
    CASE receiver.kind = "google_chat" -> batched \/ batch[1].instances # <<>>
      [] receiver.kind = "generic_webhook" ->
            batched /\ (receiver.template # <<>> \/ Len(batch) > 1)
      [] OTHER -> batched

BuiltinMessage(receiver, batch, grouped) ==
    CASE receiver.kind = "google_chat" ->
            IF grouped THEN CardOfBatch(receiver, batch) ELSE CardOfEvent(receiver, batch)
      [] receiver.kind \in ChatKinds ->
            IF grouped THEN ChatBatch(receiver, batch) ELSE ChatEvent(receiver, batch)
      [] receiver.kind = "matrix" ->
            IF grouped THEN MatrixBatch(receiver, batch) ELSE MatrixEvent(receiver, batch)
      [] receiver.kind = "generic_webhook" ->
            IF grouped THEN GenericBatch(batch) ELSE GenericEvent(batch)
      [] receiver.kind = "n8n_webhook" -> N8nMessage(batch, grouped)
      [] receiver.kind = "cloudevents_webhook" -> CloudEventMessage(receiver, batch)

MessageOf(receiver, batch, grouped) ==
    IF HasField(receiver, "payload") /\ receiver.kind # "cloudevents_webhook"
    THEN PayloadMessage(receiver, batch)
    ELSE BuiltinMessage(receiver, batch, grouped)

(* The size of a message without a template is checked for two kinds only. *)
IsMeasured(receiver) ==
    receiver.template # <<>> \/ receiver.kind \in {"n8n_webhook", "cloudevents_webhook"}

(* The secrets that are looked up when a message is about to be sent.      *)
SecretIsThere(receiver) ==
    CASE receiver.kind = "n8n_webhook" ->
            \A i \in DOMAIN receiver.auth :
                /\ receiver.auth[i].env \in DOMAIN Environment
                /\ Environment[receiver.auth[i].env] # ""
      [] receiver.kind = "matrix" ->
            receiver.access_token = Absent =>
                /\ receiver.access_token_env \in DOMAIN Environment
                /\ ~Blank(Environment[receiver.access_token_env])
      [] OTHER -> TRUE

(* What is posted to the target, or why nothing is: these failures are     *)
(* permanent.                                                              *)
Outgoing(receiver, batch, batched) ==
    LET grouped == IsGrouped(receiver, batch, batched)
        fault == TemplateFault(receiver, batch, grouped)
        message == MessageOf(receiver, batch, grouped)
    IN  IF fault # Absent THEN Failed(fault)
        ELSE IF IsMeasured(receiver) /\ message.size > ByteLimit(receiver.kind)
             THEN Failed("size")
        ELSE IF ~SecretIsThere(receiver) THEN Failed("secret")
        ELSE message

(* The target's answer, or "none" if the request fails on the way.         *)
IsTaken(answer) == answer \in {"200", "204"}
IsFinal(answer) == answer \in {"400", "401", "404", "413"}
============================================================================
