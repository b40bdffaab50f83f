------------------------- MODULE AlertContentsProofs -------------------------
(***************************************************************************)
(* Proofs about what becomes of an alert's contents in the AlertPipeline:  *)
(* what the normalizers make of it, which group it is stored in, and what  *)
(* is posted for it.                                                       *)
(***************************************************************************)
EXTENDS AlertAnswersProofs

----------------------------------------------------------------------------
(* What is posted for a batch of events.                                   *)

LEMMA FirstOfList ==
    ASSUME NEW values, DOMAIN values \subseteq Nat
    PROVE  IF \A i \in DOMAIN values : values[i] = Absent
           THEN FirstPresent(values) = Absent
           ELSE \E i \in DOMAIN values : FirstPresent(values) = values[i] /\ values[i] # Absent
<1> DEFINE present == {i \in DOMAIN values : values[i] # Absent}
           first == CHOOSE i \in present : \A j \in present : i <= j
<1>1. FirstPresent(values) = IF present = {} THEN Absent ELSE values[first]
  BY Zenon DEF FirstPresent
<1>2. present # {} => first \in present
  <2>1. present \subseteq Nat
    OBVIOUS
  <2> HIDE DEF present
  <2>2. present # {} => \E i \in present : \A j \in present : i <= j
    BY <2>1, LeastNatural
  <2> QED BY <2>2, Zenon
<1> HIDE DEF first
<1> QED BY <1>1, <1>2

(* A receiver of a file the proxy starts with.                             *)
StaticIsTyped(tpl) == tpl.static => tpl.needs = {} /\ tpl.size \in Nat

ReceiverIsReal(receiver) ==
    /\ receiver.kind \in ReceiverKinds
    /\ IsOptional(receiver.template)
    /\ receiver.template # <<>> =>
          /\ TemplateBlockIsValid(receiver.kind, receiver.template[1])
          /\ TemplateCompiles(receiver.kind, receiver.template[1])
          /\ \A field \in FieldsOf(receiver.template[1]) :
                StaticIsTyped(receiver.template[1][field][1])

LEMMA ReceiversAreReal ==
    ASSUME NEW c \in Startable, NEW name \in DOMAIN Configs[c].receivers
    PROVE  ReceiverIsReal(Configs[c].receivers[name])
<1>1. PICK receiver : receiver = Configs[c].receivers[name]
  OBVIOUS
<1>2. c \in ConfigNames /\ IsAccepted(Configs[c])
  BY DEF Startable, Accepted
<1>3. /\ receiver.kind \in ReceiverKinds /\ IsOptional(receiver.template)
      /\ receiver.template # <<>> =>
            \A field \in FieldsOf(receiver.template[1]) :
                StaticIsTyped(receiver.template[1][field][1])
  BY <1>1, <1>2, ConfigsAreTyped DEF StaticIsTyped
<1>4. TemplateIsValid(receiver)
  BY <1>1, <1>2 DEF IsAccepted, ConfigIsValid, ReceiverIsValid
<1>5. \A i \in DOMAIN receiver.template : TemplateCompiles(receiver.kind, receiver.template[i])
  BY <1>1, <1>2 DEF IsAccepted, TemplatesCompile
<1> QED BY <1>1, <1>3, <1>4, <1>5 DEF ReceiverIsReal, TemplateIsValid, IsOptional

LEMMA FaultOfRendering ==
    ASSUME NEW tpl, NEW batch, NEW grouped, NEW limit
    PROVE  /\ RenderFault(tpl, batch, grouped, limit) \in {Absent, "template"}
           /\ (tpl.static /\ StaticIsTyped(tpl) /\ tpl.size <= limit /\ limit \in Nat) =>
                 RenderFault(tpl, batch, grouped, limit) = Absent
<1>1. RenderFault(tpl, batch, grouped, limit) \in {Absent, "template"}
  BY DEF RenderFault
<1>2. ASSUME tpl.static, StaticIsTyped(tpl), tpl.size <= limit, limit \in Nat
      PROVE  RenderFault(tpl, batch, grouped, limit) = Absent
  <2>1. ~ (RenderedSize(tpl, batch) > limit)
    BY <1>2 DEF RenderedSize, StaticIsTyped
  <2>2. tpl.needs = {}
    BY <1>2 DEF StaticIsTyped
  <2> QED BY <2>1, <2>2 DEF RenderFault
<1> QED BY <1>1, <1>2

LEMMA FaultOfPayload ==
    ASSUME NEW kind \in ReceiverKinds, NEW tpl, NEW batch, NEW grouped
    PROVE  /\ PayloadFault(kind, tpl, batch, grouped) \in {Absent, "template"}
           /\ PayloadFault(kind, tpl, batch, grouped) = Absent => ShapeIsValid(kind, tpl.fields)
           /\ (tpl.static /\ StaticIsTyped(tpl) /\ StaticPayloadIsValid(kind, tpl)) =>
                 PayloadFault(kind, tpl, batch, grouped) = Absent
<1> DEFINE shape == IF tpl.json /\ tpl.object /\ ShapeIsValid(kind, tpl.fields)
                    THEN Absent ELSE "template"
           values == <<RenderFault(tpl, batch, grouped, ByteLimit(kind)), shape>>
<1>1. DOMAIN values = {1, 2} /\ values[2] = shape
      /\ values[1] = RenderFault(tpl, batch, grouped, ByteLimit(kind))
  OBVIOUS
<1>2. PayloadFault(kind, tpl, batch, grouped) = FirstPresent(values)
  BY Zenon DEF PayloadFault
<1>3. values[1] \in {Absent, "template"} /\ values[2] \in {Absent, "template"}
  BY <1>1, FaultOfRendering
<1>4. "template" # Absent
  BY DEF Absent
<1>5. ASSUME tpl.static, StaticIsTyped(tpl), StaticPayloadIsValid(kind, tpl)
      PROVE  values[1] = Absent /\ values[2] = Absent
  <2>1. ByteLimit(kind) \in Nat
    BY DEF ByteLimit, ReceiverKinds, PayloadOnlyKinds, ChatKinds
  <2> QED BY <1>1, <1>5, <2>1, FaultOfRendering DEF StaticPayloadIsValid
<1>6. values[2] = Absent => ShapeIsValid(kind, tpl.fields)
  BY <1>1, <1>4
<1> HIDE DEF values
<1>7. IF \A i \in DOMAIN values : values[i] = Absent
      THEN FirstPresent(values) = Absent
      ELSE \E i \in DOMAIN values : FirstPresent(values) = values[i] /\ values[i] # Absent
  BY <1>1, FirstOfList
<1> QED BY <1>1, <1>2, <1>3, <1>5, <1>6, <1>7

(* Templates fail as such, and one without syntax does not.                *)
LEMMA FaultOfTemplates ==
    ASSUME NEW receiver, ReceiverIsReal(receiver), NEW batch, NEW grouped
    PROVE  /\ TemplateFault(receiver, batch, grouped) \in {Absent, "template"}
           /\ TemplateFault(receiver, batch, grouped) # Absent =>
                 IsTemplated(receiver) /\ ~ HasFixedTemplate(receiver)
           /\ (TemplateFault(receiver, batch, grouped) = Absent /\ HasField(receiver, "payload")) =>
                 ShapeIsValid(receiver.kind, receiver.template[1].payload[1].fields)
<1>1. CASE receiver.template = <<>>
  BY <1>1 DEF TemplateFault, HasField
<1>2. CASE receiver.template # <<>>
  <2> DEFINE template == receiver.template[1]
             kind == receiver.kind
  <2>2. /\ kind \in ReceiverKinds /\ TemplateBlockIsValid(kind, template)
        /\ TemplateCompiles(kind, template)
        /\ \A field \in FieldsOf(template) : StaticIsTyped(template[field][1])
    BY <1>2 DEF ReceiverIsReal
  <2> DEFINE title == RenderFault(template.title[1], batch, grouped, TitleLimit)
             body == RenderFault(template.body[1], batch, grouped, ByteLimit(kind))
             payload == PayloadFault(kind, template.payload[1], batch, grouped)
             values == [i \in 1 .. 3 |->
                    LET field == <<"title", "body", "payload">>[i]
                    IN  IF template[field] = <<>> THEN Absent
                        ELSE CASE field = "title" -> title
                               [] field = "body" -> body
                               [] field = "payload" -> payload]
  <2>3. TemplateFault(receiver, batch, grouped) = FirstPresent(values)
    BY <1>2, Zenon DEF TemplateFault
  <2>4. /\ DOMAIN values = 1 .. 3
        /\ values[1] = IF template.title = <<>> THEN Absent ELSE title
        /\ values[2] = IF template.body = <<>> THEN Absent ELSE body
        /\ values[3] = IF template.payload = <<>> THEN Absent ELSE payload
    <3> HIDE DEF title, body, payload
    <3> QED OBVIOUS
  <2>5. /\ title \in {Absent, "template"} /\ body \in {Absent, "template"}
        /\ payload \in {Absent, "template"}
        /\ payload = Absent => ShapeIsValid(kind, template.payload[1].fields)
    BY <2>2, FaultOfRendering, FaultOfPayload
  <2> HIDE DEF values, title, body
  <2>6. IF \A i \in DOMAIN values : values[i] = Absent
        THEN FirstPresent(values) = Absent
        ELSE \E i \in DOMAIN values : FirstPresent(values) = values[i] /\ values[i] # Absent
    BY <2>4, FirstOfList
  <2>7. /\ FirstPresent(values) \in {Absent, "template"}
        /\ FirstPresent(values) = Absent /\ template.payload # <<>> => payload = Absent
    <3> HIDE DEF payload
    <3>1. \A i \in DOMAIN values : i = 1 \/ i = 2 \/ i = 3
      BY <2>4
    <3>2. \A i \in DOMAIN values : values[i] \in {Absent, "template"}
      BY <2>4, <2>5, <3>1
    <3>3. 3 \in DOMAIN values
      BY <2>4
    <3> QED BY <2>4, <2>6, <3>2, <3>3
  <2>8. ASSUME template.payload # <<>>, template.payload[1].static
        PROVE  FirstPresent(values) = Absent
    <3>1. template.title = <<>> /\ template.body = <<>> /\ "payload" \in FieldsOf(template)
      BY <2>2, <2>8 DEF TemplateBlockIsValid, FieldsOf, TemplateFields
    <3>2. StaticIsTyped(template.payload[1]) /\ StaticPayloadIsValid(kind, template.payload[1])
      BY <2>2, <3>1 DEF TemplateCompiles
    <3>3. payload = Absent
      BY <2>2, <2>8, <3>2, FaultOfPayload
    <3> HIDE DEF payload
    <3>4. \A i \in DOMAIN values : i = 1 \/ i = 2 \/ i = 3
      BY <2>4
    <3> QED BY <2>4, <2>6, <3>1, <3>3, <3>4
  <2>9. HasField(receiver, "payload") <=> template.payload # <<>>
    BY <1>2 DEF HasField
  <2>10. HasFixedTemplate(receiver) => template.payload # <<>> /\ template.payload[1].static
    BY <2>9 DEF HasFixedTemplate
  <2> QED BY <1>2, <2>3, <2>5, <2>7, <2>8, <2>9, <2>10 DEF IsTemplated
<1> QED BY <1>1, <1>2

(* The instances an event lists are the alerts it carries.                 *)
ListsItsAlerts(event) ==
    event.instances # <<>> =>
        event.raw_payload.alerts \subseteq
            {event.instances[i].alert : i \in DOMAIN event.instances}

LEMMA InstancesNameEvents ==
    ASSUME NEW batch, NEW i \in DOMAIN batch, ListsItsAlerts(batch[i]),
           NEW message, message.names = FlattenedInstances(batch)
    PROVE  IsNamed(batch[i], message)
<1>1. InstancesOf(batch[i]) \subseteq message.names
  BY DEF FlattenedInstances
<1>2. CASE batch[i].instances = <<>>
  BY <1>1, <1>2 DEF InstancesOf, IsNamed
<1>3. CASE batch[i].instances # <<>>
  <2>1. ASSUME NEW alert \in batch[i].raw_payload.alerts
        PROVE  <<"instance", alert>> \in message.names
    <3>1. PICK j \in DOMAIN batch[i].instances : alert = batch[i].instances[j].alert
      BY <1>3, <2>1 DEF ListsItsAlerts
    <3>2. <<"instance", batch[i].instances[j].alert>> \in InstancesOf(batch[i])
      BY <1>3 DEF InstancesOf
    <3> QED BY <1>1, <3>1, <3>2
  <2> QED BY <2>1 DEF IsNamed
<1> QED BY <1>2, <1>3

LEMMA MessageParts ==
    ASSUME NEW fields, NEW names, NEW size
    PROVE  /\ Message(fields, names, size).fields = fields
           /\ Message(fields, names, size).names = names
           /\ Message(fields, names, size).size = size
           /\ ~ HasFailed(Message(fields, names, size))
BY DEF Message, HasFailed

ShowsAll(receiver, batch, message) ==
    \/ IsTemplated(receiver)
    \/ receiver.kind = "discord" /\ InstanceCount(batch) > DiscordLines
    \/ \A i \in DOMAIN batch : IsNamed(batch[i], message)

(* A message that says all there is to say.                                *)
SpeaksFor(receiver, batch, message) ==
    /\ ~ HasFailed(message)
    /\ ShapeIsValid(receiver.kind, message.fields)
    /\ ShowsAll(receiver, batch, message)
    /\ ~ IsTemplated(receiver) /\ IsMeasured(receiver) => message.size = BatchSize(batch)

LEMMA NamesShowAll ==
    ASSUME NEW receiver, NEW batch, \A i \in DOMAIN batch : ListsItsAlerts(batch[i]), NEW message,
           \/ IsTemplated(receiver)
           \/ receiver.kind = "discord" /\ InstanceCount(batch) > DiscordLines
           \/ message.names = FlattenedInstances(batch)
           \/ message.names = Itself(batch[1]) /\ DOMAIN batch = {1}
    PROVE  ShowsAll(receiver, batch, message)
<1>1. CASE message.names = FlattenedInstances(batch)
  BY <1>1, InstancesNameEvents DEF ShowsAll
<1>2. CASE message.names = Itself(batch[1]) /\ DOMAIN batch = {1}
  BY <1>2 DEF ShowsAll, Itself, IsNamed
<1> QED BY <1>1, <1>2 DEF ShowsAll

LEMMA Speaks ==
    ASSUME NEW receiver, NEW batch, \A i \in DOMAIN batch : ListsItsAlerts(batch[i]),
           NEW fields, NEW names, NEW size, ShapeIsValid(receiver.kind, fields),
           \/ IsTemplated(receiver)
           \/ receiver.kind = "discord" /\ InstanceCount(batch) > DiscordLines
           \/ names = FlattenedInstances(batch)
           \/ names = Itself(batch[1]) /\ DOMAIN batch = {1},
           IsTemplated(receiver) \/ ~ IsMeasured(receiver) \/ size = BatchSize(batch)
    PROVE  SpeaksFor(receiver, batch, Message(fields, names, size))
<1>1. PICK message : message = Message(fields, names, size)
  OBVIOUS
<1>2. /\ message.fields = fields /\ message.names = names /\ message.size = size
      /\ ~ HasFailed(message)
  BY <1>1, MessageParts
<1>3. ShowsAll(receiver, batch, message)
  BY <1>2, NamesShowAll
<1> QED BY <1>1, <1>2, <1>3 DEF SpeaksFor

LEMMA CardSpeaks ==
    ASSUME NEW receiver, receiver.kind = "google_chat",
           NEW batch, \A i \in DOMAIN batch : ListsItsAlerts(batch[i])
    PROVE  /\ SpeaksFor(receiver, batch, CardOfBatch(receiver, batch))
           /\ DOMAIN batch = {1} => SpeaksFor(receiver, batch, CardOfEvent(receiver, batch))
<1>1. ShapeIsValid(receiver.kind, Card)
  BY DEF ShapeIsValid, PayloadOnlyKinds, Card
<1>2. IsTemplated(receiver) \/ ~ IsMeasured(receiver)
  BY DEF IsTemplated, IsMeasured
<1>3. SpeaksFor(receiver, batch, CardOfBatch(receiver, batch))
  BY <1>1, <1>2, Speaks DEF CardOfBatch
<1>4. DOMAIN batch = {1} => SpeaksFor(receiver, batch, CardOfEvent(receiver, batch))
  BY <1>1, <1>2, Speaks DEF CardOfEvent
<1> QED BY <1>3, <1>4

LEMMA ChatSpeaks ==
    ASSUME NEW receiver, receiver.kind \in ChatKinds,
           NEW batch, \A i \in DOMAIN batch : ListsItsAlerts(batch[i])
    PROVE  /\ SpeaksFor(receiver, batch, ChatBatch(receiver, batch))
           /\ DOMAIN batch = {1} => SpeaksFor(receiver, batch, ChatEvent(receiver, batch))
<1>1. ShapeIsValid(receiver.kind, ChatFields(receiver.kind))
  BY DEF ShapeIsValid, PayloadOnlyKinds, ChatKinds, ChatFields, Embed, Text
<1>2. IsTemplated(receiver) \/ ~ IsMeasured(receiver)
  BY DEF IsTemplated, IsMeasured, ChatKinds
<1>3. SpeaksFor(receiver, batch, ChatBatch(receiver, batch))
  <2>1. PICK names :
            names = IF HasField(receiver, "body") \/
                       (/\ receiver.kind = "discord" /\ receiver.template = <<>>
                        /\ InstanceCount(batch) > DiscordLines)
                    THEN {} ELSE FlattenedInstances(batch)
    OBVIOUS
  <2>2. ChatBatch(receiver, batch) =
            Message(ChatFields(receiver.kind), names, TemplatedSize(receiver, batch))
    BY <2>1 DEF ChatBatch
  <2>3. \/ IsTemplated(receiver)
        \/ receiver.kind = "discord" /\ InstanceCount(batch) > DiscordLines
        \/ names = FlattenedInstances(batch)
    BY <2>1 DEF HasField, IsTemplated
  <2> QED BY <1>1, <1>2, <2>2, <2>3, Speaks
<1>4. ASSUME DOMAIN batch = {1}
      PROVE  SpeaksFor(receiver, batch, ChatEvent(receiver, batch))
  <2>1. PICK names : names = IF receiver.template = <<>> THEN Itself(batch[1]) ELSE {}
    OBVIOUS
  <2>2. ChatEvent(receiver, batch) =
            Message(ChatFields(receiver.kind), names, TemplatedSize(receiver, batch))
    BY <2>1 DEF ChatEvent
  <2>3. IsTemplated(receiver) \/ names = Itself(batch[1])
    BY <2>1 DEF IsTemplated
  <2> QED BY <1>1, <1>2, <1>4, <2>2, <2>3, Speaks
<1> QED BY <1>3, <1>4

LEMMA MatrixSpeaks ==
    ASSUME NEW receiver, receiver.kind = "matrix",
           NEW batch, \A i \in DOMAIN batch : ListsItsAlerts(batch[i])
    PROVE  /\ SpeaksFor(receiver, batch, MatrixBatch(receiver, batch))
           /\ DOMAIN batch = {1} => SpeaksFor(receiver, batch, MatrixEvent(receiver, batch))
<1>1. ShapeIsValid(receiver.kind, Notice)
  <2>1. {<<"msgtype", "string">>, <<"body", "string">>} \subseteq Notice
    BY DEF Notice
  <2> QED BY <2>1 DEF ShapeIsValid, PayloadOnlyKinds
<1>2. IsTemplated(receiver) \/ ~ IsMeasured(receiver)
  BY DEF IsTemplated, IsMeasured
<1>3. SpeaksFor(receiver, batch, MatrixBatch(receiver, batch))
  <2>1. PICK names : names = IF HasField(receiver, "body") THEN {} ELSE FlattenedInstances(batch)
    OBVIOUS
  <2>2. MatrixBatch(receiver, batch) = Message(Notice, names, TemplatedSize(receiver, batch))
    BY <2>1 DEF MatrixBatch
  <2>3. IsTemplated(receiver) \/ names = FlattenedInstances(batch)
    BY <2>1 DEF HasField, IsTemplated
  <2> QED BY <1>1, <1>2, <2>2, <2>3, Speaks
<1>4. ASSUME DOMAIN batch = {1}
      PROVE  SpeaksFor(receiver, batch, MatrixEvent(receiver, batch))
  <2>1. PICK names : names = IF receiver.template = <<>> THEN Itself(batch[1]) ELSE {}
    OBVIOUS
  <2>2. MatrixEvent(receiver, batch) = Message(Notice, names, TemplatedSize(receiver, batch))
    BY <2>1 DEF MatrixEvent
  <2>3. IsTemplated(receiver) \/ names = Itself(batch[1])
    BY <2>1 DEF IsTemplated
  <2> QED BY <1>1, <1>2, <1>4, <2>2, <2>3, Speaks
<1> QED BY <1>3, <1>4

LEMMA ContractSpeaks ==
    ASSUME NEW receiver, receiver.kind \in PayloadOnlyKinds,
           NEW batch, \A i \in DOMAIN batch : ListsItsAlerts(batch[i])
    PROVE  /\ \A fields, grouped : SpeaksFor(receiver, batch, Whole(fields, batch, grouped))
           /\ SpeaksFor(receiver, batch, CloudEventMessage(receiver, batch))
<1>1. ASSUME NEW fields
      PROVE  ShapeIsValid(receiver.kind, fields)
  <2>1. receiver.kind \notin {"google_chat", "slack", "mattermost", "discord", "matrix"}
    BY DEF PayloadOnlyKinds
  <2> QED BY <2>1 DEF ShapeIsValid
<1>2. ASSUME NEW fields, NEW grouped
      PROVE  SpeaksFor(receiver, batch, Whole(fields, batch, grouped))
  <2>1. PICK all : all = fields \cup (IF grouped THEN BatchObject ELSE EventObject)
    OBVIOUS
  <2>2. Whole(fields, batch, grouped) = Message(all, FlattenedInstances(batch), BatchSize(batch))
    BY <2>1 DEF Whole
  <2> QED BY <1>1, <2>2, Speaks
<1>3. SpeaksFor(receiver, batch, CloudEventMessage(receiver, batch))
  <2>1. CASE HasField(receiver, "payload")
    <3>1. CloudEventMessage(receiver, batch) =
              Message(CloudEvent, {}, PartSize(receiver, "payload", batch))
      BY <2>1 DEF CloudEventMessage
    <3>2. IsTemplated(receiver)
      BY <2>1 DEF HasField, IsTemplated
    <3> QED BY <1>1, <3>1, <3>2, Speaks
  <2>2. CASE ~ HasField(receiver, "payload")
    <3>1. CloudEventMessage(receiver, batch) =
              Message(CloudEvent, FlattenedInstances(batch), BatchSize(batch))
      BY <2>2 DEF CloudEventMessage
    <3> QED BY <1>1, <3>1, Speaks
  <2> QED BY <2>1, <2>2
<1> QED BY <1>2, <1>3

LEMMA BuiltinSpeaks ==
    ASSUME NEW receiver, receiver.kind \in ReceiverKinds,
           NEW batch, \A i \in DOMAIN batch : ListsItsAlerts(batch[i]),
           NEW batched \in BOOLEAN, batched \/ DOMAIN batch = {1}
    PROVE  SpeaksFor(receiver, batch,
                     BuiltinMessage(receiver, batch, IsGrouped(receiver, batch, batched)))
<1>1. PICK grouped : grouped = IsGrouped(receiver, batch, batched)
  OBVIOUS
<1>2. PICK message : message = BuiltinMessage(receiver, batch, grouped)
  OBVIOUS
<1>3. CASE receiver.kind = "google_chat"
  <2>1. message = IF grouped THEN CardOfBatch(receiver, batch) ELSE CardOfEvent(receiver, batch)
    BY <1>2, <1>3 DEF BuiltinMessage, ChatKinds
  <2>2. grouped \/ DOMAIN batch = {1}
    BY <1>1, <1>3 DEF IsGrouped
  <2> QED BY <1>1, <1>2, <1>3, <2>1, <2>2, CardSpeaks
<1>4. CASE receiver.kind \in ChatKinds
  <2>1. receiver.kind \notin
            {"google_chat", "matrix", "generic_webhook", "n8n_webhook", "cloudevents_webhook"}
    BY <1>4 DEF ChatKinds
  <2>2. message = IF grouped THEN ChatBatch(receiver, batch) ELSE ChatEvent(receiver, batch)
    BY <1>2, <1>4, <2>1 DEF BuiltinMessage
  <2>3. grouped = batched
    BY <1>1, <2>1 DEF IsGrouped
  <2>4. CASE grouped
    BY <1>1, <1>2, <1>4, <2>2, <2>4, ChatSpeaks
  <2>5. CASE ~ grouped
    <3>1. DOMAIN batch = {1}
      BY <2>3, <2>5
    <3> QED BY <1>1, <1>2, <1>4, <2>2, <2>5, <3>1, ChatSpeaks
  <2> QED BY <2>4, <2>5
<1>5. CASE receiver.kind = "matrix"
  <2>1. receiver.kind \notin ChatKinds
    BY <1>5 DEF ChatKinds
  <2>2. message = IF grouped THEN MatrixBatch(receiver, batch) ELSE MatrixEvent(receiver, batch)
    BY <1>2, <1>5, <2>1 DEF BuiltinMessage
  <2>3. grouped = batched
    BY <1>1, <1>5 DEF IsGrouped
  <2> QED BY <1>1, <1>2, <1>5, <2>2, <2>3, MatrixSpeaks
<1>6. CASE receiver.kind \in PayloadOnlyKinds
  <2>1. receiver.kind \notin ChatKinds
    BY <1>6 DEF PayloadOnlyKinds, ChatKinds
  <2>2. \/ \E fields, all : message = Whole(fields, batch, all)
        \/ message = CloudEventMessage(receiver, batch)
    <3>1. CASE receiver.kind = "generic_webhook"
      <4>1. message = GenericBatch(batch) \/ message = GenericEvent(batch)
        BY <1>2, <2>1, <3>1 DEF BuiltinMessage
      <4> QED BY <4>1 DEF GenericBatch, GenericEvent
    <3>2. CASE receiver.kind = "n8n_webhook"
      <4>1. message = N8nMessage(batch, grouped)
        BY <1>2, <2>1, <3>2 DEF BuiltinMessage
      <4> QED BY <4>1 DEF N8nMessage
    <3>3. CASE receiver.kind = "cloudevents_webhook"
      BY <1>2, <2>1, <3>3 DEF BuiltinMessage
    <3> QED BY <1>6, <3>1, <3>2, <3>3 DEF PayloadOnlyKinds
  <2> QED BY <1>1, <1>2, <1>6, <2>2, ContractSpeaks
<1> QED BY <1>3, <1>4, <1>5, <1>6 DEF ReceiverKinds

(* What comes of a batch: a message that says all there is to say, or one  *)
(* of the reasons to give up.                                              *)
IsAsPromised(receiver, batch, outgoing) ==
    IF HasFailed(outgoing)
    THEN \/ /\ outgoing.failed = "template"
            /\ IsTemplated(receiver) /\ ~ HasFixedTemplate(receiver)
         \/ /\ outgoing.failed = "size"
            /\ IsTemplated(receiver) \/ BatchSize(batch) > ByteLimit(receiver.kind)
         \/ outgoing.failed = "secret" /\ ~ SecretIsThere(receiver)
    ELSE ShapeIsValid(receiver.kind, outgoing.fields) /\ ShowsAll(receiver, batch, outgoing)

LEMMA OutgoingIsWhole ==
    ASSUME NEW receiver, ReceiverIsReal(receiver),
           NEW batch, \A i \in DOMAIN batch : ListsItsAlerts(batch[i]),
           NEW batched \in BOOLEAN, batched \/ DOMAIN batch = {1}
    PROVE  IsAsPromised(receiver, batch, Outgoing(receiver, batch, batched))
<1> DEFINE grouped == IsGrouped(receiver, batch, batched)
           fault == TemplateFault(receiver, batch, grouped)
           message == MessageOf(receiver, batch, grouped)
           limit == ByteLimit(receiver.kind)
<1>1. /\ fault \in {Absent, "template"}
      /\ fault # Absent => IsTemplated(receiver) /\ ~ HasFixedTemplate(receiver)
      /\ (fault = Absent /\ HasField(receiver, "payload")) =>
            ShapeIsValid(receiver.kind, receiver.template[1].payload[1].fields)
  BY FaultOfTemplates
<1>2. receiver.kind \in ReceiverKinds
  BY DEF ReceiverIsReal
<1>3. SpeaksFor(receiver, batch, BuiltinMessage(receiver, batch, grouped))
  BY <1>2, BuiltinSpeaks
<1>4. \/ message = BuiltinMessage(receiver, batch, grouped)
      \/ HasField(receiver, "payload") /\ message = PayloadMessage(receiver, batch)
  BY DEF MessageOf
<1>5. HasField(receiver, "payload") => IsTemplated(receiver)
  BY DEF HasField, IsTemplated
<1>6. /\ ~ HasFailed(message)
      /\ fault = Absent => ShapeIsValid(receiver.kind, message.fields)
      /\ ShowsAll(receiver, batch, message)
      /\ ~ IsTemplated(receiver) /\ IsMeasured(receiver) => message.size = BatchSize(batch)
  <2>1. CASE message = BuiltinMessage(receiver, batch, grouped)
    <3> HIDE DEF message, grouped, fault
    <3> QED BY <1>3, <2>1 DEF SpeaksFor
  <2>2. CASE HasField(receiver, "payload") /\ message = PayloadMessage(receiver, batch)
    <3>1. ShowsAll(receiver, batch, message) /\ IsTemplated(receiver)
      BY <1>5, <2>2 DEF ShowsAll
    <3>2. ~ HasFailed(message) /\ message.fields = receiver.template[1].payload[1].fields
      <4> HIDE DEF message, grouped, fault
      <4> QED BY <2>2, MessageParts DEF PayloadMessage
    <3> HIDE DEF message, grouped, fault
    <3> QED BY <1>1, <2>2, <3>1, <3>2
  <2> QED BY <1>4, <2>1, <2>2
<1>7. Outgoing(receiver, batch, batched) =
        IF fault # Absent THEN Failed(fault)
        ELSE IF IsMeasured(receiver) /\ message.size > limit THEN Failed("size")
        ELSE IF ~ SecretIsThere(receiver) THEN Failed("secret") ELSE message
  BY Zenon DEF Outgoing
<1>8. \A reason : HasFailed(Failed(reason)) /\ Failed(reason).failed = reason
  BY DEF HasFailed, Failed
<1> HIDE DEF message, grouped, fault, limit
<1>9. CASE fault # Absent
  BY <1>1, <1>7, <1>8, <1>9 DEF IsAsPromised
<1>10. CASE fault = Absent /\ IsMeasured(receiver) /\ message.size > limit
  <2>1. Outgoing(receiver, batch, batched) = Failed("size")
    BY <1>7, <1>10
  <2>2. IsTemplated(receiver) \/ BatchSize(batch) > ByteLimit(receiver.kind)
    BY <1>6, <1>10 DEF limit
  <2> QED BY <1>8, <2>1, <2>2 DEF IsAsPromised
<1>11. CASE fault = Absent /\ ~ (IsMeasured(receiver) /\ message.size > limit)
  <2>1. CASE ~ SecretIsThere(receiver)
    BY <1>7, <1>8, <1>11, <2>1 DEF IsAsPromised
  <2>2. CASE SecretIsThere(receiver)
    <3>1. Outgoing(receiver, batch, batched) = message
      BY <1>7, <1>11, <2>2
    <3> QED BY <1>6, <1>11, <3>1 DEF IsAsPromised
  <2> QED BY <2>1, <2>2
<1> QED BY <1>9, <1>10, <1>11

----------------------------------------------------------------------------
(* What the events and the work of a request are.                          *)

(* An item is a delivery, to a receiver that is there, of an event that is *)
(* the request's; its owner is the event's.                                *)
IsItem(config, events, item) ==
    /\ item.event \in DOMAIN events
    /\ item.delivery.receiver \in DOMAIN config.receivers
    /\ item.owner = FirstOwnerTeam(Planned(config, events[item.event]))

LEMMA WorkIsReal ==
    ASSUME NEW config, IsList(config.routing.routes), NEW events, IsList(events)
    PROVE  \A k \in DOMAIN WorkOn(config, events) : IsItem(config, events, WorkOn(config, events)[k])
<1> DEFINE planned(i) == Planned(config, events[i])
           there(i) == {j \in DOMAIN planned(i) :
                           planned(i)[j].receiver \in DOMAIN config.receivers}
           plan(i) == Kept(planned(i), there(i))
           items(i) == [j \in DOMAIN plan(i) |->
                [event |-> i, delivery |-> plan(i)[j], owner |-> FirstOwnerTeam(planned(i))]]
           seqs == [i \in DOMAIN events |-> items(i)]
           X == {item \in UNION {Range(items(i)) : i \in DOMAIN events} :
                    IsItem(config, events, item)}
<1>1. Len(events) \in Nat /\ DOMAIN events = 1 .. Len(events)
  BY ListFields
<1>2. ASSUME NEW i \in DOMAIN events
      PROVE  items(i) \in Seq(X)
  <2>1. IsList(planned(i))
    BY PlannedIsList
  <2>2. there(i) \subseteq DOMAIN planned(i)
    OBVIOUS
  <2>3. \A d \in {planned(i)[j] : j \in there(i)} : d.receiver \in DOMAIN config.receivers
    OBVIOUS
  <2>4. PICK owner : owner = FirstOwnerTeam(Planned(config, events[i]))
    OBVIOUS
  <2>5. \A j \in DOMAIN plan(i) :
            items(i)[j] = [event |-> i, delivery |-> plan(i)[j], owner |-> owner]
    BY <2>4
  <2>6. \A j \in DOMAIN items(i) : items(i)[j] \in UNION {Range(items(k)) : k \in DOMAIN events}
    <3> HIDE DEF items
    <3> QED BY <1>2 DEF Range
  <2>7. DOMAIN items(i) = DOMAIN plan(i)
    OBVIOUS
  <2> HIDE DEF planned, there
  <2>8. IsList(plan(i)) /\ Range(plan(i)) = {planned(i)[j] : j \in there(i)}
    BY <2>1, <2>2, KeptElements, KeptIsList
  <2> HIDE DEF plan, items
  <2>9. Len(plan(i)) \in Nat /\ DOMAIN plan(i) = 1 .. Len(plan(i))
    BY <2>8, ListFields
  <2>10. \A j \in DOMAIN plan(i) : plan(i)[j].receiver \in DOMAIN config.receivers
    BY <2>3, <2>8 DEF Range
  <2>11. ASSUME NEW j \in DOMAIN plan(i)
         PROVE  IsItem(config, events, items(i)[j])
    <3>1. PICK item, delivery : item = items(i)[j] /\ delivery = plan(i)[j]
      OBVIOUS
    <3>2. item = [event |-> i, delivery |-> delivery, owner |-> owner]
      BY <2>5, <3>1
    <3>3. item.event = i /\ item.delivery = delivery /\ item.owner = owner
      BY <3>2
    <3>4. delivery.receiver \in DOMAIN config.receivers
      BY <2>10, <3>1
    <3> QED BY <1>2, <2>4, <3>1, <3>3, <3>4 DEF IsItem
  <2>12. \A j \in DOMAIN items(i) : items(i)[j] \in X
    BY <2>6, <2>7, <2>11
  <2> HIDE DEF X
  <2>13. items(i) = [j \in 1 .. Len(plan(i)) |-> items(i)[j]]
    <3> USE DEF items
    <3> QED BY <2>9
  <2>14. items(i) \in [1 .. Len(plan(i)) -> X]
    BY <2>7, <2>9, <2>12, <2>13
  <2> QED BY <2>9, <2>14
<1>3. WorkOn(config, events) = FlattenSeq(seqs)
  BY Zenon DEF WorkOn
<1>4. \A item \in X : IsItem(config, events, item)
  OBVIOUS
<1> HIDE DEF X, items
<1>5. seqs \in Seq(Seq(X))
  <2>1. seqs \in [1 .. Len(events) -> Seq(X)]
    BY <1>1, <1>2
  <2> QED BY <1>1, <2>1
<1> HIDE DEF seqs
<1>6. PICK work : work = WorkOn(config, events)
  OBVIOUS
<1>7. work \in Seq(X)
  BY <1>3, <1>5, <1>6, FlattenedHasAll DEF HasAllUpTo
<1>8. \A k \in DOMAIN work : work[k] \in X
  BY <1>7
<1> QED BY <1>4, <1>6, <1>8

(* An event is of its integration, in a namespace of its integration, and  *)
(* the instances it lists are its alerts.                                  *)
IsNormal(event, integration) ==
    /\ event.integration = integration /\ event.group_namespace[1] = integration
    /\ ListsItsAlerts(event)

AllNormal(events) ==
    \A i \in DOMAIN events : \E integration : IsNormal(events[i], integration)

LEMMA NoEvents == AllNormal(<<>>)
BY DEF AllNormal

LEMMA NewEventFields ==
    ASSUME NEW integration, NEW source, NEW status, NEW severity, NEW title, NEW fingerprint,
           NEW raw, NEW event,
           event = NewEvent(integration, source, status, severity, title, fingerprint, raw)
    PROVE  /\ DOMAIN event =
                  {"event_id", "integration", "group_namespace", "source", "status", "severity",
                   "title", "body", "labels", "annotations", "links", "fingerprint",
                   "notification_group_key", "instances", "raw_payload"}
           /\ event.integration = integration /\ event.group_namespace = <<integration>>
           /\ event.instances = <<>> /\ event.raw_payload = raw /\ event.status = status
           /\ event.fingerprint = fingerprint
BY DEF NewEvent, Namespace

LEMMA GrafanaIsNormal ==
    ASSUME NEW integration, NEW p, NEW status, NEW labels, NEW annotations, NEW fingerprint,
           NEW raw, NEW urls
    PROVE  LET event == GrafanaEvent(integration, p, status, labels, annotations, fingerprint,
                                     raw, urls)
           IN  /\ IsNormal(event, integration) /\ event.raw_payload = raw
               /\ event.fingerprint = fingerprint
               /\ event.group_namespace = GrafanaNamespace(integration, p.orgId)
<1>1. PICK severity, title, base, namespace, key, body, links :
          /\ severity = Or(Get(labels, "severity"), "unknown")
          /\ title = GrafanaTitle(labels, p.title)
          /\ base = NewEvent(integration, "grafana", status, severity, title, fingerprint, raw)
          /\ namespace = GrafanaNamespace(integration, p.orgId)
          /\ key = GroupKey(p.groupKey) /\ body = GrafanaBody(annotations, p.message)
          /\ links = LinksTo(urls)
  OBVIOUS
<1>2. PICK event :
          event = GrafanaEvent(integration, p, status, labels, annotations, fingerprint, raw, urls)
  OBVIOUS
<1>3. event = [base EXCEPT !.group_namespace = namespace, !.notification_group_key = key,
                           !.body = body, !.labels = labels, !.annotations = annotations,
                           !.links = links]
  BY <1>1, <1>2, Zenon DEF GrafanaEvent
<1>4. /\ "group_namespace" \in DOMAIN base /\ base.integration = integration
      /\ "integration" \in DOMAIN base /\ "instances" \in DOMAIN base
      /\ "raw_payload" \in DOMAIN base /\ "fingerprint" \in DOMAIN base
      /\ base.instances = <<>> /\ base.raw_payload = raw /\ base.fingerprint = fingerprint
  BY <1>1, NewEventFields
<1>5. /\ event.group_namespace = namespace /\ event.integration = integration
      /\ event.instances = <<>> /\ event.raw_payload = raw /\ event.fingerprint = fingerprint
  BY <1>3, <1>4
<1>6. namespace[1] = integration
  BY <1>1 DEF GrafanaNamespace, Namespace
<1> QED BY <1>1, <1>2, <1>5, <1>6 DEF IsNormal, ListsItsAlerts

(* An event of which the normalizer fills in other fields than these.      *)
LEMMA FilledIsNormal ==
    ASSUME NEW integration, NEW base, NEW event,
           {"integration", "group_namespace", "instances", "raw_payload"} \subseteq DOMAIN base,
           base.integration = integration, base.group_namespace = <<integration>>,
           base.instances = <<>>,
           event.integration = base.integration, event.instances = base.instances,
           event.group_namespace = base.group_namespace, event.raw_payload = base.raw_payload
    PROVE  IsNormal(event, integration) /\ event.raw_payload = base.raw_payload
BY DEF IsNormal, ListsItsAlerts

LEMMA SigNozIsNormal ==
    ASSUME NEW integration, NEW p
    PROVE  /\ IsNormal(SigNozEvent(integration, p), integration)
           /\ SigNozEvent(integration, p).raw_payload.alerts = IdsOf(p.alerts)
<1>1. PICK status, severity, title, fingerprint, raw, base, body, labels, annotations, key,
           instances, links :
          /\ status = Or(p.status, "unknown") /\ severity = SigNozSeverity(p)
          /\ title = SigNozName(p) /\ fingerprint = SigNozFingerprint(p)
          /\ raw = Raw(IdsOf(p.alerts), p.scalars)
          /\ base = NewEvent(integration, "signoz", status, severity, title, fingerprint, raw)
          /\ body = SigNozBody(p) /\ labels = GroupLabels(p)
          /\ annotations = IF p.alerts = <<>> THEN p.commonAnnotations
                           ELSE Extended(p.alerts[1].annotations, p.commonAnnotations)
          /\ key = GroupKey(RuleId(p))
          /\ instances = [i \in DOMAIN p.alerts |-> SigNozInstance(p, p.alerts[i])]
          /\ links = SourceLink(SourceUrl(p))
  OBVIOUS
<1>2. PICK event : event = SigNozEvent(integration, p)
  OBVIOUS
<1>3. event = [base EXCEPT !.body = body, !.labels = labels, !.annotations = annotations,
                           !.notification_group_key = key, !.instances = instances,
                           !.links = links]
  BY <1>1, <1>2, Zenon DEF SigNozEvent
<1>4. /\ {"integration", "group_namespace", "instances", "raw_payload"} \subseteq DOMAIN base
      /\ base.integration = integration /\ base.group_namespace = <<integration>>
      /\ base.raw_payload = raw
  BY <1>1, NewEventFields
<1>5. /\ event.integration = integration /\ event.group_namespace[1] = integration
      /\ event.instances = instances /\ event.raw_payload = raw
  BY <1>3, <1>4
<1>6. raw.alerts = IdsOf(p.alerts)
  BY <1>1 DEF Raw
<1>7. \A i \in DOMAIN p.alerts : instances[i].alert = p.alerts[i].id
  BY <1>1 DEF SigNozInstance
<1>8. DOMAIN instances = DOMAIN p.alerts
  BY <1>1
<1>9. ListsItsAlerts(event)
  BY <1>5, <1>6, <1>7, <1>8 DEF ListsItsAlerts, IdsOf
<1> QED BY <1>2, <1>5, <1>6, <1>9 DEF IsNormal

LEMMA GvmdIsNormal ==
    ASSUME NEW integration, NEW p, NEW id, NEW scalars
    PROVE  /\ IsNormal(GvmdEvent(integration, p, id, scalars), integration)
           /\ GvmdEvent(integration, p, id, scalars).raw_payload.alerts = {id}
<1>1. PICK title, fingerprint, raw, base, body, labels, annotations, key :
          /\ title = Or(NonBlank(GvmdField(p, "alert.name")), p["event.name"])
          /\ fingerprint = GvmdFingerprint(p) /\ raw = Raw({id}, scalars)
          /\ base = NewEvent(integration, "gvmd", "firing", "unknown", title, fingerprint, raw)
          /\ body = GvmdBody(p) /\ key = GvmdGroupKey(p)
          /\ labels = With(NonBlankFields(p, GvmdLabelPaths), "gvmd_event_kind",
                           GvmdSlug[p["event.name"]])
          /\ annotations = NonBlankFields(p, GvmdAnnotationPaths)
  OBVIOUS
<1>2. PICK event : event = GvmdEvent(integration, p, id, scalars)
  OBVIOUS
<1>3. event = [base EXCEPT !.body = body, !.notification_group_key = key, !.labels = labels,
                           !.annotations = annotations]
  BY <1>1, <1>2, Zenon DEF GvmdEvent
<1>4. /\ {"integration", "group_namespace", "instances", "raw_payload"} \subseteq DOMAIN base
      /\ base.integration = integration /\ base.group_namespace = <<integration>>
      /\ base.raw_payload = raw /\ base.instances = <<>>
  BY <1>1, NewEventFields
<1>5. /\ event.integration = base.integration /\ event.group_namespace = base.group_namespace
      /\ event.instances = base.instances /\ event.raw_payload = base.raw_payload
  BY <1>3, <1>4
<1>6. raw.alerts = {id}
  BY <1>1 DEF Raw
<1> QED BY <1>2, <1>4, <1>5, <1>6, FilledIsNormal

LEMMA N8nIsNormal ==
    ASSUME NEW integration, NEW alert
    PROVE  /\ IsNormal(N8nEvent(integration, alert), integration)
           /\ N8nEvent(integration, alert).raw_payload.alerts = {alert.id}
<1>1. PICK severity, fingerprint, raw, base, key :
          /\ severity = Or(NonBlank(alert.severity), "unknown")
          /\ fingerprint = Given(alert.fingerprint) /\ raw = Raw({alert.id}, alert.scalars)
          /\ base = NewEvent(integration, "n8n", alert.status, severity, alert.title,
                             fingerprint, raw)
          /\ key = GroupKey(alert.groupKey)
  OBVIOUS
<1>2. PICK event : event = N8nEvent(integration, alert)
  OBVIOUS
<1>3. event = [base EXCEPT !.body = alert.body, !.notification_group_key = key,
                           !.labels = alert.labels, !.annotations = alert.annotations,
                           !.links = alert.links]
  BY <1>1, <1>2, Zenon DEF N8nEvent
<1>4. /\ {"integration", "group_namespace", "instances", "raw_payload"} \subseteq DOMAIN base
      /\ base.integration = integration /\ base.group_namespace = <<integration>>
      /\ base.raw_payload = raw /\ base.instances = <<>>
  BY <1>1, NewEventFields
<1>5. /\ event.integration = base.integration /\ event.group_namespace = base.group_namespace
      /\ event.instances = base.instances /\ event.raw_payload = base.raw_payload
  BY <1>3, <1>4
<1>6. raw.alerts = {alert.id}
  BY <1>1 DEF Raw
<1> QED BY <1>2, <1>4, <1>5, <1>6, FilledIsNormal

LEMMA MappedIsNormal ==
    ASSUME NEW integration, NEW source, NEW mapping, NEW id, NEW scalars
    PROVE  /\ IsNormal(MappedEvent(integration, source, mapping, id, scalars), integration)
           /\ MappedEvent(integration, source, mapping, id, scalars).raw_payload.alerts = {id}
           /\ {"integration", "group_namespace", "instances", "raw_payload"} \subseteq
                 DOMAIN MappedEvent(integration, source, mapping, id, scalars)
<1>1. PICK status, severity, title, fingerprint, raw, base, body, key, labels, annotations, links :
          /\ status = MappedString(scalars, mapping.status)
          /\ severity = Or(MappedString(scalars, mapping.severity), "unknown")
          /\ title = MappedString(scalars, mapping.title)
          /\ fingerprint = Given(MappedString(scalars, mapping.fingerprint))
          /\ raw = Raw({id}, scalars)
          /\ base = NewEvent(integration, source, status, severity, title, fingerprint, raw)
          /\ body = MappedString(scalars, mapping.body)
          /\ key = GroupKey(MappedString(scalars, mapping.groupKey))
          /\ labels = MappedStrings(scalars, mapping.labels)
          /\ annotations = MappedStrings(scalars, mapping.annotations)
          /\ links = SelectSeq([i \in DOMAIN mapping.links |->
                                   MappedString(scalars, mapping.links[i])],
                               LAMBDA url : url # Absent)
  OBVIOUS
<1>2. PICK event : event = MappedEvent(integration, source, mapping, id, scalars)
  OBVIOUS
<1>3. event = [base EXCEPT !.body = body, !.notification_group_key = key, !.labels = labels,
                           !.annotations = annotations, !.links = links]
  BY <1>1, <1>2, Zenon DEF MappedEvent
<1>4. /\ {"integration", "group_namespace", "instances", "raw_payload"} \subseteq DOMAIN base
      /\ base.integration = integration /\ base.group_namespace = <<integration>>
      /\ base.raw_payload = raw /\ base.instances = <<>>
  BY <1>1, NewEventFields
<1>5. /\ event.integration = base.integration /\ event.group_namespace = base.group_namespace
      /\ event.instances = base.instances /\ event.raw_payload = base.raw_payload
      /\ DOMAIN event = DOMAIN base
  BY <1>3, <1>4
<1>6. raw.alerts = {id}
  BY <1>1 DEF Raw
<1> QED BY <1>2, <1>4, <1>5, <1>6, FilledIsNormal

(* What the normalizers return.                                            *)
LEMMA NormalizersAreNormal ==
    ASSUME NEW integration, NEW p
    PROVE  /\ AllNormal(NormalizeGrafana(integration, p).events)
           /\ AllNormal(NormalizeSigNoz(integration, p).events)
           /\ AllNormal(NormalizeGvmd(integration, p).events)
           /\ AllNormal(NormalizeN8n(integration, p).events)
<1>1. /\ \A events : Normalized(events).events = events
      /\ Malformed.events = <<>>
  BY DEF Normalized, Malformed
<1>2. AllNormal(NormalizeGrafana(integration, p).events)
  <2>1. \A alert : IsNormal(GrafanaAlertEvent(integration, p, alert), integration)
    BY GrafanaIsNormal DEF GrafanaAlertEvent
  <2>2. IsNormal(GrafanaGroupEvent(integration, p), integration)
    BY GrafanaIsNormal DEF GrafanaGroupEvent
  <2>3. AllNormal(<<GrafanaGroupEvent(integration, p)>>)
    BY <2>2 DEF AllNormal
  <2>4. AllNormal([i \in DOMAIN p.alerts |-> GrafanaAlertEvent(integration, p, p.alerts[i])])
    BY <2>1 DEF AllNormal
  <2> QED BY <1>1, <2>3, <2>4, NoEvents DEF NormalizeGrafana
<1>3. AllNormal(NormalizeSigNoz(integration, p).events)
  <2>1. PICK ruled : ruled = RuleGroups(p)
    OBVIOUS
  <2>2. AllNormal([i \in DOMAIN ruled |-> SigNozEvent(integration, ruled[i])])
    BY SigNozIsNormal DEF AllNormal
  <2>3. NormalizeSigNoz(integration, p) =
            IF ~p.typed THEN Malformed
            ELSE Normalized([i \in DOMAIN ruled |-> SigNozEvent(integration, ruled[i])])
    BY <2>1 DEF NormalizeSigNoz
  <2> QED BY <1>1, <2>2, <2>3, NoEvents
<1>4. AllNormal(NormalizeGvmd(integration, p).events)
  <2>1. PICK event : event = GvmdEvent(integration, p.fields, p.id, p.fields)
    OBVIOUS
  <2>2. AllNormal(<<event>>)
    BY <2>1, GvmdIsNormal DEF AllNormal
  <2> QED BY <1>1, <2>1, <2>2, NoEvents DEF NormalizeGvmd
<1>5. AllNormal(NormalizeN8n(integration, p).events)
  <2>1. AllNormal([i \in DOMAIN p.alerts |-> N8nEvent(integration, p.alerts[i])])
    BY N8nIsNormal DEF AllNormal
  <2> QED BY <1>1, <2>1, NoEvents DEF NormalizeN8n
<1> QED BY <1>2, <1>3, <1>4, <1>5

LEMMA MappingIsNormal ==
    ASSUME NEW integration, NEW source, NEW mapping, NEW id, NEW scalars
    PROVE  AllNormal(NormalizeMapped(integration, source, mapping, id, scalars).events)
<1>1. PICK event : event = MappedEvent(integration, source, mapping, id, scalars)
  OBVIOUS
<1>2. AllNormal(<<event>>)
  BY <1>1, MappedIsNormal DEF AllNormal
<1>3. \/ NormalizeMapped(integration, source, mapping, id, scalars) = Malformed
      \/ NormalizeMapped(integration, source, mapping, id, scalars) = Normalized(<<event>>)
  BY <1>1 DEF NormalizeMapped
<1> QED BY <1>2, <1>3, NoEvents DEF Normalized, Malformed

LEMMA CloudEventIsNormal ==
    ASSUME NEW integration, NEW mapping, NEW ce
    PROVE  AllNormal(NormalizeCloudEvent(integration, mapping, ce).events)
<1>1. PICK scalars, event, id :
          /\ scalars = Envelope(ce) /\ id = OccurrenceId(ce)
          /\ event = MappedEvent(integration, ce.source, mapping, ce.alert, scalars)
  OBVIOUS
<1>2. PICK result : result = NormalizeMapped(integration, ce.source, mapping, ce.alert, scalars)
  OBVIOUS
<1>3. NormalizeCloudEvent(integration, mapping, ce) =
          [result EXCEPT !.events =
              [i \in DOMAIN result.events |-> [result.events[i] EXCEPT !.event_id = id]]]
  BY <1>1, <1>2, Zenon DEF NormalizeCloudEvent
<1>4. result = Malformed \/ result = Normalized(<<event>>)
  BY <1>1, <1>2 DEF NormalizeMapped
<1>5. \/ result.events = <<>> \/ result.events = <<event>>
  BY <1>4 DEF Malformed, Normalized
<1>6. "events" \in DOMAIN result
  BY <1>4 DEF Malformed, Normalized
<1>7. NormalizeCloudEvent(integration, mapping, ce).events =
          [i \in DOMAIN result.events |-> [result.events[i] EXCEPT !.event_id = id]]
  BY <1>3, <1>6
<1>8. IsNormal([event EXCEPT !.event_id = id], integration)
  <2>1. PICK new : new = [event EXCEPT !.event_id = id]
    OBVIOUS
  <2>2. /\ IsNormal(event, integration)
        /\ {"integration", "group_namespace", "instances", "raw_payload"} \subseteq DOMAIN event
    BY <1>1, MappedIsNormal
  <2>3. /\ new.integration = event.integration /\ new.instances = event.instances
        /\ new.group_namespace = event.group_namespace /\ new.raw_payload = event.raw_payload
    BY <2>1, <2>2
  <2> QED BY <2>1, <2>2, <2>3 DEF IsNormal, ListsItsAlerts
<1>9. CASE result.events = <<>>
  BY <1>7, <1>9 DEF AllNormal
<1>10. CASE result.events = <<event>>
  <2>1. \A i \in DOMAIN result.events : result.events[i] = event
    BY <1>10
  <2> QED BY <1>7, <1>8, <2>1 DEF AllNormal
<1> QED BY <1>5, <1>9, <1>10

LEMMA AnswersAreNormal ==
    ASSUME NEW c \in Startable, NEW r \in RequestNames
    PROVE  AllNormal(Outcomes[c][r].events)
<1>1. PICK config, request : config = Configs[c] /\ request = Requests[r]
  OBVIOUS
<1>2. Outcomes[c][r].events = Handled(config, request).events
  BY <1>1 DEF Outcomes, Outcome
<1>3. \A code : AllNormal(Answer(code, <<>>).events)
  BY NoEvents DEF Answer
<1>4. ASSUME NEW normalized, AllNormal(normalized.events)
      PROVE  AllNormal(FromNormalizer(normalized).events)
  BY <1>3, <1>4 DEF FromNormalizer, Answer
<1>5. ASSUME NEW name, NEW preset \in BuiltinPresets, NEW body
      PROVE  AllNormal(ProcessBuiltin(name, preset, body).events)
  <2>1. PICK normalized :
            /\ ProcessBuiltin(name, preset, body) = FromNormalizer(normalized)
            /\ normalized \in {NormalizeSigNoz(name, body), NormalizeGrafana(name, body),
                               NormalizeN8n(name, body), NormalizeGvmd(name, body)}
    BY DEF ProcessBuiltin, BuiltinPresets
  <2>2. AllNormal(normalized.events)
    BY <2>1, NormalizersAreNormal
  <2> QED BY <1>4, <2>1, <2>2
<1>6. ASSUME NEW name \in DOMAIN config.integrations
      PROVE  AllNormal(ProcessIntegration(name, config.integrations[name], request).events)
  <2>1. PICK integration : integration = config.integrations[name]
    OBVIOUS
  <2>2. integration.type \in IntegrationTypes /\ IntegrationIsValid(integration)
    BY <1>1, <2>1, ConfigsAreTyped DEF Startable, Accepted, IsAccepted, ConfigIsValid
  <2>3. CASE integration.type = "cloud_events"
    <3>1. ProcessIntegration(name, integration, request) =
              ProcessCloudEvent(name, integration.mapping, request)
      BY <2>3 DEF ProcessIntegration
    <3>2. AllNormal(FromNormalizer(
              NormalizeCloudEvent(name, integration.mapping, request.body)).events)
      BY <1>4, CloudEventIsNormal
    <3> QED BY <1>3, <2>1, <3>1, <3>2 DEF ProcessCloudEvent
  <2>4. CASE integration.type = "builtin"
    <3>1. integration.preset \in BuiltinPresets
      BY <2>2, <2>4 DEF IntegrationIsValid
    <3>2. \/ \E code : ProcessIntegration(name, integration, request) = Answer(code, <<>>)
          \/ ProcessIntegration(name, integration, request) =
                ProcessBuiltin(name, integration.preset, request.body)
      BY <2>4 DEF ProcessIntegration
    <3> QED BY <1>3, <1>5, <2>1, <3>1, <3>2
  <2>5. CASE integration.type = "generic_json"
    <3>1. PICK normalized : normalized = NormalizeMapped(name, integration.source,
                integration.mapping, request.body.id, request.body.scalars)
      OBVIOUS
    <3>2. \/ \E code : ProcessIntegration(name, integration, request) = Answer(code, <<>>)
          \/ ProcessIntegration(name, integration, request) = FromNormalizer(normalized)
      BY <2>5, <3>1 DEF ProcessIntegration
    <3>3. AllNormal(normalized.events)
      BY <3>1, MappingIsNormal
    <3> QED BY <1>3, <1>4, <2>1, <3>2, <3>3
  <2> QED BY <2>2, <2>3, <2>4, <2>5 DEF IntegrationTypes
<1>7. AllNormal(ProcessDefault(request).events)
  <2>1. "signoz" \in BuiltinPresets
    BY DEF BuiltinPresets
  <2> QED BY <1>3, <1>5, <2>1 DEF ProcessDefault
<1>8. PICK names : names = IntegrationAt(config, request.path)
  OBVIOUS
<1>9. names \subseteq DOMAIN config.integrations
  BY <1>8 DEF IntegrationAt
<1>10. \/ \E code : Handled(config, request) = Answer(code, <<>>)
       \/ Handled(config, request) = ProcessDefault(request)
       \/ \E name \in names : Handled(config, request) =
              ProcessIntegration(name, config.integrations[name], request)
  <2>1. PICK name : name = CHOOSE n \in names : TRUE
    OBVIOUS
  <2>2. names # {} => name \in names
    BY <2>1
  <2>3. \/ Handled(config, request) \in {Answer(413, <<>>), Answer(404, <<>>), Answer(401, <<>>)}
        \/ names = {} /\ Handled(config, request) = ProcessDefault(request)
        \/ names # {} /\ Handled(config, request) =
              ProcessIntegration(name, config.integrations[name], request)
    BY <1>8, <2>1 DEF Handled
  <2> QED BY <2>2, <2>3
<1> QED BY <1>2, <1>3, <1>6, <1>7, <1>9, <1>10

----------------------------------------------------------------------------
(* Handlers work on such events and items.                                 *)

LEMMA OutcomesAreReal ==
    ASSUME NEW c \in Startable, NEW r \in RequestNames
    PROVE  /\ IsList(Outcomes[c][r].events) /\ AllNormal(Outcomes[c][r].events)
           /\ \A k \in DOMAIN Outcomes[c][r].work :
                 IsItem(Configs[c], Outcomes[c][r].events, Outcomes[c][r].work[k])
<1>1. IsList(Configs[c].routing.routes)
  BY PipelineAssumption DEF Startable, Accepted, IsList
<1>2. PICK events : events = Outcomes[c][r].events
  OBVIOUS
<1>3. IsList(events)
  BY <1>2, PipelineAssumption DEF IsList
<1>4. Outcomes[c][r].work = WorkOn(Configs[c], events)
  BY <1>2 DEF Outcomes, Outcome
<1> QED BY <1>1, <1>2, <1>3, <1>4, WorkIsReal, AnswersAreNormal

(* The event of a row is one of its request's, the delivery goes to a      *)
(* receiver of the file the request came under.                            *)
LEMMA RowsAreNormal ==
    ASSUME HandlersAreReal, RequestsAreReal, NEW row, IsRow(row)
    PROVE  LET h == handlers[row[1]]
           IN  /\ h.config \in Startable
               /\ EventId(row)[1] = row[1] /\ EventId(row)[2] \in DOMAIN h.events
               /\ \E integration : IsNormal(EventOf(EventId(row)), integration)
               /\ IsItem(Configs[h.config], h.events, ItemOf(row))
<1>1. PICK n, k : n = row[1] /\ k = row[2]
  OBVIOUS
<1>2. n \in DOMAIN handlers /\ k \in 1 .. Len(handlers[n].work)
  BY <1>1 DEF IsRow, IsEventId
<1>3. PICK c, r : c = handlers[n].config /\ r = handlers[n].request
  OBVIOUS
<1>4. c \in Startable /\ r \in RequestNames
  BY <1>2, <1>3, HandlerFields DEF HandlerRecord
<1>5. handlers[n].events = Outcomes[c][r].events /\ handlers[n].work = Outcomes[c][r].work
  BY <1>2, <1>3 DEF RequestsAreReal, RequestIsReal, TakenAs
<1>6. k \in DOMAIN handlers[n].work
  BY <1>2, HandlerFields, ListFields DEF Ordered
<1>7. IsItem(Configs[c], handlers[n].events, handlers[n].work[k])
  BY <1>4, <1>5, <1>6, OutcomesAreReal
<1>8. EventId(row) = <<n, handlers[n].work[k].event>> /\ ItemOf(row) = handlers[n].work[k]
  BY <1>1 DEF EventId, ItemOf
<1>9. EventOf(EventId(row)) = handlers[n].events[handlers[n].work[k].event]
  BY <1>8 DEF EventOf
<1>10. handlers[n].work[k].event \in DOMAIN handlers[n].events
  BY <1>7 DEF IsItem
<1>11. \E integration : IsNormal(EventOf(EventId(row)), integration)
  BY <1>4, <1>5, <1>9, <1>10, OutcomesAreReal DEF AllNormal
<1> QED BY <1>1, <1>3, <1>4, <1>7, <1>8, <1>10, <1>11

(* What is in a batch has its key, and there is always something to send.  *)
BatchesAreKeyed ==
    \A b \in DOMAIN batches :
        /\ batches[b].key # {}
        /\ \A row \in Range(batches[b].members) : RowKey(row) = batches[b].key

WorkersAreReal == \A row \in workers : IsRow(row)

LEMMA RowKeysKept ==
    ASSUME HandlersAreReal, RequestsKept, NEW row, IsRow(row)
    PROVE  RowKey(row)' = RowKey(row) /\ IsRow(row)'
<1>1. PICK n, k : n = row[1] /\ k = row[2]
  OBVIOUS
<1>2. n \in DOMAIN handlers
  BY <1>1 DEF IsRow, IsEventId
<1>3. /\ handlers'[n].events = handlers[n].events /\ handlers'[n].work = handlers[n].work
      /\ IsRow(row)'
  BY <1>1, <1>2, NamesKept DEF RequestsKept, SameRequest
<1>4. ItemOf(row)' = ItemOf(row)
  BY <1>1, <1>3 DEF ItemOf
<1>5. EventId(row)' = EventId(row) /\ Delivery(row)' = Delivery(row) /\ EventId(row)[1] = n
  BY <1>1, <1>4 DEF EventId, Delivery
<1>6. EventOf(EventId(row))' = EventOf(EventId(row))
  BY <1>3, <1>5 DEF EventOf
<1> QED BY <1>3, <1>5, <1>6 DEF RowKey

(* The batches keep what they hold, or lose of it.                         *)
LEMMA KeyedByLess ==
    ASSUME HandlersAreReal, RequestsKept, DeliveriesAreReal, BatchesAreKeyed,
           DOMAIN batches' \subseteq DOMAIN batches,
           \A b \in DOMAIN batches' :
              /\ batches'[b].key = batches[b].key
              /\ Range(batches'[b].members) \subseteq Range(batches[b].members)
    PROVE  BatchesAreKeyed'
<1>1. ASSUME NEW b \in DOMAIN batches', NEW row \in Range(batches'[b].members)
      PROVE  RowKey(row)' = batches'[b].key
  <2>1. row \in DOMAIN rows
    BY DEF DeliveriesAreReal, BatchIsReal
  <2>2. IsRow(row)
    BY <2>1 DEF DeliveriesAreReal, RowIsReal
  <2>3. RowKey(row)' = RowKey(row)
    BY <2>2, RowKeysKept
  <2> QED BY <2>3 DEF BatchesAreKeyed
<1> QED BY <1>1 DEF BatchesAreKeyed

LEMMA KeyedByJoining ==
    ASSUME HandlersAreReal, RequestsKept, DeliveriesAreReal, BatchesAreKeyed,
           NEW row, IsRow(row), RowKey(row) # {}, NEW b, Joined(b, row)
    PROVE  BatchesAreKeyed'
<1>1. /\ DOMAIN batches' = DOMAIN batches \cup {b}
      /\ \A c \in DOMAIN batches \ {b} : batches'[c] = batches[c]
      /\ batches'[b].key = RowKey(row)
      /\ b \in DOMAIN batches => batches[b].key = RowKey(row)
      /\ Range(batches'[b].members) =
            (IF b \in DOMAIN batches THEN Range(batches[b].members) ELSE {}) \cup {row}
  BY DEF Joined
<1>2. ASSUME NEW c \in DOMAIN batches, NEW r \in Range(batches[c].members)
      PROVE  RowKey(r)' = batches[c].key
  <2>1. r \in DOMAIN rows
    BY DEF DeliveriesAreReal, BatchIsReal
  <2>2. IsRow(r)
    BY <2>1 DEF DeliveriesAreReal, RowIsReal
  <2>3. RowKey(r)' = RowKey(r)
    BY <2>2, RowKeysKept
  <2> QED BY <2>3 DEF BatchesAreKeyed
<1>3. RowKey(row)' = RowKey(row)
  BY RowKeysKept
<1>4. ASSUME NEW c \in DOMAIN batches'
      PROVE  /\ batches'[c].key # {}
             /\ \A r \in Range(batches'[c].members) : RowKey(r)' = batches'[c].key
  <2>1. CASE c = b
    BY <1>1, <1>2, <1>3, <2>1
  <2>2. CASE c # b
    BY <1>1, <1>2, <2>2 DEF BatchesAreKeyed
  <2> QED BY <2>1, <2>2
<1> QED BY <1>4 DEF BatchesAreKeyed

LEMMA BatchesStayKeyed ==
    ASSUME HandlersAreReal, DeliveriesAreReal, InProgress, BatchesAreKeyed, [Next]_vars
    PROVE  BatchesAreKeyed'
<1>0. RequestsKept
  BY EveryStepOnward DEF Onward
<1>1. CASE (\E c \in Accepted : Start(c)) \/ Prune
  <2>1. PICK retention : Pruned(retention)
    <3>1. CASE \E c \in Accepted : Start(c)
      BY <3>1, Zenon DEF Start
    <3>2. CASE Prune
      BY <3>2, Zenon DEF Prune
    <3> QED BY <1>1, <3>1, <3>2
  <2>2. PICK old : DeliveriesPruned(old)
    BY <2>1, PrunedDeliveries
  <2> QED BY <1>0, <2>2, KeyedByLess DEF DeliveriesPruned
<1>2. CASE \E n \in DOMAIN handlers : Handle(n)
  <2>1. PICK n \in DOMAIN handlers : Handle(n) /\ IsOpen(n)
    BY <1>2 DEF Handle, IsOpen
  <2>2. CASE QueueDelivery(n)
    <3>1. PICK row : Queued(n, row)
      BY <2>1, <2>2, QueueEffect
    <3>2. IsRow(row)
      BY <2>1, <3>1, OpenRow DEF Queued
    <3>3. CASE UNCHANGED batches
      BY <1>0, <3>3, KeyedByLess
    <3>4. CASE RowKey(row) # {} /\ \E b : Joined(b, row)
      BY <1>0, <3>2, <3>4, KeyedByJoining
    <3> QED BY <3>1, <3>3, <3>4 DEF Queued
  <2>3. CASE StoreEvent(n) \/ QueueEscalation(n) \/ Fail(n)
    <3>1. UNCHANGED batches
      BY <2>3 DEF StoreEvent, QueueEscalation, Fail
    <3> QED BY <1>0, <3>1, KeyedByLess
  <2> QED BY <2>1, <2>2, <2>3 DEF Handle
<1>3. CASE Send
  <2>1. /\ DOMAIN batches' = DOMAIN batches
        /\ \A b \in DOMAIN batches :
              batches'[b].members = batches[b].members /\ batches'[b].key = batches[b].key
    BY <1>3, SendEffect DEF SettlesRow, SettlesBatch
  <2> QED BY <1>0, <2>1, KeyedByLess
<1>4. CASE \/ \E r \in RequestNames : Receive(r)
           \/ Tick \/ Crash \/ Quiet \/ UNCHANGED vars
  <2>1. UNCHANGED batches
    BY <1>4 DEF Receive, Tick, Crash, Quiet, vars, storeVars
  <2> QED BY <1>0, <2>1, KeyedByLess
<1> QED BY <1>1, <1>2, <1>3, <1>4, Zenon DEF Next

LEMMA WorkersStayReal ==
    ASSUME HandlersAreReal, DeliveriesAreReal, InProgress, WorkersAreReal, [Next]_vars
    PROVE  WorkersAreReal'
<1>0. RequestsKept
  BY EveryStepOnward DEF Onward
<1>1. \A row : IsRow(row) => IsRow(row)'
  BY <1>0, RowKeysKept
<1>2. \A row \in workers' : row \in workers \/ IsRow(row)
  <2>1. CASE \E c \in Accepted : Start(c)
    <3>1. workers' = Recovered \/ UNCHANGED workers
      BY <2>1, Zenon DEF Start
    <3>2. \A row \in Recovered : IsRow(row)
      BY DEF Recovered, DeliveriesAreReal, RowIsReal
    <3> QED BY <3>1, <3>2
  <2>2. CASE \E n \in DOMAIN handlers : Handle(n)
    <3>1. PICK n \in DOMAIN handlers : Handle(n) /\ IsOpen(n)
      BY <2>2 DEF Handle, IsOpen
    <3>2. IsRow(<<n, handlers[n].k>>)
      BY <3>1, OpenRow
    <3>3. workers' \subseteq workers \cup {<<n, handlers[n].k>>}
      <4>1. CASE QueueDelivery(n)
        <5>1. PICK row, own : /\ row = <<n, handlers[n].k>>
                              /\ UNCHANGED workers \/ NextItem(n, own)
                              /\ own = IF IsBatched(row) THEN {} ELSE {row}
          BY <4>1, Zenon DEF QueueDelivery
        <5> QED BY <5>1 DEF NextItem
      <4>2. CASE QueueEscalation(n)
        <5>1. NextItem(n, {<<n, handlers[n].k>>} \ MemberRows)
          BY <4>2, Zenon DEF QueueEscalation
        <5> QED BY <5>1 DEF NextItem
      <4>3. CASE StoreEvent(n) \/ Fail(n)
        BY <4>3 DEF StoreEvent, Fail
      <4> QED BY <3>1, <4>1, <4>2, <4>3 DEF Handle
    <3> QED BY <3>2, <3>3
  <2>3. CASE Send
    <3>1. workers' \subseteq workers
      BY <2>3, SendEffect DEF SettlesRow, SettlesBatch
    <3> QED BY <3>1
  <2>4. CASE \/ \E r \in RequestNames : Receive(r)
             \/ Prune \/ Tick \/ Crash \/ Quiet \/ UNCHANGED vars
    <3>1. workers' = workers \/ workers' = {}
      BY <2>4 DEF Receive, Prune, Tick, Crash, Quiet, vars
    <3> QED BY <3>1
  <2> QED BY <2>1, <2>2, <2>3, <2>4, Zenon DEF Next
<1> QED BY <1>1, <1>2 DEF WorkersAreReal

----------------------------------------------------------------------------
(* The messages under way.                                                 *)

ContentInvariant == AnswerInvariant /\ BatchesAreKeyed /\ WorkersAreReal

LEMMA ContentsStart == Init => ContentInvariant
BY AnswersStart DEF Init, ContentInvariant, BatchesAreKeyed, WorkersAreReal

LEMMA ContentsStay == ContentInvariant /\ [Next]_vars => ContentInvariant'
<1> SUFFICES ASSUME ContentInvariant, [Next]_vars PROVE ContentInvariant'
  OBVIOUS
<1>1. /\ HandlersAreReal /\ DeliveriesAreReal /\ InProgress
      /\ BatchesAreKeyed /\ WorkersAreReal
  BY DEF ContentInvariant, AnswerInvariant, PipelineInvariant
<1>2. AnswerInvariant'
  BY AnswersStay DEF ContentInvariant
<1> QED BY <1>1, <1>2, BatchesStayKeyed, WorkersStayReal DEF ContentInvariant

(* The key of a batch tells its receiver and its status.                   *)
LEMMA KeysTell ==
    ASSUME NEW e, NEW f, NEW d, NEW g, BatchKey(e, d) # {}, BatchKey(f, g) = BatchKey(e, d)
    PROVE  e.status = f.status /\ d.receiver = g.receiver
<1>1. \A event, delivery : BatchKey(event, delivery) # {} =>
          \E grouping : BatchKey(event, delivery) = {BatchIdentity(event, delivery, grouping)}
  BY DEF BatchKey
<1>2. PICK one, other : BatchIdentity(e, d, one) = BatchIdentity(f, g, other)
  <2>1. PICK one, other : BatchKey(e, d) = {BatchIdentity(e, d, one)}
                          /\ BatchKey(f, g) = {BatchIdentity(f, g, other)}
    BY <1>1
  <2> QED BY <2>1
<1> QED BY <1>2 DEF BatchIdentity

(* What is sent together: rows that are there, of one key if they are      *)
(* batched, one row if they are not.                                       *)
IsSent(ids, batched) ==
    /\ batched \in BOOLEAN /\ 1 \in DOMAIN ids
    /\ \A i \in DOMAIN ids : IsRow(ids[i])
    /\ IF batched
       THEN RowKey(ids[1]) # {} /\ \A i \in DOMAIN ids : RowKey(ids[i]) = RowKey(ids[1])
       ELSE DOMAIN ids = {1}

LEMMA AttemptsAreSent ==
    ASSUME ContentInvariant, NEW attempt \in UnderWay
    PROVE  IsSent(attempt[1], attempt[2])
<1>1. CASE \E row \in workers : attempt = <<<<row>>, FALSE>>
  <2>1. PICK row \in workers : attempt = <<<<row>>, FALSE>>
    BY <1>1
  <2>2. IsRow(row)
    BY DEF ContentInvariant, WorkersAreReal
  <2>3. DOMAIN <<row>> = {1} /\ <<row>>[1] = row
    OBVIOUS
  <2>4. attempt[1] = <<row>> /\ attempt[2] = FALSE
    BY <2>1
  <2> QED BY <2>2, <2>3, <2>4 DEF IsSent
<1>2. CASE \E b \in DOMAIN batches : attempt = <<batches[b].members, TRUE>>
  <2>1. PICK b \in DOMAIN batches : attempt = <<batches[b].members, TRUE>>
    BY <1>2
  <2>2. PICK ids : ids = batches[b].members
    OBVIOUS
  <2>3. DeliveriesAreReal /\ BatchesAreKeyed
    BY DEF ContentInvariant, AnswerInvariant, PipelineInvariant
  <2>4. /\ ids \in Seq(Ids) /\ ids # <<>> /\ DOMAIN ids = 1 .. Len(ids)
        /\ Range(ids) \subseteq DOMAIN rows
    BY <2>2, <2>3, BatchFields
  <2>5. 1 \in DOMAIN ids
    BY <2>4
  <2>6. \A i \in DOMAIN ids : ids[i] \in Range(ids)
    BY DEF Range
  <2>7. \A i \in DOMAIN ids : IsRow(ids[i]) /\ RowKey(ids[i]) = batches[b].key
    BY <2>2, <2>3, <2>4, <2>6 DEF DeliveriesAreReal, RowIsReal, BatchesAreKeyed
  <2>8. attempt[1] = ids /\ attempt[2] = TRUE
    BY <2>1, <2>2
  <2> QED BY <2>3, <2>5, <2>7, <2>8 DEF IsSent, BatchesAreKeyed
<1> QED BY <1>1, <1>2 DEF UnderWay

LEMMA SentIsWhole ==
    ASSUME ContentInvariant, up, NEW ids, NEW batched, IsSent(ids, batched)
    PROVE  IsWhole(ids, batched)
<1>0. HandlersAreReal /\ RequestsAreReal /\ running \in Startable
  BY DEF ContentInvariant, AnswerInvariant, PipelineInvariant, HandlersAreReal
<1> DEFINE name == Delivery(ids[1]).receiver
           receivers == Configs[running].receivers
           receiver == receivers[name]
           batch == BatchOf(ids)
           outgoing == OutgoingOf(ids, batched)
<1>1. /\ DOMAIN batch = DOMAIN ids
      /\ \A i \in DOMAIN ids : batch[i] = EventOf(EventId(ids[i]))
  BY DEF BatchOf
<1>2. \A i \in DOMAIN batch : ListsItsAlerts(batch[i])
  BY <1>0, <1>1, RowsAreNormal DEF IsSent, IsNormal
<1>3. batched \in BOOLEAN /\ (batched \/ DOMAIN batch = {1})
  BY <1>1 DEF IsSent
<1>4. batched => \A i \in DOMAIN batch : batch[i].status = batch[1].status
  <2> SUFFICES ASSUME batched, NEW i \in DOMAIN ids
               PROVE  batch[i].status = batch[1].status
    BY <1>1
  <2>1. RowKey(ids[1]) # {} /\ RowKey(ids[i]) = RowKey(ids[1]) /\ 1 \in DOMAIN ids
    BY DEF IsSent
  <2>2. EventOf(EventId(ids[1])).status = EventOf(EventId(ids[i])).status
    BY <2>1, KeysTell DEF RowKey
  <2> QED BY <1>1, <2>1, <2>2
<1>5. IF name \in DOMAIN receivers
      THEN outgoing = Outgoing(receiver, batch, batched) ELSE outgoing = Failed("receiver")
  BY DEF OutgoingOf
<1>6. IsWhole(ids, batched) <=>
        IF HasFailed(outgoing)
        THEN CASE outgoing.failed = "template" -> IsTemplated(receiver) /\ ~ HasFixedTemplate(receiver)
               [] outgoing.failed = "size" ->
                     IsTemplated(receiver) \/ BatchSize(batch) > ByteLimit(receiver.kind)
               [] outgoing.failed = "secret" -> ~ SecretIsThere(receiver)
               [] outgoing.failed = "receiver" -> handlers[ids[1][1]].config # running
        ELSE /\ ShapeIsValid(receiver.kind, outgoing.fields)
             /\ batched => \A i \in DOMAIN batch : batch[i].status = batch[1].status
             /\ \/ IsTemplated(receiver)
                \/ receiver.kind = "discord" /\ InstanceCount(batch) > DiscordLines
                \/ \A i \in DOMAIN batch : IsNamed(batch[i], outgoing)
  BY DEF IsWhole
<1>7. CASE name \in DOMAIN receivers
  <2>1. ReceiverIsReal(receiver)
    BY <1>0, <1>7, ReceiversAreReal
  <2>2. IsAsPromised(receiver, batch, outgoing)
    <3> HIDE DEF receiver, batch, name, receivers
    <3>1. IsAsPromised(receiver, batch, Outgoing(receiver, batch, batched))
      BY <1>2, <1>3, <2>1, OutgoingIsWhole
    <3> HIDE DEF outgoing
    <3> QED BY <1>5, <1>7, <3>1
  <2> HIDE DEF receiver, batch, outgoing, name, receivers
  <2> QED BY <1>4, <1>6, <2>2 DEF IsAsPromised, ShowsAll
<1>8. CASE name \notin DOMAIN receivers
  <2>1. IsRow(ids[1])
    BY DEF IsSent
  <2>2. name \in DOMAIN Configs[handlers[ids[1][1]].config].receivers
    BY <1>0, <2>1, RowsAreNormal DEF IsItem, Delivery
  <2>3. handlers[ids[1][1]].config # running
    BY <1>8, <2>2
  <2>4. outgoing = Failed("receiver")
    BY <1>5, <1>8
  <2>5. HasFailed(outgoing) /\ outgoing.failed = "receiver"
    BY <2>4 DEF HasFailed, Failed
  <2> HIDE DEF receiver, batch, outgoing, name, receivers
  <2> QED BY <1>6, <2>3, <2>5
<1> QED BY <1>7, <1>8

(* Whatever the file, the requests, the templates and the weights of the   *)
(* alerts: every message under way has its target's shape, and shows every *)
(* event behind it unless a template or Discord's text limit decides; one  *)
(* that is batched shows the one status all its events have; and a message *)
(* is given up only over a template that depends on the event, a size that *)
(* the contract's limit forbids, a missing secret, or a receiver of        *)
(* another file (google_chat.rs:38-594; template.rs:123-280).              *)
THEOREM MessagesAlwaysWhole == Spec => []MessagesAreWhole
<1>1. ContentInvariant => MessagesAreWhole
  BY AttemptsAreSent, SentIsWhole DEF MessagesAreWhole
<1> QED BY <1>1, ContentsStart, ContentsStay, PTL DEF Spec
----------------------------------------------------------------------------
(* The groups of the events.                                               *)

OwnerOf(e) == FirstOwnerTeam(Planned(Configs[handlers[e[1]].config], EventOf(e)))

(* An event of its request is in the group of its key; if it has an owning *)
(* team, so has the group.                                                 *)
IsFiled(e, g) ==
    /\ e[2] \in DOMAIN handlers[e[1]].events
    /\ Key(g) = Key(e)
    /\ OwnerOf(e) \in Teams => alertGroups[g].team # Absent

EventsAreFiled == \A e \in DOMAIN alertEvents : IsFiled(e, alertEvents[e].group)

(* A group that has a team and stays keeps a team.                         *)
TeamsRemain ==
    \A g \in DOMAIN alertGroups :
        g \in DOMAIN alertGroups' /\ alertGroups[g].team # Absent =>
            alertGroups'[g].team # Absent

LEMMA OwnersKept ==
    ASSUME HandlersAreReal, RequestsKept, NEW e, e[1] \in DOMAIN handlers
    PROVE  /\ OwnerOf(e)' = OwnerOf(e)
           /\ handlers'[e[1]].events = handlers[e[1]].events
<1>1. PICK n : n = e[1]
  OBVIOUS
<1>2. handlers'[n].config = handlers[n].config /\ handlers'[n].events = handlers[n].events
  BY <1>1 DEF RequestsKept, SameRequest
<1>3. EventOf(e)' = EventOf(e)
  BY <1>1, <1>2 DEF EventOf
<1> QED BY <1>1, <1>2, <1>3 DEF OwnerOf

LEMMA StaysFiled ==
    ASSUME HandlersAreReal, RequestsKept, AlertsAreReal, EventsAreFiled, TeamsRemain,
           NEW e \in DOMAIN alertEvents, NEW g, g = alertEvents[e].group,
           g \in DOMAIN alertGroups'
    PROVE  IsFiled(e, g)'
<1>1. IsFiled(e, g) /\ g \in DOMAIN alertGroups /\ e[1] \in DOMAIN handlers
  BY DEF EventsAreFiled, AlertsAreReal, EventIsReal, IsEventId
<1>2. g[1] \in DOMAIN handlers
  BY <1>1 DEF AlertsAreReal, GroupIsReal, IsEventId
<1>3. Key(e)' = Key(e) /\ Key(g)' = Key(g)
  BY <1>1, <1>2, NamesKept
<1>4. OwnerOf(e)' = OwnerOf(e) /\ handlers'[e[1]].events = handlers[e[1]].events
  BY <1>1, OwnersKept
<1> QED BY <1>1, <1>3, <1>4 DEF IsFiled, TeamsRemain

(* The group an event is counted in has the event's team, or had its own.  *)
LEMMA UpsertedTeams ==
    ASSUME HandlersAreReal, AlertsAreReal, NEW id, IsEventId(id), NEW owner, NEW g,
           alertGroups' = Upserted(id, owner), GrowsBy(id, g)
    PROVE  /\ TeamsRemain
           /\ owner \in Teams => alertGroups'[g].team # Absent
<1> DEFINE known == {f \in DOMAIN alertGroups : Key(f) = Key(id)}
           status == AlertStatus(EventOf(id))
           team == IF owner \in Teams THEN owner ELSE Absent
           new == [status |-> status, count |-> 1, team |-> team,
                   first |-> today, last |-> today]
<1>1. owner \in Teams => team # Absent
  BY TeamsAreNamed
<1>2. /\ DOMAIN alertGroups' = DOMAIN alertGroups \cup {g} /\ Key(g) = Key(id)
      /\ \A f \in DOMAIN alertGroups \ {g} : alertGroups'[f] = alertGroups[f]
      /\ \A f \in DOMAIN alertGroups : Key(f) = Key(g) => f = g
  BY DEF GrowsBy
<1>3. CASE known = {}
  <2>1. alertGroups' = Inserted(alertGroups, id, new)
    BY <1>3, Zenon DEF Upserted
  <2>2. new.team = team
    OBVIOUS
  <2> HIDE DEF new, team
  <2>3. id \notin DOMAIN alertGroups /\ alertGroups'[id] = new
        /\ DOMAIN alertGroups' = DOMAIN alertGroups \cup {id}
    BY <1>3, <2>1 DEF Inserted
  <2>4. g \notin DOMAIN alertGroups
    BY <1>2, <1>3
  <2>5. g = id
    BY <1>2, <2>3, <2>4
  <2> QED BY <1>1, <1>2, <2>2, <2>3, <2>4, <2>5 DEF TeamsRemain
<1>4. CASE known # {}
  <2>1. PICK f : f = CHOOSE h \in known : TRUE
    OBVIOUS
  <2>2. f \in DOMAIN alertGroups /\ f = g
    BY <1>2, <1>4, <2>1
  <2>3. alertGroups' = [alertGroups EXCEPT ![f].status = status, ![f].count = @ + 1,
                                  ![f].team = Or(@, team), ![f].last = today]
    BY <1>4, <2>1, Zenon DEF Upserted
  <2>4. PICK old : old = alertGroups[g]
    OBVIOUS
  <2>5. old \in GroupRecord
    BY <2>2, <2>4 DEF AlertsAreReal, GroupIsReal
  <2> HIDE DEF status, team, known
  <2>6. alertGroups'[g] = [old EXCEPT !.status = status, !.count = @ + 1,
                                      !.team = Or(@, team), !.last = today]
    BY <2>2, <2>3, <2>4
  <2>7. alertGroups'[g].team = Or(old.team, team)
    BY <2>5, <2>6 DEF GroupRecord
  <2>8. old.team # Absent \/ team # Absent => alertGroups'[g].team # Absent
    BY <2>7 DEF Or
  <2> QED BY <1>1, <1>2, <2>2, <2>4, <2>8 DEF TeamsRemain
<1> QED BY <1>3, <1>4

(* The groups and events a pruning leaves.                                 *)
LEMMA FiledAfterPruning ==
    ASSUME HandlersAreReal, RequestsKept, AlertsAreReal, EventsAreFiled,
           NEW old, EventsPruned(old)
    PROVE  EventsAreFiled'
<1>1. TeamsRemain
  <2> SUFFICES ASSUME NEW g \in DOMAIN alertGroups', alertGroups[g].team # Absent
               PROVE  alertGroups'[g].team # Absent
    BY DEF TeamsRemain
  <2>1. PICK was, count, first, last :
            /\ was = alertGroups[g] /\ count = Cardinality(EventsOf(g) \ old)
            /\ first = Min(DaysLeft(g, old)) /\ last = Max(DaysLeft(g, old))
    OBVIOUS
  <2>2. was \in GroupRecord
    BY <2>1, GroupsAfterPruning DEF AlertsAreReal, GroupIsReal
  <2>3. \/ alertGroups'[g] = was
        \/ alertGroups'[g] = [was EXCEPT !.count = count, !.first = first, !.last = last]
    BY <2>1, GroupsAfterPruning
  <2>4. alertGroups'[g].team = was.team
    BY <2>2, <2>3 DEF GroupRecord
  <2> QED BY <2>1, <2>4
<1>2. ASSUME NEW e \in DOMAIN alertEvents'
      PROVE  IsFiled(e, alertEvents[e].group)'
  <2>1. PICK g : g = alertEvents[e].group
    OBVIOUS
  <2>2. /\ e \in DOMAIN alertEvents /\ g \in DOMAIN alertGroups'
        /\ alertEvents'[e] = alertEvents[e]
    BY <2>1, GroupsAfterPruning DEF EventsPruned
  <2>3. IsFiled(e, g)'
    BY <1>1, <2>1, <2>2, StaysFiled
  <2>4. alertEvents'[e].group = g
    BY <2>1, <2>2
  <2> QED BY <2>3, <2>4 DEF IsFiled
<1> QED BY <1>2 DEF EventsAreFiled

(* The first statement of a store: the group of the event it is about has  *)
(* the event's owner.                                                      *)
LEMMA FiledByUpsert ==
    ASSUME HandlersAreReal, RequestsAreReal, RequestsKept, AlertsAreReal, EventsAreFiled,
           NEW n \in DOMAIN handlers, IsOpen(n), HalfStored(n), NEW e, e = <<n, EventAt(n)>>
    PROVE  /\ TeamsRemain /\ DOMAIN alertGroups \subseteq DOMAIN alertGroups'
           /\ \E g : /\ g = GroupAfter(EventId(<<n, handlers[n].k>>), ItemOf(<<n, handlers[n].k>>).owner)
                     /\ IsFiled(e, g)'
<1>1. PICK row : row = <<n, handlers[n].k>>
  OBVIOUS
<1>2. PICK id, owner : id = EventId(row) /\ owner = ItemOf(row).owner
  OBVIOUS
<1>3. /\ alertGroups' = Upserted(id, owner) /\ id = <<n, EventAt(n)>> /\ IsEventId(id)
      /\ id[1] = n /\ IsRow(row) /\ row[1] = n
  <2>1. alertGroups' = Upserted(id, owner)
    BY <1>1, <1>2, Zenon DEF HalfStored
  <2>2. IsRow(row) /\ id = <<n, EventAt(n)>> /\ IsEventId(id)
    BY <1>1, <1>2, OpenRow
  <2> QED BY <1>1, <2>1, <2>2
<1>4. PICK g : GrowsBy(id, g) /\ GroupAfter(id, owner) = g
  BY <1>2, <1>3, UpsertEffect
<1>5. TeamsRemain /\ (owner \in Teams => alertGroups'[g].team # Absent)
  BY <1>3, <1>4, UpsertedTeams
<1>6. DOMAIN alertGroups \subseteq DOMAIN alertGroups' /\ Key(g) = Key(id) /\ g[1] \in DOMAIN handlers
  BY <1>4 DEF GrowsBy, IsEventId
<1>7. Key(g)' = Key(g) /\ Key(id)' = Key(id)
  BY <1>3, <1>6, NamesKept
<1>8. /\ handlers'[n].events = handlers[n].events /\ OwnerOf(id)' = OwnerOf(id)
  BY <1>3, OwnersKept
<1>9. /\ id[2] \in DOMAIN handlers[n].events
      /\ IsItem(Configs[handlers[n].config], handlers[n].events, ItemOf(row))
  BY <1>2, <1>3, RowsAreNormal
<1>10. owner = OwnerOf(id)
  <2>1. id[2] = ItemOf(row).event
    BY <1>2 DEF EventId
  <2>2. EventOf(id) = handlers[n].events[ItemOf(row).event]
    BY <1>3, <2>1 DEF EventOf
  <2> QED BY <1>2, <1>3, <1>9, <2>2 DEF IsItem, OwnerOf
<1>11. IsFiled(e, g)'
  <2>1. e = id
    BY <1>3
  <2> QED BY <2>1, <1>3, <1>5, <1>6, <1>7, <1>8, <1>9, <1>10 DEF IsFiled
<1> QED BY <1>1, <1>2, <1>3, <1>4, <1>5, <1>6, <1>11

LEMMA EventsStayFiled ==
    ASSUME HandlersAreReal, RequestsAreReal, AlertsAreReal, EventsAreFiled, [Next]_vars
    PROVE  EventsAreFiled'
<1>0. RequestsKept
  BY EveryStepOnward DEF Onward
<1>1. ASSUME UNCHANGED alertEvents, TeamsRemain, DOMAIN alertGroups \subseteq DOMAIN alertGroups'
      PROVE  EventsAreFiled'
  <2> SUFFICES ASSUME NEW e \in DOMAIN alertEvents PROVE IsFiled(e, alertEvents[e].group)'
    BY <1>1 DEF EventsAreFiled, IsFiled
  <2>1. PICK g : g = alertEvents[e].group
    OBVIOUS
  <2>2. g \in DOMAIN alertGroups
    BY <2>1 DEF AlertsAreReal, EventIsReal
  <2>3. IsFiled(e, g)'
    BY <1>0, <1>1, <2>1, <2>2, StaysFiled
  <2> QED BY <1>1, <2>1, <2>3 DEF IsFiled
<1>2. CASE (\E c \in Accepted : Start(c)) \/ Prune
  <2>1. PICK retention : Pruned(retention) /\ UNCHANGED <<today, troubles>>
    <3>1. CASE \E c \in Accepted : Start(c)
      BY <3>1, Zenon DEF Start
    <3>2. CASE Prune
      BY <3>2, Zenon DEF Prune
    <3> QED BY <1>2, <3>1, <3>2
  <2> QED BY <1>0, <2>1, PrunedEvents, FiledAfterPruning
<1>3. CASE \E n \in DOMAIN handlers : Handle(n)
  <2>1. PICK n \in DOMAIN handlers : Handle(n) /\ IsOpen(n)
    BY <1>3 DEF Handle, IsOpen
  <2>2. CASE StoreEvent(n)
    <3>1. HalfStored(n)
      BY <2>2 DEF StoreEvent, HalfStored
    <3>2. TeamsRemain /\ DOMAIN alertGroups \subseteq DOMAIN alertGroups'
      BY <1>0, <2>1, <3>1, FiledByUpsert
    <3>3. PICK id : id = <<n, EventAt(n)>>
      OBVIOUS
    <3>4. PICK g :
              /\ g = GroupAfter(EventId(<<n, handlers[n].k>>), ItemOf(<<n, handlers[n].k>>).owner)
              /\ IsFiled(id, g)'
      BY <1>0, <2>1, <3>1, <3>3, FiledByUpsert
    <3>5. alertEvents' = Inserted(alertEvents, id, [group |-> g, day |-> today])
      BY <2>1, <2>2, <3>3, <3>4, OpenRow DEF StoreEvent
    <3>6. ASSUME NEW e \in DOMAIN alertEvents', e # id
          PROVE  IsFiled(e, alertEvents[e].group)'
      <4>1. e \in DOMAIN alertEvents /\ alertEvents'[e] = alertEvents[e]
        BY <3>5, <3>6 DEF Inserted
      <4>2. PICK f : f = alertEvents[e].group
        OBVIOUS
      <4>3. f \in DOMAIN alertGroups'
        BY <3>2, <4>1, <4>2 DEF AlertsAreReal, EventIsReal
      <4>4. IsFiled(e, f)'
        BY <1>0, <3>2, <4>1, <4>2, <4>3, StaysFiled
      <4> QED BY <4>1, <4>2, <4>4 DEF IsFiled
    <3>7. ASSUME NEW e \in DOMAIN alertEvents', e = id
          PROVE  IsFiled(e, alertEvents[e].group)'
      <4>1. alertEvents'[e].group = g
        BY <3>5, <3>7 DEF Inserted
      <4> QED BY <3>4, <3>7, <4>1 DEF IsFiled
    <3> QED BY <3>6, <3>7 DEF EventsAreFiled
  <2>3. CASE QueueDelivery(n) \/ QueueEscalation(n)
    <3>1. UNCHANGED <<alertGroups, alertEvents>>
      BY <2>3 DEF QueueDelivery, QueueEscalation
    <3> QED BY <1>1, <3>1 DEF TeamsRemain
  <2>4. CASE Fail(n)
    <3>1. UNCHANGED alertEvents /\ (UNCHANGED alertGroups \/ HalfStored(n))
      BY <2>4 DEF Fail
    <3>2. TeamsRemain /\ DOMAIN alertGroups \subseteq DOMAIN alertGroups'
      BY <1>0, <2>1, <3>1, FiledByUpsert DEF TeamsRemain
    <3> QED BY <1>1, <3>1, <3>2
  <2> QED BY <2>1, <2>2, <2>3, <2>4 DEF Handle
<1>4. CASE Crash
  <2>1. UNCHANGED alertEvents /\ (UNCHANGED alertGroups \/ \E n \in OpenHandlers : HalfStored(n))
    BY <1>4 DEF Crash
  <2>2. TeamsRemain /\ DOMAIN alertGroups \subseteq DOMAIN alertGroups'
    <3>1. CASE UNCHANGED alertGroups
      BY <3>1 DEF TeamsRemain
    <3>2. CASE \E n \in OpenHandlers : HalfStored(n)
      BY <1>0, <3>2, FiledByUpsert DEF OpenHandlers, IsOpen
    <3> QED BY <2>1, <3>1, <3>2
  <2> QED BY <1>1, <2>1, <2>2
<1>5. CASE \/ \E r \in RequestNames : Receive(r)
           \/ Send \/ Tick \/ Quiet \/ UNCHANGED vars
  <2>1. UNCHANGED <<alertGroups, alertEvents>>
    BY <1>5 DEF Receive, Send, Tick, Quiet, vars, storeVars
  <2> QED BY <1>1, <2>1 DEF TeamsRemain
<1> QED BY <1>2, <1>3, <1>4, <1>5, Zenon DEF Next

IdentityInvariant == ContentInvariant /\ EventsAreFiled

LEMMA IdentitiesStart == Init => IdentityInvariant
BY ContentsStart DEF Init, IdentityInvariant, EventsAreFiled

LEMMA IdentitiesStay == IdentityInvariant /\ [Next]_vars => IdentityInvariant'
BY ContentsStay, EventsStayFiled
   DEF IdentityInvariant, ContentInvariant, AnswerInvariant, PipelineInvariant

LEMMA EventsAreNormal ==
    ASSUME IdentityInvariant, NEW e \in DOMAIN alertEvents
    PROVE  EventOf(e).group_namespace[1] = EventOf(e).integration
<1>1. PICK n, i : n = e[1] /\ i = e[2]
  OBVIOUS
<1>2. /\ HandlersAreReal /\ RequestsAreReal
      /\ n \in DOMAIN handlers /\ i \in DOMAIN handlers[n].events
  BY <1>1 DEF IdentityInvariant, ContentInvariant, AnswerInvariant, PipelineInvariant,
              AlertsAreReal, EventIsReal, IsEventId, EventsAreFiled, IsFiled
<1>3. PICK c, r : c = handlers[n].config /\ r = handlers[n].request
  OBVIOUS
<1>4. c \in Startable /\ r \in RequestNames
  BY <1>2, <1>3, HandlerFields DEF HandlerRecord
<1>5. handlers[n].events = Outcomes[c][r].events
  BY <1>2, <1>3 DEF RequestsAreReal, RequestIsReal, TakenAs
<1>6. EventOf(e) = Outcomes[c][r].events[i]
  BY <1>1, <1>5 DEF EventOf
<1>7. \E integration : IsNormal(EventOf(e), integration)
  BY <1>2, <1>4, <1>5, <1>6, OutcomesAreReal DEF AllNormal
<1> QED BY <1>7 DEF IsNormal

(* Two events are in one group if and only if they have one key.           *)
LEMMA GroupsAreKeys ==
    ASSUME IdentityInvariant, NEW e \in DOMAIN alertEvents, NEW f \in DOMAIN alertEvents
    PROVE  alertEvents[e].group = alertEvents[f].group <=> Key(e) = Key(f)
<1>1. PICK g, h : g = alertEvents[e].group /\ h = alertEvents[f].group
  OBVIOUS
<1>2. Key(g) = Key(e) /\ Key(h) = Key(f)
  BY <1>1 DEF IdentityInvariant, EventsAreFiled, IsFiled
<1>3. g \in DOMAIN alertGroups /\ h \in DOMAIN alertGroups
  BY <1>1 DEF IdentityInvariant, ContentInvariant, AnswerInvariant, PipelineInvariant,
              AlertsAreReal, EventIsReal
<1>4. Key(h) = Key(g) => h = g
  BY <1>3 DEF IdentityInvariant, ContentInvariant, AnswerInvariant, PipelineInvariant,
              AlertsAreReal, GroupIsReal
<1> QED BY <1>1, <1>2, <1>4

(* Whatever the files and the requests, and however calls fail, processes  *)
(* end and records expire: of all events stored, two are in one group if   *)
(* and only if they are of one integration, namespace and fingerprint, and *)
(* a group with events of an owning team belongs to a team                 *)
(* (storage.rs:1906-1985, and what every normalizer makes the namespace    *)
(* of: two integrations never share a group).                              *)
THEOREM GroupsAlwaysKeyed == Spec => []GroupsAreKeyed
<1>1. IdentityInvariant => GroupsAreKeyed
  <2> SUFFICES ASSUME IdentityInvariant,
                      NEW e \in DOMAIN alertEvents, NEW f \in DOMAIN alertEvents
               PROVE  /\ alertEvents[e].group = alertEvents[f].group <=>
                            /\ EventOf(e).integration = EventOf(f).integration
                            /\ EventOf(e).group_namespace = EventOf(f).group_namespace
                            /\ EventOf(e).fingerprint = EventOf(f).fingerprint
                      /\ OwnerOf(e) \in Teams => alertGroups[alertEvents[e].group].team # Absent
    BY DEF GroupsAreKeyed, OwnerOf
  <2>1. PICK x, y : x = EventOf(e) /\ y = EventOf(f)
    OBVIOUS
  <2>2. x.group_namespace[1] = x.integration /\ y.group_namespace[1] = y.integration
    BY <2>1, EventsAreNormal
  <2>3. alertEvents[e].group = alertEvents[f].group <=>
            x.group_namespace = y.group_namespace /\ x.fingerprint = y.fingerprint
    <3>1. Key(e) = Key(f) <=>
              x.group_namespace = y.group_namespace /\ x.fingerprint = y.fingerprint
      BY <2>1 DEF Key
    <3> QED BY <3>1, GroupsAreKeys
  <2>4. OwnerOf(e) \in Teams => alertGroups[alertEvents[e].group].team # Absent
    BY DEF IdentityInvariant, EventsAreFiled, IsFiled
  <2> QED BY <2>1, <2>2, <2>3, <2>4
<1> QED BY <1>1, IdentitiesStart, IdentitiesStay, PTL DEF Spec

(* For any files and requests, through concurrent handlers, torn writes,   *)
(* crashes and pruning, the store is one whole: the tables agree           *)
(* (storage.rs:2652-2808), and a group holds just the events of its key    *)
(* (storage.rs:1906-1985).                                                 *)
THEOREM StoreAlwaysConsistent == Spec => []StoreIsConsistent
<1>1. TablesAgree /\ GroupsAreKeyed => StoreIsConsistent
  BY DEF StoreIsConsistent
<1> QED BY <1>1, TablesAlwaysAgree, GroupsAlwaysKeyed, PTL

----------------------------------------------------------------------------
(* The alerts of a body.                                                   *)

(* Each of the alerts listed is in one of the events.                      *)
AllCarried(events, listed) ==
    \A alert \in Range(listed) : Cardinality(Carriers(events, alert)) = 1

LEMMA OneCarrier ==
    ASSUME NEW events, NEW alert, NEW i, i \in Carriers(events, alert),
           \A j \in Carriers(events, alert) : j = i
    PROVE  Cardinality(Carriers(events, alert)) = 1
<1>1. Carriers(events, alert) = {i}
  OBVIOUS
<1> QED BY <1>1, FS_Singleton

(* One event for each.                                                     *)
LEMMA CarriedApart ==
    ASSUME NEW events, NEW listed, DOMAIN events = DOMAIN listed, IsInjective(listed),
           \A i \in DOMAIN events : events[i].raw_payload.alerts = {listed[i]}
    PROVE  AllCarried(events, listed)
<1> SUFFICES ASSUME NEW i \in DOMAIN listed
             PROVE  Cardinality(Carriers(events, listed[i])) = 1
  BY DEF AllCarried, Range
<1>1. i \in Carriers(events, listed[i])
  BY DEF Carriers
<1>2. \A j \in Carriers(events, listed[i]) : j = i
  BY DEF Carriers, IsInjective
<1> QED BY <1>1, <1>2, OneCarrier

(* One event for all.                                                      *)
LEMMA CarriedTogether ==
    ASSUME NEW event, NEW listed, Range(listed) \subseteq event.raw_payload.alerts
    PROVE  AllCarried(<<event>>, listed)
<1> SUFFICES ASSUME NEW alert \in Range(listed)
             PROVE  Cardinality(Carriers(<<event>>, alert)) = 1
  BY DEF AllCarried
<1>1. DOMAIN <<event>> = {1} /\ <<event>>[1] = event
  OBVIOUS
<1>2. 1 \in Carriers(<<event>>, alert) /\ \A j \in Carriers(<<event>>, alert) : j = 1
  BY <1>1 DEF Carriers
<1> QED BY <1>2, OneCarrier

LEMMA GrafanaCarries ==
    ASSUME NEW integration, NEW p, NEW listed, IsInjective(listed),
           listed = AlertsListed("grafana", p), p.typed
    PROVE  AllCarried(NormalizeGrafana(integration, p).events, listed)
<1>1. \A events : Normalized(events).events = events
  BY DEF Normalized
<1>2. CASE p.alerts = <<>>
  <2>1. PICK event : event = GrafanaGroupEvent(integration, p)
    OBVIOUS
  <2>2. event.raw_payload = Raw({p.id}, p.scalars)
    BY <2>1, GrafanaIsNormal DEF GrafanaGroupEvent
  <2>3. event.raw_payload.alerts = {p.id}
    BY <2>2 DEF Raw
  <2>4. listed = <<p.id>>
    BY <1>2 DEF AlertsListed
  <2>5. Range(listed) \subseteq event.raw_payload.alerts
    BY <2>3, <2>4 DEF Range
  <2>6. NormalizeGrafana(integration, p).events = <<event>>
    BY <1>1, <1>2, <2>1 DEF NormalizeGrafana
  <2> QED BY <2>5, <2>6, CarriedTogether
<1>3. CASE p.alerts # <<>>
  <2>1. PICK events :
            events = [i \in DOMAIN p.alerts |-> GrafanaAlertEvent(integration, p, p.alerts[i])]
    OBVIOUS
  <2>2. ASSUME NEW alert
        PROVE  GrafanaAlertEvent(integration, p, alert).raw_payload.alerts = {alert.id}
    <3>1. GrafanaAlertEvent(integration, p, alert).raw_payload =
              Raw({alert.id}, Extended(p.scalars, alert.scalars))
      BY GrafanaIsNormal DEF GrafanaAlertEvent
    <3> QED BY <3>1 DEF Raw
  <2>3. listed = [i \in DOMAIN p.alerts |-> p.alerts[i].id]
    BY <1>3 DEF AlertsListed
  <2>4. /\ DOMAIN events = DOMAIN listed
        /\ \A i \in DOMAIN events : events[i].raw_payload.alerts = {listed[i]}
    BY <2>1, <2>2, <2>3
  <2>5. NormalizeGrafana(integration, p).events = events
    BY <1>1, <1>3, <2>1 DEF NormalizeGrafana
  <2> QED BY <2>4, <2>5, CarriedApart
<1> QED BY <1>2, <1>3

LEMMA OthersCarry ==
    ASSUME NEW integration, NEW p, NEW listed, IsInjective(listed)
    PROVE  /\ NormalizeN8n(integration, p).ok /\ listed = AlertsListed("n8n", p) =>
                  AllCarried(NormalizeN8n(integration, p).events, listed)
           /\ NormalizeGvmd(integration, p).ok /\ listed = AlertsListed("gvmd", p) =>
                  AllCarried(NormalizeGvmd(integration, p).events, listed)
<1>1. /\ \A events : Normalized(events).events = events
      /\ ~ Malformed.ok
  BY DEF Normalized, Malformed
<1>2. ASSUME NormalizeN8n(integration, p).ok, listed = AlertsListed("n8n", p)
      PROVE  AllCarried(NormalizeN8n(integration, p).events, listed)
  <2>1. PICK events : events = [i \in DOMAIN p.alerts |-> N8nEvent(integration, p.alerts[i])]
    OBVIOUS
  <2>2. listed = [i \in DOMAIN p.alerts |-> p.alerts[i].id]
    BY <1>2 DEF AlertsListed
  <2>3. /\ DOMAIN events = DOMAIN listed
        /\ \A i \in DOMAIN events : events[i].raw_payload.alerts = {listed[i]}
    BY <2>1, <2>2, N8nIsNormal
  <2>4. NormalizeN8n(integration, p) = Normalized(events)
    BY <1>1, <1>2, <2>1 DEF NormalizeN8n
  <2> QED BY <1>1, <2>3, <2>4, CarriedApart
<1>3. ASSUME NormalizeGvmd(integration, p).ok, listed = AlertsListed("gvmd", p)
      PROVE  AllCarried(NormalizeGvmd(integration, p).events, listed)
  <2>1. PICK event : event = GvmdEvent(integration, p.fields, p.id, p.fields)
    OBVIOUS
  <2>2. event.raw_payload.alerts = {p.id} /\ listed = <<p.id>>
    BY <1>3, <2>1, GvmdIsNormal DEF AlertsListed
  <2>3. Range(listed) \subseteq event.raw_payload.alerts
    BY <2>2 DEF Range
  <2>4. NormalizeGvmd(integration, p) = Normalized(<<event>>)
    BY <1>1, <1>3, <2>1 DEF NormalizeGvmd
  <2> QED BY <1>1, <2>3, <2>4, CarriedTogether
<1> QED BY <1>2, <1>3

(* A list of the rules, each of them once.                                 *)
LEMMA OrderedSet ==
    ASSUME NEW S, IsFiniteSet(S), NEW order, order = SetToSeq(S)
    PROVE  IsInjective(order) /\ Range(order) = S
<1>1. PICK n : n = Cardinality(S)
  OBVIOUS
<1>2. n \in Nat /\ ExistsBijection(1 .. n, S)
  BY <1>1, FS_CardinalityType
<1>3. \E f \in [1 .. n -> S] : IsInjective(f)
  BY <1>2 DEF ExistsBijection, Bijection, Injection
<1>4. order \in [1 .. n -> S] /\ IsInjective(order)
  BY <1>1, <1>3, Zenon DEF SetToSeq
<1>5. order \in Injection(1 .. n, S)
  BY <1>4 DEF Injection
<1>6. Cardinality(1 .. n) = n
  BY <1>2, FS_Interval
<1>7. order \in Surjection(1 .. n, S)
  BY <1>1, <1>5, <1>6, FS_Injection
<1> QED BY <1>4, <1>7 DEF Surjection, Range

(* The alerts of a rule, and only they, are in its group.                  *)
LEMMA GroupOfRule ==
    ASSUME NEW p, IsList(p.alerts), "alerts" \in DOMAIN p, NEW rule
    PROVE  IdsOf(RuleGroup(p, rule).alerts) =
               {p.alerts[i].id : i \in {i \in DOMAIN p.alerts : RuleOfAlert(p, p.alerts[i]) = rule}}
<1>1. PICK places : places = {i \in DOMAIN p.alerts : RuleOfAlert(p, p.alerts[i]) = rule}
  OBVIOUS
<1>2. PICK alerts : alerts = Kept(p.alerts, places)
  OBVIOUS
<1>3. Range(alerts) = {p.alerts[i] : i \in places}
  BY <1>1, <1>2, KeptElements
<1>4. RuleGroup(p, rule).alerts = alerts
  <2>1. PICK labels, annotations :
            RuleGroup(p, rule) = [p EXCEPT !.alerts = alerts, !.commonLabels = labels,
                                           !.commonAnnotations = annotations]
    BY <1>1, <1>2, Zenon DEF RuleGroup
  <2> QED BY <2>1
<1>5. IdsOf(alerts) = {alert.id : alert \in Range(alerts)}
  BY DEF IdsOf, Range
<1> QED BY <1>1, <1>3, <1>4, <1>5

(* Regrouping a body by rule loses and doubles no alert.                   *)
LEMMA SigNozCarries ==
    ASSUME NEW integration, NEW p, NEW listed, IsInjective(listed),
           listed = [i \in DOMAIN p.alerts |-> p.alerts[i].id],
           p.typed, IsList(p.alerts), "alerts" \in DOMAIN p
    PROVE  AllCarried(NormalizeSigNoz(integration, p).events, listed)
<1>1. PICK ruled : ruled = RuleGroups(p)
  OBVIOUS
<1>2. NormalizeSigNoz(integration, p).events =
          [i \in DOMAIN ruled |-> SigNozEvent(integration, ruled[i])]
  BY <1>1 DEF NormalizeSigNoz, Normalized
<1> DEFINE rules == {RuleOfAlert(p, p.alerts[i]) : i \in DOMAIN p.alerts}
           order == SetToSeq(rules)
           events == [i \in DOMAIN ruled |-> SigNozEvent(integration, ruled[i])]
<1>3. CASE ruled = <<p>>
  <2>1. PICK event : event = SigNozEvent(integration, p)
    OBVIOUS
  <2>2. event.raw_payload.alerts = IdsOf(p.alerts)
    BY <2>1, SigNozIsNormal
  <2>3. Range(listed) \subseteq event.raw_payload.alerts
    BY <2>2 DEF Range, IdsOf
  <2>4. events = <<event>>
    BY <1>3, <2>1
  <2> QED BY <1>2, <2>3, <2>4, CarriedTogether
<1>4. CASE ruled = [i \in DOMAIN order |-> RuleGroup(p, order[i])]
  <2>1. IsFiniteSet(rules)
    <3>1. IsFiniteSet(DOMAIN p.alerts)
      BY ListFields, FS_Interval
    <3>2. PICK f : f = [i \in DOMAIN p.alerts |-> RuleOfAlert(p, p.alerts[i])]
      OBVIOUS
    <3>3. f \in Surjection(DOMAIN p.alerts, rules)
      BY <3>2 DEF Surjection
    <3> QED BY <3>1, <3>3, FS_Surjection
  <2>2. IsInjective(order) /\ Range(order) = rules
    BY <2>1, OrderedSet
  <2>3. DOMAIN events = DOMAIN order
    BY <1>4
  <2>4. ASSUME NEW i \in DOMAIN order
        PROVE  events[i].raw_payload.alerts =
                   {p.alerts[j].id : j \in {j \in DOMAIN p.alerts :
                                               RuleOfAlert(p, p.alerts[j]) = order[i]}}
    <3>1. PICK rule : rule = order[i]
      OBVIOUS
    <3>2. PICK part : part = RuleGroup(p, rule)
      OBVIOUS
    <3>3. events[i] = SigNozEvent(integration, part)
      BY <1>4, <3>1, <3>2
    <3>4. events[i].raw_payload.alerts = IdsOf(part.alerts)
      BY <3>3, SigNozIsNormal
    <3>5. IdsOf(part.alerts) =
              {p.alerts[j].id : j \in {j \in DOMAIN p.alerts :
                                          RuleOfAlert(p, p.alerts[j]) = rule}}
      BY <3>2, GroupOfRule
    <3> QED BY <3>1, <3>4, <3>5
  <2> HIDE DEF order, events
  <2>5. ASSUME NEW alert \in Range(listed)
        PROVE  Cardinality(Carriers(events, alert)) = 1
    <3>1. PICK j \in DOMAIN p.alerts : alert = p.alerts[j].id /\ listed[j] = alert
      BY DEF Range
    <3>2. PICK rule : rule = RuleOfAlert(p, p.alerts[j])
      OBVIOUS
    <3>3. PICK i \in DOMAIN order : order[i] = rule
      BY <2>2, <3>2 DEF Range
    <3>4. alert \in events[i].raw_payload.alerts
      BY <2>4, <3>1, <3>2, <3>3
    <3>5. i \in Carriers(events, alert)
      BY <2>3, <3>4 DEF Carriers
    <3>6. ASSUME NEW k \in Carriers(events, alert)
          PROVE  k = i
      <4>1. k \in DOMAIN order /\ alert \in events[k].raw_payload.alerts
        BY <2>3 DEF Carriers
      <4>2. PICK m \in DOMAIN p.alerts :
                alert = p.alerts[m].id /\ RuleOfAlert(p, p.alerts[m]) = order[k]
        BY <2>4, <4>1
      <4>3. m \in DOMAIN listed /\ j \in DOMAIN listed /\ listed[m] = listed[j]
        BY <3>1, <4>2
      <4>4. m = j
        BY <4>3 DEF IsInjective
      <4>5. order[k] = order[i]
        BY <3>2, <3>3, <4>2, <4>4
      <4> QED BY <2>2, <4>1, <4>5 DEF IsInjective
    <3> QED BY <3>5, <3>6, OneCarrier
  <2> QED BY <1>2, <2>5 DEF AllCarried, events
<1> QED BY <1>1, <1>3, <1>4 DEF RuleGroups

LEMMA MappedCarries ==
    ASSUME NEW integration, NEW source, NEW mapping, NEW id, NEW scalars,
           NormalizeMapped(integration, source, mapping, id, scalars).ok
    PROVE  AllCarried(NormalizeMapped(integration, source, mapping, id, scalars).events, <<id>>)
<1>1. PICK event : event = MappedEvent(integration, source, mapping, id, scalars)
  OBVIOUS
<1>2. event.raw_payload.alerts = {id}
  BY <1>1, MappedIsNormal
<1>3. NormalizeMapped(integration, source, mapping, id, scalars) = Normalized(<<event>>)
  BY <1>1 DEF NormalizeMapped, Malformed
<1>4. Range(<<id>>) \subseteq event.raw_payload.alerts
  BY <1>2 DEF Range
<1> QED BY <1>3, <1>4, CarriedTogether DEF Normalized

LEMMA CloudEventCarries ==
    ASSUME NEW integration, NEW mapping, NEW ce,
           NormalizeCloudEvent(integration, mapping, ce).ok
    PROVE  AllCarried(NormalizeCloudEvent(integration, mapping, ce).events, <<ce.alert>>)
<1>1. PICK scalars, event, id :
          /\ scalars = Envelope(ce) /\ id = OccurrenceId(ce)
          /\ event = MappedEvent(integration, ce.source, mapping, ce.alert, scalars)
  OBVIOUS
<1>2. PICK result : result = NormalizeMapped(integration, ce.source, mapping, ce.alert, scalars)
  OBVIOUS
<1>3. NormalizeCloudEvent(integration, mapping, ce) =
          [result EXCEPT !.events =
              [i \in DOMAIN result.events |-> [result.events[i] EXCEPT !.event_id = id]]]
  BY <1>1, <1>2, Zenon DEF NormalizeCloudEvent
<1>4. result = Malformed \/ result = Normalized(<<event>>)
  BY <1>1, <1>2 DEF NormalizeMapped
<1>5. /\ {"ok", "events"} \subseteq DOMAIN result
      /\ NormalizeCloudEvent(integration, mapping, ce).ok = result.ok
  BY <1>3, <1>4 DEF Malformed, Normalized
<1>6. result.events = <<event>>
  BY <1>4, <1>5 DEF Malformed, Normalized
<1>7. PICK new : new = [event EXCEPT !.event_id = id]
  OBVIOUS
<1>8. NormalizeCloudEvent(integration, mapping, ce).events = <<new>>
  <2>1. NormalizeCloudEvent(integration, mapping, ce).events =
            [i \in DOMAIN result.events |-> [result.events[i] EXCEPT !.event_id = id]]
    BY <1>3, <1>5
  <2> QED BY <1>6, <1>7, <2>1
<1>9. new.raw_payload.alerts = {ce.alert}
  <2>1. event.raw_payload.alerts = {ce.alert} /\ "raw_payload" \in DOMAIN event
    BY <1>1, MappedIsNormal
  <2>2. new.raw_payload = event.raw_payload
    BY <1>7, <2>1
  <2> QED BY <2>1, <2>2
<1>10. Range(<<ce.alert>>) \subseteq new.raw_payload.alerts
  BY <1>9 DEF Range
<1> QED BY <1>8, <1>10, CarriedTogether

LEMMA BuiltinCarries ==
    ASSUME NEW name, NEW preset \in BuiltinPresets, NEW body, NEW listed,
           listed = AlertsListed(preset, body), IsInjective(listed),
           preset \in {"signoz", "alertmanager"} =>
              "alerts" \in DOMAIN body /\ IsList(body.alerts),
           ProcessBuiltin(name, preset, body).code = 202
    PROVE  AllCarried(ProcessBuiltin(name, preset, body).events, listed)
<1>1. ASSUME NEW normalized, ProcessBuiltin(name, preset, body) = FromNormalizer(normalized)
      PROVE  /\ normalized.ok
             /\ ProcessBuiltin(name, preset, body).events = normalized.events
  BY <1>1 DEF FromNormalizer, Answer
<1>2. CASE preset \in {"signoz", "alertmanager"}
  <2>1. PICK normalized : normalized = NormalizeSigNoz(name, body)
    OBVIOUS
  <2>2. ProcessBuiltin(name, preset, body) = FromNormalizer(normalized)
    BY <1>2, <2>1 DEF ProcessBuiltin
  <2>3. /\ normalized.ok
        /\ ProcessBuiltin(name, preset, body).events = normalized.events
    BY <1>1, <2>2
  <2>4. body.typed
    BY <2>1, <2>3 DEF NormalizeSigNoz, Malformed
  <2>5. listed = [i \in DOMAIN body.alerts |-> body.alerts[i].id]
    BY <1>2 DEF AlertsListed
  <2>6. AllCarried(normalized.events, listed)
    BY <1>2, <2>1, <2>4, <2>5, SigNozCarries
  <2> QED BY <2>3, <2>6
<1>3. CASE preset = "grafana"
  <2>1. PICK normalized : normalized = NormalizeGrafana(name, body)
    OBVIOUS
  <2>2. ProcessBuiltin(name, preset, body) = FromNormalizer(normalized)
    BY <1>3, <2>1 DEF ProcessBuiltin
  <2>3. /\ normalized.ok
        /\ ProcessBuiltin(name, preset, body).events = normalized.events
    BY <1>1, <2>2
  <2>4. body.typed
    BY <2>1, <2>3 DEF NormalizeGrafana, Malformed
  <2>5. AllCarried(normalized.events, listed)
    BY <1>3, <2>1, <2>4, GrafanaCarries
  <2> QED BY <2>3, <2>5
<1>4. CASE preset = "n8n"
  <2>1. PICK normalized : normalized = NormalizeN8n(name, body)
    OBVIOUS
  <2>2. ProcessBuiltin(name, preset, body) = FromNormalizer(normalized)
    BY <1>4, <2>1 DEF ProcessBuiltin
  <2> QED BY <1>1, <1>4, <2>1, <2>2, OthersCarry
<1>5. CASE preset = "gvmd"
  <2>1. PICK normalized : normalized = NormalizeGvmd(name, body)
    OBVIOUS
  <2>2. ProcessBuiltin(name, preset, body) = FromNormalizer(normalized)
    BY <1>5, <2>1 DEF ProcessBuiltin
  <2> QED BY <1>1, <1>5, <2>1, <2>2, OthersCarry
<1> QED BY <1>2, <1>3, <1>4, <1>5 DEF BuiltinPresets

LEMMA IntegrationsCarry ==
    ASSUME NEW name, NEW integration, IntegrationIsValid(integration),
           integration.type \in IntegrationTypes,
           NEW reader, reader = IF integration.type = "builtin" THEN integration.preset
                                ELSE integration.type,
           NEW request,
           NEW listed, listed = AlertsListed(reader, request.body), IsInjective(listed),
           reader \in {"signoz", "alertmanager"} =>
              "alerts" \in DOMAIN request.body /\ IsList(request.body.alerts),
           ProcessIntegration(name, integration, request).code = 202
    PROVE  AllCarried(ProcessIntegration(name, integration, request).events, listed)
<1>1. \A code \in {400, 415} : Answer(code, <<>>).code # 202
  BY DEF Answer
<1>2. ASSUME NEW normalized,
             ProcessIntegration(name, integration, request) = FromNormalizer(normalized)
      PROVE  /\ normalized.ok
             /\ ProcessIntegration(name, integration, request).events = normalized.events
  BY <1>2 DEF FromNormalizer, Answer
<1>3. CASE integration.type = "cloud_events"
  <2>1. PICK mapping, body : mapping = integration.mapping /\ body = request.body
    OBVIOUS
  <2>2. PICK normalized : normalized = NormalizeCloudEvent(name, mapping, body)
    OBVIOUS
  <2>3. ProcessIntegration(name, integration, request) = ProcessCloudEvent(name, mapping, request)
    BY <1>3, <2>1 DEF ProcessIntegration
  <2>4. ProcessCloudEvent(name, mapping, request) =
            IF CloudEventCode(request.contentType, body) # 202
            THEN Answer(CloudEventCode(request.contentType, body), <<>>)
            ELSE FromNormalizer(normalized)
    BY <2>1, <2>2 DEF ProcessCloudEvent
  <2>5. ProcessIntegration(name, integration, request) = FromNormalizer(normalized)
    BY <2>3, <2>4 DEF Answer
  <2>6. listed = <<body.alert>>
    BY <1>3, <2>1 DEF AlertsListed
  <2> QED BY <1>2, <2>2, <2>5, <2>6, CloudEventCarries
<1>4. CASE integration.type = "builtin"
  <2>1. integration.preset \in BuiltinPresets /\ reader = integration.preset
    BY <1>4 DEF IntegrationIsValid
  <2>2. \/ ProcessIntegration(name, integration, request) \in
              {Answer(400, <<>>), Answer(415, <<>>)}
        \/ ProcessIntegration(name, integration, request) =
              ProcessBuiltin(name, reader, request.body)
    BY <1>4, <2>1 DEF ProcessIntegration
  <2>3. ProcessIntegration(name, integration, request) =
            ProcessBuiltin(name, reader, request.body)
    BY <1>1, <2>2
  <2> QED BY <2>1, <2>3, BuiltinCarries
<1>5. CASE integration.type = "generic_json"
  <2>1. PICK body : body = request.body
    OBVIOUS
  <2>2. PICK normalized : normalized =
            NormalizeMapped(name, integration.source, integration.mapping, body.id, body.scalars)
    OBVIOUS
  <2>3. \/ ProcessIntegration(name, integration, request) = Answer(400, <<>>)
        \/ ProcessIntegration(name, integration, request) = FromNormalizer(normalized)
    BY <1>5, <2>1, <2>2 DEF ProcessIntegration
  <2>4. ProcessIntegration(name, integration, request) = FromNormalizer(normalized)
    BY <1>1, <2>3
  <2>5. listed = <<body.id>>
    BY <1>5, <2>1 DEF AlertsListed
  <2> QED BY <1>2, <2>2, <2>4, <2>5, MappedCarries
<1> QED BY <1>3, <1>4, <1>5 DEF IntegrationTypes

LEMMA NormalizersKeep == RequestsListTheirAlerts => NormalizersKeepAlerts
<1> SUFFICES ASSUME RequestsListTheirAlerts, NEW c \in Startable, NEW r \in RequestNames,
                    Outcomes[c][r].code = 202,
                    NEW alert \in Requests[r].alerts
             PROVE  Cardinality(Carriers(Outcomes[c][r].events, alert)) = 1
  BY DEF NormalizersKeepAlerts
<1>1. PICK config, request, reader, listed :
          /\ config = Configs[c] /\ request = Requests[r]
          /\ reader = Reader(config, request) /\ listed = AlertsListed(reader, request.body)
  OBVIOUS
<1>2. /\ IsInjective(listed) /\ request.alerts \subseteq Range(listed)
      /\ reader \in {"signoz", "alertmanager"} =>
            "alerts" \in DOMAIN request.body /\ IsList(request.body.alerts)
  BY <1>1 DEF RequestsListTheirAlerts, IsList
<1>3. /\ Outcomes[c][r].events = Handled(config, request).events
      /\ Handled(config, request).code = 202
  BY <1>1 DEF Outcomes, Outcome
<1>4. PICK names, name :
          names = IntegrationAt(config, request.path) /\ name = CHOOSE n \in names : TRUE
  OBVIOUS
<1>5. AllCarried(Handled(config, request).events, listed)
  <2>1. \A code \in {413, 404, 401, 400} : Answer(code, <<>>).code # 202
    BY DEF Answer
  <2>2. CASE names = {}
    <3>1. Handled(config, request) \in {Answer(413, <<>>), Answer(404, <<>>), Answer(401, <<>>),
                                        ProcessDefault(request)}
      BY <1>4, <2>2 DEF Handled
    <3>2. ProcessDefault(request) \in {Answer(400, <<>>),
                                       ProcessBuiltin("signoz", "signoz", request.body)}
      BY DEF ProcessDefault
    <3>3. Handled(config, request) = ProcessBuiltin("signoz", "signoz", request.body)
      BY <1>3, <2>1, <3>1, <3>2
    <3>4. reader = "signoz" /\ "signoz" \in BuiltinPresets
      BY <1>1, <1>4, <2>2 DEF Reader, BuiltinPresets
    <3> QED BY <1>1, <1>2, <1>3, <3>3, <3>4, BuiltinCarries
  <2>3. CASE names # {}
    <3>1. PICK integration : integration = config.integrations[name]
      OBVIOUS
    <3>2. name \in DOMAIN config.integrations
      BY <1>4, <2>3 DEF IntegrationAt
    <3>3. integration.type \in IntegrationTypes /\ IntegrationIsValid(integration)
      BY <1>1, <3>1, <3>2, ConfigsAreTyped
         DEF Startable, Accepted, IsAccepted, ConfigIsValid
    <3>4. Handled(config, request) \in {Answer(413, <<>>), Answer(404, <<>>), Answer(401, <<>>),
                                        ProcessIntegration(name, integration, request)}
      BY <1>4, <2>3, <3>1 DEF Handled
    <3>5. Handled(config, request) = ProcessIntegration(name, integration, request)
      BY <1>3, <2>1, <3>4
    <3>6. reader = IF integration.type = "builtin" THEN integration.preset ELSE integration.type
      <4> DEFINE found == config.integrations[CHOOSE n \in IntegrationAt(config, request.path) : TRUE]
      <4>1. integration = found
        BY <1>4, <3>1
      <4>2. Reader(config, request) =
                IF IntegrationAt(config, request.path) = {} THEN "signoz"
                ELSE IF found.type = "builtin" THEN found.preset ELSE found.type
        BY DEF Reader
      <4>3. reader = Reader(config, request) /\ IntegrationAt(config, request.path) # {}
        BY <1>1, <1>4, <2>3
      <4> HIDE DEF found
      <4> QED BY <4>1, <4>2, <4>3
    <3> QED BY <1>1, <1>2, <1>3, <3>3, <3>5, <3>6, IntegrationsCarry
  <2> QED BY <2>2, <2>3
<1> QED BY <1>1, <1>2, <1>3, <1>5 DEF AllCarried

(* Whatever the files and the requests, and however calls fail, processes  *)
(* end and records expire: a request that was answered 202 has every       *)
(* delivery its routes plan stored, and under way in a running process,    *)
(* until retention removes it; nothing is stored of a request that was not *)
(* let in; and no alert listed in a body is lost or doubled between the    *)
(* request and its events (main.rs:1144-1383; signoz.rs:210-252).          *)
THEOREM AnswersAlwaysTrue ==
    ASSUME RequestsListTheirAlerts
    PROVE  Spec => []AnswersAreTrue
BY NormalizersKeep, AnswersTrueIfKept
=============================================================================
