---------------------------- MODULE AlertEvents -----------------------------
(***************************************************************************)
(* The canonical alert event every integration produces, and the optional  *)
(* values and string maps it is made of.  An optional string that is not   *)
(* there is Absent.  A fingerprint is a tuple: the source's own value, or  *)
(* the parts a digest is taken of, which stands for a digest without       *)
(* collisions.                                                             *)
(***************************************************************************)
EXTENDS Naturals, Sequences, FiniteSets, TLC

Absent == "absent"
NoStrings == [name \in {} |-> Absent]

Or(value, fallback) == IF value = Absent THEN fallback ELSE value

FirstPresent(values) ==
    LET present == {i \in DOMAIN values : values[i] # Absent}
    IN  IF present = {} THEN Absent
        ELSE values[CHOOSE i \in present : \A j \in present : i <= j]

(* What a sequence has at some of its places, in order.                    *)
Kept(s, places) ==
    LET kept[i \in 0 .. Len(s)] ==
            IF i = 0 THEN <<>>
            ELSE IF i \in places THEN Append(kept[i - 1], s[i]) ELSE kept[i - 1]
    IN  kept[Len(s)]

Get(map, key) == IF key \in DOMAIN map THEN map[key] ELSE Absent

(* The later entries win.                                                  *)
Extended(map, entries) == entries @@ map

With(map, key, value) ==
    IF value = Absent THEN map ELSE Extended(map, key :> value)

Blank(value) == value \in {Absent, "", " "}
NonBlank(value) == IF Blank(value) THEN Absent ELSE value
NonEmpty(value) == IF value = "" THEN Absent ELSE value

(* The first of the names that the map holds.                              *)
ValueOf(map, names) == FirstPresent([i \in DOMAIN names |-> Get(map, names[i])])
----------------------------------------------------------------------------
Given(fingerprint) == <<"given", fingerprint>>

NoGroupKey == <<>>
GroupKey(key) == IF key = Absent THEN NoGroupKey ELSE Given(key)

Namespace(integration) == <<integration>>

(* raw is the part of the request kept with the event: the alerts of the   *)
(* source that it carries, and its scalars by JSON pointer.                *)
NewEvent(integration, source, status, severity, title, fingerprint, raw) ==
    [event_id               |-> <<integration, fingerprint>>,
     integration            |-> integration,
     group_namespace        |-> Namespace(integration),
     source                 |-> source,
     status                 |-> status,
     severity               |-> severity,
     title                  |-> title,
     body                   |-> Absent,
     labels                 |-> NoStrings,
     annotations            |-> NoStrings,
     links                  |-> <<>>,
     fingerprint            |-> fingerprint,
     notification_group_key |-> NoGroupKey,
     instances              |-> <<>>,
     raw_payload            |-> raw]

(* What a normalizer returns.                                              *)
Normalized(events) == [ok |-> TRUE, events |-> events]
Malformed == [ok |-> FALSE, events |-> <<>>]
============================================================================
