----------------------- MODULE MCNotificationBatches -----------------------
(* Small instances of NotificationBatches for TLC.                         *)
EXTENDS NotificationBatches

OneReceiver == {"chat"}
AllToChat == [d \in 1 .. MaxDeliveries |-> "chat"]
AlwaysConfigured == {{"chat"}}
ChatMayGo == {{}, {"chat"}}

TwoKeys == {"k1", "k2"}
KeysToChat == [key \in {"k1", "k2"} |-> "chat"]
OneKey == {"k1"}
KeyToChat == [key \in {"k1"} |-> "chat"]

\* With MaxBytes = 3 an event of size 4 is too large even alone.
SmallAndHuge == {1, 4}
OneSize == {1}

LimitOfTwo == {2}
============================================================================
