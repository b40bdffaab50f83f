-------------------------- MODULE MCDeliverySystem --------------------------
(* Small instances of DeliverySystem for TLC.                              *)
EXTENDS DeliverySystem

OneReceiver == {"chat"}
TwoReceivers == {"chat", "hook"}
AllToChat == [d \in 1 .. MaxDeliveries |-> "chat"]
LastToHook == [d \in 1 .. MaxDeliveries |-> IF d = MaxDeliveries THEN "hook" ELSE "chat"]
EitherMayGo == {{"chat", "hook"}, {"chat"}, {"hook"}}
AlwaysConfigured == {{"chat"}}
OneKey == {"k1"}
KeyToChat == [key \in {"k1"} |-> "chat"]
TwoKeys == {"k1", "k2"}
KeyPerReceiver == [key \in TwoKeys |-> IF key = "k1" THEN "chat" ELSE "hook"]
OneSize == {1}
LimitOfOne == {1}
LimitOfTwo == {2}
============================================================================
