-------------------------- MODULE MCDeliveryQueue --------------------------
(* Small instances of DeliveryQueue for TLC.                               *)
EXTENDS DeliveryQueue

\* One receiver that every restart finds configured.
OneReceiver == {"chat"}
AllToChat == [d \in 1 .. MaxDeliveries |-> "chat"]
AlwaysConfigured == {{"chat"}}

\* Two receivers, one of which a restart may have lost.
TwoReceivers == {"chat", "pager"}
AllToPager == [d \in 1 .. MaxDeliveries |-> "pager"]
PagerMayGo == {{"chat"}, {"chat", "pager"}}

LimitOfTwo == {2}
LimitTwoOrThree == {2, 3}
LimitOneOrTwo == {1, 2}
============================================================================
