------------------------- MODULE MCAlertEscalation -------------------------
(* Small instances of AlertEscalation for TLC.                             *)
EXTENDS AlertEscalation

\* A receiver first, then a schedule of two receivers that goes on although the
\* alert is resolved; a restart may find the second step or the policy removed.
Page == [delay |-> 1, stopOnAck |-> TRUE, stopOnResolve |-> TRUE, rows |-> 1]
OnCall == [delay |-> 1, stopOnAck |-> TRUE, stopOnResolve |-> FALSE, rows |-> 2]
MayShrink == {<<Page, OnCall>>, <<Page>>, <<>>}
OneStep == {<<Page>>}

OneGroup == {"g1"}
TwoGroups == {"g1", "g2"}
============================================================================
