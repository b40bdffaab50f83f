-------------------------- MODULE DeliveryPromise --------------------------
(***************************************************************************)
(* What the proxy promises of a persisted delivery, whatever crashes,      *)
(* retries and restarts happen underneath: it stays owed until the         *)
(* receiver has taken it or the proxy gives up, it is reported delivered   *)
(* only if the receiver really took it in the current round, nothing is    *)
(* sent for a settled delivery, and only an operator's replay opens a new  *)
(* round.  Crashes, attempts, tasks and batches do not appear here.        *)
(***************************************************************************)
CONSTANT Deliveries

VARIABLES
    promise,  \* what the proxy says of each delivery
    received  \* has the receiver taken it since the round began?

vars == <<promise, received>>

TypeOK ==
    /\ promise \in [Deliveries -> {"none", "owed", "delivered", "given_up"}]
    /\ received \in [Deliveries -> BOOLEAN]

Init ==
    /\ promise = [d \in Deliveries |-> "none"]
    /\ received = [d \in Deliveries |-> FALSE]

Accept(d) ==
    /\ promise[d] = "none"
    /\ promise' = [promise EXCEPT ![d] = "owed"]
    /\ UNCHANGED received

(* The receiver takes one request, for one delivery or for a batch of them. *)
Receive(S) ==
    /\ \A d \in S : promise[d] = "owed"
    /\ received' = [d \in Deliveries |-> received[d] \/ d \in S]
    /\ UNCHANGED promise

Settle(S, verdict) ==
    /\ \A d \in S : promise[d] = "owed"
    /\ promise' = [d \in Deliveries |-> IF d \in S THEN verdict ELSE promise[d]]
    /\ UNCHANGED received

Deliver(S) == (\A d \in S : received[d]) /\ Settle(S, "delivered")

GiveUp(S) == Settle(S, "given_up")

Replay(d) ==
    /\ promise[d] \in {"delivered", "given_up"}
    /\ promise' = [promise EXCEPT ![d] = "owed"]
    /\ received' = [e \in Deliveries |-> e # d /\ received[e]]

Next ==
    \/ \E d \in Deliveries : Accept(d) \/ Replay(d)
    \/ \E S \in SUBSET Deliveries : Receive(S) \/ Deliver(S) \/ GiveUp(S)

Spec == Init /\ [][Next]_vars
============================================================================
