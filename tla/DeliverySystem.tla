--------------------------- MODULE DeliverySystem ---------------------------
(***************************************************************************)
(* The delivery side of the proxy as one process: batched and unbatched    *)
(* rows share the table delivery_records, an operator may replay either    *)
(* kind, the batch worker and the delivery tasks run concurrently, and     *)
(* build_app recovers first the batches, then the remaining rows, before   *)
(* it starts the batch worker and the recovered tasks.                     *)
(***************************************************************************)
EXTENDS DeliveryRecords

CONSTANTS
    MaxReplays, ReplayLive,
    BatchKeys, KeyReceiver, EventSizes, MaxEvents, MaxBytes, GroupWait,
    InitialBackoff, MaxBackoff, Horizon

(* What DeliveryQueue and NotificationBatches assume; failing storage      *)
(* calls are studied on the parts only.                                    *)
ASSUME SystemAssumption ==
    /\ ~StorageFails
    /\ MaxReplays \in Nat /\ ReplayLive \in BOOLEAN
    /\ KeyReceiver \in [BatchKeys -> Receivers]
    /\ EventSizes \subseteq Nat \ {0}
    /\ {MaxEvents, MaxBytes, GroupWait, InitialBackoff} \subseteq Nat \ {0}
    /\ MaxBackoff \in Nat /\ MaxBackoff >= InitialBackoff
    /\ Horizon \in Nat

VARIABLES
    task, next, replays, accepted,
    batch, member, worker, now, taken, lost, named

Queue == INSTANCE DeliveryQueue
Batching == INSTANCE NotificationBatches

queueVars == <<task, next, replays, accepted>>
batchVars == <<batch, member, worker, now, taken, lost, named>>
vars == <<recordVars, queueVars, batchVars>>

Keys == 0 .. MaxReplays

TypeOK == RecordsTypeOK /\ Queue!QueueTypeOK /\ Batching!BatchTypeOK

Batched(d) == member[d].batch # 0
BatchIsActive(d) ==
    Batched(d) /\ batch[member[d].batch].status \notin TerminalStatus
----------------------------------------------------------------------------
(* Mutant of Unbatched: recover_deliveries without its join against the    *)
(* member table.                                                           *)
UnbatchedIgnored == Queue!Recoverable

(* recover_deliveries leaves every row to the batch recovery that is, or   *)
(* ever was, a member of a batch.                                          *)
Unbatched == {d \in Queue!Recoverable : ~Batched(d)}

Startup ==
    \/ Boot /\ Batching!RecoverBatches /\ UNCHANGED queueVars
    \/ /\ UNCHANGED batchVars
       /\ \/ \E d \in Deliveries :
                Queue!RecoverRow(d, Unbatched) \/ Queue!SpawnRecovered(d)
          \/ Queue!RecoveryDone(Unbatched)
          \/ Queue!Listen
    \/ /\ \E d \in Deliveries : Queue!RefuseToStart(d)
       /\ Batching!WorkerDies

Crash == ProcessEnds /\ Queue!TasksDie /\ Batching!WorkerDies

(* A delivery is batched if batching is enabled and the event has a key.   *)
QueueEventDelivery(d) ==
    \/ Queue!Enqueue(d) /\ UNCHANGED batchVars
    \/ /\ \E key \in BatchKeys, size \in EventSizes :
              Batching!QueueBatched(d, key, size)
       /\ UNCHANGED queueVars

ReplayDelivery(d) == Queue!Replay(d) /\ UNCHANGED batchVars

Task(d, k) == Queue!Worker(d, k) /\ UNCHANGED batchVars

BatchWorker == Batching!BatchWorker /\ UNCHANGED queueVars

Tick == Batching!Tick /\ UNCHANGED queueVars

Quiet ==
    /\ phase = "up"
    /\ \A d \in Deliveries : ~Live(d) /\ ~Queue!Busy(d)
    /\ worker.step = "idle"
    /\ UNCHANGED vars
----------------------------------------------------------------------------
Init == RecordsInit /\ Queue!QueueInit /\ Batching!BatchInit

Next ==
    \/ Startup
    \/ Crash
    \/ \E d \in Deliveries :
          \/ QueueEventDelivery(d)
          \/ ReplayDelivery(d)
          \/ \E k \in Keys : Task(d, k)
    \/ BatchWorker
    \/ Tick
    \/ Quiet

Spec == Init /\ [][Next]_vars

(* As for the parts: tasks, worker, timers and restarts keep going.        *)
Fairness ==
    /\ WF_vars(Startup)
    /\ WF_vars(BatchWorker)
    /\ WF_vars(Tick)
    /\ \A d \in Deliveries, k \in Keys : WF_vars(Task(d, k))

FairSpec == Spec /\ Fairness
----------------------------------------------------------------------------
(* Properties.                                                             *)

(* The two recovery paths divide the rows between them: no delivery task   *)
(* works on a row whose batch is still to be sent, so no event goes out    *)
(* through both.                                                           *)
OneOwner ==
    ~ReplayLive => \A d \in Deliveries : Queue!Busy(d) => ~BatchIsActive(d)

(* In careful operation, while the server is up, a row without a verdict   *)
(* has a task or an active batch, with one exception: a replayed member of *)
(* a batch that is over, whose replay a crash interrupted.                 *)
OrphansAreReplayedMembers ==
    Queue!Careful => \A d \in Deliveries :
        /\ phase = "up"
        /\ Live(d)
        /\ ReceiverOf[d] \in configured
        => Queue!Busy(d) \/ BatchIsActive(d) \/ (Batched(d) /\ replays[d] > 0)

(* Batched and unbatched rows together keep the abstract promise.          *)
Promise == INSTANCE DeliveryPromise WITH
    promise <- [d \in Deliveries |-> Queue!PromiseOf(rec[d].status)],
    received <- [d \in Deliveries |->
                    replays[d] \in accepted[d] \/ (replays[d] = 0 /\ d \in taken)]

PromiseKept == Promise!Spec

(* Every delivery is settled in the end.                                   *)
EventuallySettled == \A d \in Deliveries : Live(d) ~> Terminal(d)

(* The receiver of a row that was taken up is missing: this start fails,   *)
(* and whatever else was taken up ends with it, whoever its receiver is.   *)
StartRefused ==
    phase = "spawning" /\ \E d \in Queue!Found : ReceiverOf[d] \notin configured

(* So is at least every delivery, if the start is not refused for ever:    *)
(* one unbatched row whose receiver is missing keeps the rows of all other *)
(* receivers waiting.  The exceptions are replays alone: of a batch's      *)
(* member, and of a row whose receiver this run has not got.  About the    *)
(* two recoveries and the error of start_recovered_delivery.               *)
OthersSettled ==
    \/ []<>StartRefused
    \/ \A d \in Deliveries :
          Live(d) ~> \/ Terminal(d)
                     \/ replays[d] > 0 /\ (Batched(d) \/ ReceiverOf[d] \notin configured)
============================================================================
