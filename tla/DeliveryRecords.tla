-------------------------- MODULE DeliveryRecords --------------------------
(***************************************************************************)
(* The state the delivery workers, the notification batch worker and the   *)
(* startup sequence share: the rows of the SQLite table delivery_records,  *)
(* the life of the process, and the part of the configuration that is read *)
(* again at every start.                                                   *)
(*                                                                         *)
(* The storage connection is behind one mutex (storage.rs, Storage), so a  *)
(* storage method is one atomic step.  SQLite commits survive a crash of   *)
(* the process; everything else in memory does not.                        *)
(***************************************************************************)
EXTENDS Naturals, FiniteSets

CONSTANTS
    MaxDeliveries,   \* bound: how many rows may ever be inserted
    MaxCrashes,      \* bound: how many times the process may end
    Receivers,       \* names of notification receivers
    ReceiverOf,      \* the receiver each row is addressed to (its target column)
    ReceiverConfigs, \* sets of receivers a restart may find configured
    AttemptLimits,   \* values of delivery.max_attempts a restart may find
    LimitMayDrop,    \* may an operator lower max_attempts between two runs?
    StorageFails     \* may a storage method called by a running task fail?

Deliveries == 1 .. MaxDeliveries

ASSUME RecordsAssumption ==
    /\ MaxDeliveries \in Nat
    /\ MaxCrashes \in Nat
    /\ ReceiverOf \in [Deliveries -> Receivers]
    /\ ReceiverConfigs \subseteq SUBSET Receivers
    /\ AttemptLimits \subseteq Nat \ {0}
    /\ LimitMayDrop \in BOOLEAN
    /\ StorageFails \in BOOLEAN

VARIABLES
    phase,      \* where the process is in its life
    rec,        \* delivery_records: status and attempt_count of each row
    limit,      \* delivery.max_attempts of the current run (0 before the first)
    configured, \* receivers of the current run
    crashes     \* how often the process has ended

recordVars == <<phase, rec, limit, configured, crashes>>

LiveStatus == {"queued", "delivering", "retrying"}
TerminalStatus == {"succeeded", "dead_letter"}

Row == [status : {"none"} \cup LiveStatus \cup TerminalStatus, attempts : Nat]

Phases == {"down", "recovering", "spawning", "up"}

RecordsTypeOK ==
    /\ phase \in Phases
    /\ rec \in [Deliveries -> Row]
    /\ limit \in {0} \cup AttemptLimits
    /\ phase # "down" => limit \in AttemptLimits
    /\ configured \subseteq Receivers
    /\ crashes \in 0 .. MaxCrashes

RecordsInit ==
    /\ phase = "down"
    /\ rec = [d \in Deliveries |-> [status |-> "none", attempts |-> 0]]
    /\ limit = 0
    /\ configured = {}
    /\ crashes = 0

Live(d) == rec[d].status \in LiveStatus
Terminal(d) == rec[d].status \in TerminalStatus

(* Row ids are handed out in insertion order (INTEGER PRIMARY KEY).        *)
NextId(d) ==
    /\ rec[d].status = "none"
    /\ \A e \in 1 .. (d - 1) : rec[e].status # "none"

Lowest(d, rows) == d \in rows /\ \A e \in rows : d <= e
----------------------------------------------------------------------------
(* The storage methods that write one row.  Each is an UPDATE by id with   *)
(* no condition on the status it overwrites.  A worker logs an error of    *)
(* theirs and goes on, so a failed write leaves the row as it was.         *)

UpdateRow(d, row) ==
    \/ rec' = [rec EXCEPT ![d] = row]
    \/ StorageFails /\ UNCHANGED rec

InsertRow(d) ==
    rec' = [rec EXCEPT ![d] = [status |-> "queued", attempts |-> 0]]

(* Requeueing keeps attempt_count: neither recovery nor replay resets it.  *)
RequeueRow(d) == rec' = [rec EXCEPT ![d].status = "queued"]

MarkAttempt(d, attempt) ==
    UpdateRow(d, [status |-> "delivering", attempts |-> attempt])

MarkSucceeded(d) == UpdateRow(d, [rec[d] EXCEPT !.status = "succeeded"])

MarkRetrying(d) == UpdateRow(d, [rec[d] EXCEPT !.status = "retrying"])

MarkDeadLetter(d) == UpdateRow(d, [rec[d] EXCEPT !.status = "dead_letter"])
----------------------------------------------------------------------------
(* Mutant of Boot: max_attempts is not read from the configuration.        *)
BootWithoutLimit ==
    /\ phase = "down"
    /\ phase' = "recovering"
    /\ configured' \in ReceiverConfigs
    /\ UNCHANGED <<limit, crashes>>

(* The process starts: it reads its configuration and opens the database.  *)
(* What the start does to the rows is the components' business.            *)
Boot ==
    /\ phase = "down"
    /\ phase' = "recovering"
    /\ limit' \in {l \in AttemptLimits : LimitMayDrop \/ l >= limit}
    /\ configured' \in ReceiverConfigs
    /\ UNCHANGED crashes

(* The process ends: it is killed at any point of its life, or build_app   *)
(* returns an error and main ends.                                         *)
ProcessEnds ==
    /\ phase # "down"
    /\ crashes < MaxCrashes
    /\ crashes' = crashes + 1
    /\ phase' = "down"
    /\ UNCHANGED <<rec, limit, configured>>
============================================================================
