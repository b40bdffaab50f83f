---------------------- MODULE NotificationBatchesProofs ----------------------
(***************************************************************************)
(* Proofs about NotificationBatches, for any number of rows and crashes,   *)
(* any keys, receivers, sizes, bounds and delays.                          *)
(***************************************************************************)
EXTENDS NotificationBatches, FiniteSetTheorems, WellFoundedInduction, TLAPS

BatchRow ==
    [status : {"none", "pending", "delivering", "retrying"} \cup TerminalStatus,
     key : BatchKeys \cup {"none"}, due : Nat, attempts : Nat,
     count : Nat, bytes : Nat]
----------------------------------------------------------------------------
(* The invariants that hold together.                                      *)

(* Batch ids have no gaps, so that a new batch is the youngest.            *)
IdsInOrder ==
    \A b, c \in Batches : b < c /\ InUse(c) => InUse(b)

(* A row is in the table exactly if it is a member ...                     *)
RowsAreMembers ==
    \A d \in Deliveries : rec[d].status = "none" <=> member[d].batch = 0

(* ... of a batch that exists.                                             *)
MembersHaveBatches ==
    \A d \in Deliveries : member[d].batch # 0 => InUse(member[d].batch)

Holds(b) == worker.step # "idle" /\ worker.batch = b

(* The worker's copy of the batch it holds is up to date, as nothing else  *)
(* touches a batch in flight, and what it holds or has lost is in flight.  *)
Held ==
    /\ phase = "down" => worker.step = "idle"
    /\ worker.step # "idle" =>
          /\ worker.batch \in Batches \ lost
          /\ worker.attempt = batch[worker.batch].attempts
          /\ worker.content = Members(worker.batch)
    /\ worker.step = "delivered" => worker.content \subseteq taken
    /\ phase # "down" => \A b \in Batches :
          batch[b].status = "delivering" <=> Holds(b) \/ b \in lost

(* An older batch of the same key is overdue once there is a younger one.  *)
OverdueInOrder ==
    \A b, c \in Batches :
        /\ b < c
        /\ batch[b].status = "pending" /\ batch[c].status = "pending"
        /\ batch[b].key = batch[c].key
        => batch[b].due <= now /\ batch[b].due <= batch[c].due

(* Only attempts take a batch away from "pending" for good.                *)
Attempted ==
    \A b \in Batches :
        batch[b].status \in {"delivering", "retrying"} => batch[b].attempts > 0

(* What is left of the attempts in each status.                            *)
BudgetOf(b) ==
    /\ batch[b].attempts <= limit + crashes
    /\ batch[b].status = "pending" => batch[b].attempts < limit + crashes
    /\ batch[b].status = "delivering" /\ phase = "down" => batch[b].attempts < limit + crashes
    /\ batch[b].status = "retrying" => batch[b].attempts < limit

Budget == ~LimitMayDrop => \A b \in Batches : InUse(b) => BudgetOf(b)

(* The part of CountersMatchMembers that is a count.                       *)
CountsMatchMembers ==
    \A b \in Batches : batch[b].count = Cardinality(Members(b))
----------------------------------------------------------------------------
(* Types.                                                                  *)

LEMMA ConstantTypes ==
    /\ MaxEvents \in Nat \ {0} /\ MaxBytes \in Nat \ {0}
    /\ GroupWait \in Nat /\ InitialBackoff \in Nat /\ MaxBackoff \in Nat
    /\ EventSizes \subseteq Nat
    /\ AttemptLimits \subseteq Nat \ {0}
    /\ Batches \subseteq Nat \ {0} /\ 0 \notin Batches
BY BatchAssumption, RecordsAssumption DEF Batches, Deliveries

LEMMA BatchTypes == TypeOK => batch \in [Batches -> BatchRow]
BY DEF TypeOK, BatchTypeOK, BatchRow

(* The powers of two that the shift takes, numbers that grow.              *)
LEMMA PowersGrow ==
    /\ \A n \in 0 .. 31 : 2 ^ n \in Nat \ {0}
    /\ \A n \in 0 .. 30 : 2 ^ n <= 2 ^ (n + 1)
<1>1. {2 ^ 0, 2 ^ 1, 2 ^ 2, 2 ^ 3, 2 ^ 4, 2 ^ 5, 2 ^ 6, 2 ^ 7,
       2 ^ 8, 2 ^ 9, 2 ^ 10, 2 ^ 11, 2 ^ 12, 2 ^ 13, 2 ^ 14, 2 ^ 15,
       2 ^ 16, 2 ^ 17, 2 ^ 18, 2 ^ 19, 2 ^ 20, 2 ^ 21, 2 ^ 22, 2 ^ 23,
       2 ^ 24, 2 ^ 25, 2 ^ 26, 2 ^ 27, 2 ^ 28, 2 ^ 29, 2 ^ 30, 2 ^ 31} \subseteq Nat \ {0}
  OBVIOUS
<1>2. /\ 2 ^ 0 <= 2 ^ (0 + 1) /\ 2 ^ 1 <= 2 ^ (1 + 1) /\ 2 ^ 2 <= 2 ^ (2 + 1)
      /\ 2 ^ 3 <= 2 ^ (3 + 1) /\ 2 ^ 4 <= 2 ^ (4 + 1) /\ 2 ^ 5 <= 2 ^ (5 + 1)
      /\ 2 ^ 6 <= 2 ^ (6 + 1) /\ 2 ^ 7 <= 2 ^ (7 + 1) /\ 2 ^ 8 <= 2 ^ (8 + 1)
      /\ 2 ^ 9 <= 2 ^ (9 + 1) /\ 2 ^ 10 <= 2 ^ (10 + 1) /\ 2 ^ 11 <= 2 ^ (11 + 1)
      /\ 2 ^ 12 <= 2 ^ (12 + 1) /\ 2 ^ 13 <= 2 ^ (13 + 1) /\ 2 ^ 14 <= 2 ^ (14 + 1)
      /\ 2 ^ 15 <= 2 ^ (15 + 1) /\ 2 ^ 16 <= 2 ^ (16 + 1) /\ 2 ^ 17 <= 2 ^ (17 + 1)
      /\ 2 ^ 18 <= 2 ^ (18 + 1) /\ 2 ^ 19 <= 2 ^ (19 + 1) /\ 2 ^ 20 <= 2 ^ (20 + 1)
      /\ 2 ^ 21 <= 2 ^ (21 + 1) /\ 2 ^ 22 <= 2 ^ (22 + 1) /\ 2 ^ 23 <= 2 ^ (23 + 1)
      /\ 2 ^ 24 <= 2 ^ (24 + 1) /\ 2 ^ 25 <= 2 ^ (25 + 1) /\ 2 ^ 26 <= 2 ^ (26 + 1)
      /\ 2 ^ 27 <= 2 ^ (27 + 1) /\ 2 ^ 28 <= 2 ^ (28 + 1) /\ 2 ^ 29 <= 2 ^ (29 + 1)
      /\ 2 ^ 30 <= 2 ^ (30 + 1)
  OBVIOUS
<1>3. ASSUME NEW n \in 0 .. 31
      PROVE  2 ^ n \in Nat \ {0}
  <2>1. \/ n = 0 \/ n = 1 \/ n = 2 \/ n = 3 \/ n = 4 \/ n = 5 \/ n = 6 \/ n = 7
        \/ n = 8 \/ n = 9 \/ n = 10 \/ n = 11 \/ n = 12 \/ n = 13 \/ n = 14 \/ n = 15
        \/ n = 16 \/ n = 17 \/ n = 18 \/ n = 19 \/ n = 20 \/ n = 21 \/ n = 22 \/ n = 23
        \/ n = 24 \/ n = 25 \/ n = 26 \/ n = 27 \/ n = 28 \/ n = 29 \/ n = 30 \/ n = 31
    OBVIOUS
  <2>2. 2 ^ n \in {2 ^ 0, 2 ^ 1, 2 ^ 2, 2 ^ 3, 2 ^ 4, 2 ^ 5, 2 ^ 6, 2 ^ 7,
                2 ^ 8, 2 ^ 9, 2 ^ 10, 2 ^ 11, 2 ^ 12, 2 ^ 13, 2 ^ 14, 2 ^ 15,
                2 ^ 16, 2 ^ 17, 2 ^ 18, 2 ^ 19, 2 ^ 20, 2 ^ 21, 2 ^ 22, 2 ^ 23,
                2 ^ 24, 2 ^ 25, 2 ^ 26, 2 ^ 27, 2 ^ 28, 2 ^ 29, 2 ^ 30, 2 ^ 31}
    BY <2>1, Zenon
  <2> QED BY <1>1, <2>2
<1>4. ASSUME NEW n \in 0 .. 30
      PROVE  2 ^ n <= 2 ^ (n + 1)
  <2>1. \/ n = 0 \/ n = 1 \/ n = 2 \/ n = 3 \/ n = 4 \/ n = 5 \/ n = 6 \/ n = 7
        \/ n = 8 \/ n = 9 \/ n = 10 \/ n = 11 \/ n = 12 \/ n = 13 \/ n = 14 \/ n = 15
        \/ n = 16 \/ n = 17 \/ n = 18 \/ n = 19 \/ n = 20 \/ n = 21 \/ n = 22 \/ n = 23
        \/ n = 24 \/ n = 25 \/ n = 26 \/ n = 27 \/ n = 28 \/ n = 29 \/ n = 30
    OBVIOUS
  <2> QED BY <1>2, <2>1, Zenon
<1> QED BY <1>3, <1>4

(* The delay before a cap, as the code's exponent and product give it.     *)
Exponent(a) == IF a - 1 < 31 THEN a - 1 ELSE 31
Delay(a) == InitialBackoff * 2 ^ Exponent(a)
Capped(x, top) == IF x < top THEN x ELSE top

LEMMA DelayGrows ==
    ASSUME NEW a \in Nat \ {0}
    PROVE  /\ Delay(a) \in Nat /\ InitialBackoff <= Delay(a) /\ Delay(a) <= Delay(a + 1)
           /\ Backoff(a) = Capped(Delay(a), MaxBackoff)
<1>1. PICK n, k : n = Exponent(a) /\ k = Exponent(a + 1)
  OBVIOUS
<1>2. /\ n \in 0 .. 31 /\ k \in 0 .. 31
      /\ n # k => n \in 0 .. 30 /\ k = n + 1
  <2>1. n = IF a < 32 THEN a - 1 ELSE 31
    BY <1>1 DEF Exponent
  <2>2. k = IF a < 31 THEN a ELSE 31
    BY <1>1 DEF Exponent
  <2>3. a \in Nat /\ a >= 1
    OBVIOUS
  <2>4. n \in 0 .. 31 /\ k \in 0 .. 31
    BY <2>1, <2>2, <2>3
  <2>5. ASSUME n # k PROVE n \in 0 .. 30 /\ k = n + 1
    BY <2>1, <2>2, <2>3, <2>5
  <2> QED BY <2>4, <2>5
<1>3. PICK x, y : x = 2 ^ n /\ y = 2 ^ k
  OBVIOUS
<1>4. x \in Nat \ {0} /\ y \in Nat \ {0} /\ x <= y
  <2>1. x \in Nat \ {0} /\ y \in Nat \ {0}
    BY <1>2, <1>3, PowersGrow
  <2>2. CASE n # k
    BY <1>2, <1>3, <2>2, PowersGrow, Zenon
  <2>3. CASE n = k
    BY <1>3, <2>1, <2>3
  <2> QED BY <2>1, <2>2, <2>3
<1>5. \A i \in Nat : i * x \in Nat /\ i <= i * x /\ i * x <= i * y
  BY <1>4
<1>6. Delay(a) = InitialBackoff * x /\ Delay(a + 1) = InitialBackoff * y
  BY <1>1, <1>3 DEF Delay
<1>7. Backoff(a) = Capped(Delay(a), MaxBackoff)
  BY DEF Backoff, Capped, Delay, Exponent
<1> QED BY <1>5, <1>6, <1>7, ConstantTypes

LEMMA BackoffType == ASSUME NEW a \in Nat \ {0} PROVE Backoff(a) \in Nat
BY DelayGrows, ConstantTypes DEF Capped

(* However often a batch failed and however long the configured backoffs   *)
(* are, it waits the initial one at least, the longest one at most, and no *)
(* less than after the failure before; and the width of the machine's      *)
(* numbers, which the product stops at, never shows, as the longest        *)
(* backoff is such a number (main.rs:376-384, and alike 1564-1569).        *)
THEOREM BackoffAlwaysBounded ==
    ASSUME NEW a \in Nat \ {0}
    PROVE  /\ InitialBackoff <= Backoff(a) /\ Backoff(a) <= MaxBackoff
           /\ Backoff(a) <= Backoff(a + 1)
           /\ \A width \in Nat : MaxBackoff <= width =>
                 Capped(Capped(Delay(a), width), MaxBackoff) = Backoff(a)
<1>1. /\ InitialBackoff \in Nat /\ MaxBackoff \in Nat /\ InitialBackoff <= MaxBackoff
  BY BatchAssumption, ConstantTypes
<1>2. PICK d, e : d = Delay(a) /\ e = Delay(a + 1)
  OBVIOUS
<1>3. /\ d \in Nat /\ e \in Nat /\ InitialBackoff <= d /\ d <= e
      /\ Backoff(a) = Capped(d, MaxBackoff) /\ Backoff(a + 1) = Capped(e, MaxBackoff)
  <2>1. a + 1 \in Nat \ {0}
    OBVIOUS
  <2> QED BY <1>2, <2>1, DelayGrows
<1>4. \A width \in Nat : MaxBackoff <= width =>
          Capped(Capped(d, width), MaxBackoff) = Capped(d, MaxBackoff)
  BY <1>1, <1>3 DEF Capped
<1> QED BY <1>1, <1>2, <1>3, <1>4 DEF Capped

(* A row that differs from another in its status and due time at most.     *)
Moved(new, old, status, due) ==
    /\ new.status = status /\ new.due = due
    /\ new.key = old.key /\ new.attempts = old.attempts
    /\ new.count = old.count /\ new.bytes = old.bytes

(* What the transaction of queue_notification_batch leaves behind: the row *)
(* is a member of a batch b that it joined, or opened.                     *)
Joined(b, key, size) ==
    /\ b \in Pending(key) /\ \A c \in Pending(key) : c <= b
    /\ Fits(batch[b], size)
    /\ batch'[b].status = "pending" /\ batch'[b].key = key
    /\ batch'[b].attempts = batch[b].attempts
    /\ batch'[b].count = batch[b].count + 1
    /\ batch'[b].bytes = batch[b].bytes + size
    /\ batch'[b].due \in {batch[b].due, now}
    /\ \A c \in Batches \ {b} : batch'[c] = batch[c]

Opened(b, key, size) ==
    /\ NewBatchId(b)
    /\ batch'[b].status = "pending" /\ batch'[b].key = key
    /\ batch'[b].attempts = 0 /\ batch'[b].count = 1 /\ batch'[b].bytes = size
    /\ batch'[b].due >= now
    /\ \A c \in Batches \ {b} :
          \/ batch'[c] = batch[c]
          \/ /\ c \in Pending(key) /\ \A x \in Pending(key) : x <= c
             /\ Moved(batch'[c], batch[c], "pending", now)
    /\ \A c \in Pending(key) :
          (\A x \in Pending(key) : x <= c) => batch'[c].due = now

LEMMA WithEventFields ==
    ASSUME NEW row \in BatchRow, NEW size \in Nat, now \in Nat
    PROVE  /\ WithEvent(row, size) \in BatchRow
           /\ WithEvent(row, size).status = row.status
           /\ WithEvent(row, size).key = row.key
           /\ WithEvent(row, size).attempts = row.attempts
           /\ WithEvent(row, size).count = row.count + 1
           /\ WithEvent(row, size).bytes = row.bytes + size
           /\ WithEvent(row, size).due \in {row.due, now}
<1> DEFINE due == IF row.count + 1 >= MaxEvents \/ row.bytes + size >= MaxBytes
                     THEN now ELSE row.due
<1>1. due \in {row.due, now}
  OBVIOUS
<1>2. row.count + 1 \in Nat /\ row.bytes + size \in Nat /\ due \in Nat
  BY <1>1 DEF BatchRow
<1>3. WithEvent(row, size) =
         [row EXCEPT !.count = row.count + 1, !.bytes = row.bytes + size, !.due = due]
  BY DEF WithEvent
<1> QED BY <1>1, <1>2, <1>3 DEF BatchRow

LEMMA EmptyBatchFields ==
    ASSUME NEW key \in BatchKeys, now \in Nat
    PROVE  /\ EmptyBatch(key) \in BatchRow
           /\ EmptyBatch(key).status = "pending" /\ EmptyBatch(key).key = key
           /\ EmptyBatch(key).attempts = 0 /\ EmptyBatch(key).count = 0
           /\ EmptyBatch(key).bytes = 0 /\ EmptyBatch(key).due = now + GroupWait
<1>1. NoBatch \in BatchRow /\ now + GroupWait \in Nat
  BY ConstantTypes DEF NoBatch, BatchRow
<1>2. EmptyBatch(key) \in BatchRow
  BY <1>1 DEF EmptyBatch, BatchRow
<1> QED BY <1>2 DEF EmptyBatch, NoBatch

LEMMA JoinEffect ==
    ASSUME TypeOK, NEW d \in Deliveries, NEW key \in BatchKeys, NEW size \in EventSizes,
           AddToBatch(d, key, size)
    PROVE  /\ batch' \in [Batches -> BatchRow]
           /\ \E b \in Batches :
                 /\ member' = [member EXCEPT ![d] = [batch |-> b, bytes |-> size]]
                 /\ Joined(b, key, size) \/ Opened(b, key, size)
<1>a. batch \in [Batches -> BatchRow] /\ now \in Nat /\ size \in Nat
  BY BatchTypes, ConstantTypes DEF TypeOK, BatchTypeOK
<1>b. Pending(key) \subseteq Batches
  BY DEF Pending
<1> DEFINE fresh == WithEvent(EmptyBatch(key), size)
<1>c. /\ fresh \in BatchRow /\ fresh.status = "pending" /\ fresh.key = key
      /\ fresh.attempts = 0 /\ fresh.count = 1 /\ fresh.bytes = size
      /\ fresh.due >= now
  <2>1. /\ EmptyBatch(key) \in BatchRow
        /\ EmptyBatch(key).status = "pending" /\ EmptyBatch(key).key = key
        /\ EmptyBatch(key).attempts = 0 /\ EmptyBatch(key).count = 0
        /\ EmptyBatch(key).bytes = 0 /\ EmptyBatch(key).due = now + GroupWait
    BY <1>a, EmptyBatchFields
  <2>2. /\ fresh \in BatchRow
        /\ fresh.status = EmptyBatch(key).status /\ fresh.key = EmptyBatch(key).key
        /\ fresh.attempts = EmptyBatch(key).attempts
        /\ fresh.count = EmptyBatch(key).count + 1
        /\ fresh.bytes = EmptyBatch(key).bytes + size
        /\ fresh.due \in {EmptyBatch(key).due, now}
    BY <1>a, <2>1, WithEventFields
  <2> QED BY <1>a, <2>1, <2>2, ConstantTypes
<1> HIDE DEF fresh
<1>1. ASSUME NEW b \in Pending(key), \A c \in Pending(key) : c <= b,
             Fits(batch[b], size),
             batch' = [batch EXCEPT ![b] = WithEvent(@, size)]
      PROVE  batch' \in [Batches -> BatchRow] /\ Joined(b, key, size)
  <2>1. batch[b].status = "pending" /\ batch[b].key = key /\ batch[b] \in BatchRow
    BY <1>a, <1>b DEF Pending
  <2> QED BY <1>a, <1>b, <1>1, <2>1, WithEventFields DEF Joined
<1>2. ASSUME NEW b \in Pending(key), NEW n \in Batches,
             \A c \in Pending(key) : c <= b, NewBatchId(n),
             batch' = [batch EXCEPT ![b].due = now, ![n] = fresh]
      PROVE  batch' \in [Batches -> BatchRow] /\ Opened(n, key, size)
  <2>1. [batch[b] EXCEPT !.due = now] \in BatchRow
    BY <1>a, <1>b DEF BatchRow
  <2>2. b # n
    BY <1>2 DEF Pending, NewBatchId
  <2>3. /\ batch'[n] = fresh /\ batch'[b] = [batch[b] EXCEPT !.due = now]
        /\ \A c \in Batches \ {n, b} : batch'[c] = batch[c]
    BY <1>a, <1>b, <1>2, <2>2
  <2>4. \A c \in Pending(key) : (\A x \in Pending(key) : x <= c) => c = b
    BY <1>b, <1>2, ConstantTypes
  <2>5. Moved(batch'[b], batch[b], "pending", now)
    BY <1>a, <1>b, <2>3 DEF BatchRow, Moved, Pending
  <2> QED BY <1>a, <1>b, <1>c, <1>2, <2>1, <2>3, <2>4, <2>5 DEF Opened, Moved
<1>3. ASSUME NEW n \in Batches, Pending(key) = {}, NewBatchId(n),
             batch' = [batch EXCEPT ![n] = fresh]
      PROVE  batch' \in [Batches -> BatchRow] /\ Opened(n, key, size)
  BY <1>a, <1>c, <1>3 DEF Opened
<1> QED
  BY <1>b, <1>1, <1>2, <1>3 DEF AddToBatch, Joinable, fresh

(* The updates of a batch's row keep its type.                             *)
LEMMA RowUpdates ==
    ASSUME NEW row \in BatchRow, NEW n \in Nat,
           NEW status \in {"pending", "delivering", "retrying"} \cup TerminalStatus
    PROVE  /\ [row EXCEPT !.status = status, !.due = n] \in BatchRow
           /\ Moved([row EXCEPT !.status = status, !.due = n], row, status, n)
           /\ [row EXCEPT !.status = status, !.attempts = n] \in BatchRow
BY DEF BatchRow, Moved

(* The worker holds a batch, and an attempt it has counted.                *)
WorkerIsReal ==
    worker.step # "idle" => worker.batch \in Batches /\ worker.attempt > 0

(* What recover_notification_batches leaves behind.                        *)
LEMMA RecoveredRows ==
    ASSUME TypeOK, RecoverBatches
    PROVE  /\ batch' \in [Batches -> BatchRow] /\ rec' \in [Deliveries -> Row]
           /\ \A b \in Batches :
                 IF batch[b].status \in {"pending", "delivering"}
                    THEN Moved(batch'[b], batch[b], "pending", now)
                    ELSE batch'[b] = batch[b]
           /\ \A d \in Deliveries :
                 /\ rec'[d].attempts = rec[d].attempts
                 /\ IF /\ rec[d].status \in {"queued", "delivering"}
                       /\ \E b \in Batches :
                             member[d].batch = b /\ batch[b].status \in {"pending", "delivering"}
                       THEN rec'[d].status = "queued"
                       ELSE rec'[d] = rec[d]
<1>1. batch \in [Batches -> BatchRow] /\ rec \in [Deliveries -> Row] /\ now \in Nat
  BY BatchTypes DEF TypeOK, BatchTypeOK, RecordsTypeOK
<1>2. \A b \in Batches :
         /\ [batch[b] EXCEPT !.status = "pending", !.due = now] \in BatchRow
         /\ Moved([batch[b] EXCEPT !.status = "pending", !.due = now], batch[b], "pending", now)
  BY <1>1, RowUpdates
<1>3. \A d \in Deliveries :
         /\ [rec[d] EXCEPT !.status = "queued"] \in Row
         /\ [rec[d] EXCEPT !.status = "queued"].status = "queued"
         /\ [rec[d] EXCEPT !.status = "queued"].attempts = rec[d].attempts
  BY <1>1 DEF Row, LiveStatus
<1>4. /\ batch' = [b \in Batches |->
             IF batch[b].status \in {"pending", "delivering"}
                THEN [batch[b] EXCEPT !.status = "pending", !.due = now] ELSE batch[b]]
      /\ rec' = [d \in Deliveries |->
             IF /\ rec[d].status \in {"queued", "delivering"}
                /\ \E b \in Batches :
                      member[d].batch = b /\ batch[b].status \in {"pending", "delivering"}
                THEN [rec[d] EXCEPT !.status = "queued"] ELSE rec[d]]
  BY DEF RecoverBatches, Interrupted
<1> QED
  BY <1>1, <1>2, <1>3, <1>4

(* What claim_due_notification_batch leaves behind.                        *)
LEMMA ClaimedRows ==
    ASSUME TypeOK, NEW b \in Batches, Claim(b)
    PROVE  /\ batch' \in [Batches -> BatchRow] /\ rec' \in [Deliveries -> Row]
           /\ batch'[b].status = "delivering" /\ batch'[b].attempts = batch[b].attempts + 1
           /\ batch'[b].key = batch[b].key /\ batch'[b].due = batch[b].due
           /\ batch'[b].count = batch[b].count /\ batch'[b].bytes = batch[b].bytes
           /\ \A c \in Batches \ {b} : batch'[c] = batch[c]
           /\ \A d \in Deliveries :
                 IF d \in Members(b)
                    THEN rec'[d].status = "delivering" /\ rec'[d].attempts = batch[b].attempts + 1
                    ELSE rec'[d] = rec[d]
<1>1. batch \in [Batches -> BatchRow] /\ rec \in [Deliveries -> Row]
  BY BatchTypes DEF TypeOK, BatchTypeOK, RecordsTypeOK
<1> DEFINE attempt == batch[b].attempts + 1
           claimed == [batch[b] EXCEPT !.status = "delivering", !.attempts = attempt]
<1>2. attempt \in Nat
  BY <1>1 DEF BatchRow
<1>3. /\ claimed \in BatchRow
      /\ claimed.status = "delivering" /\ claimed.attempts = attempt
      /\ claimed.key = batch[b].key /\ claimed.due = batch[b].due
      /\ claimed.count = batch[b].count /\ claimed.bytes = batch[b].bytes
  BY <1>1, <1>2, RowUpdates DEF BatchRow
<1>4. /\ batch' = [batch EXCEPT ![b] = claimed]
      /\ rec' = [d \in Deliveries |->
             IF d \in Members(b) THEN [status |-> "delivering", attempts |-> attempt]
                                 ELSE rec[d]]
  BY <1>1 DEF Claim, MoveMembers
<1>5. [status |-> "delivering", attempts |-> attempt] \in Row
  BY <1>2 DEF Row, LiveStatus
<1> QED
  BY <1>1, <1>3, <1>4, <1>5

(* The rows after a batch's outcome is recorded, or could not be.          *)
Recorded(status, due) ==
    /\ UNCHANGED lost
    /\ Moved(batch'[worker.batch], batch[worker.batch], status, due)
    /\ \A b \in Batches \ {worker.batch} : batch'[b] = batch[b]
    /\ \A d \in Deliveries :
          IF d \in Members(worker.batch)
             THEN rec'[d].status = status /\ rec'[d].attempts = rec[d].attempts
             ELSE rec'[d] = rec[d]

NotRecorded ==
    StorageFails /\ UNCHANGED <<batch, rec>> /\ lost' = lost \cup {worker.batch}

LEMMA FinishedRows ==
    ASSUME TypeOK, NEW status \in {"retrying"} \cup TerminalStatus, NEW due \in Nat,
           worker.batch \in Batches, FinishBatch(status, due)
    PROVE  /\ worker' = Idle
           /\ UNCHANGED <<phase, limit, configured, crashes, member, now, taken, named>>
           /\ batch' \in [Batches -> BatchRow] /\ rec' \in [Deliveries -> Row]
           /\ Recorded(status, due) \/ NotRecorded
<1>1. batch \in [Batches -> BatchRow] /\ rec \in [Deliveries -> Row]
  BY BatchTypes DEF TypeOK, BatchTypeOK, RecordsTypeOK
<1>2. \A b \in Batches :
         /\ [batch[b] EXCEPT !.status = status, !.due = due] \in BatchRow
         /\ Moved([batch[b] EXCEPT !.status = status, !.due = due], batch[b], status, due)
  BY <1>1, RowUpdates
<1>3. \A d \in Deliveries :
         /\ [rec[d] EXCEPT !.status = status] \in Row
         /\ [rec[d] EXCEPT !.status = status].status = status
         /\ [rec[d] EXCEPT !.status = status].attempts = rec[d].attempts
  BY <1>1 DEF Row, LiveStatus
<1> DEFINE written ==
             /\ batch' = [batch EXCEPT ![worker.batch].status = status,
                                       ![worker.batch].due = due]
             /\ rec' = [d \in Deliveries |->
                          IF d \in Members(worker.batch) THEN [rec[d] EXCEPT !.status = status]
                                                         ELSE rec[d]]
             /\ UNCHANGED lost
<1>4. /\ written \/ NotRecorded
      /\ worker' = Idle
      /\ UNCHANGED <<phase, limit, configured, crashes, member, now, taken, named>>
  BY Zenon DEF FinishBatch, NotRecorded
<1>5. CASE written
  <2>1. batch' = [b \in Batches |->
                    IF b = worker.batch THEN [batch[b] EXCEPT !.status = status, !.due = due]
                                        ELSE batch[b]]
    BY <1>1, <1>5
  <2>2. batch' \in [Batches -> BatchRow] /\ rec' \in [Deliveries -> Row]
    BY <1>1, <1>2, <1>3, <1>5, <2>1
  <2>3. Recorded(status, due)
    BY <1>2, <1>3, <1>5, <2>1 DEF Recorded
  <2> QED BY <1>4, <2>2, <2>3
<1>6. CASE NotRecorded
  BY <1>1, <1>4, <1>6 DEF NotRecorded
<1> QED
  BY <1>4, <1>5, <1>6

(* The worker's last step is one of three outcomes of the batch it holds.  *)
LEMMA WorkerFinishes ==
    ASSUME TypeOK, WorkerIsReal, BatchSucceeded \/ BatchDeadLettered \/ BatchRetrying
    PROVE  /\ worker.step # "idle" /\ worker.batch \in Batches
           /\ \E status \in {"retrying"} \cup TerminalStatus, due \in Nat :
                 /\ FinishBatch(status, due)
                 /\ status = "succeeded" => worker.step = "delivered"
                 /\ status = "retrying" => worker.attempt < limit
<1>1. worker.step # "idle" /\ worker.batch \in Batches /\ worker.attempt \in Nat \ {0}
  BY DEF BatchSucceeded, BatchDeadLettered, BatchRetrying, WorkerIsReal, TypeOK, BatchTypeOK
<1>2. batch[worker.batch].due \in Nat /\ now + Backoff(worker.attempt) \in Nat
  BY <1>1, BatchTypes, BackoffType DEF TypeOK, BatchTypeOK, BatchRow
<1> QED
  BY <1>1, <1>2 DEF BatchSucceeded, BatchDeadLettered, BatchRetrying, TerminalStatus

(* Every variable keeps its type.                                          *)
LEMMA TypeStep ==
    ASSUME TypeOK, WorkerIsReal, [Next]_vars
    PROVE  TypeOK' /\ WorkerIsReal'
<1> USE DEF TypeOK, RecordsTypeOK, BatchTypeOK, recordVars, batchVars, Phases
<1>a. /\ batch \in [Batches -> BatchRow]
      /\ (batch' \in [Batches -> BatchRow] <=>
            batch' \in [Batches ->
                [status : {"none", "pending", "delivering", "retrying"} \cup TerminalStatus,
                 key : BatchKeys \cup {"none"}, due : Nat, attempts : Nat,
                 count : Nat, bytes : Nat]])
  BY BatchTypes DEF BatchRow
<1>1. CASE UNCHANGED vars
  BY <1>1 DEF vars, WorkerIsReal
<1>2. ASSUME Boot, RecoverBatches PROVE TypeOK' /\ WorkerIsReal'
  <2>1. batch' \in [Batches -> BatchRow] /\ rec' \in [Deliveries -> Row]
    BY <1>2, RecoveredRows
  <2> QED
    BY <1>a, <1>2, <2>1, RecordsAssumption DEF Boot, RecoverBatches, WorkerIsReal
<1>3. CASE StartWorker
  BY <1>3 DEF StartWorker, WorkerIsReal
<1>4. ASSUME ProcessEnds, WorkerDies PROVE TypeOK' /\ WorkerIsReal'
  <2>1. UNCHANGED <<rec, limit, configured, batch, member, now, taken, lost, named>>
    BY <1>4 DEF ProcessEnds, WorkerDies
  <2>2. phase' = "down" /\ crashes' \in 0 .. MaxCrashes
    BY <1>4, RecordsAssumption DEF ProcessEnds
  <2>3. worker' = Idle
    BY <1>4 DEF WorkerDies
  <2> QED
    BY <2>1, <2>2, <2>3 DEF WorkerIsReal, Idle
<1>5. ASSUME NEW d \in Deliveries, NEW key \in BatchKeys, NEW size \in EventSizes,
             QueueBatched(d, key, size)
      PROVE  TypeOK' /\ WorkerIsReal'
  <2>1. batch' \in [Batches -> BatchRow]
    BY <1>5, JoinEffect DEF QueueBatched
  <2>2. PICK b \in Batches : member' = [member EXCEPT ![d] = [batch |-> b, bytes |-> size]]
    BY <1>5, JoinEffect DEF QueueBatched
  <2>3. member' \in [Deliveries -> [batch : {0} \cup Batches, bytes : Nat]]
    BY <2>2, ConstantTypes
  <2>4. rec' \in [Deliveries -> Row]
    BY <1>5 DEF QueueBatched, InsertRow, Row, LiveStatus
  <2> QED
    BY <1>a, <1>5, <2>1, <2>3, <2>4 DEF QueueBatched, WorkerIsReal
<1>6. ASSUME NEW b \in Batches, Claim(b) PROVE TypeOK' /\ WorkerIsReal'
  <2>1. batch[b].attempts + 1 \in Nat \ {0}
    BY <1>a DEF BatchRow
  <2>2. batch' \in [Batches -> BatchRow] /\ rec' \in [Deliveries -> Row]
    BY <1>6, ClaimedRows
  <2>3. worker' = [step |-> "sending", batch |-> b, attempt |-> batch[b].attempts + 1,
                   content |-> Members(b)]
    BY <1>6 DEF Claim
  <2> QED
    BY <1>a, <1>6, <2>1, <2>2, <2>3 DEF Claim, WorkerIsReal, Members
<1>7. CASE SendBatch
  <2>1. PICK answer \in {"delivered", "rejected", "failed"} :
           worker' = [worker EXCEPT !.step = answer]
    BY <1>7 DEF SendBatch
  <2>2. worker' \in [step : {"idle", "sending", "delivered", "rejected", "failed"},
                     batch : {0} \cup Batches, attempt : Nat, content : SUBSET Deliveries]
    BY <2>1
  <2>3. taken' \subseteq Deliveries
    BY <1>7 DEF SendBatch
  <2>4. named' \in [Batches -> SUBSET Deliveries]
    BY <1>7 DEF SendBatch
  <2>5. WorkerIsReal'
    BY <1>7, <2>1 DEF SendBatch, WorkerIsReal
  <2> QED BY <1>7, <2>2, <2>3, <2>4, <2>5 DEF SendBatch
<1>8. ASSUME NEW status \in {"retrying"} \cup TerminalStatus, NEW due \in Nat,
             worker.batch \in Batches, FinishBatch(status, due)
      PROVE  TypeOK' /\ WorkerIsReal'
  <2>1. /\ worker' = Idle
        /\ UNCHANGED <<phase, limit, configured, crashes, member, now, taken, named>>
        /\ batch' \in [Batches -> BatchRow] /\ rec' \in [Deliveries -> Row]
    BY <1>8, FinishedRows
  <2>2. lost' \subseteq Batches
    BY <1>8, FinishedRows DEF Recorded, NotRecorded
  <2> QED BY <1>a, <2>1, <2>2 DEF Idle, WorkerIsReal
<1>9. CASE BatchSucceeded \/ BatchDeadLettered \/ BatchRetrying
  BY <1>8, <1>9, WorkerFinishes
<1>10. CASE Tick
  BY <1>10 DEF Tick, WorkerIsReal
<1>11. CASE Quiet
  BY <1>1, <1>11 DEF Quiet
<1> QED
  BY <1>1, <1>2, <1>3, <1>4, <1>5, <1>6, <1>7, <1>9, <1>10, <1>11
  DEF Next, Startup, Crash, BatchWorker

LEMMA TypesAtFirst == Init => TypeOK /\ WorkerIsReal
BY RecordsAssumption, ConstantTypes
DEF Init, RecordsInit, BatchInit, TypeOK, RecordsTypeOK, BatchTypeOK, Row, Phases, NoBatch,
    NoMember, Idle, WorkerIsReal

(* TypeOK.                                                                 *)
THEOREM TypeCorrect == Spec => []TypeOK
<1>1. TypeOK /\ WorkerIsReal /\ [Next]_vars => TypeOK' /\ WorkerIsReal'
  BY TypeStep
<1>2. QED
  BY <1>1, TypesAtFirst, PTL DEF Spec
----------------------------------------------------------------------------
(* The worker and what is in flight.                                       *)

LEMMA RowsAreMembersStep ==
    ASSUME TypeOK, WorkerIsReal, RowsAreMembers, [Next]_vars
    PROVE  RowsAreMembers'
<1> USE DEF TypeOK, RecordsTypeOK, BatchTypeOK, recordVars, batchVars
<1>1. ASSUME UNCHANGED <<rec, member>> PROVE RowsAreMembers'
  BY <1>1 DEF RowsAreMembers
<1>2. CASE UNCHANGED vars
  BY <1>1, <1>2 DEF vars
<1>3. ASSUME Boot, RecoverBatches PROVE RowsAreMembers'
  <2>1. UNCHANGED member /\ \A d \in Deliveries :
           rec'[d].status = "none" <=> rec[d].status = "none"
    BY <1>3, RecoveredRows DEF RecoverBatches
  <2> QED BY <2>1 DEF RowsAreMembers
<1>4. CASE StartWorker
  BY <1>1, <1>4 DEF StartWorker
<1>5. ASSUME ProcessEnds, WorkerDies PROVE RowsAreMembers'
  BY <1>1, <1>5 DEF ProcessEnds, WorkerDies
<1>6. ASSUME NEW d \in Deliveries, NEW key \in BatchKeys, NEW size \in EventSizes,
             QueueBatched(d, key, size)
      PROVE  RowsAreMembers'
  <2>1. PICK b \in Batches : member' = [member EXCEPT ![d] = [batch |-> b, bytes |-> size]]
    BY <1>6, JoinEffect DEF QueueBatched
  <2>2. b # 0
    BY ConstantTypes
  <2> QED BY <1>6, <2>1, <2>2 DEF QueueBatched, InsertRow, RowsAreMembers
<1>7. ASSUME NEW b \in Batches, Claim(b) PROVE RowsAreMembers'
  <2>1. b # 0
    BY ConstantTypes
  <2> QED BY <1>7, <2>1 DEF Claim, MoveMembers, Members, RowsAreMembers
<1>8. CASE SendBatch
  BY <1>1, <1>8 DEF SendBatch
<1>9. CASE BatchSucceeded \/ BatchDeadLettered \/ BatchRetrying
  <2>1. PICK status \in {"retrying"} \cup TerminalStatus, due \in Nat :
           FinishBatch(status, due)
    BY <1>9, WorkerFinishes
  <2>2. worker.batch \in Batches /\ worker.batch # 0 /\ status # "none"
    BY <1>9, WorkerFinishes, ConstantTypes DEF TerminalStatus
  <2>3. UNCHANGED member /\ (Recorded(status, due) \/ NotRecorded)
    BY <2>1, <2>2, FinishedRows
  <2> QED BY <2>2, <2>3 DEF Recorded, NotRecorded, Members, RowsAreMembers
<1>10. CASE Tick
  BY <1>1, <1>10 DEF Tick
<1>11. CASE Quiet
  BY <1>2, <1>11 DEF Quiet
<1> QED
  BY <1>2, <1>3, <1>4, <1>5, <1>6, <1>7, <1>8, <1>9, <1>10, <1>11
  DEF Next, Startup, Crash, BatchWorker

(* Queueing an event leaves the batches in flight, and their members, alone. *)
LEMMA QueueFrame ==
    ASSUME TypeOK, RowsAreMembers,
           NEW d \in Deliveries, NEW key \in BatchKeys, NEW size \in EventSizes,
           QueueBatched(d, key, size), NEW c \in Batches
    PROVE  /\ batch[c].status \notin {"none", "pending"} =>
                 batch'[c] = batch[c] /\ Members(c)' = Members(c)
           /\ InUse(c) =>
                 batch'[c].status = batch[c].status /\ batch'[c].attempts = batch[c].attempts
           /\ ~InUse(c) => batch'[c].status \in {"none", "pending"}
<1>1. batch \in [Batches -> BatchRow] /\ member \in [Deliveries -> [batch : {0} \cup Batches, bytes : Nat]]
  BY BatchTypes DEF TypeOK, BatchTypeOK
<1>2. PICK b \in Batches :
         /\ member' = [member EXCEPT ![d] = [batch |-> b, bytes |-> size]]
         /\ Joined(b, key, size) \/ Opened(b, key, size)
  BY JoinEffect DEF QueueBatched
<1>3. member[d].batch = 0
  BY DEF QueueBatched, NextId, RowsAreMembers
<1>4. batch[b].status \in {"none", "pending"}
  BY <1>2 DEF Joined, Opened, Pending, NewBatchId
<1>5. batch[c].status \notin {"none", "pending"} => Members(c)' = Members(c)
  <2> SUFFICES ASSUME batch[c].status \notin {"none", "pending"} PROVE Members(c)' = Members(c)
    OBVIOUS
  <2>1. c # b /\ c # 0
    BY <1>4, ConstantTypes
  <2> QED BY <1>1, <1>2, <1>3, <2>1 DEF Members
<1>6. CASE Joined(b, key, size)
  BY <1>1, <1>5, <1>6 DEF Joined, Pending, InUse
<1>7. CASE Opened(b, key, size)
  <2>1. CASE c = b
    BY <1>5, <1>7, <2>1 DEF Opened, NewBatchId, InUse
  <2>2. CASE c # b
    <3>1. \/ batch'[c] = batch[c]
          \/ batch[c].status = "pending" /\ Moved(batch'[c], batch[c], "pending", now)
      BY <1>7, <2>2 DEF Opened, Pending
    <3> QED BY <1>5, <3>1 DEF Moved, InUse
  <2> QED BY <2>1, <2>2
<1> QED BY <1>2, <1>6, <1>7

LEMMA HeldStep ==
    ASSUME TypeOK, WorkerIsReal, RowsAreMembers, Held, [Next]_vars
    PROVE  Held'
<1> USE DEF TypeOK, RecordsTypeOK, BatchTypeOK, recordVars, batchVars, Phases
<1>1. CASE UNCHANGED vars
  BY <1>1 DEF vars, Held, Holds, Members
<1>2. ASSUME Boot, RecoverBatches PROVE Held'
  <2>1. worker'.step = "idle" /\ phase' = "recovering" /\ lost' = {}
    BY <1>2 DEF Boot, RecoverBatches, Held
  <2>3. \A b \in Batches : batch'[b].status # "delivering"
    BY <1>2, RecoveredRows DEF Moved
  <2> QED BY <2>1, <2>3 DEF Held, Holds
<1>3. CASE StartWorker
  BY <1>3 DEF StartWorker, Held, Holds, Members
<1>4. ASSUME ProcessEnds, WorkerDies PROVE Held'
  BY <1>4 DEF ProcessEnds, WorkerDies, Held, Idle
<1>5. ASSUME NEW d \in Deliveries, NEW key \in BatchKeys, NEW size \in EventSizes,
             QueueBatched(d, key, size)
      PROVE  Held'
  <2>1. /\ UNCHANGED <<worker, taken, lost>> /\ phase = "up" /\ phase' = "up"
    BY <1>5 DEF QueueBatched
  <2>2. \A c \in Batches : batch'[c].status = "delivering" <=> batch[c].status = "delivering"
    BY <1>5, QueueFrame DEF InUse
  <2>3. ASSUME worker.step # "idle", NEW c \in Batches, worker.batch = c
        PROVE  batch'[c] = batch[c] /\ Members(c)' = Members(c)
    <3>1. batch[c].status = "delivering"
      BY <2>1, <2>3 DEF Held, Holds
    <3> QED BY <1>5, <3>1, QueueFrame
  <2> QED BY <2>1, <2>2, <2>3 DEF Held, Holds
<1>6. ASSUME NEW b \in Batches, Claim(b) PROVE Held'
  BY <1>6 DEF Claim, Held, Holds, Due, Waiting, Members
<1>7. CASE SendBatch
  BY <1>7 DEF SendBatch, Held, Holds, Members
<1>8. CASE BatchSucceeded \/ BatchDeadLettered \/ BatchRetrying
  <2>1. PICK status \in {"retrying"} \cup TerminalStatus, due \in Nat :
           FinishBatch(status, due)
    BY <1>8, WorkerFinishes
  <2>2. worker.batch \in Batches /\ worker.step # "idle" /\ status # "delivering"
    BY <1>8, WorkerFinishes DEF TerminalStatus
  <2>3. worker' = Idle /\ UNCHANGED phase
    BY <2>1, <2>2, FinishedRows
  <2>4. worker'.step = "idle" /\ phase # "down" /\ worker.batch \notin lost
    BY <2>2, <2>3 DEF Idle, Held
  <2>5. CASE Recorded(status, due)
    <3>1. batch'[worker.batch].status # "delivering"
      BY <2>2, <2>5 DEF Recorded, Moved
    <3>2. \A b \in Batches : b # worker.batch =>
             (batch'[b].status = "delivering" <=> b \in lost')
      BY <2>2, <2>4, <2>5 DEF Recorded, Held, Holds
    <3> QED BY <2>2, <2>3, <2>4, <2>5, <3>1, <3>2 DEF Recorded, Held, Holds
  <2>6. CASE NotRecorded
    BY <2>2, <2>3, <2>4, <2>6 DEF NotRecorded, Held, Holds
  <2> QED BY <2>1, <2>2, <2>5, <2>6, FinishedRows
<1>9. CASE Tick
  BY <1>9 DEF Tick, Held, Holds, Members
<1>10. CASE Quiet
  BY <1>1, <1>10 DEF Quiet
<1> QED
  BY <1>1, <1>2, <1>3, <1>4, <1>5, <1>6, <1>7, <1>8, <1>9, <1>10
  DEF Next, Startup, Crash, BatchWorker

LEMMA HeldAlways == Spec => [](TypeOK /\ WorkerIsReal /\ RowsAreMembers /\ Held)
<1>1. Init => TypeOK /\ WorkerIsReal
  BY TypesAtFirst
<1>2. Init => RowsAreMembers /\ Held
  BY DEF Init, RecordsInit, BatchInit, NoMember, Idle, RowsAreMembers, Held
<1>3. TypeOK /\ WorkerIsReal /\ RowsAreMembers /\ Held /\ [Next]_vars
         => (TypeOK /\ WorkerIsReal /\ RowsAreMembers /\ Held)'
  BY TypeStep, RowsAreMembersStep, HeldStep
<1>4. QED
  BY <1>1, <1>2, <1>3, PTL DEF Spec

(* InFlightIsHeld: while the server is up, exactly the batch the worker    *)
(* holds and those whose outcome could not be recorded are in flight.      *)
THEOREM InFlightAlwaysHeld == Spec => []InFlightIsHeld
<1>1. Held => InFlightIsHeld
  BY DEF Held, Holds, InFlightIsHeld
<1>2. QED
  BY <1>1, HeldAlways, PTL
----------------------------------------------------------------------------
(* Batches, their members and their bounds.                                *)

(* Every other step than queueing an event leaves the membership, and what *)
(* is counted of it, as it was.                                            *)
LEMMA OtherSteps ==
    ASSUME TypeOK, WorkerIsReal, Held, [Next]_vars
    PROVE  \/ \E d \in Deliveries, key \in BatchKeys, size \in EventSizes :
                 QueueBatched(d, key, size)
           \/ /\ UNCHANGED member
              /\ \A b \in Batches :
                    /\ batch'[b].key = batch[b].key
                    /\ batch'[b].count = batch[b].count /\ batch'[b].bytes = batch[b].bytes
                    /\ InUse(b)' <=> InUse(b)
<1> DEFINE kept ==
              /\ UNCHANGED member
              /\ \A b \in Batches :
                    /\ batch'[b].key = batch[b].key
                    /\ batch'[b].count = batch[b].count /\ batch'[b].bytes = batch[b].bytes
                    /\ InUse(b)' <=> InUse(b)
<1>1. ASSUME UNCHANGED <<member, batch>> PROVE kept
  BY <1>1 DEF InUse
<1>2. CASE UNCHANGED vars
  BY <1>1, <1>2 DEF vars, batchVars
<1>3. ASSUME Boot, RecoverBatches PROVE kept
  <2>1. UNCHANGED member
    BY <1>3 DEF RecoverBatches
  <2> QED BY <1>3, <2>1, RecoveredRows DEF Moved, InUse
<1>4. CASE StartWorker \/ Tick \/ SendBatch \/ Quiet
  BY <1>1, <1>2, <1>4 DEF StartWorker, Tick, SendBatch, Quiet, batchVars
<1>5. ASSUME ProcessEnds, WorkerDies PROVE kept
  BY <1>1, <1>5 DEF WorkerDies
<1>6. ASSUME NEW b \in Batches, Claim(b) PROVE kept
  <2>1. UNCHANGED member /\ InUse(b)
    BY <1>6 DEF Claim, Due, Waiting, InUse
  <2> QED BY <1>6, <2>1, ClaimedRows DEF InUse
<1>7. CASE BatchSucceeded \/ BatchDeadLettered \/ BatchRetrying
  <2>1. PICK status \in {"retrying"} \cup TerminalStatus, due \in Nat :
           FinishBatch(status, due)
    BY <1>7, WorkerFinishes
  <2>2. worker.batch \in Batches /\ worker.step # "idle" /\ status # "none"
    BY <1>7, WorkerFinishes DEF TerminalStatus
  <2>3. InUse(worker.batch)
    BY <2>2 DEF Held, Holds, InUse, TypeOK, RecordsTypeOK, Phases
  <2>4. UNCHANGED member /\ (Recorded(status, due) \/ NotRecorded)
    BY <2>1, <2>2, FinishedRows
  <2>5. CASE Recorded(status, due)
    BY <2>2, <2>3, <2>4, <2>5 DEF Recorded, Moved, InUse
  <2>6. CASE NotRecorded
    BY <1>1, <2>4, <2>6 DEF NotRecorded
  <2> QED BY <2>4, <2>5, <2>6
<1> QED
  BY <1>2, <1>3, <1>4, <1>5, <1>6, <1>7 DEF Next, Startup, Crash, BatchWorker

----------------------------------------------------------------------------
(* Sums of bytes.                                                          *)

(* Induction over finite sets, without an operator as a parameter.         *)
LEMMA SmallestSubset ==
    ASSUME NEW S, IsFiniteSet(S), NEW C, C \subseteq SUBSET S, C # {}
    PROVE  \E T \in C : \A U \in C : U \subseteq T => U = T
<1>1. IsWellFoundedOn(StrictSubsetOrdering(S), SUBSET S)
  BY FS_StrictSubsetOrderingWellFounded, FS_FiniteSubsetsOfFinite
<1>2. PICK T \in C : \A U \in C : ~ (<<U, T>> \in StrictSubsetOrdering(S))
  BY <1>1, WFMin, Zenon
<1>3. ASSUME NEW U \in C, U \subseteq T, U # T PROVE FALSE
  <2>1. <<U, T>> \in (SUBSET S) \X (SUBSET S)
    OBVIOUS
  <2>2. <<U, T>> \in StrictSubsetOrdering(S)
    BY <1>3, <2>1 DEF StrictSubsetOrdering
  <2> QED BY <1>2, <2>2
<1> QED BY <1>3

(* What the rows of S add up to in the table m.                            *)
Bytes(m, S) == MapThenSumSet(LAMBDA d : m[d].bytes, S)

Some(T) == CHOOSE d \in T : TRUE

(* The recursion behind MapThenSumSet, over the subsets of S.              *)
SumsUp(sum, m, S) ==
    /\ sum = [T \in SUBSET S |-> sum[T]]
    /\ \A T \in SUBSET S :
          sum[T] = IF T = {} THEN 0 ELSE m[Some(T)].bytes + sum[T \ {Some(T)}]

(* It depends on nothing but the bytes of the rows that are summed up.     *)
LEMMA SumsAgree ==
    ASSUME NEW S, NEW m, NEW f, SumsUp(f, m, S), NEW R, NEW n, NEW g, SumsUp(g, n, R),
           NEW T, IsFiniteSet(T), T \subseteq S, T \subseteq R,
           \A d \in T : m[d].bytes = n[d].bytes
    PROVE  f[T] = g[T]
<1> DEFINE C == {U \in SUBSET T : f[U] # g[U]}
<1>1. CASE C = {}
  BY <1>1
<1>2. CASE C # {}
  <2>1. PICK U \in C : \A V \in C : V \subseteq U => V = U
    <3>1. C \subseteq SUBSET T
      OBVIOUS
    <3> HIDE DEF C
    <3> QED BY <1>2, <3>1, SmallestSubset
  <2>2. U # {}
    BY <2>1 DEF SumsUp
  <2>3. Some(U) \in U
    BY <2>2 DEF Some
  <2>4. f[U \ {Some(U)}] = g[U \ {Some(U)}]
    BY <2>1, <2>3
  <2>5. U \in SUBSET S /\ U \in SUBSET R
    BY <2>1
  <2>6. f[U] = m[Some(U)].bytes + f[U \ {Some(U)}]
    BY <2>2, <2>5 DEF SumsUp
  <2>7. g[U] = n[Some(U)].bytes + g[U \ {Some(U)}]
    BY <2>2, <2>5 DEF SumsUp
  <2> QED BY <2>1, <2>3, <2>4, <2>6, <2>7
<1> QED BY <1>1, <1>2

LEMMA SumExists ==
    ASSUME NEW S, IsFiniteSet(S), NEW m
    PROVE  \E sum : SumsUp(sum, m, S)
<1> DEFINE C == {T \in SUBSET S : ~ \E sum : SumsUp(sum, m, T)}
<1>1. CASE C = {}
  BY <1>1
<1>2. CASE C # {}
  <2>1. PICK T \in C : \A U \in C : U \subseteq T => U = T
    <3>1. C \subseteq SUBSET S
      OBVIOUS
    <3> HIDE DEF C
    <3> QED BY <1>2, <3>1, SmallestSubset
  <2> DEFINE Sum(U) == CHOOSE sum : SumsUp(sum, m, U)
             Next1(U, rest) == IF U = {} THEN 0 ELSE m[Some(U)].bytes + rest
             g == [U \in SUBSET T |->
                      IF U = T THEN Next1(T, Sum(T \ {Some(T)})[T \ {Some(T)}]) ELSE Sum(U)[U]]
  <2>2. ASSUME NEW U \in SUBSET T, U # T
        PROVE  SumsUp(Sum(U), m, U)
    <3>1. \E sum : SumsUp(sum, m, U)
      BY <2>1, <2>2
    <3> QED BY <3>1
  <2>3. \A U \in SUBSET T : U # {} => Some(U) \in U
    BY DEF Some
  <2>4. \A U \in SUBSET T : IsFiniteSet(U)
    BY FS_Subset
  <2>5. g = [U \in SUBSET T |-> g[U]]
    OBVIOUS
  <2>6. \A U \in SUBSET T : U # T => g[U] = Sum(U)[U]
    OBVIOUS
  <2>7. g[T] = Next1(T, Sum(T \ {Some(T)})[T \ {Some(T)}])
    OBVIOUS
  <2> HIDE DEF g, Sum
  <2>8. ASSUME NEW U \in SUBSET T
        PROVE  g[U] = Next1(U, g[U \ {Some(U)}])
    <3>1. CASE U = T
      BY <2>3, <2>6, <2>7, <3>1
    <3>2. CASE U # T /\ U = {}
      BY <2>2, <2>6, <3>2 DEF SumsUp
    <3>3. CASE U # T /\ U # {}
      <4> DEFINE V == U \ {Some(U)}
      <4>1. V \in SUBSET T /\ V # T /\ V \subseteq U
        BY <3>3
      <4>2. Sum(U)[V] = Sum(V)[V]
        BY <2>2, <2>4, <3>3, <4>1, SumsAgree
      <4>3. Sum(U)[U] = m[Some(U)].bytes + Sum(U)[V]
        BY <2>2, <3>3 DEF SumsUp
      <4> QED BY <2>6, <3>3, <4>1, <4>2, <4>3
    <3> QED BY <3>1, <3>2, <3>3
  <2>9. SumsUp(g, m, T)
    BY <2>5, <2>8 DEF SumsUp
  <2> QED BY <2>1, <2>9
<1> QED BY <1>1, <1>2

(* Bytes is what the recursion computes.                                   *)
LEMMA BytesSumUp ==
    ASSUME NEW S, IsFiniteSet(S), NEW m
    PROVE  \E sum : SumsUp(sum, m, S) /\ Bytes(m, S) = sum[S]
<1> DEFINE sum == CHOOSE sum : sum = [T \in SUBSET S |->
               IF T = {} THEN 0 ELSE m[CHOOSE d \in T : TRUE].bytes + sum[T \ {CHOOSE d \in T : TRUE}]]
<1>1. Bytes(m, S) = sum[S]
  BY Zenon DEF Bytes, MapThenSumSet, MapThenFoldSet
<1>2. PICK f : SumsUp(f, m, S)
  BY SumExists
<1>3. f = [T \in SUBSET S |->
               IF T = {} THEN 0 ELSE m[CHOOSE d \in T : TRUE].bytes + f[T \ {CHOOSE d \in T : TRUE}]]
  BY <1>2 DEF SumsUp, Some
<1>4. sum = [T \in SUBSET S |->
               IF T = {} THEN 0 ELSE m[CHOOSE d \in T : TRUE].bytes + sum[T \ {CHOOSE d \in T : TRUE}]]
  BY <1>3
<1> HIDE DEF sum
<1>5. SumsUp(sum, m, S)
  BY <1>4 DEF SumsUp, Some
<1> QED BY <1>1, <1>5

(* The order in which the rows are taken makes no difference.              *)
LEMMA SumTaken ==
    ASSUME NEW S, IsFiniteSet(S), NEW m, \A d \in S : m[d].bytes \in Nat,
           NEW sum, SumsUp(sum, m, S)
    PROVE  /\ sum[S] \in Nat
           /\ \A d \in S : sum[S] = m[d].bytes + sum[S \ {d}]
<1> DEFINE Right(T) == /\ sum[T] \in Nat
                       /\ \A d \in T : sum[T] = m[d].bytes + sum[T \ {d}]
           C == {T \in SUBSET S : ~ Right(T)}
<1>1. CASE C = {}
  BY <1>1
<1>2. CASE C # {}
  <2>1. PICK T \in C : \A U \in C : U \subseteq T => U = T
    <3>1. C \subseteq SUBSET S
      OBVIOUS
    <3> HIDE DEF C
    <3> QED BY <1>2, <3>1, SmallestSubset
  <2>2. T \in SUBSET S /\ ~ Right(T) /\ \A U \in SUBSET T : U # T => Right(U)
    BY <2>1
  <2> HIDE DEF C
  <2>3. T # {}
    <3>1. sum[{}] = 0
      BY DEF SumsUp
    <3>2. Right({})
      BY <3>1
    <3> QED BY <2>2, <3>2
  <2>4. PICK x \in T : x = Some(T)
    BY <2>3 DEF Some
  <2>5. sum[T] = m[x].bytes + sum[T \ {x}] /\ m[x].bytes \in Nat
    BY <2>2, <2>3, <2>4 DEF SumsUp
  <2>6. sum[T \ {x}] \in Nat
    BY <2>2, <2>4
  <2>7. ASSUME NEW d \in T
        PROVE  sum[T] = m[d].bytes + sum[T \ {d}]
    <3>1. CASE d = x
      BY <2>5, <3>1
    <3>2. CASE d # x
      <4>1. PICK rest : rest = T \ {x, d}
        OBVIOUS
      <4>2. rest = (T \ {x}) \ {d} /\ rest = (T \ {d}) \ {x}
        BY <4>1
      <4>3. sum[T \ {x}] = m[d].bytes + sum[rest]
        BY <2>2, <2>4, <3>2, <4>2
      <4>4. sum[T \ {d}] = m[x].bytes + sum[rest]
        <5>1. T \ {d} \in SUBSET T /\ T \ {d} # T /\ x \in T \ {d}
          BY <2>4, <3>2
        <5>2. Right(T \ {d})
          BY <2>2, <5>1
        <5> QED BY <4>2, <5>1, <5>2
      <4>5. sum[rest] \in Nat /\ m[d].bytes \in Nat
        BY <2>2, <2>4, <4>1
      <4> QED BY <2>5, <4>3, <4>4, <4>5
    <3> QED BY <3>1, <3>2
  <2> QED BY <2>2, <2>5, <2>6, <2>7
<1> QED BY <1>1, <1>2

(* Two tables that agree on the rows of S.                                *)
AgreeOn(m, n, S) == \A e \in S : n[e].bytes = m[e].bytes /\ m[e].bytes \in Nat

OneMoreRow(m, n, S, d) ==
    IsFiniteSet(S) /\ d \notin S /\ n[d].bytes \in Nat /\ AgreeOn(m, n, S)

OneMoreSum(m, n, S, d) == Bytes(n, S \cup {d}) = Bytes(m, S) + n[d].bytes

(* One row more adds its own bytes, whatever else the table says of others.*)
LEMMA BytesAdded ==
    ASSUME NEW S, NEW m, NEW n, NEW d, OneMoreRow(m, n, S, d)
    PROVE  OneMoreSum(m, n, S, d)
<1> USE DEF OneMoreRow
<1>1. PICK f : SumsUp(f, m, S) /\ Bytes(m, S) = f[S]
  BY BytesSumUp
<1>2. IsFiniteSet(S \cup {d})
  BY FS_AddElement
<1>3. PICK g : SumsUp(g, n, S \cup {d}) /\ Bytes(n, S \cup {d}) = g[S \cup {d}]
  BY <1>2, BytesSumUp
<1>4. g[S \cup {d}] = n[d].bytes + g[(S \cup {d}) \ {d}]
  BY <1>2, <1>3, SumTaken DEF AgreeOn
<1>5. (S \cup {d}) \ {d} = S
  OBVIOUS
<1>6. g[S] = f[S]
  BY <1>1, <1>3, SumsAgree DEF AgreeOn
<1>7. f[S] \in Nat
  BY <1>1, SumTaken DEF AgreeOn
<1>8. g[S \cup {d}] = n[d].bytes + f[S]
  BY <1>4, <1>5, <1>6
<1>9. n[d].bytes \in Nat
  OBVIOUS
<1> QED BY <1>1, <1>3, <1>7, <1>8, <1>9 DEF OneMoreSum

LEMMA BytesUnchanged ==
    ASSUME NEW S, IsFiniteSet(S), NEW m, NEW n, \A e \in S : n[e].bytes = m[e].bytes
    PROVE  Bytes(n, S) = Bytes(m, S)
<1>1. PICK f : SumsUp(f, m, S) /\ Bytes(m, S) = f[S]
  BY BytesSumUp
<1>2. PICK g : SumsUp(g, n, S) /\ Bytes(n, S) = g[S]
  BY BytesSumUp
<1> QED BY <1>1, <1>2, SumsAgree

LEMMA NoBytes == ASSUME NEW m PROVE Bytes(m, {}) = 0
<1>1. PICK f : SumsUp(f, m, {}) /\ Bytes(m, {}) = f[{}]
  BY FS_EmptySet, BytesSumUp
<1> QED BY <1>1 DEF SumsUp

----------------------------------------------------------------------------
(* The batches and their members agree.                                    *)

(* The part of CountersMatchMembers that is a sum.                         *)
BytesMatchMembers ==
    \A b \in Batches : batch[b].bytes = Bytes(member, Members(b))

Bookkeeping ==
    /\ IdsInOrder /\ MembersHaveBatches
    /\ CountsMatchMembers /\ BytesMatchMembers
    /\ WithinBounds

LEMMA MembersAreFinite ==
    ASSUME NEW b PROVE IsFiniteSet(Members(b)) /\ Cardinality(Members(b)) \in Nat
<1>1. Members(b) \subseteq 1 .. MaxDeliveries /\ IsFiniteSet(1 .. MaxDeliveries)
  BY RecordsAssumption, FS_Interval DEF Members, Deliveries
<1> QED BY <1>1, FS_Subset, FS_CardinalityType

LEMMA BookkeepingStep ==
    ASSUME TypeOK, WorkerIsReal, RowsAreMembers, Held, Bookkeeping, [Next]_vars
    PROVE  Bookkeeping'
<1>a. /\ batch \in [Batches -> BatchRow]
      /\ member \in [Deliveries -> [batch : {0} \cup Batches, bytes : Nat]]
  BY BatchTypes DEF TypeOK, BatchTypeOK
<1>1. CASE /\ UNCHANGED member
           /\ \A b \in Batches :
                 /\ batch'[b].key = batch[b].key
                 /\ batch'[b].count = batch[b].count /\ batch'[b].bytes = batch[b].bytes
                 /\ InUse(b)' <=> InUse(b)
  <2>1. IdsInOrder' /\ WithinBounds'
    BY <1>1 DEF Bookkeeping, IdsInOrder, WithinBounds
  <2>2. MembersHaveBatches'
    BY <1>1, <1>a DEF Bookkeeping, MembersHaveBatches
  <2>3. CountsMatchMembers' /\ BytesMatchMembers'
    BY <1>1 DEF Bookkeeping, CountsMatchMembers, BytesMatchMembers, Members
  <2> QED BY <2>1, <2>2, <2>3 DEF Bookkeeping
<1>2. ASSUME NEW d \in Deliveries, NEW key \in BatchKeys, NEW size \in EventSizes,
             QueueBatched(d, key, size)
      PROVE  Bookkeeping'
  <2>1. PICK b \in Batches :
           /\ member' = [member EXCEPT ![d] = [batch |-> b, bytes |-> size]]
           /\ Joined(b, key, size) \/ Opened(b, key, size)
    BY <1>2, JoinEffect DEF QueueBatched
  <2>2. member[d].batch = 0 /\ b # 0
    BY <1>2, ConstantTypes DEF QueueBatched, NextId, RowsAreMembers
  <2>3. /\ d \notin Members(b) /\ Members(b)' = Members(b) \cup {d}
        /\ \A c \in Batches \ {b} : Members(c)' = Members(c)
    BY <1>a, <2>1, <2>2, ConstantTypes DEF Members
  <2>4. \A c \in Batches \ {b} : /\ batch'[c].count = batch[c].count
                                 /\ batch'[c].bytes = batch[c].bytes
                                 /\ batch'[c].status = batch[c].status
    BY <2>1 DEF Joined, Opened, Moved, Pending
  <2>5. InUse(b)' /\ \A c \in Batches \ {b} : InUse(c)' <=> InUse(c)
    BY <2>1, <2>4 DEF Joined, Opened, InUse
  <2>6. IdsInOrder'
    <3>1. CASE InUse(b)
      BY <2>5, <3>1 DEF Bookkeeping, IdsInOrder
    <3>2. CASE ~InUse(b)
      <4>1. \A c \in Batches : c < b => InUse(c)
        BY <2>1, <3>2, ConstantTypes
        DEF Opened, Joined, Pending, NewBatchId, InUse, Batches, Deliveries
      <4>2. \A c \in Batches : b < c => ~InUse(c)
        BY <3>2 DEF Bookkeeping, IdsInOrder
      <4> QED BY <2>5, <4>1, <4>2, ConstantTypes DEF Bookkeeping, IdsInOrder
    <3> QED BY <3>1, <3>2
  <2>7. MembersHaveBatches'
    BY <1>a, <2>1, <2>5 DEF Bookkeeping, MembersHaveBatches
  <2>8. IsFiniteSet(Members(b)) /\ Cardinality(Members(b)) \in Nat
    BY MembersAreFinite
  <2>9. CountsMatchMembers'
    <3>1. Cardinality(Members(b)') = Cardinality(Members(b)) + 1
      BY <2>3, <2>8, FS_AddElement
    <3>2. batch'[b].count = Cardinality(Members(b)')
      <4>1. CASE Joined(b, key, size)
        BY <3>1, <4>1 DEF Joined, Bookkeeping, CountsMatchMembers
      <4>2. CASE Opened(b, key, size)
        <5>1. Members(b) = {}
          BY <2>2, <4>2 DEF Opened, NewBatchId, Members, InUse, Bookkeeping, MembersHaveBatches
        <5> QED BY <3>1, <4>2, <5>1, FS_EmptySet DEF Opened
      <4> QED BY <2>1, <4>1, <4>2
    <3> QED BY <2>3, <2>4, <3>2 DEF Bookkeeping, CountsMatchMembers
  <2>10. WithinBounds'
    <3>1. batch'[b].count \in 1 .. MaxEvents /\ (batch'[b].bytes <= MaxBytes \/ batch'[b].count = 1)
      <4>1. CASE Joined(b, key, size)
        BY <1>a, <4>1, ConstantTypes
        DEF Joined, Pending, Fits, InUse, BatchRow, Bookkeeping, WithinBounds
      <4>2. CASE Opened(b, key, size)
        BY <4>2, ConstantTypes DEF Opened
      <4> QED BY <2>1, <4>1, <4>2
    <3> QED BY <2>4, <2>5, <3>1 DEF Bookkeeping, WithinBounds
  <2>11. BytesMatchMembers'
    <3>1. /\ \A e \in Deliveries \ {d} : member'[e] = member[e]
          /\ member'[d].bytes = size /\ size \in Nat
          /\ \A e \in Deliveries : member[e].bytes \in Nat
      BY <1>a, <2>1, ConstantTypes
    <3>2. ASSUME NEW c \in Batches \ {b}
          PROVE  batch'[c].bytes = Bytes(member', Members(c)')
      <4>1. Members(c)' = Members(c) /\ d \notin Members(c)
        BY <2>2, <2>3, ConstantTypes DEF Members
      <4>2. \A e \in Members(c) : member'[e].bytes = member[e].bytes
        BY <3>1, <4>1 DEF Members
      <4>3. Bytes(member', Members(c)) = Bytes(member, Members(c))
        BY <4>2, MembersAreFinite, BytesUnchanged
      <4> QED BY <2>4, <4>1, <4>3 DEF Bookkeeping, BytesMatchMembers
    <3>3. Bytes(member', Members(b)') = Bytes(member, Members(b)) + size
      <4>1. AgreeOn(member, member', Members(b))
        BY <2>3, <3>1 DEF Members, AgreeOn
      <4>2. Bytes(member', Members(b) \cup {d}) = Bytes(member, Members(b)) + member'[d].bytes
        <5>1. OneMoreRow(member, member', Members(b), d)
          BY <2>3, <2>8, <3>1, <4>1 DEF OneMoreRow
        <5> QED BY <5>1, BytesAdded DEF OneMoreSum
      <4> QED BY <2>3, <3>1, <4>2
    <3>4. batch'[b].bytes = Bytes(member', Members(b)')
      <4>1. CASE Joined(b, key, size)
        BY <3>3, <4>1 DEF Joined, Bookkeeping, BytesMatchMembers
      <4>2. CASE Opened(b, key, size)
        <5>1. Members(b) = {}
          BY <2>2, <4>2 DEF Opened, NewBatchId, Members, InUse, Bookkeeping, MembersHaveBatches
        <5>2. Bytes(member, Members(b)) = 0
          BY <5>1, NoBytes
        <5> QED BY <3>1, <3>3, <4>2, <5>2 DEF Opened
      <4> QED BY <2>1, <4>1, <4>2
    <3> QED BY <3>2, <3>4 DEF BytesMatchMembers
  <2> QED BY <2>6, <2>7, <2>9, <2>10, <2>11 DEF Bookkeeping
<1> QED
  BY <1>1, <1>2, OtherSteps

LEMMA BookkeepingAlways == Spec => []Bookkeeping
<1>1. Init => Bookkeeping
  <2> SUFFICES ASSUME Init PROVE Bookkeeping
    OBVIOUS
  <2>1. \A b \in Batches : Members(b) = {}
    BY ConstantTypes DEF Init, BatchInit, NoMember, Members
  <2> QED
    BY <2>1, FS_EmptySet, NoBytes
    DEF Init, BatchInit, NoBatch, NoMember, InUse, Bookkeeping, IdsInOrder,
        MembersHaveBatches, CountsMatchMembers, BytesMatchMembers, WithinBounds
<1>2. TypeOK /\ WorkerIsReal /\ RowsAreMembers /\ Held /\ Bookkeeping /\ [Next]_vars
         => Bookkeeping'
  BY BookkeepingStep
<1>3. QED
  BY <1>1, <1>2, HeldAlways, PTL DEF Spec

(* WithinBounds: no batch outgrows the configured bounds.                  *)
THEOREM AlwaysWithinBounds == Spec => []WithinBounds
<1>1. Bookkeeping => WithinBounds
  BY DEF Bookkeeping
<1>2. QED
  BY <1>1, BookkeepingAlways, PTL

(* CountersMatchMembers: the counters max_events and max_payload_bytes are  *)
(* tested against are the number of the member rows and the sum of their   *)
(* sizes.                                                                  *)
THEOREM CountersAlwaysMatch == Spec => []CountersMatchMembers
<1>1. Bookkeeping => CountersMatchMembers
  BY DEF Bookkeeping, CountersMatchMembers, CountsMatchMembers, BytesMatchMembers, Bytes
<1>2. QED
  BY <1>1, BookkeepingAlways, PTL

----------------------------------------------------------------------------
(* What the member rows show.                                              *)

Follows(d) ==
    LET row == batch[member[d].batch]
    IN  /\ rec[d].status = IF row.status = "pending" THEN "queued" ELSE row.status
        /\ rec[d].attempts <= row.attempts
        /\ row.status # "pending" => rec[d].attempts = row.attempts

LEMMA FollowStep ==
    ASSUME TypeOK, WorkerIsReal, RowsAreMembers, Held, Bookkeeping, MembersFollowBatch,
           [Next]_vars
    PROVE  MembersFollowBatch'
<1>a. /\ batch \in [Batches -> BatchRow] /\ rec \in [Deliveries -> Row]
      /\ member \in [Deliveries -> [batch : {0} \cup Batches, bytes : Nat]]
  BY BatchTypes DEF TypeOK, RecordsTypeOK, BatchTypeOK
<1>b. \A d \in Deliveries : member[d].batch # 0 => member[d].batch \in Batches /\ Follows(d)
  BY <1>a DEF MembersFollowBatch, Follows
<1>c. ASSUME UNCHANGED <<rec, member, batch>> PROVE MembersFollowBatch'
  BY <1>c DEF MembersFollowBatch
<1>d. ASSUME UNCHANGED member, \A d \in Deliveries : member[d].batch # 0 => Follows(d)'
      PROVE  MembersFollowBatch'
  BY <1>d DEF MembersFollowBatch, Follows
<1>1. CASE UNCHANGED vars
  BY <1>c, <1>1 DEF vars, recordVars, batchVars
<1>2. ASSUME Boot, RecoverBatches PROVE MembersFollowBatch'
  <2>1. UNCHANGED member
    BY <1>2 DEF RecoverBatches
  <2>2. ASSUME NEW d \in Deliveries, NEW b \in Batches, member[d].batch = b
        PROVE  Follows(d)'
    <3>1. b # 0 /\ Follows(d) /\ member'[d].batch = b
      BY <1>b, <2>1, <2>2, ConstantTypes
    <3>2. CASE batch[b].status \in {"pending", "delivering"}
      <4>1. rec[d].status \in {"queued", "delivering"} /\ rec[d].attempts <= batch[b].attempts
        BY <2>2, <3>1, <3>2 DEF Follows
      <4>2. rec'[d].status = "queued" /\ rec'[d].attempts = rec[d].attempts
        BY <1>2, <2>2, <3>2, <4>1, RecoveredRows
      <4>3. batch'[b].status = "pending" /\ batch'[b].attempts = batch[b].attempts
        BY <1>2, <3>2, RecoveredRows DEF Moved
      <4> QED BY <3>1, <4>1, <4>2, <4>3 DEF Follows
    <3>3. CASE batch[b].status \notin {"pending", "delivering"}
      <4>1. rec'[d] = rec[d] /\ batch'[b] = batch[b]
        BY <1>2, <2>2, <3>3, RecoveredRows
      <4> QED BY <2>2, <3>1, <4>1 DEF Follows
    <3> QED BY <3>2, <3>3
  <2> QED BY <1>b, <1>d, <2>1, <2>2
<1>3. CASE StartWorker \/ Tick \/ SendBatch \/ Quiet
  BY <1>c, <1>1, <1>3 DEF StartWorker, Tick, SendBatch, Quiet, recordVars, batchVars
<1>4. ASSUME ProcessEnds, WorkerDies PROVE MembersFollowBatch'
  BY <1>c, <1>4 DEF ProcessEnds, WorkerDies
<1>5. ASSUME NEW d \in Deliveries, NEW key \in BatchKeys, NEW size \in EventSizes,
             QueueBatched(d, key, size)
      PROVE  MembersFollowBatch'
  <2>1. PICK b \in Batches :
           /\ member' = [member EXCEPT ![d] = [batch |-> b, bytes |-> size]]
           /\ Joined(b, key, size) \/ Opened(b, key, size)
    BY <1>5, JoinEffect DEF QueueBatched
  <2>2. member'[d].batch = b /\ rec'[d] = [status |-> "queued", attempts |-> 0]
    BY <1>5, <1>a, <2>1 DEF QueueBatched, InsertRow
  <2>3. batch'[b].status = "pending" /\ batch'[b].attempts \in Nat
    BY <1>a, <2>1 DEF Joined, Opened, BatchRow
  <2>4. Follows(d)'
    BY <2>2, <2>3 DEF Follows
  <2>5. ASSUME NEW e \in Deliveries \ {d}, NEW c \in Batches, member[e].batch = c
        PROVE  Follows(e)'
    <3>1. /\ Follows(e) /\ InUse(c)
          /\ member'[e] = member[e] /\ rec'[e] = rec[e]
      BY <1>5, <1>a, <1>b, <2>1, <2>5, ConstantTypes
      DEF QueueBatched, InsertRow, Bookkeeping, MembersHaveBatches
    <3>2. batch'[c].status = batch[c].status /\ batch'[c].attempts = batch[c].attempts
      BY <1>5, <3>1, QueueFrame
    <3> QED BY <2>5, <3>1, <3>2 DEF Follows
  <2>6. \A e \in Deliveries \ {d} : member'[e] = member[e]
    BY <1>a, <2>1
  <2>7. \A e \in Deliveries : member'[e].batch # 0 => Follows(e)'
    BY <1>b, <2>4, <2>5, <2>6
  <2> QED BY <2>7 DEF MembersFollowBatch, Follows
<1>6. ASSUME NEW b \in Batches, Claim(b) PROVE MembersFollowBatch'
  <2>1. UNCHANGED member
    BY <1>6 DEF Claim
  <2>2. ASSUME NEW d \in Deliveries, NEW c \in Batches, member[d].batch = c
        PROVE  Follows(d)'
    <3>1. Follows(d) /\ member'[d].batch = c
      BY <1>b, <2>1, <2>2, ConstantTypes
    <3>2. CASE c = b
      BY <1>6, <1>a, <2>1, <2>2, <3>1, <3>2, ClaimedRows DEF Follows, Members, BatchRow
    <3>3. CASE c # b
      BY <1>6, <2>1, <2>2, <3>1, <3>3, ClaimedRows DEF Follows, Members
    <3> QED BY <3>2, <3>3
  <2> QED BY <1>b, <1>d, <2>1, <2>2
<1>7. CASE BatchSucceeded \/ BatchDeadLettered \/ BatchRetrying
  <2>1. PICK status \in {"retrying"} \cup TerminalStatus, due \in Nat :
           FinishBatch(status, due)
    BY <1>7, WorkerFinishes
  <2>2. worker.batch \in Batches /\ batch[worker.batch].status = "delivering"
    BY <1>7, WorkerFinishes DEF Held, Holds
  <2>3. UNCHANGED member /\ (Recorded(status, due) \/ NotRecorded)
    BY <2>1, <2>2, FinishedRows
  <2>4. ASSUME Recorded(status, due), NEW d \in Deliveries, NEW c \in Batches,
               member[d].batch = c
        PROVE  Follows(d)'
    <3>1. Follows(d) /\ member'[d].batch = c
      BY <1>b, <2>3, <2>4, ConstantTypes
    <3>2. CASE c = worker.batch
      <4>1. rec'[d].status = status /\ rec'[d].attempts = rec[d].attempts
        BY <2>4, <3>2 DEF Recorded, Members
      <4>2. batch'[c].status = status /\ batch'[c].attempts = batch[c].attempts
        BY <2>4, <3>2 DEF Recorded, Moved
      <4>3. rec[d].attempts = batch[c].attempts /\ status # "pending"
        BY <2>2, <2>4, <3>1, <3>2 DEF Follows, TerminalStatus
      <4> QED BY <1>a, <3>1, <4>1, <4>2, <4>3 DEF Follows, BatchRow
    <3>3. CASE c # worker.batch
      BY <2>4, <3>1, <3>3 DEF Follows, Recorded, Members
    <3> QED BY <3>2, <3>3
  <2>5. CASE Recorded(status, due)
    BY <1>b, <1>d, <2>3, <2>4, <2>5
  <2>6. CASE NotRecorded
    BY <1>c, <2>3, <2>6 DEF NotRecorded
  <2> QED BY <2>3, <2>5, <2>6
<1> QED
  BY <1>1, <1>2, <1>3, <1>4, <1>5, <1>6, <1>7 DEF Next, Startup, Crash, BatchWorker

(* MembersFollowBatch: the row of an event shows what its batch is doing,  *)
(* through joining, claiming, retries, failed writes and recoveries.       *)
THEOREM MembersAlwaysFollow == Spec => []MembersFollowBatch
<1>1. Init => MembersFollowBatch
  BY DEF Init, BatchInit, NoMember, MembersFollowBatch
<1>2. /\ TypeOK /\ WorkerIsReal /\ RowsAreMembers /\ Held /\ Bookkeeping
      /\ MembersFollowBatch /\ [Next]_vars
      => MembersFollowBatch'
  BY FollowStep
<1>3. QED
  BY <1>1, <1>2, HeldAlways, BookkeepingAlways, PTL DEF Spec

----------------------------------------------------------------------------
(* Attempts.                                                               *)

LEMMA BudgetStep ==
    ASSUME TypeOK, WorkerIsReal, RowsAreMembers, Held, Budget, [Next]_vars, ~LimitMayDrop
    PROVE  Budget'
<1>a. /\ batch \in [Batches -> BatchRow] /\ crashes \in Nat /\ limit \in Nat
      /\ phase \in Phases /\ (phase # "down" => limit > 0)
  BY BatchTypes, RecordsAssumption DEF TypeOK, RecordsTypeOK
<1>b. \A b \in Batches : batch[b].attempts \in Nat /\ (InUse(b) => BudgetOf(b))
  BY <1>a DEF Budget, BatchRow
<1>c. ASSUME UNCHANGED <<phase, batch, limit, crashes>> PROVE Budget'
  BY <1>c DEF Budget, BudgetOf, InUse
<1>1. CASE UNCHANGED vars
  BY <1>c, <1>1 DEF vars, recordVars, batchVars
<1>2. ASSUME Boot, RecoverBatches PROVE Budget'
  <2>1. /\ phase = "down" /\ phase' = "recovering" /\ UNCHANGED crashes
        /\ limit' \in Nat /\ limit' >= limit
    BY <1>2, RecordsAssumption DEF Boot
  <2>2. ASSUME NEW b \in Batches, InUse(b)' PROVE BudgetOf(b)'
    <3>1. CASE batch[b].status \in {"pending", "delivering"}
      <4>1. batch'[b].status = "pending" /\ batch'[b].attempts = batch[b].attempts
        BY <1>2, <3>1, RecoveredRows DEF Moved
      <4> QED BY <1>a, <1>b, <2>1, <3>1, <4>1 DEF BudgetOf, InUse
    <3>2. CASE batch[b].status \notin {"pending", "delivering"}
      <4>1. batch'[b] = batch[b]
        BY <1>2, <3>2, RecoveredRows
      <4> QED BY <1>a, <1>b, <2>1, <2>2, <3>2, <4>1 DEF BudgetOf, InUse
    <3> QED BY <3>1, <3>2
  <2> QED BY <2>2 DEF Budget
<1>3. CASE StartWorker
  <2>1. phase' = "up" /\ UNCHANGED <<batch, limit, crashes>>
    BY <1>3 DEF StartWorker, batchVars
  <2> QED BY <2>1, <1>b DEF Budget, BudgetOf, InUse
<1>4. CASE Tick \/ SendBatch \/ Quiet
  BY <1>c, <1>1, <1>4 DEF Tick, SendBatch, Quiet, recordVars
<1>5. ASSUME ProcessEnds, WorkerDies PROVE Budget'
  <2>1. UNCHANGED <<batch, limit>> /\ crashes' = crashes + 1 /\ phase # "down"
    BY <1>5 DEF ProcessEnds, WorkerDies
  <2> QED BY <1>a, <1>b, <2>1 DEF Budget, BudgetOf, InUse
<1>6. ASSUME NEW d \in Deliveries, NEW key \in BatchKeys, NEW size \in EventSizes,
             QueueBatched(d, key, size)
      PROVE  Budget'
  <2>1. phase = "up" /\ UNCHANGED <<phase, limit, crashes>>
    BY <1>6 DEF QueueBatched
  <2>2. PICK b \in Batches : Joined(b, key, size) \/ Opened(b, key, size)
    BY <1>6, JoinEffect DEF QueueBatched
  <2>3. ASSUME NEW c \in Batches, InUse(c)' PROVE BudgetOf(c)'
    <3>1. CASE InUse(c)
      <4>1. batch'[c].status = batch[c].status /\ batch'[c].attempts = batch[c].attempts
        BY <1>6, <3>1, QueueFrame
      <4> QED BY <1>b, <2>1, <3>1, <4>1 DEF BudgetOf
    <3>2. CASE ~InUse(c)
      <4>1. Opened(b, key, size) /\ c = b
        BY <2>2, <2>3, <3>2 DEF Joined, Opened, Pending, Moved, InUse
      <4>2. batch'[c].status = "pending" /\ batch'[c].attempts = 0
        BY <4>1 DEF Opened
      <4> QED BY <1>a, <2>1, <4>2 DEF BudgetOf
    <3> QED BY <3>1, <3>2
  <2> QED BY <2>3 DEF Budget
<1>7. ASSUME NEW b \in Batches, Claim(b) PROVE Budget'
  <2>1. UNCHANGED <<phase, limit, crashes>> /\ phase # "down" /\ Waiting(b)
    BY <1>7 DEF Claim, Due
  <2>2. batch[b].attempts + 1 <= limit + crashes
    BY <1>a, <1>b, <2>1 DEF Waiting, InUse, BudgetOf
  <2>3. batch'[b].status = "delivering" /\ batch'[b].attempts = batch[b].attempts + 1
    BY <1>7, ClaimedRows
  <2>4. BudgetOf(b)'
    BY <2>1, <2>2, <2>3 DEF BudgetOf
  <2>5. \A c \in Batches \ {b} : InUse(c)' => BudgetOf(c)'
    BY <1>7, <1>b, <2>1, ClaimedRows DEF InUse, BudgetOf
  <2> QED BY <2>4, <2>5 DEF Budget
<1>8. CASE BatchSucceeded \/ BatchDeadLettered \/ BatchRetrying
  <2>1. PICK status \in {"retrying"} \cup TerminalStatus, due \in Nat :
           FinishBatch(status, due) /\ (status = "retrying" => worker.attempt < limit)
    BY <1>8, WorkerFinishes
  <2>2. /\ worker.batch \in Batches /\ batch[worker.batch].status = "delivering"
        /\ worker.attempt = batch[worker.batch].attempts
    BY <1>8, WorkerFinishes DEF Held, Holds
  <2>3. UNCHANGED <<phase, limit, crashes>> /\ (Recorded(status, due) \/ NotRecorded)
    BY <2>1, <2>2, FinishedRows
  <2>4. CASE Recorded(status, due)
    <3>1. ASSUME NEW c \in Batches, InUse(c)' PROVE BudgetOf(c)'
      <4>1. CASE c = worker.batch
        <5>1. batch'[c].status = status /\ batch'[c].attempts = batch[c].attempts
          BY <2>4, <4>1 DEF Recorded, Moved
        <5> QED BY <1>b, <2>1, <2>2, <2>3, <4>1, <5>1 DEF BudgetOf, InUse, TerminalStatus
      <4>2. CASE c # worker.batch
        BY <1>b, <2>3, <2>4, <3>1, <4>2 DEF Recorded, BudgetOf, InUse
      <4> QED BY <4>1, <4>2
    <3> QED BY <3>1 DEF Budget
  <2>5. CASE NotRecorded
    BY <1>c, <2>3, <2>5 DEF NotRecorded
  <2> QED BY <2>3, <2>4, <2>5
<1> QED
  BY <1>1, <1>2, <1>3, <1>4, <1>5, <1>6, <1>7, <1>8 DEF Next, Startup, Crash, BatchWorker

(* AttemptsBounded: max_attempts and one for each crash, however crashes,  *)
(* joins, failed writes and raised limits fall together.                   *)
THEOREM AttemptsAlwaysBounded == Spec => []AttemptsBounded
<1>1. Init => Budget
  BY DEF Init, BatchInit, NoBatch, InUse, Budget
<1>2. TypeOK /\ WorkerIsReal /\ RowsAreMembers /\ Held /\ Budget /\ [Next]_vars => Budget'
  <2>1. LimitMayDrop => Budget'
    BY DEF Budget
  <2> QED BY <2>1, BudgetStep
<1>3. Budget => AttemptsBounded
  BY DEF Budget, BudgetOf, AttemptsBounded
<1>4. QED
  BY <1>1, <1>2, <1>3, HeldAlways, PTL DEF Spec
----------------------------------------------------------------------------
(* The order of the batches of one key.                                    *)

LEMMA OrderStep ==
    ASSUME TypeOK, WorkerIsReal, RowsAreMembers, Held, Bookkeeping, OverdueInOrder, Attempted,
           [Next]_vars
    PROVE  OverdueInOrder' /\ Attempted'
<1>a. batch \in [Batches -> BatchRow] /\ batch' \in [Batches -> BatchRow] /\ now \in Nat
  BY TypeStep, BatchTypes DEF TypeOK, BatchTypeOK, BatchRow
<1>b. \A b \in Batches : batch[b].due \in Nat /\ batch'[b].due \in Nat /\ batch[b].attempts \in Nat
  BY <1>a DEF BatchRow
<1>c. ASSUME UNCHANGED batch, now' \in Nat, now' >= now PROVE OverdueInOrder' /\ Attempted'
  BY <1>a, <1>b, <1>c DEF OverdueInOrder, Attempted
<1>1. CASE UNCHANGED vars
  BY <1>a, <1>c, <1>1 DEF vars, batchVars
<1>2. ASSUME Boot, RecoverBatches PROVE OverdueInOrder' /\ Attempted'
  <2>1. UNCHANGED now
    BY <1>2 DEF RecoverBatches
  <2>2. \A b \in Batches : batch'[b].status = "pending" => batch'[b].due = now
    BY <1>2, RecoveredRows DEF Moved
  <2>3. \A b \in Batches : batch'[b].status \in {"delivering", "retrying"} => batch'[b] = batch[b]
    BY <1>2, RecoveredRows DEF Moved
  <2> QED BY <1>b, <2>1, <2>2, <2>3 DEF OverdueInOrder, Attempted
<1>3. CASE StartWorker \/ SendBatch \/ Quiet
  BY <1>a, <1>c, <1>1, <1>3 DEF StartWorker, SendBatch, Quiet, batchVars
<1>4. CASE Tick
  BY <1>a, <1>c, <1>4 DEF Tick
<1>5. ASSUME ProcessEnds, WorkerDies PROVE OverdueInOrder' /\ Attempted'
  BY <1>a, <1>c, <1>5 DEF WorkerDies
<1>6. ASSUME NEW d \in Deliveries, NEW key \in BatchKeys, NEW size \in EventSizes,
             QueueBatched(d, key, size)
      PROVE  OverdueInOrder' /\ Attempted'
  <2>1. UNCHANGED now
    BY <1>6 DEF QueueBatched
  <2>2. PICK b \in Batches : Joined(b, key, size) \/ Opened(b, key, size)
    BY <1>6, JoinEffect DEF QueueBatched
  <2>3. Attempted'
    BY <1>6, QueueFrame DEF Attempted, InUse
  <2>4. CASE Joined(b, key, size)
    <3>1. \A c \in Batches \ {b} : batch'[c] = batch[c]
      BY <2>4 DEF Joined
    <3>2. /\ batch[b].status = "pending" /\ batch[b].key = key
          /\ batch'[b].status = "pending" /\ batch'[b].key = key
          /\ batch'[b].due \in {batch[b].due, now}
          /\ \A c \in Batches : batch[c].status = "pending" /\ batch[c].key = key => c <= b
      BY <2>4 DEF Joined, Pending
    <3> QED BY <1>b, <2>1, <2>3, <3>1, <3>2, ConstantTypes DEF OverdueInOrder
  <2>5. CASE Opened(b, key, size)
    <3>1. /\ batch'[b].status = "pending" /\ batch'[b].key = key /\ batch'[b].due >= now
          /\ \A c \in Batches : b < c => batch[c].status = "none"
      BY <2>5 DEF Opened, NewBatchId, Bookkeeping, IdsInOrder, InUse
    <3>2. \A c \in Batches \ {b} :
             \/ batch'[c] = batch[c]
             \/ /\ batch[c].status = "pending" /\ batch[c].key = key
                /\ batch'[c].status = "pending" /\ batch'[c].key = key
                /\ batch'[c].due = now
                /\ \A x \in Batches : batch[x].status = "pending" /\ batch[x].key = key => x <= c
      BY <2>5 DEF Opened, Pending, Moved
    <3>3. ASSUME NEW c \in Batches \ {b}, batch[c].status = "pending", batch[c].key = key
          PROVE  batch'[c].due <= now
      <4>1. CASE \A x \in Pending(key) : x <= c
        BY <1>a, <2>5, <3>3, <4>1 DEF Opened, Pending
      <4>2. CASE ~\A x \in Pending(key) : x <= c
        <5>1. PICK x \in Batches : batch[x].status = "pending" /\ batch[x].key = key /\ ~(x <= c)
          BY <4>2 DEF Pending
        <5>2. c < x
          BY <5>1, ConstantTypes
        <5>3. batch[c].due <= now
          BY <3>3, <5>1, <5>2 DEF OverdueInOrder
        <5> QED BY <1>a, <3>2, <5>3
      <4> QED BY <4>1, <4>2
    <3>4. ASSUME NEW c \in Batches, NEW e \in Batches, c < e,
                 batch'[c].status = "pending", batch'[e].status = "pending",
                 batch'[c].key = batch'[e].key
          PROVE  batch'[c].due <= now /\ batch'[c].due <= batch'[e].due
      <4>1. CASE c = b
        <5>1. e # b /\ batch[e].status = "none"
          BY <3>1, <3>4, <4>1, ConstantTypes
        <5> QED BY <3>2, <3>4, <5>1
      <4>2. CASE e = b
        <5>1. c # b
          BY <3>4, <4>2, ConstantTypes
        <5>2. batch[c].status = "pending" /\ batch[c].key = key
          BY <3>1, <3>2, <3>4, <4>2, <5>1
        <5> QED BY <1>a, <1>b, <3>1, <3>3, <4>2, <5>1, <5>2
      <4>3. CASE c # b /\ e # b
        <5>1. /\ batch[c].status = "pending" /\ batch[e].status = "pending"
              /\ batch[c].key = batch[e].key
          BY <3>2, <3>4, <4>3
        <5>2. batch[c].due <= now /\ batch[c].due <= batch[e].due
          BY <3>4, <5>1 DEF OverdueInOrder
        <5>3. batch'[c].due \in {batch[c].due, now} /\ batch'[e].due \in {batch[e].due, now}
          BY <3>2, <4>3
        <5>4. batch'[c] = batch[c]
          BY <3>2, <3>4, <4>3, <5>1, ConstantTypes
        <5> QED BY <1>a, <1>b, <5>2, <5>3, <5>4
      <4> QED BY <4>1, <4>2, <4>3
    <3> QED BY <2>1, <2>3, <3>4 DEF OverdueInOrder
  <2> QED BY <2>2, <2>4, <2>5

<1>7. ASSUME NEW b \in Batches, Claim(b) PROVE OverdueInOrder' /\ Attempted'
  <2>1. UNCHANGED now
    BY <1>7 DEF Claim
  <2>2. /\ batch'[b].status = "delivering" /\ batch'[b].attempts = batch[b].attempts + 1
        /\ \A c \in Batches \ {b} : batch'[c] = batch[c]
    BY <1>7, ClaimedRows
  <2> QED BY <1>b, <2>1, <2>2 DEF OverdueInOrder, Attempted
<1>8. CASE BatchSucceeded \/ BatchDeadLettered \/ BatchRetrying
  <2>1. PICK status \in {"retrying"} \cup TerminalStatus, due \in Nat : FinishBatch(status, due)
    BY <1>8, WorkerFinishes
  <2>2. /\ worker.batch \in Batches /\ worker.attempt > 0
        /\ batch[worker.batch].attempts = worker.attempt
    BY <1>8, WorkerFinishes DEF Held, WorkerIsReal
  <2>3. UNCHANGED now /\ (Recorded(status, due) \/ NotRecorded)
    BY <2>1, <2>2, FinishedRows
  <2>4. CASE Recorded(status, due)
    <3>1. /\ batch'[worker.batch].status = status /\ batch'[worker.batch].attempts > 0
          /\ \A c \in Batches \ {worker.batch} : batch'[c] = batch[c]
      BY <2>2, <2>4 DEF Recorded, Moved
    <3>2. batch'[worker.batch].status \notin {"pending", "delivering"}
      BY <3>1 DEF TerminalStatus
    <3> QED BY <1>b, <2>2, <2>3, <3>1, <3>2 DEF OverdueInOrder, Attempted
  <2>5. CASE NotRecorded
    BY <1>a, <1>c, <2>3, <2>5 DEF NotRecorded
  <2> QED BY <2>3, <2>4, <2>5
<1> QED
  BY <1>1, <1>2, <1>3, <1>4, <1>5, <1>6, <1>7, <1>8 DEF Next, Startup, Crash, BatchWorker

LEMMA OrderAlways ==
    Spec => [](TypeOK /\ WorkerIsReal /\ RowsAreMembers /\ Held /\ OverdueInOrder /\ Attempted)
<1>1. Init => OverdueInOrder /\ Attempted
  BY DEF Init, BatchInit, NoBatch, OverdueInOrder, Attempted
<1>2. TypeOK /\ WorkerIsReal /\ RowsAreMembers /\ Held /\ Bookkeeping
        /\ OverdueInOrder /\ Attempted /\ [Next]_vars => OverdueInOrder' /\ Attempted'
  BY OrderStep
<1>3. QED
  BY <1>1, <1>2, HeldAlways, BookkeepingAlways, PTL DEF Spec

(* Attempts are counted by Claim alone; a new batch starts at none.        *)
LEMMA AttemptsFrame ==
    ASSUME TypeOK, WorkerIsReal, [Next]_vars, NEW c \in Batches
    PROVE  \/ batch'[c].attempts = batch[c].attempts
           \/ batch'[c].attempts = 0
           \/ Claim(c)
<1>1. CASE UNCHANGED vars
  BY <1>1 DEF vars, batchVars
<1>2. ASSUME Boot, RecoverBatches PROVE batch'[c].attempts = batch[c].attempts
  BY <1>2, RecoveredRows DEF Moved
<1>3. CASE StartWorker \/ SendBatch \/ Quiet
  BY <1>1, <1>3 DEF StartWorker, SendBatch, Quiet, batchVars
<1>4. CASE Tick
  BY <1>4 DEF Tick
<1>5. ASSUME ProcessEnds, WorkerDies PROVE batch'[c].attempts = batch[c].attempts
  BY <1>5 DEF WorkerDies
<1>6. ASSUME NEW d \in Deliveries, NEW key \in BatchKeys, NEW size \in EventSizes,
             QueueBatched(d, key, size)
      PROVE  batch'[c].attempts \in {batch[c].attempts, 0}
  <2>1. PICK b \in Batches : Joined(b, key, size) \/ Opened(b, key, size)
    BY <1>6, JoinEffect DEF QueueBatched
  <2> QED BY <2>1 DEF Joined, Opened, Moved
<1>7. ASSUME NEW b \in Batches, Claim(b) PROVE Claim(c) \/ batch'[c] = batch[c]
  BY <1>7, ClaimedRows
<1>8. CASE BatchSucceeded \/ BatchDeadLettered \/ BatchRetrying
  <2>1. PICK status \in {"retrying"} \cup TerminalStatus, due \in Nat : FinishBatch(status, due)
    BY <1>8, WorkerFinishes
  <2>2. Recorded(status, due) \/ NotRecorded
    BY <1>8, <2>1, WorkerFinishes, FinishedRows
  <2> QED BY <2>2 DEF Recorded, NotRecorded, Moved
<1> QED
  BY <1>1, <1>2, <1>3, <1>4, <1>5, <1>6, <1>7, <1>8 DEF Next, Startup, Crash, BatchWorker

(* OldestOfKeyFirst: events of one key leave in the order they came, on    *)
(* their first way out, whatever fills, overdues or interrupts batches.    *)
THEOREM OldestFirst == Spec => OldestOfKeyFirst
<1>1. TypeOK /\ WorkerIsReal /\ OverdueInOrder /\ Attempted /\ [Next]_vars =>
         \A b, c \in Batches :
            /\ b < c
            /\ batch[b].key = batch[c].key
            /\ batch[c].attempts = 0
            /\ batch'[c].attempts = 1
            => batch[b].status # "pending"
  <2> SUFFICES ASSUME TypeOK, WorkerIsReal, OverdueInOrder, Attempted, [Next]_vars,
                      NEW b \in Batches, NEW c \in Batches,
                      b < c, batch[b].key = batch[c].key,
                      batch[c].attempts = 0, batch'[c].attempts = 1,
                      batch[b].status = "pending"
               PROVE  FALSE
    OBVIOUS
  <2>1. Claim(c)
    BY AttemptsFrame
  <2>2. batch[c].status = "pending" /\ \A x \in Batches : Due(x) => Earlier(c, x)
    BY <2>1 DEF Claim, Due, Waiting, Attempted
  <2>3. batch[b].due <= now /\ batch[b].due <= batch[c].due
    BY <2>2 DEF OverdueInOrder
  <2>4. Earlier(c, b)
    BY <2>2, <2>3 DEF Due, Waiting
  <2>5. batch[b].due \in Nat /\ batch[c].due \in Nat
    BY BatchTypes DEF BatchRow
  <2> QED BY <2>3, <2>4, <2>5, ConstantTypes DEF Earlier
<1>2. QED
  BY <1>1, OrderAlways, PTL DEF Spec, OldestOfKeyFirst

(* WaitIsNotExtended: events that join a batch, and its recovery, never    *)
(* postpone it.                                                            *)
THEOREM WaitNeverExtended == Spec => WaitIsNotExtended
<1>1. TypeOK /\ WorkerIsReal /\ Held /\ [Next]_vars =>
         \A b \in Batches :
            batch[b].status = "pending" /\ batch'[b].status = "pending" =>
               batch'[b].due <= batch[b].due \/ batch'[b].due <= now
  <2> SUFFICES ASSUME TypeOK, WorkerIsReal, Held, [Next]_vars, NEW b \in Batches,
                      batch[b].status = "pending", batch'[b].status = "pending"
               PROVE  batch'[b].due <= batch[b].due \/ batch'[b].due <= now
    OBVIOUS
  <2>a. batch[b].due \in Nat /\ now \in Nat
    BY BatchTypes DEF BatchRow, TypeOK, BatchTypeOK
  <2>b. ASSUME batch'[b].due \in {batch[b].due, now}
        PROVE  batch'[b].due <= batch[b].due \/ batch'[b].due <= now
    BY <2>a, <2>b
  <2>1. CASE UNCHANGED vars
    BY <2>b, <2>1 DEF vars, batchVars
  <2>2. ASSUME Boot, RecoverBatches PROVE batch'[b].due \in {batch[b].due, now}
    BY <2>2, RecoveredRows DEF Moved
  <2>3. CASE StartWorker \/ SendBatch \/ Quiet
    BY <2>b, <2>1, <2>3 DEF StartWorker, SendBatch, Quiet, batchVars
  <2>4. CASE Tick
    BY <2>b, <2>4 DEF Tick
  <2>5. ASSUME ProcessEnds, WorkerDies PROVE batch'[b].due \in {batch[b].due, now}
    BY <2>5 DEF WorkerDies
  <2>6. ASSUME NEW d \in Deliveries, NEW key \in BatchKeys, NEW size \in EventSizes,
               QueueBatched(d, key, size)
        PROVE  batch'[b].due \in {batch[b].due, now}
    <3>1. PICK c \in Batches : Joined(c, key, size) \/ Opened(c, key, size)
      BY <2>6, JoinEffect DEF QueueBatched
    <3> QED BY <3>1 DEF Joined, Opened, Moved, NewBatchId
  <2>7. ASSUME NEW c \in Batches, Claim(c) PROVE batch'[b].due = batch[b].due
    BY <2>7, ClaimedRows
  <2>8. CASE BatchSucceeded \/ BatchDeadLettered \/ BatchRetrying
    <3>1. PICK status \in {"retrying"} \cup TerminalStatus, due \in Nat : FinishBatch(status, due)
      BY <2>8, WorkerFinishes
    <3>2. Recorded(status, due) \/ NotRecorded
      BY <2>8, <3>1, WorkerFinishes, FinishedRows
    <3>3. Recorded(status, due) => worker.batch # b
      BY DEF Recorded, Moved, TerminalStatus
    <3> QED BY <2>b, <3>2, <3>3 DEF Recorded, NotRecorded
  <2> QED
    BY <2>b, <2>1, <2>2, <2>3, <2>4, <2>5, <2>6, <2>7, <2>8
    DEF Next, Startup, Crash, BatchWorker
<1>2. QED
  BY <1>1, HeldAlways, PTL DEF Spec, WaitIsNotExtended
----------------------------------------------------------------------------
(* Refinement: batching keeps the promise made of each row.                *)

Said == [d \in Deliveries |-> PromiseOf(rec[d].status)]
Got == [d \in Deliveries |-> d \in taken]

(* What each status says of its row.                                       *)
LEMMA PromiseValues ==
    /\ PromiseOf("none") = "none"
    /\ \A status \in LiveStatus : PromiseOf(status) = "owed"
    /\ PromiseOf("succeeded") = "delivered" /\ PromiseOf("dead_letter") = "given_up"
BY DEF PromiseOf, LiveStatus

(* A step that changes neither what is said nor what was taken stutters.   *)
LEMMA SaysTheSame ==
    ASSUME \A d \in Deliveries : PromiseOf(rec'[d].status) = PromiseOf(rec[d].status),
           UNCHANGED taken
    PROVE  UNCHANGED <<Said, Got>>
BY DEF Said, Got

(* The rows of a batch in flight are delivering.                           *)
LEMMA MembersInFlight ==
    ASSUME TypeOK, MembersFollowBatch, NEW b \in Batches, batch[b].status = "delivering"
    PROVE  \A d \in Members(b) : rec[d].status = "delivering" /\ PromiseOf(rec[d].status) = "owed"
BY PromiseValues, ConstantTypes DEF MembersFollowBatch, Members, LiveStatus

(* What every step of batching is, seen as a step of the promise.          *)
LEMMA StepPromise ==
    ASSUME TypeOK, WorkerIsReal, Held, MembersFollowBatch, [Next]_vars
    PROVE  Promise!Next \/ UNCHANGED <<Said, Got>>
<1>a. rec \in [Deliveries -> Row] /\ worker.content \subseteq Deliveries
  BY DEF TypeOK, RecordsTypeOK, BatchTypeOK
<1>1. ASSUME UNCHANGED <<rec, taken>> PROVE UNCHANGED <<Said, Got>>
  BY <1>1, SaysTheSame
<1>2. CASE UNCHANGED vars
  BY <1>1, <1>2 DEF vars, recordVars, batchVars
<1>3. ASSUME Boot, RecoverBatches PROVE UNCHANGED <<Said, Got>>
  <2>1. UNCHANGED taken
    BY <1>3 DEF RecoverBatches
  <2>2. ASSUME NEW d \in Deliveries PROVE PromiseOf(rec'[d].status) = PromiseOf(rec[d].status)
    <3>1. \/ rec'[d] = rec[d]
          \/ rec[d].status \in {"queued", "delivering"} /\ rec'[d].status = "queued"
      BY <1>3, RecoveredRows
    <3> QED BY <3>1, PromiseValues DEF LiveStatus
  <2> QED BY <2>1, <2>2, SaysTheSame
<1>4. CASE StartWorker \/ Tick \/ Quiet
  BY <1>1, <1>2, <1>4 DEF StartWorker, Tick, Quiet, recordVars, batchVars
<1>5. ASSUME ProcessEnds, WorkerDies PROVE UNCHANGED <<Said, Got>>
  BY <1>1, <1>5 DEF ProcessEnds, WorkerDies
<1>6. ASSUME NEW d \in Deliveries, NEW key \in BatchKeys, NEW size \in EventSizes,
             QueueBatched(d, key, size)
      PROVE  Promise!Next
  <2>1. /\ UNCHANGED taken
        /\ rec[d].status = "none" /\ rec'[d].status = "queued"
        /\ \A e \in Deliveries \ {d} : rec'[e] = rec[e]
    BY <1>6, <1>a DEF QueueBatched, NextId, InsertRow
  <2>2. PromiseOf(rec[d].status) = "none" /\ PromiseOf(rec'[d].status) = "owed"
    BY <2>1, PromiseValues DEF LiveStatus
  <2>3. Promise!Accept(d)
    BY <2>1, <2>2 DEF Promise!Accept
  <2> QED BY <2>3 DEF Promise!Next
<1>7. ASSUME NEW b \in Batches, Claim(b) PROVE UNCHANGED <<Said, Got>>
  <2>1. UNCHANGED taken /\ batch[b].status \in {"pending", "retrying"}
    BY <1>7 DEF Claim, Due, Waiting
  <2>2. ASSUME NEW d \in Deliveries PROVE PromiseOf(rec'[d].status) = PromiseOf(rec[d].status)
    <3>1. CASE d \in Members(b)
      <4>1. rec[d].status \in {"queued", "retrying"}
        BY <2>1, <3>1, ConstantTypes DEF MembersFollowBatch, Members
      <4>2. rec'[d].status = "delivering"
        BY <1>7, <3>1, ClaimedRows
      <4> QED BY <4>1, <4>2, PromiseValues DEF LiveStatus
    <3>2. CASE d \notin Members(b)
      BY <1>7, <3>2, ClaimedRows
    <3> QED BY <3>1, <3>2
  <2> QED BY <2>1, <2>2, SaysTheSame
<1>8. CASE SendBatch
  <2>1. UNCHANGED rec /\ taken' \in {taken, taken \cup worker.content}
    BY <1>8 DEF SendBatch, recordVars
  <2>2. CASE UNCHANGED taken
    BY <1>1, <2>1, <2>2
  <2>3. CASE taken' = taken \cup worker.content
    <3>1. /\ worker.batch \in Batches /\ batch[worker.batch].status = "delivering"
          /\ worker.content = Members(worker.batch)
      BY <1>8 DEF SendBatch, Held, Holds
    <3>2. \A d \in worker.content : PromiseOf(rec[d].status) = "owed"
      BY <3>1, MembersInFlight
    <3>3. PICK S \in SUBSET Deliveries : S = worker.content
      BY <1>a
    <3>4. Got' = [d \in Deliveries |-> Got[d] \/ d \in S]
      <4>1. \A d \in Deliveries : (d \in taken') <=> (d \in taken \/ d \in S)
        BY <2>3, <3>3
      <4>2. \A d \in Deliveries : Got[d] <=> d \in taken
        BY DEF Got
      <4>3. \A d \in Deliveries : (d \in taken') = (Got[d] \/ d \in S)
        BY <4>1, <4>2
      <4> QED BY <4>3 DEF Got
    <3>5. Promise!Receive(S)
      <4>1. UNCHANGED Said /\ \A d \in S : Said[d] = "owed"
        BY <2>1, <3>2, <3>3 DEF Said
      <4> QED BY <3>4, <4>1 DEF Promise!Receive, Said, Got
    <3> QED BY <3>5 DEF Promise!Next
  <2> QED BY <2>1, <2>2, <2>3
<1>9. CASE BatchSucceeded \/ BatchDeadLettered \/ BatchRetrying
  <2>1. PICK status \in {"retrying"} \cup TerminalStatus, due \in Nat :
           FinishBatch(status, due) /\ (status = "succeeded" => worker.step = "delivered")
    BY <1>9, WorkerFinishes
  <2>2. /\ worker.batch \in Batches /\ batch[worker.batch].status = "delivering"
        /\ worker.content = Members(worker.batch)
        /\ status = "succeeded" => worker.content \subseteq taken
    BY <1>9, <2>1, WorkerFinishes DEF Held, Holds
  <2>3. UNCHANGED taken /\ (Recorded(status, due) \/ NotRecorded)
    BY <2>1, <2>2, FinishedRows
  <2>4. \A d \in worker.content : PromiseOf(rec[d].status) = "owed"
    BY <2>2, MembersInFlight
  <2>5. CASE Recorded(status, due)
    <3>1. \A d \in Deliveries :
             rec'[d].status = IF d \in worker.content THEN status ELSE rec[d].status
      BY <2>2, <2>5 DEF Recorded
    <3>2. \A d \in Deliveries :
             PromiseOf(rec'[d].status) = IF d \in worker.content THEN PromiseOf(status)
                                                                 ELSE PromiseOf(rec[d].status)
      BY <3>1
    <3>3. CASE status = "succeeded"
      <4>1. Promise!Deliver(worker.content)
        BY <1>a, <2>2, <2>3, <2>4, <3>2, <3>3, PromiseValues DEF Promise!Deliver, Promise!Settle
      <4> QED BY <1>a, <4>1 DEF Promise!Next
    <3>4. CASE status = "dead_letter"
      <4>1. Promise!GiveUp(worker.content)
        BY <1>a, <2>3, <2>4, <3>2, <3>4, PromiseValues DEF Promise!GiveUp, Promise!Settle
      <4> QED BY <1>a, <4>1 DEF Promise!Next
    <3>5. CASE status = "retrying"
      BY <2>3, <2>4, <3>2, <3>5, PromiseValues, SaysTheSame DEF LiveStatus
    <3> QED BY <3>3, <3>4, <3>5 DEF TerminalStatus
  <2>6. CASE NotRecorded
    BY <1>1, <2>3, <2>6 DEF NotRecorded
  <2> QED BY <2>3, <2>5, <2>6
<1> QED
  BY <1>2, <1>3, <1>4, <1>5, <1>6, <1>7, <1>8, <1>9 DEF Next, Startup, Crash, BatchWorker

(* PromiseKept: the member rows implement DeliveryPromise, storage         *)
(* failures, crashes and changes of the configuration included.            *)
THEOREM BatchesKeepPromise == Spec => PromiseKept
<1>1. Init => Promise!Init
  <2> SUFFICES ASSUME Init PROVE Promise!Init
    OBVIOUS
  <2>1. \A d \in Deliveries : PromiseOf(rec[d].status) = "none"
    BY PromiseValues DEF Init, RecordsInit
  <2>2. \A d \in Deliveries : (d \in taken) = FALSE
    BY DEF Init, BatchInit
  <2> QED BY <2>1, <2>2 DEF Promise!Init
<1>2. /\ TypeOK /\ WorkerIsReal /\ RowsAreMembers /\ Held /\ MembersFollowBatch /\ [Next]_vars
      => [Promise!Next]_(Promise!vars)
  BY StepPromise DEF Promise!vars, Said, Got
<1>3. QED
  BY <1>1, <1>2, HeldAlways, MembersAlwaysFollow, PTL DEF Spec, PromiseKept, Promise!Spec
==============================================================================
