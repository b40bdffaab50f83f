------------------------- MODULE AlertPipelineProofs -------------------------
(***************************************************************************)
(* Proofs about AlertPipeline, for any files and requests, any identity of *)
(* alerts, and any number of requests, failures, attempts and days.        *)
(***************************************************************************)
EXTENDS AlertPipeline, WellFoundedInduction, FiniteSetTheorems, TLAPS

----------------------------------------------------------------------------
(* Numbers.                                                                *)

LEMMA LeastNatural ==
    ASSUME NEW S, S \subseteq Nat, S # {}
    PROVE  \E n \in S : \A m \in S : n <= m
<1> DEFINE R == {pair \in Nat \X Nat : pair[1] < pair[2]}
<1>1. IsWellFoundedOn(R, Nat)
  BY NatLessThanWellFounded DEF OpToRel
<1>2. \E n \in S : \A m \in S : ~ (<<m, n>> \in R)
  <2> HIDE DEF R
  <2> QED BY <1>1, WFMin, Zenon
<1>3. ASSUME NEW n \in S, NEW m \in S, ~ (<<m, n>> \in R) PROVE n <= m
  <2>1. n \in Nat /\ m \in Nat
    OBVIOUS
  <2>2. <<m, n>> \in Nat \X Nat /\ ~ (m < n)
    BY <2>1, <1>3
  <2> QED BY <2>1, <2>2
<1> HIDE DEF R
<1> QED BY <1>2, <1>3

LEMMA GreatestNatural ==
    ASSUME NEW bound \in Nat, NEW S, S \subseteq 0 .. bound, S # {}
    PROVE  \E n \in S : \A m \in S : n >= m
<1> DEFINE U == {n \in Nat : \A m \in S : n >= m}
<1>1. U \subseteq Nat /\ bound \in U
  OBVIOUS
<1>2. PICK n \in U : \A m \in U : n <= m
  <2> HIDE DEF U
  <2> QED BY <1>1, LeastNatural
<1>3. n \in S
  <2>1. CASE n = 0
    <3>1. PICK m \in S : TRUE
      OBVIOUS
    <3>2. m \in Nat /\ n >= m
      BY <1>2, <3>1
    <3> QED BY <2>1, <3>1, <3>2
  <2>2. CASE n # 0
    <3>1. n - 1 \in Nat /\ n - 1 \notin U
      BY <1>2, <2>2
    <3>2. PICK m \in S : ~ (n - 1 >= m)
      BY <3>1
    <3> QED BY <1>2, <3>2
  <2> QED BY <2>1, <2>2
<1> QED BY <1>2, <1>3

(* Min and Max, of the days that are left, are among them.                 *)
LEMMA LeastAndGreatest ==
    ASSUME NEW bound \in Nat, NEW S, S \subseteq 0 .. bound, S # {}
    PROVE  /\ Min(S) \in S /\ Max(S) \in S
           /\ \A m \in S : Min(S) <= m /\ m <= Max(S)
<1>1. S \subseteq Nat
  OBVIOUS
<1>2. \E n \in S : \A m \in S : n <= m
  BY <1>1, LeastNatural
<1>3. \E n \in S : \A m \in S : n >= m
  BY GreatestNatural
<1>4. Min(S) \in S /\ \A m \in S : Min(S) <= m
  BY <1>2, Zenon DEF Min
<1>5. Max(S) \in S /\ \A m \in S : Max(S) >= m
  BY <1>3, Zenon DEF Max
<1> QED BY <1>1, <1>4, <1>5
----------------------------------------------------------------------------
(* Lists.                                                                  *)

IsList(s) == s \in Seq(Range(s))

LEMMA ListOf ==
    ASSUME NEW n \in Nat, NEW s, s = [i \in 1 .. n |-> s[i]]
    PROVE  IsList(s) /\ Len(s) = n /\ DOMAIN s = 1 .. n
<1>1. s \in [1 .. n -> Range(s)]
  BY DEF Range
<1>2. s \in Seq(Range(s))
  BY <1>1
<1> QED BY <1>1, <1>2 DEF IsList

LEMMA ListFields ==
    ASSUME NEW s, IsList(s)
    PROVE  /\ Len(s) \in Nat /\ DOMAIN s = 1 .. Len(s)
           /\ \A i \in 1 .. Len(s) : s[i] \in Range(s)
  BY DEF IsList, Range

(* The recursion in Kept, up to place n.                                   *)
KeepsUpTo(kept, s, places, n) ==
    /\ kept = [i \in 0 .. n |-> kept[i]]
    /\ \A i \in 0 .. n :
          kept[i] = IF i = 0 THEN <<>>
                    ELSE IF i \in places THEN Append(kept[i - 1], s[i]) ELSE kept[i - 1]

LEMMA KeptByStep ==
    ASSUME NEW s, NEW places, NEW n \in Nat
    PROVE  \E kept : KeepsUpTo(kept, s, places, n)
<1> DEFINE S == {m \in Nat : ~ \E kept : KeepsUpTo(kept, s, places, m)}
<1>1. CASE S = {}
  BY <1>1
<1>2. CASE S # {}
  <2>1. PICK m \in S : \A k \in S : m <= k
    <3>1. S \subseteq Nat
      OBVIOUS
    <3> HIDE DEF S
    <3> QED BY <1>2, <3>1, LeastNatural
  <2>2. m # 0
    <3> DEFINE g == [i \in 0 .. 0 |-> <<>>]
    <3>1. KeepsUpTo(g, s, places, 0)
      BY DEF KeepsUpTo
    <3> QED BY <3>1
  <2>3. m \in Nat /\ m - 1 \in Nat /\ m - 1 \notin S
    BY <2>1, <2>2
  <2>4. PICK f : KeepsUpTo(f, s, places, m - 1)
    BY <2>3
  <2> DEFINE g == [i \in 0 .. m |->
                      IF i < m THEN f[i]
                      ELSE IF i \in places THEN Append(f[i - 1], s[i]) ELSE f[i - 1]]
  <2>5. \A i \in 0 .. m - 1 : g[i] = f[i]
    BY <2>3
  <2>6. g[m] = IF m \in places THEN Append(g[m - 1], s[m]) ELSE g[m - 1]
    BY <2>3, <2>5
  <2>7. g = [i \in 0 .. m |-> g[i]]
    OBVIOUS
  <2> HIDE DEF g
  <2>8. ASSUME NEW i \in 0 .. m
        PROVE  g[i] = IF i = 0 THEN <<>>
                      ELSE IF i \in places THEN Append(g[i - 1], s[i]) ELSE g[i - 1]
    <3>1. CASE i = m
      BY <2>2, <2>3, <2>6, <3>1
    <3>2. CASE i # m
      <4>1. i \in 0 .. m - 1 /\ (i # 0 => i - 1 \in 0 .. m - 1)
        BY <2>3, <3>2
      <4> QED BY <2>4, <2>5, <4>1 DEF KeepsUpTo
    <3> QED BY <3>1, <3>2
  <2>9. KeepsUpTo(g, s, places, m)
    BY <2>7, <2>8 DEF KeepsUpTo
  <2> QED BY <2>1, <2>9
<1> QED BY <1>1, <1>2

(* A list of the elements at these places, up to place i.                  *)
HoldsPlaces(t, s, places, i) ==
    /\ t \in Seq(Range(s))
    /\ Range(t) = {s[j] : j \in places \cap (1 .. i)}

LEMMA KeptPlaces ==
    ASSUME NEW s, IsList(s), NEW places, NEW n \in Nat, n = Len(s),
           NEW kept, KeepsUpTo(kept, s, places, n)
    PROVE  \A i \in 0 .. n : HoldsPlaces(kept[i], s, places, i)
<1> DEFINE Right(i) == HoldsPlaces(kept[i], s, places, i)
           S == {i \in 0 .. n : ~ Right(i)}
<1>1. CASE S = {}
  BY <1>1
<1>2. CASE S # {}
  <2>1. PICK m \in S : \A k \in S : m <= k
    <3>1. S \subseteq Nat
      OBVIOUS
    <3> HIDE DEF S
    <3> QED BY <1>2, <3>1, LeastNatural
  <2>2. m \in 0 .. n /\ ~ Right(m) /\ \A k \in 0 .. n : k < m => Right(k)
    BY <2>1
  <2> HIDE DEF S
  <2>3. m # 0
    <3>1. kept[0] = <<>>
      BY DEF KeepsUpTo
    <3>2. Range(kept[0]) = {} /\ kept[0] \in Seq(Range(s))
      BY <3>1 DEF Range
    <3>3. {s[j] : j \in places \cap (1 .. 0)} = {}
      OBVIOUS
    <3> QED BY <2>2, <3>2, <3>3 DEF HoldsPlaces
  <2>4. m \in 1 .. n /\ m - 1 \in 0 .. n /\ Right(m - 1)
    BY <2>2, <2>3
  <2>5. PICK t : t = kept[m - 1]
    OBVIOUS
  <2>6. kept[m] = IF m \in places THEN Append(t, s[m]) ELSE t
    BY <2>3, <2>4, <2>5 DEF KeepsUpTo
  <2>7. s[m] \in Range(s) /\ t \in Seq(Range(s))
    BY <2>4, <2>5, ListFields DEF HoldsPlaces
  <2>8. Range(t) = {s[j] : j \in places \cap (1 .. m - 1)}
    BY <2>4, <2>5 DEF HoldsPlaces
  <2>9. CASE m \in places
    <3>1. kept[m] = Append(t, s[m]) /\ kept[m] \in Seq(Range(s))
      BY <2>6, <2>7, <2>9
    <3>2. /\ Len(t) \in Nat
          /\ \A i \in 1 .. Len(t) : kept[m][i] = t[i]
          /\ kept[m][Len(t) + 1] = s[m]
          /\ DOMAIN kept[m] = 1 .. Len(t) + 1 /\ DOMAIN t = 1 .. Len(t)
      BY <2>7, <3>1
    <3>3. Range(kept[m]) = Range(t) \cup {s[m]}
      <4>1. \A x : x \in Range(kept[m]) <=> \E i \in 1 .. Len(t) + 1 : x = kept[m][i]
        BY <3>2 DEF Range
      <4>2. \A x : x \in Range(t) <=> \E i \in 1 .. Len(t) : x = t[i]
        BY <3>2 DEF Range
      <4>3. \A i \in 1 .. Len(t) + 1 : i \in 1 .. Len(t) \/ i = Len(t) + 1
        BY <3>2
      <4>4. \A i \in 1 .. Len(t) : i \in 1 .. Len(t) + 1
        BY <3>2
      <4>5. Len(t) + 1 \in 1 .. Len(t) + 1
        BY <3>2
      <4> QED BY <3>2, <4>1, <4>2, <4>3, <4>4, <4>5
    <3>4. places \cap (1 .. m) = (places \cap (1 .. m - 1)) \cup {m}
      BY <2>4, <2>9
    <3> QED BY <2>2, <2>8, <3>1, <3>3, <3>4 DEF HoldsPlaces
  <2>10. CASE m \notin places
    <3>1. places \cap (1 .. m) = places \cap (1 .. m - 1)
      BY <2>4, <2>10
    <3> QED BY <2>2, <2>4, <2>5, <2>6, <2>10, <3>1 DEF HoldsPlaces
  <2> QED BY <2>9, <2>10
<1> QED BY <1>1, <1>2

(* What Kept returns: a list of the elements at these places.              *)
LEMMA KeptElements ==
    ASSUME NEW s, IsList(s), NEW places, places \subseteq DOMAIN s
    PROVE  /\ Kept(s, places) \in Seq(Range(s))
           /\ Range(Kept(s, places)) = {s[i] : i \in places}
<1>1. PICK n : n = Len(s)
  OBVIOUS
<1>2. n \in Nat /\ DOMAIN s = 1 .. n /\ n \in 0 .. n
  BY <1>1, ListFields
<1> DEFINE kept == CHOOSE kept :
        kept = [i \in 0 .. Len(s) |->
                   IF i = 0 THEN <<>>
                   ELSE IF i \in places THEN Append(kept[i - 1], s[i]) ELSE kept[i - 1]]
<1>3. Kept(s, places) = kept[n]
  BY <1>1 DEF Kept
<1>4. KeepsUpTo(kept, s, places, n)
  <2>1. PICK f : KeepsUpTo(f, s, places, n)
    BY <1>2, KeptByStep
  <2>2. f = [i \in 0 .. Len(s) |->
                   IF i = 0 THEN <<>>
                   ELSE IF i \in places THEN Append(f[i - 1], s[i]) ELSE f[i - 1]]
    BY <1>1, <2>1 DEF KeepsUpTo
  <2>3. kept = [i \in 0 .. Len(s) |->
                   IF i = 0 THEN <<>>
                   ELSE IF i \in places THEN Append(kept[i - 1], s[i]) ELSE kept[i - 1]]
    BY <2>2
  <2> HIDE DEF kept
  <2> QED BY <1>1, <2>3 DEF KeepsUpTo
<1> HIDE DEF kept
<1>5. HoldsPlaces(kept[n], s, places, n)
  BY <1>1, <1>2, <1>4, KeptPlaces
<1>6. places \cap (1 .. n) = places
  BY <1>2
<1> QED BY <1>3, <1>5, <1>6 DEF HoldsPlaces

----------------------------------------------------------------------------
(* The work of a request.                                                  *)

(* The recursion in FlattenSeq, up to place n.                             *)
JoinsUpTo(flatten, seqs, n) ==
    /\ flatten = [i \in 1 .. n |-> flatten[i]]
    /\ \A i \in 1 .. n : flatten[i] = IF i = 1 THEN seqs[i] ELSE flatten[i - 1] \o seqs[i]

LEMMA JoinedByStep ==
    ASSUME NEW seqs, NEW n \in Nat
    PROVE  \E flatten : JoinsUpTo(flatten, seqs, n)
<1> DEFINE S == {m \in Nat : ~ \E flatten : JoinsUpTo(flatten, seqs, m)}
<1>1. CASE S = {}
  BY <1>1
<1>2. CASE S # {}
  <2>1. PICK m \in S : \A k \in S : m <= k
    <3>1. S \subseteq Nat
      OBVIOUS
    <3> HIDE DEF S
    <3> QED BY <1>2, <3>1, LeastNatural
  <2>2. m # 0
    <3> DEFINE g == [i \in 1 .. 0 |-> <<>>]
    <3>1. JoinsUpTo(g, seqs, 0)
      BY DEF JoinsUpTo
    <3> QED BY <3>1
  <2>3. m \in Nat /\ m - 1 \in Nat /\ m - 1 \notin S
    BY <2>1, <2>2
  <2>4. PICK f : JoinsUpTo(f, seqs, m - 1)
    BY <2>3
  <2> DEFINE g == [i \in 1 .. m |->
                      IF i < m THEN f[i] ELSE IF i = 1 THEN seqs[i] ELSE f[i - 1] \o seqs[i]]
  <2>5. \A i \in 1 .. m - 1 : g[i] = f[i]
    BY <2>3
  <2>6. g[m] = IF m = 1 THEN seqs[m] ELSE g[m - 1] \o seqs[m]
    BY <2>2, <2>3, <2>5
  <2>7. g = [i \in 1 .. m |-> g[i]]
    OBVIOUS
  <2> HIDE DEF g
  <2>8. ASSUME NEW i \in 1 .. m
        PROVE  g[i] = IF i = 1 THEN seqs[i] ELSE g[i - 1] \o seqs[i]
    <3>1. CASE i = m
      BY <2>2, <2>3, <2>6, <3>1
    <3>2. CASE i # m
      <4>1. i \in 1 .. m - 1 /\ (i # 1 => i - 1 \in 1 .. m - 1)
        BY <2>3, <3>2
      <4> QED BY <2>4, <2>5, <4>1 DEF JoinsUpTo
    <3> QED BY <3>1, <3>2
  <2>9. JoinsUpTo(g, seqs, m)
    BY <2>7, <2>8 DEF JoinsUpTo
  <2> QED BY <2>1, <2>9
<1> QED BY <1>1, <1>2

(* Items of the events up to i, in the order of the events.                *)
InOrderUpTo(work, X, i) ==
    /\ work \in Seq(X)
    /\ \A k \in 1 .. Len(work) : work[k].event \in 1 .. i
    /\ \A j, k \in 1 .. Len(work) : j <= k => work[j].event <= work[k].event

LEMMA JoinedInOrder ==
    ASSUME NEW i \in Nat, NEW X, NEW w, InOrderUpTo(w, X, i), NEW v \in Seq(X),
           \A k \in 1 .. Len(v) : v[k].event = i + 1
    PROVE  InOrderUpTo(w \o v, X, i + 1)
<1>1. w \in Seq(X) /\ Len(w) \in Nat /\ Len(v) \in Nat
  BY DEF InOrderUpTo
<1>2. /\ w \o v \in Seq(X) /\ Len(w \o v) = Len(w) + Len(v)
      /\ \A k \in 1 .. Len(w) : (w \o v)[k] = w[k]
      /\ \A k \in Len(w) + 1 .. Len(w) + Len(v) : (w \o v)[k] = v[k - Len(w)]
  BY <1>1
<1> DEFINE u == w \o v
<1>3. ASSUME NEW k \in 1 .. Len(u)
      PROVE  \/ k \in 1 .. Len(w) /\ u[k].event = w[k].event /\ u[k].event \in 1 .. i
             \/ k > Len(w) /\ u[k].event = i + 1
  <2>1. CASE k <= Len(w)
    BY <1>1, <1>2, <2>1 DEF InOrderUpTo
  <2>2. CASE k > Len(w)
    <3>1. k \in Len(w) + 1 .. Len(w) + Len(v) /\ k - Len(w) \in 1 .. Len(v)
      BY <1>1, <1>2, <2>2
    <3> QED BY <1>2, <2>2, <3>1
  <2> QED BY <1>1, <1>2, <2>1, <2>2
<1> HIDE DEF u
<1>4. \A j, k \in 1 .. Len(w) : j <= k => w[j].event <= w[k].event
  BY DEF InOrderUpTo
<1>5. ASSUME NEW j \in 1 .. Len(u), NEW k \in 1 .. Len(u), j <= k
      PROVE  u[j].event <= u[k].event
  BY <1>1, <1>3, <1>4, <1>5
<1>6. u \in Seq(X) /\ \A k \in 1 .. Len(u) : u[k].event \in 1 .. i + 1
  BY <1>2, <1>3 DEF u
<1>7. InOrderUpTo(u, X, i + 1)
  BY <1>5, <1>6 DEF InOrderUpTo
<1> QED BY <1>7 DEF u

LEMMA FlattenedInOrder ==
    ASSUME NEW X, NEW seqs \in Seq(Seq(X)),
           \A i \in 1 .. Len(seqs) : \A k \in 1 .. Len(seqs[i]) : seqs[i][k].event = i
    PROVE  InOrderUpTo(FlattenSeq(seqs), X, Len(seqs))
<1>1. PICK n : n = Len(seqs)
  OBVIOUS
<1>2. n \in Nat /\ \A i \in 1 .. n : seqs[i] \in Seq(X)
  BY <1>1
<1>3. CASE n = 0
  <2>1. Len(seqs) = 0
    BY <1>1, <1>3
  <2>2. FlattenSeq(seqs) = seqs
    BY <2>1, Zenon DEF FlattenSeq
  <2>3. seqs = <<>>
    BY <2>1
  <2> QED BY <1>1, <1>3, <2>2, <2>3 DEF InOrderUpTo
<1>4. CASE n # 0
  <2> DEFINE flatten == CHOOSE flatten :
          flatten = [i \in 1 .. Len(seqs) |->
                        IF i = 1 THEN seqs[i] ELSE flatten[i - 1] \o seqs[i]]
  <2>1. FlattenSeq(seqs) = flatten[n]
    BY <1>1, <1>4 DEF FlattenSeq
  <2>2. JoinsUpTo(flatten, seqs, n)
    <3>1. PICK f : JoinsUpTo(f, seqs, n)
      BY <1>2, JoinedByStep
    <3>2. f = [i \in 1 .. Len(seqs) |-> IF i = 1 THEN seqs[i] ELSE f[i - 1] \o seqs[i]]
      BY <1>1, <3>1 DEF JoinsUpTo
    <3>3. flatten = [i \in 1 .. Len(seqs) |->
                        IF i = 1 THEN seqs[i] ELSE flatten[i - 1] \o seqs[i]]
      BY <3>2
    <3> HIDE DEF flatten
    <3> QED BY <1>1, <3>3 DEF JoinsUpTo
  <2> HIDE DEF flatten
  <2> DEFINE Right(i) == InOrderUpTo(flatten[i], X, i)
             S == {i \in 1 .. n : ~ Right(i)}
  <2>3. CASE S = {}
    BY <1>1, <1>2, <1>4, <2>1, <2>3
  <2>4. CASE S # {}
    <3>1. PICK m \in S : \A k \in S : m <= k
      <4>1. S \subseteq Nat
        OBVIOUS
      <4> HIDE DEF S
      <4> QED BY <2>4, <4>1, LeastNatural
    <3>2. m \in 1 .. n /\ ~ Right(m) /\ \A k \in 1 .. n : k < m => Right(k)
      BY <3>1
    <3> HIDE DEF S
    <3>3. CASE m = 1
      <4>1. flatten[1] = seqs[1] /\ seqs[1] \in Seq(X)
        BY <1>2, <2>2, <3>2, <3>3 DEF JoinsUpTo
      <4>2. \A k \in 1 .. Len(seqs[1]) : seqs[1][k].event = 1
        BY <1>1, <3>2, <3>3
      <4> QED BY <3>2, <3>3, <4>1, <4>2 DEF InOrderUpTo
    <3>4. CASE m # 1
      <4>1. m - 1 \in Nat /\ m - 1 \in 1 .. n /\ Right(m - 1) /\ m - 1 + 1 = m
        BY <1>2, <3>2, <3>4
      <4>2. flatten[m] = flatten[m - 1] \o seqs[m] /\ seqs[m] \in Seq(X)
        BY <1>2, <2>2, <3>2, <3>4 DEF JoinsUpTo
      <4>3. \A k \in 1 .. Len(seqs[m]) : seqs[m][k].event = m - 1 + 1
        BY <1>1, <3>2, <4>1
      <4> QED BY <3>2, <4>1, <4>2, <4>3, JoinedInOrder
    <3> QED BY <3>3, <3>4
  <2> QED BY <2>3, <2>4
<1> QED BY <1>3, <1>4

LEMMA KeptIsList ==
    ASSUME NEW s, IsList(s), NEW places, places \subseteq DOMAIN s
    PROVE  IsList(Kept(s, places))
<1>1. PICK t : t = Kept(s, places)
  OBVIOUS
<1>2. t \in Seq(Range(s))
  BY <1>1, KeptElements
<1>3. Len(t) \in Nat /\ t = [i \in 1 .. Len(t) |-> t[i]]
  BY <1>2
<1> QED BY <1>1, <1>3, ListOf

LEMMA PlanIsList ==
    ASSUME NEW routing, IsList(routing.routes), NEW event
    PROVE  IsList(Plan(routing, event))
<1> DEFINE matching == {i \in DOMAIN routing.routes : RouteMatches(routing.routes[i], event)}
           hits == Kept(routing.routes, matching)
           last == {i \in DOMAIN hits : ~hits[i].continue}
           first == CHOOSE i \in last : \A j \in last : i <= j
           planned == IF last = {} THEN hits ELSE SubSeq(hits, 1, first)
<1>1. IsList(hits)
  BY KeptIsList
<1>2. Len(hits) \in Nat /\ DOMAIN hits = 1 .. Len(hits)
  BY <1>1, ListFields
<1> HIDE DEF hits
<1>3. last # {} => first \in 1 .. Len(hits)
  <2>1. last \subseteq Nat /\ last \subseteq 1 .. Len(hits)
    BY <1>2
  <2> HIDE DEF last
  <2>2. last # {} => \E i \in last : \A j \in last : i <= j
    BY <2>1, LeastNatural
  <2>3. last # {} => first \in last
    BY <2>2, Zenon
  <2> QED BY <2>1, <2>3
<1>4. \E n \in Nat : DOMAIN planned = 1 .. n
  <2> HIDE DEF first, last
  <2>1. CASE last = {}
    BY <1>2, <2>1
  <2>2. CASE last # {}
    <3>1. hits \in Seq(Range(hits)) /\ first \in 1 .. Len(hits)
      BY <1>1, <1>3, <2>2 DEF IsList
    <3>2. SubSeq(hits, 1, first) \in Seq(Range(hits))
      BY <1>2, <3>1
    <3> QED BY <2>2, <3>2
  <2> QED BY <2>1, <2>2
<1> HIDE DEF planned
<1>5. PICK n \in Nat : DOMAIN planned = 1 .. n
  BY <1>4
<1> DEFINE all == [i \in DOMAIN planned |-> DeliveryOf(planned[i])]
           default == <<DefaultDelivery(routing.default)>>
<1>6. Plan(routing, event) \in {all, default}
  BY Zenon DEF Plan, planned, hits, last
<1>7. IsList(all)
  <2>1. all = [i \in 1 .. n |-> all[i]]
    BY <1>5
  <2> QED BY <2>1, ListOf
<1>8. IsList(default)
  <2>1. default = [i \in 1 .. 1 |-> default[i]]
    OBVIOUS
  <2> QED BY <2>1, ListOf
<1> HIDE DEF all, default
<1> QED BY <1>6, <1>7, <1>8

LEMMA PlannedIsList ==
    ASSUME NEW config, IsList(config.routing.routes), NEW event
    PROVE  IsList(Planned(config, event))
<1>1. PICK s : s = Plan(config.routing, event)
  OBVIOUS
<1>2. Len(s) \in Nat /\ DOMAIN s = 1 .. Len(s)
  BY <1>1, PlanIsList, ListFields
<1>3. PICK t : t = Planned(config, event)
  OBVIOUS
<1>4. t = [i \in 1 .. Len(s) |-> t[i]]
  BY <1>1, <1>2, <1>3 DEF Planned, WithReceiverOwnership
<1> QED BY <1>2, <1>3, <1>4, ListOf

(* process_generic_events goes through the events, and for each through    *)
(* its deliveries.                                                         *)
LEMMA WorkInOrder ==
    ASSUME NEW config, IsList(config.routing.routes), NEW events, IsList(events)
    PROVE  \E X : InOrderUpTo(WorkOn(config, events), X, Len(events))
<1> DEFINE planned(i) == Planned(config, events[i])
           plan(i) == Kept(planned(i), {j \in DOMAIN planned(i) :
                                      planned(i)[j].receiver \in DOMAIN config.receivers})
           items(i) == [j \in DOMAIN plan(i) |->
                [event |-> i, delivery |-> plan(i)[j], owner |-> FirstOwnerTeam(planned(i))]]
           seqs == [i \in DOMAIN events |-> items(i)]
           X == UNION {Range(items(i)) : i \in DOMAIN events}
<1>1. Len(events) \in Nat /\ DOMAIN events = 1 .. Len(events)
  BY ListFields
<1>2. ASSUME NEW i \in DOMAIN events
      PROVE  /\ items(i) \in Seq(X)
             /\ \A k \in 1 .. Len(items(i)) : items(i)[k].event = i
  <2>1. IsList(plan(i))
    BY PlannedIsList, KeptIsList
  <2> HIDE DEF planned, plan
  <2>2. Len(plan(i)) \in Nat /\ DOMAIN plan(i) = 1 .. Len(plan(i))
    BY <2>1, ListFields
  <2>3. \A j \in DOMAIN items(i) : items(i)[j] \in X
    <3> HIDE DEF items
    <3> QED BY <1>2 DEF Range
  <2>4. items(i) \in [1 .. Len(plan(i)) -> X]
    <3> HIDE DEF X
    <3> QED BY <2>2, <2>3
  <2>5. items(i) \in Seq(X) /\ Len(items(i)) = Len(plan(i))
    <3> HIDE DEF X, items
    <3> QED BY <2>2, <2>4
  <2> HIDE DEF X
  <2>6. \A k \in 1 .. Len(plan(i)) : items(i)[k].event = i
    BY <2>2
  <2> QED BY <2>5, <2>6
<1>3. WorkOn(config, events) = FlattenSeq(seqs)
  BY Zenon DEF WorkOn
<1> HIDE DEF X, items
<1>4. seqs \in Seq(Seq(X)) /\ Len(seqs) = Len(events)
  <2>1. seqs \in [1 .. Len(events) -> Seq(X)]
    BY <1>1, <1>2
  <2> QED BY <1>1, <2>1
<1>5. \A i \in 1 .. Len(seqs) : \A k \in 1 .. Len(seqs[i]) : seqs[i][k].event = i
  BY <1>1, <1>2, <1>4
<1>6. InOrderUpTo(FlattenSeq(seqs), X, Len(events))
  <2> HIDE DEF seqs
  <2> QED BY <1>4, <1>5, FlattenedInOrder
<1> QED BY <1>3, <1>6

----------------------------------------------------------------------------
(* The invariants that hold together.                                      *)

Ordered(work) ==
    /\ IsList(work)
    /\ \A k \in 1 .. Len(work) : work[k].event \in Nat
    /\ \A j, k \in 1 .. Len(work) : j <= k => work[j].event <= work[k].event

EventLists == {Outcomes[c][r].events : c \in Startable, r \in RequestNames}
Works == {Outcomes[c][r].work : c \in Startable, r \in RequestNames}

HandlerRecord ==
    [request : RequestNames, config : Startable, day : Nat,
     events : EventLists, work : Works, k : Nat, step : {"store", "queue", "escalate", "done"},
     code : {Open, Lost, 202, 500}]

Ids == Nat \X Nat

BatchRecord(key) ==
    [key : {key}, members : Seq(Ids), count : Nat,
     status : {"pending", "retrying", "succeeded", "dead_letter"}]

IsOpen(n) == handlers[n].code = Open

(* Handlers work in a process that is up, on the day of their request.     *)
HandlersAreReal ==
    /\ up \in BOOLEAN /\ running \in Startable \cup {Absent}
    /\ up => running \in Startable
    /\ today \in 0 .. MaxDay /\ troubles \in 0 .. MaxTroubles /\ sends \in 0 .. MaxSends
    /\ handlers \in Seq(HandlerRecord)
    /\ \A n \in DOMAIN handlers :
          /\ handlers[n].k \in 1 .. Len(handlers[n].work) + 1
          /\ handlers[n].day <= today
          /\ IsOpen(n) =>
                /\ up /\ handlers[n].day = today
                /\ handlers[n].k <= Len(handlers[n].work) /\ handlers[n].step # "done"

(* An id names an item of a request that was taken.                        *)
IsEventId(id) == id \in Ids /\ id[1] \in DOMAIN handlers

IsRow(id) == IsEventId(id) /\ id[2] \in 1 .. Len(handlers[id[1]].work)

(* A group has been created by its first event, for its key only; it       *)
(* counts its events and spans their days.                                 *)
GroupIsReal(g) ==
    /\ IsEventId(g)
    /\ alertGroups[g] \in GroupRecord
    /\ alertGroups[g].first <= alertGroups[g].last /\ alertGroups[g].last <= today
    /\ \A f \in DOMAIN alertGroups : Key(f) = Key(g) => f = g
    /\ Cardinality(EventsOf(g)) <= alertGroups[g].count
    /\ DaysLeft(g, {}) \subseteq alertGroups[g].first .. alertGroups[g].last
    /\ troubles = 0 =>
          /\ alertGroups[g].count = Cardinality(EventsOf(g))
          /\ {alertGroups[g].first, alertGroups[g].last} \subseteq DaysLeft(g, {})

EventIsReal(e) ==
    /\ IsEventId(e)
    /\ alertEvents[e] \in [group : DOMAIN alertGroups, day : 0 .. today]

AlertsAreReal ==
    /\ IsFiniteSet(DOMAIN alertEvents)
    /\ \A g \in DOMAIN alertGroups : GroupIsReal(g)
    /\ \A e \in DOMAIN alertEvents : EventIsReal(e)
    /\ \A task \in DOMAIN tasks : tasks[task] \in DOMAIN alertGroups

RowIsReal(row) ==
    /\ IsRow(row)
    /\ rows[row] \in {"queued", "succeeded", "dead_letter"}
    /\ EventId(row) \in DOMAIN alertEvents

(* A batch has rows, which it counts and shares with no other.             *)
BatchIsReal(b) ==
    /\ b \in 1 .. lastBatch
    /\ batches[b] \in BatchRecord(batches[b].key)
    /\ batches[b].members # <<>>
    /\ Range(batches[b].members) \subseteq DOMAIN rows
    /\ batches[b].count = Len(batches[b].members)
    /\ \A c \in DOMAIN batches \ {b} :
          Range(batches[b].members) \cap Range(batches[c].members) = {}

DeliveriesAreReal ==
    /\ lastBatch \in Nat
    /\ \A row \in DOMAIN rows : RowIsReal(row)
    /\ \A b \in DOMAIN batches : BatchIsReal(b)

(* How far a handler has come: the events before the one it is at may be   *)
(* stored, that one is if it is not to be stored next, and no later one.   *)
(* Its rows are those before the one to be queued next.                    *)
EventAt(n) == handlers[n].work[handlers[n].k].event

Progress(n) ==
    /\ \A e \in DOMAIN alertEvents :
          e[1] = n => IF handlers[n].step = "store" THEN e[2] < EventAt(n) ELSE e[2] <= EventAt(n)
    /\ handlers[n].step # "store" =>
          <<n, EventAt(n)>> \in DOMAIN alertEvents /\ alertEvents[<<n, EventAt(n)>>].day = today
    /\ \A row \in DOMAIN rows :
          row[1] = n =>
              IF handlers[n].step = "escalate" THEN row[2] <= handlers[n].k
              ELSE row[2] < handlers[n].k

InProgress == \A n \in DOMAIN handlers : IsOpen(n) => Progress(n)
----------------------------------------------------------------------------
(* The constants, and what handlers do to their records.                   *)

LEMMA ConstantTypes ==
    /\ MaxRequests \in Nat /\ MaxTroubles \in Nat /\ MaxSends \in Nat /\ MaxDay \in Nat
    /\ Open # Lost /\ Open # 202 /\ Open # 500
    /\ {Open, Lost, 202, 500} \subseteq Nat
  BY PipelineAssumption DEF Open, Lost

LEMMA OutcomesAreOrdered ==
    ASSUME NEW c \in Startable, NEW r \in RequestNames
    PROVE  Ordered(Outcomes[c][r].work)
<1>1. Outcomes[c][r] = Outcome(Configs[c], Requests[r])
  BY DEF Outcomes
<1>2. c \in ConfigNames /\ IsList(Configs[c].routing.routes)
  BY PipelineAssumption DEF Startable, Accepted, IsList
<1>3. PICK events : events = Outcomes[c][r].events
  OBVIOUS
<1>4. IsList(events)
  BY <1>3, PipelineAssumption DEF IsList
<1>5. PICK work : work = WorkOn(Configs[c], events)
  OBVIOUS
<1>6. Outcomes[c][r].work = work
  BY <1>1, <1>3, <1>5 DEF Outcome
<1>7. PICK X : InOrderUpTo(work, X, Len(events))
  BY <1>2, <1>4, <1>5, WorkInOrder
<1>8. Len(work) \in Nat /\ work = [i \in 1 .. Len(work) |-> work[i]]
  BY <1>7 DEF InOrderUpTo
<1>9. IsList(work)
  BY <1>8, ListOf
<1>10. Len(events) \in Nat
  BY <1>4, ListFields
<1> QED BY <1>6, <1>7, <1>9, <1>10 DEF Ordered, InOrderUpTo

LEMMA WorkIsOrdered ==
    ASSUME NEW h \in HandlerRecord
    PROVE  /\ Ordered(h.work) /\ Len(h.work) \in Nat
           /\ h.k \in Nat /\ h.day \in Nat
<1>1. PICK c \in Startable, r \in RequestNames : h.work = Outcomes[c][r].work
  BY DEF HandlerRecord, Works
<1>2. Ordered(h.work)
  BY <1>1, OutcomesAreOrdered
<1> QED BY <1>2, ListFields DEF HandlerRecord, Ordered

LEMMA HandlerFields ==
    ASSUME HandlersAreReal
    PROVE  /\ Len(handlers) \in Nat /\ DOMAIN handlers = 1 .. Len(handlers)
           /\ \A n \in DOMAIN handlers :
                 /\ handlers[n] \in HandlerRecord /\ n \in Nat
                 /\ Ordered(handlers[n].work) /\ Len(handlers[n].work) \in Nat
<1>1. handlers \in Seq(HandlerRecord)
  BY DEF HandlersAreReal
<1>2. \A n \in DOMAIN handlers : handlers[n] \in HandlerRecord
  BY <1>1
<1>3. Len(handlers) \in Nat /\ DOMAIN handlers = 1 .. Len(handlers)
  BY <1>1
<1> QED BY <1>2, <1>3, WorkIsOrdered

(* What a handler has been given stays.                                    *)
SameRequest(new, old) ==
    /\ new.request = old.request /\ new.config = old.config /\ new.day = old.day
    /\ new.events = old.events /\ new.work = old.work

Placed(new, old, k, step, code) ==
    /\ new \in HandlerRecord /\ SameRequest(new, old)
    /\ new.k = k /\ new.step = step /\ new.code = code

WithStep(h, step) == [h EXCEPT !.step = step]
WithCode(h, code) == [h EXCEPT !.code = code]
WithItem(h, k, step) == [h EXCEPT !.k = k, !.step = step]
WithAnswer(h, k) == [h EXCEPT !.k = k, !.step = "done", !.code = 202]

LEMMA Updates ==
    ASSUME NEW h \in HandlerRecord, NEW k \in Nat,
           NEW step \in {"store", "queue", "escalate", "done"},
           NEW code \in {Open, Lost, 202, 500}
    PROVE  /\ Placed(WithStep(h, step), h, h.k, step, h.code)
           /\ Placed(WithCode(h, code), h, h.k, h.step, code)
           /\ Placed(WithItem(h, k, step), h, k, step, h.code)
           /\ Placed(WithAnswer(h, k), h, k, "done", 202)
<1>1. Placed([h EXCEPT !.step = step], h, h.k, step, h.code)
  BY DEF HandlerRecord, SameRequest, Placed
<1>2. Placed([h EXCEPT !.code = code], h, h.k, h.step, code)
  BY DEF HandlerRecord, SameRequest, Placed
<1>3. Placed([h EXCEPT !.k = k, !.step = step], h, k, step, h.code)
  BY ZenonT(40) DEF HandlerRecord, SameRequest, Placed
<1>4. Placed([h EXCEPT !.k = k, !.step = "done", !.code = 202], h, k, "done", 202)
  BY DEF HandlerRecord, SameRequest, Placed
<1> QED BY <1>1, <1>2, <1>3, <1>4 DEF WithStep, WithCode, WithItem, WithAnswer

(* The handler has its next item, or its answer.                           *)
Advanced(new, old) ==
    /\ new \in HandlerRecord /\ SameRequest(new, old) /\ new.k = old.k + 1
    /\ IF old.k + 1 > Len(old.work)
       THEN new.step = "done" /\ new.code = 202
       ELSE /\ new.code = old.code
            /\ new.step = IF old.work[old.k + 1].event # old.work[old.k].event
                          THEN "store" ELSE "queue"

LEMMA AtEffect ==
    ASSUME NEW h \in HandlerRecord
    PROVE  Advanced(At(h, h.k + 1), h)
<1>1. h.k \in Nat /\ h.k + 1 \in Nat /\ h.k + 1 - 1 = h.k
  BY DEF HandlerRecord
<1>2. CASE h.k + 1 > Len(h.work)
  <2>1. At(h, h.k + 1) = WithAnswer(h, h.k + 1)
    BY <1>2, Zenon DEF At, WithAnswer
  <2>2. Placed(WithAnswer(h, h.k + 1), h, h.k + 1, "done", 202)
    BY <1>1, Updates, ConstantTypes
  <2> QED BY <1>2, <2>1, <2>2 DEF Advanced, Placed
<1>3. CASE ~ (h.k + 1 > Len(h.work))
  <2>1. PICK k : k = h.k + 1
    OBVIOUS
  <2>2. PICK step : step = IF h.work[k].event # h.work[k - 1].event THEN "store" ELSE "queue"
    OBVIOUS
  <2>3. ~ (k > Len(h.work))
    BY <1>3, <2>1
  <2>4. At(h, k) = [h EXCEPT !.k = k,
                             !.step = IF h.work[k].event # h.work[k - 1].event
                                      THEN "store" ELSE "queue"]
    BY <2>3, Zenon DEF At
  <2>5. At(h, k) = WithItem(h, k, step)
    BY <2>2, <2>4 DEF WithItem
  <2>6. step \in {"store", "queue", "escalate", "done"}
    BY <2>2
  <2>7. Placed(WithItem(h, k, step), h, k, step, h.code)
    BY <1>1, <2>1, <2>6, Updates, ConstantTypes
  <2> QED BY <1>1, <1>3, <2>1, <2>2, <2>5, <2>7 DEF Advanced, Placed
<1> QED BY <1>2, <1>3

(* Only handler n moves.                                                   *)
OnlyHandler(n) ==
    /\ handlers' \in Seq(HandlerRecord) /\ DOMAIN handlers' = DOMAIN handlers
    /\ \A m \in DOMAIN handlers \ {n} : handlers'[m] = handlers[m]

LEMMA OneHandler ==
    ASSUME HandlersAreReal, NEW n \in DOMAIN handlers, NEW h \in HandlerRecord,
           handlers' = [handlers EXCEPT ![n] = h]
    PROVE  OnlyHandler(n) /\ handlers'[n] = h
<1>1. handlers \in Seq(HandlerRecord)
  BY DEF HandlersAreReal
<1> QED BY <1>1 DEF OnlyHandler

LEMMA StepGiven ==
    ASSUME HandlersAreReal, NEW n \in DOMAIN handlers,
           NEW step \in {"store", "queue", "escalate", "done"},
           handlers' = [handlers EXCEPT ![n].step = step]
    PROVE  /\ OnlyHandler(n) /\ SameRequest(handlers'[n], handlers[n])
           /\ handlers'[n].k = handlers[n].k /\ handlers'[n].step = step
           /\ handlers'[n].code = handlers[n].code
<1>1. handlers[n] \in HandlerRecord /\ handlers[n].k \in Nat
  BY HandlerFields, WorkIsOrdered
<1>2. PICK h : h = WithStep(handlers[n], step)
  OBVIOUS
<1>3. /\ h \in HandlerRecord /\ SameRequest(h, handlers[n])
      /\ h.k = handlers[n].k /\ h.step = step /\ h.code = handlers[n].code
  BY <1>1, <1>2, Updates, ConstantTypes DEF Placed
<1>4. handlers' = [handlers EXCEPT ![n] = h]
  BY <1>2 DEF WithStep
<1> QED BY <1>3, <1>4, OneHandler

LEMMA CodeGiven ==
    ASSUME HandlersAreReal, NEW n \in DOMAIN handlers, NEW code \in {Lost, 500},
           handlers' = [handlers EXCEPT ![n].code = code]
    PROVE  /\ OnlyHandler(n) /\ SameRequest(handlers'[n], handlers[n])
           /\ handlers'[n].k = handlers[n].k /\ handlers'[n].step = handlers[n].step
           /\ handlers'[n].code = code
<1>1. handlers[n] \in HandlerRecord /\ handlers[n].k \in Nat
  BY HandlerFields, WorkIsOrdered
<1>2. PICK h : h = WithCode(handlers[n], code)
  OBVIOUS
<1>3. /\ h \in HandlerRecord /\ SameRequest(h, handlers[n])
      /\ h.k = handlers[n].k /\ h.step = handlers[n].step /\ h.code = code
  BY <1>1, <1>2, Updates DEF Placed
<1>4. handlers' = [handlers EXCEPT ![n] = h]
  BY <1>2 DEF WithCode
<1> QED BY <1>3, <1>4, OneHandler, ZenonT(40)

LEMMA ItemGiven ==
    ASSUME HandlersAreReal, NEW n \in DOMAIN handlers,
           handlers' = [handlers EXCEPT ![n] = At(@, @.k + 1)]
    PROVE  OnlyHandler(n) /\ Advanced(handlers'[n], handlers[n])
<1>1. handlers[n] \in HandlerRecord
  BY HandlerFields
<1>2. PICK h : h = At(handlers[n], handlers[n].k + 1)
  OBVIOUS
<1>3. Advanced(h, handlers[n])
  BY <1>1, <1>2, AtEffect
<1>4. handlers' = [handlers EXCEPT ![n] = h]
  BY <1>2
<1> QED BY <1>3, <1>4, OneHandler DEF Advanced

RequestsKept ==
    /\ DOMAIN handlers \subseteq DOMAIN handlers'
    /\ \A n \in DOMAIN handlers : SameRequest(handlers'[n], handlers[n])

(* The request that was taken is the last, and new.                        *)
Arrives(h) ==
    /\ up /\ UNCHANGED <<up, running, today, troubles, sends>>
    /\ handlers' = Append(handlers, h)
    /\ h \in HandlerRecord /\ h.k = 1 /\ h.day = today
    /\ h.code = Open => 1 <= Len(h.work) /\ h.step = "store"

LEMMA ReceiveEffect ==
    ASSUME HandlersAreReal, NEW r \in RequestNames, Receive(r)
    PROVE  \E h : Arrives(h)
<1>1. PICK o : o = Outcomes[running][r]
  OBVIOUS
<1>2. running \in Startable /\ today \in Nat /\ up
  BY ConstantTypes DEF HandlersAreReal, Receive
<1>3. o.events \in EventLists /\ o.work \in Works /\ Ordered(o.work)
  BY <1>1, <1>2, OutcomesAreOrdered DEF EventLists, Works
<1> DEFINE h == [request |-> r, config |-> running, day |-> today,
                 events |-> o.events, work |-> o.work,
                 k |-> 1, step |-> IF o.work = <<>> THEN "done" ELSE "store",
                 code |-> IF o.work = <<>> THEN 202 ELSE Open]
<1>4. handlers' = Append(handlers, h) /\ UNCHANGED <<up, running, today, troubles, sends>>
  BY <1>1, Zenon DEF Receive
<1>5. h \in HandlerRecord
  BY <1>2, <1>3 DEF HandlerRecord
<1>6. h.code = Open => o.work # <<>> /\ h.step = "store" /\ h.work = o.work
  BY ConstantTypes
<1>7. o.work # <<>> => 1 <= Len(o.work)
  <2>1. Len(o.work) \in Nat /\ o.work \in Seq(Range(o.work))
    BY <1>3, ListFields DEF Ordered, IsList
  <2> QED BY <2>1
<1>8. h.k = 1 /\ h.day = today
  OBVIOUS
<1> HIDE DEF h
<1>9. Arrives(h)
  BY <1>2, <1>4, <1>5, <1>6, <1>7, <1>8 DEF Arrives
<1> QED BY <1>9

LEMMA HandlersAfterArrival ==
    ASSUME HandlersAreReal, NEW h, Arrives(h)
    PROVE  /\ HandlersAreReal' /\ RequestsKept
           /\ \A n \in DOMAIN handlers : handlers'[n] = handlers[n]
           /\ DOMAIN handlers' = DOMAIN handlers \cup {Len(handlers) + 1}
           /\ Len(handlers) + 1 \notin DOMAIN handlers
           /\ handlers'[Len(handlers) + 1] = h
<1>1. handlers \in Seq(HandlerRecord) /\ h \in HandlerRecord /\ handlers' = Append(handlers, h)
  BY DEF HandlersAreReal, Arrives
<1>2. /\ handlers' \in Seq(HandlerRecord)
      /\ \A n \in DOMAIN handlers : handlers'[n] = handlers[n]
      /\ DOMAIN handlers' = DOMAIN handlers \cup {Len(handlers) + 1}
      /\ Len(handlers) + 1 \notin DOMAIN handlers
      /\ handlers'[Len(handlers) + 1] = h
  BY <1>1
<1>3. Len(h.work) \in Nat /\ Len(h.work) + 1 \in Nat /\ 1 \in 1 .. Len(h.work) + 1
  BY <1>1, WorkIsOrdered
<1>4. HandlersAreReal'
  BY <1>2, <1>3, ConstantTypes DEF HandlersAreReal, Arrives, IsOpen
<1> QED BY <1>2, <1>4 DEF RequestsKept, SameRequest

(* What an open handler does to its record.                                *)
Handling(n) ==
    /\ n \in DOMAIN handlers /\ IsOpen(n) /\ UNCHANGED <<up, running, today, sends>>
    /\ troubles' \in {troubles, troubles + 1} \cap (0 .. MaxTroubles)
    /\ OnlyHandler(n) /\ SameRequest(handlers'[n], handlers[n])
    /\ \/ /\ UNCHANGED troubles
          /\ handlers'[n].k = handlers[n].k /\ handlers'[n].code = handlers[n].code
          /\ \/ handlers[n].step = "store" /\ handlers'[n].step = "queue"
             \/ handlers[n].step = "queue" /\ handlers'[n].step = "escalate"
       \/ UNCHANGED troubles /\ Advanced(handlers'[n], handlers[n])
       \/ /\ handlers'[n].code = 500
          /\ handlers'[n].k = handlers[n].k /\ handlers'[n].step = handlers[n].step
          /\ troubles' = troubles + 1

LEMMA HandlersAfterHandling ==
    ASSUME HandlersAreReal, NEW n, Handling(n)
    PROVE  HandlersAreReal' /\ RequestsKept
<1>1. handlers[n] \in HandlerRecord /\ Ordered(handlers[n].work) /\ Len(handlers[n].work) \in Nat
  BY HandlerFields DEF Handling
<1>2. handlers[n].k \in 1 .. Len(handlers[n].work) /\ up /\ handlers[n].day = today
      /\ handlers[n].step # "done"
  BY <1>1 DEF HandlersAreReal, Handling
<1>3. handlers'[n].work = handlers[n].work /\ handlers'[n].day = handlers[n].day
  BY DEF Handling, SameRequest
<1>4. /\ handlers'[n].k \in 1 .. Len(handlers'[n].work) + 1
      /\ handlers'[n].code = Open =>
            handlers'[n].k <= Len(handlers'[n].work) /\ handlers'[n].step # "done"
  <2>1. PICK h, new, count : h = handlers[n] /\ new = handlers'[n] /\ count = Len(h.work)
    OBVIOUS
  <2>2. count \in Nat /\ h.k \in 1 .. count /\ Len(new.work) = count /\ h.step # "done"
    BY <1>1, <1>2, <1>3, <2>1
  <2>3. CASE new.k = h.k /\ new.step \in {h.step, "queue", "escalate"}
    BY <2>1, <2>2, <2>3
  <2>4. CASE Advanced(new, h)
    <3>1. new.k = h.k + 1 /\ h.k + 1 \in 1 .. count + 1
      BY <2>2, <2>4 DEF Advanced
    <3>2. h.k + 1 > count => new.code = 202
      BY <2>1, <2>4 DEF Advanced
    <3>3. ~ (h.k + 1 > count) => new.step \in {"store", "queue"} /\ h.k + 1 <= count
      BY <2>1, <2>2, <2>4 DEF Advanced
    <3> QED BY <2>1, <2>2, <3>1, <3>2, <3>3, ConstantTypes
  <2> QED BY <2>1, <2>3, <2>4 DEF Handling
<1>5. ASSUME NEW m \in DOMAIN handlers'
      PROVE  /\ handlers'[m].k \in 1 .. Len(handlers'[m].work) + 1
             /\ handlers'[m].day <= today
             /\ handlers'[m].code = Open =>
                   /\ up /\ handlers'[m].day = today
                   /\ handlers'[m].k <= Len(handlers'[m].work) /\ handlers'[m].step # "done"
  <2>1. CASE m = n
    <3>1. handlers[n].day <= today
      BY DEF HandlersAreReal, Handling
    <3> QED BY <1>2, <1>3, <1>4, <2>1, <3>1
  <2>2. CASE m # n
    <3>1. m \in DOMAIN handlers /\ handlers'[m] = handlers[m]
      BY <2>2 DEF Handling, OnlyHandler
    <3> QED BY <3>1 DEF HandlersAreReal, IsOpen
  <2> QED BY <2>1, <2>2
<1>6. HandlersAreReal'
  BY <1>5, ConstantTypes DEF HandlersAreReal, Handling, OnlyHandler, IsOpen
<1> QED BY <1>6 DEF RequestsKept, Handling, OnlyHandler, SameRequest

LEMMA HandleEffect ==
    ASSUME HandlersAreReal, NEW n \in DOMAIN handlers, Handle(n)
    PROVE  Handling(n)
<1>1. up /\ IsOpen(n) /\ UNCHANGED <<up, running, today, sends>>
  BY DEF Handle, IsOpen
<1>2. troubles \in 0 .. MaxTroubles /\ MaxTroubles \in Nat
  BY ConstantTypes DEF HandlersAreReal
<1>3. CASE StoreEvent(n)
  <2>1. /\ handlers' = [handlers EXCEPT ![n].step = "queue"] /\ UNCHANGED troubles
        /\ handlers[n].step = "store"
    BY <1>3 DEF StoreEvent
  <2> QED BY <1>1, <1>2, <2>1, StepGiven DEF Handling
<1>4. CASE QueueDelivery(n)
  <2>1. UNCHANGED troubles /\ handlers[n].step = "queue"
    BY <1>4 DEF QueueDelivery
  <2>2. CASE handlers' = [handlers EXCEPT ![n].step = "escalate"]
    BY <1>1, <1>2, <2>1, <2>2, StepGiven DEF Handling
  <2>3. CASE handlers' = [handlers EXCEPT ![n] = At(@, @.k + 1)]
    BY <1>1, <1>2, <2>1, <2>3, ItemGiven DEF Handling, Advanced
  <2> QED BY <1>4, <2>2, <2>3 DEF QueueDelivery, NextItem
<1>5. CASE QueueEscalation(n)
  <2>1. UNCHANGED troubles /\ handlers' = [handlers EXCEPT ![n] = At(@, @.k + 1)]
    BY <1>5 DEF QueueEscalation, NextItem
  <2> QED BY <1>1, <1>2, <2>1, ItemGiven DEF Handling, Advanced
<1>6. CASE Fail(n)
  <2>1. /\ handlers' = [handlers EXCEPT ![n].code = 500]
        /\ troubles < MaxTroubles /\ troubles' = troubles + 1
    BY <1>6 DEF Fail
  <2>2. troubles' \in {troubles, troubles + 1} \cap (0 .. MaxTroubles)
    BY <1>2, <2>1
  <2>3. /\ OnlyHandler(n) /\ SameRequest(handlers'[n], handlers[n])
        /\ handlers'[n].k = handlers[n].k /\ handlers'[n].step = handlers[n].step
        /\ handlers'[n].code = 500
    BY <2>1, CodeGiven
  <2> QED BY <1>1, <2>1, <2>2, <2>3 DEF Handling
<1> QED BY <1>3, <1>4, <1>5, <1>6 DEF Handle

(* The process ends, and leaves its requests unanswered.                   *)
Ends ==
    /\ up /\ up' = FALSE /\ UNCHANGED <<running, today, sends>> /\ troubles' = troubles + 1
    /\ troubles' \in 0 .. MaxTroubles
    /\ handlers' \in Seq(HandlerRecord) /\ DOMAIN handlers' = DOMAIN handlers
    /\ \A n \in DOMAIN handlers :
          /\ SameRequest(handlers'[n], handlers[n])
          /\ handlers'[n].code # Open
          /\ handlers'[n].k = handlers[n].k

LEMMA CrashEffect ==
    ASSUME HandlersAreReal, Crash
    PROVE  Ends
<1>1. handlers \in Seq(HandlerRecord) /\ Len(handlers) \in Nat /\ DOMAIN handlers = 1 .. Len(handlers)
  BY HandlerFields DEF HandlersAreReal
<1> DEFINE closed == [n \in DOMAIN handlers |->
                        IF handlers[n].code = Open THEN WithCode(handlers[n], Lost)
                        ELSE handlers[n]]
<1>2. handlers' = closed
  BY DEF Crash, WithCode
<1>3. ASSUME NEW n \in DOMAIN handlers
      PROVE  /\ closed[n] \in HandlerRecord /\ SameRequest(closed[n], handlers[n])
             /\ closed[n].code # Open /\ closed[n].k = handlers[n].k
  <2>1. handlers[n] \in HandlerRecord /\ handlers[n].k \in Nat
    BY HandlerFields, WorkIsOrdered
  <2>2. Placed(WithCode(handlers[n], Lost), handlers[n], handlers[n].k, handlers[n].step, Lost)
    BY <2>1, Updates, ConstantTypes
  <2> QED BY <2>1, <2>2, ConstantTypes DEF Placed, SameRequest
<1>4. closed \in [1 .. Len(handlers) -> HandlerRecord]
  BY <1>1, <1>3
<1>5. closed \in Seq(HandlerRecord) /\ DOMAIN closed = DOMAIN handlers
  BY <1>1, <1>4
<1>6. /\ up /\ up' = FALSE /\ UNCHANGED <<running, today, sends>>
      /\ troubles' = troubles + 1 /\ troubles' \in 0 .. MaxTroubles
  BY ConstantTypes DEF Crash, HandlersAreReal
<1> HIDE DEF closed
<1> QED BY <1>2, <1>3, <1>5, <1>6 DEF Ends

LEMMA HandlersAfterEnd ==
    ASSUME HandlersAreReal, Ends
    PROVE  HandlersAreReal' /\ RequestsKept
<1>1. \A n \in DOMAIN handlers' :
          /\ handlers'[n].k \in 1 .. Len(handlers'[n].work) + 1
          /\ handlers'[n].day <= today /\ handlers'[n].code # Open
  BY DEF HandlersAreReal, Ends, SameRequest
<1>2. /\ up' \in BOOLEAN /\ running' \in Startable \cup {Absent} /\ ~up'
      /\ today' \in 0 .. MaxDay /\ troubles' \in 0 .. MaxTroubles /\ sends' \in 0 .. MaxSends
      /\ handlers' \in Seq(HandlerRecord) /\ today' = today
  BY DEF HandlersAreReal, Ends
<1>3. HandlersAreReal'
  BY <1>1, <1>2 DEF HandlersAreReal, IsOpen
<1> QED BY <1>3 DEF RequestsKept, Ends

(* Every other step leaves the handlers alone.                             *)
LEMMA HandlersAtRest ==
    ASSUME HandlersAreReal, UNCHANGED handlers,
           \/ UNCHANGED <<up, running, today, troubles>> /\ sends' \in 0 .. MaxSends
           \/ UNCHANGED <<up, running, troubles, sends>> /\ Tick
           \/ /\ ~up /\ UNCHANGED <<today, troubles, sends>>
              /\ \/ UNCHANGED <<up, running>>
                 \/ up' = TRUE /\ running' \in Startable
    PROVE  HandlersAreReal' /\ RequestsKept
<1>1. RequestsKept
  BY DEF RequestsKept, SameRequest
<1>2. CASE UNCHANGED <<up, running, today, troubles>> /\ sends' \in 0 .. MaxSends
  <2>1. /\ handlers' = handlers /\ up' = up /\ running' = running
        /\ today' = today /\ troubles' = troubles /\ sends' \in 0 .. MaxSends
    BY <1>2
  <2> QED BY <1>1, <2>1 DEF HandlersAreReal, IsOpen
<1>3. CASE UNCHANGED <<up, running, troubles, sends>> /\ Tick
  <2>1. today' = today + 1 /\ today' \in 0 .. MaxDay
    BY <1>3, ConstantTypes DEF Tick, HandlersAreReal
  <2>2. \A n \in DOMAIN handlers : ~ IsOpen(n)
    BY <1>3 DEF Tick, OpenHandlers, IsOpen
  <2>3. \A n \in DOMAIN handlers : handlers[n].day <= today'
    <3>1. \A n \in DOMAIN handlers : handlers[n].day <= today /\ handlers[n].day \in Nat
      BY HandlerFields, WorkIsOrdered DEF HandlersAreReal
    <3> QED BY <2>1, <3>1, ConstantTypes DEF HandlersAreReal
  <2> QED BY <1>1, <1>3, <2>1, <2>2, <2>3 DEF HandlersAreReal, IsOpen
<1>4. CASE /\ ~up /\ UNCHANGED <<today, troubles, sends>>
           /\ \/ UNCHANGED <<up, running>>
              \/ up' = TRUE /\ running' \in Startable
  <2>1. \A n \in DOMAIN handlers : ~ IsOpen(n)
    BY <1>4 DEF HandlersAreReal
  <2>2. /\ handlers' = handlers /\ today' = today /\ troubles' = troubles /\ sends' = sends
        /\ up' \in BOOLEAN /\ running' \in Startable \cup {Absent}
        /\ up' => running' \in Startable
    <3>1. CASE UNCHANGED <<up, running>>
      <4>1. up' = up /\ running' = running
        BY <3>1
      <4> QED BY <1>4, <4>1 DEF HandlersAreReal
    <3>2. CASE up' = TRUE /\ running' \in Startable
      BY <1>4, <3>2 DEF HandlersAreReal
    <3> QED BY <1>4, <3>1, <3>2
  <2> QED BY <1>1, <2>1, <2>2 DEF HandlersAreReal, IsOpen
<1> QED BY <1>1, <1>2, <1>3, <1>4

(* What every step leaves standing.                                        *)
Onward ==
    /\ HandlersAreReal' /\ RequestsKept
    /\ today <= today' /\ troubles <= troubles'

LEMMA EveryStepOnward ==
    ASSUME HandlersAreReal, [Next]_vars
    PROVE  Onward
<1>1. /\ today \in Nat /\ troubles \in Nat /\ sends \in 0 .. MaxSends
      /\ MaxSends \in Nat
  BY ConstantTypes DEF HandlersAreReal
<1>2. CASE \E c \in Accepted : Start(c)
  <2>1. /\ ~up /\ UNCHANGED <<today, troubles, sends>> /\ UNCHANGED handlers
        /\ \/ UNCHANGED <<up, running>>
           \/ up' = TRUE /\ running' \in Startable
    BY <1>2, Zenon DEF Start
  <2>2. today' = today /\ troubles' = troubles
    BY <2>1
  <2>3. HandlersAreReal' /\ RequestsKept
    BY <2>1, HandlersAtRest, Zenon
  <2> QED BY <1>1, <2>2, <2>3 DEF Onward
<1>3. CASE \E r \in RequestNames : Receive(r)
  <2>1. PICK h : Arrives(h)
    BY <1>3, ReceiveEffect
  <2> QED BY <1>1, <2>1, HandlersAfterArrival DEF Onward, Arrives
<1>4. CASE \E n \in DOMAIN handlers : Handle(n)
  <2>1. PICK n : Handling(n)
    BY <1>4, HandleEffect
  <2>2. HandlersAreReal' /\ RequestsKept
    BY <2>1, HandlersAfterHandling
  <2> QED BY <1>1, <2>1, <2>2 DEF Onward, Handling
<1>5. CASE Send
  <2>1. /\ UNCHANGED handlers /\ UNCHANGED <<up, running, today, troubles>>
        /\ sends < MaxSends /\ sends' = sends + 1
    BY <1>5 DEF Send
  <2>2. sends' \in 0 .. MaxSends
    BY <1>1, <2>1
  <2>3. HandlersAreReal' /\ RequestsKept
    BY <2>1, <2>2, HandlersAtRest, Zenon
  <2> QED BY <1>1, <2>1, <2>3 DEF Onward
<1>6. CASE Prune \/ Quiet \/ UNCHANGED vars
  <2>1. /\ UNCHANGED handlers /\ UNCHANGED <<up, running, today, troubles>>
        /\ sends' \in 0 .. MaxSends
    BY <1>1, <1>6 DEF Prune, Quiet, vars
  <2>2. HandlersAreReal' /\ RequestsKept
    BY <2>1, HandlersAtRest, Zenon
  <2> QED BY <1>1, <2>1, <2>2 DEF Onward
<1>7. CASE Tick
  <2>1. /\ UNCHANGED handlers /\ UNCHANGED <<up, running, troubles, sends>>
        /\ today' = today + 1 /\ troubles' = troubles
    BY <1>7 DEF Tick
  <2>2. HandlersAreReal' /\ RequestsKept
    BY <1>7, <2>1, HandlersAtRest, Zenon
  <2> QED BY <1>1, <2>1, <2>2 DEF Onward
<1>8. CASE Crash
  <2>1. Ends
    BY <1>8, CrashEffect
  <2>2. HandlersAreReal' /\ RequestsKept
    BY <2>1, HandlersAfterEnd
  <2> QED BY <1>1, <2>1, <2>2 DEF Onward, Ends
<1> QED BY <1>2, <1>3, <1>4, <1>5, <1>6, <1>7, <1>8, Zenon DEF Next

(* What the ids of requests stand for stays.                               *)
LEMMA NamesKept ==
    ASSUME HandlersAreReal, RequestsKept, NEW id, id[1] \in DOMAIN handlers
    PROVE  /\ Key(id)' = Key(id) /\ EventId(id)' = EventId(id)
           /\ IsEventId(id) => IsEventId(id)'
           /\ IsRow(id) => IsRow(id)'
           /\ handlers'[id[1]].work = handlers[id[1]].work
<1>1. PICK n : n = id[1]
  OBVIOUS
<1>2. /\ n \in DOMAIN handlers /\ n \in DOMAIN handlers'
      /\ handlers'[n].events = handlers[n].events /\ handlers'[n].work = handlers[n].work
  BY <1>1 DEF RequestsKept, SameRequest
<1>3. EventOf(id)' = EventOf(id) /\ ItemOf(id)' = ItemOf(id)
  BY <1>1, <1>2 DEF EventOf, ItemOf
<1> QED BY <1>1, <1>2, <1>3 DEF Key, EventId, IsEventId, IsRow

(* The event of a row.                                                     *)
LEMMA RowsEvent ==
    ASSUME HandlersAreReal, NEW row, IsRow(row)
    PROVE  IsEventId(EventId(row)) /\ EventId(row)[1] = row[1]
<1>1. PICK n, k : n = row[1] /\ k = row[2]
  OBVIOUS
<1>2. n \in DOMAIN handlers /\ n \in Nat /\ k \in 1 .. Len(handlers[n].work)
  BY <1>1, HandlerFields DEF IsRow, IsEventId
<1>3. handlers[n].work[k].event \in Nat
  BY <1>2, HandlerFields DEF Ordered
<1>4. EventId(row) = <<n, handlers[n].work[k].event>>
  BY <1>1 DEF EventId, ItemOf
<1> QED BY <1>1, <1>2, <1>3, <1>4 DEF IsEventId, Ids

(* The row and the event an open handler is at.                            *)
LEMMA OpenRow ==
    ASSUME HandlersAreReal, NEW n \in DOMAIN handlers, IsOpen(n)
    PROVE  /\ IsRow(<<n, handlers[n].k>>)
           /\ EventId(<<n, handlers[n].k>>) = <<n, EventAt(n)>>
           /\ IsEventId(<<n, EventAt(n)>>) /\ EventAt(n) \in Nat
<1>1. n \in Nat /\ Len(handlers[n].work) \in Nat /\ Ordered(handlers[n].work)
  BY HandlerFields
<1>2. handlers[n].k \in 1 .. Len(handlers[n].work)
  BY <1>1 DEF HandlersAreReal
<1>3. IsRow(<<n, handlers[n].k>>)
  BY <1>1, <1>2 DEF IsRow, IsEventId, Ids
<1>4. EventId(<<n, handlers[n].k>>) = <<n, EventAt(n)>>
  BY DEF EventId, ItemOf, EventAt
<1>5. EventAt(n) \in Nat
  BY <1>1, <1>2 DEF Ordered, EventAt
<1> QED BY <1>1, <1>3, <1>4, <1>5 DEF IsEventId, Ids

----------------------------------------------------------------------------
(* The groups and the events.                                              *)

(* The event is counted in group g, which it may create.                   *)
GrowsBy(id, g) ==
    /\ IsEventId(id) /\ IsEventId(g) /\ Key(g) = Key(id)
    /\ DOMAIN alertGroups' = DOMAIN alertGroups \cup {g}
    /\ \A f \in DOMAIN alertGroups \ {g} : alertGroups'[f] = alertGroups[f]
    /\ \A f \in DOMAIN alertGroups : Key(f) = Key(g) => f = g
    /\ alertGroups'[g] \in GroupRecord /\ alertGroups'[g].last = today
    /\ IF g \in DOMAIN alertGroups
       THEN /\ alertGroups'[g].count = alertGroups[g].count + 1
            /\ alertGroups'[g].first = alertGroups[g].first
       ELSE alertGroups'[g].count = 1 /\ alertGroups'[g].first = today

LEMMA UpsertEffect ==
    ASSUME HandlersAreReal, AlertsAreReal, NEW id, IsEventId(id), NEW owner,
           alertGroups' = Upserted(id, owner)
    PROVE  \E g : GrowsBy(id, g) /\ GroupAfter(id, owner) = g
<1> DEFINE known == {g \in DOMAIN alertGroups : Key(g) = Key(id)}
           status == AlertStatus(EventOf(id))
           team == IF owner \in Teams THEN owner ELSE Absent
           new == [status |-> status, count |-> 1, team |-> team,
                   first |-> today, last |-> today]
<1>1. status \in {"active", "resolved"} /\ team \in Teams \cup {Absent}
  BY DEF AlertStatus
<1>2. today \in 0 .. MaxDay /\ MaxDay \in Nat
  BY ConstantTypes DEF HandlersAreReal
<1>3. CASE known = {}
  <2>1. alertGroups' = Inserted(alertGroups, id, new)
    BY <1>3, Zenon DEF Upserted
  <2>2. id \notin DOMAIN alertGroups
    BY <1>3
  <2>3. new \in GroupRecord /\ new.count = 1 /\ new.first = today /\ new.last = today
    <3> HIDE DEF status, team
    <3> QED BY <1>1, <1>2 DEF GroupRecord
  <2> HIDE DEF new
  <2>4. /\ DOMAIN alertGroups' = DOMAIN alertGroups \cup {id}
        /\ alertGroups'[id] = new
        /\ \A f \in DOMAIN alertGroups \ {id} : alertGroups'[f] = alertGroups[f]
    BY <2>1 DEF Inserted
  <2>5. \A f \in DOMAIN alertGroups : Key(f) # Key(id)
    BY <1>3
  <2>6. GrowsBy(id, id)
    BY <2>2, <2>3, <2>4, <2>5 DEF GrowsBy
  <2>7. GroupAfter(id, owner) = id
    <3>1. DOMAIN Upserted(id, owner) = DOMAIN alertGroups \cup {id}
      BY <2>4
    <3>2. \A f \in DOMAIN Upserted(id, owner) : Key(f) = Key(id) <=> f = id
      BY <2>5, <3>1
    <3> QED BY <3>1, <3>2, Zenon DEF GroupAfter
  <2> QED BY <2>6, <2>7
<1>4. CASE known # {}
  <2>1. PICK g : g = CHOOSE f \in known : TRUE
    OBVIOUS
  <2>2. g \in DOMAIN alertGroups /\ Key(g) = Key(id)
    BY <1>4, <2>1
  <2>3. alertGroups' = [alertGroups EXCEPT ![g].status = status, ![g].count = @ + 1,
                                  ![g].team = Or(@, team), ![g].last = today]
    BY <1>4, <2>1, Zenon DEF Upserted
  <2>4. GroupIsReal(g) /\ alertGroups[g] \in GroupRecord /\ IsEventId(g)
    BY <2>2 DEF AlertsAreReal, GroupIsReal
  <2>5. \A f \in DOMAIN alertGroups : Key(f) = Key(g) => f = g
    BY <2>4 DEF GroupIsReal
  <2>6. Or(alertGroups[g].team, team) \in Teams \cup {Absent}
    <3> HIDE DEF team
    <3> QED BY <1>1, <2>4 DEF Or, GroupRecord
  <2> HIDE DEF status, team, known
  <2>7. PICK after : after = [alertGroups[g] EXCEPT !.status = status, !.count = @ + 1,
                                  !.team = Or(@, team), !.last = today]
    OBVIOUS
  <2>8. /\ after \in GroupRecord /\ after.last = today
        /\ after.count = alertGroups[g].count + 1 /\ after.first = alertGroups[g].first
    <3>1. PICK old, named : old = alertGroups[g] /\ named = Or(alertGroups[g].team, team)
      OBVIOUS
    <3>2. /\ old \in GroupRecord /\ named \in Teams \cup {Absent}
          /\ old.count + 1 \in Nat \ {0}
      BY <2>4, <2>6, <3>1 DEF GroupRecord
    <3>3. after = [old EXCEPT !.status = status, !.count = old.count + 1,
                              !.team = named, !.last = today]
      BY <2>7, <3>1, Zenon
    <3> HIDE DEF new
    <3>4. /\ after \in GroupRecord /\ after.last = today
          /\ after.count = old.count + 1 /\ after.first = old.first
      BY <1>1, <1>2, <3>2, <3>3 DEF GroupRecord
    <3> QED BY <3>1, <3>4
  <2>9. /\ DOMAIN alertGroups' = DOMAIN alertGroups
        /\ alertGroups'[g] = after
        /\ \A f \in DOMAIN alertGroups \ {g} : alertGroups'[f] = alertGroups[f]
    BY <2>2, <2>3, <2>7
  <2>10. GrowsBy(id, g)
    BY <2>2, <2>4, <2>5, <2>8, <2>9 DEF GrowsBy
  <2>11. GroupAfter(id, owner) = g
    <3>1. DOMAIN Upserted(id, owner) = DOMAIN alertGroups
      BY <2>9
    <3>2. \A f \in DOMAIN Upserted(id, owner) : Key(f) = Key(id) <=> f = g
      BY <2>2, <2>5, <3>1
    <3> QED BY <2>2, <3>1, <3>2, Zenon DEF GroupAfter
  <2> QED BY <2>10, <2>11
<1> QED BY <1>3, <1>4

(* The parts of GroupIsReal that follow from the handlers alone.           *)
LEMMA GroupsKept ==
    ASSUME HandlersAreReal, Onward, AlertsAreReal, NEW g \in DOMAIN alertGroups
    PROVE  /\ IsEventId(g) /\ IsEventId(g)' /\ Key(g)' = Key(g)
           /\ alertGroups[g] \in GroupRecord
           /\ alertGroups[g].first \in Nat /\ alertGroups[g].last \in Nat
           /\ alertGroups[g].first <= alertGroups[g].last /\ alertGroups[g].last <= today
           /\ today \in Nat /\ today' \in 0 .. MaxDay /\ today <= today'
<1>1. GroupIsReal(g)
  BY DEF AlertsAreReal
<1>2. IsEventId(g) /\ alertGroups[g] \in GroupRecord
  BY <1>1 DEF GroupIsReal
<1>3. today \in 0 .. MaxDay /\ today' \in 0 .. MaxDay /\ MaxDay \in Nat /\ today <= today'
  BY ConstantTypes DEF HandlersAreReal, Onward
<1>4. IsEventId(g)' /\ Key(g)' = Key(g)
  BY <1>2, NamesKept DEF Onward, IsEventId
<1> QED BY <1>1, <1>2, <1>3, <1>4 DEF GroupIsReal, GroupRecord

LEMMA EventsKept ==
    ASSUME HandlersAreReal, Onward, AlertsAreReal, NEW e \in DOMAIN alertEvents
    PROVE  /\ IsEventId(e) /\ IsEventId(e)'
           /\ alertEvents[e].group \in DOMAIN alertGroups
           /\ alertEvents[e].day \in 0 .. today /\ alertEvents[e].day \in 0 .. today'
           /\ alertEvents[e] = [group |-> alertEvents[e].group, day |-> alertEvents[e].day]
<1>1. IsEventId(e) /\ alertEvents[e] \in [group : DOMAIN alertGroups, day : 0 .. today]
  BY DEF AlertsAreReal, EventIsReal
<1>2. IsEventId(e)'
  BY <1>1, NamesKept DEF Onward, IsEventId
<1>3. today \in 0 .. MaxDay /\ today' \in 0 .. MaxDay /\ MaxDay \in Nat /\ today <= today'
  BY ConstantTypes DEF HandlersAreReal, Onward
<1> QED BY <1>1, <1>2, <1>3

(* A step that leaves the groups and their events alone.                   *)
LEMMA AlertsAtRest ==
    ASSUME HandlersAreReal, Onward, AlertsAreReal, UNCHANGED <<alertGroups, alertEvents>>,
           \A task \in DOMAIN tasks' : tasks'[task] \in DOMAIN alertGroups
    PROVE  AlertsAreReal'
<1>1. alertGroups' = alertGroups /\ alertEvents' = alertEvents
  OBVIOUS
<1>2. \A g : EventsOf(g)' = EventsOf(g) /\ DaysLeft(g, {})' = DaysLeft(g, {})
  BY <1>1 DEF EventsOf, DaysLeft
<1>3. troubles' = 0 => troubles = 0
  BY ConstantTypes DEF Onward, HandlersAreReal
<1>4. ASSUME NEW g \in DOMAIN alertGroups
      PROVE  GroupIsReal(g)'
  <2>1. GroupIsReal(g)
    BY DEF AlertsAreReal
  <2>2. \A f \in DOMAIN alertGroups : Key(f)' = Key(g)' => f = g
    BY <2>1, GroupsKept DEF GroupIsReal
  <2>3. alertGroups[g].last <= today'
    <3>1. /\ alertGroups[g].last \in Nat /\ alertGroups[g].last <= today
          /\ today \in Nat /\ today' \in Nat /\ today <= today'
      BY GroupsKept, ConstantTypes
    <3> QED BY <3>1
  <2>4. IsEventId(g)'
    BY GroupsKept
  <2> QED BY <1>1, <1>2, <1>3, <2>1, <2>2, <2>3, <2>4 DEF GroupIsReal
<1>5. ASSUME NEW e \in DOMAIN alertEvents
      PROVE  EventIsReal(e)'
  <2>1. /\ IsEventId(e)'
        /\ alertEvents[e] \in [group : DOMAIN alertGroups, day : 0 .. today']
    BY EventsKept
  <2> QED BY <1>1, <2>1 DEF EventIsReal
<1> QED BY <1>1, <1>4, <1>5 DEF AlertsAreReal

(* The event is stored in its group, or half stored: only counted there,   *)
(* for its own statement failed.                                           *)
Stored(id, g) ==
    /\ GrowsBy(id, g) /\ UNCHANGED <<tasks, today>>
    /\ \/ UNCHANGED alertEvents /\ troubles' # 0
       \/ /\ id \notin DOMAIN alertEvents
          /\ alertEvents' = Inserted(alertEvents, id, [group |-> g, day |-> today])

LEMMA EventsAfterStore ==
    ASSUME HandlersAreReal, AlertsAreReal, NEW id, NEW g, Stored(id, g)
    PROVE  /\ IsFiniteSet(DOMAIN alertEvents')
           /\ \A e \in DOMAIN alertEvents : alertEvents'[e] = alertEvents[e]
           /\ \/ DOMAIN alertEvents' = DOMAIN alertEvents /\ troubles' # 0
              \/ /\ id \notin DOMAIN alertEvents
                 /\ DOMAIN alertEvents' = DOMAIN alertEvents \cup {id}
                 /\ alertEvents'[id] = [group |-> g, day |-> today]
<1>1. IsFiniteSet(DOMAIN alertEvents)
  BY DEF AlertsAreReal
<1>2. CASE UNCHANGED alertEvents /\ troubles' # 0
  BY <1>1, <1>2
<1>3. CASE /\ id \notin DOMAIN alertEvents
           /\ alertEvents' = Inserted(alertEvents, id, [group |-> g, day |-> today])
  <2>1. /\ DOMAIN alertEvents' = DOMAIN alertEvents \cup {id}
        /\ \A e \in DOMAIN alertEvents : alertEvents'[e] = alertEvents[e]
        /\ alertEvents'[id] = [group |-> g, day |-> today]
    BY <1>3 DEF Inserted
  <2>2. IsFiniteSet(DOMAIN alertEvents \cup {id})
    BY <1>1, FS_AddElement
  <2> QED BY <1>3, <2>1, <2>2
<1> QED BY <1>2, <1>3 DEF Stored

(* Its group spans today, and counts at least one event more.              *)
LEMMA GroupOfStored ==
    ASSUME HandlersAreReal, Onward, AlertsAreReal, NEW id, NEW g, Stored(id, g)
    PROVE  GroupIsReal(g)'
<1>1. GrowsBy(id, g) /\ today' = today
  BY DEF Stored
<1>2. today \in 0 .. MaxDay /\ MaxDay \in Nat /\ troubles \in Nat /\ troubles' \in Nat
  BY ConstantTypes DEF HandlersAreReal, Onward
<1>3. IsEventId(g)'
  BY <1>1, NamesKept DEF GrowsBy, Onward, IsEventId
<1>4. /\ alertGroups'[g] \in GroupRecord /\ alertGroups'[g].count \in Nat
      /\ alertGroups'[g].first \in Nat /\ alertGroups'[g].last = today
  BY <1>1 DEF GrowsBy, GroupRecord
<1>5. alertGroups'[g].first <= today
  <2>1. CASE g \in DOMAIN alertGroups
    <3>1. alertGroups'[g].first = alertGroups[g].first
      BY <1>1, <2>1 DEF GrowsBy
    <3>2. /\ alertGroups[g].first \in Nat /\ alertGroups[g].last \in Nat
          /\ alertGroups[g].first <= alertGroups[g].last /\ alertGroups[g].last <= today
      BY <2>1, GroupsKept
    <3> QED BY <1>2, <3>1, <3>2
  <2>2. CASE g \notin DOMAIN alertGroups
    BY <1>1, <1>2, <2>2 DEF GrowsBy
  <2> QED BY <2>1, <2>2
<1>6. \A f \in DOMAIN alertGroups' : Key(f)' = Key(g)' => f = g
  <2>1. Key(g)' = Key(g)
    BY <1>1, NamesKept DEF GrowsBy, Onward, IsEventId
  <2>2. \A f \in DOMAIN alertGroups : Key(f)' = Key(f)
    BY GroupsKept
  <2> QED BY <1>1, <2>1, <2>2 DEF GrowsBy
<1> DEFINE before == EventsOf(g)
           days == DaysLeft(g, {})
           counted == IF g \in DOMAIN alertGroups THEN alertGroups[g].count ELSE 0
<1>7. IsFiniteSet(before) /\ Cardinality(before) \in Nat
  <2>1. before \subseteq DOMAIN alertEvents
    BY DEF EventsOf
  <2> QED BY <2>1, FS_Subset, FS_CardinalityType DEF AlertsAreReal
<1>8. /\ counted \in Nat /\ Cardinality(before) <= counted
      /\ days \subseteq alertGroups'[g].first .. today
      /\ alertGroups'[g].count = counted + 1
      /\ troubles = 0 =>
            /\ counted = Cardinality(before)
            /\ alertGroups'[g].first \in days \cup {today}
  <2>1. CASE g \in DOMAIN alertGroups
    <3>1. GroupIsReal(g) /\ alertGroups[g] \in GroupRecord
      BY <2>1 DEF AlertsAreReal, GroupIsReal
    <3>2. /\ alertGroups'[g].first = alertGroups[g].first
          /\ alertGroups'[g].count = alertGroups[g].count + 1
      BY <1>1, <2>1 DEF GrowsBy
    <3>3. /\ alertGroups[g].first \in Nat /\ alertGroups[g].last \in Nat
          /\ alertGroups[g].last <= today /\ today \in Nat
      BY <2>1, GroupsKept
    <3>4. days \subseteq alertGroups[g].first .. today
      <4>1. days \subseteq alertGroups[g].first .. alertGroups[g].last
        BY <3>1 DEF GroupIsReal
      <4> HIDE DEF days
      <4> QED BY <3>3, <4>1
    <3>5. counted \in Nat /\ counted = alertGroups[g].count
      BY <2>1, <3>1 DEF GroupRecord
    <3> HIDE DEF counted, days
    <3>6. /\ Cardinality(before) <= alertGroups[g].count
          /\ troubles = 0 =>
                /\ alertGroups[g].count = Cardinality(before)
                /\ alertGroups[g].first \in days
      BY <3>1 DEF GroupIsReal, days
    <3> QED BY <3>2, <3>4, <3>5, <3>6
  <2>2. CASE g \notin DOMAIN alertGroups
    <3>1. before = {}
      BY <2>2, EventsKept DEF EventsOf
    <3>2. days = {} /\ Cardinality(before) = 0
      BY <3>1, FS_EmptySet DEF DaysLeft
    <3>3. /\ alertGroups'[g].count = 1 /\ alertGroups'[g].first = today /\ counted = 0
      BY <1>1, <2>2 DEF GrowsBy
    <3> HIDE DEF counted, days
    <3> QED BY <3>2, <3>3
  <2> QED BY <2>1, <2>2
<1> HIDE DEF counted
<1>9. /\ Cardinality(EventsOf(g)') <= alertGroups'[g].count
      /\ DaysLeft(g, {})' \subseteq alertGroups'[g].first .. alertGroups'[g].last
      /\ troubles' = 0 =>
            /\ alertGroups'[g].count = Cardinality(EventsOf(g)')
            /\ {alertGroups'[g].first, alertGroups'[g].last} \subseteq DaysLeft(g, {})'
  <2>1. CASE DOMAIN alertEvents' = DOMAIN alertEvents /\ troubles' # 0
    <3>1. EventsOf(g)' = before /\ DaysLeft(g, {})' = days
      BY <2>1, EventsAfterStore DEF EventsOf, DaysLeft
    <3>2. PICK n, D : n = Cardinality(before) /\ D = days
      OBVIOUS
    <3>3. Cardinality(EventsOf(g)') = n /\ DaysLeft(g, {})' = D
      BY <3>1, <3>2
    <3>4. PICK group : group = alertGroups'[g]
      OBVIOUS
    <3> HIDE DEF before, days
    <3>5. /\ n \in Nat /\ counted \in Nat /\ n <= counted /\ group.count = counted + 1
          /\ D \subseteq group.first .. today /\ group.last = today
      BY <1>4, <1>7, <1>8, <3>2, <3>4
    <3>6. n <= group.count /\ D \subseteq group.first .. group.last
      BY <3>5
    <3> QED BY <2>1, <3>3, <3>4, <3>6
  <2>2. CASE /\ id \notin DOMAIN alertEvents
             /\ DOMAIN alertEvents' = DOMAIN alertEvents \cup {id}
             /\ alertEvents'[id] = [group |-> g, day |-> today]
    <3>1. \A e \in DOMAIN alertEvents : alertEvents'[e] = alertEvents[e]
      BY EventsAfterStore
    <3>2. EventsOf(g)' = before \cup {id} /\ id \notin before
      BY <2>2, <3>1 DEF EventsOf
    <3>3. DaysLeft(g, {})' = days \cup {today}
      <4>1. \A e \in before : alertEvents'[e].day = alertEvents[e].day
        BY <3>1 DEF EventsOf
      <4>2. alertEvents'[id].day = today
        BY <2>2
      <4>3. /\ DaysLeft(g, {})' = {alertEvents'[e].day : e \in before \cup {id}}
            /\ days = {alertEvents[e].day : e \in before}
        BY <3>2 DEF DaysLeft
      <4> HIDE DEF before, days
      <4> QED BY <4>1, <4>2, <4>3
    <3> HIDE DEF before, days
    <3>4. Cardinality(EventsOf(g)') = Cardinality(before) + 1
      BY <1>7, <3>2, FS_AddElement
    <3>5. troubles' = 0 => troubles = 0
      BY <1>2 DEF Onward
    <3>6. PICK n, D, group : n = Cardinality(before) /\ D = days /\ group = alertGroups'[g]
      OBVIOUS
    <3>7. /\ n \in Nat /\ counted \in Nat /\ n <= counted /\ group.count = counted + 1
          /\ D \subseteq group.first .. today /\ group.last = today
          /\ group.first \in Nat /\ group.first <= today
          /\ troubles = 0 => counted = n /\ group.first \in D \cup {today}
      BY <1>4, <1>5, <1>7, <1>8, <3>6
    <3>8. /\ n + 1 <= group.count /\ D \cup {today} \subseteq group.first .. group.last
          /\ troubles = 0 => group.count = n + 1
      BY <1>2, <3>7
    <3>9. Cardinality(EventsOf(g)') = n + 1 /\ DaysLeft(g, {})' = D \cup {today}
      BY <3>3, <3>4, <3>6
    <3> QED BY <3>5, <3>6, <3>7, <3>8, <3>9
  <2> QED BY <2>1, <2>2, EventsAfterStore
<1> HIDE DEF before, days
<1> QED BY <1>1, <1>2, <1>3, <1>4, <1>5, <1>6, <1>9 DEF GroupIsReal

LEMMA AlertsAfterStore ==
    ASSUME HandlersAreReal, Onward, AlertsAreReal, NEW id, NEW g, Stored(id, g)
    PROVE  AlertsAreReal'
<1>1. /\ GrowsBy(id, g) /\ today' = today /\ tasks' = tasks
      /\ DOMAIN alertGroups' = DOMAIN alertGroups \cup {g}
  BY DEF Stored, GrowsBy
<1>2. /\ IsFiniteSet(DOMAIN alertEvents')
      /\ \A e \in DOMAIN alertEvents : alertEvents'[e] = alertEvents[e]
      /\ DOMAIN alertEvents \subseteq DOMAIN alertEvents'
      /\ DOMAIN alertEvents' \subseteq DOMAIN alertEvents \cup {id}
      /\ \A e \in DOMAIN alertEvents' \ DOMAIN alertEvents :
            e = id /\ alertEvents'[e] = [group |-> g, day |-> today]
  BY EventsAfterStore
<1>3. ASSUME NEW f \in DOMAIN alertGroups, f # g
      PROVE  GroupIsReal(f)'
  <2>1. GroupIsReal(f) /\ alertGroups'[f] = alertGroups[f]
    BY <1>1, <1>3 DEF AlertsAreReal, GrowsBy
  <2>2. EventsOf(f)' = EventsOf(f)
    <3>1. \A e \in DOMAIN alertEvents' \ DOMAIN alertEvents : alertEvents'[e].group # f
      BY <1>2, <1>3
    <3> QED BY <1>2, <3>1 DEF EventsOf
  <2>3. DaysLeft(f, {})' = DaysLeft(f, {})
    BY <1>2, <2>2 DEF DaysLeft, EventsOf
  <2>4. IsEventId(f)' /\ Key(f)' = Key(f)
    BY GroupsKept
  <2>5. \A x \in DOMAIN alertGroups' : Key(x)' = Key(f)' => x = f
    <3>1. Key(g)' = Key(g)
      BY <1>1, NamesKept DEF GrowsBy, Onward, IsEventId
    <3>2. \A x \in DOMAIN alertGroups : Key(x)' = Key(x)
      BY GroupsKept
    <3> QED BY <1>1, <1>3, <2>1, <2>4, <3>1, <3>2 DEF GrowsBy, GroupIsReal
  <2>6. troubles' = 0 => troubles = 0
    BY ConstantTypes DEF Onward, HandlersAreReal
  <2> QED BY <1>1, <2>1, <2>2, <2>3, <2>4, <2>5, <2>6 DEF GroupIsReal
<1>4. GroupIsReal(g)'
  BY GroupOfStored
<1>5. ASSUME NEW e \in DOMAIN alertEvents'
      PROVE  EventIsReal(e)'
  <2>1. CASE e \in DOMAIN alertEvents
    <3>1. /\ IsEventId(e)' /\ alertEvents[e].group \in DOMAIN alertGroups'
          /\ alertEvents[e].day \in 0 .. today'
          /\ alertEvents[e] = [group |-> alertEvents[e].group, day |-> alertEvents[e].day]
      BY <1>1, <2>1, EventsKept
    <3>2. alertEvents[e] \in [group : DOMAIN alertGroups', day : 0 .. today']
      BY <3>1
    <3> QED BY <1>2, <2>1, <3>1, <3>2 DEF EventIsReal
  <2>2. CASE e \notin DOMAIN alertEvents
    <3>1. e = id /\ alertEvents'[e] = [group |-> g, day |-> today] /\ IsEventId(id)
      BY <1>1, <1>2, <2>2 DEF GrowsBy
    <3>2. IsEventId(e)'
      BY <3>1, NamesKept DEF Onward, IsEventId
    <3>3. today' \in Nat /\ today' = today
      BY <1>1, ConstantTypes DEF HandlersAreReal
    <3>4. alertEvents'[e] \in [group : DOMAIN alertGroups', day : 0 .. today']
      BY <1>1, <3>1, <3>3
    <3> QED BY <3>2, <3>4 DEF EventIsReal
  <2> QED BY <2>1, <2>2
<1>6. \A task \in DOMAIN tasks' : tasks'[task] \in DOMAIN alertGroups'
  BY <1>1 DEF AlertsAreReal
<1> QED BY <1>1, <1>2, <1>3, <1>4, <1>5, <1>6 DEF AlertsAreReal

(* The pruner leaves the newer events, and what it makes of their groups.  *)
EventsPruned(old) ==
    /\ old \subseteq DOMAIN alertEvents
    /\ DOMAIN alertEvents' = DOMAIN alertEvents \ old
    /\ \A e \in DOMAIN alertEvents' : alertEvents'[e] = alertEvents[e]
    /\ alertGroups' = RemainingGroups(old)
    /\ \A task \in DOMAIN tasks' : tasks'[task] \in DOMAIN alertGroups'
    /\ UNCHANGED <<today, troubles>>

LEMMA PrunedEvents ==
    ASSUME NEW retention, Pruned(retention), UNCHANGED <<today, troubles>>
    PROVE  EventsPruned(OldEvents(retention))
<1>1. PICK old : old = OldEvents(retention)
  OBVIOUS
<1>2. /\ alertEvents' = Restrict(alertEvents, DOMAIN alertEvents \ old)
      /\ alertGroups' = RemainingGroups(old)
      /\ tasks' = [task \in {t \in DOMAIN tasks : tasks[t] \in DOMAIN RemainingGroups(old)}
                        |-> tasks[task]]
  BY <1>1, Zenon DEF Pruned
<1>3. old \subseteq DOMAIN alertEvents
  BY <1>1 DEF OldEvents
<1>4. /\ DOMAIN alertEvents' = DOMAIN alertEvents \ old
      /\ \A e \in DOMAIN alertEvents' : alertEvents'[e] = alertEvents[e]
  BY <1>2 DEF Restrict
<1>5. \A task \in DOMAIN tasks' : tasks'[task] \in DOMAIN alertGroups'
  BY <1>2
<1> QED BY <1>1, <1>2, <1>3, <1>4, <1>5 DEF EventsPruned

LEMMA EventsAfterPruning ==
    ASSUME HandlersAreReal, AlertsAreReal, NEW old, EventsPruned(old)
    PROVE  /\ IsFiniteSet(DOMAIN alertEvents')
           /\ \A g : EventsOf(g)' = EventsOf(g) \ old /\ DaysLeft(g, {})' = DaysLeft(g, old)
           /\ \A g : IsFiniteSet(EventsOf(g)) /\ DaysLeft(g, old) \subseteq 0 .. today
<1>1. IsFiniteSet(DOMAIN alertEvents) /\ \A e \in DOMAIN alertEvents : EventIsReal(e)
  BY DEF AlertsAreReal
<1>2. IsFiniteSet(DOMAIN alertEvents')
  <2>1. DOMAIN alertEvents' \subseteq DOMAIN alertEvents
    BY DEF EventsPruned
  <2> QED BY <1>1, <2>1, FS_Subset
<1>3. ASSUME NEW g
      PROVE  EventsOf(g)' = EventsOf(g) \ old /\ DaysLeft(g, {})' = DaysLeft(g, old)
  <2>1. EventsOf(g)' = EventsOf(g) \ old
    BY DEF EventsOf, EventsPruned
  <2>2. \A e \in EventsOf(g) \ old : alertEvents'[e].day = alertEvents[e].day
    BY DEF EventsOf, EventsPruned
  <2> QED BY <2>1, <2>2 DEF DaysLeft
<1>4. ASSUME NEW g
      PROVE  IsFiniteSet(EventsOf(g)) /\ DaysLeft(g, old) \subseteq 0 .. today
  <2>1. EventsOf(g) \subseteq DOMAIN alertEvents
    BY DEF EventsOf
  <2>2. \A e \in EventsOf(g) \ old : alertEvents[e].day \in 0 .. today
    BY <1>1, <2>1 DEF EventIsReal
  <2> QED BY <1>1, <2>1, <2>2, FS_Subset DEF DaysLeft
<1> QED BY <1>2, <1>3, <1>4

(* A group that stays has been left alone, or is counted anew.             *)
LEMMA GroupsAfterPruning ==
    ASSUME HandlersAreReal, AlertsAreReal, NEW old, EventsPruned(old)
    PROVE  /\ DOMAIN alertGroups' \subseteq DOMAIN alertGroups
           /\ \A e \in DOMAIN alertEvents' : alertEvents[e].group \in DOMAIN alertGroups'
           /\ \A g \in DOMAIN alertGroups' :
                 \/ alertGroups'[g] = alertGroups[g] /\ EventsOf(g) \cap old = {}
                 \/ /\ DaysLeft(g, old) # {}
                    /\ alertGroups'[g] = [alertGroups[g] EXCEPT
                           !.count = Cardinality(EventsOf(g) \ old),
                           !.first = Min(DaysLeft(g, old)),
                           !.last = Max(DaysLeft(g, old))]
<1> DEFINE affected == {alertEvents[e].group : e \in old}
           orphans == {g \in affected : DaysLeft(g, old) = {}}
           anew(g) == [alertGroups[g] EXCEPT
                           !.count = Cardinality(EventsOf(g) \ old),
                           !.first = Min(DaysLeft(g, old)),
                           !.last = Max(DaysLeft(g, old))]
<1>1. alertGroups' = [g \in DOMAIN alertGroups \ orphans |->
                         IF g \notin affected THEN alertGroups[g] ELSE anew(g)]
  BY Zenon DEF EventsPruned, RemainingGroups
<1>2. \A g : g \notin affected => EventsOf(g) \cap old = {}
  BY DEF EventsOf
<1>3. ASSUME NEW e \in DOMAIN alertEvents'
      PROVE  alertEvents[e].group \in DOMAIN alertGroups \ orphans
  <2>1. e \in DOMAIN alertEvents \ old /\ EventIsReal(e)
    BY DEF EventsPruned, AlertsAreReal
  <2>2. alertEvents[e].group \in DOMAIN alertGroups
    BY <2>1 DEF EventIsReal
  <2>3. alertEvents[e].day \in DaysLeft(alertEvents[e].group, old)
    BY <2>1 DEF DaysLeft, EventsOf
  <2> QED BY <2>2, <2>3
<1>4. \A g \in DOMAIN alertGroups \ orphans : g \in affected => DaysLeft(g, old) # {}
  OBVIOUS
<1> HIDE DEF affected, orphans, anew
<1>5. DOMAIN alertGroups' = DOMAIN alertGroups \ orphans
  BY <1>1
<1>6. \A g \in DOMAIN alertGroups \ orphans :
          alertGroups'[g] = IF g \notin affected THEN alertGroups[g] ELSE anew(g)
  BY <1>1
<1>7. \A g \in DOMAIN alertGroups' :
          \/ alertGroups'[g] = alertGroups[g] /\ EventsOf(g) \cap old = {}
          \/ DaysLeft(g, old) # {} /\ alertGroups'[g] = anew(g)
  BY <1>2, <1>4, <1>5, <1>6
<1> QED BY <1>3, <1>5, <1>7 DEF anew

LEMMA AlertsAfterPruning ==
    ASSUME HandlersAreReal, Onward, AlertsAreReal, NEW old, EventsPruned(old)
    PROVE  AlertsAreReal'
<1>1. today' = today /\ troubles' = troubles /\ today \in 0 .. MaxDay /\ MaxDay \in Nat
  BY ConstantTypes DEF EventsPruned, HandlersAreReal
<1>2. ASSUME NEW g \in DOMAIN alertGroups'
      PROVE  GroupIsReal(g)'
  <2>1. g \in DOMAIN alertGroups /\ GroupIsReal(g) /\ alertGroups[g] \in GroupRecord
    BY GroupsAfterPruning DEF AlertsAreReal, GroupIsReal
  <2>2. \A f \in DOMAIN alertGroups' : Key(f)' = Key(g)' => f = g
    BY <2>1, GroupsKept, GroupsAfterPruning DEF GroupIsReal
  <2>3. IsEventId(g)'
    BY <2>1, GroupsKept
  <2>4. EventsOf(g)' = EventsOf(g) \ old /\ DaysLeft(g, {})' = DaysLeft(g, old)
    BY EventsAfterPruning
  <2>5. CASE alertGroups'[g] = alertGroups[g] /\ EventsOf(g) \cap old = {}
    <3>1. EventsOf(g)' = EventsOf(g)
      BY <2>4, <2>5
    <3>2. DaysLeft(g, {})' = DaysLeft(g, {})
      BY <2>4, <2>5 DEF DaysLeft
    <3> QED BY <1>1, <2>1, <2>2, <2>3, <2>5, <3>1, <3>2 DEF GroupIsReal
  <2>6. CASE /\ DaysLeft(g, old) # {}
             /\ alertGroups'[g] = [alertGroups[g] EXCEPT
                           !.count = Cardinality(EventsOf(g) \ old),
                           !.first = Min(DaysLeft(g, old)),
                           !.last = Max(DaysLeft(g, old))]
    <3>1. PICK events, days, least, greatest, n :
              /\ events = EventsOf(g) \ old /\ days = DaysLeft(g, old)
              /\ least = Min(days) /\ greatest = Max(days) /\ n = Cardinality(events)
      OBVIOUS
    <3>2. days \subseteq 0 .. today /\ days # {} /\ today \in Nat
      BY <1>1, <2>6, <3>1, EventsAfterPruning
    <3>3. /\ least \in days /\ greatest \in days
          /\ \A day \in days : least <= day /\ day <= greatest
      BY <3>1, <3>2, LeastAndGreatest
    <3>4. /\ least \in 0 .. today /\ greatest \in 0 .. today /\ least <= greatest
          /\ days \subseteq least .. greatest
      BY <3>2, <3>3
    <3>5. IsFiniteSet(events) /\ n \in Nat /\ events # {}
      <4>1. IsFiniteSet(EventsOf(g))
        BY EventsAfterPruning
      <4>2. IsFiniteSet(events)
        BY <3>1, <4>1, FS_Subset
      <4>3. events # {}
        BY <3>1, <3>2 DEF DaysLeft
      <4> QED BY <3>1, <4>2, <4>3, FS_CardinalityType
    <3>6. n # 0
      BY <3>1, <3>5, FS_EmptySet
    <3>7. alertGroups'[g] = [alertGroups[g] EXCEPT !.count = n, !.first = least, !.last = greatest]
      BY <2>6, <3>1
    <3>8. /\ alertGroups'[g] \in GroupRecord /\ alertGroups'[g].count = n
          /\ alertGroups'[g].first = least /\ alertGroups'[g].last = greatest
      <4>1. PICK group : group = alertGroups[g]
        OBVIOUS
      <4>2. alertGroups'[g] = [group EXCEPT !.count = n, !.first = least, !.last = greatest]
        BY <3>7, <4>1
      <4>3. group \in GroupRecord /\ n \in Nat \ {0}
        BY <2>1, <3>5, <3>6, <4>1
      <4>4. least \in 0 .. MaxDay /\ greatest \in 0 .. MaxDay
        BY <1>1, <3>4
      <4> QED BY <4>2, <4>3, <4>4 DEF GroupRecord
    <3>9. Cardinality(EventsOf(g)') = n /\ DaysLeft(g, {})' = days
      BY <2>4, <3>1
    <3>10. /\ Cardinality(EventsOf(g)') <= alertGroups'[g].count
           /\ alertGroups'[g].count = Cardinality(EventsOf(g)')
           /\ DaysLeft(g, {})' \subseteq alertGroups'[g].first .. alertGroups'[g].last
           /\ {alertGroups'[g].first, alertGroups'[g].last} \subseteq DaysLeft(g, {})'
           /\ alertGroups'[g].first <= alertGroups'[g].last /\ alertGroups'[g].last <= today'
      <4>1. n <= n /\ greatest <= today'
        BY <1>1, <3>2, <3>4, <3>5
      <4>2. {least, greatest} \subseteq days
        BY <3>3
      <4> QED BY <3>4, <3>8, <3>9, <4>1, <4>2
    <3> QED BY <2>2, <2>3, <3>8, <3>10 DEF GroupIsReal
  <2> QED BY <2>5, <2>6, GroupsAfterPruning
<1>3. ASSUME NEW e \in DOMAIN alertEvents'
      PROVE  EventIsReal(e)'
  <2>1. /\ e \in DOMAIN alertEvents /\ alertEvents'[e] = alertEvents[e]
        /\ alertEvents[e].group \in DOMAIN alertGroups'
    BY GroupsAfterPruning DEF EventsPruned
  <2>2. /\ IsEventId(e)' /\ alertEvents[e].day \in 0 .. today'
        /\ alertEvents[e] = [group |-> alertEvents[e].group, day |-> alertEvents[e].day]
    BY <2>1, EventsKept
  <2>3. alertEvents[e] \in [group : DOMAIN alertGroups', day : 0 .. today']
    BY <2>1, <2>2
  <2> QED BY <2>1, <2>2, <2>3 DEF EventIsReal
<1>4. IsFiniteSet(DOMAIN alertEvents')
  BY EventsAfterPruning
<1> QED BY <1>2, <1>3, <1>4 DEF AlertsAreReal, EventsPruned

(* The first statement of a store, with or without the second.             *)
LEMMA StoredByHandler ==
    ASSUME HandlersAreReal, AlertsAreReal, NEW n \in DOMAIN handlers, IsOpen(n),
           alertGroups' = Upserted(EventId(<<n, handlers[n].k>>), ItemOf(<<n, handlers[n].k>>).owner)
    PROVE  \E g : /\ GrowsBy(<<n, EventAt(n)>>, g)
                  /\ GroupAfter(EventId(<<n, handlers[n].k>>), ItemOf(<<n, handlers[n].k>>).owner) = g
<1>1. PICK id, owner : id = EventId(<<n, handlers[n].k>>) /\ owner = ItemOf(<<n, handlers[n].k>>).owner
  OBVIOUS
<1>2. id = <<n, EventAt(n)>> /\ IsEventId(id)
  BY <1>1, OpenRow
<1>3. \E g : GrowsBy(id, g) /\ GroupAfter(id, owner) = g
  BY <1>1, <1>2, UpsertEffect
<1> QED BY <1>1, <1>2, <1>3

LEMMA AlertsAfterHandling ==
    ASSUME HandlersAreReal, Onward, AlertsAreReal, InProgress,
           NEW n \in DOMAIN handlers, Handle(n)
    PROVE  AlertsAreReal'
<1>1. IsOpen(n) /\ Progress(n) /\ today' = today
  BY DEF Handle, IsOpen, InProgress
<1>2. CASE StoreEvent(n)
  <2>1. PICK id, owner : id = EventId(<<n, handlers[n].k>>) /\ owner = ItemOf(<<n, handlers[n].k>>).owner
    OBVIOUS
  <2>2. /\ alertGroups' = Upserted(id, owner) /\ tasks' = tasks
        /\ alertEvents' = Inserted(alertEvents, id, [group |-> GroupAfter(id, owner), day |-> today])
        /\ handlers[n].step = "store"
    BY <1>2, <2>1, Zenon DEF StoreEvent
  <2>3. id = <<n, EventAt(n)>> /\ EventAt(n) \in Nat
    BY <1>1, <2>1, OpenRow
  <2>4. PICK g : GrowsBy(id, g) /\ GroupAfter(id, owner) = g
    BY <1>1, <2>1, <2>2, <2>3, StoredByHandler
  <2>5. id \notin DOMAIN alertEvents
    <3>1. \A e \in DOMAIN alertEvents : e[1] = n => e[2] < EventAt(n)
      BY <1>1, <2>2 DEF Progress
    <3> QED BY <2>3, <3>1
  <2>6. Stored(id, g)
    BY <1>1, <2>2, <2>4, <2>5 DEF Stored
  <2> QED BY <2>6, AlertsAfterStore
<1>3. CASE QueueDelivery(n)
  <2>1. UNCHANGED <<alertGroups, alertEvents>> /\ tasks' = tasks
    BY <1>3 DEF QueueDelivery
  <2> QED BY <2>1, AlertsAtRest DEF AlertsAreReal
<1>4. CASE QueueEscalation(n)
  <2>1. PICK row : row = <<n, handlers[n].k>>
    OBVIOUS
  <2>2. /\ tasks' = IF Escalates(row) THEN Inserted(tasks, row, alertEvents[EventId(row)].group)
                    ELSE tasks
        /\ UNCHANGED <<alertGroups, alertEvents>> /\ handlers[n].step = "escalate"
    BY <1>4, <2>1, Zenon DEF QueueEscalation
  <2>3. EventId(row) \in DOMAIN alertEvents
    BY <1>1, <2>1, <2>2, OpenRow DEF Progress
  <2>4. alertEvents[EventId(row)].group \in DOMAIN alertGroups
    BY <2>3, EventsKept
  <2>5. \A task \in DOMAIN tasks' : tasks'[task] \in DOMAIN alertGroups
    BY <2>2, <2>4 DEF Inserted, AlertsAreReal
  <2> QED BY <2>2, <2>5, AlertsAtRest
<1>5. CASE Fail(n)
  <2>1. /\ UNCHANGED alertGroups \/ HalfStored(n)
        /\ alertEvents' = alertEvents /\ tasks' = tasks /\ troubles' = troubles + 1
    BY <1>5 DEF Fail
  <2>2. CASE UNCHANGED alertGroups
    BY <2>1, <2>2, AlertsAtRest DEF AlertsAreReal
  <2>3. CASE HalfStored(n)
    <3>1. PICK g : GrowsBy(<<n, EventAt(n)>>, g)
      BY <1>1, <2>3, StoredByHandler DEF HalfStored
    <3>2. troubles' # 0
      BY <2>1, ConstantTypes DEF HandlersAreReal
    <3>3. Stored(<<n, EventAt(n)>>, g)
      BY <1>1, <2>1, <3>1, <3>2 DEF Stored
    <3> QED BY <3>3, AlertsAfterStore
  <2> QED BY <2>1, <2>2, <2>3
<1> QED BY <1>2, <1>3, <1>4, <1>5 DEF Handle

LEMMA AlertsAfterCrash ==
    ASSUME HandlersAreReal, Onward, AlertsAreReal, Crash
    PROVE  AlertsAreReal'
<1>1. /\ UNCHANGED alertGroups \/ \E n \in OpenHandlers : HalfStored(n)
      /\ alertEvents' = alertEvents /\ tasks' = tasks /\ troubles' = troubles + 1
      /\ today' = today
  BY DEF Crash
<1>2. CASE UNCHANGED alertGroups
  BY <1>1, <1>2, AlertsAtRest DEF AlertsAreReal
<1>3. CASE \E n \in OpenHandlers : HalfStored(n)
  <2>1. PICK n \in DOMAIN handlers : IsOpen(n) /\ HalfStored(n)
    BY <1>3 DEF OpenHandlers, IsOpen
  <2>2. PICK g : GrowsBy(<<n, EventAt(n)>>, g)
    BY <2>1, StoredByHandler DEF HalfStored
  <2>3. troubles' # 0
    BY <1>1, ConstantTypes DEF HandlersAreReal
  <2>4. Stored(<<n, EventAt(n)>>, g)
    BY <1>1, <2>2, <2>3 DEF Stored
  <2> QED BY <2>4, AlertsAfterStore
<1> QED BY <1>1, <1>2, <1>3

LEMMA AlertsStayReal ==
    ASSUME HandlersAreReal, AlertsAreReal, InProgress, [Next]_vars
    PROVE  AlertsAreReal'
<1>1. Onward
  BY EveryStepOnward
<1>2. ASSUME NEW retention, Pruned(retention), UNCHANGED <<today, troubles>>
      PROVE  AlertsAreReal'
  BY <1>1, <1>2, PrunedEvents, AlertsAfterPruning
<1>3. CASE \E c \in Accepted : Start(c)
  <2>1. PICK c : Pruned(Configs[c].storage.retention_days) /\ UNCHANGED <<handlers, today, troubles, sends>>
    BY <1>3, Zenon DEF Start
  <2> QED BY <1>2, <2>1
<1>4. CASE \/ \E r \in RequestNames : Receive(r)
           \/ Send \/ Tick \/ Quiet \/ UNCHANGED vars
  <2>1. UNCHANGED <<alertGroups, alertEvents>> /\ tasks' = tasks
    BY <1>4 DEF Receive, Send, Tick, Quiet, vars, storeVars
  <2> QED BY <1>1, <2>1, AlertsAtRest DEF AlertsAreReal
<1>5. CASE \E n \in DOMAIN handlers : Handle(n)
  BY <1>1, <1>5, AlertsAfterHandling
<1>6. CASE Prune
  <2>1. /\ Pruned(Configs[running].storage.retention_days)
        /\ UNCHANGED <<up, running, handlers, workers, today, troubles, sends>>
    BY <1>6, Zenon DEF Prune
  <2> QED BY <1>2, <2>1
<1>7. CASE Crash
  BY <1>1, <1>7, AlertsAfterCrash
<1> QED BY <1>3, <1>4, <1>5, <1>6, <1>7, Zenon DEF Next

----------------------------------------------------------------------------
(* The deliveries and the batches.                                         *)

Statuses == {"pending", "retrying", "succeeded", "dead_letter"}

LEMMA BatchFields ==
    ASSUME DeliveriesAreReal, NEW b \in DOMAIN batches
    PROVE  /\ b \in 1 .. lastBatch /\ lastBatch \in Nat
           /\ batches[b].members \in Seq(Ids) /\ batches[b].members # <<>>
           /\ IsList(batches[b].members)
           /\ DOMAIN batches[b].members = 1 .. Len(batches[b].members)
           /\ Range(batches[b].members) \subseteq Ids \cap DOMAIN rows
           /\ batches[b].count = Len(batches[b].members) /\ batches[b].count \in Nat
           /\ batches[b].status \in Statuses
<1>1. lastBatch \in Nat /\ BatchIsReal(b) /\ batches[b] \in BatchRecord(batches[b].key)
  BY DEF DeliveriesAreReal, BatchIsReal
<1>2. PICK s : s = batches[b].members
  OBVIOUS
<1>3. s \in Seq(Ids)
  BY <1>1, <1>2 DEF BatchRecord
<1>4. Len(s) \in Nat /\ s = [i \in 1 .. Len(s) |-> s[i]] /\ Range(s) \subseteq Ids
  BY <1>3 DEF Range
<1>5. IsList(s) /\ DOMAIN s = 1 .. Len(s)
  BY <1>4, ListOf
<1>6. batches[b].status \in Statuses
  BY <1>1 DEF BatchRecord, Statuses
<1> QED BY <1>1, <1>2, <1>3, <1>4, <1>5, <1>6 DEF BatchIsReal

(* No row and no event of a row goes, and the batches are left alone.      *)
LEMMA DeliveriesAtRest ==
    ASSUME HandlersAreReal, Onward, DeliveriesAreReal,
           UNCHANGED <<rows, batches, lastBatch>>, DOMAIN alertEvents \subseteq DOMAIN alertEvents'
    PROVE  DeliveriesAreReal'
<1>1. rows' = rows /\ batches' = batches /\ lastBatch' = lastBatch
  OBVIOUS
<1>2. ASSUME NEW row \in DOMAIN rows
      PROVE  RowIsReal(row)'
  <2>1. RowIsReal(row) /\ row[1] \in DOMAIN handlers
    BY DEF DeliveriesAreReal, RowIsReal, IsRow, IsEventId
  <2>2. IsRow(row)' /\ EventId(row)' = EventId(row)
    BY <2>1, NamesKept DEF Onward, RowIsReal
  <2> QED BY <1>1, <2>1, <2>2 DEF RowIsReal
<1>3. \A b \in DOMAIN batches : BatchIsReal(b)'
  BY <1>1 DEF DeliveriesAreReal, BatchIsReal
<1> QED BY <1>1, <1>2, <1>3 DEF DeliveriesAreReal

(* An attempt settles rows and batches, and adds and removes none.         *)
LEMMA DeliveriesAfterSend ==
    ASSUME HandlersAreReal, Onward, DeliveriesAreReal, Send
    PROVE  DeliveriesAreReal'
<1>1. UNCHANGED <<alertEvents, lastBatch>>
  BY DEF Send
<1>2. /\ DOMAIN rows' = DOMAIN rows
      /\ \A row \in DOMAIN rows :
            rows'[row] \in {rows[row], "queued", "succeeded", "dead_letter"}
      /\ DOMAIN batches' = DOMAIN batches
      /\ \A b \in DOMAIN batches :
            \E status \in Statuses : batches'[b] = [batches[b] EXCEPT !.status = status]
  <2>1. \A ids, batched :
            Verdicts(ids, batched) \subseteq {"succeeded", "dead_letter", "retrying"}
    BY DEF Verdicts, Verdict
  <2>2. ASSUME NEW b \in DOMAIN batches
        PROVE  batches[b] = [batches[b] EXCEPT !.status = batches[b].status]
    BY DEF DeliveriesAreReal, BatchIsReal, BatchRecord
  <2>3. CASE \E row \in workers : SendDelivery(row)
    <3>1. PICK one \in workers, verdict \in {"succeeded", "dead_letter"} :
              /\ rows' = IF one \in DOMAIN rows THEN [rows EXCEPT ![one] = verdict] ELSE rows
              /\ batches' = batches
      <4>1. PICK one \in workers : SendDelivery(one)
        BY <2>3
      <4>2. PICK verdict \in Verdicts(<<one>>, FALSE) \ {"retrying"} :
                rows' = IF one \in DOMAIN rows THEN [rows EXCEPT ![one] = verdict] ELSE rows
        BY <4>1, Zenon DEF SendDelivery
      <4>3. verdict \in {"succeeded", "dead_letter"}
        BY <2>1, <4>2
      <4>4. batches' = batches
        BY <4>1 DEF SendDelivery
      <4> QED BY <4>2, <4>3, <4>4
    <3>2. \A b \in DOMAIN batches : batches[b].status \in Statuses
      BY BatchFields
    <3> QED BY <2>2, <3>1, <3>2
  <2>4. CASE \E b \in DOMAIN batches : SendBatch(b)
    <3>1. PICK sent \in DOMAIN batches, verdict \in {"succeeded", "dead_letter", "retrying"} :
              /\ rows' = [row \in DOMAIN rows |->
                             IF row \in Range(batches[sent].members)
                             THEN RowAfter(verdict) ELSE rows[row]]
              /\ batches' = [batches EXCEPT ![sent].status = verdict]
      BY <2>1, <2>4 DEF SendBatch
    <3>2. \A b \in DOMAIN batches : batches[b].status \in Statuses
      BY BatchFields
    <3>3. RowAfter(verdict) \in {"queued", "succeeded", "dead_letter"}
      BY DEF RowAfter
    <3>4. verdict \in Statuses
      BY DEF Statuses
    <3>5. ASSUME NEW b \in DOMAIN batches
          PROVE  \E status \in Statuses : batches'[b] = [batches[b] EXCEPT !.status = status]
      <4>1. CASE b = sent
        BY <3>1, <3>4, <4>1
      <4>2. CASE b # sent
        <5>1. batches'[b] = batches[b]
          BY <3>1, <4>2
        <5> QED BY <2>2, <3>2, <5>1
      <4> QED BY <4>1, <4>2
    <3> QED BY <3>1, <3>3, <3>5
  <2> QED BY <2>3, <2>4 DEF Send
<1>3. ASSUME NEW row \in DOMAIN rows
      PROVE  RowIsReal(row)'
  <2>1. RowIsReal(row) /\ row[1] \in DOMAIN handlers
    BY DEF DeliveriesAreReal, RowIsReal, IsRow, IsEventId
  <2>2. IsRow(row)' /\ EventId(row)' = EventId(row)
    BY <2>1, NamesKept DEF Onward, RowIsReal
  <2> QED BY <1>1, <1>2, <2>1, <2>2 DEF RowIsReal
<1>4. ASSUME NEW b \in DOMAIN batches
      PROVE  /\ batches'[b] \in BatchRecord(batches'[b].key)
             /\ batches'[b].members = batches[b].members
             /\ batches'[b].count = batches[b].count
  <2>1. PICK status \in Statuses : batches'[b] = [batches[b] EXCEPT !.status = status]
    BY <1>2
  <2>2. batches[b] \in BatchRecord(batches[b].key)
    BY DEF DeliveriesAreReal, BatchIsReal
  <2> QED BY <2>1, <2>2 DEF BatchRecord, Statuses
<1>5. ASSUME NEW b \in DOMAIN batches
      PROVE  BatchIsReal(b)'
  <2>1. BatchIsReal(b)
    BY DEF DeliveriesAreReal
  <2> QED BY <1>1, <1>2, <1>4, <2>1 DEF BatchIsReal
<1> QED BY <1>1, <1>2, <1>3, <1>5 DEF DeliveriesAreReal

(* Old members go, a batch with the last of them.                          *)
LEMMA MembersAfterPruning ==
    ASSUME DeliveriesAreReal, NEW b \in DOMAIN batches, NEW old
    PROVE  /\ MembersLeft(b, old) \in Seq(Ids) /\ Len(MembersLeft(b, old)) \in Nat
           /\ Range(MembersLeft(b, old)) \subseteq Range(batches[b].members)
           /\ \A row \in Range(MembersLeft(b, old)) : EventId(row) \notin old
<1>1. PICK s, left : s = batches[b].members /\ left = MembersLeft(b, old)
  OBVIOUS
<1>2. IsList(s) /\ Range(s) \subseteq Ids
  BY <1>1, BatchFields
<1>3. PICK places : places = {i \in DOMAIN s : EventId(s[i]) \notin old}
  OBVIOUS
<1>4. places \subseteq DOMAIN s /\ left = Kept(s, places)
  BY <1>1, <1>3 DEF MembersLeft
<1>5. left \in Seq(Range(s)) /\ Range(left) = {s[i] : i \in places}
  BY <1>2, <1>4, KeptElements
<1>6. left \in Seq(Ids) /\ Len(left) \in Nat
  BY <1>2, <1>5
<1>7. Range(left) \subseteq Range(s)
  BY <1>4, <1>5 DEF Range
<1>8. \A row \in Range(left) : EventId(row) \notin old
  BY <1>3, <1>5
<1> QED BY <1>1, <1>6, <1>7, <1>8

LEMMA DeliveriesAfterPruning ==
    ASSUME HandlersAreReal, Onward, DeliveriesAreReal, NEW retention, Pruned(retention)
    PROVE  DeliveriesAreReal'
<1>1. PICK old : old = OldEvents(retention)
  OBVIOUS
<1>2. /\ alertEvents' = Restrict(alertEvents, DOMAIN alertEvents \ old)
      /\ rows' = [row \in {r \in DOMAIN rows : EventId(r) \notin old} |-> rows[row]]
      /\ batches' = RemainingBatches(old) /\ lastBatch' = lastBatch
  BY <1>1, Zenon DEF Pruned
<1>3. DOMAIN alertEvents' = DOMAIN alertEvents \ old
  BY <1>2 DEF Restrict
<1>4. /\ DOMAIN rows' = {r \in DOMAIN rows : EventId(r) \notin old}
      /\ \A row \in DOMAIN rows' : rows'[row] = rows[row]
  BY <1>2
<1>5. ASSUME NEW row \in DOMAIN rows'
      PROVE  RowIsReal(row)'
  <2>1. RowIsReal(row) /\ row[1] \in DOMAIN handlers /\ EventId(row) \notin old
    BY <1>4 DEF DeliveriesAreReal, RowIsReal, IsRow, IsEventId
  <2>2. IsRow(row)' /\ EventId(row)' = EventId(row)
    BY <2>1, NamesKept DEF Onward, RowIsReal
  <2> QED BY <1>3, <1>4, <2>1, <2>2 DEF RowIsReal
<1> DEFINE Left(b) == MembersLeft(b, old)
<1>6. /\ DOMAIN batches' = {b \in DOMAIN batches : Left(b) # <<>>}
      /\ \A b \in DOMAIN batches' :
            batches'[b] = [batches[b] EXCEPT
                  !.members = Left(b),
                  !.count = IF Left(b) = batches[b].members THEN @ ELSE Len(Left(b))]
  BY <1>2 DEF RemainingBatches
<1> HIDE DEF Left
<1>7. ASSUME NEW b \in DOMAIN batches'
      PROVE  /\ batches'[b] \in BatchRecord(batches'[b].key)
             /\ batches'[b].members = Left(b) /\ Left(b) # <<>>
             /\ batches'[b].count = Len(Left(b))
             /\ Range(Left(b)) \subseteq Range(batches[b].members)
             /\ Range(Left(b)) \subseteq DOMAIN rows'
  <2>1. /\ b \in DOMAIN batches /\ batches[b] \in BatchRecord(batches[b].key)
        /\ batches[b].count = Len(batches[b].members)
        /\ Range(batches[b].members) \subseteq DOMAIN rows
    BY <1>6 DEF DeliveriesAreReal, BatchIsReal
  <2>2. /\ Left(b) \in Seq(Ids) /\ Len(Left(b)) \in Nat
        /\ Range(Left(b)) \subseteq Range(batches[b].members)
        /\ \A row \in Range(Left(b)) : EventId(row) \notin old
    BY <2>1, MembersAfterPruning DEF Left
  <2>3. PICK batch, left, n :
            /\ batch = batches[b] /\ left = Left(b)
            /\ n = IF left = batch.members THEN batch.count ELSE Len(left)
    OBVIOUS
  <2>4. batches'[b] = [batch EXCEPT !.members = left, !.count = n]
    BY <1>6, <2>3
  <2>5. n = Len(left) /\ n \in Nat
    BY <2>1, <2>2, <2>3
  <2>6. batch \in BatchRecord(batch.key) /\ left \in Seq(Ids)
    BY <2>1, <2>2, <2>3
  <2>7. /\ batches'[b] \in BatchRecord(batches'[b].key)
        /\ batches'[b].members = left /\ batches'[b].count = n
    BY <2>4, <2>5, <2>6 DEF BatchRecord
  <2> QED BY <1>4, <1>6, <2>1, <2>2, <2>3, <2>5, <2>7
<1>8. ASSUME NEW b \in DOMAIN batches'
      PROVE  BatchIsReal(b)'
  <2>1. b \in DOMAIN batches /\ BatchIsReal(b) /\ DOMAIN batches' \subseteq DOMAIN batches
    BY <1>6 DEF DeliveriesAreReal
  <2>2. \A c \in DOMAIN batches' \ {b} :
            Range(batches'[b].members) \cap Range(batches'[c].members) = {}
    BY <1>7, <2>1 DEF BatchIsReal
  <2> QED BY <1>2, <1>7, <2>1, <2>2 DEF BatchIsReal
<1> QED BY <1>2, <1>5, <1>8 DEF DeliveriesAreReal

(* A batch with one member more.                                           *)
LEMMA BatchExtended ==
    ASSUME NEW batch, batch \in BatchRecord(batch.key), batch.count = Len(batch.members),
           NEW row \in Ids, NEW after,
           after = [batch EXCEPT !.members = Append(batch.members, row), !.count = batch.count + 1]
    PROVE  /\ after \in BatchRecord(after.key)
           /\ after.members # <<>> /\ after.count = Len(after.members)
           /\ after.status = batch.status
           /\ Range(after.members) = Range(batch.members) \cup {row}
<1>1. PICK s : s = batch.members
  OBVIOUS
<1>2. s \in Seq(Ids) /\ Len(s) \in Nat /\ batch.count = Len(s)
  BY <1>1 DEF BatchRecord
<1>3. PICK t : t = Append(s, row)
  OBVIOUS
<1>4. /\ t \in Seq(Ids) /\ t # <<>> /\ Len(t) = Len(s) + 1
      /\ DOMAIN t = 1 .. Len(s) + 1 /\ DOMAIN s = 1 .. Len(s)
      /\ \A i \in 1 .. Len(s) : t[i] = s[i]
      /\ t[Len(s) + 1] = row
  BY <1>2, <1>3
<1>5. Range(t) = Range(s) \cup {row}
  <2>1. \A x : x \in Range(t) <=> \E i \in 1 .. Len(s) + 1 : x = t[i]
    BY <1>4 DEF Range
  <2>2. \A x : x \in Range(s) <=> \E i \in 1 .. Len(s) : x = s[i]
    BY <1>4 DEF Range
  <2>3. \A i \in 1 .. Len(s) + 1 : i \in 1 .. Len(s) \/ i = Len(s) + 1
    BY <1>2
  <2>4. /\ \A i \in 1 .. Len(s) : i \in 1 .. Len(s) + 1
        /\ Len(s) + 1 \in 1 .. Len(s) + 1
    BY <1>2
  <2> QED BY <1>4, <2>1, <2>2, <2>3, <2>4
<1>6. /\ after = [batch EXCEPT !.members = t, !.count = Len(s) + 1]
      /\ Len(s) + 1 \in Nat
  BY <1>1, <1>2, <1>3
<1>7. /\ after \in BatchRecord(after.key) /\ after.members = t /\ after.count = Len(s) + 1
      /\ after.status = batch.status
  BY <1>4, <1>6 DEF BatchRecord
<1> QED BY <1>1, <1>4, <1>5, <1>7

(* The key of the batch a row is in.                                       *)
RowKey(row) == BatchKey(EventOf(EventId(row)), Delivery(row))

(* The row, which is new, joins the open batch b, or opens it.             *)
Joined(b, row) ==
    /\ DOMAIN batches' = DOMAIN batches \cup {b}
    /\ \A c \in DOMAIN batches \ {b} : batches'[c] = batches[c]
    /\ lastBatch' \in Nat /\ lastBatch <= lastBatch' /\ b \in 1 .. lastBatch'
    /\ batches'[b] \in BatchRecord(batches'[b].key)
    /\ batches'[b].members # <<>> /\ batches'[b].count = Len(batches'[b].members)
    /\ batches'[b].status = "pending"
    /\ batches'[b].key = RowKey(row) /\ (b \in DOMAIN batches => batches[b].key = RowKey(row))
    /\ Range(batches'[b].members) =
          (IF b \in DOMAIN batches THEN Range(batches[b].members) ELSE {}) \cup {row}

LEMMA JoinEffect ==
    ASSUME HandlersAreReal, DeliveriesAreReal, NEW row, IsRow(row), JoinBatch(row)
    PROVE  \E b : Joined(b, row)
<1>1. lastBatch \in Nat /\ row \in Ids
  BY DEF DeliveriesAreReal, IsRow, IsEventId
<1>2. PICK youngest : youngest = Max(OpenBatches(row) \cup {0})
  OBVIOUS
<1>3. youngest \in OpenBatches(row) \cup {0}
  <2>1. OpenBatches(row) \cup {0} \subseteq 0 .. lastBatch
    BY <1>1, BatchFields DEF OpenBatches
  <2> QED BY <1>1, <1>2, <2>1, LeastAndGreatest
<1>4. CASE youngest # 0 /\ Fits(batches[youngest], row)
  <2>1. /\ batches' = [batches EXCEPT ![youngest].members = Append(@, row),
                                     ![youngest].count = @ + 1]
        /\ UNCHANGED lastBatch
    BY <1>2, <1>4, Zenon DEF JoinBatch
  <2>2. /\ youngest \in DOMAIN batches /\ batches[youngest].status = "pending"
        /\ batches[youngest].key = RowKey(row)
    BY <1>3, <1>4 DEF OpenBatches, RowKey
  <2>3. /\ batches[youngest] \in BatchRecord(batches[youngest].key)
        /\ batches[youngest].count = Len(batches[youngest].members)
        /\ youngest \in 1 .. lastBatch
    BY <2>2 DEF DeliveriesAreReal, BatchIsReal
  <2>4. PICK after : after = [batches[youngest] EXCEPT
            !.members = Append(batches[youngest].members, row),
            !.count = batches[youngest].count + 1]
    OBVIOUS
  <2>5. /\ after \in BatchRecord(after.key)
        /\ after.members # <<>> /\ after.count = Len(after.members)
        /\ after.status = batches[youngest].status /\ after.key = batches[youngest].key
        /\ Range(after.members) = Range(batches[youngest].members) \cup {row}
    <3>1. PICK batch : batch = batches[youngest]
      OBVIOUS
    <3>2. /\ batch \in BatchRecord(batch.key) /\ batch.count = Len(batch.members)
          /\ after = [batch EXCEPT !.members = Append(batch.members, row),
                                  !.count = batch.count + 1]
      BY <2>3, <2>4, <3>1
    <3>3. /\ after \in BatchRecord(after.key)
          /\ after.members # <<>> /\ after.count = Len(after.members)
          /\ after.status = batch.status
          /\ Range(after.members) = Range(batch.members) \cup {row}
      BY <1>1, <3>2, BatchExtended
    <3>4. after.key = batch.key
      BY <3>2 DEF BatchRecord
    <3> QED BY <3>1, <3>3, <3>4
  <2>6. /\ DOMAIN batches' = DOMAIN batches \cup {youngest}
        /\ batches'[youngest] = after
        /\ \A c \in DOMAIN batches \ {youngest} : batches'[c] = batches[c]
    BY <2>1, <2>2, <2>4
  <2>7. lastBatch' \in Nat /\ lastBatch <= lastBatch' /\ youngest \in 1 .. lastBatch'
    BY <1>1, <2>1, <2>3
  <2>8. Joined(youngest, row)
    BY <2>2, <2>5, <2>6, <2>7 DEF Joined
  <2> QED BY <2>8
<1>5. CASE ~ (youngest # 0 /\ Fits(batches[youngest], row))
  <2>1. PICK b, new :
            /\ b = lastBatch + 1
            /\ new = [key |-> BatchKey(EventOf(EventId(row)), Delivery(row)),
                     members |-> <<row>>, count |-> 1, status |-> "pending"]
    OBVIOUS
  <2>2. batches' = Inserted(batches, b, new) /\ lastBatch' = b
    BY <1>2, <1>5, <2>1, Zenon DEF JoinBatch
  <2>3. b \notin DOMAIN batches
    BY <1>1, <2>1, BatchFields
  <2>4. /\ DOMAIN batches' = DOMAIN batches \cup {b}
        /\ batches'[b] = new
        /\ \A c \in DOMAIN batches \ {b} : batches'[c] = batches[c]
    BY <2>2 DEF Inserted
  <2>5. /\ new \in BatchRecord(new.key)
        /\ new.members # <<>> /\ new.count = Len(new.members)
        /\ new.status = "pending" /\ Range(new.members) = {row} /\ new.key = RowKey(row)
    <3>1. PICK s : s = <<row>>
      OBVIOUS
    <3>2. s \in Seq(Ids) /\ s # <<>> /\ Len(s) = 1 /\ Range(s) = {row}
      BY <1>1, <3>1 DEF Range
    <3>3. new = [key |-> BatchKey(EventOf(EventId(row)), Delivery(row)),
                 members |-> s, count |-> 1, status |-> "pending"]
      BY <2>1, <3>1
    <3> QED BY <3>2, <3>3 DEF BatchRecord, RowKey
  <2>6. lastBatch' \in Nat /\ lastBatch <= lastBatch' /\ b \in 1 .. lastBatch'
    BY <1>1, <2>1, <2>2
  <2>7. Joined(b, row)
    BY <2>3, <2>4, <2>5, <2>6 DEF Joined
  <2> QED BY <2>7
<1> QED BY <1>4, <1>5

LEMMA BatchesAfterJoin ==
    ASSUME DeliveriesAreReal, NEW row, row \notin DOMAIN rows, NEW b, Joined(b, row),
           DOMAIN rows' = DOMAIN rows \cup {row}
    PROVE  lastBatch' \in Nat /\ \A c \in DOMAIN batches' : BatchIsReal(c)'
<1>1. /\ DOMAIN batches' = DOMAIN batches \cup {b}
      /\ \A c \in DOMAIN batches \ {b} : batches'[c] = batches[c]
      /\ lastBatch' \in Nat /\ lastBatch <= lastBatch' /\ b \in 1 .. lastBatch'
      /\ batches'[b] \in BatchRecord(batches'[b].key)
      /\ batches'[b].members # <<>> /\ batches'[b].count = Len(batches'[b].members)
      /\ Range(batches'[b].members) =
            (IF b \in DOMAIN batches THEN Range(batches[b].members) ELSE {}) \cup {row}
  BY DEF Joined
<1>2. \A c \in DOMAIN batches :
        /\ BatchIsReal(c) /\ Range(batches[c].members) \subseteq DOMAIN rows
        /\ c \in 1 .. lastBatch'
  <2>1. lastBatch \in Nat
    BY DEF DeliveriesAreReal
  <2>2. \A c \in DOMAIN batches :
            BatchIsReal(c) /\ Range(batches[c].members) \subseteq DOMAIN rows
    BY DEF DeliveriesAreReal, BatchIsReal
  <2>3. \A c \in DOMAIN batches : c \in 1 .. lastBatch
    BY DEF DeliveriesAreReal, BatchIsReal
  <2>4. lastBatch' \in Nat /\ lastBatch <= lastBatch'
    BY <1>1
  <2>5. \A c \in 1 .. lastBatch : c \in 1 .. lastBatch'
    BY <2>1, <2>4
  <2> QED BY <2>2, <2>3, <2>5
<1>3. ASSUME NEW c \in DOMAIN batches, c # b
      PROVE  Range(batches'[b].members) \cap Range(batches'[c].members) = {}
  <2>1. row \notin Range(batches[c].members) /\ batches'[c] = batches[c]
    BY <1>1, <1>2, <1>3
  <2>2. b \in DOMAIN batches => Range(batches[b].members) \cap Range(batches[c].members) = {}
    BY <1>2, <1>3 DEF BatchIsReal
  <2> QED BY <1>1, <2>1, <2>2
<1>4. BatchIsReal(b)'
  <2>1. Range(batches'[b].members) \subseteq DOMAIN rows'
    BY <1>1, <1>2
  <2> QED BY <1>1, <1>3, <2>1 DEF BatchIsReal
<1>5. ASSUME NEW c \in DOMAIN batches, c # b
      PROVE  BatchIsReal(c)'
  <2>1. BatchIsReal(c) /\ batches'[c] = batches[c]
    BY <1>1, <1>2, <1>5
  <2>2. \A d \in DOMAIN batches' \ {c} :
            Range(batches'[c].members) \cap Range(batches'[d].members) = {}
    BY <1>1, <1>3, <1>5, <2>1 DEF BatchIsReal
  <2> QED BY <1>2, <2>1, <2>2 DEF BatchIsReal
<1> QED BY <1>1, <1>4, <1>5

LEMMA DeliveriesAfterHandling ==
    ASSUME HandlersAreReal, Onward, DeliveriesAreReal, InProgress,
           NEW n \in DOMAIN handlers, Handle(n)
    PROVE  DeliveriesAreReal'
<1>1. IsOpen(n) /\ Progress(n)
  BY DEF Handle, IsOpen, InProgress
<1>2. CASE StoreEvent(n)
  <2>1. UNCHANGED <<rows, batches, lastBatch>>
    BY <1>2 DEF StoreEvent
  <2>2. DOMAIN alertEvents \subseteq DOMAIN alertEvents'
    BY <1>2 DEF StoreEvent, Inserted
  <2> QED BY <2>1, <2>2, DeliveriesAtRest
<1>3. CASE QueueDelivery(n)
  <2>1. PICK row : row = <<n, handlers[n].k>>
    OBVIOUS
  <2>2. /\ rows' = Inserted(rows, row, "queued") /\ handlers[n].step = "queue"
        /\ IF IsBatched(row) THEN JoinBatch(row) ELSE UNCHANGED <<batches, lastBatch>>
        /\ alertEvents' = alertEvents
    BY <1>3, <2>1, Zenon DEF QueueDelivery
  <2>3. IsRow(row) /\ EventId(row) \in DOMAIN alertEvents /\ row[1] \in DOMAIN handlers
    BY <1>1, <2>1, <2>2, OpenRow DEF Progress
  <2>4. row \notin DOMAIN rows
    <3>1. \A r \in DOMAIN rows : r[1] = n => r[2] < handlers[n].k
      BY <1>1, <2>2 DEF Progress
    <3>2. handlers[n].k \in Nat
      BY HandlerFields, WorkIsOrdered
    <3> QED BY <2>1, <3>1, <3>2
  <2>5. /\ DOMAIN rows' = DOMAIN rows \cup {row} /\ rows'[row] = "queued"
        /\ \A r \in DOMAIN rows : rows'[r] = rows[r]
    BY <2>2, <2>4 DEF Inserted
  <2>6. ASSUME NEW r \in DOMAIN rows'
        PROVE  RowIsReal(r)'
    <3>1. /\ IsRow(r) /\ r[1] \in DOMAIN handlers /\ EventId(r) \in DOMAIN alertEvents
          /\ rows'[r] \in {"queued", "succeeded", "dead_letter"}
      BY <2>3, <2>5 DEF DeliveriesAreReal, RowIsReal, IsRow, IsEventId
    <3>2. IsRow(r)' /\ EventId(r)' = EventId(r)
      BY <3>1, NamesKept DEF Onward
    <3> QED BY <2>2, <3>1, <3>2 DEF RowIsReal
  <2>7. lastBatch' \in Nat /\ \A b \in DOMAIN batches' : BatchIsReal(b)'
    <3>1. CASE IsBatched(row)
      <4>1. PICK b : Joined(b, row)
        BY <2>2, <2>3, <3>1, JoinEffect
      <4> QED BY <2>4, <2>5, <4>1, BatchesAfterJoin
    <3>2. CASE ~ IsBatched(row)
      <4>1. batches' = batches /\ lastBatch' = lastBatch
        BY <2>2, <3>2
      <4> QED BY <2>5, <4>1 DEF DeliveriesAreReal, BatchIsReal
    <3> QED BY <3>1, <3>2
  <2> QED BY <2>6, <2>7 DEF DeliveriesAreReal
<1>4. CASE QueueEscalation(n) \/ Fail(n)
  <2>1. UNCHANGED <<alertEvents, rows, batches, lastBatch>>
    BY <1>4 DEF QueueEscalation, Fail
  <2> QED BY <2>1, DeliveriesAtRest
<1> QED BY <1>2, <1>3, <1>4 DEF Handle

LEMMA DeliveriesStayReal ==
    ASSUME HandlersAreReal, DeliveriesAreReal, InProgress, [Next]_vars
    PROVE  DeliveriesAreReal'
<1>1. Onward
  BY EveryStepOnward
<1>2. CASE \E c \in Accepted : Start(c)
  <2>1. PICK c : Pruned(Configs[c].storage.retention_days)
    BY <1>2, Zenon DEF Start
  <2> QED BY <1>1, <2>1, DeliveriesAfterPruning
<1>3. CASE Prune
  <2>1. Pruned(Configs[running].storage.retention_days)
    BY <1>3, Zenon DEF Prune
  <2> QED BY <1>1, <2>1, DeliveriesAfterPruning
<1>4. CASE \/ \E r \in RequestNames : Receive(r)
           \/ Tick \/ Crash \/ Quiet \/ UNCHANGED vars
  <2>1. UNCHANGED <<alertEvents, rows, batches, lastBatch>>
    BY <1>4 DEF Receive, Tick, Crash, Quiet, vars, storeVars
  <2> QED BY <1>1, <2>1, DeliveriesAtRest
<1>5. CASE \E n \in DOMAIN handlers : Handle(n)
  BY <1>1, <1>5, DeliveriesAfterHandling
<1>6. CASE Send
  BY <1>1, <1>6, DeliveriesAfterSend
<1> QED BY <1>2, <1>3, <1>4, <1>5, <1>6, Zenon DEF Next

----------------------------------------------------------------------------
(* How far the handlers have come.                                         *)

(* A handler that is left alone, and loses neither the event it is at.     *)
LeftAlone(m) ==
    /\ handlers'[m] = handlers[m] /\ today' = today
    /\ \A e \in DOMAIN alertEvents' \ DOMAIN alertEvents : e[1] # m
    /\ \A e \in DOMAIN alertEvents :
          alertEvents[e].day = today =>
              e \in DOMAIN alertEvents' /\ alertEvents'[e] = alertEvents[e]
    /\ \A row \in DOMAIN rows' \ DOMAIN rows : row[1] # m

LEMMA ProgressKept ==
    ASSUME NEW m, Progress(m), LeftAlone(m)
    PROVE  Progress(m)'
<1>1. EventAt(m)' = EventAt(m) /\ handlers'[m] = handlers[m] /\ today' = today
  BY DEF EventAt, LeftAlone
<1>2. \A e \in DOMAIN alertEvents' :
          e[1] = m => IF handlers[m].step = "store" THEN e[2] < EventAt(m) ELSE e[2] <= EventAt(m)
  BY DEF Progress, LeftAlone
<1>3. handlers[m].step # "store" =>
          /\ <<m, EventAt(m)>> \in DOMAIN alertEvents'
          /\ alertEvents'[<<m, EventAt(m)>>].day = today
  <2>1. PICK e : e = <<m, EventAt(m)>>
    OBVIOUS
  <2>2. handlers[m].step # "store" => e \in DOMAIN alertEvents /\ alertEvents[e].day = today
    BY <2>1 DEF Progress
  <2> QED BY <2>1, <2>2 DEF LeftAlone
<1>4. \A row \in DOMAIN rows' :
          row[1] = m => IF handlers[m].step = "escalate" THEN row[2] <= handlers[m].k
                        ELSE row[2] < handlers[m].k
  BY DEF Progress, LeftAlone
<1> QED BY <1>1, <1>2, <1>3, <1>4 DEF Progress

(* Events and rows are left alone but for the retention.                   *)
LEMMA OthersKept ==
    ASSUME InProgress, UNCHANGED <<handlers, today>>,
           DOMAIN alertEvents' \subseteq DOMAIN alertEvents,
           DOMAIN rows' \subseteq DOMAIN rows,
           \A e \in DOMAIN alertEvents :
               alertEvents[e].day = today =>
                   e \in DOMAIN alertEvents' /\ alertEvents'[e] = alertEvents[e]
    PROVE  InProgress'
<1>1. handlers' = handlers /\ today' = today
  OBVIOUS
<1>2. ASSUME NEW m \in DOMAIN handlers, IsOpen(m)
      PROVE  Progress(m)'
  BY <1>1, <1>2, ProgressKept DEF InProgress, LeftAlone
<1> QED BY <1>1, <1>2 DEF InProgress, IsOpen

LEMMA ProgressAfterArrival ==
    ASSUME HandlersAreReal, AlertsAreReal, DeliveriesAreReal, InProgress,
           NEW h, Arrives(h), UNCHANGED <<alertEvents, rows>>
    PROVE  InProgress'
<1>1. PICK new : new = Len(handlers) + 1
  OBVIOUS
<1>2. /\ \A m \in DOMAIN handlers : handlers'[m] = handlers[m]
      /\ DOMAIN handlers' = DOMAIN handlers \cup {new}
      /\ new \notin DOMAIN handlers /\ handlers'[new] = h
  BY <1>1, HandlersAfterArrival
<1>3. alertEvents' = alertEvents /\ rows' = rows /\ today' = today
  BY DEF Arrives
<1>4. ASSUME NEW m \in DOMAIN handlers, IsOpen(m)
      PROVE  Progress(m)'
  <2>1. LeftAlone(m)
    BY <1>2, <1>3 DEF LeftAlone
  <2> QED BY <1>4, <2>1, ProgressKept DEF InProgress
<1>5. h.code = Open => h.step = "store"
  BY DEF Arrives
<1>6. /\ \A e \in DOMAIN alertEvents : e[1] # new
      /\ \A row \in DOMAIN rows : row[1] # new
  BY <1>2 DEF AlertsAreReal, EventIsReal, IsEventId, DeliveriesAreReal, RowIsReal, IsRow
<1>7. IsOpen(new)' => Progress(new)'
  BY <1>2, <1>3, <1>5, <1>6 DEF IsOpen, Progress
<1>8. \A m \in DOMAIN handlers : IsOpen(m)' => IsOpen(m)
  BY <1>2 DEF IsOpen
<1> QED BY <1>2, <1>4, <1>7, <1>8 DEF InProgress

(* The handler that comes to its next item has queued the last one.        *)
LEMMA ProgressAdvanced ==
    ASSUME HandlersAreReal, NEW n \in DOMAIN handlers, IsOpen(n), Progress(n),
           handlers[n].step # "store", Advanced(handlers'[n], handlers[n]),
           UNCHANGED <<alertEvents, today>>,
           \A row \in DOMAIN rows' : row[1] = n => row[2] <= handlers[n].k,
           DeliveriesAreReal', AlertsAreReal
    PROVE  IsOpen(n)' => Progress(n)'
<1>1. PICK h, new, k : h = handlers[n] /\ new = handlers'[n] /\ k = h.k
  OBVIOUS
<1>2. /\ h \in HandlerRecord /\ Ordered(h.work) /\ Len(h.work) \in Nat /\ h.code = Open
      /\ k \in 1 .. Len(h.work)
  BY <1>1, HandlerFields DEF HandlersAreReal, IsOpen
<1>3. /\ Advanced(new, h) /\ new.work = h.work /\ new.k = k + 1
  BY <1>1 DEF Advanced, SameRequest
<1>4. SUFFICES ASSUME new.code = Open PROVE Progress(n)'
  BY <1>1 DEF IsOpen
<1>5. /\ k + 1 \in 1 .. Len(h.work)
      /\ new.step = IF h.work[k + 1].event # h.work[k].event THEN "store" ELSE "queue"
  BY <1>1, <1>2, <1>3, <1>4, ConstantTypes DEF Advanced
<1>6. /\ h.work[k].event \in Nat /\ h.work[k + 1].event \in Nat
      /\ h.work[k].event <= h.work[k + 1].event
  BY <1>2, <1>5 DEF Ordered
<1>7. EventAt(n) = h.work[k].event /\ EventAt(n)' = h.work[k + 1].event
  BY <1>1, <1>3 DEF EventAt
<1>8. \A e \in DOMAIN alertEvents : e[1] = n => e[2] \in Nat /\ e[2] <= h.work[k].event
  <2>1. \A e \in DOMAIN alertEvents : e[1] = n => e[2] <= EventAt(n)
    BY DEF Progress
  <2>2. \A e \in DOMAIN alertEvents : e[2] \in Nat
    BY DEF AlertsAreReal, EventIsReal, IsEventId, Ids
  <2> QED BY <1>7, <2>1, <2>2
<1>9. \A e \in DOMAIN alertEvents :
          e[1] = n => IF new.step = "store" THEN e[2] < h.work[k + 1].event
                      ELSE e[2] <= h.work[k + 1].event
  BY <1>5, <1>6, <1>8
<1>10. new.step # "store" =>
          /\ <<n, h.work[k + 1].event>> \in DOMAIN alertEvents
          /\ alertEvents[<<n, h.work[k + 1].event>>].day = today
  <2>1. new.step # "store" => h.work[k + 1].event = h.work[k].event
    BY <1>5
  <2> QED BY <1>7, <2>1 DEF Progress
<1>11. \A row \in DOMAIN rows' : row[1] = n => row[2] < k + 1
  <2>1. \A row \in DOMAIN rows' : row[2] \in Nat
    BY DEF DeliveriesAreReal, RowIsReal, IsRow, IsEventId, Ids
  <2> QED BY <1>1, <1>2, <2>1
<1>12. new.step # "escalate"
  BY <1>5
<1>13. alertEvents' = alertEvents /\ today' = today /\ handlers'[n] = new
  BY <1>1
<1> QED BY <1>3, <1>7, <1>9, <1>10, <1>11, <1>12, <1>13 DEF Progress

LEMMA ProgressOfHandler ==
    ASSUME HandlersAreReal, AlertsAreReal, InProgress, DeliveriesAreReal, DeliveriesAreReal',
           NEW n \in DOMAIN handlers, Handle(n)
    PROVE  IsOpen(n)' => Progress(n)'
<1>1. IsOpen(n) /\ Progress(n) /\ today' = today
  BY DEF Handle, IsOpen, InProgress
<1>2. /\ IsEventId(<<n, EventAt(n)>>) /\ EventAt(n) \in Nat
      /\ EventId(<<n, handlers[n].k>>) = <<n, EventAt(n)>>
      /\ handlers[n].k \in Nat
  BY <1>1, OpenRow, HandlerFields, WorkIsOrdered
<1>3. CASE StoreEvent(n)
  <2>1. PICK g : /\ alertEvents' = Inserted(alertEvents, <<n, EventAt(n)>>, [group |-> g, day |-> today])
                 /\ rows' = rows
    BY <1>2, <1>3 DEF StoreEvent
  <2>2. handlers' = [handlers EXCEPT ![n].step = "queue"] /\ handlers[n].step = "store"
    BY <1>3 DEF StoreEvent
  <2>3. /\ handlers'[n].k = handlers[n].k /\ handlers'[n].step = "queue"
        /\ handlers'[n].work = handlers[n].work
    BY <2>2, StepGiven DEF SameRequest
  <2>4. EventAt(n)' = EventAt(n)
    BY <2>3 DEF EventAt
  <2>5. /\ DOMAIN alertEvents' = DOMAIN alertEvents \cup {<<n, EventAt(n)>>}
        /\ alertEvents'[<<n, EventAt(n)>>].day = today
    BY <2>1 DEF Inserted
  <2>6. \A e \in DOMAIN alertEvents' : e[1] = n => e[2] <= EventAt(n)
    <3>1. \A e \in DOMAIN alertEvents : e[1] = n => e[2] < EventAt(n) /\ e[2] \in Nat
      BY <1>1, <2>2 DEF Progress, AlertsAreReal, EventIsReal, IsEventId, Ids
    <3> QED BY <1>2, <2>5, <3>1
  <2>7. \A row \in DOMAIN rows' : row[1] = n => row[2] < handlers[n].k
    BY <1>1, <2>1, <2>2 DEF Progress
  <2> QED BY <1>1, <2>3, <2>4, <2>5, <2>6, <2>7 DEF Progress
<1>4. CASE QueueDelivery(n)
  <2>1. /\ rows' = Inserted(rows, <<n, handlers[n].k>>, "queued") /\ handlers[n].step = "queue"
        /\ alertEvents' = alertEvents
    BY <1>4, Zenon DEF QueueDelivery
  <2>2. \A row \in DOMAIN rows' : row[1] = n => row[2] <= handlers[n].k
    <3>1. \A row \in DOMAIN rows : row[1] = n => row[2] < handlers[n].k /\ row[2] \in Nat
      BY <1>1, <2>1 DEF Progress, DeliveriesAreReal, RowIsReal, IsRow, IsEventId, Ids
    <3>2. DOMAIN rows' = DOMAIN rows \cup {<<n, handlers[n].k>>}
      BY <2>1 DEF Inserted
    <3> QED BY <1>2, <3>1, <3>2
  <2>3. CASE handlers' = [handlers EXCEPT ![n].step = "escalate"]
    <3>1. /\ handlers'[n].k = handlers[n].k /\ handlers'[n].step = "escalate"
          /\ handlers'[n].work = handlers[n].work
      BY <2>3, StepGiven DEF SameRequest
    <3>2. EventAt(n)' = EventAt(n)
      BY <3>1 DEF EventAt
    <3> QED BY <1>1, <2>1, <2>2, <3>1, <3>2 DEF Progress
  <2>4. CASE handlers' = [handlers EXCEPT ![n] = At(@, @.k + 1)]
    <3>1. Advanced(handlers'[n], handlers[n])
      BY <2>4, ItemGiven
    <3> QED BY <1>1, <2>1, <2>2, <3>1, ProgressAdvanced
  <2> QED BY <1>4, <2>3, <2>4 DEF QueueDelivery, NextItem
<1>5. CASE QueueEscalation(n)
  <2>1. /\ handlers' = [handlers EXCEPT ![n] = At(@, @.k + 1)] /\ handlers[n].step = "escalate"
        /\ alertEvents' = alertEvents /\ rows' = rows
    BY <1>5 DEF QueueEscalation, NextItem
  <2>2. Advanced(handlers'[n], handlers[n])
    BY <2>1, ItemGiven
  <2>3. \A row \in DOMAIN rows' : row[1] = n => row[2] <= handlers[n].k
    BY <1>1, <2>1 DEF Progress
  <2> QED BY <1>1, <2>1, <2>2, <2>3, ProgressAdvanced
<1>6. CASE Fail(n)
  <2>1. handlers' = [handlers EXCEPT ![n].code = 500]
    BY <1>6 DEF Fail
  <2>2. handlers'[n].code = 500
    BY <2>1, CodeGiven
  <2> QED BY <2>2, ConstantTypes DEF IsOpen
<1> QED BY <1>3, <1>4, <1>5, <1>6 DEF Handle

LEMMA ProgressAfterHandling ==
    ASSUME HandlersAreReal, AlertsAreReal, InProgress, DeliveriesAreReal, DeliveriesAreReal',
           NEW n \in DOMAIN handlers, Handle(n)
    PROVE  InProgress'
<1>1. Handling(n)
  BY HandleEffect
<1>2. /\ DOMAIN handlers' = DOMAIN handlers /\ today' = today /\ IsOpen(n)
      /\ \A m \in DOMAIN handlers \ {n} : handlers'[m] = handlers[m]
  BY <1>1 DEF Handling, OnlyHandler
<1>3. /\ \A e \in DOMAIN alertEvents :
            e \in DOMAIN alertEvents' /\ (e[1] # n => alertEvents'[e] = alertEvents[e])
      /\ \A e \in DOMAIN alertEvents' \ DOMAIN alertEvents : e[1] = n
  <2>1. CASE StoreEvent(n)
    <3>1. PICK g : alertEvents' = Inserted(alertEvents, <<n, EventAt(n)>>, [group |-> g, day |-> today])
      BY <1>2, <2>1, OpenRow DEF StoreEvent
    <3> QED BY <3>1 DEF Inserted
  <2>2. CASE QueueDelivery(n) \/ QueueEscalation(n) \/ Fail(n)
    BY <2>2 DEF QueueDelivery, QueueEscalation, Fail
  <2> QED BY <2>1, <2>2 DEF Handle
<1>4. ASSUME NEW m \in DOMAIN handlers, m # n, IsOpen(m)
      PROVE  Progress(m)'
  <2>1. \A e \in DOMAIN alertEvents' \ DOMAIN alertEvents : e[1] = n
    BY <1>3
  <2>2. \A row \in DOMAIN rows' \ DOMAIN rows : row[1] = n
    BY DEF Handle, StoreEvent, QueueDelivery, QueueEscalation, Fail, Inserted
  <2>3. EventAt(m)' = EventAt(m) /\ handlers'[m] = handlers[m]
    BY <1>2, <1>4 DEF EventAt
  <2>4. Progress(m)
    BY <1>4 DEF InProgress
  <2>5. \A e \in DOMAIN alertEvents' :
          e[1] = m => IF handlers[m].step = "store" THEN e[2] < EventAt(m) ELSE e[2] <= EventAt(m)
    BY <1>4, <2>1, <2>4 DEF Progress
  <2>6. handlers[m].step # "store" =>
            /\ <<m, EventAt(m)>> \in DOMAIN alertEvents'
            /\ alertEvents'[<<m, EventAt(m)>>].day = today
    <3>1. PICK e : e = <<m, EventAt(m)>>
      OBVIOUS
    <3>2. e[1] # n
      BY <1>4, <3>1
    <3>3. handlers[m].step # "store" => e \in DOMAIN alertEvents /\ alertEvents[e].day = today
      BY <2>4, <3>1 DEF Progress
    <3> QED BY <1>3, <3>1, <3>2, <3>3
  <2>7. \A row \in DOMAIN rows' :
          row[1] = m => IF handlers[m].step = "escalate" THEN row[2] <= handlers[m].k
                        ELSE row[2] < handlers[m].k
    BY <1>4, <2>2, <2>4 DEF Progress
  <2> QED BY <1>2, <2>3, <2>5, <2>6, <2>7 DEF Progress
<1>5. IsOpen(n)' => Progress(n)'
  BY ProgressOfHandler
<1>6. \A m \in DOMAIN handlers \ {n} : IsOpen(m)' => IsOpen(m)
  BY <1>2 DEF IsOpen
<1> QED BY <1>2, <1>4, <1>5, <1>6 DEF InProgress

LEMMA ProgressContinues ==
    ASSUME HandlersAreReal, AlertsAreReal, DeliveriesAreReal, InProgress, [Next]_vars
    PROVE  InProgress'
<1>1. DeliveriesAreReal'
  BY DeliveriesStayReal
<1>2. CASE (\E c \in Accepted : Start(c)) \/ Tick
  <2>1. handlers' = handlers /\ \A m \in DOMAIN handlers : ~ IsOpen(m)
    BY <1>2 DEF Start, Tick, HandlersAreReal, OpenHandlers, IsOpen
  <2> QED BY <2>1 DEF InProgress, IsOpen
<1>3. CASE \E r \in RequestNames : Receive(r)
  <2>1. PICK h : Arrives(h)
    BY <1>3, ReceiveEffect
  <2>2. UNCHANGED <<alertEvents, rows>>
    BY <1>3 DEF Receive, storeVars
  <2> QED BY <2>1, <2>2, ProgressAfterArrival
<1>4. CASE \E n \in DOMAIN handlers : Handle(n)
  BY <1>1, <1>4, ProgressAfterHandling
<1>5. CASE Prune
  <2>1. PICK retention, old :
            retention = Configs[running].storage.retention_days /\ old = OldEvents(retention)
    OBVIOUS
  <2>2. /\ alertEvents' = Restrict(alertEvents, DOMAIN alertEvents \ old)
        /\ rows' = [row \in {r \in DOMAIN rows : EventId(r) \notin old} |-> rows[row]]
        /\ UNCHANGED <<handlers, today>>
    BY <1>5, <2>1, Zenon DEF Prune, Pruned
  <2>3. retention \in Nat /\ today \in Nat
    <3>1. running \in ConfigNames
      BY <1>5 DEF Prune, HandlersAreReal, Startable, Accepted
    <3> QED BY <2>1, <3>1, PipelineAssumption, ConstantTypes DEF HandlersAreReal
  <2>4. \A e \in DOMAIN alertEvents : alertEvents[e].day = today => e \notin old
    BY <2>1, <2>3 DEF OldEvents
  <2> QED BY <2>2, <2>4, OthersKept DEF Restrict
<1>6. CASE Send
  <2>1. UNCHANGED <<handlers, today>> /\ alertEvents' = alertEvents
    BY <1>6 DEF Send
  <2>2. DOMAIN rows' \subseteq DOMAIN rows
    BY <1>6 DEF Send, SendDelivery, SendBatch
  <2> QED BY <2>1, <2>2, OthersKept
<1>7. CASE Crash
  <2>1. Ends
    BY <1>7, CrashEffect
  <2> QED BY <2>1 DEF Ends, InProgress, IsOpen
<1>8. CASE Quiet \/ UNCHANGED vars
  <2>1. UNCHANGED <<handlers, today, alertEvents, rows>>
    BY <1>8 DEF Quiet, vars, storeVars
  <2> QED BY <2>1, OthersKept
<1> QED BY <1>2, <1>3, <1>4, <1>5, <1>6, <1>7, <1>8, Zenon DEF Next

----------------------------------------------------------------------------
(* The theorems.                                                           *)

PipelineInvariant ==
    HandlersAreReal /\ AlertsAreReal /\ DeliveriesAreReal /\ InProgress

LEMMA StartsReal == Init => PipelineInvariant
<1> SUFFICES ASSUME Init PROVE PipelineInvariant
  OBVIOUS
<1>1. /\ DOMAIN handlers = {} /\ handlers \in Seq(HandlerRecord)
      /\ DOMAIN alertGroups = {} /\ DOMAIN alertEvents = {} /\ DOMAIN tasks = {}
      /\ DOMAIN rows = {} /\ DOMAIN batches = {}
  BY DEF Init
<1>2. /\ up = FALSE /\ running \in Startable \cup {Absent}
      /\ today \in 0 .. MaxDay /\ troubles \in 0 .. MaxTroubles /\ sends \in 0 .. MaxSends
      /\ lastBatch \in Nat
  BY ConstantTypes DEF Init
<1>3. HandlersAreReal
  BY <1>1, <1>2 DEF HandlersAreReal
<1>4. AlertsAreReal
  BY <1>1, FS_EmptySet DEF AlertsAreReal
<1>5. DeliveriesAreReal /\ InProgress
  BY <1>1, <1>2 DEF DeliveriesAreReal, InProgress
<1> QED BY <1>3, <1>4, <1>5 DEF PipelineInvariant

LEMMA StaysReal == PipelineInvariant /\ [Next]_vars => PipelineInvariant'
<1> SUFFICES ASSUME PipelineInvariant, [Next]_vars PROVE PipelineInvariant'
  OBVIOUS
<1>1. HandlersAreReal /\ AlertsAreReal /\ DeliveriesAreReal /\ InProgress
  BY DEF PipelineInvariant
<1>2. HandlersAreReal'
  BY <1>1, EveryStepOnward DEF Onward
<1>3. AlertsAreReal' /\ DeliveriesAreReal' /\ InProgress'
  BY <1>1, AlertsStayReal, DeliveriesStayReal, ProgressContinues
<1> QED BY <1>2, <1>3 DEF PipelineInvariant

(* Whatever the files and the requests, the pipeline's state is well       *)
(* typed: handlers stay within their work, and groups, events, rows and    *)
(* batches are records of their kinds that name stored things              *)
(* (main.rs:1144-1383; storage.rs:1906-1985, 2652-2808).                   *)
THEOREM TypeCorrect == Spec => []TypeOK
<1>1. PipelineInvariant => TypeOK
  <2> SUFFICES ASSUME PipelineInvariant PROVE TypeOK
    OBVIOUS
  <2>1. HandlersAreReal /\ AlertsAreReal /\ DeliveriesAreReal
    BY DEF PipelineInvariant
  <2>2. ASSUME NEW n \in DOMAIN handlers
        PROVE  LET h == handlers[n]
               IN  /\ h.request \in RequestNames /\ h.config \in Startable /\ h.day \in 0 .. today
                   /\ h.k \in 1 .. Len(h.work) + 1
                   /\ h.step \in {"store", "queue", "escalate", "done"}
                   /\ h.code \in {Open, Lost, 202, 500}
    <3>1. handlers[n] \in HandlerRecord /\ handlers[n].day \in Nat
      BY <2>1, HandlerFields, WorkIsOrdered
    <3>2. /\ handlers[n].k \in 1 .. Len(handlers[n].work) + 1 /\ handlers[n].day <= today
          /\ today \in Nat
      BY <2>1, ConstantTypes DEF HandlersAreReal
    <3>3. handlers[n].day \in 0 .. today
      BY <3>1, <3>2
    <3> QED BY <3>1, <3>2, <3>3 DEF HandlerRecord
  <2>3. \A g \in DOMAIN alertGroups : alertGroups[g] \in GroupRecord
    BY <2>1 DEF AlertsAreReal, GroupIsReal
  <2>4. ASSUME NEW e \in DOMAIN alertEvents
        PROVE  alertEvents[e] \in [group : DOMAIN alertGroups, day : 0 .. MaxDay]
    <3>1. alertEvents[e] \in [group : DOMAIN alertGroups, day : 0 .. today]
      BY <2>1 DEF AlertsAreReal, EventIsReal
    <3>2. 0 .. today \subseteq 0 .. MaxDay
      BY <2>1, ConstantTypes DEF HandlersAreReal
    <3> QED BY <3>1, <3>2
  <2>5. \A row \in DOMAIN rows : rows[row] \in {"queued", "succeeded", "dead_letter"}
    BY <2>1 DEF DeliveriesAreReal, RowIsReal
  <2>6. \A b \in DOMAIN batches :
            /\ b \in 1 .. lastBatch /\ batches[b].status \in Statuses
            /\ batches[b].members # <<>>
    BY <2>1, BatchFields
  <2>7. \A task \in DOMAIN tasks : tasks[task] \in DOMAIN alertGroups
    BY <2>1 DEF AlertsAreReal
  <2>8. /\ up \in BOOLEAN /\ running \in Startable \cup {Absent}
        /\ today \in 0 .. MaxDay /\ troubles \in 0 .. MaxTroubles /\ sends \in 0 .. MaxSends
    BY <2>1 DEF HandlersAreReal
  <2> QED BY <2>2, <2>3, <2>4, <2>5, <2>6, <2>7, <2>8 DEF TypeOK, Statuses
<1> QED BY <1>1, StartsReal, StaysReal, PTL DEF Spec

(* Whatever is stored, sent, pruned or cut short by a failure or a crash,  *)
(* the tables refer to each other and agree: a group counts its events and *)
(* spans their days, exactly so if no call failed; rows have their events, *)
(* batches their rows, their count and no row of another batch             *)
(* (storage.rs:1906-1985, 2652-2808).                                      *)
THEOREM TablesAlwaysAgree == Spec => []TablesAgree
<1>1. PipelineInvariant => TablesAgree
  <2> SUFFICES ASSUME PipelineInvariant PROVE TablesAgree
    OBVIOUS
  <2>1. AlertsAreReal /\ DeliveriesAreReal
    BY DEF PipelineInvariant
  <2>2. \A e \in DOMAIN alertEvents : alertEvents[e].group \in DOMAIN alertGroups
    BY <2>1 DEF AlertsAreReal, EventIsReal
  <2>3. \A g \in DOMAIN alertGroups : GroupIsReal(g)
    BY <2>1 DEF AlertsAreReal
  <2>4. /\ \A row \in DOMAIN rows : EventId(row) \in DOMAIN alertEvents
        /\ \A task \in DOMAIN tasks : tasks[task] \in DOMAIN alertGroups
    BY <2>1 DEF AlertsAreReal, DeliveriesAreReal, RowIsReal
  <2>5. \A b \in DOMAIN batches : BatchIsReal(b)
    BY <2>1 DEF DeliveriesAreReal
  <2> QED BY <2>2, <2>3, <2>4, <2>5 DEF TablesAgree, GroupIsReal, BatchIsReal
<1> QED BY <1>1, StartsReal, StaysReal, PTL DEF Spec
==============================================================================
