----------------------- MODULE ShellSubscriptionProofs -----------------------
(***************************************************************************)
(* Proofs about ShellSubscription, for every set of aggregates and         *)
(* batches, resume limit and bound.                                        *)
(***************************************************************************)
EXTENDS ShellSubscription, SequenceTheorems, WellFoundedInduction, TLAPS

(* Induction over the natural numbers, for a set instead of a predicate.   *)
LEMMA NatSetInduction ==
  ASSUME NEW S, 0 \in S, \A n \in Nat : n \in S => n + 1 \in S
  PROVE  Nat \subseteq S
<1> SUFFICES ASSUME Nat \ S # {} PROVE FALSE
  OBVIOUS
<1> DEFINE T == Nat \ S
           R == OpToRel(<, Nat)
<1>1. T \subseteq Nat /\ T # {}
  OBVIOUS
<1>2. \E x \in T : \A y \in T : ~(<<y, x>> \in R)
  <2>1. IsWellFoundedOn(R, Nat)
    BY NatLessThanWellFounded
  <2> HIDE DEF T, R
  <2> QED BY <1>1, <2>1, WFMin
<1>3. PICK x \in T : \A y \in T : ~(<<y, x>> \in R)
  BY <1>2
<1>4. x \in Nat /\ x # 0 /\ x - 1 \in Nat
  OBVIOUS
<1>5. <<x - 1, x>> \in R
  BY <1>4 DEF OpToRel
<1>6. x - 1 \in S
  BY <1>3, <1>4, <1>5
<1>7. (x - 1) + 1 = x
  BY <1>4
<1> QED BY <1>3, <1>4, <1>6, <1>7

(* A set of numbers that is not empty and bounded has a largest.           *)
LEMMA LargestExists ==
  ASSUME NEW n \in Nat, NEW S, S \subseteq 1..n, S # {}
  PROVE  \E i \in S : \A j \in S : j <= i
<1> DEFINE T == {k \in Nat : \A U \in SUBSET (1..k) : U # {} => \E i \in U : \A j \in U : j <= i}
<1>1. 0 \in T
  <2>1. 1..0 = {}
    OBVIOUS
  <2> QED BY <2>1
<1>2. ASSUME NEW k \in Nat, k \in T PROVE k + 1 \in T
  <2> SUFFICES ASSUME NEW U \in SUBSET (1..k + 1), U # {} PROVE \E i \in U : \A j \in U : j <= i
    OBVIOUS
  <2>1. CASE k + 1 \in U
    BY <2>1
  <2>2. CASE k + 1 \notin U
    <3>1. U \in SUBSET (1..k)
      BY <2>2
    <3> QED BY <1>2, <3>1
  <2> QED BY <2>1, <2>2
<1>3. Nat \subseteq T
  <2> HIDE DEF T
  <2> QED BY <1>1, <1>2, NatSetInduction
<1>4. n \in T
  BY <1>3
<1> QED BY <1>4

-----------------------------------------------------------------------------
(* Coalescing, of any log l and sequence of its numbers s.                 *)
LastIn(l, s, n) == \A j \in 1..Len(s) : l[s[j]].agg = l[n].agg => s[j] <= n
KeptStep(l, s, f, i) ==
    IF i = 0 THEN <<>> ELSE IF LastIn(l, s, s[i]) THEN Append(f[i - 1], s[i]) ELSE f[i - 1]
IsKept(l, s, f, n) == f = [i \in 0..n |-> KeptStep(l, s, f, i)]

LEMMA KeptAt ==
  ASSUME NEW l, NEW s, NEW f, NEW n \in Nat, IsKept(l, s, f, n), NEW i \in 0..n
  PROVE  f[i] = IF i = 0 THEN <<>> ELSE IF LastIn(l, s, s[i]) THEN Append(f[i - 1], s[i])
                ELSE f[i - 1]
BY DEF IsKept, KeptStep

(* The fold exists: one more step can always be made.                      *)
LEMMA KeptExists ==
  ASSUME NEW l, NEW s, NEW n \in Nat
  PROVE  \E f : IsKept(l, s, f, n)
<1> DEFINE S == {k \in Nat : \E f : IsKept(l, s, f, k)}
<1>1. 0 \in S
  <2>1. IsKept(l, s, [i \in 0..0 |-> <<>>], 0)
    BY DEF IsKept, KeptStep
  <2> QED BY <2>1
<1>2. ASSUME NEW k \in Nat, k \in S PROVE k + 1 \in S
  <2>1. PICK f : IsKept(l, s, f, k)
    BY <1>2
  <2> DEFINE g == [i \in 0..k + 1 |-> IF i = k + 1 THEN KeptStep(l, s, f, i) ELSE f[i]]
  <2>2. \A i \in 0..k : i \in 0..k + 1 /\ i # k + 1 /\ g[i] = f[i]
    OBVIOUS
  <2>3. \A i \in 0..k : f[i] = KeptStep(l, s, f, i)
    BY <2>1 DEF IsKept
  <2>4. \A i \in 0..k + 1 : i # 0 => i - 1 \in 0..k
    OBVIOUS
  <2>5. ASSUME NEW i \in 0..k + 1 PROVE g[i] = KeptStep(l, s, g, i)
    <3> HIDE DEF g
    <3>1. KeptStep(l, s, g, i) = KeptStep(l, s, f, i)
      BY <2>2, <2>4 DEF KeptStep
    <3>2. CASE i = k + 1
      BY <3>1, <3>2 DEF g
    <3>3. CASE i # k + 1
      <4>1. i \in 0..k
        BY <3>3
      <4> QED BY <2>2, <2>3, <3>1, <4>1
    <3> QED BY <3>2, <3>3
  <2>6. g = [i \in 0..k + 1 |-> g[i]]
    OBVIOUS
  <2> HIDE DEF g
  <2>7. g = [i \in 0..k + 1 |-> KeptStep(l, s, g, i)]
    BY <2>5, <2>6
  <2>8. IsKept(l, s, g, k + 1)
    BY <2>7 DEF IsKept
  <2> QED BY <2>8
<1>3. Nat \subseteq S
  <2> HIDE DEF S
  <2> QED BY <1>1, <1>2, NatSetInduction
<1> QED BY <1>3

LEMMA CoalesceIsKept ==
  ASSUME NEW s, Len(s) \in Nat
  PROVE  \E f : IsKept(log, s, f, Len(s)) /\ Coalesce(s) = f[Len(s)]
<1> DEFINE f == CHOOSE f : f = [i \in 0..Len(s) |->
                     IF i = 0 THEN <<>>
                     ELSE IF \A j \in 1..Len(s) : log[s[j]].agg = log[s[i]].agg => s[j] <= s[i]
                     THEN Append(f[i - 1], s[i])
                     ELSE f[i - 1]]
<1>1. Coalesce(s) = f[Len(s)]
  BY DEF Coalesce
<1>2. PICK g : IsKept(log, s, g, Len(s))
  BY KeptExists
<1>3. IsKept(log, s, f, Len(s))
  BY <1>2 DEF IsKept, KeptStep, LastIn
<1> QED BY <1>1, <1>3

(* r is an ascending part of the first i of s with all that are last.      *)
Ascends(r) == \A i, j \in 1..Len(r) : i < j => r[i] < r[j]
KeepsLast(r, l, s, i) ==
    /\ Ascends(r)
    /\ \A k \in 1..Len(r) : \E j \in 1..i : r[k] = s[j]
    /\ \A j \in 1..i : LastIn(l, s, s[j]) => \E k \in 1..Len(r) : r[k] = s[j]

LEMMA KeepsLastNext ==
  ASSUME NEW l, NEW s \in Seq(Nat), Ascends(s), NEW i \in Nat, i + 1 \in 1..Len(s),
         NEW r \in Seq(Nat), KeepsLast(r, l, s, i)
  PROVE  /\ LastIn(l, s, s[i + 1]) => /\ Append(r, s[i + 1]) \in Seq(Nat)
                                      /\ KeepsLast(Append(r, s[i + 1]), l, s, i + 1)
         /\ ~LastIn(l, s, s[i + 1]) => KeepsLast(r, l, s, i + 1)
<1>1. /\ Len(s) \in Nat /\ Len(r) \in Nat /\ s[i + 1] \in Nat
      /\ \A j \in 1..i + 1 : j \in 1..i \/ j = i + 1
      /\ \A j \in 1..i : j \in 1..i + 1 /\ j \in 1..Len(s) /\ j < i + 1
  BY ElementOfSeq
<1>2. CASE ~LastIn(l, s, s[i + 1])
  <2>1. \A k \in 1..Len(r) : \E j \in 1..i + 1 : r[k] = s[j]
    BY <1>1 DEF KeepsLast
  <2>2. \A j \in 1..i + 1 : LastIn(l, s, s[j]) => \E k \in 1..Len(r) : r[k] = s[j]
    BY <1>1, <1>2 DEF KeepsLast
  <2> QED BY <1>2, <2>1, <2>2 DEF KeepsLast
<1>3. CASE LastIn(l, s, s[i + 1])
  <2> DEFINE x == s[i + 1]
             q == Append(r, x)
  <2>1. /\ q \in Seq(Nat) /\ Len(q) = Len(r) + 1 /\ q[Len(r) + 1] = x
        /\ \A k \in 1..Len(r) : q[k] = r[k]
    <3>1. x \in Nat
      BY <1>1
    <3> HIDE DEF x
    <3> QED BY <3>1, AppendProperties
  <2> HIDE DEF q
  <2>2. \A k \in 1..Len(q) : k \in 1..Len(r) \/ k = Len(r) + 1
    BY <1>1, <2>1
  <2>3. \A k \in 1..Len(r) : k \in 1..Len(q)
    BY <1>1, <2>1
  <2>4. ASSUME NEW k \in 1..Len(r) PROVE r[k] < x
    <3>1. PICK j \in 1..i : r[k] = s[j]
      BY DEF KeepsLast
    <3>2. j \in 1..Len(s) /\ j < i + 1
      BY <1>1
    <3>3. s[j] < x
      BY <3>2 DEF Ascends
    <3> QED BY <3>1, <3>3
  <2>5. Ascends(q)
    <3> SUFFICES ASSUME NEW a \in 1..Len(q), NEW b \in 1..Len(q), a < b PROVE q[a] < q[b]
      BY DEF Ascends
    <3>1. a \in 1..Len(r)
      BY <1>1, <2>1
    <3>2. CASE b \in 1..Len(r)
      BY <2>1, <3>1, <3>2 DEF KeepsLast, Ascends
    <3>3. CASE b = Len(r) + 1
      BY <2>1, <2>4, <3>1, <3>3
    <3> QED BY <2>2, <3>2, <3>3
  <2>6. \A k \in 1..Len(q) : \E j \in 1..i + 1 : q[k] = s[j]
    <3> SUFFICES ASSUME NEW k \in 1..Len(q) PROVE \E j \in 1..i + 1 : q[k] = s[j]
      OBVIOUS
    <3>1. CASE k \in 1..Len(r)
      <4>1. PICK j \in 1..i : r[k] = s[j]
        BY <3>1 DEF KeepsLast
      <4>2. q[k] = r[k]
        BY <2>1, <3>1
      <4>3. j \in 1..i + 1
        OBVIOUS
      <4> QED BY <4>1, <4>2, <4>3
    <3>2. CASE k = Len(r) + 1
      <4>1. i + 1 \in 1..i + 1
        OBVIOUS
      <4> QED BY <2>1, <3>2, <4>1
    <3> QED BY <2>2, <3>1, <3>2
  <2>7. \A j \in 1..i + 1 : LastIn(l, s, s[j]) => \E k \in 1..Len(q) : q[k] = s[j]
    <3> SUFFICES ASSUME NEW j \in 1..i + 1, LastIn(l, s, s[j]) PROVE \E k \in 1..Len(q) : q[k] = s[j]
      OBVIOUS
    <3>1. CASE j \in 1..i
      <4>1. PICK k \in 1..Len(r) : r[k] = s[j]
        BY <3>1 DEF KeepsLast
      <4> QED BY <2>1, <2>3, <4>1
    <3>2. CASE j = i + 1
      <4>1. Len(r) + 1 \in 1..Len(q)
        BY <1>1, <2>1
      <4> QED BY <2>1, <3>2, <4>1
    <3> QED BY <1>1, <3>1, <3>2
  <2>8. KeepsLast(q, l, s, i + 1)
    BY <2>5, <2>6, <2>7 DEF KeepsLast
  <2> QED BY <1>3, <2>1, <2>8 DEF q
<1> QED BY <1>2, <1>3

(* Coalescing keeps the last event of each aggregate, in order.            *)
LEMMA CoalesceKeeps ==
  ASSUME NEW s \in Seq(Nat), Ascends(s)
  PROVE  Coalesce(s) \in Seq(Nat) /\ KeepsLast(Coalesce(s), log, s, Len(s))
<1>1. Len(s) \in Nat
  BY LenProperties
<1>2. PICK f : IsKept(log, s, f, Len(s)) /\ Coalesce(s) = f[Len(s)]
  BY <1>1, CoalesceIsKept
<1> DEFINE S == {i \in Nat : i \in 0..Len(s) => f[i] \in Seq(Nat) /\ KeepsLast(f[i], log, s, i)}
<1>3. 0 \in S
  <2>1. 0 \in 0..Len(s)
    BY <1>1
  <2>2. f[0] = <<>>
    BY <1>1, <1>2, <2>1, KeptAt
  <2>3. <<>> \in Seq(Nat) /\ Len(<<>>) = 0 /\ 1..0 = {}
    BY EmptySeq
  <2>4. KeepsLast(<<>>, log, s, 0)
    BY <2>3 DEF KeepsLast, Ascends
  <2> QED BY <2>2, <2>3, <2>4
<1>4. ASSUME NEW i \in Nat, i \in S PROVE i + 1 \in S
  <2> SUFFICES ASSUME i + 1 \in 0..Len(s)
               PROVE  f[i + 1] \in Seq(Nat) /\ KeepsLast(f[i + 1], log, s, i + 1)
    OBVIOUS
  <2>1. i \in 0..Len(s) /\ i + 1 \in 1..Len(s) /\ i + 1 # 0 /\ (i + 1) - 1 = i
    BY <1>1
  <2>2. f[i] \in Seq(Nat) /\ KeepsLast(f[i], log, s, i)
    BY <1>4, <2>1
  <2>3. f[i + 1] = IF LastIn(log, s, s[i + 1]) THEN Append(f[i], s[i + 1]) ELSE f[i]
    BY <1>1, <1>2, <2>1, KeptAt
  <2>4. /\ LastIn(log, s, s[i + 1]) => /\ Append(f[i], s[i + 1]) \in Seq(Nat)
                                       /\ KeepsLast(Append(f[i], s[i + 1]), log, s, i + 1)
        /\ ~LastIn(log, s, s[i + 1]) => KeepsLast(f[i], log, s, i + 1)
    BY <2>1, <2>2, KeepsLastNext
  <2> QED BY <2>2, <2>3, <2>4, Zenon
<1>5. Nat \subseteq S
  <2> HIDE DEF S
  <2> QED BY <1>3, <1>4, NatSetInduction
<1>6. Len(s) \in 0..Len(s)
  BY <1>1
<1> QED BY <1>1, <1>2, <1>5, <1>6

-----------------------------------------------------------------------------
(* Row, of any log l.                                                      *)
EventsIn(l, a, n) == {i \in 1..n : l[i].agg = a}
TurnsIn(l, a, n) == {i \in EventsIn(l, a, n) : l[i].kind # "change"}
RowIn(l, a, n) ==
    IF TurnsIn(l, a, n) # {} /\ l[Latest(TurnsIn(l, a, n))].kind = "activate"
    THEN Latest(EventsIn(l, a, n)) ELSE 0

LEMMA RowIsRowIn ==
  ASSUME NEW a, NEW n
  PROVE  Row(a, n) = RowIn(log, a, n)
BY DEF Row, EventsOf, RowIn, TurnsIn, EventsIn

LEMMA LatestIsIn ==
  ASSUME NEW n \in Nat, NEW S, S \subseteq 1..n, S # {}
  PROVE  Latest(S) \in S /\ \A j \in S : j <= Latest(S)
<1>1. \E i \in S : \A j \in S : j <= i
  BY LargestExists
<1> QED BY <1>1 DEF Latest

(* An aggregate's row stands until its next event.                         *)
LEMMA RowStands ==
  ASSUME NEW l, NEW a, NEW m \in Nat, NEW n \in Nat, m <= n,
         \A e \in m + 1 .. n : l[e].agg # a
  PROVE  RowIn(l, a, n) = RowIn(l, a, m)
<1>1. \A i \in 1..n : i \in 1..m \/ i \in m + 1 .. n
  OBVIOUS
<1>2. \A i \in 1..m : i \in 1..n
  OBVIOUS
<1>3. EventsIn(l, a, n) = EventsIn(l, a, m)
  BY <1>1, <1>2 DEF EventsIn
<1> QED BY <1>3 DEF RowIn, TurnsIn

(* What is appended to the log later does not change an earlier row.       *)
LEMMA RowStays ==
  ASSUME NEW l, NEW k, NEW a, NEW n \in Nat, \A i \in 1..n : k[i] = l[i]
  PROVE  RowIn(k, a, n) = RowIn(l, a, n)
<1>1. EventsIn(k, a, n) = EventsIn(l, a, n) /\ EventsIn(l, a, n) \subseteq 1..n
  BY DEF EventsIn
<1>2. TurnsIn(k, a, n) = TurnsIn(l, a, n) /\ TurnsIn(l, a, n) \subseteq 1..n
  BY <1>1 DEF TurnsIn
<1>3. CASE TurnsIn(l, a, n) = {}
  BY <1>2, <1>3 DEF RowIn
<1>4. CASE TurnsIn(l, a, n) # {}
  <2>1. Latest(TurnsIn(l, a, n)) \in 1..n
    BY <1>2, <1>4, LatestIsIn
  <2>2. k[Latest(TurnsIn(l, a, n))] = l[Latest(TurnsIn(l, a, n))]
    BY <2>1
  <2> QED BY <1>1, <1>2, <2>2 DEF RowIn
<1> QED BY <1>3, <1>4

LEMMA RowRange ==
  ASSUME NEW l, NEW a, NEW n \in Nat
  PROVE  RowIn(l, a, n) \in 0..n
<1>1. EventsIn(l, a, n) \subseteq 1..n /\ TurnsIn(l, a, n) \subseteq EventsIn(l, a, n)
  BY DEF EventsIn, TurnsIn
<1>2. TurnsIn(l, a, n) # {} => Latest(EventsIn(l, a, n)) \in 1..n
  BY <1>1, LatestIsIn
<1>3. \A i \in 1..n : i \in 0..n
  OBVIOUS
<1>4. 0 \in 0..n
  OBVIOUS
<1> QED BY <1>2, <1>3, <1>4 DEF RowIn

(* A removal leaves no row.                                                *)
LEMMA RowRemoved ==
  ASSUME NEW l, NEW n \in Nat, n # 0, l[n].kind = "remove"
  PROVE  RowIn(l, l[n].agg, n) = 0
<1> DEFINE T == TurnsIn(l, l[n].agg, n)
<1>1. n \in T /\ T \subseteq 1..n
  <2>1. n \in 1..n
    OBVIOUS
  <2> QED BY <2>1 DEF TurnsIn, EventsIn
<1>2. Latest(T) \in T /\ \A j \in T : j <= Latest(T)
  <2> HIDE DEF T
  <2> QED BY <1>1, LatestIsIn
<1>3. Latest(T) = n
  <2> HIDE DEF T
  <2>1. Latest(T) \in 1..n /\ n <= Latest(T)
    BY <1>1, <1>2
  <2> QED BY <2>1
<1> QED BY <1>3 DEF RowIn

(* When an aggregate has an event in a range, it has a last one.           *)
HasLast(l, a, m, n) ==
    (\E e \in m + 1 .. n : l[e].agg = a) =>
        \E d \in m + 1 .. n : l[d].agg = a /\ \A i \in d + 1 .. n : l[i].agg # a

LEMMA LastOfAggregate ==
  ASSUME NEW l, NEW a, NEW m \in Nat, NEW n \in Nat
  PROVE  HasLast(l, a, m, n)
<1> SUFFICES ASSUME NEW e \in m + 1 .. n, l[e].agg = a
             PROVE  \E d \in m + 1 .. n : l[d].agg = a /\ \A i \in d + 1 .. n : l[i].agg # a
  BY DEF HasLast
<1> DEFINE S == {i \in m + 1 .. n : l[i].agg = a}
<1>1. S \subseteq 1..n /\ S # {}
  OBVIOUS
<1>2. PICK d \in S : \A j \in S : j <= d
  <2> HIDE DEF S
  <2> QED BY <1>1, LargestExists
<1>3. \A i \in d + 1 .. n : i \in m + 1 .. n /\ ~(i <= d)
  OBVIOUS
<1> QED BY <1>2, <1>3

-----------------------------------------------------------------------------
(* Types.  What is on its way is the marker, a snapshot of the log at some *)
(* sequence, or a row read at or after its event.                          *)
MarkerItem(n) == [kind |-> "synchronized", seq |-> n]
SnapshotItem(l, n) ==
    [kind |-> "snapshot", seq |-> n, rows |-> [a \in Aggregates |-> RowIn(l, a, n)]]
RowItem(l, n, m) ==
    [kind |-> "row", seq |-> n, agg |-> l[n].agg, row |-> RowIn(l, l[n].agg, m)]
SentItems(l) ==
    {MarkerItem(n) : n \in 0..Len(l)} \cup {SnapshotItem(l, n) : n \in 0..Len(l)}
    \cup UNION {{RowItem(l, n, m) : m \in n..Len(l)} : n \in 1..Len(l)}

LogInv ==
    /\ log \in Seq(Events)
    /\ Len(log) \in 0..MaxLog
    /\ head \in Nat /\ published \in Nat
    /\ published <= head /\ head <= Len(log)
Subs(n) ==
    [phase : {"off", "open", "load", "head", "replay", "snapshot", "synchronize", "live"},
     buffer : Seq(1..n), batch : Seq(0..n), next : 0..n, target : 0..n, promised : 0..n]
Clients(n) ==
    [data : BOOLEAN, session : {"new", "opened", "loaded"}, cursor : 0..n,
     rows : [Aggregates -> 0..n], status : {"cached", "synchronizing", "live"},
     awaiting : BOOLEAN, told : 0..n]
SubInv == sub \in Subs(Len(log))
BufferInv ==
    /\ Ascends(sub.buffer)
    /\ \A i \in 1..Len(sub.buffer) : sub.buffer[i] <= published
WireInv == wire \in Seq(SentItems(log)) /\ old \in Seq(SentItems(log))
ClientInv == client \in Clients(Len(log))
HistoryInv ==
    /\ breaks \in 0..MaxBreaks
    /\ stranded \subseteq Aggregates
TypeInv == LogInv /\ SubInv /\ BufferInv /\ WireInv /\ ClientInv /\ HistoryInv

(* What an item of each kind says.                                         *)
LEMMA ItemSays ==
  ASSUME NEW l, NEW x \in SentItems(l)
  PROVE  /\ x.kind \in {"synchronized", "snapshot", "row"}
         /\ x.kind = "snapshot" =>
                x.seq \in 0..Len(l) /\ x.rows = [a \in Aggregates |-> RowIn(l, a, x.seq)]
         /\ x.kind = "row" =>
                /\ x.seq \in 1..Len(l) /\ x.agg = l[x.seq].agg
                /\ \E m \in x.seq..Len(l) : x.row = RowIn(l, x.agg, m)
<1>1. CASE \E n \in 0..Len(l) : x = MarkerItem(n)
  BY <1>1 DEF MarkerItem
<1>2. CASE \E n \in 0..Len(l) : x = SnapshotItem(l, n)
  BY <1>2 DEF SnapshotItem
<1>3. CASE \E n \in 1..Len(l) : \E m \in n..Len(l) : x = RowItem(l, n, m)
  BY <1>3 DEF RowItem
<1> QED BY <1>1, <1>2, <1>3 DEF SentItems

LEMMA MarkerSays ==
  ASSUME NEW l, NEW x \in SentItems(l), x.kind = "synchronized" PROVE x.seq \in 0..Len(l)
  BY DEF SentItems, MarkerItem, SnapshotItem, RowItem

LEMMA SentItemsAreItems ==
  ASSUME LogInv PROVE SentItems(log) \subseteq Items
<1>1. Len(log) \in Nat
  BY DEF LogInv
<1>2. \A n \in 1..Len(log) : log[n].agg \in Aggregates
  <2>1. log \in Seq(Events)
    BY DEF LogInv
  <2>2. \A n \in 1..Len(log) : log[n] \in Events
    BY <2>1, ElementOfSeq
  <2> QED BY <2>2 DEF Events
<1>3. ASSUME NEW a, NEW n \in 0..Len(log) PROVE RowIn(log, a, n) \in 0..Len(log)
  <2>1. n \in Nat /\ n <= Len(log)
    BY <1>1
  <2>2. RowIn(log, a, n) \in 0..n
    BY <2>1, RowRange
  <2> QED BY <2>1, <2>2, <1>1
<1>4. ASSUME NEW n \in 0..Len(log) PROVE MarkerItem(n) \in Items
  BY DEF MarkerItem, Items
<1>5. ASSUME NEW n \in 0..Len(log) PROVE SnapshotItem(log, n) \in Items
  <2>1. [a \in Aggregates |-> RowIn(log, a, n)] \in [Aggregates -> 0..Len(log)]
    BY <1>3
  <2> QED BY <2>1 DEF SnapshotItem, Items
<1>6. ASSUME NEW n \in 1..Len(log), NEW m \in n..Len(log) PROVE RowItem(log, n, m) \in Items
  <2>1. m \in 0..Len(log)
    BY <1>1
  <2>2. RowIn(log, log[n].agg, m) \in 0..Len(log)
    BY <2>1, <1>3
  <2> QED BY <1>2, <2>2 DEF RowItem, Items
<1> QED BY <1>4, <1>5, <1>6 DEF SentItems

LEMMA TypeInvGivesTypeOK ==
  ASSUME TypeInv PROVE TypeOK
<1>1. head \in 0..Len(log) /\ published \in 0..head
  BY DEF TypeInv, LogInv
<1>2. wire \in Seq(Items) /\ old \in Seq(Items)
  <2>1. /\ wire \in Seq(SentItems(log)) /\ old \in Seq(SentItems(log))
        /\ SentItems(log) \subseteq Items
    BY SentItemsAreItems DEF TypeInv, WireInv
  <2> QED BY <2>1, SeqMonotonic
<1> QED BY <1>1, <1>2 DEF TypeInv, TypeOK, LogInv, SubInv, Subs, ClientInv, Clients, HistoryInv

LEMMA InitTypeInv ==
  Init => TypeInv
<1> SUFFICES ASSUME Init PROVE TypeInv
  OBVIOUS
<1> USE DEF Init
<1>1. /\ <<>> \in Seq(Events) /\ Len(<<>>) = 0 /\ <<>> \in Seq(SentItems(log))
      /\ <<>> \in Seq(1..Len(log)) /\ <<>> \in Seq(0..Len(log))
  BY EmptySeq
<1>2. LogInv
  BY <1>1, ShellAssumption DEF LogInv
<1>3. SubInv /\ WireInv
  BY <1>1 DEF SubInv, Subs, WireInv, NoSubscription
<1>4. BufferInv
  BY <1>1 DEF BufferInv, NoSubscription, Ascends
<1>5. ClientInv /\ HistoryInv
  BY <1>1, ShellAssumption DEF ClientInv, Clients, HistoryInv
<1> QED BY <1>2, <1>3, <1>4, <1>5 DEF TypeInv

(* Steps either leave the log alone or append to it.                       *)
LogGrows ==
    /\ log' \in Seq(Events)
    /\ Len(log) \in Nat /\ Len(log') \in Nat /\ Len(log) <= Len(log')
    /\ \A n \in 1..Len(log) : log'[n] = log[n]

LEMMA StepLogGrows ==
  ASSUME LogInv, Next PROVE LogGrows
<1>1. Len(log) \in Nat
  BY DEF LogInv
<1>2. CASE \E batch \in Batches : Commit(batch)
  <2>1. PICK batch \in Batches : Commit(batch)
    BY <1>2
  <2>2. batch \in Seq(Events) /\ log \in Seq(Events)
    BY ShellAssumption DEF LogInv
  <2>3. log' = log \o batch
    BY <2>1 DEF Commit
  <2>4. /\ log \o batch \in Seq(Events)
        /\ Len(log \o batch) = Len(log) + Len(batch)
        /\ \A n \in 1..Len(log) : (log \o batch)[n] = log[n]
    BY <2>2, ConcatProperties
  <2>5. Len(batch) \in Nat
    BY <2>2, LenProperties
  <2> QED BY <1>1, <2>3, <2>4, <2>5 DEF LogGrows
<1>3. CASE ~\E batch \in Batches : Commit(batch)
  <2>1. log' = log
    BY <1>3 DEF Next, EngineStep, AdvanceHead, Publish, HandlerStep, ReadHead, ReplayWindow,
       ReplayEnds, SendSnapshot, Synchronize, LiveWindow, SendItem, RefetchFails, Subscribe,
       ChooseStart, HttpStep, LoadHttpSnapshot, MissHttpSnapshot, Receive, FailStream, Resubscribe,
       LoseSession, RestartServer, serverVars
  <2> QED BY <1>1, <2>1 DEF LogGrows, LogInv
<1> QED BY <1>2, <1>3

LEMMA NextLogInv ==
  ASSUME LogInv, Next PROVE LogInv'
<1>1. LogGrows /\ MaxLog \in Nat
  BY StepLogGrows, ShellAssumption
<1>2. ASSUME NEW batch \in Batches, Commit(batch) PROVE LogInv'
  <2>1. batch \in Seq(Events) /\ log \in Seq(Events)
    BY ShellAssumption DEF LogInv
  <2>2. Len(log') = Len(log) + Len(batch)
    BY <1>2, <2>1, ConcatProperties DEF Commit
  <2>3. Len(log') <= MaxLog /\ head' = head /\ published' = published
    BY <1>2, <2>2 DEF Commit, Feed!CommitBatch
  <2> QED BY <1>1, <2>3 DEF LogInv, LogGrows
<1>3. CASE UNCHANGED serverVars
  BY <1>3 DEF LogInv, serverVars
<1>4. CASE AdvanceHead
  BY <1>1, <1>4 DEF LogInv, AdvanceHead, Feed!AdvanceHead
<1>5. CASE Publish
  BY <1>1, <1>5 DEF LogInv, Publish, Feed!PublishNext
<1>6. CASE RestartServer
  BY <1>1, <1>6 DEF LogInv, RestartServer, Feed!Restart
<1>7. CASE HandlerStep \/ RefetchFails \/ Subscribe \/ ChooseStart \/ HttpStep \/ Receive
           \/ FailStream \/ Resubscribe \/ LoseSession
  BY <1>3, <1>7 DEF HandlerStep, ReadHead, ReplayWindow, ReplayEnds, SendSnapshot, Synchronize,
     LiveWindow, SendItem, RefetchFails, Subscribe, ChooseStart, HttpStep, LoadHttpSnapshot,
     MissHttpSnapshot, Receive, FailStream, Resubscribe, LoseSession
<1> QED BY <1>2, <1>4, <1>5, <1>6, <1>7 DEF Next, EngineStep

(* Items keep their meaning when the log grows.                            *)
LEMMA GrowthKeepsItems ==
  ASSUME LogGrows
  PROVE  /\ SentItems(log) \subseteq SentItems(log')
         /\ 0..Len(log) \subseteq 0..Len(log') /\ 1..Len(log) \subseteq 1..Len(log')
         /\ Seq(0..Len(log)) \subseteq Seq(0..Len(log'))
         /\ Seq(1..Len(log)) \subseteq Seq(1..Len(log'))
         /\ Seq(SentItems(log)) \subseteq Seq(SentItems(log'))
<1>1. 0..Len(log) \subseteq 0..Len(log') /\ 1..Len(log) \subseteq 1..Len(log')
  BY DEF LogGrows
<1>2. ASSUME NEW a, NEW n \in 0..Len(log) PROVE RowIn(log', a, n) = RowIn(log, a, n)
  <2>1. n \in Nat /\ \A i \in 1..n : log'[i] = log[i]
    BY DEF LogGrows
  <2> QED BY <2>1, RowStays
<1>3. \A n \in 0..Len(log) : n \in 0..Len(log') /\ SnapshotItem(log, n) = SnapshotItem(log', n)
  BY <1>1, <1>2 DEF SnapshotItem
<1>4. ASSUME NEW n \in 1..Len(log), NEW m \in n..Len(log)
      PROVE  n \in 1..Len(log') /\ m \in n..Len(log') /\ RowItem(log, n, m) = RowItem(log', n, m)
  <2>1. n \in 1..Len(log') /\ m \in n..Len(log') /\ m \in 0..Len(log) /\ log'[n] = log[n]
    BY DEF LogGrows
  <2>2. RowIn(log', log[n].agg, m) = RowIn(log, log[n].agg, m)
    BY <1>2, <2>1
  <2> QED BY <2>1, <2>2 DEF RowItem
<1>5. SentItems(log) \subseteq SentItems(log')
  BY <1>3, <1>4 DEF SentItems
<1> QED BY <1>1, <1>5, SeqMonotonic

-----------------------------------------------------------------------------
(* The windows that are coalesced.                                         *)
LEMMA CoalesceType ==
  ASSUME NEW T, T \subseteq Nat, NEW s \in Seq(T), Ascends(s)
  PROVE  Coalesce(s) \in Seq(T) /\ KeepsLast(Coalesce(s), log, s, Len(s))
<1>1. s \in Seq(Nat)
  BY SeqMonotonic
<1> DEFINE r == Coalesce(s)
<1>2. r \in Seq(Nat) /\ KeepsLast(r, log, s, Len(s))
  BY <1>1, CoalesceKeeps
<1> HIDE DEF r
<1>3. \A j \in 1..Len(s) : s[j] \in T
  BY ElementOfSeq
<1>4. \A k \in 1..Len(r) : r[k] \in T
  BY <1>2, <1>3 DEF KeepsLast
<1>5. Range(r) \subseteq T
  <2>1. r \in Seq(Nat)
    BY <1>2
  <2>2. Range(r) = {r[i] : i \in 1..Len(r)}
    BY <2>1, RangeEquality
  <2> QED BY <1>4, <2>2
<1>6. r \in Seq(T)
  <2>1. r \in Seq(Nat)
    BY <1>2
  <2>2. r \in Seq(Range(r))
    BY <2>1, SeqOfRange
  <2> QED BY <1>5, <2>2, SeqMonotonic
<1> QED BY <1>2, <1>6 DEF r

LEMMA ReplayedWindow ==
  ASSUME NEW m \in Nat, NEW n \in Nat, m < n
  PROVE  /\ [i \in 1..(n - m) |-> m + i] \in Seq(m + 1 .. n)
         /\ Len([i \in 1..(n - m) |-> m + i]) = n - m
         /\ Ascends([i \in 1..(n - m) |-> m + i])
<1> DEFINE s == [i \in 1..(n - m) |-> m + i]
<1>1. n - m \in Nat /\ s \in [1..(n - m) -> m + 1 .. n]
  OBVIOUS
<1>2. s \in Seq(m + 1 .. n) /\ Len(s) = n - m
  <2> HIDE DEF s
  <2> QED BY <1>1, SeqDef
<1>3. Ascends(s)
  BY <1>2 DEF Ascends
<1> QED BY <1>2, <1>3

LEMMA PartsAscend ==
  ASSUME NEW T, T \subseteq Nat, NEW s \in Seq(T), Ascends(s), NEW n \in 0..Len(s)
  PROVE  /\ SubSeq(s, 1, n) \in Seq(T) /\ Len(SubSeq(s, 1, n)) = n
         /\ \A i \in 1..n : SubSeq(s, 1, n)[i] = s[i]
         /\ Ascends(SubSeq(s, 1, n))
         /\ SubSeq(s, n + 1, Len(s)) \in Seq(T) /\ Len(SubSeq(s, n + 1, Len(s))) = Len(s) - n
         /\ \A i \in 1..Len(s) - n : SubSeq(s, n + 1, Len(s))[i] = s[n + i]
         /\ Ascends(SubSeq(s, n + 1, Len(s)))
<1>1. /\ Len(s) \in Nat /\ n \in Nat /\ n <= Len(s)
      /\ \A i \in 1..Len(s) : s[i] \in T
  BY ElementOfSeq, LenProperties
<1> DEFINE p == SubSeq(s, 1, n)
           q == SubSeq(s, n + 1, Len(s))
<1>2. p \in Seq(T) /\ Len(p) = n /\ \A i \in 1..n : p[i] = s[i]
  <2>1. 1 \in Int /\ n \in Int /\ \A i \in 1..n : s[i] \in T
    BY <1>1
  <2>2. /\ p \in Seq(T) /\ Len(p) = IF 1 <= n THEN n - 1 + 1 ELSE 0
        /\ \A i \in 1 .. n - 1 + 1 : p[i] = s[1 + i - 1]
    BY <2>1, SubSeqProperties
  <2> HIDE DEF p
  <2> QED BY <1>1, <2>2
<1>3. q \in Seq(T) /\ Len(q) = Len(s) - n /\ \A i \in 1..Len(s) - n : q[i] = s[n + i]
  <2>1. n + 1 \in Int /\ Len(s) \in Int /\ \A i \in n + 1 .. Len(s) : s[i] \in T
    BY <1>1
  <2>2. /\ q \in Seq(T) /\ Len(q) = IF n + 1 <= Len(s) THEN Len(s) - (n + 1) + 1 ELSE 0
        /\ \A i \in 1 .. Len(s) - (n + 1) + 1 : q[i] = s[n + 1 + i - 1]
    BY <2>1, SubSeqProperties
  <2> HIDE DEF q
  <2> QED BY <1>1, <2>2
<1> HIDE DEF p, q
<1>4. Ascends(p)
  BY <1>1, <1>2 DEF Ascends
<1>5. Ascends(q)
  <2> SUFFICES ASSUME NEW i \in 1..Len(q), NEW j \in 1..Len(q), i < j PROVE q[i] < q[j]
    BY DEF Ascends
  <2>1. n + i \in 1..Len(s) /\ n + j \in 1..Len(s) /\ n + i < n + j
    BY <1>1, <1>3
  <2> QED BY <1>3, <2>1 DEF Ascends
<1> QED BY <1>2, <1>3, <1>4, <1>5 DEF p, q

(* Each step's effect on the subscription keeps its type.                  *)
LEMMA NextSubInv ==
  ASSUME TypeInv, Next PROVE SubInv'
<1> USE DEF Subs
<1>1. /\ LogInv /\ SubInv /\ BufferInv /\ WireInv /\ ClientInv /\ LogGrows /\ LogInv'
      /\ Len(log) \in Nat
  BY StepLogGrows, NextLogInv DEF TypeInv, LogInv
<1>2. /\ 0..Len(log) \subseteq 0..Len(log') /\ 1..Len(log) \subseteq 1..Len(log')
      /\ Seq(0..Len(log)) \subseteq Seq(0..Len(log'))
      /\ Seq(1..Len(log)) \subseteq Seq(1..Len(log'))
  BY <1>1, GrowthKeepsItems
<1>3. CASE sub' = sub
  BY <1>1, <1>2, <1>3 DEF SubInv
<1>4. CASE sub' = NoSubscription
  <2>1. <<>> \in Seq(1..Len(log')) /\ <<>> \in Seq(0..Len(log')) /\ 0 \in 0..Len(log')
    BY <1>1, EmptySeq DEF LogGrows
  <2> QED BY <1>4, <2>1 DEF SubInv, NoSubscription
<1>5. sub \in Subs(Len(log))
  BY <1>1 DEF SubInv
<1>6. CASE Publish
  <2>1. published + 1 \in 1..Len(log) /\ published' = published + 1 /\ log' = log
    BY <1>1, <1>6 DEF Publish, Feed!PublishNext, LogInv
  <2>2. sub.buffer \in Seq(1..Len(log))
    BY <1>5
  <2>3. Append(sub.buffer, published + 1) \in Seq(1..Len(log))
    BY <2>1, <2>2, AppendProperties
  <2>4. CASE sub' = [sub EXCEPT !.buffer = Append(@, published + 1)]
    BY <1>5, <2>1, <2>3, <2>4 DEF SubInv
  <2> QED BY <1>3, <1>6, <2>1, <2>4 DEF Publish
<1>7. CASE Subscribe \/ ChooseStart \/ HttpStep
  <2>1. log' = log /\ client.cursor \in 0..Len(log) /\ Len(log) \in 0..Len(log)
    BY <1>1, <1>7 DEF Subscribe, ChooseStart, HttpStep, LoadHttpSnapshot, MissHttpSnapshot,
       serverVars, ClientInv, Clients
  <2>2. <<>> \in Seq(1..Len(log)) /\ <<>> \in Seq(0..Len(log)) /\ 0 \in 0..Len(log)
    BY <1>1, EmptySeq
  <2>3. CASE sub' = [NoSubscription EXCEPT !.phase = "open"]
    BY <2>1, <2>2, <2>3 DEF SubInv, NoSubscription
  <2>4. ASSUME NEW n \in 0..Len(log), sub' = Request(n) PROVE SubInv'
    BY <2>1, <2>2, <2>4 DEF SubInv, NoSubscription, Request
  <2>5. ASSUME NEW p \in {"load", "snapshot"}, sub' = [sub EXCEPT !.phase = p] PROVE SubInv'
    BY <1>5, <2>1, <2>5 DEF SubInv
  <2> QED BY <1>7, <2>1, <2>3, <2>4, <2>5
          DEF Subscribe, ChooseStart, HttpStep, LoadHttpSnapshot, MissHttpSnapshot
<1>8. CASE ReadHead
  <2>1. log' = log /\ head \in 0..Len(log)
    BY <1>1, <1>8 DEF ReadHead, serverVars, LogInv
  <2> QED BY <1>5, <1>8, <2>1 DEF ReadHead, SubInv
<1>9. CASE \E n \in 1..MaxLog : ReplayWindow(n)
  <2>1. PICK n \in 1..MaxLog : ReplayWindow(n)
    BY <1>9
  <2> DEFINE s == [i \in 1..(n - sub.next) |-> sub.next + i]
  <2>2. /\ log' = log /\ n \in sub.next + 1 .. sub.target /\ sub.next \in Nat /\ sub.target <= Len(log)
        /\ sub' = [sub EXCEPT !.batch = Coalesce(s), !.next = n] /\ sub.target \in Nat
    BY <1>5, <2>1 DEF ReplayWindow, serverVars
  <2>3. n \in Nat /\ sub.next < n /\ n \in 0..Len(log)
    BY <1>1, <2>2
  <2>4. s \in Seq(sub.next + 1 .. n) /\ Ascends(s)
    BY <2>2, <2>3, ReplayedWindow
  <2>5. Coalesce(s) \in Seq(sub.next + 1 .. n)
    <3> HIDE DEF s
    <3>1. sub.next + 1 .. n \subseteq Nat
      BY <2>2, <2>3
    <3> QED BY <2>4, <3>1, CoalesceType
  <2>6. Coalesce(s) \in Seq(0..Len(log))
    <3> HIDE DEF s
    <3>1. sub.next + 1 .. n \subseteq 0..Len(log)
      BY <2>2, <2>3
    <3> QED BY <2>5, <3>1, SeqMonotonic
  <2> HIDE DEF s
  <2> QED BY <1>5, <2>2, <2>3, <2>6 DEF SubInv
<1>10. CASE ReplayEnds
  BY <1>5, <1>10 DEF ReplayEnds, SubInv, serverVars
<1>11. CASE SendSnapshot
  <2>1. /\ log' = log /\ Len(log) \in 0..Len(log)
        /\ sub' = [sub EXCEPT !.phase = "synchronize", !.target = Len(log)]
    BY <1>1, <1>11 DEF SendSnapshot, serverVars
  <2> QED BY <1>5, <2>1 DEF SubInv
<1>12. CASE Synchronize
  <2>1. /\ sub.buffer \in Seq(1..Len(log)) /\ Ascends(sub.buffer) /\ 1..Len(log) \subseteq Nat
        /\ 1..Len(log) \subseteq 0..Len(log) /\ 0 \in 0..Len(log) /\ published \in 0..Len(log)
    BY <1>1, <1>5 DEF BufferInv, LogInv
  <2>2. Coalesce(sub.buffer) \in Seq(1..Len(log))
    BY <2>1, CoalesceType
  <2>3. Coalesce(sub.buffer) \in Seq(0..Len(log))
    BY <2>1, <2>2, SeqMonotonic
  <2>4. SynchronizeBatch \in Seq(0..Len(log))
    BY <2>1, <2>3, AppendProperties DEF SynchronizeBatch, Marker
  <2>5. <<>> \in Seq(1..Len(log))
    BY EmptySeq
  <2> QED BY <1>5, <1>12, <2>1, <2>4, <2>5 DEF Synchronize, SubInv, serverVars
<1>13. CASE \E n \in 1..MaxLog : LiveWindow(n)
  <2>1. PICK n \in 1..MaxLog : LiveWindow(n)
    BY <1>13
  <2>2. /\ sub.buffer \in Seq(1..Len(log)) /\ Ascends(sub.buffer) /\ 1..Len(log) \subseteq Nat
        /\ 1..Len(log) \subseteq 0..Len(log) /\ n \in 0..Len(sub.buffer)
    BY <1>1, <1>5, <2>1 DEF BufferInv, LiveWindow
  <2>3. /\ SubSeq(sub.buffer, 1, n) \in Seq(1..Len(log)) /\ Ascends(SubSeq(sub.buffer, 1, n))
        /\ SubSeq(sub.buffer, n + 1, Len(sub.buffer)) \in Seq(1..Len(log))
    BY <2>2, PartsAscend
  <2>4. Coalesce(SubSeq(sub.buffer, 1, n)) \in Seq(1..Len(log))
    BY <2>2, <2>3, CoalesceType
  <2>5. Coalesce(SubSeq(sub.buffer, 1, n)) \in Seq(0..Len(log))
    BY <2>2, <2>4, SeqMonotonic
  <2> QED BY <1>5, <2>1, <2>3, <2>5 DEF LiveWindow, SubInv, serverVars
<1>14. CASE SendItem \/ RefetchFails
  <2>1. log' = log /\ sub' = [sub EXCEPT !.batch = Tail(@)] /\ sub.batch # <<>>
    BY <1>14 DEF SendItem, RefetchFails, serverVars
  <2>2. sub.batch \in Seq(0..Len(log))
    BY <1>5
  <2>3. Tail(sub.batch) \in Seq(0..Len(log))
    BY <2>1, <2>2, HeadTailProperties
  <2> QED BY <1>5, <2>1, <2>3 DEF SubInv
<1>15. CASE (\E batch \in Batches : Commit(batch)) \/ AdvanceHead \/ Receive
  BY <1>3, <1>15 DEF Commit, AdvanceHead, Receive
<1>16. CASE FailStream \/ Resubscribe \/ LoseSession \/ RestartServer
  BY <1>4, <1>16 DEF FailStream, Resubscribe, LoseSession, RestartServer, Break
<1> QED BY <1>6, <1>7, <1>8, <1>9, <1>10, <1>11, <1>12, <1>13, <1>14, <1>15, <1>16
        DEF Next, EngineStep, HandlerStep

LEMMA NextBufferInv ==
  ASSUME TypeInv, Next PROVE BufferInv'
<1>1. /\ BufferInv /\ published \in Nat /\ sub.buffer \in Seq(1..Len(log)) /\ Len(sub.buffer) \in Nat
      /\ Len(log) \in Nat
  <2>1. sub.buffer \in Seq(1..Len(log))
    BY DEF TypeInv, SubInv, Subs
  <2> QED BY <2>1, LenProperties DEF TypeInv, LogInv
<1>2. \A i \in 1..Len(sub.buffer) : sub.buffer[i] \in Nat
  <2>1. sub.buffer \in Seq(1..Len(log))
    BY <1>1
  <2>2. \A i \in 1..Len(sub.buffer) : sub.buffer[i] \in 1..Len(log)
    BY <2>1, ElementOfSeq
  <2> QED BY <1>1, <2>2
<1>3. CASE sub'.buffer = <<>>
  <2>1. Len(<<>>) = 0 /\ 1..0 = {}
    BY EmptySeq
  <2> QED BY <1>3, <2>1 DEF BufferInv, Ascends
<1>4. ASSUME sub'.buffer = sub.buffer, published' = published PROVE BufferInv'
  BY <1>1, <1>4 DEF BufferInv, Ascends
<1>5. CASE Publish
  <2>1. published' = published + 1 /\ published' \in Nat
    BY <1>1, <1>5 DEF Publish, Feed!PublishNext
  <2>2. CASE sub' = sub
    BY <1>1, <1>2, <2>1, <2>2 DEF BufferInv, Ascends
  <2>3. CASE sub' = [sub EXCEPT !.buffer = Append(@, published')]
    <3> DEFINE b == sub.buffer
               c == Append(b, published + 1)
    <3>1. sub'.buffer = c
      <4>1. sub \in Subs(Len(log))
        BY DEF TypeInv, SubInv
      <4> QED BY <2>1, <2>3, <4>1 DEF Subs
    <3>2. Len(c) = Len(b) + 1 /\ c[Len(b) + 1] = published + 1 /\ \A i \in 1..Len(b) : c[i] = b[i]
      <4>1. b \in Seq(Nat)
        <5>1. 1..Len(log) \subseteq Nat
          OBVIOUS
        <5> QED BY <1>1, <5>1, SeqMonotonic
      <4>2. published + 1 \in Nat
        BY <1>1
      <4> HIDE DEF b
      <4> QED BY <4>1, <4>2, AppendProperties
    <3>3. Len(b) \in Nat /\ \A i \in 1..Len(b) : b[i] \in Nat /\ b[i] <= published
      BY <1>1, <1>2 DEF BufferInv
    <3>4. \A i, j \in 1..Len(b) : i < j => b[i] < b[j]
      BY <1>1 DEF BufferInv, Ascends
    <3> HIDE DEF b, c
    <3>5. \A i \in 1..Len(c) : i \in 1..Len(b) \/ i = Len(b) + 1
      BY <3>2, <3>3
    <3>6. \A i \in 1..Len(c) : c[i] <= published + 1
      <4> SUFFICES ASSUME NEW i \in 1..Len(c) PROVE c[i] <= published + 1
        OBVIOUS
      <4>1. CASE i \in 1..Len(b)
        <5>1. c[i] \in Nat /\ c[i] <= published /\ published \in Nat
          BY <1>1, <3>2, <3>3, <4>1
        <5> QED BY <5>1
      <4>2. CASE i = Len(b) + 1
        BY <1>1, <3>2, <4>2
      <4> QED BY <3>5, <4>1, <4>2
    <3>7. ASSUME NEW i \in 1..Len(c), NEW j \in 1..Len(c), i < j PROVE c[i] < c[j]
      <4>1. i \in 1..Len(b)
        BY <3>2, <3>3, <3>7
      <4>2. CASE j \in 1..Len(b)
        BY <3>2, <3>4, <3>7, <4>1, <4>2
      <4>3. CASE j = Len(b) + 1
        BY <1>1, <3>2, <3>3, <4>1, <4>3
      <4> QED BY <3>5, <4>2, <4>3
    <3> QED BY <2>1, <3>1, <3>6, <3>7 DEF BufferInv, Ascends
  <2> QED BY <1>5, <2>2, <2>3 DEF Publish
<1>6. CASE \E n \in 1..MaxLog : LiveWindow(n)
  <2>1. PICK n \in 1..MaxLog : LiveWindow(n)
    BY <1>6
  <2> DEFINE b == sub.buffer
             c == SubSeq(b, n + 1, Len(b))
  <2>2. sub'.buffer = c /\ published' = published
    <3>1. sub' = [sub EXCEPT !.batch = Coalesce(SubSeq(b, 1, n)), !.buffer = SubSeq(@, n + 1, Len(@))]
      BY <2>1 DEF LiveWindow
    <3>2. sub \in Subs(Len(log))
      BY DEF TypeInv, SubInv
    <3> QED BY <2>1, <3>1, <3>2 DEF Subs, LiveWindow, serverVars
  <2>3. b \in Seq(1..Len(log)) /\ Ascends(b) /\ n \in 0..Len(b) /\ 1..Len(log) \subseteq Nat
    BY <1>1, <2>1 DEF BufferInv, LiveWindow
  <2>4. Len(b) \in Nat /\ \A i \in 1..Len(b) : b[i] <= published
    BY <1>1 DEF BufferInv
  <2> HIDE DEF b
  <2>5. /\ Len(c) = Len(b) - n /\ Ascends(c)
        /\ \A i \in 1..Len(b) - n : c[i] = b[n + i]
    BY <2>3, PartsAscend
  <2> HIDE DEF c
  <2>6. \A i \in 1..Len(b) - n : n + i \in 1..Len(b)
    BY <2>3, <2>4
  <2> QED BY <2>2, <2>4, <2>5, <2>6 DEF BufferInv
<1>7. CASE \/ \E batch \in Batches : Commit(batch)
           \/ AdvanceHead \/ Receive
  BY <1>4, <1>7 DEF Commit, AdvanceHead, Feed!CommitBatch, Feed!AdvanceHead, Receive, serverVars
<1>8. CASE ReadHead \/ ReplayEnds \/ SendSnapshot \/ SendItem \/ RefetchFails
           \/ MissHttpSnapshot
           \/ \E n \in 1..MaxLog : ReplayWindow(n)
  <2>1. sub'.buffer = sub.buffer /\ published' = published
    BY <1>8 DEF ReadHead, ReplayEnds, SendSnapshot, SendItem, RefetchFails, ReplayWindow,
       MissHttpSnapshot, serverVars, TypeInv, SubInv, Subs
  <2> QED BY <1>4, <2>1
<1>9. CASE \/ Subscribe \/ LoadHttpSnapshot \/ Synchronize
           \/ FailStream \/ Resubscribe \/ LoseSession \/ RestartServer
  <2>1. sub'.buffer = <<>>
    <3>1. CASE Synchronize
      BY <3>1 DEF Synchronize, TypeInv, SubInv, Subs
    <3>2. CASE Subscribe \/ LoadHttpSnapshot
      BY <3>2 DEF Subscribe, LoadHttpSnapshot, Request, NoSubscription
    <3>3. CASE FailStream \/ Resubscribe \/ LoseSession \/ RestartServer
      BY <3>3 DEF FailStream, Resubscribe, LoseSession, RestartServer, Break, NoSubscription
    <3> QED BY <1>9, <3>1, <3>2, <3>3
  <2> QED BY <1>3, <2>1
<1>10. CASE ChooseStart
  <2>1. sub'.buffer = <<>> \/ (sub'.buffer = sub.buffer /\ published' = published)
    BY <1>10 DEF ChooseStart, Request, NoSubscription, serverVars, TypeInv, SubInv, Subs
  <2> QED BY <1>3, <1>4, <2>1
<1> QED BY <1>5, <1>6, <1>7, <1>8, <1>9, <1>10 DEF Next, EngineStep, HandlerStep, HttpStep

(* What is sent is an item of the log it was read from.                    *)
LEMMA ItemSent ==
  ASSUME TypeInv, SendItem
  PROVE  \E x \in SentItems(log) :
            /\ wire' = Append(wire, x)
            /\ Head(sub.batch) = Marker => x = MarkerItem(sub.promised)
            /\ Head(sub.batch) # Marker =>
                  \E m \in Head(sub.batch)..Len(log) : x = RowItem(log, Head(sub.batch), m)
<1> DEFINE n == Head(sub.batch)
<1>1. n \in 0..Len(log)
  <2>1. sub.batch \in Seq(0..Len(log)) /\ sub.batch # <<>>
    BY DEF TypeInv, SubInv, Subs, SendItem
  <2> QED BY <2>1, HeadTailProperties
<1>2. CASE n = Marker
  <2>1. sub.promised \in 0..Len(log)
    BY DEF TypeInv, SubInv, Subs
  <2> QED BY <1>2, <2>1 DEF SendItem, SentItems, MarkerItem, MarkerFor
<1>3. CASE n # Marker
  <2>1. n \in 1..Len(log) /\ Len(log) \in Nat /\ n \in Nat /\ n # 0
    BY <1>1, <1>3 DEF Marker, TypeInv, LogInv
  <2>2. wire' = Append(wire, ItemFor(n))
    BY <1>3 DEF SendItem
  <2> HIDE DEF n
  <2>3. Row(log[n].agg, Len(log)) = RowIn(log, log[n].agg, Len(log))
    BY RowIsRowIn
  <2>4. ASSUME NEW m \in n..Len(log), ItemFor(n) = RowItem(log, n, m)
        PROVE  ItemFor(n) \in SentItems(log)
    BY <2>1, <2>4 DEF SentItems
  <2>5. CASE log[n].kind = "remove"
    <3>1. RowIn(log, log[n].agg, n) = 0
      BY <2>1, <2>5, RowRemoved
    <3>2. ItemFor(n) = RowItem(log, n, n) /\ n \in n..Len(log)
      BY <2>1, <2>5, <3>1 DEF ItemFor, RowItem
    <3> QED BY <1>3, <2>2, <2>4, <3>2 DEF n
  <2>6. CASE log[n].kind # "remove"
    <3>1. ItemFor(n) = RowItem(log, n, Len(log)) /\ Len(log) \in n..Len(log)
      BY <2>1, <2>3, <2>6 DEF ItemFor, RowItem
    <3> QED BY <1>3, <2>2, <2>4, <3>1 DEF n
  <2> QED BY <2>5, <2>6
<1> QED BY <1>2, <1>3

LEMMA SnapshotSent ==
  ASSUME TypeInv, SendSnapshot
  PROVE  wire' = Append(wire, SnapshotItem(log, Len(log))) /\ SnapshotItem(log, Len(log)) \in SentItems(log)
<1>1. Len(log) \in 0..Len(log)
  BY DEF TypeInv, LogInv
<1>2. Rows(Len(log)) = [a \in Aggregates |-> RowIn(log, a, Len(log))]
  BY RowIsRowIn DEF Rows
<1> QED BY <1>1, <1>2 DEF SendSnapshot, SnapshotAt, SnapshotItem, SentItems

(* The first item of a queue, and what is left behind it.                  *)
LEMMA FirstItem ==
  ASSUME NEW T, NEW q \in Seq(T), q # <<>>
  PROVE  /\ Head(q) \in T /\ Head(q) = q[1] /\ Tail(q) \in Seq(T)
         /\ Len(q) \in Nat /\ 1 \in 1..Len(q)
         /\ Len(Tail(q)) = Len(q) - 1
         /\ \A i \in 1..Len(q) - 1 : Tail(q)[i] = q[i + 1]
<1>1. Len(q) \in Nat \ {0}
  BY EmptySeq
<1>2. /\ Head(q) \in T /\ Tail(q) \in Seq(T) /\ Len(Tail(q)) = Len(q) - 1
      /\ \A i \in 1..Len(Tail(q)) : Tail(q)[i] = q[i + 1]
  BY HeadTailProperties
<1>3. Head(q) = q[1]
  OBVIOUS
<1> QED BY <1>1, <1>2, <1>3

(* A received item is the first of the client's queue.                     *)
FromOld(x) == old # <<>> /\ x = old[1] /\ old' = Tail(old) /\ wire' = wire
FromWire(x) == old = <<>> /\ old' = <<>> /\ wire # <<>> /\ x = wire[1] /\ wire' = Tail(wire)

LEMMA ItemReceived ==
  ASSUME TypeInv, Receive
  PROVE  /\ \E x \in SentItems(log) : Take(x) /\ (FromOld(x) \/ FromWire(x))
         /\ log' = log /\ head' = head /\ published' = published /\ sub' = sub /\ breaks' = breaks
<1>1. wire \in Seq(SentItems(log)) /\ old \in Seq(SentItems(log))
  BY DEF TypeInv, WireInv
<1>2. CASE old # <<>> /\ old' = Tail(old) /\ Take(Head(old)) /\ UNCHANGED wire
  <2>1. Head(old) \in SentItems(log) /\ Head(old) = old[1]
    BY <1>1, <1>2, FirstItem
  <2> QED BY <1>2, <2>1 DEF FromOld, Receive, serverVars
<1>3. CASE old = <<>> /\ wire # <<>> /\ wire' = Tail(wire) /\ Take(Head(wire)) /\ UNCHANGED old
  <2>1. Head(wire) \in SentItems(log) /\ Head(wire) = wire[1]
    BY <1>1, <1>3, FirstItem
  <2> QED BY <1>3, <2>1 DEF FromWire, Receive, serverVars
<1> QED BY <1>2, <1>3 DEF Receive

(* The first items of a queue that stay when their stream ends.            *)
Kept(n) == old \o SubSeq(wire, 1, n)

LEMMA KeptItems ==
  ASSUME WireInv, NEW n \in 0..Len(wire)
  PROVE  /\ Kept(n) \in Seq(SentItems(log)) /\ Len(Kept(n)) = Len(old) + n
         /\ Len(old) \in Nat /\ Len(wire) \in Nat
         /\ \A i \in 1..Len(old) : Kept(n)[i] = old[i]
         /\ \A i \in 1..n : Kept(n)[Len(old) + i] = wire[i]
<1> DEFINE p == SubSeq(wire, 1, n)
<1>1. /\ wire \in Seq(SentItems(log)) /\ old \in Seq(SentItems(log))
      /\ Len(old) \in Nat /\ Len(wire) \in Nat
  BY LenProperties DEF WireInv
<1>2. p \in Seq(SentItems(log)) /\ Len(p) = n /\ \A i \in 1..n : p[i] = wire[i]
  <2>1. 1 \in Int /\ n \in Int /\ \A i \in 1..n : wire[i] \in SentItems(log)
    BY <1>1, ElementOfSeq
  <2>2. /\ p \in Seq(SentItems(log)) /\ Len(p) = IF 1 <= n THEN n - 1 + 1 ELSE 0
        /\ \A i \in 1 .. n - 1 + 1 : p[i] = wire[1 + i - 1]
    BY <2>1, SubSeqProperties
  <2> HIDE DEF p
  <2> QED BY <1>1, <2>2
<1> HIDE DEF p
<1>3. /\ old \o p \in Seq(SentItems(log)) /\ Len(old \o p) = Len(old) + Len(p)
      /\ \A i \in 1..Len(old) + Len(p) :
            (old \o p)[i] = IF i <= Len(old) THEN old[i] ELSE p[i - Len(old)]
  BY <1>1, <1>2, ConcatProperties
<1>4. \A i \in 1..Len(old) : (old \o p)[i] = old[i]
  BY <1>1, <1>2, <1>3
<1>5. \A i \in 1..n : (old \o p)[Len(old) + i] = wire[i]
  <2> SUFFICES ASSUME NEW i \in 1..n PROVE (old \o p)[Len(old) + i] = wire[i]
    OBVIOUS
  <2>1. Len(old) + i \in 1..Len(old) + Len(p) /\ ~(Len(old) + i <= Len(old))
        /\ Len(old) + i - Len(old) = i
    BY <1>1, <1>2
  <2> QED BY <1>2, <1>3, <2>1
<1> QED BY <1>1, <1>2, <1>3, <1>4, <1>5 DEF Kept, p

(* An ended subscription leaves the client its rows and cursor.            *)
Breaks == FailStream \/ Resubscribe \/ LoseSession \/ RestartServer

LEMMA BreakLeaves ==
  ASSUME TypeInv, Breaks
  PROVE  /\ sub' = NoSubscription /\ wire' = <<>> /\ log' = log
         /\ \E n \in 0..Len(wire) : old' = Kept(n)
         /\ stranded' = stranded /\ breaks' \in 0..MaxBreaks
         /\ client' \in Clients(Len(log))
         /\ client'.data = client.data /\ client'.cursor = client.cursor
         /\ client'.rows = client.rows /\ client'.told = client.told
         /\ client'.session \in {"new", client.session}
         /\ client'.status \in {"cached", client.status}
         /\ \/ head' = head /\ published' = published
            \/ head' = Len(log) /\ published' = Len(log)
<1>1. client \in Clients(Len(log)) /\ breaks \in 0..MaxBreaks
  BY DEF TypeInv, ClientInv, HistoryInv
<1>2. Break /\ log' = log /\ stranded' = stranded
  BY DEF Breaks, FailStream, Resubscribe, LoseSession, RestartServer, serverVars
<1>3. MaxBreaks \in Nat
  BY ShellAssumption
<1>4. breaks' \in 0..MaxBreaks
  BY <1>1, <1>2, <1>3 DEF Break
<1>5. \/ client' = client
      \/ client' = [client EXCEPT !.awaiting = FALSE, !.status = "cached"]
      \/ client' = [client EXCEPT !.awaiting = FALSE, !.status = "cached", !.session = "new"]
  BY DEF Breaks, FailStream, Resubscribe, LoseSession, RestartServer, Disconnected
<1>6. /\ client' \in Clients(Len(log))
      /\ client'.data = client.data /\ client'.cursor = client.cursor
      /\ client'.rows = client.rows /\ client'.told = client.told
      /\ client'.session \in {"new", client.session}
      /\ client'.status \in {"cached", client.status}
  BY <1>1, <1>5 DEF Clients
<1>7. \/ head' = head /\ published' = published
      \/ head' = Len(log) /\ published' = Len(log)
  BY DEF Breaks, FailStream, Resubscribe, LoseSession, RestartServer, serverVars, Feed!Restart
<1>8. \E n \in 0..Len(wire) : old' = Kept(n)
  <2>1. CASE FailStream
    <3>1. /\ Len(wire) \in 0..Len(wire) /\ wire \in Seq(SentItems(log))
      BY LenProperties DEF TypeInv, WireInv
    <3>2. SubSeq(wire, 1, Len(wire)) = wire
      BY <3>1, SubSeqFull
    <3> QED BY <2>1, <3>1, <3>2 DEF FailStream, Kept
  <2>2. CASE KeepQueued
    BY <2>2 DEF KeepQueued, Kept
  <2> QED BY <2>1, <2>2 DEF Breaks, Resubscribe, LoseSession, RestartServer
<1> QED BY <1>2, <1>4, <1>6, <1>7, <1>8 DEF Break

LEMMA NextWireInv ==
  ASSUME TypeInv, Next PROVE WireInv'
<1>1. /\ WireInv /\ wire \in Seq(SentItems(log)) /\ old \in Seq(SentItems(log))
      /\ Seq(SentItems(log)) \subseteq Seq(SentItems(log'))
  BY StepLogGrows, GrowthKeepsItems DEF TypeInv, WireInv
<1>2. <<>> \in Seq(SentItems(log))
  BY EmptySeq
<1>3. CASE wire' = wire /\ old' = old
  BY <1>1, <1>3 DEF WireInv
<1>4. CASE SendSnapshot
  <2>1. /\ wire' = Append(wire, SnapshotItem(log, Len(log))) /\ SnapshotItem(log, Len(log)) \in SentItems(log)
    BY <1>4, SnapshotSent
  <2>2. Append(wire, SnapshotItem(log, Len(log))) \in Seq(SentItems(log))
    BY <1>1, <2>1, AppendProperties
  <2> QED BY <1>1, <1>4, <2>1, <2>2 DEF WireInv, SendSnapshot, clientVars
<1>5. CASE SendItem
  <2>1. PICK x \in SentItems(log) : wire' = Append(wire, x)
    BY <1>5, ItemSent
  <2>2. Append(wire, x) \in Seq(SentItems(log))
    BY <1>1, AppendProperties
  <2> QED BY <1>1, <1>5, <2>1, <2>2 DEF WireInv, SendItem, clientVars
<1>6. CASE Receive
  <2>1. PICK x \in SentItems(log) : FromOld(x) \/ FromWire(x)
    BY <1>6, ItemReceived
  <2>2. old # <<>> => Tail(old) \in Seq(SentItems(log))
    BY <1>1, FirstItem
  <2>3. wire # <<>> => Tail(wire) \in Seq(SentItems(log))
    BY <1>1, FirstItem
  <2> QED BY <1>1, <1>2, <2>1, <2>2, <2>3 DEF WireInv, FromOld, FromWire
<1>7. CASE Breaks
  <2>1. wire' = <<>> /\ \E n \in 0..Len(wire) : old' = Kept(n)
    BY <1>7, BreakLeaves
  <2>2. old' \in Seq(SentItems(log))
    BY <1>1, <2>1, KeptItems
  <2> QED BY <1>1, <1>2, <2>1, <2>2 DEF WireInv
<1>8. CASE \/ \E batch \in Batches : Commit(batch)
           \/ EngineStep \/ ReadHead \/ ReplayEnds \/ Synchronize \/ RefetchFails
           \/ \E n \in 1..MaxLog : ReplayWindow(n) \/ LiveWindow(n)
           \/ Subscribe \/ ChooseStart \/ HttpStep
  BY <1>3, <1>8 DEF Commit, EngineStep, AdvanceHead, Publish, ReadHead, ReplayEnds, Synchronize,
     RefetchFails, ReplayWindow, LiveWindow, Subscribe, ChooseStart, HttpStep, LoadHttpSnapshot,
     MissHttpSnapshot, clientVars
<1> QED BY <1>4, <1>5, <1>6, <1>7, <1>8 DEF Next, HandlerStep, Breaks

LEMMA RowsAt ==
  ASSUME LogInv, NEW n \in 0..Len(log)
  PROVE  [a \in Aggregates |-> RowIn(log, a, n)] \in [Aggregates -> 0..Len(log)]
<1>1. Len(log) \in Nat /\ n \in Nat /\ n <= Len(log)
  BY DEF LogInv
<1>2. ASSUME NEW a PROVE RowIn(log, a, n) \in 0..Len(log)
  <2>1. RowIn(log, a, n) \in 0..n
    BY <1>1, RowRange
  <2> QED BY <1>1, <2>1
<1> QED BY <1>2

(* What taking an item makes of the client.                                *)
LEMMA ClientTakes ==
  ASSUME TypeInv, NEW x \in SentItems(log), Take(x)
  PROVE  client' \in Clients(Len(log))
<1>0. /\ x.kind = "snapshot" =>
            x.seq \in 0..Len(log) /\ x.rows = [a \in Aggregates |-> RowIn(log, a, x.seq)]
      /\ x.kind = "row" =>
            /\ x.seq \in 1..Len(log) /\ x.agg = log[x.seq].agg
            /\ \E m \in x.seq..Len(log) : x.row = RowIn(log, x.agg, m)
  BY ItemSays
<1> USE DEF Clients
<1>1. LogInv /\ client \in Clients(Len(log)) /\ Len(log) \in Nat
  BY DEF TypeInv, ClientInv, LogInv
<1>2. StatusAfterItem \in {"synchronizing", "live"}
  BY DEF StatusAfterItem
<1>3. CASE TakeMarker(x)
  <2>1. x.seq \in 0..Len(log)
    BY <1>3, MarkerSays DEF TakeMarker
  <2> QED BY <1>1, <1>3, <2>1 DEF TakeMarker
<1>4. CASE TakeSnapshot(x)
  <2>1. x.seq \in 0..Len(log) /\ x.rows = [a \in Aggregates |-> RowIn(log, a, x.seq)]
    BY <1>4, ItemSays DEF TakeSnapshot
  <2>2. x.rows \in [Aggregates -> 0..Len(log)]
    BY <1>1, <2>1, RowsAt
  <2> QED BY <1>1, <1>2, <1>4, <2>1, <2>2 DEF TakeSnapshot, WithSnapshot
<1>5. CASE TakeRow(x)
  <2>0. x.kind = "row"
    BY <1>5 DEF TakeRow
  <2>1. x.seq \in 1..Len(log) /\ \E m \in x.seq..Len(log) : x.row = RowIn(log, x.agg, m)
    BY <1>0, <2>0
  <2>2. PICK m \in x.seq..Len(log) : x.row = RowIn(log, x.agg, m)
    BY <2>1
  <2>3. m \in Nat /\ m <= Len(log)
    BY <1>1, <2>1
  <2>4. RowIn(log, x.agg, m) \in 0..m
    BY <2>3, RowRange
  <2>5. x.row \in 0..Len(log) /\ x.seq \in 0..Len(log)
    BY <1>1, <2>1, <2>2, <2>3, <2>4
  <2>6. CASE client' = [client EXCEPT !.cursor = x.seq, !.rows[x.agg] = x.row,
                                      !.status = StatusAfterItem]
    <3>1. [client.rows EXCEPT ![x.agg] = x.row] \in [Aggregates -> 0..Len(log)]
      BY <1>1, <2>5
    <3>2. client' = [client EXCEPT !.cursor = x.seq, !.rows = [client.rows EXCEPT ![x.agg] = x.row],
                                   !.status = StatusAfterItem]
      BY <1>1, <2>6
    <3> QED BY <1>1, <1>2, <2>5, <3>1, <3>2
  <2>7. CASE client' = [client EXCEPT !.status = StatusAfterItem]
    BY <1>1, <1>2, <2>7
  <2> QED BY <1>1, <1>5, <2>6, <2>7 DEF TakeRow
<1> QED BY <1>3, <1>4, <1>5 DEF Take

LEMMA NextClientInv ==
  ASSUME TypeInv, Next PROVE ClientInv'
<1> USE DEF Clients
<1>1. LogInv /\ LogGrows /\ client \in Clients(Len(log)) /\ Len(log) \in Nat
  BY StepLogGrows DEF TypeInv, ClientInv, LogInv
<1>2. 0..Len(log) \subseteq 0..Len(log')
  BY <1>1, GrowthKeepsItems
<1>3. Clients(Len(log)) \subseteq Clients(Len(log'))
  BY <1>2
<1>4. client' \in Clients(Len(log)) => ClientInv'
  BY <1>3 DEF ClientInv
<1>5. CASE client' = client
  BY <1>1, <1>4, <1>5
<1>6. CASE Subscribe
  BY <1>1, <1>4, <1>6 DEF Subscribe
<1>7. CASE LoadHttpSnapshot
  <2>1. Len(log) \in 0..Len(log) /\ Rows(Len(log)) = [a \in Aggregates |-> RowIn(log, a, Len(log))]
    BY <1>1, RowIsRowIn DEF Rows
  <2>2. Rows(Len(log)) \in [Aggregates -> 0..Len(log)]
    BY <1>1, <2>1, RowsAt
  <2>3. StatusAfterItem \in {"synchronizing", "live"}
    BY DEF StatusAfterItem
  <2> QED BY <1>1, <1>4, <1>7, <2>1, <2>2, <2>3 DEF LoadHttpSnapshot, WithSnapshot
<1>8. CASE Receive
  BY <1>4, <1>8, ItemReceived, ClientTakes
<1>9. CASE Breaks
  <2>1. client' \in Clients(Len(log))
    BY <1>9, BreakLeaves
  <2> QED BY <1>4, <2>1
<1>10. CASE \/ \E batch \in Batches : Commit(batch)
            \/ EngineStep \/ HandlerStep \/ RefetchFails \/ ChooseStart \/ MissHttpSnapshot
  BY <1>5, <1>10 DEF Commit, EngineStep, AdvanceHead, Publish, HandlerStep, ReadHead, ReplayWindow,
     ReplayEnds, SendSnapshot, Synchronize, LiveWindow, SendItem, RefetchFails, ChooseStart,
     MissHttpSnapshot, clientVars
<1> QED BY <1>6, <1>7, <1>8, <1>9, <1>10 DEF Next, HttpStep, Breaks

(* The aggregates of events of the log.                                    *)
LEMMA AggregatesOf ==
  ASSUME LogInv, NEW n \in 1..Len(log) PROVE log[n].agg \in Aggregates
<1>1. log \in Seq(Events)
  BY DEF LogInv
<1>2. log[n] \in Events
  BY <1>1, ElementOfSeq
<1> QED BY <1>2 DEF Events

LEMMA NextHistoryInv ==
  ASSUME TypeInv, Next PROVE HistoryInv'
<1>1. HistoryInv /\ LogInv
  BY DEF TypeInv
<1>2. CASE Breaks
  BY <1>1, <1>2, BreakLeaves DEF HistoryInv
<1>3. CASE RefetchFails
  <2> DEFINE n == Head(sub.batch)
  <2>1. n \in 0..Len(log) /\ n # Marker
    <3>1. sub.batch \in Seq(0..Len(log)) /\ sub.batch # <<>>
      BY <1>3 DEF TypeInv, SubInv, Subs, RefetchFails
    <3> QED BY <1>3, <3>1, HeadTailProperties DEF RefetchFails
  <2>2. n \in 1..Len(log)
    BY <1>1, <2>1 DEF Marker, LogInv
  <2>3. stranded' = stranded \cup {log[n].agg} /\ breaks' = breaks
    BY <1>3 DEF RefetchFails
  <2> HIDE DEF n
  <2>4. log[n].agg \in Aggregates
    BY <1>1, <2>2, AggregatesOf
  <2> QED BY <1>1, <2>3, <2>4 DEF HistoryInv
<1>4. CASE Receive
  <2>1. PICK x \in SentItems(log) : Take(x)
    BY <1>4, ItemReceived
  <2>2. CASE TakeSnapshot(x)
    <3>0. x.kind = "snapshot"
      BY <2>2 DEF TakeSnapshot
    <3>1. x.seq \in 0..Len(log)
      BY <3>0, ItemSays
    <3>a. client.cursor \in 0..Len(log) /\ Len(log) \in Nat
      BY <1>1 DEF TypeInv, ClientInv, Clients, LogInv
    <3>2. \A n \in (x.seq + 1)..client.cursor : n \in 1..Len(log)
      BY <3>1, <3>a
    <3>3. {log[n].agg : n \in (x.seq + 1)..client.cursor} \subseteq Aggregates
      BY <1>1, <3>2, AggregatesOf
    <3> QED BY <1>1, <1>4, <2>2, <3>3 DEF HistoryInv, TakeSnapshot, Receive
  <2>3. CASE TakeMarker(x) \/ TakeRow(x)
    BY <1>1, <1>4, <2>3 DEF HistoryInv, TakeMarker, TakeRow, Receive
  <2> QED BY <2>1, <2>2, <2>3 DEF Take
<1>5. CASE LoadHttpSnapshot
  BY <1>1, <1>5 DEF HistoryInv, LoadHttpSnapshot
<1>6. CASE \/ \E batch \in Batches : Commit(batch)
           \/ EngineStep \/ HandlerStep \/ Subscribe \/ ChooseStart \/ MissHttpSnapshot
  BY <1>1, <1>6 DEF HistoryInv, historyVars, Commit, EngineStep, AdvanceHead, Publish, HandlerStep,
     ReadHead, ReplayWindow, ReplayEnds, SendSnapshot, Synchronize, LiveWindow, SendItem, Subscribe,
     ChooseStart, MissHttpSnapshot
<1> QED BY <1>2, <1>3, <1>4, <1>5, <1>6 DEF Next, HttpStep, Breaks

LEMMA StutterTypeInv ==
  ASSUME TypeInv, UNCHANGED vars PROVE TypeInv'
<1>1. SubInv' /\ BufferInv' /\ WireInv' /\ ClientInv'
  BY DEF TypeInv, vars, SubInv, BufferInv, Ascends, WireInv, ClientInv
<1> QED BY <1>1 DEF TypeInv, vars, LogInv, HistoryInv

LEMMA NextTypeInv ==
  ASSUME TypeInv, Next PROVE TypeInv'
<1>1. LogInv' 
  BY NextLogInv DEF TypeInv
<1> QED BY <1>1, NextSubInv, NextBufferInv, NextWireInv, NextClientInv, NextHistoryInv DEF TypeInv

-----------------------------------------------------------------------------
(* The phases of a subscription, and the order of what it sends: the       *)
(* snapshot comes first, and nothing sent lies beyond what was published   *)
(* or read for it.  A client without rows gets a snapshot first, whichever *)
(* stream its items are of.                                                *)
End == IF published > sub.target THEN published ELSE sub.target
Streaming == sub.phase \in {"replay", "synchronize", "live"}

PhaseInv ==
    /\ ~Streaming => wire = <<>> /\ sub.batch = <<>>
    /\ sub.phase \in {"head", "replay"} => client.data
    /\ sub.phase = "replay" => sub.next <= sub.target /\ sub.target <= head
    /\ sub.phase = "synchronize" => sub.batch = <<>>
    /\ sub.phase # "live" => sub.promised = 0
    /\ sub.promised <= End
    /\ client.session = "loaded" => client.data
    /\ client.status = "live" => client.data

ItemInOrder(x, j) ==
    /\ x.kind = "snapshot" => j = 1
    /\ x.kind \in {"snapshot", "row"} => x.seq <= End
    /\ x.kind = "synchronized" => sub.phase = "live" /\ x.seq = sub.promised
OrderInv ==
    /\ \A j \in 1..Len(wire) : ItemInOrder(wire[j], j)
    /\ \A j \in 1..Len(sub.batch) : sub.batch[j] <= End /\ (sub.batch[j] = Marker => sub.phase = "live")
    /\ sub.phase \in {"synchronize", "live"} /\ ~client.data =>
           wire # <<>> /\ wire[1].kind = "snapshot"
    /\ ~client.data /\ old # <<>> => old[1].kind = "snapshot"

(* What every proof below needs to know about the state.                   *)
LEMMA Typed ==
  ASSUME TypeInv
  PROVE  /\ sub \in Subs(Len(log)) /\ client \in Clients(Len(log))
         /\ Len(log) \in Nat /\ head \in Nat /\ published \in Nat
         /\ published <= head /\ head <= Len(log)
         /\ sub.next \in Nat /\ sub.target \in Nat /\ sub.promised \in Nat /\ client.cursor \in Nat
         /\ sub.target <= Len(log) /\ sub.promised <= Len(log) /\ client.cursor <= Len(log)
         /\ End \in Nat /\ published <= End /\ sub.target <= End /\ End <= Len(log)
         /\ Len(wire) \in Nat /\ Len(old) \in Nat
         /\ Len(sub.batch) \in Nat /\ Len(sub.buffer) \in Nat
         /\ client.told \in Nat /\ client.told <= Len(log)
         /\ \A j \in 1..Len(sub.batch) : sub.batch[j] \in Nat /\ sub.batch[j] <= Len(log)
         /\ \A j \in 1..Len(sub.buffer) :
                sub.buffer[j] \in Nat /\ sub.buffer[j] # 0 /\ sub.buffer[j] <= published
<1>1. sub \in Subs(Len(log)) /\ client \in Clients(Len(log))
  BY DEF TypeInv, SubInv, ClientInv
<1>2. /\ Len(log) \in Nat /\ head \in Nat /\ published \in Nat
      /\ published <= head /\ head <= Len(log)
  BY DEF TypeInv, LogInv
<1>3. /\ sub.next \in Nat /\ sub.target \in Nat /\ sub.promised \in Nat /\ client.cursor \in Nat
      /\ sub.target <= Len(log) /\ sub.promised <= Len(log) /\ client.cursor <= Len(log)
      /\ client.told \in Nat /\ client.told <= Len(log)
  BY <1>1, <1>2 DEF Subs, Clients
<1>4. End \in Nat /\ published <= End /\ sub.target <= End /\ End <= Len(log)
  BY <1>2, <1>3 DEF End
<1>5. Len(wire) \in Nat /\ Len(old) \in Nat
  BY LenProperties DEF TypeInv, WireInv
<1>6. sub.batch \in Seq(0..Len(log)) /\ sub.buffer \in Seq(1..Len(log))
  BY <1>1 DEF Subs
<1>7. Len(sub.batch) \in Nat /\ Len(sub.buffer) \in Nat
  BY <1>6, LenProperties
<1>8. \A j \in 1..Len(sub.batch) : sub.batch[j] \in 0..Len(log)
  <2>1. sub.batch \in Seq(0..Len(log))
    BY <1>6
  <2> QED BY <2>1, ElementOfSeq
<1>9. \A j \in 1..Len(sub.buffer) : sub.buffer[j] \in 1..Len(log)
  <2>1. sub.buffer \in Seq(1..Len(log))
    BY <1>6
  <2> QED BY <2>1, ElementOfSeq
<1>10. \A j \in 1..Len(sub.buffer) : sub.buffer[j] <= published
  BY DEF TypeInv, BufferInv
<1>11. \A j \in 1..Len(sub.batch) : sub.batch[j] \in Nat /\ sub.batch[j] <= Len(log)
  BY <1>2, <1>8
<1>12. \A j \in 1..Len(sub.buffer) : sub.buffer[j] \in Nat /\ sub.buffer[j] # 0
  BY <1>2, <1>9
<1> QED BY <1>1, <1>2, <1>3, <1>4, <1>5, <1>7, <1>10, <1>11, <1>12

LEMMA InitPhaseInv ==
  Init => PhaseInv /\ OrderInv
<1> SUFFICES ASSUME Init PROVE PhaseInv /\ OrderInv
  OBVIOUS
<1>1. Len(<<>>) = 0 /\ 1..0 = {}
  BY EmptySeq
<1> QED BY <1>1 DEF Init, PhaseInv, OrderInv, Streaming, NoSubscription, End

LEMMA NextPhaseInv ==
  ASSUME TypeInv, PhaseInv, OrderInv, Next PROVE PhaseInv'
<1> USE DEF Streaming
<1>1. /\ sub \in Subs(Len(log)) /\ client \in Clients(Len(log))
      /\ Len(log) \in Nat /\ head \in Nat /\ published \in Nat
      /\ published <= head /\ head <= Len(log)
      /\ sub.next \in Nat /\ sub.target \in Nat /\ sub.promised \in Nat /\ client.cursor \in Nat
  BY Typed
<1>2. CASE \/ \E batch \in Batches : Commit(batch)
           \/ AdvanceHead
  <2>1. /\ UNCHANGED <<sub, wire, client, published>> /\ head' \in Nat /\ head <= head'
    BY <1>1, <1>2 DEF Commit, AdvanceHead, Feed!CommitBatch, Feed!AdvanceHead, clientVars
  <2> QED BY <1>1, <2>1 DEF PhaseInv, End
<1>3. CASE Publish
  <2>1. /\ UNCHANGED <<wire, client, head>> /\ published' = published + 1
        /\ sub'.phase = sub.phase /\ sub'.batch = sub.batch /\ sub'.next = sub.next
        /\ sub'.target = sub.target /\ sub'.promised = sub.promised
    BY <1>1, <1>3 DEF Publish, Feed!PublishNext, Subs, clientVars
  <2>2. sub'.promised <= End'
    BY <1>1, <2>1 DEF PhaseInv, End
  <2> QED BY <1>1, <2>1, <2>2 DEF PhaseInv
<1>4. CASE Subscribe \/ ChooseStart \/ MissHttpSnapshot
  <2>1. /\ UNCHANGED <<wire, published, head>> /\ wire = <<>> /\ sub'.batch = <<>>
        /\ sub'.promised = 0 /\ sub'.target \in Nat
        /\ sub'.phase \in {"open", "load", "head", "snapshot"}
        /\ sub'.phase = "head" => client.session = "loaded"
        /\ client'.data = client.data /\ client'.status \in {client.status, "synchronizing"}
        /\ client'.session \in {client.session, "opened"}
    <3>0. ~Streaming /\ wire = <<>> /\ sub.batch = <<>> /\ sub.promised = 0
      BY <1>4 DEF Subscribe, ChooseStart, MissHttpSnapshot, PhaseInv
    <3>1. CASE Subscribe
      BY <1>1, <3>0, <3>1 DEF Subscribe, serverVars, NoSubscription, Clients
    <3>2. CASE ChooseStart
      BY <1>1, <3>0, <3>2 DEF ChooseStart, clientVars, serverVars, CanResume, Request,
         NoSubscription, Subs
    <3>3. CASE MissHttpSnapshot
      BY <1>1, <3>0, <3>3 DEF MissHttpSnapshot, clientVars, serverVars, Subs
    <3> QED BY <1>4, <3>1, <3>2, <3>3
  <2>2. sub'.promised <= End'
    BY <1>1, <2>1 DEF End
  <2> QED BY <2>1, <2>2 DEF PhaseInv
<1>5. CASE ReadHead
  <2>1. /\ UNCHANGED <<wire, client, published, head>> /\ wire = <<>> /\ sub.batch = <<>>
        /\ sub'.batch = sub.batch /\ sub'.promised = sub.promised /\ sub'.next = sub.next
        /\ \/ sub'.phase = "replay" /\ sub'.target = head /\ head - sub.next \in 0..MaxGap
           \/ sub'.phase = "snapshot" /\ sub'.target = sub.target
        /\ sub.phase = "head"
    BY <1>1, <1>5 DEF ReadHead, clientVars, serverVars, Subs, PhaseInv
  <2>2. sub'.phase = "replay" => sub'.next <= sub'.target
    BY <1>1, <2>1, ShellAssumption
  <2>3. sub'.promised = 0 /\ sub'.promised <= End'
    BY <1>1, <2>1 DEF PhaseInv, End
  <2> QED BY <1>1, <2>1, <2>2, <2>3 DEF PhaseInv
<1>6. CASE \E n \in 1..MaxLog : ReplayWindow(n)
  <2>1. PICK n \in 1..MaxLog : ReplayWindow(n)
    BY <1>6
  <2>2. /\ UNCHANGED <<wire, client, published, head>> /\ sub.phase = "replay"
        /\ sub'.phase = sub.phase /\ sub'.promised = sub.promised /\ sub'.target = sub.target
        /\ sub'.next = n /\ n \in sub.next + 1 .. sub.target
    BY <1>1, <2>1 DEF ReplayWindow, serverVars, Subs, clientVars
  <2>3. sub'.promised <= End' /\ n <= sub.target
    BY <1>1, <2>2 DEF PhaseInv, End
  <2> QED BY <2>2, <2>3 DEF PhaseInv
<1>7. CASE ReplayEnds \/ SendSnapshot
  <2>1. /\ UNCHANGED <<client, published>> /\ sub.phase \in {"replay", "snapshot"}
        /\ sub'.phase = "synchronize" /\ sub'.promised = sub.promised /\ sub'.batch = sub.batch
        /\ sub.batch = <<>> /\ sub'.target \in Nat
    BY <1>1, <1>7 DEF ReplayEnds, SendSnapshot, serverVars, Subs, PhaseInv, clientVars
  <2>2. sub'.promised = 0 /\ sub'.promised <= End'
    BY <1>1, <2>1 DEF PhaseInv, End
  <2> QED BY <2>1, <2>2 DEF PhaseInv
<1>8. CASE Synchronize
  <2>1. /\ UNCHANGED <<wire, client, published>> /\ sub'.phase = "live" /\ sub'.target = sub.target
        /\ sub'.promised = End
    BY <1>1, <1>8 DEF Synchronize, serverVars, Subs, End, clientVars
  <2>2. sub'.promised <= End'
    BY <1>1, <2>1 DEF End
  <2> QED BY <2>1, <2>2 DEF PhaseInv
<1>9. CASE SendItem \/ RefetchFails \/ \E n \in 1..MaxLog : LiveWindow(n)
  <2>1. /\ UNCHANGED <<client, published, head>>
        /\ sub'.phase = sub.phase /\ sub'.promised = sub.promised /\ sub'.target = sub.target
        /\ sub'.next = sub.next
        /\ \/ sub.phase = "live"
           \/ sub.batch # <<>>
    BY <1>1, <1>9 DEF SendItem, RefetchFails, LiveWindow, serverVars, Subs, clientVars
  <2>2. sub.phase \in {"replay", "live"}
    BY <2>1 DEF PhaseInv
  <2>3. sub'.promised <= End'
    BY <2>1 DEF PhaseInv, End
  <2> QED BY <2>1, <2>2, <2>3 DEF PhaseInv
<1>10. CASE LoadHttpSnapshot
  <2>1. /\ UNCHANGED <<wire, published, head>> /\ wire = <<>>
        /\ sub'.phase = "head" /\ sub'.batch = <<>> /\ sub'.promised = 0 /\ sub'.target = 0
        /\ client'.data
    BY <1>1, <1>10 DEF LoadHttpSnapshot, WithSnapshot, serverVars, Request, NoSubscription, Clients,
       PhaseInv
  <2>2. sub'.promised <= End'
    BY <1>1, <2>1 DEF End
  <2> QED BY <2>1, <2>2 DEF PhaseInv
<1>11. CASE Receive
  <2>1. /\ UNCHANGED <<sub, published, head>>
        /\ \E x \in SentItems(log) : Take(x) /\ (FromOld(x) \/ FromWire(x))
    BY <1>11, ItemReceived
  <2>2. PICK x \in SentItems(log) : Take(x) /\ (FromOld(x) \/ FromWire(x))
    BY <2>1
  <2>3. /\ client.data => client'.data
        /\ client'.session = "loaded" => client.session = "loaded" \/ client'.data
        /\ client'.status = "live" => client.status = "live" \/ client'.data
    <3>1. CASE TakeMarker(x)
      BY <1>1, <3>1 DEF TakeMarker, Clients
    <3>2. CASE TakeSnapshot(x)
      BY <1>1, <3>2 DEF TakeSnapshot, WithSnapshot, Clients
    <3>3. CASE TakeRow(x)
      BY <1>1, <3>3 DEF TakeRow, Clients
    <3> QED BY <2>2, <3>1, <3>2, <3>3 DEF Take
  <2>4. wire' = wire \/ wire # <<>>
    BY <2>2 DEF FromOld, FromWire
  <2> QED BY <2>1, <2>3, <2>4 DEF PhaseInv, End
<1>12. CASE Breaks
  <2>1. /\ sub' = NoSubscription /\ wire' = <<>> /\ client'.data = client.data
        /\ client'.session \in {"new", client.session} /\ client'.status \in {"cached", client.status}
        /\ published' \in Nat
    BY <1>1, <1>12, BreakLeaves
  <2>2. sub'.phase = "off" /\ sub'.batch = <<>> /\ sub'.promised = 0 /\ sub'.promised <= End'
    BY <2>1 DEF NoSubscription, End
  <2> QED BY <2>1, <2>2 DEF PhaseInv
<1> QED BY <1>2, <1>3, <1>4, <1>5, <1>6, <1>7, <1>8, <1>9, <1>10, <1>11, <1>12
        DEF Next, EngineStep, HandlerStep, HttpStep, Breaks

(* Bounds only move up while a subscription sends.                         *)
LEMMA OrderKept ==
  ASSUME TypeInv, OrderInv, UNCHANGED <<wire, old, client>>, sub'.phase = sub.phase,
         sub'.batch = sub.batch, sub'.promised = sub.promised, End' \in Nat, End <= End'
  PROVE  OrderInv'
<1>1. Len(wire) \in Nat /\ Len(sub.batch) \in Nat /\ End \in Nat
  BY Typed
<1>2. ASSUME NEW j \in 1..Len(wire) PROVE ItemInOrder(wire[j], j)'
  <2>1. wire \in Seq(SentItems(log))
    BY DEF TypeInv, WireInv
  <2>2. PICK x \in SentItems(log) : x = wire[j]
    BY <2>1, ElementOfSeq
  <2>3. x.kind \in {"snapshot", "row"} => x.seq \in Nat
    <3>1. /\ x.kind = "snapshot" => x.seq \in 0..Len(log)
          /\ x.kind = "row" => x.seq \in 1..Len(log)
      BY ItemSays
    <3>2. Len(log) \in Nat
      BY Typed
    <3> QED BY <3>1, <3>2
  <2>4. ItemInOrder(x, j)
    BY <2>2 DEF OrderInv
  <2>5. wire'[j] = x
    BY <2>2
  <2> QED BY <1>1, <2>3, <2>4, <2>5 DEF ItemInOrder
<1>3. \A j \in 1..Len(sub.batch) : sub.batch[j] <= End'
  <2> SUFFICES ASSUME NEW j \in 1..Len(sub.batch) PROVE sub.batch[j] <= End'
    OBVIOUS
  <2>1. sub.batch[j] \in Nat
    BY Typed
  <2>2. sub.batch[j] <= End
    BY DEF OrderInv
  <2> QED BY <1>1, <2>1, <2>2
<1> QED BY <1>2, <1>3 DEF OrderInv

(* A batch that was coalesced from events within bounds.                   *)
LEMMA OrderBatched ==
  ASSUME TypeInv, OrderInv, UNCHANGED <<wire, old, client, published>>,
         sub'.phase = sub.phase \/ sub.phase \notin {"synchronize", "live"} \/ sub'.phase = "live",
         sub.phase = "live" => sub'.promised = sub.promised,
         sub.phase \in {"replay", "synchronize", "live"},
         sub'.phase \in {"synchronize", "live"} =>
            (sub.phase \in {"synchronize", "live"} \/ client.data),
         sub.phase = "live" => sub'.phase = "live",
         sub'.target = sub.target,
         \A j \in 1..Len(sub'.batch) :
            sub'.batch[j] <= End /\ (sub'.batch[j] = Marker => sub'.phase = "live")
  PROVE  OrderInv'
<1>1. End' = End
  BY DEF End
<1>2. \A j \in 1..Len(wire) : ItemInOrder(wire[j], j)'
  BY <1>1 DEF OrderInv, ItemInOrder
<1> QED BY <1>1, <1>2 DEF OrderInv

(* One more item is sent.                                                  *)
LEMMA OrderSent ==
  ASSUME TypeInv, OrderInv, UNCHANGED <<old, client, published>>, sub'.promised = sub.promised,
         NEW x \in SentItems(log), wire' = Append(wire, x),
         NEW k, k = Len(wire) + 1, ItemInOrder(x, k)',
         End' = End \/ wire = <<>>,
         sub'.phase = sub.phase \/ wire = <<>>,
         sub'.phase \in {"synchronize", "live"} /\ ~client.data =>
            (sub'.phase = sub.phase \/ x.kind = "snapshot"),
         \A j \in 1..Len(sub'.batch) :
            sub'.batch[j] <= End' /\ (sub'.batch[j] = Marker => sub'.phase = "live")
  PROVE  OrderInv'
<1>1. wire \in Seq(SentItems(log)) /\ Len(wire) \in Nat
  BY Typed DEF TypeInv, WireInv
<1>2. /\ Len(wire') = Len(wire) + 1 /\ wire' # <<>> /\ wire'[Len(wire) + 1] = x
      /\ \A j \in 1..Len(wire) : wire'[j] = wire[j]
  <2>1. wire \in Seq(SentItems(log))
    BY <1>1
  <2> QED BY <2>1, AppendProperties
<1>3. wire = <<>> => Len(wire) = 0
  BY EmptySeq
<1>4. wire # <<>> => 1 \in 1..Len(wire)
  <2>1. wire \in Seq(SentItems(log))
    BY <1>1
  <2>2. wire # <<>> => Len(wire) \in Nat \ {0}
    BY <2>1, EmptySeq
  <2> QED BY <2>2
<1>5. ASSUME NEW j \in 1..Len(wire') PROVE ItemInOrder(wire[j], j)'
  <2>1. CASE j = k
    <3>1. wire'[j] = x
      BY <1>2, <2>1
    <3> QED BY <2>1, <3>1 DEF ItemInOrder
  <2>2. CASE j # k
    <3>1. j \in 1..Len(wire) /\ wire'[j] = wire[j] /\ wire # <<>>
      BY <1>1, <1>2, <1>3, <2>2
    <3>2. End' = End /\ sub'.phase = sub.phase
      BY <3>1
    <3> QED BY <3>1, <3>2 DEF OrderInv, ItemInOrder
  <2> QED BY <2>1, <2>2
<1>6. sub'.phase \in {"synchronize", "live"} /\ ~client.data => wire'[1].kind = "snapshot"
  <2>1. CASE wire = <<>>
    <3>1. wire'[1] = x
      BY <1>2, <1>3, <2>1
    <3> QED BY <2>1, <3>1 DEF OrderInv
  <2>2. CASE wire # <<>>
    <3>1. wire'[1] = wire[1]
      BY <1>2, <1>4, <2>2
    <3> QED BY <2>2, <3>1 DEF OrderInv
  <2> QED BY <2>1, <2>2
<1> QED BY <1>2, <1>5, <1>6 DEF OrderInv

(* What is left of a batch.                                                *)
LEMMA BatchTail ==
  ASSUME TypeInv, sub.batch # <<>>
  PROVE  /\ Head(sub.batch) = sub.batch[1] /\ 1 \in 1..Len(sub.batch)
         /\ Head(sub.batch) \in 0..Len(log)
         /\ Len(Tail(sub.batch)) = Len(sub.batch) - 1
         /\ \A j \in 1..Len(sub.batch) - 1 :
                j + 1 \in 1..Len(sub.batch) /\ Tail(sub.batch)[j] = sub.batch[j + 1]
<1>1. sub.batch \in Seq(0..Len(log))
  BY Typed DEF Subs
<1>2. Len(sub.batch) \in Nat \ {0}
  BY <1>1, EmptySeq
<1>3. /\ Head(sub.batch) \in 0..Len(log) /\ Len(Tail(sub.batch)) = Len(sub.batch) - 1
      /\ \A j \in 1..Len(Tail(sub.batch)) : Tail(sub.batch)[j] = sub.batch[j + 1]
  BY <1>1, HeadTailProperties
<1>4. Head(sub.batch) = sub.batch[1]
  BY <1>1
<1> QED BY <1>2, <1>3, <1>4

(* The events of a batch are among those it was coalesced from.            *)
LEMMA SynchronizedBatch ==
  ASSUME TypeInv
  PROVE  /\ Len(Coalesce(sub.buffer)) \in Nat
         /\ KeepsLast(Coalesce(sub.buffer), log, sub.buffer, Len(sub.buffer))
         /\ Len(SynchronizeBatch) = Len(Coalesce(sub.buffer)) + 1
         /\ SynchronizeBatch[Len(Coalesce(sub.buffer)) + 1] = Marker
         /\ \A j \in 1..Len(Coalesce(sub.buffer)) : SynchronizeBatch[j] = Coalesce(sub.buffer)[j]
<1>1. sub.buffer \in Seq(1..Len(log)) /\ Ascends(sub.buffer) /\ 1..Len(log) \subseteq Nat
  BY Typed DEF Subs, TypeInv, BufferInv
<1> DEFINE r == Coalesce(sub.buffer)
<1>2. r \in Seq(1..Len(log)) /\ KeepsLast(r, log, sub.buffer, Len(sub.buffer))
  BY <1>1, CoalesceType
<1>3. SynchronizeBatch = Append(r, 0) /\ Marker = 0
  BY DEF SynchronizeBatch, Marker
<1> HIDE DEF r
<1>4. r \in Seq(Nat) /\ 0 \in Nat
  <2>1. r \in Seq(1..Len(log))
    BY <1>2
  <2> QED BY <1>1, <2>1, SeqMonotonic
<1>5. /\ Len(Append(r, 0)) = Len(r) + 1 /\ Append(r, 0)[Len(r) + 1] = 0
      /\ \A j \in 1..Len(r) : Append(r, 0)[j] = r[j]
  BY <1>4, AppendProperties
<1>6. Len(r) \in Nat
  BY <1>4, LenProperties
<1> QED BY <1>2, <1>3, <1>5, <1>6 DEF r

LEMMA LiveBatch ==
  ASSUME TypeInv, NEW n \in 1..Len(sub.buffer)
  PROVE  /\ Len(SubSeq(sub.buffer, 1, n)) = n
         /\ \A i \in 1..n : i \in 1..Len(sub.buffer) /\ SubSeq(sub.buffer, 1, n)[i] = sub.buffer[i]
         /\ Ascends(SubSeq(sub.buffer, 1, n))
         /\ Len(SubSeq(sub.buffer, n + 1, Len(sub.buffer))) = Len(sub.buffer) - n
         /\ \A i \in 1..Len(sub.buffer) - n :
                /\ n + i \in 1..Len(sub.buffer)
                /\ SubSeq(sub.buffer, n + 1, Len(sub.buffer))[i] = sub.buffer[n + i]
         /\ KeepsLast(Coalesce(SubSeq(sub.buffer, 1, n)), log, SubSeq(sub.buffer, 1, n), n)
<1> DEFINE b == sub.buffer
           p == SubSeq(b, 1, n)
           q == SubSeq(b, n + 1, Len(b))
<1>1. b \in Seq(1..Len(log)) /\ Ascends(b) /\ 1..Len(log) \subseteq Nat /\ Len(b) \in Nat
  BY Typed DEF Subs, TypeInv, BufferInv
<1>2. n \in 0..Len(b) /\ n \in 1..Len(b)
  BY <1>1
<1> HIDE DEF b
<1>3. /\ p \in Seq(1..Len(log)) /\ Len(p) = n /\ Ascends(p)
      /\ \A i \in 1..n : p[i] = b[i]
      /\ Len(q) = Len(b) - n /\ \A i \in 1..Len(b) - n : q[i] = b[n + i]
  BY SMTT(40), <1>1, <1>2, PartsAscend
<1> HIDE DEF p, q
<1>4. KeepsLast(Coalesce(p), log, p, Len(p))
  BY <1>1, <1>3, CoalesceType
<1>5. \A i \in 1..n : i \in 1..Len(b)
  BY <1>1, <1>2
<1>6. \A i \in 1..Len(b) - n : n + i \in 1..Len(b)
  BY <1>1, <1>2
<1> QED BY <1>3, <1>4, <1>5, <1>6 DEF b, p, q

LEMMA ReplayBatch ==
  ASSUME TypeInv, PhaseInv, NEW n, ReplayWindow(n)
  PROVE  /\ n \in Nat /\ sub.next < n /\ n <= sub.target
         /\ sub' = [sub EXCEPT !.batch = Coalesce([i \in 1..(n - sub.next) |-> sub.next + i]), !.next = n]
         /\ Len([i \in 1..(n - sub.next) |-> sub.next + i]) = n - sub.next
         /\ Ascends([i \in 1..(n - sub.next) |-> sub.next + i])
         /\ KeepsLast(Coalesce([i \in 1..(n - sub.next) |-> sub.next + i]), log,
                      [i \in 1..(n - sub.next) |-> sub.next + i], n - sub.next)
<1> DEFINE s == [i \in 1..(n - sub.next) |-> sub.next + i]
<1>1. n \in sub.next + 1 .. sub.target /\ sub' = [sub EXCEPT !.batch = Coalesce(s), !.next = n]
  BY DEF ReplayWindow
<1>2. sub.next \in Nat /\ sub.target \in Nat
  BY Typed
<1>3. n \in Nat /\ sub.next < n /\ n <= sub.target /\ sub.next + 1 .. n \subseteq Nat
  BY <1>1, <1>2
<1>4. s \in Seq(sub.next + 1 .. n) /\ Len(s) = n - sub.next /\ Ascends(s)
  BY <1>2, <1>3, ReplayedWindow
<1> HIDE DEF s
<1>5. KeepsLast(Coalesce(s), log, s, Len(s))
  BY <1>3, <1>4, CoalesceType
<1> QED BY <1>1, <1>3, <1>4, <1>5 DEF s

LEMMA NextOrderInv ==
  ASSUME TypeInv, PhaseInv, OrderInv, Next PROVE OrderInv'
<1>1. /\ sub \in Subs(Len(log)) /\ client \in Clients(Len(log))
      /\ Len(log) \in Nat /\ head \in Nat /\ published \in Nat
      /\ published <= head /\ head <= Len(log)
      /\ sub.next \in Nat /\ sub.target \in Nat /\ sub.promised \in Nat /\ client.cursor \in Nat
      /\ End \in Nat /\ published <= End /\ sub.target <= End /\ client.cursor <= Len(log)
  BY Typed
<1>2. Len(<<>>) = 0 /\ 1..0 = {}
  BY EmptySeq
<1>3. ASSUME wire' = <<>>, sub'.batch = <<>>, sub'.phase \notin {"synchronize", "live"} \/ client'.data,
             client'.data \/ (old' = old /\ client'.data = client.data)
      PROVE  OrderInv'
  BY <1>2, <1>3 DEF OrderInv
<1>4. CASE (\E batch \in Batches : Commit(batch)) \/ AdvanceHead \/ Publish
  <2>1. /\ UNCHANGED <<wire, old, client>> /\ sub'.phase = sub.phase /\ sub'.batch = sub.batch
        /\ sub'.target = sub.target /\ sub'.promised = sub.promised
        /\ published' \in Nat /\ published <= published'
    <3>1. CASE (\E batch \in Batches : Commit(batch)) \/ AdvanceHead
      BY <1>1, <3>1 DEF Commit, AdvanceHead, Feed!CommitBatch, Feed!AdvanceHead, clientVars
    <3>2. CASE Publish
      BY <1>1, <3>2 DEF Publish, Feed!PublishNext, Subs, clientVars
    <3> QED BY <1>4, <3>1, <3>2
  <2>2. End' \in Nat /\ End <= End'
    BY <1>1, <2>1 DEF End
  <2> QED BY <2>1, <2>2, OrderKept
<1>5. CASE Subscribe \/ ChooseStart \/ HttpStep \/ ReadHead
  <2>1. ~Streaming /\ wire = <<>> /\ sub.batch = <<>>
    BY <1>5 DEF Subscribe, ChooseStart, HttpStep, LoadHttpSnapshot, MissHttpSnapshot, ReadHead,
       Streaming, PhaseInv
  <2>2. wire' = <<>> /\ old' = old
    BY <1>5, <2>1 DEF Subscribe, ChooseStart, HttpStep, LoadHttpSnapshot, MissHttpSnapshot, ReadHead,
       clientVars
  <2>3. sub'.batch = <<>> /\ sub'.phase \notin {"synchronize", "live"}
    BY <1>1, <1>5, <2>1 DEF Subscribe, ChooseStart, HttpStep, LoadHttpSnapshot, MissHttpSnapshot,
       ReadHead, Request, NoSubscription, Subs
  <2>4. client'.data \/ client'.data = client.data
    BY <1>1, <1>5 DEF Subscribe, ChooseStart, HttpStep, LoadHttpSnapshot, MissHttpSnapshot,
       WithSnapshot, ReadHead, clientVars, Clients
  <2> QED BY <1>3, <2>2, <2>3, <2>4
<1>6. CASE \E n \in 1..MaxLog : ReplayWindow(n)
  <2>1. PICK n \in 1..MaxLog : ReplayWindow(n)
    BY <1>6
  <2> DEFINE s == [i \in 1..(n - sub.next) |-> sub.next + i]
             r == Coalesce(s)
  <2>2. /\ n \in Nat /\ sub.next < n /\ n <= sub.target
        /\ sub' = [sub EXCEPT !.batch = r, !.next = n]
        /\ KeepsLast(r, log, s, n - sub.next)
    BY <2>1, ReplayBatch
  <2>3. \A i \in 1..(n - sub.next) : s[i] = sub.next + i
    OBVIOUS
  <2> HIDE DEF s, r
  <2>4. ASSUME NEW j \in 1..Len(r) PROVE r[j] <= End /\ r[j] # Marker
    <3>1. PICK i \in 1..(n - sub.next) : r[j] = s[i]
      BY <2>2 DEF KeepsLast
    <3>2. r[j] = sub.next + i
      BY <2>3, <3>1
    <3> QED BY SMTT(40), <1>1, <2>2, <3>2 DEF Marker
  <2>5. /\ UNCHANGED <<wire, old, client, published>> /\ sub.phase = "replay"
        /\ sub'.phase = sub.phase /\ sub'.target = sub.target /\ sub'.batch = r
        /\ sub'.promised = sub.promised
    BY <1>1, <2>1, <2>2 DEF ReplayWindow, serverVars, Subs, clientVars
  <2> QED BY <2>4, <2>5, OrderBatched
<1>7. CASE ReplayEnds
  <2>1. /\ UNCHANGED <<wire, old, client, published>> /\ sub.phase = "replay" /\ client.data
        /\ sub'.phase = "synchronize" /\ sub'.target = sub.target /\ sub'.batch = <<>>
    BY <1>1, <1>7 DEF ReplayEnds, serverVars, Subs, PhaseInv, clientVars
  <2> QED BY <1>2, <2>1, OrderBatched
<1>8. CASE Synchronize
  <2> DEFINE r == Coalesce(sub.buffer)
  <2>1. /\ UNCHANGED <<wire, old, client, published>> /\ sub.phase = "synchronize"
        /\ sub'.phase = "live" /\ sub'.target = sub.target /\ sub'.batch = SynchronizeBatch
    BY <1>1, <1>8 DEF Synchronize, serverVars, Subs, clientVars
  <2>2. /\ Len(r) \in Nat /\ KeepsLast(r, log, sub.buffer, Len(sub.buffer))
        /\ Len(SynchronizeBatch) = Len(r) + 1 /\ SynchronizeBatch[Len(r) + 1] = Marker
        /\ \A j \in 1..Len(r) : SynchronizeBatch[j] = r[j]
    BY SynchronizedBatch
  <2> HIDE DEF r
  <2>3. ASSUME NEW j \in 1..Len(SynchronizeBatch) PROVE SynchronizeBatch[j] <= End
    <3>1. CASE j \in 1..Len(r)
      <4>1. PICK i \in 1..Len(sub.buffer) : r[j] = sub.buffer[i]
        BY <2>2, <3>1 DEF KeepsLast
      <4>2. sub.buffer[i] \in Nat /\ sub.buffer[i] <= published
        BY Typed
      <4> QED BY <1>1, <2>2, <3>1, <4>1, <4>2
    <3>2. CASE j = Len(r) + 1
      BY <1>1, <2>2, <3>2 DEF Marker
    <3> QED BY <2>2, <3>1, <3>2
  <2> QED BY <2>1, <2>3, OrderBatched
<1>9. CASE \E n \in 1..MaxLog : LiveWindow(n)
  <2>1. PICK n \in 1..MaxLog : LiveWindow(n)
    BY <1>9
  <2> DEFINE p == SubSeq(sub.buffer, 1, n)
             r == Coalesce(p)
  <2>2. /\ UNCHANGED <<wire, old, client, published>> /\ sub.phase = "live" /\ n \in 1..Len(sub.buffer)
        /\ sub'.phase = sub.phase /\ sub'.target = sub.target /\ sub'.batch = r
        /\ sub'.promised = sub.promised
    BY <1>1, <2>1 DEF LiveWindow, serverVars, Subs, clientVars
  <2>3. /\ KeepsLast(r, log, p, n)
        /\ \A i \in 1..n : i \in 1..Len(sub.buffer) /\ p[i] = sub.buffer[i]
    BY <2>2, LiveBatch
  <2> HIDE DEF p, r
  <2>4. ASSUME NEW j \in 1..Len(r) PROVE r[j] <= End
    <3>1. PICK i \in 1..n : r[j] = p[i]
      BY <2>3 DEF KeepsLast
    <3>2. i \in 1..Len(sub.buffer) /\ r[j] = sub.buffer[i]
      BY <2>3, <3>1
    <3>3. sub.buffer[i] \in Nat /\ sub.buffer[i] <= published
      BY <3>2, Typed
    <3> QED BY <1>1, <3>2, <3>3
  <2> QED BY <2>2, <2>4, OrderBatched
<1>10. CASE SendSnapshot
  <2>0. PICK x : x = SnapshotItem(log, Len(log))
    OBVIOUS
  <2>1. /\ UNCHANGED <<old, client, published>> /\ wire = <<>> /\ wire' = Append(wire, x)
        /\ x \in SentItems(log) /\ sub'.phase = "synchronize" /\ sub'.batch = <<>>
        /\ sub'.target = Len(log) /\ sub'.promised = sub.promised
    BY <1>1, <1>10, <2>0, SnapshotSent
       DEF SendSnapshot, serverVars, Subs, PhaseInv, Streaming, clientVars
  <2>2. x.kind = "snapshot" /\ x.seq = Len(log)
    BY <2>0 DEF SnapshotItem
  <2>3. End' = Len(log)
    BY <1>1, <2>1 DEF End
  <2>4. ItemInOrder(x, 1)' /\ 1 = Len(wire) + 1
    BY <1>1, <1>2, <2>1, <2>2, <2>3 DEF ItemInOrder
  <2> QED BY <1>2, <2>1, <2>2, <2>4, OrderSent
<1>11. CASE SendItem
  <2> DEFINE n == Head(sub.batch)
  <2>1. PICK x \in SentItems(log) :
            /\ wire' = Append(wire, x)
            /\ n = Marker => x = MarkerItem(sub.promised)
            /\ n # Marker => \E m \in n..Len(log) : x = RowItem(log, n, m)
    BY <1>11, ItemSent
  <2>2. /\ UNCHANGED <<old, client, published>> /\ sub.batch # <<>>
        /\ sub'.phase = sub.phase /\ sub'.target = sub.target /\ sub'.batch = Tail(sub.batch)
        /\ sub'.promised = sub.promised
    BY <1>1, <1>11 DEF SendItem, serverVars, Subs, clientVars
  <2>3. End' = End
    BY <2>2 DEF End
  <2>4. /\ n = sub.batch[1] /\ 1 \in 1..Len(sub.batch)
        /\ Len(Tail(sub.batch)) = Len(sub.batch) - 1
        /\ \A j \in 1..Len(sub.batch) - 1 :
              j + 1 \in 1..Len(sub.batch) /\ Tail(sub.batch)[j] = sub.batch[j + 1]
    BY <2>2, BatchTail
  <2>5. n <= End /\ (n = Marker => sub.phase = "live")
    BY <2>4 DEF OrderInv
  <2> HIDE DEF n
  <2> PICK k : k = Len(wire) + 1
    OBVIOUS
  <2>6. ItemInOrder(x, k)'
    <3>1. CASE n = Marker
      BY <2>1, <2>2, <2>5, <3>1 DEF ItemInOrder, MarkerItem
    <3>2. CASE n # Marker
      BY <2>1, <2>3, <2>5, <3>2 DEF ItemInOrder, RowItem
    <3> QED BY <3>1, <3>2
  <2>7. \A j \in 1..Len(sub'.batch) :
            sub'.batch[j] <= End' /\ (sub'.batch[j] = Marker => sub'.phase = "live")
    BY <2>2, <2>3, <2>4 DEF OrderInv
  <2> QED BY <2>1, <2>2, <2>3, <2>6, <2>7, OrderSent
<1>12. CASE RefetchFails
  <2>1. /\ UNCHANGED <<wire, old, client, published>> /\ sub.batch # <<>>
        /\ sub'.phase = sub.phase /\ sub'.target = sub.target /\ sub'.batch = Tail(sub.batch)
        /\ sub'.promised = sub.promised
    BY <1>1, <1>12 DEF RefetchFails, serverVars, Subs, clientVars
  <2>2. /\ Len(Tail(sub.batch)) = Len(sub.batch) - 1
        /\ \A j \in 1..Len(sub.batch) - 1 :
              j + 1 \in 1..Len(sub.batch) /\ Tail(sub.batch)[j] = sub.batch[j + 1]
    BY <2>1, BatchTail
  <2>3. sub.phase \in {"replay", "synchronize", "live"}
    BY <2>1 DEF PhaseInv, Streaming
  <2>4. \A j \in 1..Len(sub'.batch) :
            sub'.batch[j] <= End /\ (sub'.batch[j] = Marker => sub'.phase = "live")
    BY <2>1, <2>2 DEF OrderInv
  <2> QED BY <2>1, <2>3, <2>4, OrderBatched
<1>13. CASE Receive
  <2>1. /\ UNCHANGED <<sub, published>>
        /\ \E x \in SentItems(log) : Take(x) /\ (FromOld(x) \/ FromWire(x))
    BY <1>13, ItemReceived
  <2>2. PICK x \in SentItems(log) : Take(x) /\ (FromOld(x) \/ FromWire(x))
    BY <2>1
  <2>3. /\ client.data => client'.data
        /\ x.kind = "snapshot" => client'.data
    <3>1. CASE TakeMarker(x)
      BY <1>1, <3>1 DEF TakeMarker, Clients
    <3>2. CASE TakeSnapshot(x)
      BY <1>1, <3>2 DEF TakeSnapshot, WithSnapshot, Clients
    <3>3. CASE TakeRow(x)
      BY <1>1, <3>3 DEF TakeRow, Clients
    <3> QED BY <2>2, <3>1, <3>2, <3>3 DEF Take
  <2>4. End' = End
    BY <2>1 DEF End
  <2>5. CASE FromOld(x)
    <3>1. wire' = wire /\ client'.data
      BY <2>3, <2>5 DEF FromOld, OrderInv
    <3> QED BY <2>1, <2>4, <3>1 DEF OrderInv, ItemInOrder
  <2>6. CASE FromWire(x)
    <3>1. /\ x = wire[1] /\ Len(wire) \in Nat /\ Len(wire') = Len(wire) - 1 /\ old' = <<>>
          /\ \A i \in 1..Len(wire) - 1 : wire'[i] = wire[i + 1]
      <4>1. wire \in Seq(SentItems(log)) /\ wire # <<>>
        BY <2>6 DEF FromWire, TypeInv, WireInv
      <4> QED BY <2>6, <4>1, FirstItem DEF FromWire
    <3>2. ASSUME NEW j \in 1..Len(wire') PROVE ItemInOrder(wire[j], j)'
      <4>1. j + 1 \in 1..Len(wire) /\ wire'[j] = wire[j + 1] /\ j + 1 # 1
        BY <3>1
      <4>2. ItemInOrder(wire[j + 1], j + 1)
        BY <4>1 DEF OrderInv
      <4> QED BY <2>1, <2>4, <4>1, <4>2 DEF ItemInOrder
    <3>3. sub'.phase \in {"synchronize", "live"} => client'.data
      BY <2>1, <2>3, <3>1 DEF OrderInv
    <3> QED BY <2>1, <2>4, <3>1, <3>2, <3>3 DEF OrderInv
  <2> QED BY <2>2, <2>5, <2>6
<1>14. CASE Breaks
  <2>1. sub' = NoSubscription /\ wire' = <<>> /\ client'.data = client.data
    BY <1>14, BreakLeaves
  <2>2. PICK n \in 0..Len(wire) : old' = Kept(n)
    BY <1>14, BreakLeaves
  <2>3. /\ Kept(n) \in Seq(SentItems(log)) /\ Len(Kept(n)) = Len(old) + n
        /\ Len(old) \in Nat /\ Len(wire) \in Nat
        /\ \A i \in 1..Len(old) : Kept(n)[i] = old[i]
        /\ \A i \in 1..n : Kept(n)[Len(old) + i] = wire[i]
    BY KeptItems DEF TypeInv
  <2>4. ASSUME ~client.data, Kept(n) # <<>> PROVE Kept(n)[1].kind = "snapshot"
    <3>1. CASE old # <<>>
      <4>1. old \in Seq(SentItems(log))
        BY DEF TypeInv, WireInv
      <4>2. 1 \in 1..Len(old)
        BY <3>1, <4>1, FirstItem
      <4> QED BY <2>3, <2>4, <3>1, <4>2 DEF OrderInv
    <3>2. CASE old = <<>>
      <4>1. Len(old) = 0
        BY <3>2, EmptySeq
      <4>2. n # 0
        <5>1. n = 0 => Len(Kept(n)) = 0
          BY <2>3, <4>1
        <5>2. Kept(n) \in Seq(SentItems(log))
          BY <2>3
        <5> QED BY <2>4, <5>1, <5>2, EmptySeq
      <4>3. 1 \in 1..n /\ 1 \in 1..Len(wire) /\ Len(old) + 1 = 1
        BY <2>3, <4>1, <4>2
      <4>4. wire # <<>> /\ Kept(n)[1] = wire[1]
        BY <1>2, <2>3, <4>3
      <4>5. sub.phase \in {"synchronize", "live"}
        BY <2>4, <4>4 DEF PhaseInv, Streaming
      <4> QED BY <2>4, <4>4, <4>5 DEF OrderInv
    <3> QED BY <3>1, <3>2
  <2>5. Len(wire') = 0 /\ Len(sub'.batch) = 0 /\ sub'.phase = "off"
    BY <1>2, <2>1 DEF NoSubscription
  <2> QED BY <1>2, <2>1, <2>2, <2>4, <2>5 DEF OrderInv
<1> QED BY <1>4, <1>5, <1>6, <1>7, <1>8, <1>9, <1>10, <1>11, <1>12, <1>13, <1>14
        DEF Next, EngineStep, HandlerStep, Breaks

-----------------------------------------------------------------------------
(* What is still to come.  The newest event of an aggregate up to P is     *)
(* never coalesced away by a window that ends at or before P, so it must   *)
(* reach the client, and before anything that follows it.                  *)
Newest(P) ==
    {d \in 1..P : /\ log[d].agg \notin stranded
                  /\ \A e \in d + 1 .. P : log[e].agg # log[d].agg}

Brings(x, d) ==
    \/ x.kind = "snapshot" /\ d <= x.seq
    \/ x.kind = "row" /\ d = x.seq
Passes(x, d) == x.seq < d
Leaves(n, d) == IF n = Marker THEN sub.promised < d ELSE n < d

In(q, d) == \E j \in 1..Len(q) : Brings(q[j], d) /\ \A i \in 1..(j - 1) : Passes(q[i], d)
Pass(q, d) == \A i \in 1..Len(q) : Passes(q[i], d)
InBatch(d) ==
    \E j \in 1..Len(sub.batch) : sub.batch[j] = d /\ \A i \in 1..(j - 1) : Leaves(sub.batch[i], d)
PassBatch(d) == \A i \in 1..Len(sub.batch) : Leaves(sub.batch[i], d)
InBuffer(d) == \E i \in 1..Len(sub.buffer) : sub.buffer[i] = d
Later(d) == IF sub.phase = "replay" /\ d <= sub.target THEN sub.next < d ELSE InBuffer(d)

(* An event is on the wire, or behind it in the batch, or behind both.     *)
Coming(d) == In(wire, d) \/ (Pass(wire, d) /\ (InBatch(d) \/ (PassBatch(d) /\ Later(d))))

(* The positions up to which rows have to be right: the end of the log, as *)
(* far as the head, or the running stream, has not reached it, and what    *)
(* was promised, by a marker of this stream or of an ended one.            *)
IsPoint(P) ==
    \/ P \in head..Len(log)
    \/ Streaming /\ P \in End..Len(log)
    \/ sub.phase = "live" /\ P = sub.promised
OldPoint(P) ==
    \/ P = client.told
    \/ \E j \in 1..Len(old) : old[j].kind = "synchronized" /\ P = old[j].seq

(* What resumes after the cursor, as it was, still does.                   *)
HeadInv ==
    sub.phase = "head" =>
        \A d \in 1..Len(log) : log[d].agg \notin stranded /\ client.cursor < d => sub.next < d

NothingSkipped ==
    Streaming =>
        \A P : IsPoint(P) =>
            \A d \in Newest(P) : client.cursor < d /\ d <= End => Coming(d)

(* Items of ended streams bring an event or stay before it.                *)
OldSkipsNothing ==
    \A P : IsPoint(P) \/ OldPoint(P) =>
        \A d \in Newest(P) : client.cursor < d => In(old, d) \/ Pass(old, d)

RowsFollow ==
    client.data =>
        \A P : IsPoint(P) \/ OldPoint(P) =>
            \A a \in Aggregates \ stranded :
                (\A e \in client.cursor + 1 .. P : log[e].agg # a) =>
                    \E n \in P..Len(log) : client.rows[a] = RowIn(log, a, n)

(* Once a marker has arrived, nothing of what it promised is to come.      *)
ToldInv == \A d \in Newest(client.told) : d <= client.cursor
MarkerInv ==
    sub.phase = "live" =>
        \/ \E j \in 1..Len(wire) : wire[j].kind = "synchronized"
        \/ \E j \in 1..Len(sub.batch) : sub.batch[j] = Marker
        \/ \A d \in Newest(sub.promised) : d <= client.cursor

FlowInv ==
    HeadInv /\ NothingSkipped /\ OldSkipsNothing /\ RowsFollow /\ ToldInv /\ MarkerInv

(* A point is a position of the log.                                       *)
LEMMA PointInLog ==
  ASSUME TypeInv, NEW P, IsPoint(P) \/ OldPoint(P)
  PROVE  P \in Nat /\ P <= Len(log)
<1>1. /\ Len(log) \in Nat /\ head \in Nat /\ End \in Nat /\ End <= Len(log)
      /\ sub.promised \in Nat /\ sub.promised <= Len(log)
      /\ client.told \in Nat /\ client.told <= Len(log)
  BY Typed
<1>2. ASSUME NEW j \in 1..Len(old), old[j].kind = "synchronized" PROVE old[j].seq \in 0..Len(log)
  <2>1. old \in Seq(SentItems(log))
    BY DEF TypeInv, WireInv
  <2>2. old[j] \in SentItems(log)
    BY <2>1, ElementOfSeq
  <2> QED BY <1>2, <2>2, MarkerSays
<1> QED BY <1>1, <1>2 DEF IsPoint, OldPoint

LEMMA NewestWas ==
  ASSUME LogGrows, stranded \subseteq stranded', NEW P \in Nat, NEW Q \in Nat, Q <= P,
         Q <= Len(log), NEW d \in Newest(P)', d <= Q
  PROVE  d \in Newest(Q)
<1>1. d \in 1..P /\ log'[d].agg \notin stranded' /\ \A e \in d + 1 .. P : log'[e].agg # log'[d].agg
  BY DEF Newest
<1>2. d \in 1..Q /\ \A e \in d + 1 .. Q : e \in d + 1 .. P /\ e \in 1..Len(log) /\ log'[e] = log[e]
  BY <1>1 DEF LogGrows
<1>3. log'[d] = log[d]
  BY <1>2 DEF LogGrows
<1> QED BY <1>1, <1>2, <1>3 DEF Newest

(* Every item names a position of the log.                                 *)
LEMMA SentInLog ==
  ASSUME TypeInv, NEW x \in SentItems(log)
  PROVE  x.seq \in Nat /\ x.seq <= Len(log)
<1>1. Len(log) \in Nat
  BY Typed
<1>2. x.kind = "row" => x.seq \in 1..Len(log)
  BY ItemSays
<1>3. x.kind = "snapshot" => x.seq \in 0..Len(log)
  BY ItemSays
<1>4. x.kind = "synchronized" => x.seq \in 0..Len(log)
  BY MarkerSays
<1>5. x.kind \in {"synchronized", "snapshot", "row"}
  BY ItemSays
<1> QED BY <1>1, <1>2, <1>3, <1>4, <1>5

(* What lies beyond everything published passes everything sent.           *)
LEMMA BeyondPasses ==
  ASSUME TypeInv, PhaseInv, OrderInv, NEW d \in Nat, End < d
  PROVE  Pass(wire, d) /\ PassBatch(d)
<1>1. End \in Nat /\ sub.promised \in Nat /\ sub.promised <= End /\ sub.promised < d
  <2>1. End \in Nat /\ sub.promised \in Nat /\ sub.promised <= End
    BY Typed DEF PhaseInv
  <2> QED BY <2>1
<1>2. ASSUME NEW i \in 1..Len(wire) PROVE Passes(wire[i], d)
  <2>1. wire \in Seq(SentItems(log))
    BY DEF TypeInv, WireInv
  <2>2. wire[i] \in SentItems(log)
    BY <2>1, ElementOfSeq
  <2>3. wire[i].seq \in Nat /\ wire[i].kind \in {"synchronized", "snapshot", "row"}
    BY <2>2, SentInLog, ItemSays
  <2>4. wire[i].seq <= End
    BY <1>1, <2>3 DEF OrderInv, ItemInOrder
  <2> QED BY <1>1, <2>3, <2>4 DEF Passes
<1>3. ASSUME NEW i \in 1..Len(sub.batch) PROVE Leaves(sub.batch[i], d)
  <2>1. sub.batch[i] \in Nat
    BY Typed
  <2>2. sub.batch[i] <= End
    BY DEF OrderInv
  <2> QED BY <1>1, <2>1, <2>2 DEF Leaves
<1> QED BY <1>2, <1>3 DEF Pass, PassBatch

LEMMA ComingKept ==
  ASSUME UNCHANGED wire, sub'.batch = sub.batch, sub'.promised = sub.promised,
         NEW d, Coming(d), Later(d) => Later(d)'
  PROVE  Coming(d)'
<1>1. In(wire, d) => In(wire, d)'
  BY DEF In, Brings, Passes
<1>2. Pass(wire, d) => Pass(wire, d)'
  BY DEF Pass, Passes
<1>3. InBatch(d) => InBatch(d)'
  BY DEF InBatch, Leaves
<1>4. PassBatch(d) => PassBatch(d)'
  BY DEF PassBatch, Leaves
<1> QED BY <1>1, <1>2, <1>3, <1>4 DEF Coming

(* A batch is made of what comes later.                                    *)
LEMMA ComingBatched ==
  ASSUME UNCHANGED wire, sub.batch = <<>>,
         NEW d, Coming(d), Later(d) => InBatch(d)' \/ (PassBatch(d)' /\ Later(d)')
  PROVE  Coming(d)'
<1>1. ~InBatch(d)
  <2>1. Len(<<>>) = 0 /\ 1..0 = {}
    BY EmptySeq
  <2> QED BY <2>1 DEF InBatch
<1>2. (In(wire, d) => In(wire, d)') /\ (Pass(wire, d) => Pass(wire, d)')
  BY DEF In, Pass, Brings, Passes
<1> QED BY <1>1, <1>2 DEF Coming

(* The first of the batch is sent.                                         *)
LEMMA ComingSent ==
  ASSUME TypeInv, sub.batch # <<>>, sub'.batch = Tail(sub.batch), sub'.promised = sub.promised,
         NEW x \in SentItems(log), wire' = Append(wire, x),
         Head(sub.batch) = Marker => x = MarkerItem(sub.promised),
         Head(sub.batch) # Marker => \E m \in Head(sub.batch)..Len(log) : x = RowItem(log, Head(sub.batch), m),
         NEW d \in Nat, d # 0, Coming(d), Later(d) => Later(d)'
  PROVE  Coming(d)'
<1>1. wire \in Seq(SentItems(log)) /\ Len(wire) \in Nat
  BY Typed DEF TypeInv, WireInv
<1>2. /\ Len(wire') = Len(wire) + 1 /\ wire'[Len(wire) + 1] = x
      /\ \A j \in 1..Len(wire) : wire'[j] = wire[j]
  <2>1. wire \in Seq(SentItems(log))
    BY <1>1
  <2> QED BY <2>1, AppendProperties
<1> DEFINE n == sub.batch[1]
<1>3. /\ Head(sub.batch) = n /\ 1 \in 1..Len(sub.batch) /\ Len(sub.batch) \in Nat
      /\ Len(sub'.batch) = Len(sub.batch) - 1
      /\ \A j \in 1..Len(sub.batch) - 1 :
            j + 1 \in 1..Len(sub.batch) /\ sub'.batch[j] = sub.batch[j + 1]
  BY BatchTail, Typed
<1>4. \A j \in 1..Len(wire) : j \in 1..Len(wire') /\ \A i \in 1..(j - 1) : i \in 1..Len(wire)
  BY <1>1, <1>2
<1>5. In(wire, d) => In(wire, d)'
  <2> SUFFICES ASSUME In(wire, d) PROVE In(wire, d)'
    OBVIOUS
  <2>1. PICK j \in 1..Len(wire) : Brings(wire[j], d) /\ \A i \in 1..(j - 1) : Passes(wire[i], d)
    BY DEF In
  <2>2. j \in 1..Len(wire') /\ wire'[j] = wire[j] /\ \A i \in 1..(j - 1) : wire'[i] = wire[i]
    BY <1>2, <1>4
  <2>3. Brings(wire'[j], d) /\ \A i \in 1..(j - 1) : Passes(wire[i], d)'
    BY <2>1, <2>2 DEF Brings, Passes
  <2> QED BY <2>2, <2>3 DEF In, Brings
<1>6. ASSUME Leaves(n, d), Pass(wire, d) PROVE Pass(wire, d)'
  <2>1. Passes(x, d)'
    <3>1. CASE n = Marker
      BY <1>3, <1>6, <3>1 DEF Leaves, Passes, MarkerItem
    <3>2. CASE n # Marker
      BY <1>3, <1>6, <3>2 DEF Leaves, Passes, RowItem
    <3> QED BY <3>1, <3>2
  <2>2. ASSUME NEW i \in 1..Len(wire') PROVE Passes(wire[i], d)'
    <3>1. CASE i \in 1..Len(wire)
      BY <1>2, <1>6, <3>1 DEF Pass, Passes
    <3>2. CASE i = Len(wire) + 1
      <4>1. wire'[i] = x
        BY <1>2, <3>2
      <4> QED BY <2>1, <4>1 DEF Passes
    <3> QED BY <1>1, <1>2, <3>1, <3>2
  <2> QED BY <2>2 DEF Pass
<1>7. ASSUME n = d, Pass(wire, d) PROVE In(wire, d)'
  <2>1. n # Marker
    BY <1>7 DEF Marker
  <2>2. Brings(x, d)
    BY <1>3, <1>7, <2>1 DEF Brings, RowItem
  <2>3. Len(wire) + 1 \in 1..Len(wire') /\ wire'[Len(wire) + 1] = x
    BY <1>1, <1>2
  <2>4. \A i \in 1..(Len(wire) + 1 - 1) : wire'[i] = wire[i] /\ i \in 1..Len(wire)
    BY <1>1, <1>2
  <2>5. \A i \in 1..(Len(wire) + 1 - 1) : Passes(wire[i], d)'
    BY <1>7, <2>4 DEF Pass, Passes
  <2>6. PICK k : k = Len(wire) + 1
    OBVIOUS
  <2>7. k \in 1..Len(wire') /\ Brings(wire'[k], d) /\ \A i \in 1..(k - 1) : Passes(wire[i], d)'
    BY <2>2, <2>3, <2>5, <2>6
  <2> QED BY <2>7 DEF In, Brings
<1>8. ASSUME InBatch(d), Pass(wire, d) PROVE Coming(d)'
  <2>1. PICK j \in 1..Len(sub.batch) :
            sub.batch[j] = d /\ \A i \in 1..(j - 1) : Leaves(sub.batch[i], d)
    BY <1>8 DEF InBatch
  <2>2. CASE j = 1
    BY <1>7, <1>8, <2>1, <2>2 DEF Coming
  <2>3. CASE j # 1
    <3>1. j - 1 \in 1..Len(sub.batch) - 1 /\ 1 \in 1..(j - 1) /\ (j - 1) + 1 = j
      BY <1>3, <2>3
    <3>2. j - 1 \in 1..Len(sub'.batch) /\ sub'.batch[j - 1] = d
      BY <1>3, <2>1, <3>1
    <3>3. ASSUME NEW i \in 1..(j - 1 - 1) PROVE Leaves(sub.batch[i], d)'
      <4>1. i + 1 \in 1..(j - 1) /\ i \in 1..Len(sub.batch) - 1
        BY <1>3, <3>1
      <4>2. sub'.batch[i] = sub.batch[i + 1] /\ Leaves(sub.batch[i + 1], d)
        BY <1>3, <2>1, <4>1
      <4> QED BY <4>2 DEF Leaves
    <3>4. InBatch(d)'
      BY <3>2, <3>3 DEF InBatch
    <3>5. Leaves(n, d)
      BY <2>1, <3>1
    <3> QED BY <1>6, <1>8, <3>4, <3>5 DEF Coming
  <2> QED BY <2>2, <2>3
<1>9. ASSUME PassBatch(d), Pass(wire, d), Later(d) PROVE Coming(d)'
  <2>1. Leaves(n, d)
    BY <1>3, <1>9 DEF PassBatch
  <2>2. ASSUME NEW i \in 1..Len(sub'.batch) PROVE Leaves(sub.batch[i], d)'
    <3>1. i + 1 \in 1..Len(sub.batch) /\ sub'.batch[i] = sub.batch[i + 1]
      BY <1>3
    <3>2. Leaves(sub.batch[i + 1], d)
      BY <1>9, <3>1 DEF PassBatch
    <3> QED BY <3>1, <3>2 DEF Leaves
  <2> QED BY <1>6, <1>9, <2>1, <2>2 DEF Coming, PassBatch
<1> QED BY <1>5, <1>8, <1>9 DEF Coming

(* The first of the batch is dropped, and it was another event.            *)
LEMMA ComingDropped ==
  ASSUME TypeInv, UNCHANGED wire, sub.batch # <<>>, sub'.batch = Tail(sub.batch),
         sub'.promised = sub.promised,
         NEW d, Head(sub.batch) # d, Coming(d), Later(d) => Later(d)'
  PROVE  Coming(d)'
<1>1. /\ Head(sub.batch) = sub.batch[1] /\ Len(sub.batch) \in Nat
      /\ Len(sub'.batch) = Len(sub.batch) - 1
      /\ \A j \in 1..Len(sub.batch) - 1 :
            j + 1 \in 1..Len(sub.batch) /\ sub'.batch[j] = sub.batch[j + 1]
  BY BatchTail, Typed
<1>2. In(wire, d) => In(wire, d)'
  BY DEF In, Brings, Passes
<1>3. Pass(wire, d) => Pass(wire, d)'
  BY DEF Pass, Passes
<1>4. ASSUME InBatch(d) PROVE InBatch(d)'
  <2>1. PICK j \in 1..Len(sub.batch) :
            sub.batch[j] = d /\ \A i \in 1..(j - 1) : Leaves(sub.batch[i], d)
    BY <1>4 DEF InBatch
  <2>2. j # 1
    BY <1>1, <2>1
  <2>3. j - 1 \in 1..Len(sub'.batch) /\ (j - 1) + 1 = j
    BY <1>1, <2>2
  <2>4. sub'.batch[j - 1] = d
    BY <1>1, <2>1, <2>3
  <2>5. ASSUME NEW i \in 1..(j - 1 - 1) PROVE Leaves(sub.batch[i], d)'
    <3>1. i + 1 \in 1..(j - 1) /\ i \in 1..Len(sub.batch) - 1
      BY <1>1, <2>3
    <3>2. sub'.batch[i] = sub.batch[i + 1] /\ Leaves(sub.batch[i + 1], d)
      BY <1>1, <2>1, <3>1
    <3> QED BY <3>2 DEF Leaves
  <2> QED BY <2>3, <2>4, <2>5 DEF InBatch
<1>5. ASSUME PassBatch(d) PROVE PassBatch(d)'
  <2> SUFFICES ASSUME NEW i \in 1..Len(sub'.batch) PROVE Leaves(sub.batch[i], d)'
    BY DEF PassBatch
  <2>1. i + 1 \in 1..Len(sub.batch) /\ sub'.batch[i] = sub.batch[i + 1]
    BY <1>1
  <2>2. Leaves(sub.batch[i + 1], d)
    BY <1>5, <2>1 DEF PassBatch
  <2> QED BY <2>1, <2>2 DEF Leaves
<1> QED BY <1>2, <1>3, <1>4, <1>5 DEF Coming

(* The first item arrives and did not bring the event.                     *)
LEMMA ComingReceived ==
  ASSUME TypeInv, UNCHANGED sub, wire # <<>>, wire' = Tail(wire),
         NEW d, ~Brings(wire[1], d), Coming(d)
  PROVE  Coming(d)'
<1>1. /\ Len(wire) \in Nat /\ Len(wire') = Len(wire) - 1
      /\ \A i \in 1..Len(wire) - 1 : wire'[i] = wire[i + 1]
  <2>1. wire \in Seq(SentItems(log))
    BY DEF TypeInv, WireInv
  <2> QED BY <2>1, FirstItem
<1>2. InBatch(d) = InBatch(d)' /\ PassBatch(d) = PassBatch(d)' /\ Later(d) = Later(d)'
  BY DEF InBatch, PassBatch, Later, InBuffer, Leaves
<1>3. ASSUME In(wire, d) PROVE In(wire, d)'
  <2>1. PICK j \in 1..Len(wire) : Brings(wire[j], d) /\ \A i \in 1..(j - 1) : Passes(wire[i], d)
    BY <1>3 DEF In
  <2>2. j # 1
    BY <2>1
  <2>3. j - 1 \in 1..Len(wire') /\ (j - 1) + 1 = j /\ j - 1 \in 1..Len(wire) - 1
    BY <1>1, <2>2
  <2>4. wire'[j - 1] = wire[j]
    BY <1>1, <2>3
  <2>5. ASSUME NEW i \in 1..(j - 1 - 1) PROVE Passes(wire[i], d)'
    <3>1. i + 1 \in 1..(j - 1) /\ i \in 1..Len(wire) - 1
      BY <1>1, <2>3
    <3>2. wire'[i] = wire[i + 1] /\ Passes(wire[i + 1], d)
      BY <1>1, <2>1, <3>1
    <3> QED BY <3>2 DEF Passes
  <2> QED BY <2>1, <2>3, <2>4, <2>5 DEF In, Brings
<1>4. ASSUME Pass(wire, d) PROVE Pass(wire, d)'
  <2> SUFFICES ASSUME NEW i \in 1..Len(wire') PROVE Passes(wire[i], d)'
    BY DEF Pass
  <2>1. i + 1 \in 1..Len(wire) /\ wire'[i] = wire[i + 1]
    BY <1>1
  <2>2. Passes(wire[i + 1], d)
    BY <1>4, <2>1 DEF Pass
  <2> QED BY <2>1, <2>2 DEF Passes
<1> QED BY <1>2, <1>3, <1>4 DEF Coming

-----------------------------------------------------------------------------
(* What arrives is a marker, a snapshot, a row that is old or a row that   *)
(* moves the cursor to its event; afterwards the client has rows.          *)
Arrives(x) ==
    \/ /\ x.kind = "synchronized" /\ client.data
       /\ client'.cursor = client.cursor /\ client'.rows = client.rows
       /\ client'.told = x.seq /\ stranded' = stranded
    \/ /\ x.kind = "snapshot" /\ x.seq \in 0..Len(log)
       /\ client'.cursor = x.seq /\ client'.rows = [a \in Aggregates |-> RowIn(log, a, x.seq)]
       /\ client'.told = client.told
       /\ stranded' = stranded \cup {log[n].agg : n \in (x.seq + 1)..client.cursor}
    \/ /\ x.kind = "row" /\ client.data
       /\ x.seq \in 1..Len(log) /\ x.seq <= client.cursor
       /\ client'.cursor = client.cursor /\ client'.rows = client.rows
       /\ client'.told = client.told /\ stranded' = stranded
    \/ /\ x.kind = "row" /\ client.data
       /\ x.seq \in 1..Len(log) /\ client.cursor < x.seq /\ client'.cursor = x.seq
       /\ log[x.seq].agg = x.agg
       /\ \E m \in x.seq..Len(log) : client'.rows = [client.rows EXCEPT ![x.agg] = RowIn(log, x.agg, m)]
       /\ client'.told = client.told /\ stranded' = stranded

LEMMA Received ==
  ASSUME TypeInv, PhaseInv, OrderInv, Receive
  PROVE  /\ UNCHANGED <<sub, log, head, published>> /\ client'.data
         /\ \E x \in SentItems(log) :
               /\ Arrives(x)
               /\ FromOld(x) \/ (FromWire(x) /\ Streaming /\ ItemInOrder(x, 1))
<1>1. UNCHANGED <<sub, log, head, published>>
  BY ItemReceived
<1>2. PICK x \in SentItems(log) : Take(x) /\ (FromOld(x) \/ FromWire(x))
  BY ItemReceived
<1>3. /\ x.kind = "snapshot" =>
            x.seq \in 0..Len(log) /\ x.rows = [a \in Aggregates |-> RowIn(log, a, x.seq)]
      /\ x.kind = "row" =>
            /\ x.seq \in 1..Len(log) /\ x.agg = log[x.seq].agg
            /\ \E m \in x.seq..Len(log) : x.row = RowIn(log, x.agg, m)
  BY ItemSays
<1>4. client \in Clients(Len(log)) /\ client.cursor \in Nat /\ Len(log) \in Nat
  BY Typed
<1>5. FromWire(x) => Streaming /\ ItemInOrder(x, 1)
  <2> SUFFICES ASSUME FromWire(x) PROVE Streaming /\ ItemInOrder(x, 1)
    OBVIOUS
  <2>1. wire \in Seq(SentItems(log)) /\ wire # <<>> /\ x = wire[1]
    BY DEF FromWire, TypeInv, WireInv
  <2>2. 1 \in 1..Len(wire)
    BY <2>1, FirstItem
  <2> QED BY <2>1, <2>2 DEF PhaseInv, OrderInv
<1>6. ~client.data => x.kind = "snapshot"
  <2>1. CASE FromOld(x)
    BY <2>1 DEF FromOld, OrderInv
  <2>2. CASE FromWire(x)
    BY <1>5, <2>2 DEF FromWire, Streaming, PhaseInv, OrderInv
  <2> QED BY <1>2, <2>1, <2>2
<1>7. Arrives(x) /\ client'.data
  <2>1. CASE TakeMarker(x)
    <3>1. x.kind = "synchronized" /\ client.data /\ stranded' = stranded
      BY <1>6, <2>1 DEF TakeMarker
    <3>2. /\ client'.data = client.data /\ client'.cursor = client.cursor
          /\ client'.rows = client.rows /\ client'.told = x.seq
      BY <1>4, <2>1 DEF TakeMarker, Clients
    <3> QED BY <3>1, <3>2 DEF Arrives
  <2>2. CASE TakeSnapshot(x)
    <3>1. /\ x.kind = "snapshot"
          /\ stranded' = stranded \cup {log[n].agg : n \in (x.seq + 1)..client.cursor}
      BY <2>2 DEF TakeSnapshot
    <3>2. client'.data /\ client'.cursor = x.seq /\ client'.rows = x.rows /\ client'.told = client.told
      BY <1>4, <2>2 DEF TakeSnapshot, WithSnapshot, Clients
    <3> QED BY <1>3, <3>1, <3>2 DEF Arrives
  <2>3. CASE TakeRow(x)
    <3>1. x.kind = "row" /\ client.data /\ stranded' = stranded
      BY <1>6, <2>3 DEF TakeRow
    <3>2. CASE x.seq <= client.cursor
      <4>1. ~(x.seq > client.cursor)
        BY <1>3, <1>4, <3>1, <3>2
      <4>2. /\ client'.data = client.data /\ client'.cursor = client.cursor
            /\ client'.rows = client.rows /\ client'.told = client.told
        BY <1>4, <2>3, <3>1, <4>1 DEF TakeRow, Clients
      <4> QED BY <1>3, <3>1, <3>2, <4>2 DEF Arrives
    <3>3. CASE client.cursor < x.seq
      <4>1. x.seq > client.cursor
        BY <1>3, <1>4, <3>1, <3>3
      <4>2. /\ client'.data = client.data /\ client'.cursor = x.seq
            /\ client'.rows = [client.rows EXCEPT ![x.agg] = x.row] /\ client'.told = client.told
        BY <1>4, <2>3, <3>1, <4>1 DEF TakeRow, Clients
      <4>3. PICK m \in x.seq..Len(log) : x.row = RowIn(log, x.agg, m)
        BY <1>3, <3>1
      <4>4. \E i \in x.seq..Len(log) : client'.rows = [client.rows EXCEPT ![x.agg] = RowIn(log, x.agg, i)]
        BY <4>2, <4>3
      <4> QED BY <1>3, <3>1, <3>3, <4>2, <4>4 DEF Arrives
    <3> QED BY <1>3, <1>4, <3>1, <3>2, <3>3
  <2> QED BY <1>2, <2>1, <2>2, <2>3 DEF Take
<1> QED BY <1>1, <1>2, <1>5, <1>7

(* Only a snapshot over HTTP, which the log has not left behind, takes an  *)
(* aggregate back from those left behind.                                  *)
LEMMA StrandedGrows ==
  ASSUME Next, ~LoadHttpSnapshot PROVE stranded \subseteq stranded'
<1>1. CASE Receive
  BY <1>1 DEF Receive, Take, TakeMarker, TakeSnapshot, TakeRow
<1>2. CASE ~Receive
  BY <1>2 DEF Next, Commit, EngineStep, AdvanceHead, Publish, HandlerStep, ReadHead, ReplayWindow,
     ReplayEnds, SendSnapshot, Synchronize, LiveWindow, SendItem, RefetchFails, Subscribe,
     ChooseStart, HttpStep, MissHttpSnapshot, FailStream, Resubscribe, LoseSession, RestartServer,
     historyVars
<1> QED BY <1>1, <1>2

LEMMA ClientStays ==
  ASSUME TypeInv, Next, ~LoadHttpSnapshot, ~Receive
  PROVE  /\ client'.cursor = client.cursor /\ client'.rows = client.rows
         /\ client'.data = client.data /\ client'.told = client.told
<1>1. client \in Clients(Len(log))
  BY Typed
<1>2. CASE Breaks
  BY <1>2, BreakLeaves
<1>3. CASE Subscribe
  BY <1>1, <1>3 DEF Subscribe, Clients
<1>4. CASE ~Breaks /\ ~Subscribe
  BY <1>4 DEF Next, Breaks, Commit, EngineStep, AdvanceHead, Publish, HandlerStep, ReadHead,
     ReplayWindow, ReplayEnds, SendSnapshot, Synchronize, LiveWindow, SendItem, RefetchFails,
     ChooseStart, HttpStep, MissHttpSnapshot, clientVars
<1> QED BY <1>2, <1>3, <1>4

LEMMA HttpLoads ==
  ASSUME TypeInv, LoadHttpSnapshot
  PROVE  /\ log' = log /\ head' = head /\ published' = published /\ wire' = wire /\ old' = old
         /\ sub' = Request(Len(log)) /\ sub.phase = "load"
         /\ client'.data /\ client'.cursor = Len(log) /\ client'.told = client.told
         /\ client'.rows = [a \in Aggregates |-> RowIn(log, a, Len(log))]
<1>1. client \in Clients(Len(log))
  BY Typed
<1>2. Rows(Len(log)) = [a \in Aggregates |-> RowIn(log, a, Len(log))]
  BY RowIsRowIn DEF Rows
<1> QED BY <1>1, <1>2 DEF LoadHttpSnapshot, WithSnapshot, Clients, serverVars

(* What is still behind the cursor was so before: an event that a snapshot *)
(* takes the cursor back over is left behind with its aggregate.           *)
LEMMA StillBehind ==
  ASSUME TypeInv, PhaseInv, OrderInv, Next,
         NEW d \in 1..Len(log), log'[d].agg \notin stranded', client'.cursor < d
  PROVE  client.cursor < d /\ log[d].agg \notin stranded /\ log'[d] = log[d]
<1>1. LogGrows /\ client.cursor \in Nat /\ Len(log) \in Nat
  BY StepLogGrows, Typed DEF TypeInv
<1>2. log'[d] = log[d]
  BY <1>1 DEF LogGrows
<1>3. CASE LoadHttpSnapshot
  BY <1>1, <1>3, HttpLoads
<1>4. ASSUME ~LoadHttpSnapshot PROVE log[d].agg \notin stranded
  BY <1>2, <1>4, StrandedGrows
<1>5. CASE Receive
  <2>1. PICK x \in SentItems(log) : Arrives(x)
    BY <1>5, Received
  <2>2. x.seq \in Nat
    BY SentInLog
  <2>3. client.cursor < d
    <3>1. CASE client'.cursor = client.cursor
      BY <3>1
    <3>2. CASE client.cursor < x.seq /\ client'.cursor = x.seq
      BY <1>1, <2>2, <3>2
    <3>3. CASE /\ client'.cursor = x.seq
               /\ stranded' = stranded \cup {log[n].agg : n \in (x.seq + 1)..client.cursor}
      <4>1. d \notin (x.seq + 1)..client.cursor
        BY <1>2, <3>3
      <4> QED BY <1>1, <2>2, <3>3, <4>1
    <3> QED BY <2>1, <3>1, <3>2, <3>3 DEF Arrives
  <2>4. ~LoadHttpSnapshot
    BY <1>5, HttpLoads, Received DEF Receive, LoadHttpSnapshot, Request, NoSubscription
  <2> QED BY <1>2, <1>4, <2>3, <2>4
<1>6. CASE ~LoadHttpSnapshot /\ ~Receive
  BY <1>2, <1>4, <1>6, ClientStays
<1> QED BY <1>3, <1>5, <1>6

(* Every point was one, but for what a commit appends.                     *)
LEMMA PointWas ==
  ASSUME TypeInv, PhaseInv, OrderInv, Next, NEW P, IsPoint(P)'
  PROVE  P \in Nat /\ P <= Len(log') /\ (IsPoint(P) \/ Len(log) < P)
<1> USE DEF IsPoint
<1>1. /\ sub \in Subs(Len(log)) /\ client \in Clients(Len(log))
      /\ Len(log) \in Nat /\ head \in Nat /\ published \in Nat
      /\ published <= head /\ head <= Len(log)
      /\ sub.target \in Nat /\ sub.promised \in Nat
      /\ End \in Nat /\ published <= End /\ sub.target <= End /\ End <= Len(log)
  BY Typed
<1>2. P \in Nat /\ P <= Len(log')
  <2>1. TypeInv'
    BY NextTypeInv
  <2>2. /\ Len(log)' \in Nat /\ head' \in Nat /\ End' \in Nat
        /\ sub'.promised \in Nat /\ sub'.promised <= Len(log)'
    <3>1. /\ Len(log') \in Nat /\ head' \in Nat /\ published' \in Nat /\ sub' \in Subs(Len(log'))
      BY <2>1 DEF TypeInv, LogInv, SubInv
    <3>2. /\ sub'.target \in Nat /\ sub'.promised \in Nat /\ sub'.promised <= Len(log')
      BY <3>1 DEF Subs
    <3> QED BY <3>1, <3>2 DEF End
  <2> QED BY <2>2
<1>3. CASE (\E batch \in Batches : Commit(batch)) \/ AdvanceHead \/ Publish
  <2>1. /\ sub'.phase = sub.phase /\ sub'.promised = sub.promised /\ sub'.target = sub.target
        /\ head' \in Nat /\ head <= head' /\ published' \in Nat /\ published <= published'
    <3>1. CASE (\E batch \in Batches : Commit(batch)) \/ AdvanceHead
      BY <1>1, <3>1 DEF Commit, AdvanceHead, Feed!CommitBatch, Feed!AdvanceHead
    <3>2. CASE Publish
      BY <1>1, <3>2 DEF Publish, Feed!PublishNext, Subs
    <3> QED BY <1>3, <3>1, <3>2
  <2>2. End' \in Nat /\ End <= End'
    BY <1>1, <2>1 DEF End
  <2>3. Streaming' = Streaming
    BY <2>1 DEF Streaming
  <2>4. P \in head'..Len(log') => P \in head..Len(log) \/ Len(log) < P
    BY <1>1, <1>2, <2>1
  <2>5. P \in End'..Len(log') => P \in End..Len(log) \/ Len(log) < P
    BY <1>1, <1>2, <2>2
  <2> QED BY <1>2, <2>1, <2>3, <2>4, <2>5
<1>4. CASE Subscribe \/ ChooseStart \/ HttpStep
  <2>1. log' = log /\ head' = head
    BY <1>4 DEF Subscribe, ChooseStart, HttpStep, LoadHttpSnapshot, MissHttpSnapshot, serverVars
  <2>2. sub'.phase \in {"open", "load", "head", "snapshot"}
    BY <1>1, <1>4 DEF Subscribe, ChooseStart, HttpStep, LoadHttpSnapshot, MissHttpSnapshot, Request,
       NoSubscription, Subs
  <2> QED BY <1>2, <2>1, <2>2 DEF Streaming
<1>5. CASE ReadHead
  <2>1. log' = log /\ head' = head /\ published' = published
    BY <1>5 DEF ReadHead, serverVars
  <2>2. sub'.phase = "snapshot" \/ (sub'.phase = "replay" /\ sub'.target = head)
    BY <1>1, <1>5 DEF ReadHead, Subs
  <2>3. sub'.phase = "replay" => End' = head
    BY <1>1, <2>1, <2>2 DEF End
  <2> QED BY <1>2, <2>1, <2>2, <2>3 DEF Streaming
<1>6. CASE SendSnapshot
  <2>1. /\ log' = log /\ head' = head /\ published' = published
        /\ sub'.phase = "synchronize" /\ sub'.target = Len(log)
    BY <1>1, <1>6 DEF SendSnapshot, serverVars, Subs
  <2>2. End' = Len(log)
    BY <1>1, <2>1 DEF End
  <2> QED BY <1>1, <1>2, <2>1, <2>2 DEF Streaming
<1>7. CASE Synchronize
  <2>1. /\ log' = log /\ head' = head /\ published' = published /\ Streaming
        /\ sub'.target = sub.target /\ sub'.promised = End
    BY <1>1, <1>7 DEF Synchronize, serverVars, Subs, End, Streaming
  <2>2. End' = End
    BY <2>1 DEF End
  <2> QED BY <1>1, <1>2, <2>1, <2>2
<1>8. CASE ReplayEnds \/ SendItem \/ RefetchFails \/ \E n \in 1..MaxLog : ReplayWindow(n) \/ LiveWindow(n)
  <2>1. /\ log' = log /\ head' = head /\ published' = published
        /\ sub'.target = sub.target /\ sub'.promised = sub.promised
        /\ \/ sub'.phase = sub.phase
           \/ Streaming /\ sub'.phase = "synchronize"
    BY <1>1, <1>8 DEF ReplayEnds, SendItem, RefetchFails, ReplayWindow, LiveWindow, serverVars, Subs,
       Streaming
  <2>2. End' = End
    BY <2>1 DEF End
  <2>3. Streaming' => Streaming
    BY <2>1 DEF Streaming
  <2> QED BY <1>2, <2>1, <2>2, <2>3
<1>9. CASE Receive
  <2>1. UNCHANGED <<sub, log, head, published>>
    BY <1>9, ItemReceived
  <2> QED BY <1>2, <2>1 DEF Streaming, End
<1>10. CASE Breaks
  <2>1. /\ sub' = NoSubscription /\ log' = log
        /\ head' = head \/ head' = Len(log)
    BY <1>10, BreakLeaves
  <2>2. sub'.phase = "off"
    BY <2>1 DEF NoSubscription
  <2> QED BY <1>1, <1>2, <2>1, <2>2 DEF Streaming
<1> QED BY <1>3, <1>4, <1>5, <1>6, <1>7, <1>8, <1>9, <1>10
        DEF Next, EngineStep, HandlerStep, HttpStep, Breaks

LEMMA OldPointWas ==
  ASSUME TypeInv, PhaseInv, OrderInv, Next, NEW P, OldPoint(P)'
  PROVE  IsPoint(P) \/ OldPoint(P)
<1>1. /\ old \in Seq(SentItems(log)) /\ wire \in Seq(SentItems(log))
      /\ Len(old) \in Nat /\ Len(wire) \in Nat
  BY Typed DEF TypeInv, WireInv
<1>2. ASSUME NEW j \in 1..Len(wire), wire[j].kind = "synchronized", P = wire[j].seq
      PROVE  IsPoint(P)
  BY <1>2 DEF OrderInv, ItemInOrder, IsPoint
<1>3. CASE old' = old /\ client'.told = client.told
  BY <1>3 DEF OldPoint
<1>4. CASE Receive
  <2>1. PICK x \in SentItems(log) : Arrives(x) /\ (FromOld(x) \/ FromWire(x))
    BY <1>4, Received
  <2>2. CASE FromOld(x)
    <3>1. /\ x = old[1] /\ 1 \in 1..Len(old) /\ Len(old') = Len(old) - 1
          /\ \A i \in 1..Len(old) - 1 : old'[i] = old[i + 1]
      BY <1>1, <2>2, FirstItem DEF FromOld
    <3>2. CASE P = client'.told
      BY <2>1, <3>1, <3>2 DEF Arrives, OldPoint
    <3>3. CASE \E j \in 1..Len(old') : old'[j].kind = "synchronized" /\ P = old'[j].seq
      <4>1. PICK j \in 1..Len(old') : old'[j].kind = "synchronized" /\ P = old'[j].seq
        BY <3>3
      <4>2. j + 1 \in 1..Len(old) /\ old'[j] = old[j + 1]
        BY <1>1, <3>1
      <4> QED BY <4>1, <4>2 DEF OldPoint
    <3> QED BY <3>2, <3>3 DEF OldPoint
  <2>3. CASE FromWire(x)
    <3>1. x = wire[1] /\ 1 \in 1..Len(wire) /\ old' = <<>>
      BY <1>1, <2>3, FirstItem DEF FromWire
    <3>2. Len(old') = 0
      BY <3>1, EmptySeq
    <3>3. P = client'.told
      BY <3>2 DEF OldPoint
    <3> QED BY <1>2, <2>1, <3>1, <3>3 DEF Arrives, OldPoint
  <2> QED BY <2>1, <2>2, <2>3
<1>5. CASE Breaks
  <2>1. client'.told = client.told
    BY <1>5, BreakLeaves
  <2>2. PICK n \in 0..Len(wire) : old' = Kept(n)
    BY <1>5, BreakLeaves
  <2>3. /\ Len(Kept(n)) = Len(old) + n
        /\ \A i \in 1..Len(old) : Kept(n)[i] = old[i]
        /\ \A i \in 1..n : Kept(n)[Len(old) + i] = wire[i]
    BY KeptItems DEF TypeInv
  <2>4. ASSUME NEW j \in 1..Len(Kept(n)), Kept(n)[j].kind = "synchronized", P = Kept(n)[j].seq
        PROVE  IsPoint(P) \/ OldPoint(P)
    <3>1. CASE j \in 1..Len(old)
      BY <2>3, <2>4, <3>1 DEF OldPoint
    <3>2. CASE j \notin 1..Len(old)
      <4>1. j - Len(old) \in 1..n /\ Len(old) + (j - Len(old)) = j /\ j - Len(old) \in 1..Len(wire)
        BY <1>1, <2>3, <3>2
      <4>2. Kept(n)[j] = wire[j - Len(old)]
        BY <2>3, <4>1
      <4> QED BY <1>2, <2>4, <4>1, <4>2
    <3> QED BY <3>1, <3>2
  <2> QED BY <2>1, <2>2, <2>4 DEF OldPoint
<1>6. CASE ~Receive /\ ~Breaks
  <2>1. client'.told = client.told
    BY <1>6, ClientStays, HttpLoads
  <2>2. old' = old
    BY <1>6 DEF Next, Breaks, Commit, EngineStep, AdvanceHead, Publish, HandlerStep, ReadHead,
       ReplayWindow, ReplayEnds, SendSnapshot, Synchronize, LiveWindow, SendItem, RefetchFails,
       Subscribe, ChooseStart, HttpStep, LoadHttpSnapshot, MissHttpSnapshot, clientVars
  <2> QED BY <1>3, <2>1, <2>2
<1> QED BY <1>4, <1>5, <1>6

(* An event that is behind the cursor, and newest up to a point, was so.   *)
LEMMA NewestPointWas ==
  ASSUME TypeInv, PhaseInv, OrderInv, Next, NEW P, IsPoint(P)' \/ OldPoint(P)',
         NEW d \in Newest(P)', client'.cursor < d
  PROVE  /\ d \in Nat /\ d # 0 /\ d <= P /\ P \in Nat
         /\ d <= Len(log) => client.cursor < d
         /\ P <= Len(log) =>
               /\ d \in Newest(P) /\ (IsPoint(P) \/ OldPoint(P))
               /\ IsPoint(P)' => IsPoint(P)
         /\ Len(log) < P /\ d <= Len(log) => d \in Newest(Len(log)) /\ IsPoint(Len(log))
<1>1. Len(log) \in Nat /\ head \in Nat /\ head <= Len(log) /\ LogGrows
  BY Typed, StepLogGrows DEF TypeInv
<1>2. P \in Nat /\ (P <= Len(log) => IsPoint(P) \/ OldPoint(P)) /\ (P <= Len(log) => (IsPoint(P)' => IsPoint(P)))
  <2>1. CASE IsPoint(P)'
    BY <1>1, <2>1, PointWas
  <2>2. CASE OldPoint(P)' /\ ~IsPoint(P)'
    BY <2>2, OldPointWas, PointInLog
  <2> QED BY <2>1, <2>2
<1>3. d \in 1..P /\ d \in Nat /\ d # 0 /\ d <= P /\ log'[d].agg \notin stranded'
  BY <1>2 DEF Newest
<1>4. d <= Len(log) => client.cursor < d
  BY <1>1, <1>3, StillBehind
<1>5. d <= Len(log) => ~LoadHttpSnapshot
  BY <1>1, <1>3, HttpLoads
<1>6. d <= Len(log) => stranded \subseteq stranded'
  BY <1>5, StrandedGrows
<1>7. P <= Len(log) => d \in Newest(P)
  <2> SUFFICES ASSUME P <= Len(log) PROVE d \in Newest(P)
    OBVIOUS
  <2>1. d <= Len(log)
    BY <1>1, <1>2, <1>3
  <2> QED BY <1>1, <1>2, <1>3, <1>6, <2>1, NewestWas
<1>8. Len(log) < P /\ d <= Len(log) => d \in Newest(Len(log)) /\ IsPoint(Len(log))
  <2> SUFFICES ASSUME Len(log) < P, d <= Len(log) PROVE d \in Newest(Len(log)) /\ IsPoint(Len(log))
    OBVIOUS
  <2>1. IsPoint(Len(log)) /\ Len(log) <= P
    BY <1>1, <1>2 DEF IsPoint
  <2> QED BY <1>1, <1>2, <1>3, <1>6, <2>1, NewestWas
<1> QED BY <1>2, <1>3, <1>4, <1>7, <1>8

(* The next item to arrive brings what is newest, or stays before it.      *)
LEMMA FirstComesFirst ==
  ASSUME TypeInv, PhaseInv, OrderInv, NothingSkipped, OldSkipsNothing, ToldInv,
         NEW x \in SentItems(log), FromOld(x) \/ (FromWire(x) /\ Streaming),
         NEW P, IsPoint(P) \/ OldPoint(P), NEW d \in Newest(P), client.cursor < d
  PROVE  Brings(x, d) \/ Passes(x, d)
<1>1. ASSUME NEW q \in Seq(SentItems(log)), q # <<>>, x = q[1], In(q, d) \/ Pass(q, d)
      PROVE  Brings(x, d) \/ Passes(x, d)
  <2>1. 1 \in 1..Len(q) /\ Len(q) \in Nat
    BY <1>1, FirstItem
  <2>2. CASE Pass(q, d)
    BY <1>1, <2>1, <2>2 DEF Pass
  <2>3. CASE In(q, d)
    <3>1. PICK j \in 1..Len(q) : Brings(q[j], d) /\ \A i \in 1..(j - 1) : Passes(q[i], d)
      BY <2>3 DEF In
    <3>2. j = 1 \/ 1 \in 1..(j - 1)
      BY <2>1
    <3> QED BY <1>1, <3>1, <3>2
  <2> QED BY <1>1, <2>2, <2>3
<1>2. wire \in Seq(SentItems(log)) /\ old \in Seq(SentItems(log))
  BY DEF TypeInv, WireInv
<1>3. CASE FromOld(x)
  BY <1>1, <1>2, <1>3 DEF FromOld, OldSkipsNothing
<1>4. CASE FromWire(x) /\ Streaming
  <2>1. /\ P \in Nat /\ d \in Nat /\ End \in Nat /\ client.cursor \in Nat
        /\ Len(old) = 0 /\ d <= P
    <3>1. P \in Nat /\ End \in Nat /\ client.cursor \in Nat
      BY PointInLog, Typed
    <3> QED BY <1>4, <3>1, EmptySeq DEF Newest, FromWire
  <2>2. IsPoint(P)
    <3>1. CASE P = client.told
      <4>1. d <= client.cursor
        BY <3>1 DEF ToldInv
      <4> QED BY <2>1, <4>1
    <3> QED BY <2>1, <3>1 DEF OldPoint
  <2>3. CASE d <= End
    <3>1. Coming(d)
      BY <1>4, <2>2, <2>3 DEF NothingSkipped
    <3> QED BY <1>1, <1>2, <1>4, <3>1 DEF Coming, FromWire
  <2>4. CASE End < d
    <3>1. Pass(wire, d)
      BY <2>1, <2>4, BeyondPasses
    <3> QED BY <1>1, <1>2, <1>4, <3>1 DEF FromWire
  <2> QED BY <2>1, <2>3, <2>4
<1> QED BY <1>3, <1>4

(* So a marker arrives when nothing of what it promises is behind the      *)
(* cursor.                                                                 *)
LEMMA MarkerArrives ==
  ASSUME TypeInv, PhaseInv, OrderInv, NothingSkipped, OldSkipsNothing, ToldInv,
         NEW x \in SentItems(log), x.kind = "synchronized",
         FromOld(x) \/ (FromWire(x) /\ Streaming /\ ItemInOrder(x, 1)),
         NEW d \in Newest(x.seq)
  PROVE  d <= client.cursor
<1>1. x.seq \in Nat /\ client.cursor \in Nat
  BY SentInLog, Typed
<1>2. IsPoint(x.seq) \/ OldPoint(x.seq)
  <2>1. CASE FromOld(x)
    <3>1. old \in Seq(SentItems(log)) /\ old # <<>> /\ x = old[1]
      BY <2>1 DEF FromOld, TypeInv, WireInv
    <3>2. 1 \in 1..Len(old)
      BY <3>1, FirstItem
    <3> QED BY <3>1, <3>2 DEF OldPoint
  <2>2. CASE ItemInOrder(x, 1)
    BY <2>2 DEF ItemInOrder, IsPoint
  <2> QED BY <2>1, <2>2
<1>3. d \in Nat /\ d <= x.seq
  BY <1>1 DEF Newest
<1>4. client.cursor < d => Brings(x, d) \/ Passes(x, d)
  BY <1>2, FirstComesFirst
<1> QED BY <1>1, <1>3, <1>4 DEF Brings, Passes

LEMMA NextToldInv ==
  ASSUME TypeInv, PhaseInv, OrderInv, FlowInv, Next PROVE ToldInv'
<1>1. NothingSkipped /\ OldSkipsNothing /\ ToldInv
  BY DEF FlowInv
<1>2. TypeInv'
  BY NextTypeInv
<1>3. Len(log) \in Nat /\ client.told \in Nat /\ client.told <= Len(log)
  BY Typed
<1>4. client'.cursor \in Nat /\ client'.told \in Nat
  BY <1>2 DEF TypeInv, LogInv, ClientInv, Clients
<1> SUFFICES ASSUME NEW d \in Newest(client.told)', ~(d <= client'.cursor) PROVE FALSE
  BY DEF ToldInv
<1>5. d \in Nat /\ client'.cursor < d
  <2>1. d \in 1..client'.told
    BY DEF Newest
  <2> QED BY <1>4, <2>1
<1>0. PICK P : P = client'.told
  OBVIOUS
<1>6. OldPoint(P)' /\ d \in Newest(P)'
  <2>1. OldPoint(P)'
    BY <1>0 DEF OldPoint
  <2>2. d \in Newest(P)'
    BY <1>0 DEF Newest
  <2> QED BY <2>1, <2>2
<1>7. P <= Len(log) => client.cursor < d /\ d \in Newest(P)
  <2>1. d <= P /\ (d <= Len(log) => client.cursor < d) /\ (P <= Len(log) => d \in Newest(P)) /\ P \in Nat
    BY <1>5, <1>6, NewestPointWas
  <2> QED BY <1>3, <1>5, <2>1
<1>8. client.cursor \in Nat
  BY Typed
<1>9. CASE P = client.told
  <2>1. d <= client.cursor
    BY <1>1, <1>3, <1>7, <1>9 DEF ToldInv
  <2> QED BY <1>3, <1>5, <1>7, <1>8, <1>9, <2>1
<1>10. CASE Receive /\ P # client.told
  <2>1. PICK x \in SentItems(log) :
            /\ Arrives(x)
            /\ FromOld(x) \/ (FromWire(x) /\ Streaming /\ ItemInOrder(x, 1))
    BY <1>10, Received
  <2>2. x.kind = "synchronized" /\ P = x.seq
    BY <1>0, <1>10, <2>1 DEF Arrives
  <2>3. x.seq <= Len(log)
    BY SentInLog
  <2>4. d <= client.cursor
    BY <1>1, <1>7, <2>1, <2>2, <2>3, MarkerArrives
  <2> QED BY <1>5, <1>7, <1>8, <2>2, <2>3, <2>4
<1> QED BY <1>0, <1>9, <1>10, ClientStays, HttpLoads

LEMMA NextHeadInv ==
  ASSUME TypeInv, PhaseInv, OrderInv, HeadInv, Next PROVE HeadInv'
<1> SUFFICES ASSUME sub'.phase = "head", NEW d \in 1..Len(log'), log'[d].agg \notin stranded',
                    client'.cursor < d
             PROVE  sub'.next < d
  BY DEF HeadInv
<1>1. /\ sub \in Subs(Len(log)) /\ Len(log) \in Nat /\ LogGrows /\ sub.next \in Nat /\ sub.next <= Len(log)
  BY Typed, StepLogGrows DEF TypeInv, Subs
<1>2. d \in Nat /\ (d <= Len(log) => d \in 1..Len(log))
  BY <1>1 DEF LogGrows
<1>3. CASE sub.phase = "head" /\ sub'.next = sub.next
  <2>1. CASE d <= Len(log)
    BY <1>2, <1>3, <2>1, StillBehind DEF HeadInv
  <2>2. CASE Len(log) < d
    BY <1>1, <1>2, <1>3, <2>2
  <2> QED BY <1>1, <1>2, <2>1, <2>2
<1>4. CASE LoadHttpSnapshot
  BY <1>1, <1>4, HttpLoads DEF Request, NoSubscription
<1>5. CASE ChooseStart
  <2>1. client' = client /\ sub' = Request(client.cursor)
    BY <1>1, <1>5 DEF ChooseStart, clientVars, Subs
  <2> QED BY <2>1 DEF Request, NoSubscription
<1>6. CASE (\E batch \in Batches : Commit(batch)) \/ AdvanceHead \/ Publish \/ Receive
  <2>1. sub'.phase = sub.phase /\ sub'.next = sub.next
    BY <1>1, <1>6 DEF Commit, AdvanceHead, Publish, Receive, Subs
  <2> QED BY <1>3, <2>1
<1>7. CASE Breaks \/ Subscribe
  BY <1>7, BreakLeaves DEF Subscribe, NoSubscription
<1>8. CASE MissHttpSnapshot \/ HandlerStep \/ RefetchFails
  <2>1. sub'.phase = "head" => sub.phase = "head" /\ sub.batch # <<>>
    BY <1>1, <1>8 DEF MissHttpSnapshot, HandlerStep, ReadHead, ReplayEnds, SendSnapshot, Synchronize,
       ReplayWindow, LiveWindow, SendItem, RefetchFails, Subs
  <2> QED BY <2>1 DEF PhaseInv, Streaming
<1> QED BY <1>4, <1>5, <1>6, <1>7, <1>8 DEF Next, EngineStep, HttpStep, Breaks

(* The positions of a replayed window.                                     *)
LEMMA WindowPositions ==
  ASSUME NEW m \in Nat, NEW n \in Nat, NEW k \in Nat, k = n - m, NEW P \in Nat, n <= P
  PROVE  /\ \A d \in Nat : m < d /\ d <= n => d - m \in 1..k /\ m + (d - m) = d
         /\ \A j \in 1..k : m + j \in Nat /\ m + j # 0 /\ m + j <= P /\ m + j <= n
OBVIOUS

(* The newest event up to a point is in what its window is coalesced to.   *)
LEMMA NewestIsKept ==
  ASSUME NEW s, NEW r, NEW k \in Nat, Len(s) = k, KeepsLast(r, log, s, k),
         NEW P \in Nat, NEW d \in Newest(P),
         \A j \in 1..k : s[j] \in Nat /\ s[j] # 0 /\ s[j] <= P,
         NEW i \in 1..k, s[i] = d
  PROVE  \E j \in 1..Len(r) : r[j] = d /\ \A m \in 1..(j - 1) : m \in 1..Len(r) /\ r[m] < d
<1>1. d \in 1..P /\ \A e \in d + 1 .. P : log[e].agg # log[d].agg
  BY DEF Newest
<1>2. ASSUME NEW j \in 1..Len(s), log[s[j]].agg = log[d].agg PROVE s[j] <= d
  <2>1. s[j] \in Nat /\ s[j] <= P
    BY <1>2
  <2>2. s[j] \notin d + 1 .. P
    BY <1>1, <1>2
  <2> QED BY <1>1, <2>1, <2>2
<1>3. LastIn(log, s, s[i])
  BY <1>2 DEF LastIn
<1>4. PICK j \in 1..Len(r) : r[j] = d
  BY <1>3 DEF KeepsLast
<1>5. \A m \in 1..(j - 1) : m \in 1..Len(r) /\ m < j
  BY <1>4
<1> QED BY ZenonT(60), <1>4, <1>5 DEF KeepsLast, Ascends

(* A window ended before d, so its events leave before d.                  *)
LEMMA WindowLeaves ==
  ASSUME NEW r, NEW s, NEW k, KeepsLast(r, log, s, k), sub'.batch = r, NEW d,
         \A i \in 1..k : s[i] < d /\ s[i] # Marker
  PROVE  PassBatch(d)'
<1> SUFFICES ASSUME NEW j \in 1..Len(r) PROVE Leaves(sub.batch[j], d)'
  BY DEF PassBatch
<1>1. PICK i \in 1..k : r[j] = s[i]
  BY DEF KeepsLast
<1> QED BY <1>1 DEF Leaves

LEMMA NextNothingSkipped ==
  ASSUME TypeInv, PhaseInv, OrderInv, FlowInv, Next PROVE NothingSkipped'
<1> SUFFICES ASSUME Streaming', NEW P, IsPoint(P)', NEW d \in Newest(P)', client'.cursor < d, d <= End'
             PROVE  Coming(d)'
  BY DEF NothingSkipped
<1>1. /\ sub \in Subs(Len(log)) /\ client \in Clients(Len(log))
      /\ Len(log) \in Nat /\ head \in Nat /\ published \in Nat
      /\ published <= head /\ head <= Len(log)
      /\ sub.next \in Nat /\ sub.target \in Nat /\ sub.promised \in Nat /\ client.cursor \in Nat
      /\ End \in Nat /\ published <= End /\ sub.target <= End /\ End <= Len(log)
      /\ Len(wire) \in Nat /\ Len(sub.batch) \in Nat /\ Len(sub.buffer) \in Nat
  BY Typed
<1>2. LogGrows
  BY StepLogGrows DEF TypeInv
<1>3. /\ d \in Nat /\ d # 0 /\ d <= P /\ P \in Nat
      /\ d <= Len(log) => client.cursor < d
      /\ P <= Len(log) => d \in Newest(P) /\ IsPoint(P)
      /\ Len(log) < P /\ d <= Len(log) => d \in Newest(Len(log)) /\ IsPoint(Len(log))
  BY NewestPointWas
<1>4. log'[d].agg \notin stranded'
  BY DEF Newest
<1>5. ASSUME Streaming, d <= End PROVE Coming(d)
  <2>1. d <= Len(log) /\ client.cursor < d
    BY <1>1, <1>3, <1>5
  <2>2. CASE P <= Len(log)
    BY <1>3, <1>5, <2>1, <2>2 DEF NothingSkipped, FlowInv
  <2>3. CASE ~(P <= Len(log))
    <3>1. Len(log) < P
      BY <1>1, <1>3, <2>3
    <3>2. IsPoint(Len(log)) /\ d \in Newest(Len(log))
      BY <1>3, <2>1, <3>1
    <3> QED BY <1>5, <2>1, <3>2 DEF NothingSkipped, FlowInv
  <2> QED BY <2>2, <2>3
<1>6. CASE (\E batch \in Batches : Commit(batch)) \/ AdvanceHead
  <2>1. UNCHANGED <<sub, wire, published>>
    BY <1>6 DEF Commit, AdvanceHead, Feed!CommitBatch, Feed!AdvanceHead
  <2>2. End' = End /\ Streaming
    BY <2>1 DEF End, Streaming
  <2>3. Coming(d)
    BY <1>5, <2>2
  <2> QED BY <2>1, <2>3, ComingKept DEF Later, InBuffer
<1>8. CASE Publish
  <2> DEFINE b == sub.buffer
  <2>1. /\ UNCHANGED wire /\ published' = published + 1
        /\ sub'.phase = sub.phase /\ sub'.batch = sub.batch /\ sub'.next = sub.next
        /\ sub'.target = sub.target /\ sub'.promised = sub.promised
        /\ sub'.buffer = Append(b, published + 1)
        /\ published + 1 <= head
    BY <1>1, <1>8 DEF Publish, Attached, Feed!PublishNext, Subs, Streaming
  <2>2. /\ Len(sub'.buffer) = Len(b) + 1 /\ sub'.buffer[Len(b) + 1] = published + 1
        /\ \A i \in 1..Len(b) : sub'.buffer[i] = b[i]
    <3>1. b \in Seq(1..Len(log)) /\ published + 1 \in 1..Len(log)
      BY <1>1, <2>1 DEF Subs
    <3> HIDE DEF b
    <3>2. /\ Len(Append(b, published + 1)) = Len(b) + 1
          /\ Append(b, published + 1)[Len(b) + 1] = published + 1
          /\ \A i \in 1..Len(b) : Append(b, published + 1)[i] = b[i]
      BY <3>1, AppendProperties
    <3> QED BY <2>1, <3>2
  <2>3. /\ Streaming
        /\ End' = End \/ (End = published /\ End' = published + 1)
    BY <1>1, <2>1 DEF Streaming, End
  <2>4. InBuffer(d) => InBuffer(d)'
    <3>1. \A i \in 1..Len(b) : i \in 1..Len(b) + 1
      BY <1>1
    <3> QED BY <2>2, <3>1 DEF InBuffer
  <2>5. Later(d) => Later(d)'
    BY <2>1, <2>4 DEF Later
  <2>6. CASE d <= End
    <3>1. Coming(d)
      BY <1>5, <2>3, <2>6
    <3> QED BY <2>1, <2>5, <3>1, ComingKept
  <2>7. CASE ~(d <= End)
    <3>1. d \in Nat
      BY <1>3
    <3>2. d = published + 1 /\ End < d
      BY <1>1, <2>3, <2>7, <3>1
    <3>3. Pass(wire, d) /\ PassBatch(d)
      BY <3>1, <3>2, BeyondPasses
    <3>4. Pass(wire, d)' /\ PassBatch(d)'
      BY <2>1, <3>3 DEF Pass, PassBatch, Passes, Leaves
    <3>5. InBuffer(d)'
      <4>1. Len(b) + 1 \in 1..Len(sub'.buffer)
        BY <1>1, <2>2
      <4> QED BY <2>2, <3>2, <4>1 DEF InBuffer
    <3>6. Later(d)'
      BY <1>1, <2>1, <3>1, <3>2, <3>5 DEF Later
    <3> QED BY <3>4, <3>6 DEF Coming
  <2> QED BY <2>6, <2>7
<1>9. CASE Subscribe \/ ChooseStart \/ HttpStep \/ Breaks
  <2>1. sub'.phase \notin {"replay", "synchronize", "live"}
    <3>1. CASE Subscribe \/ ChooseStart \/ HttpStep
      BY <1>1, <3>1 DEF Subscribe, ChooseStart, HttpStep, LoadHttpSnapshot, MissHttpSnapshot, Request,
         NoSubscription, Subs
    <3>2. CASE Breaks
      BY <3>2, BreakLeaves DEF NoSubscription
    <3> QED BY <1>9, <3>1, <3>2
  <2> QED BY <2>1 DEF Streaming
<1>10. CASE ReadHead
  <2>1. /\ UNCHANGED <<log, wire, client, published, stranded>> /\ wire = <<>> /\ sub'.batch = <<>>
        /\ sub.phase = "head"
        /\ sub'.phase = "replay" /\ sub'.target = head /\ sub'.next = sub.next
    BY <1>1, <1>10 DEF ReadHead, serverVars, clientVars, historyVars, Subs, PhaseInv, Streaming
  <2>2. End' = head
    BY <1>1, <2>1 DEF End
  <2>3. d \in 1..Len(log) /\ client.cursor < d /\ log[d].agg \notin stranded
    BY <1>1, <1>3, <1>4, <2>1, <2>2
  <2>4. sub.next < d
    BY <2>1, <2>3 DEF HeadInv, FlowInv
  <2>5. Later(d)'
    BY <2>1, <2>2, <2>4 DEF Later
  <2>6. Len(<<>>) = 0 /\ 1..0 = {}
    BY EmptySeq
  <2>7. Pass(wire, d)' /\ PassBatch(d)'
    BY <2>1, <2>6 DEF Pass, PassBatch
  <2> QED BY <2>5, <2>7 DEF Coming
<1>11. CASE SendSnapshot
  <2>1. /\ wire' = Append(wire, SnapshotItem(log, Len(log))) /\ wire = <<>>
        /\ sub'.target = Len(log) /\ published' = published
        /\ SnapshotItem(log, Len(log)) \in SentItems(log)
    BY <1>1, <1>11, SnapshotSent DEF SendSnapshot, serverVars, Subs, PhaseInv, Streaming
  <2>2. End' = Len(log)
    BY <1>1, <2>1 DEF End
  <2> DEFINE x == SnapshotItem(log, Len(log))
  <2>3. x.kind = "snapshot" /\ x.seq = Len(log)
    BY DEF SnapshotItem
  <2>4. Len(wire') = 1 /\ wire'[1] = x
    <3>1. wire' = Append(<<>>, x) /\ x \in SentItems(log)
      BY <2>1
    <3> HIDE DEF x
    <3>2. <<>> \in Seq(SentItems(log)) /\ Len(<<>>) = 0
      BY EmptySeq
    <3>3. Len(Append(<<>>, x)) = Len(<<>>) + 1 /\ Append(<<>>, x)[Len(<<>>) + 1] = x
      BY <3>1, <3>2, AppendProperties
    <3> QED BY <3>1, <3>2, <3>3
  <2> HIDE DEF x
  <2>5. Brings(wire'[1], d) /\ 1 \in 1..Len(wire') /\ 1..(1 - 1) = {}
    BY <2>2, <2>3, <2>4 DEF Brings
  <2>6. In(wire, d)'
    BY <2>5 DEF In, Brings
  <2> QED BY <2>6 DEF Coming
<1>12. CASE \E n \in 1..MaxLog : ReplayWindow(n)
  <2>1. PICK n \in 1..MaxLog : ReplayWindow(n)
    BY <1>12
  <2> DEFINE s == [i \in 1..(n - sub.next) |-> sub.next + i]
             r == Coalesce(s)
             k == n - sub.next
  <2>2. /\ n \in Nat /\ sub.next < n /\ n <= sub.target
        /\ sub' = [sub EXCEPT !.batch = r, !.next = n]
        /\ Len(s) = k /\ KeepsLast(r, log, s, k)
    BY <2>1, ReplayBatch DEF PhaseInv
  <2>3. \A i \in 1..k : s[i] = sub.next + i
    OBVIOUS
  <2>4. k \in Nat /\ k = n - sub.next /\ sub.next + k = n
    BY <1>1, <2>2
  <2> HIDE DEF s, r, k
  <2>5. /\ UNCHANGED <<log, head, wire, client, published, stranded>> /\ sub.phase = "replay"
        /\ sub.batch = <<>> /\ sub'.batch = r /\ sub'.next = n
        /\ sub'.phase = sub.phase /\ sub'.target = sub.target
        /\ sub'.promised = sub.promised /\ sub'.buffer = sub.buffer
    BY <1>1, <2>1, <2>2 DEF ReplayWindow, serverVars, clientVars, historyVars, Subs
  <2>6. End' = End /\ Streaming
    BY <1>1, <2>5 DEF End, Streaming
  <2>7. P \in Nat /\ IsPoint(P) /\ P <= Len(log)
    <3>1. P <= Len(log)
      BY <1>1, <2>5, PointWas
    <3> QED BY <1>3, <3>1
  <2>8. d \in Newest(P) /\ Coming(d) /\ d \in Nat /\ d # 0
    BY <1>3, <1>5, <2>6, <2>7
  <2>9. sub.target <= P
    <3>1. sub.target <= head
      BY <2>5 DEF PhaseInv
    <3> QED BY <1>1, <2>5, <2>7, <3>1 DEF IsPoint
  <2>10. n <= P
    BY <1>1, <2>2, <2>7, <2>9
  <2>11. /\ sub.next < d /\ d <= n => d - sub.next \in 1..k /\ sub.next + (d - sub.next) = d
         /\ \A j \in 1..k : sub.next + j \in Nat /\ sub.next + j # 0
                           /\ sub.next + j <= P /\ sub.next + j <= n
    BY SMTT(40), <1>1, <2>2, <2>4, <2>7, <2>8, <2>10, WindowPositions
  <2>12. ASSUME Later(d) PROVE InBatch(d)' \/ (PassBatch(d)' /\ Later(d)')
    <3>1. CASE sub.next < d /\ d <= n
      <4>1. PICK i \in 1..k : s[i] = d
        <5>1. d - sub.next \in 1..k /\ sub.next + (d - sub.next) = d
          BY <2>11, <3>1
        <5> QED BY <2>3, <5>1
      <4>2. ASSUME NEW j \in 1..k PROVE s[j] \in Nat /\ s[j] # 0 /\ s[j] <= P
        <5>1. s[j] = sub.next + j
          BY <2>3
        <5> QED BY <2>11, <5>1
      <4>3. PICK j \in 1..Len(r) : r[j] = d /\ \A m \in 1..(j - 1) : m \in 1..Len(r) /\ r[m] < d
        BY <2>2, <2>4, <2>7, <2>8, <4>1, <4>2, NewestIsKept
      <4>4. ASSUME NEW m \in 1..(j - 1) PROVE Leaves(sub.batch[m], d)'
        <5>1. PICK a \in 1..k : r[m] = s[a]
          BY <2>2, <4>3 DEF KeepsLast
        <5>2. r[m] # Marker
          BY <4>2, <5>1 DEF Marker
        <5> QED BY <2>5, <4>3, <5>2 DEF Leaves
      <4>5. InBatch(d)'
        BY <2>5, <4>3, <4>4 DEF InBatch
      <4> QED BY <4>5
    <3>2. CASE ~(sub.next < d /\ d <= n)
      <4>1. n < d
        BY <1>1, <2>2, <2>5, <2>8, <2>12, <3>2 DEF Later
      <4>2. ASSUME NEW i \in 1..k PROVE s[i] < d /\ s[i] # Marker
        <5>1. s[i] \in Nat /\ s[i] # 0 /\ s[i] <= n
          BY <2>3, <2>11
        <5> QED BY <2>2, <2>8, <4>1, <5>1 DEF Marker
      <4>3. PassBatch(d)'
        BY <2>2, <2>5, <4>2, WindowLeaves
      <4>4. Later(d)'
        BY <2>5, <2>12, <4>1 DEF Later, InBuffer
      <4> QED BY <4>3, <4>4
    <3> QED BY <3>1, <3>2
  <2> QED BY <2>5, <2>8, <2>12, ComingBatched
<1>13. CASE ReplayEnds
  <2>1. /\ UNCHANGED <<log, head, wire, client, published, stranded>> /\ sub.phase = "replay"
        /\ sub'.batch = sub.batch /\ sub.next = sub.target /\ sub'.phase = "synchronize"
        /\ sub'.target = sub.target /\ sub'.promised = sub.promised /\ sub'.buffer = sub.buffer
    BY <1>1, <1>13 DEF ReplayEnds, serverVars, clientVars, historyVars, Subs
  <2>2. End' = End /\ Streaming
    BY <1>1, <2>1 DEF End, Streaming
  <2>3. P \in Nat /\ IsPoint(P) /\ P <= Len(log)
    <3>1. P <= Len(log)
      BY <1>1, <2>1, PointWas
    <3> QED BY <1>3, <3>1
  <2>4. Coming(d) /\ d \in Nat /\ d # 0
    BY <1>3, <1>5, <2>2
  <2>5. Later(d) => Later(d)'
    BY <1>1, <2>1, <2>4 DEF Later, InBuffer
  <2> QED BY <2>1, <2>4, <2>5, ComingKept
<1>14. CASE Synchronize
  <2> DEFINE r == Coalesce(sub.buffer)
  <2>1. /\ UNCHANGED <<log, head, wire, client, published, stranded>> /\ sub.phase = "synchronize"
        /\ sub.batch = <<>> /\ sub'.phase = "live" /\ sub'.target = sub.target
        /\ sub'.promised = End /\ sub'.batch = SynchronizeBatch
    BY <1>1, <1>14 DEF Synchronize, serverVars, clientVars, historyVars, Subs, PhaseInv, End
  <2>2. /\ Len(r) \in Nat /\ KeepsLast(r, log, sub.buffer, Len(sub.buffer))
        /\ Len(SynchronizeBatch) = Len(r) + 1 /\ SynchronizeBatch[Len(r) + 1] = Marker
        /\ \A j \in 1..Len(r) : SynchronizeBatch[j] = r[j]
    BY SynchronizedBatch
  <2> HIDE DEF r
  <2>3. End' = End /\ Streaming
    BY <1>1, <2>1 DEF End, Streaming
  <2>4. P \in Nat /\ IsPoint(P) /\ P <= Len(log)
    <3>1. P <= Len(log)
      BY <1>1, <2>1, PointWas
    <3> QED BY <1>3, <3>1
  <2>5. d \in Newest(P) /\ Coming(d) /\ d \in Nat /\ d # 0
    BY <1>3, <1>5, <2>3, <2>4
  <2>6. \A j \in 1..Len(sub.buffer) : sub.buffer[j] \in Nat /\ sub.buffer[j] # 0 /\ sub.buffer[j] <= P
    <3>1. published <= P
      BY <1>1, <2>1, <2>4 DEF IsPoint, Streaming
    <3>2. \A j \in 1..Len(sub.buffer) :
              sub.buffer[j] \in Nat /\ sub.buffer[j] # 0 /\ sub.buffer[j] <= published
      BY Typed
    <3> QED BY SMTT(40), <1>1, <2>4, <3>1, <3>2
  <2>7. ASSUME Later(d) PROVE InBatch(d)'
    <3>1. PICK i \in 1..Len(sub.buffer) : sub.buffer[i] = d
      BY <2>1, <2>7 DEF Later, InBuffer
    <3>2. PICK j \in 1..Len(r) : r[j] = d /\ \A m \in 1..(j - 1) : m \in 1..Len(r) /\ r[m] < d
      BY <1>1, <2>2, <2>4, <2>5, <2>6, <3>1, NewestIsKept
    <3>3. j \in 1..Len(SynchronizeBatch) /\ SynchronizeBatch[j] = d
      BY <2>2, <3>2
    <3>4. ASSUME NEW m \in 1..(j - 1) PROVE Leaves(sub.batch[m], d)'
      <4>1. m \in 1..Len(r) /\ r[m] < d /\ SynchronizeBatch[m] = r[m]
        BY <2>2, <3>2
      <4>2. PICK a \in 1..Len(sub.buffer) : r[m] = sub.buffer[a]
        BY <2>2, <4>1 DEF KeepsLast
      <4>3. r[m] # Marker
        BY <2>6, <4>2 DEF Marker
      <4> QED BY <2>1, <4>1, <4>3 DEF Leaves
    <3> QED BY <2>1, <3>3, <3>4 DEF InBatch
  <2> QED BY <2>1, <2>5, <2>7, ComingBatched
<1>15. CASE \E n \in 1..MaxLog : LiveWindow(n)
  <2>1. PICK n \in 1..MaxLog : LiveWindow(n)
    BY <1>15
  <2> DEFINE b == sub.buffer
             p == SubSeq(b, 1, n)
             q == SubSeq(b, n + 1, Len(b))
             r == Coalesce(p)
  <2>2. /\ UNCHANGED <<log, head, wire, client, published, stranded>> /\ sub.phase = "live"
        /\ n \in 1..Len(b) /\ sub.batch = <<>>
        /\ sub'.phase = sub.phase /\ sub'.target = sub.target /\ sub'.promised = sub.promised
        /\ sub'.batch = r /\ sub'.buffer = q
    BY <1>1, <2>1 DEF LiveWindow, serverVars, clientVars, historyVars, Subs
  <2>3. /\ Len(p) = n /\ KeepsLast(r, log, p, n)
        /\ \A i \in 1..n : i \in 1..Len(b) /\ p[i] = b[i]
        /\ Len(q) = Len(b) - n
        /\ \A i \in 1..Len(b) - n : n + i \in 1..Len(b) /\ q[i] = b[n + i]
    BY <2>2, LiveBatch
  <2>4. /\ \A i \in 1..Len(b) : b[i] \in Nat /\ b[i] # 0 /\ b[i] <= published
        /\ \A i, j \in 1..Len(b) : i < j => b[i] < b[j]
    BY Typed DEF TypeInv, BufferInv, Ascends
  <2> HIDE DEF b, p, q, r
  <2>5. End' = End /\ Streaming
    BY <1>1, <2>2 DEF End, Streaming
  <2>6. P \in Nat /\ IsPoint(P) /\ P <= Len(log)
    <3>1. P <= Len(log)
      BY <1>1, <2>2, PointWas
    <3> QED BY <1>3, <3>1
  <2>7. d \in Newest(P) /\ Coming(d) /\ d \in Nat /\ d # 0
    BY <1>3, <1>5, <2>5, <2>6
  <2>8. ASSUME Pass(wire, d) PROVE published <= P
    <3>1. P \in head..Len(log) \/ P \in End..Len(log) \/ P = sub.promised
      BY <2>2, <2>6 DEF IsPoint
    <3>2. CASE P \in head..Len(log) \/ P \in End..Len(log)
      BY <1>1, <3>2
    <3>3. CASE P = sub.promised
      <4>1. d <= sub.promised
        BY <1>3, <3>3
      <4>2. ~\E j \in 1..Len(sub.batch) : sub.batch[j] = Marker
        <5>1. Len(<<>>) = 0 /\ 1..0 = {}
          BY EmptySeq
        <5> QED BY <2>2, <5>1
      <4>3. CASE \E j \in 1..Len(wire) : wire[j].kind = "synchronized"
        <5>1. PICK j \in 1..Len(wire) : wire[j].kind = "synchronized"
          BY <4>3
        <5>2. wire[j].seq = sub.promised
          BY <5>1 DEF OrderInv, ItemInOrder
        <5>3. sub.promised < d
          BY <2>8, <5>2 DEF Pass, Passes
        <5> QED BY <1>1, <2>7, <4>1, <5>3
      <4>4. CASE \A e \in Newest(sub.promised) : e <= client.cursor
        <5>1. d <= client.cursor /\ client.cursor < d
          BY <1>1, <1>3, <2>6, <2>7, <3>3, <4>4
        <5> QED BY <1>1, <2>7, <5>1
      <4> QED BY <2>2, <4>2, <4>3, <4>4 DEF MarkerInv, FlowInv
    <3> QED BY <3>1, <3>2, <3>3
  <2>9. ASSUME Pass(wire, d), Later(d) PROVE InBatch(d)' \/ (PassBatch(d)' /\ Later(d)')
    <3>1. PICK i \in 1..Len(b) : b[i] = d
      BY <2>2, <2>9 DEF Later, InBuffer, b
    <3>2. CASE i <= n
      <4>1. i \in 1..n /\ p[i] = d
        BY <2>3, <3>1, <3>2
      <4>2. ASSUME NEW j \in 1..n PROVE p[j] \in Nat /\ p[j] # 0 /\ p[j] <= P
        <5>1. p[j] = b[j] /\ j \in 1..Len(b)
          BY <2>3
        <5>2. b[j] \in Nat /\ b[j] # 0 /\ b[j] <= published
          BY <2>4, <5>1
        <5>3. published <= P
          BY <2>8, <2>9
        <5> QED BY <1>1, <2>6, <5>1, <5>2, <5>3
      <4>3. n \in Nat
        BY <1>1, <2>2
      <4>4. PICK j \in 1..Len(r) : r[j] = d /\ \A m \in 1..(j - 1) : m \in 1..Len(r) /\ r[m] < d
        BY <2>3, <2>6, <2>7, <4>1, <4>2, <4>3, NewestIsKept
      <4>5. ASSUME NEW m \in 1..(j - 1) PROVE Leaves(sub.batch[m], d)'
        <5>1. PICK a \in 1..n : r[m] = p[a]
          BY <2>3, <4>4 DEF KeepsLast
        <5>2. r[m] # Marker
          BY <4>2, <5>1 DEF Marker
        <5> QED BY <2>2, <4>4, <5>2 DEF Leaves
      <4> QED BY <2>2, <4>4, <4>5 DEF InBatch
    <3>3. CASE ~(i <= n)
      <4>1. i \in Nat /\ n \in Nat /\ Len(b) \in Nat /\ n < i
        BY <1>1, <2>2, <3>1, <3>3 DEF b
      <4>2. i - n \in 1..Len(b) - n /\ n + (i - n) = i
        BY <3>1, <4>1
      <4>3. q[i - n] = d /\ i - n \in 1..Len(q)
        BY <2>3, <3>1, <4>2
      <4>4. Later(d)'
        BY <2>2, <4>3 DEF Later, InBuffer
      <4>5. \A a \in 1..n : p[a] < d /\ p[a] # Marker
        <5> SUFFICES ASSUME NEW a \in 1..n PROVE p[a] < d /\ p[a] # Marker
          OBVIOUS
        <5>1. a \in 1..Len(b) /\ p[a] = b[a] /\ a < i
          BY <2>3, <4>1
        <5> QED BY <2>4, <3>1, <5>1 DEF Marker
      <4>6. PassBatch(d)'
        BY <2>2, <2>3, <4>5, WindowLeaves
      <4> QED BY <4>4, <4>6
    <3> QED BY <3>2, <3>3
  <2>10. CASE Pass(wire, d)
    BY <2>2, <2>7, <2>9, <2>10, ComingBatched
  <2>11. CASE ~Pass(wire, d)
    <3>1. In(wire, d)
      BY <2>7, <2>11 DEF Coming
    <3>2. In(wire, d)'
      BY <2>2, <3>1 DEF In, Brings, Passes
    <3> QED BY <3>2 DEF Coming
  <2> QED BY <2>10, <2>11
<1>16. CASE SendItem
  <2>1. PICK x \in SentItems(log) :
            /\ wire' = Append(wire, x)
            /\ Head(sub.batch) = Marker => x = MarkerItem(sub.promised)
            /\ Head(sub.batch) # Marker =>
                  \E m \in Head(sub.batch)..Len(log) : x = RowItem(log, Head(sub.batch), m)
    BY <1>16, ItemSent
  <2>2. /\ UNCHANGED <<log, head, client, published, stranded>> /\ sub.batch # <<>>
        /\ sub'.phase = sub.phase /\ sub'.target = sub.target /\ sub'.batch = Tail(sub.batch)
        /\ sub'.promised = sub.promised /\ sub'.next = sub.next /\ sub'.buffer = sub.buffer
    BY <1>1, <1>16 DEF SendItem, serverVars, clientVars, historyVars, Subs
  <2>3. End' = End /\ Streaming
    BY <1>1, <2>2 DEF End, Streaming
  <2>4. P \in Nat /\ IsPoint(P) /\ P <= Len(log)
    <3>1. P <= Len(log)
      BY <1>1, <2>2, PointWas
    <3> QED BY <1>3, <3>1
  <2>5. Coming(d) /\ d \in Nat /\ d # 0
    BY <1>3, <1>5, <2>3
  <2>6. Later(d) => Later(d)'
    BY <2>2 DEF Later, InBuffer
  <2> QED BY <2>1, <2>2, <2>5, <2>6, ComingSent
<1>17. CASE RefetchFails
  <2>1. /\ UNCHANGED <<log, wire, head, client, published>> /\ sub.batch # <<>>
        /\ sub'.phase = sub.phase /\ sub'.target = sub.target /\ sub'.batch = Tail(sub.batch)
        /\ sub'.promised = sub.promised /\ sub'.next = sub.next /\ sub'.buffer = sub.buffer
        /\ stranded' = stranded \cup {log[Head(sub.batch)].agg}
    BY <1>1, <1>17 DEF RefetchFails, serverVars, clientVars, Subs
  <2>2. End' = End /\ Streaming
    BY <1>1, <2>1 DEF End, Streaming
  <2>3. P \in Nat /\ IsPoint(P) /\ P <= Len(log)
    <3>1. P <= Len(log)
      BY <1>1, <2>1, PointWas
    <3> QED BY <1>3, <3>1
  <2>4. Coming(d) /\ d \in Nat /\ d # 0
    BY <1>3, <1>5, <2>2
  <2>5. Head(sub.batch) # d
    BY <1>4, <2>1
  <2>6. Later(d) => Later(d)'
    BY <2>1 DEF Later, InBuffer
  <2> QED BY <2>1, <2>4, <2>5, <2>6, ComingDropped
<1>18. CASE Receive
  <2>1. UNCHANGED <<sub, log, head, published>>
    BY <1>18, Received
  <2>2. PICK x \in SentItems(log) : Arrives(x) /\ (FromOld(x) \/ FromWire(x))
    BY <1>18, Received
  <2>3. End' = End /\ Streaming
    BY <2>1 DEF End, Streaming
  <2>4. Coming(d)
    BY <1>5, <2>3
  <2>5. CASE FromOld(x)
    <3>1. wire' = wire
      BY <2>5 DEF FromOld
    <3> QED BY <2>1, <2>4, <3>1, ComingKept DEF Later, InBuffer
  <2>6. CASE FromWire(x)
    <3>1. x = wire[1] /\ wire # <<>> /\ wire' = Tail(wire)
      BY <2>6 DEF FromWire
    <3>2. ~Brings(x, d)
      <4>1. x.seq \in Nat
        BY SentInLog
      <4>2. x.kind \in {"snapshot", "row"} => x.seq <= client'.cursor
        BY <1>1, <2>2, <4>1 DEF Arrives
      <4> QED BY <1>1, <1>3, <2>2, <4>1, <4>2 DEF Brings, Arrives
    <3> QED BY <2>1, <2>4, <3>1, <3>2, ComingReceived
  <2> QED BY <2>2, <2>5, <2>6
<1> QED BY <1>6, <1>8, <1>9, <1>10, <1>11, <1>12, <1>13, <1>14, <1>15, <1>16, <1>17, <1>18
        DEF Next, EngineStep, HandlerStep, Breaks


-----------------------------------------------------------------------------
(* Items of ended streams.                                                 *)
LEMMA FirstGone ==
  ASSUME TypeInv, NEW q \in Seq(SentItems(log)), q # <<>>, NEW d,
         ~Brings(q[1], d), In(q, d) \/ Pass(q, d)
  PROVE  In(Tail(q), d) \/ Pass(Tail(q), d)
<1>1. /\ Len(q) \in Nat /\ Len(Tail(q)) = Len(q) - 1
      /\ \A i \in 1..Len(q) - 1 : Tail(q)[i] = q[i + 1]
  BY FirstItem
<1>2. ASSUME In(q, d) PROVE In(Tail(q), d)
  <2>1. PICK j \in 1..Len(q) : Brings(q[j], d) /\ \A i \in 1..(j - 1) : Passes(q[i], d)
    BY <1>2 DEF In
  <2>2. j # 1
    BY <2>1
  <2>3. PICK k : k = j - 1
    OBVIOUS
  <2>4. k \in 1..Len(Tail(q)) /\ Tail(q)[k] = q[j]
    BY <1>1, <2>2, <2>3
  <2>5. ASSUME NEW i \in 1..(k - 1) PROVE Passes(Tail(q)[i], d)
    <3>1. i + 1 \in 1..(j - 1) /\ i \in 1..Len(q) - 1
      BY <1>1, <2>3, <2>4
    <3>2. Tail(q)[i] = q[i + 1] /\ Passes(q[i + 1], d)
      BY <1>1, <2>1, <3>1
    <3> QED BY <3>2
  <2> QED BY <2>1, <2>4, <2>5 DEF In
<1>3. ASSUME Pass(q, d) PROVE Pass(Tail(q), d)
  <2> SUFFICES ASSUME NEW i \in 1..Len(Tail(q)) PROVE Passes(Tail(q)[i], d)
    BY DEF Pass
  <2>1. i + 1 \in 1..Len(q) /\ Tail(q)[i] = q[i + 1]
    BY <1>1
  <2> QED BY <1>3, <2>1 DEF Pass
<1> QED BY <1>2, <1>3

(* What a break keeps is a prefix of what had been on its way.             *)
LEMMA KeptSkipsNothing ==
  ASSUME TypeInv, NEW n \in 0..Len(wire), NEW d,
         In(old, d) \/ Pass(old, d),
         Pass(old, d) => In(wire, d) \/ Pass(wire, d) \/ n = 0
  PROVE  In(Kept(n), d) \/ Pass(Kept(n), d)
<1>1. Len(old) \in Nat /\ Len(wire) \in Nat /\ n \in Nat /\ n <= Len(wire)
  BY Typed
<1>2. /\ Len(Kept(n)) = Len(old) + n
      /\ \A i \in 1..Len(old) : Kept(n)[i] = old[i]
      /\ \A i \in 1..n : Kept(n)[Len(old) + i] = wire[i]
  BY KeptItems DEF TypeInv
<1>3. CASE In(old, d)
  <2>1. PICK j \in 1..Len(old) : Brings(old[j], d) /\ \A i \in 1..(j - 1) : Passes(old[i], d)
    BY <1>3 DEF In
  <2>2. j \in 1..Len(Kept(n)) /\ Kept(n)[j] = old[j] /\ \A i \in 1..(j - 1) : Kept(n)[i] = old[i]
    BY <1>1, <1>2
  <2>3. Brings(Kept(n)[j], d) /\ \A i \in 1..(j - 1) : Passes(Kept(n)[i], d)
    BY <2>1, <2>2
  <2> QED BY <2>2, <2>3 DEF In
<1>4. ASSUME Pass(old, d), \A i \in 1..n : Passes(wire[i], d) PROVE Pass(Kept(n), d)
  <2> SUFFICES ASSUME NEW i \in 1..Len(Kept(n)) PROVE Passes(Kept(n)[i], d)
    BY DEF Pass
  <2>1. CASE i \in 1..Len(old)
    BY <1>2, <1>4, <2>1 DEF Pass
  <2>2. CASE i \notin 1..Len(old)
    <3>1. i - Len(old) \in 1..n /\ Len(old) + (i - Len(old)) = i
      BY <1>1, <1>2, <2>2
    <3>2. Kept(n)[i] = wire[i - Len(old)]
      BY <1>2, <3>1
    <3> QED BY <1>4, <3>1, <3>2
  <2> QED BY <2>1, <2>2
<1>5. CASE Pass(old, d) /\ n = 0
  BY <1>4, <1>5
<1>6. CASE Pass(old, d) /\ Pass(wire, d)
  <2>1. \A i \in 1..n : i \in 1..Len(wire)
    BY <1>1
  <2> QED BY <1>4, <1>6, <2>1 DEF Pass
<1>7. CASE Pass(old, d) /\ In(wire, d)
  <2>1. PICK j \in 1..Len(wire) : Brings(wire[j], d) /\ \A i \in 1..(j - 1) : Passes(wire[i], d)
    BY <1>7 DEF In
  <2>2. CASE n < j
    <3>1. \A i \in 1..n : i \in 1..(j - 1)
      BY <1>1, <2>2
    <3> QED BY <1>4, <1>7, <2>1, <3>1
  <2>3. CASE ~(n < j)
    <3>1. PICK k : k = Len(old) + j
      OBVIOUS
    <3>2. j \in 1..n /\ k \in 1..Len(Kept(n)) /\ Kept(n)[k] = wire[j]
      BY <1>1, <1>2, <2>3, <3>1
    <3>3. ASSUME NEW i \in 1..(k - 1) PROVE Passes(Kept(n)[i], d)
      <4>1. CASE i \in 1..Len(old)
        BY <1>2, <1>7, <4>1 DEF Pass
      <4>2. CASE i \notin 1..Len(old)
        <5>1. /\ i - Len(old) \in 1..n /\ Len(old) + (i - Len(old)) = i
              /\ i - Len(old) \in 1..(j - 1)
          BY <1>1, <3>1, <3>2, <4>2
        <5>2. Kept(n)[i] = wire[i - Len(old)]
          BY <1>2, <5>1
        <5> QED BY <2>1, <5>1, <5>2
      <4> QED BY <4>1, <4>2
    <3> QED BY <2>1, <3>2, <3>3 DEF In
  <2> QED BY <2>2, <2>3
<1> QED BY <1>3, <1>5, <1>6, <1>7

LEMMA NextOldSkipsNothing ==
  ASSUME TypeInv, PhaseInv, OrderInv, FlowInv, Next PROVE OldSkipsNothing'
<1> SUFFICES ASSUME NEW P, IsPoint(P)' \/ OldPoint(P)', NEW d \in Newest(P)', client'.cursor < d
             PROVE  In(old', d) \/ Pass(old', d)
  BY DEF OldSkipsNothing, In, Pass
<1>1. /\ Len(log) \in Nat /\ Len(old) \in Nat /\ Len(wire) \in Nat /\ client.cursor \in Nat
      /\ End \in Nat
  BY Typed
<1>2. old \in Seq(SentItems(log)) /\ wire \in Seq(SentItems(log))
  BY DEF TypeInv, WireInv
<1>3. /\ d \in Nat /\ d # 0 /\ d <= P /\ P \in Nat
      /\ d <= Len(log) => client.cursor < d
      /\ P <= Len(log) => d \in Newest(P) /\ (IsPoint(P) \/ OldPoint(P))
      /\ Len(log) < P /\ d <= Len(log) => d \in Newest(Len(log)) /\ IsPoint(Len(log))
  BY NewestPointWas
<1>4. In(old, d) \/ Pass(old, d)
  <2>1. CASE d <= Len(log) /\ P <= Len(log)
    BY <1>3, <2>1 DEF OldSkipsNothing, FlowInv
  <2>2. CASE d <= Len(log) /\ Len(log) < P
    BY <1>3, <2>2 DEF OldSkipsNothing, FlowInv
  <2>3. CASE Len(log) < d
    <3> SUFFICES ASSUME NEW i \in 1..Len(old) PROVE Passes(old[i], d)
      BY DEF Pass
    <3>1. old[i] \in SentItems(log)
      BY <1>2, ElementOfSeq
    <3>2. old[i].seq \in Nat /\ old[i].seq <= Len(log)
      BY <3>1, SentInLog
    <3> QED BY <1>1, <1>3, <2>3, <3>2 DEF Passes
  <2> QED BY <1>1, <1>3, <2>1, <2>2, <2>3
<1>5. CASE Receive
  <2>1. PICK x \in SentItems(log) : Arrives(x) /\ (FromOld(x) \/ FromWire(x))
    BY <1>5, Received
  <2>2. CASE FromOld(x)
    <3>1. x = old[1] /\ old # <<>> /\ old' = Tail(old)
      BY <2>2 DEF FromOld
    <3>2. ~Brings(x, d)
      <4>1. x.seq \in Nat
        BY SentInLog
      <4>2. x.kind \in {"snapshot", "row"} => x.seq <= client'.cursor
        BY <1>1, <2>1, <4>1 DEF Arrives
      <4> QED BY <1>1, <1>3, <2>1, <4>1, <4>2 DEF Brings, Arrives
    <3> QED BY <1>2, <1>4, <3>1, <3>2, FirstGone
  <2>3. CASE FromWire(x)
    <3>1. Len(old') = 0
      BY <2>3, EmptySeq DEF FromWire
    <3> QED BY <3>1 DEF Pass
  <2> QED BY <2>1, <2>2, <2>3
<1>6. CASE Breaks
  <2>1. log' = log
    BY <1>6, BreakLeaves
  <2>2. PICK n \in 0..Len(wire) : old' = Kept(n)
    BY <1>6, BreakLeaves
  <2>3. P <= Len(log)
    <3>1. TypeInv'
      BY NextTypeInv
    <3>2. CASE IsPoint(P)'
      BY <2>1, <3>2, PointWas
    <3>3. CASE OldPoint(P)'
      <4>1. IsPoint(P) \/ OldPoint(P)
        BY <3>3, OldPointWas
      <4> QED BY <4>1, PointInLog
    <3> QED BY <3>2, <3>3
  <2>4. ASSUME Pass(old, d), n # 0 PROVE In(wire, d) \/ Pass(wire, d)
    <3>1. client.cursor < d /\ d \in Newest(P) /\ (IsPoint(P) \/ OldPoint(P))
      BY <1>1, <1>3, <2>3
    <3>2. Streaming
      <4>1. CASE wire = <<>>
        <5>1. Len(wire) = 0
          BY <4>1, EmptySeq
        <5> QED BY <2>4, <5>1
      <4> QED BY <4>1 DEF PhaseInv
    <3>3. CASE IsPoint(P) /\ d <= End
      BY <3>1, <3>2, <3>3 DEF FlowInv, NothingSkipped, Coming
    <3>4. CASE End < d
      BY <1>3, <3>4, BeyondPasses
    <3>5. CASE P = client.told
      <4>1. d <= client.cursor
        BY <3>1, <3>5 DEF FlowInv, ToldInv
      <4> QED BY <1>1, <1>3, <3>1, <4>1
    <3>6. CASE \E j \in 1..Len(old) : old[j].kind = "synchronized" /\ P = old[j].seq
      <4>1. PICK j \in 1..Len(old) : P = old[j].seq
        BY <3>6
      <4>2. P < d
        BY <2>4, <4>1 DEF Pass, Passes
      <4> QED BY <1>3, <4>2
    <3> QED BY <1>1, <1>3, <3>1, <3>3, <3>4, <3>5, <3>6 DEF OldPoint
  <2> QED BY <1>4, <2>2, <2>4, KeptSkipsNothing
<1>7. CASE ~Receive /\ ~Breaks
  <2>1. old' = old
    BY <1>7 DEF Next, Breaks, Commit, EngineStep, AdvanceHead, Publish, HandlerStep, ReadHead,
       ReplayWindow, ReplayEnds, SendSnapshot, Synchronize, LiveWindow, SendItem, RefetchFails,
       Subscribe, ChooseStart, HttpStep, LoadHttpSnapshot, MissHttpSnapshot, clientVars
  <2> QED BY <1>4, <2>1
<1> QED BY <1>5, <1>6, <1>7

(* What was promised and has come stays.                                   *)
LEMMA PromisedStays ==
  ASSUME TypeInv, PhaseInv, OrderInv, Next, sub'.phase = "live", sub'.promised = sub.promised,
         \A d \in Newest(sub.promised) : d <= client.cursor
  PROVE  \A d \in Newest(sub.promised)' : d <= client'.cursor
<1> SUFFICES ASSUME NEW d \in Newest(sub.promised)', ~(d <= client'.cursor) PROVE FALSE
  OBVIOUS
<1>1. PICK P : P = sub'.promised
  OBVIOUS
<1>2. IsPoint(P)' /\ d \in Newest(P)'
  <2>1. IsPoint(P)'
    BY <1>1 DEF IsPoint
  <2>2. d \in Newest(P)'
    BY <1>1 DEF Newest
  <2> QED BY <2>1, <2>2
<1>3. TypeInv'
  BY NextTypeInv
<1>4. client'.cursor \in Nat /\ P \in Nat /\ P <= Len(log) /\ client.cursor \in Nat /\ Len(log) \in Nat
  <2>1. client'.cursor \in Nat
    BY <1>3 DEF TypeInv, LogInv, ClientInv, Clients
  <2>2. sub.promised \in Nat /\ sub.promised <= Len(log) /\ client.cursor \in Nat /\ Len(log) \in Nat
    BY Typed
  <2> QED BY <1>1, <2>1, <2>2
<1>5. d \in Nat /\ d <= P /\ client'.cursor < d
  <2>1. d \in 1..P
    BY <1>2 DEF Newest
  <2> QED BY <1>4, <2>1
<1>6. d <= Len(log) => client.cursor < d
  BY <1>2, <1>5, NewestPointWas
<1>7. P <= Len(log) => d \in Newest(P)
  BY <1>2, <1>5, NewestPointWas
<1>8. d <= client.cursor
  BY <1>1, <1>4, <1>7
<1> QED BY <1>4, <1>5, <1>6, <1>8

LEMMA NextMarkerInv ==
  ASSUME TypeInv, PhaseInv, OrderInv, FlowInv, Next PROVE MarkerInv'
<1> SUFFICES ASSUME sub'.phase = "live"
             PROVE  \/ \E j \in 1..Len(wire') : wire'[j].kind = "synchronized"
                    \/ \E j \in 1..Len(sub'.batch) : sub'.batch[j] = Marker
                    \/ \A d \in Newest(sub.promised)' : d <= client'.cursor
  BY DEF MarkerInv
<1> DEFINE InWire == \E j \in 1..Len(wire) : wire[j].kind = "synchronized"
           Batched == \E j \in 1..Len(sub.batch) : sub.batch[j] = Marker
           Came == \A d \in Newest(sub.promised) : d <= client.cursor
<1>1. sub \in Subs(Len(log)) /\ Len(wire) \in Nat /\ Len(sub.batch) \in Nat
  BY Typed
<1>2. wire \in Seq(SentItems(log))
  BY DEF TypeInv, WireInv
<1>3. sub'.promised = sub.promised /\ Came => Came'
  BY PromisedStays
<1>4. sub.phase = "live" => InWire \/ Batched \/ Came
  BY DEF FlowInv, MarkerInv
<1> HIDE DEF Came
<1> SUFFICES InWire' \/ Batched' \/ Came'
  BY DEF Came
<1>5. CASE (\E batch \in Batches : Commit(batch)) \/ AdvanceHead \/ Publish
  <2>1. /\ sub'.phase = sub.phase /\ sub'.promised = sub.promised /\ sub'.batch = sub.batch
        /\ wire' = wire
    BY <1>1, <1>5 DEF Commit, AdvanceHead, Publish, Subs
  <2> QED BY <1>3, <1>4, <2>1
<1>6. CASE Subscribe \/ ChooseStart \/ HttpStep \/ Breaks \/ ReadHead \/ ReplayEnds \/ SendSnapshot
            \/ \E n \in 1..MaxLog : ReplayWindow(n)
  <2>1. CASE Breaks
    BY <2>1, BreakLeaves DEF NoSubscription
  <2>2. CASE ~Breaks
    BY <1>1, <1>6, <2>2 DEF Subscribe, ChooseStart, HttpStep, LoadHttpSnapshot, MissHttpSnapshot,
       Request, NoSubscription, Subs, ReadHead, ReplayEnds, SendSnapshot, ReplayWindow
  <2> QED BY <2>1, <2>2
<1>7. CASE Synchronize
  <2>1. sub'.batch = SynchronizeBatch
    BY <1>1, <1>7 DEF Synchronize, Subs
  <2>2. /\ Len(Coalesce(sub.buffer)) \in Nat
        /\ Len(SynchronizeBatch) = Len(Coalesce(sub.buffer)) + 1
        /\ SynchronizeBatch[Len(Coalesce(sub.buffer)) + 1] = Marker
    BY SynchronizedBatch
  <2>3. Len(Coalesce(sub.buffer)) + 1 \in 1..Len(SynchronizeBatch)
    BY <2>2
  <2> QED BY <2>1, <2>2, <2>3
<1>8. CASE \E n \in 1..MaxLog : LiveWindow(n)
  <2>1. /\ sub.phase = "live" /\ sub'.promised = sub.promised /\ sub.batch = <<>> /\ wire' = wire
    BY <1>1, <1>8 DEF LiveWindow, Subs
  <2>2. ~Batched
    BY <2>1, EmptySeq
  <2> QED BY <1>3, <1>4, <2>1, <2>2
<1>9. CASE SendItem
  <2>1. PICK x \in SentItems(log) :
            /\ wire' = Append(wire, x)
            /\ Head(sub.batch) = Marker => x = MarkerItem(sub.promised)
    BY <1>9, ItemSent
  <2>2. /\ sub.batch # <<>> /\ sub'.phase = sub.phase /\ sub'.batch = Tail(sub.batch)
        /\ sub'.promised = sub.promised
    BY <1>1, <1>9 DEF SendItem, Subs
  <2>3. /\ Len(wire') = Len(wire) + 1 /\ wire'[Len(wire) + 1] = x
        /\ \A j \in 1..Len(wire) : wire'[j] = wire[j]
    BY <1>2, <2>1, AppendProperties
  <2>4. ASSUME InWire PROVE InWire'
    <3>1. PICK j \in 1..Len(wire) : wire[j].kind = "synchronized"
      BY <2>4
    <3>2. j \in 1..Len(wire') /\ wire'[j] = wire[j]
      BY <1>1, <2>3
    <3> QED BY <3>1, <3>2
  <2>5. ASSUME Batched PROVE InWire' \/ Batched'
    <3>1. PICK j \in 1..Len(sub.batch) : sub.batch[j] = Marker
      BY <2>5
    <3>2. /\ Head(sub.batch) = sub.batch[1]
          /\ Len(Tail(sub.batch)) = Len(sub.batch) - 1
          /\ \A i \in 1..Len(sub.batch) - 1 : Tail(sub.batch)[i] = sub.batch[i + 1]
      BY <2>2, BatchTail
    <3>3. CASE j = 1
      <4>1. x.kind = "synchronized"
        BY <2>1, <3>1, <3>2, <3>3 DEF MarkerItem
      <4>2. Len(wire) + 1 \in 1..Len(wire')
        BY <1>1, <2>3
      <4> QED BY <2>3, <4>1, <4>2
    <3>4. CASE j # 1
      <4>1. j - 1 \in 1..Len(sub'.batch) /\ sub'.batch[j - 1] = sub.batch[j]
        BY <1>1, <2>2, <3>2, <3>4
      <4> QED BY <3>1, <4>1
    <3> QED BY <3>3, <3>4
  <2> QED BY <1>3, <1>4, <2>2, <2>4, <2>5
<1>10. CASE RefetchFails
  <2>1. /\ sub.batch # <<>> /\ sub'.phase = sub.phase /\ sub'.batch = Tail(sub.batch)
        /\ sub'.promised = sub.promised /\ wire' = wire /\ Head(sub.batch) # Marker
    BY <1>1, <1>10 DEF RefetchFails, Subs
  <2>2. ASSUME Batched PROVE Batched'
    <3>1. PICK j \in 1..Len(sub.batch) : sub.batch[j] = Marker
      BY <2>2
    <3>2. /\ Head(sub.batch) = sub.batch[1]
          /\ Len(Tail(sub.batch)) = Len(sub.batch) - 1
          /\ \A i \in 1..Len(sub.batch) - 1 : Tail(sub.batch)[i] = sub.batch[i + 1]
      BY <2>1, BatchTail
    <3>3. j # 1
      BY <2>1, <3>1, <3>2
    <3>4. j - 1 \in 1..Len(sub'.batch) /\ sub'.batch[j - 1] = sub.batch[j]
      BY <1>1, <2>1, <3>2, <3>3
    <3> QED BY <3>1, <3>4
  <2> QED BY <1>3, <1>4, <2>1, <2>2
<1>11. CASE Receive
  <2>1. UNCHANGED sub
    BY <1>11, Received
  <2>2. PICK x \in SentItems(log) :
            /\ Arrives(x)
            /\ FromOld(x) \/ (FromWire(x) /\ Streaming /\ ItemInOrder(x, 1))
    BY <1>11, Received
  <2>3. CASE FromOld(x)
    BY <1>3, <1>4, <2>1, <2>3 DEF FromOld
  <2>4. CASE FromWire(x) /\ Streaming /\ ItemInOrder(x, 1)
    <3>1. /\ x = wire[1] /\ wire' = Tail(wire) /\ Len(wire') = Len(wire) - 1
          /\ \A i \in 1..Len(wire) - 1 : wire'[i] = wire[i + 1]
      BY <1>2, <2>4, FirstItem DEF FromWire
    <3>2. ASSUME InWire PROVE InWire' \/ Came
      <4>1. PICK j \in 1..Len(wire) : wire[j].kind = "synchronized"
        BY <3>2
      <4>2. CASE j = 1
        <5>1. x.kind = "synchronized" /\ x.seq = sub.promised
          BY <2>4, <3>1, <4>1, <4>2 DEF ItemInOrder
        <5>2. NothingSkipped /\ OldSkipsNothing /\ ToldInv
          BY DEF FlowInv
        <5>3. \A d \in Newest(x.seq) : d <= client.cursor
          BY <2>4, <5>1, <5>2, MarkerArrives
        <5> QED BY <5>1, <5>3 DEF Came
      <4>3. CASE j # 1
        <5>1. j - 1 \in 1..Len(wire') /\ wire'[j - 1] = wire[j]
          BY <1>1, <3>1, <4>3
        <5> QED BY <4>1, <5>1
      <4> QED BY <4>2, <4>3
    <3> QED BY <1>3, <1>4, <2>1, <3>2
  <2> QED BY <2>2, <2>3, <2>4
<1> QED BY <1>5, <1>6, <1>7, <1>8, <1>9, <1>10, <1>11
        DEF Next, EngineStep, HandlerStep, Breaks

-----------------------------------------------------------------------------
(* The rows.  They are right up to a later point when no event of the      *)
(* aggregate lies between.                                                 *)
LEMMA RowsFollowTo ==
  ASSUME TypeInv, RowsFollow, LogGrows, client.data,
         client'.rows = client.rows, client'.cursor = client.cursor,
         NEW P \in Nat, P <= Len(log'), NEW Q, IsPoint(Q) \/ OldPoint(Q), Q <= P, client.cursor <= Q \/ Q = P,
         NEW a \in Aggregates \ stranded,
         \A e \in client.cursor + 1 .. P : log'[e].agg # a
  PROVE  \E n \in P..Len(log') : client'.rows[a] = RowIn(log', a, n)
<1>1. Q \in Nat /\ Q <= Len(log)
  BY PointInLog
<1>2. client.cursor \in Nat /\ Len(log) \in Nat /\ Len(log') \in Nat /\ Len(log) <= Len(log')
  BY Typed DEF LogGrows
<1>3. ASSUME NEW e \in client.cursor + 1 .. Q PROVE log[e].agg # a
  <2>1. e \in client.cursor + 1 .. P /\ e \in 1..Len(log)
    BY <1>1, <1>2
  <2>2. log'[e] = log[e]
    BY <2>1 DEF LogGrows
  <2> QED BY <2>1, <2>2
<1>4. PICK n \in Q..Len(log) : client.rows[a] = RowIn(log, a, n)
  BY <1>3 DEF RowsFollow
<1>5. n \in Nat /\ n <= Len(log) /\ Q <= n
  BY <1>1, <1>2
<1>6. RowIn(log', a, n) = RowIn(log, a, n)
  <2>1. \A i \in 1..n : log'[i] = log[i]
    BY <1>2, <1>5 DEF LogGrows
  <2> QED BY <1>5, <2>1, RowStays
<1>7. CASE P <= n
  <2>1. n \in P..Len(log')
    BY <1>2, <1>5, <1>7
  <2> QED BY <1>4, <1>6, <2>1
<1>8. CASE ~(P <= n)
  <2>1. n <= P /\ client.cursor <= n
    BY <1>1, <1>2, <1>5, <1>8
  <2>2. \A e \in n + 1 .. P : e \in client.cursor + 1 .. P
    BY <1>2, <1>5, <2>1
  <2>3. RowIn(log', a, P) = RowIn(log', a, n)
    BY <1>5, <2>1, <2>2, RowStands
  <2>4. P \in P..Len(log')
    BY <1>2
  <2> QED BY <1>4, <1>6, <2>3, <2>4
<1> QED BY <1>7, <1>8

(* A row read at some sequence is right for a later point, too, when no    *)
(* event of its aggregate lies between.                                    *)
LEMMA RowUpTo ==
  ASSUME Len(log) \in Nat, NEW a, NEW m \in Nat, m <= Len(log),
         NEW P \in Nat, P <= Len(log), \A e \in m + 1 .. P : log[e].agg # a
  PROVE  \E n \in P..Len(log) : RowIn(log, a, m) = RowIn(log, a, n)
<1>1. CASE P <= m
  <2>1. m \in P..Len(log)
    BY <1>1
  <2> QED BY <2>1
<1>2. CASE ~(P <= m)
  <2>1. m <= P /\ P \in P..Len(log)
    BY <1>2
  <2>2. RowIn(log, a, P) = RowIn(log, a, m)
    BY <2>1, RowStands
  <2> QED BY <2>1, <2>2
<1> QED BY <1>1, <1>2

LEMMA NextRowsFollow ==
  ASSUME TypeInv, PhaseInv, OrderInv, FlowInv, Next PROVE RowsFollow'
<1> SUFFICES ASSUME client'.data, NEW P, IsPoint(P)' \/ OldPoint(P)',
                    NEW a \in Aggregates \ stranded',
                    \A e \in client'.cursor + 1 .. P : log'[e].agg # a
             PROVE  \E n \in P..Len(log') : client'.rows[a] = RowIn(log', a, n)
  BY DEF RowsFollow
<1>1. /\ client \in Clients(Len(log)) /\ client.cursor \in Nat /\ client.cursor <= Len(log)
      /\ Len(log) \in Nat /\ head \in Nat /\ head <= Len(log)
      /\ LogGrows /\ RowsFollow
  BY Typed, StepLogGrows DEF FlowInv, TypeInv
<1>2. P \in Nat /\ P <= Len(log') /\ (P <= Len(log) => IsPoint(P) \/ OldPoint(P))
  <2>1. CASE IsPoint(P)'
    BY <1>1, <2>1, PointWas
  <2>2. CASE OldPoint(P)'
    <3>1. IsPoint(P) \/ OldPoint(P)
      BY <2>2, OldPointWas
    <3>2. P \in Nat /\ P <= Len(log) /\ Len(log) <= Len(log')
      BY <1>1, <3>1, PointInLog DEF LogGrows
    <3> QED BY <1>1, <3>1, <3>2 DEF LogGrows
  <2> QED BY <2>1, <2>2
<1>3. CASE LoadHttpSnapshot
  <2>1. /\ log' = log
        /\ client'.rows = [b \in Aggregates |-> RowIn(log, b, Len(log))]
    BY <1>3, HttpLoads
  <2>2. Len(log) \in P..Len(log)
    BY <1>1, <1>2, <2>1
  <2> QED BY <2>1, <2>2
<1>4. CASE ~LoadHttpSnapshot /\ ~Receive
  <2>1. /\ client'.rows = client.rows /\ client'.cursor = client.cursor /\ client.data
        /\ a \in Aggregates \ stranded
    BY <1>4, ClientStays, StrandedGrows
  <2>2. PICK Q : (IsPoint(Q) \/ OldPoint(Q)) /\ Q <= P /\ (client.cursor <= Q \/ Q = P)
    <3>1. CASE P <= Len(log)
      BY <1>2, <3>1
    <3>2. CASE ~(P <= Len(log))
      <4>1. IsPoint(Len(log)) /\ Len(log) <= P /\ client.cursor <= Len(log)
        BY <1>1, <1>2, <3>2 DEF IsPoint
      <4> QED BY <4>1
    <3> QED BY <3>1, <3>2
  <2>3. \A e \in client.cursor + 1 .. P : log'[e].agg # a
    BY <2>1
  <2> QED BY <1>1, <1>2, <2>1, <2>2, <2>3, RowsFollowTo
<1>5. CASE Receive
  <2>1. PICK x \in SentItems(log) :
            /\ Arrives(x)
            /\ FromOld(x) \/ (FromWire(x) /\ Streaming /\ ItemInOrder(x, 1))
    BY <1>5, Received
  <2>2. log' = log /\ (IsPoint(P) \/ OldPoint(P)) /\ P <= Len(log)
    BY <1>2, <1>5, Received
  <2>3. \A e \in client'.cursor + 1 .. P : log[e].agg # a
    BY <2>2
  <2>4. ASSUME NEW m \in Nat, m <= Len(log), \A e \in m + 1 .. P : log[e].agg # a
        PROVE  \E n \in P..Len(log) : RowIn(log, a, m) = RowIn(log, a, n)
    BY <1>1, <1>2, <2>2, <2>4, RowUpTo
  <2> SUFFICES \E n \in P..Len(log) : client'.rows[a] = RowIn(log, a, n)
    BY <2>2
  <2>5. CASE /\ client.data /\ stranded' = stranded
             /\ client'.rows = client.rows /\ client'.cursor = client.cursor
    BY <1>1, <2>2, <2>3, <2>5 DEF RowsFollow
  <2>6. ASSUME x.seq \in 0..Len(log), client'.cursor = x.seq,
               client'.rows = [b \in Aggregates |-> RowIn(log, b, x.seq)]
        PROVE  \E n \in P..Len(log) : client'.rows[a] = RowIn(log, a, n)
    <3>1. PICK s : s = x.seq
      OBVIOUS
    <3>2. s \in Nat /\ s <= Len(log) /\ client'.rows[a] = RowIn(log, a, s)
      BY <1>1, <2>6, <3>1
    <3>3. \A e \in s + 1 .. P : log[e].agg # a
      BY <2>3, <2>6, <3>1
    <3> QED BY <2>4, <3>2, <3>3
  <2>7. ASSUME x.kind = "row", client.data, stranded' = stranded,
               x.seq \in 1..Len(log), client.cursor < x.seq, client'.cursor = x.seq,
               log[x.seq].agg = x.agg,
               \E m \in x.seq..Len(log) : client'.rows = [client.rows EXCEPT ![x.agg] = RowIn(log, x.agg, m)]
        PROVE  \E n \in P..Len(log) : client'.rows[a] = RowIn(log, a, n)
    <3>1. PICK s : s = x.seq
      OBVIOUS
    <3>2. PICK g : g = x.agg
      OBVIOUS
    <3>3. PICK m \in s..Len(log) : client'.rows = [client.rows EXCEPT ![g] = RowIn(log, g, m)]
      BY <2>7, <3>1, <3>2
    <3>4. /\ s \in Nat /\ m \in Nat /\ s <= m /\ m <= Len(log) /\ client.cursor < s
          /\ client.rows \in [Aggregates -> 0..Len(log)]
      BY <1>1, <2>7, <3>1, <3>3 DEF Clients
    <3>5. CASE a = g
      <4>1. client'.rows[a] = RowIn(log, a, m)
        BY <3>3, <3>4, <3>5
      <4>2. \A e \in m + 1 .. P : log[e].agg # a
        <5>1. \A e \in m + 1 .. P : e \in s + 1 .. P
          BY <1>2, <3>4
        <5> QED BY <2>3, <2>7, <3>1, <5>1
      <4>3. \E n \in P..Len(log) : RowIn(log, a, m) = RowIn(log, a, n)
        BY <2>4, <3>4, <4>2
      <4> QED BY <4>1, <4>3
    <3>6. CASE a # g
      <4>1. client'.rows[a] = client.rows[a]
        BY <3>3, <3>4, <3>6
      <4>2. \A e \in client.cursor + 1 .. P : log[e].agg # a
        <5> SUFFICES ASSUME NEW e \in client.cursor + 1 .. P, log[e].agg = a PROVE FALSE
          OBVIOUS
        <5>1. PICK d \in client.cursor + 1 .. P :
                  log[d].agg = a /\ \A i \in d + 1 .. P : log[i].agg # a
          <6>1. PICK k \in Nat : k = client.cursor
            BY <1>1
          <6>2. e \in k + 1 .. P /\ log[e].agg = a
            BY <6>1
          <6>3. HasLast(log, a, k, P)
            BY <1>2, LastOfAggregate
          <6> QED BY <6>1, <6>2, <6>3 DEF HasLast
        <5>2. d \in Nat /\ client.cursor < d /\ d \in 1..P
          BY <1>1, <1>2, <5>1
        <5>3. d \notin s + 1 .. P
          BY <2>3, <2>7, <3>1, <5>1
        <5>4. d # s
          BY <2>7, <3>1, <3>2, <3>6, <5>1
        <5>5. d < s
          BY <1>1, <1>2, <3>4, <5>2, <5>3, <5>4
        <5>6. d \in Newest(P)
          BY <2>7, <5>1, <5>2 DEF Newest
        <5>7. NothingSkipped /\ OldSkipsNothing /\ ToldInv
          BY DEF FlowInv
        <5>8. Brings(x, d) \/ Passes(x, d)
          BY <2>1, <2>2, <5>2, <5>6, <5>7, FirstComesFirst
        <5>9. ~(s < d)
          BY <3>4, <5>2, <5>5
        <5> QED BY <2>7, <3>1, <5>4, <5>8, <5>9 DEF Brings, Passes
      <4>3. \E n \in P..Len(log) : client.rows[a] = RowIn(log, a, n)
        BY <1>1, <2>2, <2>7, <4>2 DEF RowsFollow
      <4> QED BY <4>1, <4>3
    <3> QED BY <3>5, <3>6
  <2> QED BY <2>1, <2>5, <2>6, <2>7 DEF Arrives
<1> QED BY <1>3, <1>4, <1>5

-----------------------------------------------------------------------------
(* All of it together.                                                     *)
IInv == TypeInv /\ PhaseInv /\ OrderInv /\ FlowInv

LEMMA InitIInv ==
  Init => IInv
<1> SUFFICES ASSUME Init PROVE IInv
  OBVIOUS
<1>1. TypeInv /\ PhaseInv /\ OrderInv
  BY InitTypeInv, InitPhaseInv
<1>2. /\ sub.phase = "off" /\ ~client.data /\ log = <<>> /\ old = <<>> /\ head = 0
      /\ client.told = 0
  BY DEF Init, NoSubscription
<1>3. Len(log) = 0 /\ Len(old) = 0
  BY <1>2, EmptySeq
<1>4. ASSUME NEW P, IsPoint(P) \/ OldPoint(P) PROVE Newest(P) = {}
  <2>1. P = 0
    BY <1>2, <1>3, <1>4 DEF IsPoint, OldPoint, Streaming
  <2> QED BY <2>1 DEF Newest
<1>5. HeadInv /\ NothingSkipped /\ RowsFollow /\ MarkerInv
  BY <1>2 DEF HeadInv, NothingSkipped, RowsFollow, MarkerInv, Streaming
<1>6. OldSkipsNothing
  BY <1>4 DEF OldSkipsNothing
<1>7. ToldInv
  BY <1>4 DEF ToldInv, OldPoint
<1> QED BY <1>1, <1>5, <1>6, <1>7 DEF IInv, FlowInv

LEMMA StutterIInv ==
  ASSUME IInv, UNCHANGED vars PROVE IInv'
<1>1. TypeInv'
  BY StutterTypeInv DEF IInv
<1>2. UNCHANGED <<log, head, published, sub, wire, old, client, stranded>> /\ End' = End
  BY DEF vars, End
<1>3. PhaseInv' /\ OrderInv'
  <2>1. PhaseInv'
    BY <1>2 DEF IInv, PhaseInv, Streaming
  <2>2. OrderInv'
    BY <1>2 DEF IInv, OrderInv, ItemInOrder
  <2> QED BY <2>1, <2>2
<1>4. \A P : (IsPoint(P)' <=> IsPoint(P)) /\ (OldPoint(P)' <=> OldPoint(P))
  BY <1>2 DEF IsPoint, OldPoint, Streaming
<1>5. \A P : Newest(P)' = Newest(P)
  BY <1>2 DEF Newest
<1>6. \A d : Coming(d) => Coming(d)'
  <2> SUFFICES ASSUME NEW d, Coming(d) PROVE Coming(d)'
    OBVIOUS
  <2>1. Later(d) => Later(d)'
    BY <1>2 DEF Later, InBuffer
  <2> QED BY <1>2, <2>1, ComingKept
<1>7. HeadInv'
  BY <1>2 DEF IInv, FlowInv, HeadInv
<1>8. NothingSkipped'
  BY <1>2, <1>4, <1>5, <1>6 DEF IInv, FlowInv, NothingSkipped, Streaming
<1>9. OldSkipsNothing'
  BY <1>2, <1>4, <1>5 DEF IInv, FlowInv, OldSkipsNothing, In, Pass
<1>10. RowsFollow'
  BY <1>2, <1>4 DEF IInv, FlowInv, RowsFollow
<1>11. MarkerInv'
  BY <1>2, <1>5 DEF IInv, FlowInv, MarkerInv, Newest
<1>12. ToldInv'
  BY <1>2 DEF IInv, FlowInv, ToldInv, Newest
<1> QED BY <1>1, <1>3, <1>7, <1>8, <1>9, <1>10, <1>11, <1>12 DEF IInv, FlowInv

LEMMA Inductive ==
  ASSUME IInv, [Next]_vars PROVE IInv'
<1>1. CASE Next
  <2>1. TypeInv' /\ PhaseInv' /\ OrderInv'
    BY <1>1, NextTypeInv, NextPhaseInv, NextOrderInv DEF IInv
  <2>2. HeadInv' /\ NothingSkipped' /\ OldSkipsNothing'
    BY <1>1, NextHeadInv, NextNothingSkipped, NextOldSkipsNothing DEF IInv, FlowInv
  <2>3. RowsFollow' /\ ToldInv' /\ MarkerInv'
    BY <1>1, NextRowsFollow, NextToldInv, NextMarkerInv DEF IInv
  <2> QED BY <2>1, <2>2, <2>3 DEF IInv, FlowInv
<1>2. CASE UNCHANGED vars
  BY <1>2, StutterIInv
<1> QED BY <1>1, <1>2

LEMMA Invariance == Spec => []IInv
<1>1. Init => IInv
  BY InitIInv
<1>2. IInv /\ [Next]_vars => IInv'
  BY Inductive
<1> QED BY <1>1, <1>2, PTL DEF Spec

(* subscribeShell and the queue behind it keep their state well-typed: the *)
(* handler works on events that were published or read, and every item, of *)
(* the running stream or kept from an ended one, speaks of rows of the log.*)
THEOREM TypeCorrect == Spec => []TypeOK
<1>1. IInv => TypeOK
  BY TypeInvGivesTypeOK DEF IInv
<1> QED BY <1>1, Invariance, PTL

(* No row of the sidebar that differs from its projection is stranded      *)
(* behind the cursor, however windows are coalesced, rows are read late,   *)
(* items of ended streams cross a reconnect and snapshots come over HTTP.  *)
THEOREM RowsCorrect == Spec => []StaleRowsAreAhead
<1>1. IInv => StaleRowsAreAhead
  <2> SUFFICES ASSUME IInv, client.data, NEW a \in Aggregates \ stranded,
                      \A n \in (client.cursor + 1)..Len(log) : log[n].agg # a
               PROVE  client.rows[a] = Row(a, Len(log))
    BY DEF StaleRowsAreAhead
  <2>1. Len(log) \in Nat /\ head \in Nat /\ head <= Len(log)
    BY Typed DEF IInv
  <2>2. IsPoint(Len(log))
    BY <2>1 DEF IsPoint
  <2>3. PICK n \in Len(log)..Len(log) : client.rows[a] = RowIn(log, a, n)
    BY <2>2 DEF IInv, FlowInv, RowsFollow
  <2>4. n = Len(log)
    BY <2>1
  <2> QED BY <2>3, <2>4, RowIsRowIn
<1> QED BY <1>1, Invariance, PTL

(* A sidebar that says it is live has every row as new as all that was     *)
(* published when the last marker it received was queued: a marker         *)
(* overtakes nothing that was buffered while the snapshot or the replay    *)
(* was at work, and what an ended stream left in the queue, a marker or a  *)
(* snapshot, takes nothing back.                                           *)
THEOREM PromiseKept == Spec => []LiveRowsKeepPromise
<1>1. IInv => LiveRowsKeepPromise
  <2> SUFFICES ASSUME IInv, client.status = "live", NEW a \in Aggregates \ stranded
               PROVE  \E n \in client.told..Len(log) : client.rows[a] = Row(a, n)
    BY DEF LiveRowsKeepPromise
  <2>1. /\ Len(log) \in Nat /\ client.told \in Nat /\ client.told <= Len(log)
        /\ client.cursor \in Nat
    BY Typed DEF IInv
  <2> SUFFICES \E n \in client.told..Len(log) : client.rows[a] = RowIn(log, a, n)
    BY RowIsRowIn
  <2>2. client.data
    BY DEF IInv, PhaseInv
  <2>3. PICK P : P = client.told
    OBVIOUS
  <2>4. OldPoint(P) /\ P \in Nat
    BY <2>1, <2>3 DEF OldPoint
  <2>5. PICK c \in Nat : c = client.cursor
    BY <2>1
  <2>6. \A e \in c + 1 .. P : log[e].agg # a
    <3> SUFFICES ASSUME NEW e \in c + 1 .. P, log[e].agg = a PROVE FALSE
      OBVIOUS
    <3>1. HasLast(log, a, c, P)
      BY <2>4, LastOfAggregate
    <3>2. PICK d \in c + 1 .. P : log[d].agg = a /\ \A i \in d + 1 .. P : log[i].agg # a
      BY <3>1 DEF HasLast
    <3>3. d \in 1..P /\ d \in Nat /\ ~(d <= c)
      BY <2>4
    <3>4. d \in Newest(P)
      BY <3>2, <3>3 DEF Newest
    <3>5. d <= c
      BY <2>3, <2>5, <3>4 DEF IInv, FlowInv, ToldInv
    <3> QED BY <3>3, <3>5
  <2>7. \E n \in P..Len(log) : client.rows[a] = RowIn(log, a, n)
    BY <2>2, <2>4, <2>5, <2>6 DEF IInv, FlowInv, RowsFollow
  <2> QED BY <2>3, <2>7
<1> QED BY <1>1, Invariance, PTL
====
