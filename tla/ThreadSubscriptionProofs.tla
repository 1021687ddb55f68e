------------------------ MODULE ThreadSubscriptionProofs ------------------------
(***************************************************************************)
(* Proofs about ThreadSubscription, for every set of batches, replay limit *)
(* and bound.                                                              *)
(***************************************************************************)
EXTENDS ThreadSubscription, SequenceTheorems, WellFoundedInduction, TLAPS

(* Induction over the natural numbers, for a set instead of a predicate.   *)
LEMMA NatSetInduction ==
  ASSUME NEW S, 0 \in S, \A n \in Nat : n \in S => n + 1 \in S
  PROVE  Nat \subseteq S
<1> SUFFICES ASSUME Nat \ S # {} PROVE FALSE
  OBVIOUS
<1> DEFINE T == Nat \ S
           R == OpToRel(<, Nat)
<1>1. T \subseteq Nat /\ T # {}
  OBVIOUS
<1>2. \E x \in T : \A y \in T : ~(<<y, x>> \in R)
  <2>1. IsWellFoundedOn(R, Nat)
    BY NatLessThanWellFounded
  <2> HIDE DEF T, R
  <2> QED BY <1>1, <2>1, WFMin
<1>3. PICK x \in T : \A y \in T : ~(<<y, x>> \in R)
  BY <1>2
<1>4. x \in Nat /\ x # 0 /\ x - 1 \in Nat
  OBVIOUS
<1>5. <<x - 1, x>> \in R
  BY <1>4 DEF OpToRel
<1>6. x - 1 \in S
  BY <1>3, <1>4, <1>5
<1>7. (x - 1) + 1 = x
  BY <1>4
<1> QED BY <1>3, <1>4, <1>6, <1>7

-----------------------------------------------------------------------------
(* The fold that DetailsBetween computes, of any log l.                    *)
DetailsStep(l, f, m, i) ==
    IF i = m THEN <<>> ELSE IF l[i] = "detail" THEN Append(f[i - 1], i) ELSE f[i - 1]
IsDetails(l, f, m, n) == f = [i \in m..n |-> DetailsStep(l, f, m, i)]
DetailsIn(l, m, n) ==
    LET details[i \in m..n] == IF i = m THEN <<>>
                               ELSE IF l[i] = "detail" THEN Append(details[i - 1], i)
                               ELSE details[i - 1]
    IN details[n]

LEMMA DetailsAt ==
  ASSUME NEW l, NEW f, NEW m \in Nat, NEW n \in Nat, IsDetails(l, f, m, n), NEW i \in m..n
  PROVE  f[i] = IF i = m THEN <<>> ELSE IF l[i] = "detail" THEN Append(f[i - 1], i) ELSE f[i - 1]
BY DEF IsDetails, DetailsStep

(* The fold exists up to every n: one more step can always be made.        *)
LEMMA DetailsExist ==
  ASSUME NEW l, NEW m \in Nat, NEW n \in Nat, m <= n
  PROVE  \E f : IsDetails(l, f, m, n)
<1> DEFINE S == {k \in Nat : \E f : IsDetails(l, f, m, m + k)}
<1>1. 0 \in S
  <2>1. IsDetails(l, [i \in m..m |-> <<>>], m, m)
    BY DEF IsDetails, DetailsStep
  <2>2. m + 0 = m
    OBVIOUS
  <2> QED BY <2>1, <2>2
<1>2. ASSUME NEW k \in Nat, k \in S PROVE k + 1 \in S
  <2>1. PICK f : IsDetails(l, f, m, m + k)
    BY <1>2
  <2> DEFINE g == [i \in m..m + k + 1 |-> IF i = m + k + 1 THEN DetailsStep(l, f, m, i) ELSE f[i]]
  <2>2. \A i \in m..m + k : i \in m..m + k + 1 /\ i # m + k + 1 /\ g[i] = f[i]
    OBVIOUS
  <2>3. \A i \in m..m + k : f[i] = DetailsStep(l, f, m, i)
    BY <2>1 DEF IsDetails
  <2>4. \A i \in m..m + k + 1 : i # m => i - 1 \in m..m + k
    OBVIOUS
  <2>5. ASSUME NEW i \in m..m + k + 1 PROVE g[i] = DetailsStep(l, g, m, i)
    <3> HIDE DEF g
    <3>1. DetailsStep(l, g, m, i) = DetailsStep(l, f, m, i)
      BY <2>2, <2>4 DEF DetailsStep
    <3>2. CASE i = m + k + 1
      BY <3>1, <3>2 DEF g
    <3>3. CASE i # m + k + 1
      <4>1. i \in m..m + k
        BY <3>3
      <4> QED BY <2>2, <2>3, <3>1, <4>1
    <3> QED BY <3>2, <3>3
  <2>6. g = [i \in m..m + k + 1 |-> g[i]]
    OBVIOUS
  <2>7. g = [i \in m..m + k + 1 |-> DetailsStep(l, g, m, i)]
    <3> HIDE DEF g
    <3> QED BY <2>5, <2>6
  <2>8. IsDetails(l, g, m, m + k + 1) /\ m + k + 1 = m + (k + 1)
    <3> HIDE DEF g
    <3> QED BY <2>7 DEF IsDetails
  <2> HIDE DEF g
  <2>9. IsDetails(l, g, m, m + (k + 1))
    BY <2>8, Zenon
  <2> QED BY <2>9
<1>3. Nat \subseteq S
  <2> HIDE DEF S
  <2> QED BY <1>1, <1>2, NatSetInduction
<1>4. n - m \in S /\ m + (n - m) = n
  BY <1>3
<1> QED BY <1>4

(* It is unique: two folds agree wherever both are defined.                *)
LEMMA DetailsUnique ==
  ASSUME NEW l, NEW m \in Nat, NEW n \in Nat, NEW k \in Nat, m <= k, k <= n,
         NEW f, NEW g, IsDetails(l, f, m, n), IsDetails(l, g, m, k)
  PROVE  f[k] = g[k]
<1> DEFINE S == {i \in Nat : m + i <= k => f[m + i] = g[m + i]}
<1>1. 0 \in S
  <2>1. m \in m..n /\ m \in m..k /\ m + 0 = m
    OBVIOUS
  <2> QED BY <2>1 DEF IsDetails, DetailsStep
<1>2. ASSUME NEW i \in Nat, i \in S PROVE i + 1 \in S
  <2> SUFFICES ASSUME m + (i + 1) <= k PROVE f[m + (i + 1)] = g[m + (i + 1)]
    OBVIOUS
  <2>1. /\ m + (i + 1) \in m..n /\ m + (i + 1) \in m..k
        /\ m + (i + 1) # m /\ m + (i + 1) - 1 = m + i /\ m + i <= k
    OBVIOUS
  <2>2. f[m + i] = g[m + i]
    BY <1>2, <2>1
  <2> DEFINE j == m + (i + 1)
  <2>3. j \in m..n /\ j \in m..k /\ j # m /\ j - 1 = m + i
    BY <2>1
  <2> HIDE DEF j
  <2>4. f[j] = IF l[j] = "detail" THEN Append(f[m + i], j) ELSE f[m + i]
    BY <2>3, DetailsAt
  <2>5. g[j] = IF l[j] = "detail" THEN Append(g[m + i], j) ELSE g[m + i]
    BY <2>3, DetailsAt
  <2>6. f[j] = g[j]
    BY <2>2, <2>4, <2>5
  <2> QED BY <2>6 DEF j
<1>3. Nat \subseteq S
  <2> HIDE DEF S
  <2> QED BY <1>1, <1>2, NatSetInduction
<1>4. k - m \in S /\ m + (k - m) = k
  BY <1>3
<1> QED BY <1>4

LEMMA DetailsInIsFold ==
  ASSUME NEW l, NEW m \in Nat, NEW n \in Nat, m <= n
  PROVE  \E f : IsDetails(l, f, m, n) /\ DetailsIn(l, m, n) = f[n]
<1> DEFINE f == CHOOSE f : f = [i \in m..n |-> IF i = m THEN <<>>
                                               ELSE IF l[i] = "detail" THEN Append(f[i - 1], i)
                                               ELSE f[i - 1]]
<1>1. DetailsIn(l, m, n) = f[n]
  BY DEF DetailsIn
<1>2. PICK g : IsDetails(l, g, m, n)
  BY DetailsExist
<1>3. IsDetails(l, f, m, n)
  BY <1>2 DEF IsDetails, DetailsStep
<1> QED BY <1>1, <1>3

(* How the details grow with the log.                                      *)
LEMMA DetailsEmpty ==
  ASSUME NEW l, NEW m \in Nat
  PROVE  DetailsIn(l, m, m) = <<>>
<1>1. PICK f : IsDetails(l, f, m, m) /\ DetailsIn(l, m, m) = f[m]
  BY DetailsInIsFold
<1> QED BY <1>1 DEF IsDetails, DetailsStep

LEMMA DetailsNext ==
  ASSUME NEW l, NEW m \in Nat, NEW n \in Nat, m <= n
  PROVE  DetailsIn(l, m, n + 1) = IF l[n + 1] = "detail" THEN Append(DetailsIn(l, m, n), n + 1)
                                  ELSE DetailsIn(l, m, n)
<1>1. PICK f : IsDetails(l, f, m, n + 1) /\ DetailsIn(l, m, n + 1) = f[n + 1]
  BY DetailsInIsFold
<1>2. PICK g : IsDetails(l, g, m, n) /\ DetailsIn(l, m, n) = g[n]
  BY DetailsInIsFold
<1>3. f[n] = g[n]
  BY <1>1, <1>2, DetailsUnique
<1>4. n + 1 \in m..n + 1 /\ n + 1 # m /\ (n + 1) - 1 = n
  OBVIOUS
<1>5. f[n + 1] = IF l[n + 1] = "detail" THEN Append(f[n], n + 1) ELSE f[n]
  BY <1>1, <1>4, DetailsAt
<1> QED BY <1>1, <1>2, <1>3, <1>5

(* The list r holds the detail events after m and up to n, in log order.   *)
ListsDetails(r, l, m, n) ==
    /\ r \in Seq(m + 1 .. n)
    /\ \A i \in 1..Len(r) : l[r[i]] = "detail"
    /\ \A i, j \in 1..Len(r) : i < j => r[i] < r[j]
    /\ \A d \in m + 1 .. n : l[d] = "detail" => \E i \in 1..Len(r) : r[i] = d

LEMMA ListGrows ==
  ASSUME NEW l, NEW m \in Nat, NEW n \in Nat, m <= n, NEW r, ListsDetails(r, l, m, n)
  PROVE  ListsDetails(IF l[n + 1] = "detail" THEN Append(r, n + 1) ELSE r, l, m, n + 1)
<1>1. /\ r \in Seq(m + 1 .. n) /\ Len(r) \in Nat
      /\ \A i \in 1..Len(r) : l[r[i]] = "detail" /\ r[i] \in m + 1 .. n
      /\ \A i, j \in 1..Len(r) : i < j => r[i] < r[j]
      /\ \A d \in m + 1 .. n : l[d] = "detail" => \E i \in 1..Len(r) : r[i] = d
  BY ElementOfSeq DEF ListsDetails
<1>2. r \in Seq(m + 1 .. n + 1)
  <2>1. m + 1 .. n \subseteq m + 1 .. n + 1
    OBVIOUS
  <2> QED BY <1>1, <2>1, SeqMonotonic
<1>3. \A d \in m + 1 .. n + 1 : d \in m + 1 .. n \/ d = n + 1
  OBVIOUS
<1>4. CASE l[n + 1] # "detail"
  BY <1>1, <1>2, <1>3, <1>4 DEF ListsDetails
<1>5. CASE l[n + 1] = "detail"
  <2> DEFINE q == Append(r, n + 1)
  <2>1. n + 1 \in m + 1 .. n + 1
    OBVIOUS
  <2>2. /\ q \in Seq(m + 1 .. n + 1) /\ Len(q) = Len(r) + 1 /\ q[Len(r) + 1] = n + 1
        /\ \A i \in 1..Len(r) : q[i] = r[i]
    BY <1>2, <2>1, AppendProperties
  <2> HIDE DEF q
  <2>3. \A i \in 1..Len(r) + 1 : i \in 1..Len(r) \/ i = Len(r) + 1
    BY <1>1
  <2>4. \A i \in 1..Len(q) : l[q[i]] = "detail"
    BY SMTT(40), <1>1, <1>5, <2>2, <2>3
  <2>5. ASSUME NEW i \in 1..Len(q), NEW j \in 1..Len(q), i < j PROVE q[i] < q[j]
    <3>1. i \in 1..Len(r)
      BY <1>1, <2>2, <2>5
    <3>2. CASE j \in 1..Len(r)
      BY <1>1, <2>2, <2>5, <3>1, <3>2
    <3>3. CASE j = Len(r) + 1
      <4>1. r[i] \in m + 1 .. n /\ q[i] = r[i] /\ q[j] = n + 1
        BY <1>1, <2>2, <3>1, <3>3
      <4> QED BY <4>1
    <3> QED BY <2>2, <2>3, <3>2, <3>3
  <2>6. ASSUME NEW d \in m + 1 .. n + 1, l[d] = "detail" PROVE \E i \in 1..Len(q) : q[i] = d
    <3>1. CASE d = n + 1
      <4>1. Len(r) + 1 \in 1..Len(q)
        BY <1>1, <2>2
      <4> QED BY <2>2, <3>1, <4>1
    <3>2. CASE d \in m + 1 .. n
      <4>1. PICK i \in 1..Len(r) : r[i] = d
        BY <1>1, <2>6, <3>2
      <4>2. i \in 1..Len(q)
        BY <1>1, <2>2
      <4> QED BY <2>2, <4>1, <4>2
    <3> QED BY <1>3, <3>1, <3>2
  <2>7. ListsDetails(q, l, m, n + 1)
    BY <2>2, <2>4, <2>5, <2>6 DEF ListsDetails
  <2> QED BY <1>5, <2>7 DEF q
<1> QED BY <1>4, <1>5

LEMMA DetailsListed ==
  ASSUME NEW l, NEW m \in Nat, NEW n \in Nat, m <= n
  PROVE  ListsDetails(DetailsIn(l, m, n), l, m, n)
<1> DEFINE S == {k \in Nat : ListsDetails(DetailsIn(l, m, m + k), l, m, m + k)}
<1>1. 0 \in S
  <2>1. ListsDetails(<<>>, l, m, m)
    <3>1. <<>> \in Seq(m + 1 .. m) /\ Len(<<>>) = 0
      BY EmptySeq
    <3>2. m + 1 .. m = {} /\ 1..0 = {}
      OBVIOUS
    <3> QED BY <3>1, <3>2 DEF ListsDetails
  <2>2. DetailsIn(l, m, m) = <<>> /\ m + 0 = m
    BY DetailsEmpty
  <2> QED BY <2>1, <2>2
<1>2. ASSUME NEW k \in Nat, k \in S PROVE k + 1 \in S
  <2> DEFINE n1 == m + k
  <2>1. n1 \in Nat /\ m <= n1 /\ m + (k + 1) = n1 + 1
    OBVIOUS
  <2>2. ListsDetails(DetailsIn(l, m, n1), l, m, n1)
    BY <1>2
  <2> HIDE DEF n1
  <2>3. ListsDetails(DetailsIn(l, m, n1 + 1), l, m, n1 + 1)
    <3> DEFINE r == DetailsIn(l, m, n1)
    <3>1. DetailsIn(l, m, n1 + 1) = IF l[n1 + 1] = "detail" THEN Append(r, n1 + 1) ELSE r
      BY <2>1, DetailsNext
    <3>2. ListsDetails(r, l, m, n1)
      BY <2>2
    <3> HIDE DEF r
    <3>3. ListsDetails(IF l[n1 + 1] = "detail" THEN Append(r, n1 + 1) ELSE r, l, m, n1 + 1)
      BY <2>1, <3>2, ListGrows
    <3> QED BY <3>1, <3>3, Zenon
  <2> QED BY <2>1, <2>3
<1>3. Nat \subseteq S
  <2> HIDE DEF S
  <2> QED BY <1>1, <1>2, NatSetInduction
<1>4. n - m \in S /\ m + (n - m) = n
  BY <1>3
<1> QED BY <1>4

(* Events that are not detail events add nothing.                          *)
LEMMA DetailsSkip ==
  ASSUME NEW l, NEW m \in Nat, NEW a \in Nat, NEW b \in Nat, m <= a, a <= b,
         \A d \in a + 1 .. b : l[d] # "detail"
  PROVE  DetailsIn(l, m, b) = DetailsIn(l, m, a)
<1> DEFINE S == {k \in Nat : a + k <= b => DetailsIn(l, m, a + k) = DetailsIn(l, m, a)}
<1>1. 0 \in S
  OBVIOUS
<1>2. ASSUME NEW k \in Nat, k \in S PROVE k + 1 \in S
  <2> DEFINE n1 == a + k
  <2> SUFFICES ASSUME a + (k + 1) <= b PROVE DetailsIn(l, m, a + (k + 1)) = DetailsIn(l, m, a)
    OBVIOUS
  <2>1. n1 \in Nat /\ m <= n1 /\ a + (k + 1) = n1 + 1 /\ n1 + 1 \in a + 1 .. b /\ n1 <= b
    OBVIOUS
  <2>2. DetailsIn(l, m, n1) = DetailsIn(l, m, a)
    BY <1>2, <2>1
  <2> HIDE DEF n1
  <2>3. DetailsIn(l, m, n1 + 1) = DetailsIn(l, m, n1)
    BY <2>1, DetailsNext
  <2> QED BY <2>1, <2>2, <2>3
<1>3. Nat \subseteq S
  <2> HIDE DEF S
  <2> QED BY <1>1, <1>2, NatSetInduction
<1>4. b - a \in S /\ a + (b - a) = b
  BY <1>3
<1> QED BY <1>4

(* What is appended to the log later does not change them.                 *)
LEMMA DetailsStay ==
  ASSUME NEW l, NEW k, NEW m \in Nat, NEW n \in Nat, m <= n, \A d \in m + 1 .. n : k[d] = l[d]
  PROVE  DetailsIn(k, m, n) = DetailsIn(l, m, n)
<1> DEFINE S == {i \in Nat : m + i <= n => DetailsIn(k, m, m + i) = DetailsIn(l, m, m + i)}
<1>1. 0 \in S
  <2>1. m + 0 = m
    OBVIOUS
  <2> QED BY <2>1, DetailsEmpty
<1>2. ASSUME NEW i \in Nat, i \in S PROVE i + 1 \in S
  <2> DEFINE n1 == m + i
  <2> SUFFICES ASSUME m + (i + 1) <= n
               PROVE  DetailsIn(k, m, m + (i + 1)) = DetailsIn(l, m, m + (i + 1))
    OBVIOUS
  <2>1. n1 \in Nat /\ m <= n1 /\ m + (i + 1) = n1 + 1 /\ n1 + 1 \in m + 1 .. n /\ n1 <= n
    OBVIOUS
  <2>2. DetailsIn(k, m, n1) = DetailsIn(l, m, n1)
    BY <1>2, <2>1
  <2> HIDE DEF n1
  <2>3. DetailsIn(k, m, n1 + 1) = DetailsIn(l, m, n1 + 1)
    BY <2>1, <2>2, DetailsNext
  <2> QED BY <2>1, <2>3
<1>3. Nat \subseteq S
  <2> HIDE DEF S
  <2> QED BY <1>1, <1>2, NatSetInduction
<1>4. n - m \in S /\ m + (n - m) = n
  BY <1>3
<1> QED BY <1>4

-----------------------------------------------------------------------------
(* Types.  What is on its way names events of the log, and every position  *)
(* is one of the log.                                                      *)
Details == {n \in 1..Len(log) : log[n] = "detail"}
BufferItems == {MarkerFor(n) : n \in 0..Len(log)} \cup {EventAt(n) : n \in Details}
SentItems == BufferItems \cup {SnapshotAt(n) : n \in 0..Len(log)}
Contents == {item \in SentItems : item.kind # "synchronized"}

LogInv ==
    /\ log \in Seq({"detail", "other"})
    /\ Len(log) \in 0..MaxLog
    /\ head \in Nat
    /\ published \in Nat
    /\ published <= head
    /\ head <= Len(log)
SubInv ==
    sub \in [phase : {"off", "load", "head", "replay", "snapshot", "live"}, attached : BOOLEAN,
             buffer : Seq(BufferItems), after : 0..Len(log), target : 0..Len(log)]
WireInv ==
    /\ wire \in Seq(SentItems)
    /\ old \in Seq(SentItems)
    /\ sub.phase = "off" => sub = NoSubscription
ClientInv ==
    client \in [data : BOOLEAN, cursor : 0..Len(log), shown : Seq(1..Len(log)),
                status : {"cached", "synchronizing", "live"}, awaiting : BOOLEAN,
                pending : {Nothing} \cup Contents, told : 0..Len(log)]
CacheInv == cache \in [data : BOOLEAN, cursor : 0..Len(log), shown : Seq(1..Len(log))]
HistoryInv ==
    /\ breaks \in 0..MaxBreaks
    /\ slips \subseteq {"late attach", "torn copy", "old snapshot"}
TypeInv == LogInv /\ SubInv /\ WireInv /\ ClientInv /\ CacheInv /\ HistoryInv

LEMMA ItemsAreItems ==
  ASSUME LogInv
  PROVE  BufferItems \subseteq Items /\ SentItems \subseteq Items /\ Contents \subseteq Items /\ Nothing \in Items
<1>1. Len(log) \in Nat
  BY DEF LogInv
<1>2. Nothing \in Items
  BY <1>1 DEF Nothing, Items
<1>3. \A n \in 0..Len(log) : EventAt(n) \in Items /\ SnapshotAt(n) \in Items /\ MarkerFor(n) \in Items
  BY DEF EventAt, SnapshotAt, MarkerFor, Items
<1>4. \A n \in Details : n \in 0..Len(log)
  BY DEF Details
<1> HIDE DEF Items
<1> QED BY <1>2, <1>3, <1>4 DEF BufferItems, SentItems, Contents

LEMMA TypeInvGivesTypeOK ==
  ASSUME TypeInv PROVE TypeOK
<1> USE DEF TypeInv
<1>1. head \in 0..Len(log) /\ published \in 0..head
  BY DEF LogInv
<1>2. BufferItems \subseteq Items /\ SentItems \subseteq Items /\ Contents \subseteq Items /\ Nothing \in Items
  BY ItemsAreItems
<1>3. Seq(BufferItems) \subseteq Seq(Items) /\ Seq(SentItems) \subseteq Seq(Items)
  BY <1>2, SeqMonotonic
<1>4. sub \in [phase : {"off", "load", "head", "replay", "snapshot", "live"}, attached : BOOLEAN,
               buffer : Seq(Items), after : 0..Len(log), target : 0..Len(log)]
  BY <1>3 DEF SubInv
<1>5. client \in [data : BOOLEAN, cursor : 0..Len(log), shown : Seq(1..Len(log)),
                  status : {"cached", "synchronizing", "live"}, awaiting : BOOLEAN,
                  pending : Items, told : 0..Len(log)]
  BY <1>2 DEF ClientInv
<1> QED BY <1>1, <1>3, <1>4, <1>5 DEF TypeOK, LogInv, WireInv, HistoryInv, CacheInv, Copies

LEMMA InitTypeInv ==
  Init => TypeInv
<1> SUFFICES ASSUME Init PROVE TypeInv
  OBVIOUS
<1> USE DEF Init
<1>1. <<>> \in Seq({"detail", "other"}) /\ <<>> \in Seq(BufferItems) /\ <<>> \in Seq(SentItems)
      /\ <<>> \in Seq(1..Len(log)) /\ Len(log) = 0
  BY EmptySeq
<1>2. LogInv
  BY <1>1, ThreadAssumption DEF LogInv
<1>3. SubInv /\ WireInv
  BY <1>1 DEF SubInv, WireInv, NoSubscription, Init
<1>4. ClientInv /\ CacheInv
  BY <1>1 DEF ClientInv, CacheInv, ClientFrom, NoCopy
<1>5. HistoryInv
  BY ThreadAssumption DEF HistoryInv
<1> QED BY <1>2, <1>3, <1>4, <1>5 DEF TypeInv

(* Steps either leave the log alone or append to it.                       *)
LogGrows ==
    /\ log' \in Seq({"detail", "other"})
    /\ Len(log) <= Len(log')
    /\ \A n \in 1..Len(log) : log'[n] = log[n]

LEMMA StepLogGrows ==
  ASSUME LogInv, Next PROVE LogGrows
<1>1. Len(log) \in Nat
  BY DEF LogInv
<1>2. CASE \E batch \in Batches : Commit(batch)
  <2>1. PICK batch \in Batches : Commit(batch)
    BY <1>2
  <2>2. batch \in Seq({"detail", "other"}) /\ log \in Seq({"detail", "other"})
    BY ThreadAssumption DEF LogInv
  <2>3. log' = log \o batch
    BY <2>1 DEF Commit
  <2>4. /\ log \o batch \in Seq({"detail", "other"})
        /\ Len(log \o batch) = Len(log) + Len(batch)
        /\ \A n \in 1..Len(log) : (log \o batch)[n] = log[n]
    BY <2>2, ConcatProperties
  <2>5. Len(batch) \in Nat
    BY <2>2, LenProperties
  <2> QED BY <1>1, <2>3, <2>4, <2>5 DEF LogGrows
<1>3. CASE log' = log
  BY <1>1, <1>3 DEF LogGrows, LogInv
<1>4. CASE ~\E batch \in Batches : Commit(batch)
  <2>1. log' = log
    BY <1>4 DEF Next, EngineStep, AdvanceHead, Publish, Attach, HandlerStep, ReadHead, Replay,
       SendSnapshot, SendBuffered, ClientStep, Subscribe, HttpStep, LoadHttpSnapshot, MissHttpSnapshot, Receive, ApplyPending,
       Persist, LoseSession, RestartServer, Close, Kill, serverVars
  <2> QED BY <1>3, <2>1
<1> QED BY <1>2, <1>4

LEMMA StepKeepsItems ==
  ASSUME LogInv, LogGrows
  PROVE  /\ Details \subseteq Details'
         /\ BufferItems \subseteq BufferItems' /\ SentItems \subseteq SentItems' /\ Contents \subseteq Contents'
         /\ 0..Len(log) \subseteq 0..Len(log)' /\ 1..Len(log) \subseteq 1..Len(log)'
         /\ \A n \in Details' : n <= Len(log) => n \in Details
<1>1. Len(log) \in Nat /\ Len(log') \in Nat /\ Len(log) <= Len(log')
  BY LenProperties DEF LogInv, LogGrows
<1>2. 0..Len(log) \subseteq 0..Len(log') /\ 1..Len(log) \subseteq 1..Len(log')
  BY <1>1
<1>3. Details \subseteq Details'
  BY <1>2 DEF Details, LogGrows
<1>4. ASSUME NEW n \in Details', n <= Len(log) PROVE n \in Details
  <2>1. n \in 1..Len(log) /\ log'[n] = "detail"
    BY <1>1, <1>4 DEF Details
  <2> QED BY <2>1 DEF Details, LogGrows
<1> QED BY <1>2, <1>3, <1>4 DEF BufferItems, SentItems, Contents

(* What each kind of step leaves alone keeps its type.                     *)
LEMMA KeepsTypes ==
  ASSUME LogInv, LogGrows
  PROVE  /\ SubInv /\ sub' = sub => SubInv'
         /\ WireInv /\ sub' = sub /\ wire' = wire /\ old' = old => WireInv'
         /\ ClientInv /\ client' = client => ClientInv'
         /\ CacheInv /\ cache' = cache => CacheInv'
<1>1. /\ BufferItems \subseteq BufferItems' /\ SentItems \subseteq SentItems' /\ Contents \subseteq Contents'
      /\ 0..Len(log) \subseteq 0..Len(log)' /\ 1..Len(log) \subseteq 1..Len(log)'
  BY StepKeepsItems
<1> HIDE DEF BufferItems, SentItems, Contents
<1>2. /\ Seq(BufferItems) \subseteq Seq(BufferItems') /\ Seq(SentItems) \subseteq Seq(SentItems')
      /\ Seq(1..Len(log)) \subseteq Seq(1..Len(log)')
  BY <1>1, SeqMonotonic
<1>3. ASSUME SubInv, sub' = sub PROVE SubInv'
  BY <1>1, <1>2, <1>3 DEF SubInv
<1>4. ASSUME WireInv, sub' = sub, wire' = wire, old' = old PROVE WireInv'
  BY <1>2, <1>4 DEF WireInv, NoSubscription
<1>5. ASSUME ClientInv, client' = client PROVE ClientInv'
  BY <1>1, <1>2, <1>5 DEF ClientInv, Nothing
<1>6. ASSUME CacheInv, cache' = cache PROVE CacheInv'
  BY <1>1, <1>2, <1>6 DEF CacheInv
<1> QED BY <1>3, <1>4, <1>5, <1>6

LEMMA NextLogInv ==
  ASSUME LogInv, Next PROVE LogInv'
<1>1. LogGrows /\ Len(log) \in Nat /\ Len(log') \in Nat
  BY StepLogGrows, LenProperties DEF LogInv, LogGrows
<1>2. ASSUME NEW batch \in Batches, Commit(batch) PROVE LogInv'
  <2>1. batch \in Seq({"detail", "other"}) /\ log \in Seq({"detail", "other"})
    BY ThreadAssumption DEF LogInv
  <2>2. Len(log') = Len(log) + Len(batch)
    BY <1>2, <2>1, ConcatProperties DEF Commit
  <2>3. Len(log') <= MaxLog /\ head' = head /\ published' = published
    BY <1>2, <2>2 DEF Commit, Feed!CommitBatch
  <2> QED BY <1>1, <2>3, ThreadAssumption DEF LogInv, LogGrows
<1>3. CASE UNCHANGED serverVars
  BY <1>3 DEF LogInv, serverVars
<1>4. CASE AdvanceHead
  BY <1>1, <1>4 DEF LogInv, AdvanceHead, Feed!AdvanceHead
<1>5. CASE Publish
  BY <1>1, <1>5 DEF LogInv, Publish, Feed!PublishNext
<1>6. CASE RestartServer
  BY <1>1, <1>6 DEF LogInv, RestartServer, Feed!Restart
<1>7. CASE Attach \/ HandlerStep \/ ClientStep \/ Persist \/ LoseSession \/ Close \/ Kill
  BY <1>3, <1>7 DEF Attach, HandlerStep, ReadHead, Replay, SendSnapshot, SendBuffered, ClientStep,
     Subscribe, HttpStep, LoadHttpSnapshot, MissHttpSnapshot, Receive, ApplyPending, Persist, LoseSession, Close, Kill
<1> QED BY <1>2, <1>4, <1>5, <1>6, <1>7 DEF Next, EngineStep

(* The rows of a catch-up are sent as the events they are.                 *)
LEMMA CatchUpRows ==
  ASSUME TypeInv
  PROVE  LET rows == DetailsBetween(sub.after, sub.target)
         IN sub.after <= sub.target =>
            /\ ListsDetails(rows, log, sub.after, sub.target)
            /\ CatchUp \in Seq(BufferItems) /\ CatchUp \in Seq(SentItems)
            /\ Len(CatchUp) = Len(rows) /\ Len(rows) \in Nat
            /\ \A i \in 1..Len(rows) : CatchUp[i] = EventAt(rows[i])
<1> DEFINE rows == DetailsBetween(sub.after, sub.target)
           c == CatchUp
<1> SUFFICES ASSUME sub.after <= sub.target
             PROVE  /\ ListsDetails(rows, log, sub.after, sub.target)
                    /\ c \in Seq(BufferItems) /\ c \in Seq(SentItems)
                    /\ Len(c) = Len(rows) /\ Len(rows) \in Nat
                    /\ \A i \in 1..Len(rows) : c[i] = EventAt(rows[i])
  OBVIOUS
<1>0. /\ sub.after \in Nat /\ sub.target \in Nat /\ sub.target <= Len(log) /\ Len(log) \in Nat
  BY DEF TypeInv, SubInv, LogInv
<1>1. ListsDetails(rows, log, sub.after, sub.target)
  BY <1>0, DetailsListed DEF DetailsBetween, DetailsIn
<1>2. c = [i \in 1..Len(rows) |-> EventAt(rows[i])]
  BY DEF CatchUp
<1> HIDE DEF rows, c
<1>3. /\ rows \in Seq(sub.after + 1 .. sub.target) /\ Len(rows) \in Nat
      /\ \A i \in 1..Len(rows) : rows[i] \in sub.after + 1 .. sub.target /\ log[rows[i]] = "detail"
  BY <1>1, ElementOfSeq, LenProperties DEF ListsDetails
<1>4. \A i \in 1..Len(rows) : rows[i] \in Details
  BY <1>0, <1>3 DEF Details
<1>5. \A i \in 1..Len(rows) : EventAt(rows[i]) \in BufferItems
  BY <1>4 DEF BufferItems
<1> HIDE DEF BufferItems
<1>6. c \in Seq(BufferItems)
  BY <1>2, <1>3, <1>5
<1>7. c \in Seq(SentItems)
  BY <1>6, SeqMonotonic DEF SentItems
<1>8. Len(c) = Len(rows) /\ \A i \in 1..Len(rows) : c[i] = EventAt(rows[i])
  BY <1>2, <1>3
<1> QED BY <1>1, <1>3, <1>6, <1>7, <1>8

(* What a client can be sent.                                              *)
LEMMA ItemKinds ==
  ASSUME LogInv
  PROVE  \A item \in SentItems :
            \/ item.kind = "synchronized" /\ item.seq \in 0..Len(log) /\ item = MarkerFor(item.seq)
            \/ item.kind = "event" /\ item.seq \in Details /\ item = EventAt(item.seq)
            \/ item.kind = "snapshot" /\ item.seq \in 0..Len(log) /\ item = SnapshotAt(item.seq)
BY DEF SentItems, BufferItems, MarkerFor, EventAt, SnapshotAt

LEMMA NextSubInv ==
  ASSUME TypeInv, Next PROVE SubInv'
<1>1. LogInv /\ SubInv /\ ClientInv /\ LogGrows
  BY StepLogGrows DEF TypeInv
<1>2. Len(log) \in Nat /\ head \in 0..Len(log) /\ published \in 0..Len(log) /\ Len(log) \in 0..Len(log)
  BY <1>1 DEF LogInv
<1>3. /\ sub.buffer \in Seq(BufferItems) /\ sub.attached \in BOOLEAN
      /\ sub.phase \in {"off", "load", "head", "replay", "snapshot", "live"}
      /\ sub.after \in 0..Len(log) /\ sub.target \in 0..Len(log)
      /\ client.cursor \in 0..Len(log)
  BY <1>1 DEF SubInv, ClientInv
<1>4. CASE sub' = sub
  BY <1>1, <1>4, KeepsTypes
<1>5. CASE sub' = NoSubscription
  <2>1. <<>> \in Seq(BufferItems') /\ 0 \in 0..Len(log)'
    BY <1>1, LenProperties DEF LogGrows
  <2> QED BY <1>5, <2>1 DEF SubInv, NoSubscription
<1>6. ASSUME log' = log,
             \/ \E item \in BufferItems : sub' = [sub EXCEPT !.buffer = Append(@, item)]
             \/ sub' = [sub EXCEPT !.attached = TRUE]
             \/ sub' = [sub EXCEPT !.phase = "replay", !.target = head]
             \/ sub' = [sub EXCEPT !.phase = "snapshot"]
             \/ \E target, promised \in 0..Len(log) :
                   sub' = [sub EXCEPT !.phase = "live", !.target = target,
                                      !.buffer = Append(@, MarkerFor(promised))]
             \/ sub.buffer # <<>> /\ sub' = [sub EXCEPT !.buffer = Tail(@)]
             \/ \E phase \in {"load", "head", "snapshot"}, cursor \in 0..Len(log) :
                   sub' = Request(phase, cursor)
      PROVE SubInv'
  <2>1. BufferItems' = BufferItems /\ 0..Len(log)' = 0..Len(log)
    BY <1>6 DEF BufferItems, Details
  <2>2. \A n \in 0..Len(log) : MarkerFor(n) \in BufferItems
    BY DEF BufferItems
  <2> HIDE DEF BufferItems
  <2>3. \A item \in BufferItems : Append(sub.buffer, item) \in Seq(BufferItems)
    BY <1>3, AppendProperties
  <2>4. sub.buffer # <<>> => Tail(sub.buffer) \in Seq(BufferItems)
    BY <1>3, HeadTailProperties
  <2>5. <<>> \in Seq(BufferItems)
    BY EmptySeq
  <2>6. SubInv' = (sub' \in [phase : {"off", "load", "head", "replay", "snapshot", "live"}, attached : BOOLEAN,
             buffer : Seq(BufferItems), after : 0..Len(log), target : 0..Len(log)])
    BY <1>6, <2>1 DEF SubInv
  <2>7. CASE \E item \in BufferItems : sub' = [sub EXCEPT !.buffer = Append(@, item)]
    BY <1>1, <2>3, <2>6, <2>7 DEF SubInv
  <2>8. CASE \/ sub' = [sub EXCEPT !.attached = TRUE]
             \/ sub' = [sub EXCEPT !.phase = "replay", !.target = head]
             \/ sub' = [sub EXCEPT !.phase = "snapshot"]
    BY <1>1, <1>2, <2>6, <2>8 DEF SubInv
  <2>9. CASE \E target, promised \in 0..Len(log) :
                   sub' = [sub EXCEPT !.phase = "live", !.target = target,
                                      !.buffer = Append(@, MarkerFor(promised))]
    <3>1. PICK target \in 0..Len(log), promised \in 0..Len(log) :
              sub' = [sub EXCEPT !.phase = "live", !.target = target,
                                 !.buffer = Append(@, MarkerFor(promised))]
      BY <2>9
    <3> DEFINE buffer == Append(sub.buffer, MarkerFor(promised))
    <3>2. buffer \in Seq(BufferItems) /\ sub' = [sub EXCEPT !.phase = "live", !.target = target, !.buffer = buffer]
      BY <1>1, <2>2, <2>3, <3>1 DEF SubInv
    <3> HIDE DEF buffer
    <3> QED BY <1>1, <2>6, <3>2 DEF SubInv
  <2>10. CASE sub.buffer # <<>> /\ sub' = [sub EXCEPT !.buffer = Tail(@)]
    BY <1>1, <2>4, <2>6, <2>10 DEF SubInv
  <2>11. CASE \E phase \in {"load", "head", "snapshot"}, cursor \in 0..Len(log) : sub' = Request(phase, cursor)
    <3>1. PICK phase \in {"load", "head", "snapshot"}, cursor \in 0..Len(log) : sub' = Request(phase, cursor)
      BY <2>11
    <3>2. sub' = [phase |-> phase, attached |-> FALSE, buffer |-> <<>>, after |-> cursor, target |-> 0]
      BY <3>1 DEF Request, NoSubscription
    <3>3. <<>> \in Seq(BufferItems) /\ 0 \in 0..Len(log)
      BY <1>2, EmptySeq
    <3> QED BY <2>1, <3>2, <3>3 DEF SubInv
  <2> QED BY <1>6, <2>7, <2>8, <2>9, <2>10, <2>11
<1>7. ASSUME NEW batch \in Batches, Commit(batch) PROVE SubInv'
  BY <1>4, <1>7 DEF Commit
<1>8. CASE Publish
  <2>1. published' \in 1..Len(log) /\ log' = log
    BY <1>1, <1>8 DEF Publish, Feed!PublishNext, LogInv
  <2>2. CASE sub.attached /\ log[published'] = "detail"
    <3>1. EventAt(published') \in BufferItems
      BY <2>1, <2>2 DEF BufferItems, Details
    <3>2. sub' = [sub EXCEPT !.buffer = Append(@, EventAt(published'))]
      BY <1>8, <2>2 DEF Publish
    <3> QED BY <1>6, <2>1, <3>1, <3>2
  <2>3. CASE ~(sub.attached /\ log[published'] = "detail")
    BY <1>4, <1>8, <2>3 DEF Publish
  <2> QED BY <2>2, <2>3
<1>9. CASE Attach \/ ReadHead \/ SendBuffered
  BY <1>6, <1>9 DEF Attach, ReadHead, SendBuffered, serverVars
<1>10. CASE Subscribe \/ LoadHttpSnapshot \/ MissHttpSnapshot
  <2>1. log' = log /\ \E phase \in {"load", "head", "snapshot"}, cursor \in 0..Len(log) : sub' = Request(phase, cursor)
    BY <1>2, <1>3, <1>10 DEF Subscribe, LoadHttpSnapshot, MissHttpSnapshot, serverVars
  <2> QED BY <1>6, <2>1
<1>11. CASE Replay
  <2> DEFINE promised == IF published > sub.target THEN published ELSE sub.target
  <2>1. /\ log' = log
        /\ sub' = [sub EXCEPT !.phase = "live", !.buffer = Append(@, MarkerFor(promised))]
    BY <1>11 DEF Replay, serverVars, WithMarker
  <2>2. promised \in 0..Len(log)
    BY <1>2, <1>3
  <2> HIDE DEF promised
  <2>3. sub' = [sub EXCEPT !.phase = "live", !.target = sub.target, !.buffer = Append(@, MarkerFor(promised))]
    BY <1>1, <2>1 DEF SubInv
  <2> QED BY <1>3, <1>6, <2>1, <2>2, <2>3
<1>12. CASE SendSnapshot
  <2>1. /\ log' = log
        /\ sub' = [sub EXCEPT !.phase = "live", !.target = Len(log), !.buffer = Append(@, MarkerFor(Len(log)))]
    BY <1>12 DEF SendSnapshot, serverVars, WithMarker
  <2> QED BY <1>2, <1>6, <2>1
<1>13. CASE AdvanceHead \/ Receive \/ ApplyPending \/ Persist
  BY <1>4, <1>13 DEF AdvanceHead, Receive, ApplyPending, Persist
<1>14. CASE LoseSession \/ RestartServer \/ Close \/ Kill
  BY <1>5, <1>14 DEF LoseSession, RestartServer, Close, Kill, Break
<1> QED BY <1>7, <1>8, <1>9, <1>10, <1>11, <1>12, <1>13, <1>14
        DEF Next, EngineStep, HandlerStep, ClientStep, HttpStep

(* What each phase of the subscription has established.                    *)
PhaseInv ==
    /\ sub.phase # "live" =>
        /\ wire = <<>>
        /\ \A i \in 1..Len(sub.buffer) : sub.buffer[i].kind = "event" /\ sub.buffer[i].seq <= published
    /\ sub.phase = "load" => sub.buffer = <<>> /\ ~sub.attached
    /\ sub.phase \in {"head", "replay"} => client.data /\ (slips = {} => sub.after <= client.cursor)
    /\ sub.phase = "replay" => sub.after <= sub.target
    /\ sub.phase \in {"replay", "live"} /\ slips = {} => sub.attached

(* What an ended stream leaves in the client's queue.                      *)
LEMMA QueuedItems ==
  ASSUME NEW T, NEW o \in Seq(T), NEW w \in Seq(T), NEW n \in 0..Len(w)
  PROVE  /\ Len(o) \in Nat /\ Len(o \o SubSeq(w, 1, n)) = Len(o) + n
         /\ o \o SubSeq(w, 1, n) \in Seq(T)
         /\ \A i \in 1..Len(o) : (o \o SubSeq(w, 1, n))[i] = o[i]
         /\ \A i \in 1..n : (o \o SubSeq(w, 1, n))[Len(o) + i] = w[i] /\ i \in 1..Len(w)
<1> DEFINE v == SubSeq(w, 1, n)
<1>1. Len(o) \in Nat /\ Len(w) \in Nat /\ n \in Nat /\ n <= Len(w)
  BY LenProperties
<1>2. v \in Seq(T) /\ Len(v) = n /\ \A i \in 1..n : v[i] = w[i]
  BY <1>1
<1> HIDE DEF v
<1>3. /\ o \o v \in Seq(T) /\ Len(o \o v) = Len(o) + Len(v)
      /\ \A i \in 1..Len(o) + Len(v) : (o \o v)[i] = IF i <= Len(o) THEN o[i] ELSE v[i - Len(o)]
  BY <1>2, ConcatProperties
<1>4. \A i \in 1..Len(o) : (o \o v)[i] = o[i]
  BY <1>1, <1>2, <1>3
<1>5. ASSUME NEW i \in 1..n PROVE (o \o v)[Len(o) + i] = w[i] /\ i \in 1..Len(w)
  <2>1. Len(o) + i \in 1..Len(o) + Len(v) /\ ~(Len(o) + i <= Len(o)) /\ (Len(o) + i) - Len(o) = i
    BY <1>1, <1>2
  <2>2. (o \o v)[Len(o) + i] = v[i]
    BY <1>3, <2>1
  <2> QED BY <1>1, <1>2, <2>2
<1> QED BY <1>1, <1>2, <1>3, <1>4, <1>5 DEF v

LEMMA NextWireInv ==
  ASSUME TypeInv, PhaseInv, Next PROVE WireInv'
<1>1. /\ LogInv /\ SubInv /\ WireInv /\ LogGrows /\ wire \in Seq(SentItems) /\ old \in Seq(SentItems)
      /\ sub.buffer \in Seq(BufferItems) /\ Len(log) \in 0..Len(log)
  BY StepLogGrows DEF TypeInv, WireInv, SubInv, LogInv
<1>2. CASE sub' = sub /\ wire' = wire /\ old' = old
  BY <1>1, <1>2, KeepsTypes
<1>3. ASSUME log' = log, wire' \in Seq(SentItems), old' \in Seq(SentItems),
             sub'.phase = "off" => sub' = NoSubscription
      PROVE  WireInv'
  <2>1. SentItems' = SentItems
    BY <1>3 DEF SentItems, BufferItems, Details
  <2>2. wire' \in Seq(SentItems') /\ old' \in Seq(SentItems')
    BY <1>3, <2>1, Zenon
  <2> QED BY <1>3, <2>2 DEF WireInv, NoSubscription
<1>4. ASSUME log' = log, wire' \in Seq(SentItems), old' = old, sub'.phase # "off" PROVE WireInv'
  BY <1>1, <1>3, <1>4
<1>5. ASSUME NEW batch \in Batches, Commit(batch) PROVE WireInv'
  BY <1>2, <1>5 DEF Commit, clientVars
<1>6. CASE Publish
  <2>1. wire' = wire /\ old' = old /\ log' = log /\ sub'.phase = sub.phase
    BY <1>1, <1>6 DEF Publish, SubInv, clientVars
  <2>2. CASE sub.phase = "off"
    BY <1>2, <1>6, <2>1, <2>2, <1>1 DEF Publish, WireInv, NoSubscription
  <2>3. CASE sub.phase # "off"
    BY <1>1, <1>4, <2>1, <2>3
  <2> QED BY <2>2, <2>3
<1>7. CASE Attach \/ ReadHead \/ Subscribe \/ LoadHttpSnapshot \/ MissHttpSnapshot
  <2>1. wire' = wire /\ old' = old /\ log' = log
    BY <1>7 DEF Attach, ReadHead, Subscribe, LoadHttpSnapshot, MissHttpSnapshot, serverVars, clientVars
  <2>2. CASE Attach
    BY <1>1, <1>4, <2>1, <2>2 DEF Attach, SubInv
  <2>3. CASE ReadHead
    <3>1. sub' = [sub EXCEPT !.phase = "replay", !.target = head]
          \/ sub' = [sub EXCEPT !.phase = "snapshot"]
      BY <2>3 DEF ReadHead
    <3>2. sub'.phase # "off"
      BY <1>1, <3>1 DEF SubInv
    <3> QED BY <1>1, <1>4, <2>1, <3>2
  <2>4. CASE Subscribe \/ LoadHttpSnapshot \/ MissHttpSnapshot
    <3>1. \A phase, cursor : Request(phase, cursor).phase = phase
      BY DEF Request, NoSubscription
    <3>2. sub'.phase \in {"load", "head", "snapshot"}
      BY <2>4, <3>1 DEF Subscribe, LoadHttpSnapshot, MissHttpSnapshot
    <3> QED BY <1>1, <1>4, <2>1, <3>2
  <2> QED BY <1>7, <2>2, <2>3, <2>4
<1>8. CASE Replay
  <2>1. CatchUp \in Seq(SentItems)
    <3>1. sub.after <= sub.target
      BY <1>8 DEF Replay, PhaseInv
    <3> QED BY <3>1, CatchUpRows
  <2>2. wire \o CatchUp \in Seq(SentItems)
    BY <1>1, <2>1, ConcatProperties
  <2>3. wire' \in Seq(SentItems) /\ old' = old /\ log' = log /\ sub'.phase # "off"
    BY <1>1, <1>8, <2>2 DEF Replay, SubInv, serverVars, clientVars
  <2> QED BY <1>4, <2>3
<1>9. CASE SendSnapshot
  <2>1. SnapshotAt(Len(log)) \in SentItems
    BY <1>1 DEF SentItems
  <2>2. Append(wire, SnapshotAt(Len(log))) \in Seq(SentItems)
    BY <1>1, <2>1, AppendProperties
  <2>3. wire' \in Seq(SentItems) /\ old' = old /\ log' = log /\ sub'.phase # "off"
    BY <1>1, <1>9, <2>2 DEF SendSnapshot, SubInv, serverVars, clientVars
  <2> QED BY <1>4, <2>3
<1>10. CASE SendBuffered
  <2>1. Head(sub.buffer) \in SentItems
    BY <1>1, <1>10, HeadTailProperties DEF SendBuffered, SentItems
  <2>2. Append(wire, Head(sub.buffer)) \in Seq(SentItems)
    BY <1>1, <2>1, AppendProperties
  <2>3. wire' \in Seq(SentItems) /\ old' = old /\ log' = log /\ sub'.phase # "off"
    BY <1>1, <1>10, <2>2 DEF SendBuffered, SubInv, serverVars, clientVars
  <2> QED BY <1>4, <2>3
<1>11. CASE Receive
  <2>1. /\ sub' = sub /\ log' = log
        /\ \/ old # <<>> /\ old' = Tail(old) /\ wire' = wire
           \/ wire # <<>> /\ wire' = Tail(wire) /\ old' = old
    BY <1>11 DEF Receive, serverVars
  <2>2. wire' \in Seq(SentItems) /\ old' \in Seq(SentItems)
    BY <1>1, <2>1, HeadTailProperties
  <2> QED BY <1>1, <1>3, <2>1, <2>2 DEF WireInv
<1>12. CASE AdvanceHead \/ ApplyPending \/ Persist
  BY <1>2, <1>12 DEF AdvanceHead, ApplyPending, Persist, clientVars
<1>13. CASE LoseSession \/ RestartServer \/ Close \/ Kill
  <2>1. /\ sub' = NoSubscription /\ wire' = <<>> /\ log' = log
        /\ old' = <<>> \/ KeepQueued
    BY <1>13 DEF LoseSession, RestartServer, Close, Kill, Break, serverVars
  <2>2. <<>> \in Seq(SentItems)
    BY EmptySeq
  <2>3. old' \in Seq(SentItems)
    <3>1. CASE KeepQueued
      <4>1. PICK n \in 0..Len(wire) : old' = old \o SubSeq(wire, 1, n)
        BY <3>1 DEF KeepQueued
      <4> HIDE DEF SentItems
      <4> QED BY <1>1, <4>1, QueuedItems
    <3> QED BY <2>1, <2>2, <3>1
  <2> QED BY <1>3, <2>1, <2>2, <2>3
<1> QED BY <1>5, <1>6, <1>7, <1>8, <1>9, <1>10, <1>11, <1>12, <1>13
        DEF Next, EngineStep, HandlerStep, ClientStep, HttpStep

(* What Receive does with the item it takes.                               *)
Takes(item) ==
    /\ \/ /\ item.kind = "synchronized"
          /\ client' = [client EXCEPT !.awaiting = FALSE, !.told = item.seq,
                                      !.status = IF client.data THEN "live" ELSE @]
       \/ item.kind = "snapshot" /\ client' = [client EXCEPT !.cursor = item.seq, !.pending = item]
       \/ /\ item.kind = "event" /\ item.seq > client.cursor
          /\ client' = [client EXCEPT !.cursor = item.seq, !.pending = IF client.data THEN item ELSE Nothing]
       \/ item.kind = "event" /\ ~(item.seq > client.cursor) /\ client' = client
    /\ slips' = IF item.kind = "snapshot" /\ item.seq < client.cursor
                THEN slips \cup {"old snapshot"} ELSE slips

LEMMA TakeTakes ==
  ASSUME TypeInv, NEW item \in SentItems, Take(item)
  PROVE  Takes(item)
<1>1. item.kind \in {"synchronized", "snapshot", "event"}
  BY ItemKinds DEF TypeInv
<1> QED BY <1>1 DEF Take, Takes, Fresh

LEMMA ReceiveTakes ==
  ASSUME TypeInv, Receive
  PROVE  \E item \in SentItems :
            /\ Takes(item)
            /\ client.pending = Nothing /\ sub' = sub /\ cache' = cache /\ log' = log
            /\ head' = head /\ published' = published /\ breaks' = breaks
            /\ \/ old # <<>> /\ item = Head(old) /\ old' = Tail(old) /\ wire' = wire
               \/ old = <<>> /\ old' = old /\ wire # <<>> /\ item = Head(wire) /\ wire' = Tail(wire)
<1>1. old \in Seq(SentItems) /\ wire \in Seq(SentItems)
  BY DEF TypeInv, WireInv
<1>2. CASE old # <<>> /\ old' = Tail(old) /\ Take(Head(old)) /\ UNCHANGED wire
  <2>1. Head(old) \in SentItems
    BY <1>1, <1>2, HeadTailProperties
  <2>2. Takes(Head(old))
    BY <1>2, <2>1, TakeTakes
  <2> QED BY <1>2, <2>1, <2>2 DEF Receive, serverVars
<1>3. CASE old = <<>> /\ wire # <<>> /\ wire' = Tail(wire) /\ Take(Head(wire)) /\ UNCHANGED old
  <2>1. Head(wire) \in SentItems
    BY <1>1, <1>3, HeadTailProperties
  <2>2. Takes(Head(wire))
    BY <1>3, <2>1, TakeTakes
  <2> QED BY <1>3, <2>1, <2>2 DEF Receive, serverVars
<1> QED BY <1>2, <1>3 DEF Receive

(* The named slips are never taken back.                                   *)
LEMMA SlipsStay ==
  ASSUME TypeInv, Next PROVE slips \subseteq slips'
<1>1. Receive => slips \subseteq slips'
  BY ReceiveTakes DEF Takes
<1> QED BY <1>1 DEF Next, EngineStep, Commit, AdvanceHead, Publish, Attach, HandlerStep, ReadHead, Replay,
     SendSnapshot, SendBuffered, ClientStep, Subscribe, HttpStep, LoadHttpSnapshot, MissHttpSnapshot,
     ApplyPending, Persist, LoseSession, RestartServer, Close, Kill, historyVars, NoteLateAttach

LEMMA NextClientInv ==
  ASSUME TypeInv, Next PROVE ClientInv'
<1>1. /\ LogInv /\ SubInv /\ WireInv /\ ClientInv /\ CacheInv /\ LogGrows
      /\ wire \in Seq(SentItems) /\ Len(log) \in Nat
  BY StepLogGrows DEF TypeInv, WireInv, LogInv
<1>2. /\ client.data \in BOOLEAN /\ client.cursor \in 0..Len(log) /\ client.shown \in Seq(1..Len(log))
      /\ client.status \in {"cached", "synchronizing", "live"} /\ client.awaiting \in BOOLEAN
      /\ client.pending \in {Nothing} \cup Contents /\ client.told \in 0..Len(log)
  BY <1>1 DEF ClientInv
<1>3. CASE client' = client
  BY <1>1, <1>3, KeepsTypes
<1>4. ASSUME log' = log,
             client' \in [data : BOOLEAN, cursor : 0..Len(log), shown : Seq(1..Len(log)),
                          status : {"cached", "synchronizing", "live"}, awaiting : BOOLEAN,
                          pending : {Nothing} \cup Contents, told : 0..Len(log)]
      PROVE  ClientInv'
  <2>1. Contents' = Contents
    BY <1>4 DEF Contents, SentItems, BufferItems, Details
  <2> HIDE DEF Contents
  <2> QED BY <1>4, <2>1 DEF ClientInv, Nothing
<1>5. ASSUME NEW n \in 0..Len(log) PROVE DetailsUpTo(n) \in Seq(1..Len(log))
  <2>1. DetailsUpTo(n) \in Seq(0 + 1 .. n)
    <3>1. n \in Nat /\ 0 \in Nat /\ 0 <= n
      BY <1>1
    <3>2. DetailsUpTo(n) = DetailsIn(log, 0, n)
      BY DEF DetailsUpTo, DetailsBetween, DetailsIn
    <3>3. ListsDetails(DetailsIn(log, 0, n), log, 0, n)
      BY <3>1, DetailsListed
    <3> QED BY <3>2, <3>3 DEF ListsDetails
  <2>2. 0 + 1 .. n \subseteq 1..Len(log)
    BY <1>1
  <2> QED BY <2>1, <2>2, SeqMonotonic
<1>6. ASSUME NEW batch \in Batches, Commit(batch) PROVE ClientInv'
  BY <1>3, <1>6 DEF Commit, clientVars
<1>7. CASE Subscribe
  <2>1. log' = log /\ client' = [client EXCEPT !.awaiting = TRUE, !.status = "synchronizing"]
    BY <1>7 DEF Subscribe, serverVars
  <2> HIDE DEF Contents
  <2> QED BY <1>1, <1>4, <2>1 DEF ClientInv
<1>8. CASE LoadHttpSnapshot
  <2>1. /\ log' = log
        /\ client' = [client EXCEPT !.data = TRUE, !.cursor = Len(log), !.shown = DetailsUpTo(Len(log)),
                                    !.status = IF client.awaiting THEN "synchronizing" ELSE "live"]
    BY <1>8 DEF LoadHttpSnapshot, serverVars
  <2>2. DetailsUpTo(Len(log)) \in Seq(1..Len(log)) /\ Len(log) \in 0..Len(log)
    BY <1>1, <1>5
  <2> HIDE DEF Contents
  <2> QED BY <1>1, <1>4, <2>1, <2>2 DEF ClientInv
<1>9. CASE Receive
  <2>1. PICK item \in SentItems : Takes(item) /\ log' = log
    BY <1>9, ReceiveTakes
  <2>2. item.seq \in 0..Len(log) /\ (item.kind # "synchronized" => item \in Contents)
    BY <1>1, <2>1, ItemKinds DEF Details, Contents
  <2> HIDE DEF SentItems, Contents
  <2>3. client' \in [data : BOOLEAN, cursor : 0..Len(log), shown : Seq(1..Len(log)),
                     status : {"cached", "synchronizing", "live"}, awaiting : BOOLEAN,
                     pending : {Nothing} \cup Contents, told : 0..Len(log)]
    BY <1>1, <2>1, <2>2 DEF ClientInv, Takes
  <2> QED BY <1>4, <2>1, <2>3
<1>10. CASE ApplyPending
  <2> DEFINE item == client.pending
             shown == IF item.kind = "snapshot" THEN DetailsUpTo(item.seq) ELSE Append(client.shown, item.seq)
  <2>1. /\ log' = log
        /\ client' = [client EXCEPT !.data = TRUE, !.shown = shown,
                       !.status = IF client.awaiting THEN "synchronizing" ELSE "live",
                       !.pending = Nothing]
    BY <1>1, <1>10 DEF ApplyPending, serverVars, ClientInv
  <2>2. item \in SentItems /\ item.kind # "synchronized"
    BY <1>2, <1>10 DEF ApplyPending, Contents
  <2>3. \/ item.kind = "event" /\ item.seq \in Details
        \/ item.kind = "snapshot" /\ item.seq \in 0..Len(log)
    BY <1>1, <2>2, ItemKinds
  <2> HIDE DEF item
  <2>4. shown \in Seq(1..Len(log))
    <3>1. CASE item.kind = "snapshot"
      BY <1>5, <2>3, <3>1
    <3>2. CASE item.kind = "event"
      <4>1. item.seq \in 1..Len(log)
        BY <2>3, <3>2 DEF Details
      <4>2. Append(client.shown, item.seq) \in Seq(1..Len(log))
        BY <1>2, <4>1, AppendProperties
      <4> QED BY <3>2, <4>2
    <3> QED BY <2>3, <3>1, <3>2
  <2> HIDE DEF shown, Contents
  <2> QED BY <1>1, <1>4, <2>1, <2>4 DEF ClientInv
<1>11. CASE Publish \/ AdvanceHead \/ Attach \/ HandlerStep \/ MissHttpSnapshot \/ Persist
  BY <1>3, <1>11 DEF Publish, AdvanceHead, Attach, HandlerStep, ReadHead, Replay, SendSnapshot,
     SendBuffered, MissHttpSnapshot, Persist, clientVars
<1>12. CASE LoseSession \/ RestartServer
  <2>1. /\ log' = log
        /\ client' \in {client, [client EXCEPT !.awaiting = FALSE, !.status = "cached"]}
    BY <1>12 DEF LoseSession, RestartServer, serverVars
  <2> HIDE DEF Contents
  <2> QED BY <1>1, <1>3, <1>4, <2>1 DEF ClientInv
<1>13. CASE Close \/ Kill
  <2> DEFINE copy == IF client' = ClientFrom(cache) THEN cache
                     ELSE [data |-> TRUE, cursor |-> client.cursor, shown |-> client.shown]
  <2>1. log' = log /\ client' = ClientFrom(copy)
    BY <1>13 DEF Close, Kill, serverVars
  <2>2. copy \in [data : BOOLEAN, cursor : 0..Len(log), shown : Seq(1..Len(log))]
    BY <1>1, <1>2 DEF CacheInv
  <2>3. 0 \in 0..Len(log)
    BY <1>1
  <2> HIDE DEF copy, Contents
  <2> QED BY <1>4, <2>1, <2>2, <2>3 DEF ClientFrom
<1> QED BY <1>6, <1>7, <1>8, <1>9, <1>10, <1>11, <1>12, <1>13 DEF Next, EngineStep, ClientStep, HttpStep

LEMMA NextCacheInv ==
  ASSUME TypeInv, Next PROVE CacheInv'
<1>1. LogInv /\ ClientInv /\ CacheInv /\ LogGrows
  BY StepLogGrows DEF TypeInv
<1>2. CASE cache' = cache
  BY <1>1, <1>2, KeepsTypes
<1>3. CASE log' = log /\ cache' = [data |-> TRUE, cursor |-> client.cursor, shown |-> client.shown]
  BY <1>1, <1>3 DEF CacheInv, ClientInv
<1>4. CASE Persist \/ Close
  BY <1>2, <1>3, <1>4 DEF Persist, Close, serverVars
<1>5. CASE ~(Persist \/ Close)
  BY <1>2, <1>5 DEF Next, EngineStep, Commit, AdvanceHead, Publish, Attach, HandlerStep, ReadHead, Replay,
     SendSnapshot, SendBuffered, ClientStep, Subscribe, HttpStep, LoadHttpSnapshot, MissHttpSnapshot, Receive, ApplyPending,
     LoseSession, RestartServer, Kill, clientVars
<1> QED BY <1>4, <1>5

LEMMA NextHistoryInv ==
  ASSUME TypeInv, Next PROVE HistoryInv'
<1>0. HistoryInv
  BY DEF TypeInv
<1>1. CASE UNCHANGED historyVars
  BY <1>0, <1>1 DEF HistoryInv, historyVars
<1>2. CASE ReadHead \/ SendSnapshot
  BY <1>0, <1>2 DEF HistoryInv, ReadHead, SendSnapshot, NoteLateAttach
<1>3. CASE LoseSession \/ RestartServer \/ Close \/ Kill
  <2>1. Break /\ slips' \in {slips, slips \cup {"torn copy"}}
    BY <1>3 DEF LoseSession, RestartServer, Close, Kill
  <2>2. breaks < MaxBreaks /\ breaks' = breaks + 1
    BY <2>1 DEF Break
  <2>3. breaks' \in 0..MaxBreaks
    <3>1. MaxBreaks \in Nat
      BY ThreadAssumption
    <3>2. breaks \in 0..MaxBreaks
      BY <1>0 DEF HistoryInv
    <3> QED BY <2>2, <3>1, <3>2
  <2> QED BY <1>0, <2>1, <2>3 DEF HistoryInv
<1>5. CASE Receive
  BY <1>0, <1>5, ReceiveTakes DEF HistoryInv, Takes
<1>4. CASE ~(ReadHead \/ SendSnapshot \/ Receive \/ LoseSession \/ RestartServer \/ Close \/ Kill)
  BY <1>1, <1>4 DEF Next, EngineStep, Commit, AdvanceHead, Publish, Attach, HandlerStep, Replay,
     SendBuffered, ClientStep, Subscribe, HttpStep, LoadHttpSnapshot, MissHttpSnapshot, ApplyPending, Persist
<1> QED BY <1>2, <1>3, <1>4, <1>5

LEMMA NextTypeInv ==
  ASSUME TypeInv, PhaseInv, Next PROVE TypeInv'
BY NextLogInv, NextSubInv, NextWireInv, NextClientInv, NextCacheInv, NextHistoryInv DEF TypeInv

LEMMA InitPhaseInv ==
  Init => PhaseInv
BY DEF Init, PhaseInv, NoSubscription

LEMMA NextPhaseInv ==
  ASSUME TypeInv, PhaseInv, Next PROVE PhaseInv'
<1>1. /\ LogInv /\ SubInv /\ WireInv /\ ClientInv
      /\ sub.buffer \in Seq(BufferItems) /\ Len(sub.buffer) \in Nat
  BY LenProperties DEF TypeInv, SubInv
<1>2. /\ Len(log) \in Nat /\ head \in Nat /\ published \in Nat /\ published <= head
      /\ sub.after \in Nat /\ sub.target \in Nat /\ client.cursor \in Nat
  BY <1>1 DEF LogInv, SubInv, ClientInv
(* Steps that leave the subscription alone.                                *)
<1>3. ASSUME sub' = sub, wire' = wire, slips \subseteq slips', published' = published,
             slips' = {} => client.cursor <= client'.cursor,
             client'.cursor \in Nat, client.data => client'.data
      PROVE  PhaseInv'
  <2>1. slips' = {} => slips = {}
    BY <1>3
  <2>2. sub.phase \in {"head", "replay"} /\ slips' = {} => sub.after <= client'.cursor
    BY <1>2, <1>3, <2>1 DEF PhaseInv
  <2> QED BY <1>3, <2>1, <2>2 DEF PhaseInv
<1>4. ASSUME NEW batch \in Batches, Commit(batch) PROVE PhaseInv'
  BY <1>2, <1>3, <1>4 DEF Commit, Feed!CommitBatch, clientVars, historyVars
<1>5. CASE Publish
  <2>1. /\ published' = published + 1 /\ wire' = wire /\ client' = client /\ slips' = slips
        /\ sub' = IF sub.attached /\ log[published'] = "detail"
                  THEN [sub EXCEPT !.buffer = Append(@, EventAt(published'))]
                  ELSE sub
    BY <1>5 DEF Publish, Feed!PublishNext, clientVars, historyVars
  <2>2. /\ sub'.phase = sub.phase /\ sub'.attached = sub.attached /\ sub'.after = sub.after
        /\ sub'.target = sub.target
        /\ sub'.buffer = IF sub.attached /\ log[published'] = "detail"
                         THEN Append(sub.buffer, EventAt(published')) ELSE sub.buffer
    BY <1>1, <2>1 DEF SubInv
  <2>3. ASSUME sub.phase # "live", NEW i \in 1..Len(sub'.buffer)
        PROVE  sub'.buffer[i].kind = "event" /\ sub'.buffer[i].seq <= published'
    <3>1. \A k \in 1..Len(sub.buffer) : sub.buffer[k].kind = "event" /\ sub.buffer[k].seq \in Nat /\ sub.buffer[k].seq <= published
      <4>1. \A k \in 1..Len(sub.buffer) : sub.buffer[k] \in SentItems
        BY <1>1, ElementOfSeq DEF SentItems
      <4>2. \A k \in 1..Len(sub.buffer) : sub.buffer[k].kind = "event" /\ sub.buffer[k].seq <= published
        BY <2>3 DEF PhaseInv
      <4>3. \A item \in SentItems : item.kind = "event" => item.seq \in Nat
        BY <1>1, ItemKinds DEF Details
      <4> HIDE DEF SentItems
      <4> QED BY <4>1, <4>2, <4>3
    <3>2. CASE sub'.buffer = sub.buffer
      <4>1. i \in 1..Len(sub.buffer) /\ sub'.buffer[i] = sub.buffer[i]
        BY <2>3, <3>2
      <4>2. sub.buffer[i].kind = "event" /\ sub.buffer[i].seq <= published'
        BY <1>2, <2>1, <3>1, <4>1
      <4> QED BY <4>1, <4>2
    <3>3. CASE sub'.buffer = Append(sub.buffer, EventAt(published'))
      <4> DEFINE item == EventAt(published')
      <4>1. item.kind = "event" /\ item.seq = published'
        BY DEF EventAt
      <4> HIDE DEF item
      <4>2. /\ Len(sub'.buffer) = Len(sub.buffer) + 1 /\ sub'.buffer[Len(sub.buffer) + 1] = item
            /\ \A k \in 1..Len(sub.buffer) : sub'.buffer[k] = sub.buffer[k]
        BY <1>1, <3>3, AppendProperties DEF item
      <4>3. i \in 1..Len(sub.buffer) \/ i = Len(sub.buffer) + 1
        BY <1>1, <2>3, <4>2
      <4>4. CASE i \in 1..Len(sub.buffer)
        <5>1. sub'.buffer[i] = sub.buffer[i]
          BY <4>2, <4>4
        <5>2. sub.buffer[i].kind = "event" /\ sub.buffer[i].seq <= published'
          BY <1>2, <2>1, <3>1, <4>4
        <5> QED BY <5>1, <5>2
      <4>5. CASE i = Len(sub.buffer) + 1
        BY <1>2, <2>1, <4>1, <4>2, <4>5
      <4> QED BY <4>3, <4>4, <4>5
    <3> QED BY <2>2, <3>2, <3>3
  <2>4. sub.phase = "load" => ~sub.attached
    BY DEF PhaseInv
  <2> QED BY <2>1, <2>2, <2>3, <2>4 DEF PhaseInv
<1>6. CASE Attach
  <2>1. /\ sub'.phase = sub.phase /\ sub'.attached /\ sub'.after = sub.after /\ sub'.buffer = sub.buffer
        /\ sub'.target = sub.target
    BY <1>1, <1>6 DEF Attach, SubInv
  <2> QED BY <1>6, <2>1 DEF PhaseInv, Attach, serverVars, clientVars, historyVars
<1>7. CASE Subscribe \/ LoadHttpSnapshot \/ MissHttpSnapshot
  <2>1. \A phase, cursor : /\ Request(phase, cursor).phase = phase /\ Request(phase, cursor).after = cursor
                           /\ Request(phase, cursor).buffer = <<>> /\ Request(phase, cursor).attached = FALSE
    BY DEF Request, NoSubscription
  <2>2. /\ sub'.phase \in {"load", "head", "snapshot"} /\ sub'.buffer = <<>> /\ ~sub'.attached
        /\ sub'.phase = "head" => client'.data /\ sub'.after = client'.cursor /\ client'.cursor \in Nat
    <3>1. CASE Subscribe
      <4>1. /\ sub' = Request(IF client.data THEN "head" ELSE "load", client.cursor)
            /\ client'.data = client.data /\ client'.cursor = client.cursor /\ client.cursor \in Nat
        BY <1>1, <1>2, <3>1 DEF Subscribe, ClientInv
      <4> QED BY <2>1, <4>1
    <3>2. CASE LoadHttpSnapshot
      <4>1. sub' = Request("head", Len(log)) /\ client'.data = TRUE /\ client'.cursor = Len(log)
        BY <1>1, <3>2 DEF LoadHttpSnapshot, ClientInv
      <4> QED BY <1>2, <2>1, <4>1
    <3>3. CASE MissHttpSnapshot
      <4>1. sub' = Request("snapshot", client.cursor) /\ client' = client /\ client.cursor \in Nat
        BY <1>1, <1>2, <3>3 DEF MissHttpSnapshot, clientVars, ClientInv
      <4> QED BY <2>1, <4>1
    <3> QED BY <1>7, <3>1, <3>2, <3>3
  <2>3. wire' = <<>> /\ Len(<<>>) = 0
    BY <1>7, EmptySeq DEF Subscribe, LoadHttpSnapshot, MissHttpSnapshot, PhaseInv
  <2> QED BY <2>2, <2>3 DEF PhaseInv
<1>8. CASE ReadHead
  <2>1. /\ wire' = wire /\ client' = client /\ published' = published
        /\ slips' = IF sub.attached THEN slips ELSE slips \cup {"late attach"}
    BY <1>8 DEF ReadHead, serverVars, clientVars, NoteLateAttach
  <2>2. CASE Resumable
    <3>1. sub' = [sub EXCEPT !.phase = "replay", !.target = head]
      BY <1>8, <2>2 DEF ReadHead
    <3>2. /\ sub'.phase = "replay" /\ sub'.attached = sub.attached /\ sub'.after = sub.after
          /\ sub'.buffer = sub.buffer /\ sub'.target = head
      BY <1>1, <3>1 DEF SubInv
    <3>3. sub.after <= head
      BY <1>2, <2>2 DEF Resumable
    <3> QED BY <1>8, <2>1, <3>2, <3>3 DEF PhaseInv, ReadHead
  <2>3. CASE ~Resumable
    <3>1. sub' = [sub EXCEPT !.phase = "snapshot"]
      BY <1>8, <2>3 DEF ReadHead
    <3>2. sub'.phase = "snapshot" /\ sub'.buffer = sub.buffer
      BY <1>1, <3>1 DEF SubInv
    <3> QED BY <1>8, <2>1, <3>2 DEF PhaseInv, ReadHead
  <2> QED BY <2>2, <2>3
<1>9. CASE Replay \/ SendSnapshot \/ SendBuffered
  <2>1. sub'.phase = "live" /\ sub'.attached = sub.attached
    BY <1>1, <1>9 DEF Replay, SendSnapshot, SendBuffered, SubInv
  <2>2. slips' = {} /\ ~SendSnapshot => slips = {} /\ sub.phase \in {"replay", "live"}
    BY <1>9 DEF Replay, SendBuffered, historyVars
  <2>3. slips' = {} => sub.attached
    BY <1>9, <2>2 DEF SendSnapshot, NoteLateAttach, PhaseInv
  <2> QED BY <2>1, <2>3 DEF PhaseInv
<1>10. CASE Receive
  <2>1. PICK item \in SentItems :
            /\ Takes(item) /\ sub' = sub /\ published' = published
            /\ \/ wire' = wire
               \/ wire # <<>>
    BY <1>10, ReceiveTakes
  <2>2. item.seq \in Nat
    <3>1. \A n \in Details : n \in Nat
      BY DEF Details
    <3> QED BY <1>1, <2>1, <3>1, ItemKinds
  <2>3. /\ slips \subseteq slips' /\ (slips' = {} => client.cursor <= client'.cursor)
        /\ client'.cursor \in Nat /\ (client.data => client'.data)
    <3> HIDE DEF SentItems
    <3>1. /\ client.data \in BOOLEAN /\ client.cursor \in Nat
          /\ item.kind = "snapshot" /\ item.seq < client.cursor => slips' # {}
      BY <1>1, <1>2, <2>1 DEF Takes, ClientInv
    <3>2. slips \subseteq slips'
      BY <2>1 DEF Takes
    <3>3. /\ client'.data = client.data
          /\ \/ client'.cursor = client.cursor
             \/ client'.cursor = item.seq /\ item.kind = "snapshot"
             \/ client'.cursor = item.seq /\ item.seq > client.cursor
      BY <1>1, <2>1 DEF Takes, ClientInv
    <3> QED BY <2>2, <3>1, <3>2, <3>3
  <2>4. CASE wire' = wire
    BY <1>3, <2>1, <2>3, <2>4
  <2>5. CASE wire # <<>>
    <3>1. sub.phase = "live"
      BY <2>5 DEF PhaseInv
    <3> QED BY <2>1, <2>3, <3>1 DEF PhaseInv
  <2> QED BY <2>1, <2>4, <2>5
<1>11. CASE ApplyPending \/ AdvanceHead \/ Persist
  <2>1. /\ sub' = sub /\ wire' = wire /\ slips' = slips /\ published' = published
        /\ client'.cursor = client.cursor
        /\ client.data => client'.data
    BY <1>1, <1>11 DEF ApplyPending, AdvanceHead, Persist, Feed!AdvanceHead, serverVars,
       clientVars, historyVars, ClientInv
  <2> QED BY <1>2, <1>3, <2>1
<1>12. CASE LoseSession \/ RestartServer \/ Close \/ Kill
  <2>1. sub' = NoSubscription /\ wire' = <<>>
    BY <1>12 DEF LoseSession, RestartServer, Close, Kill, Break
  <2>2. sub'.phase = "off" /\ sub'.buffer = <<>> /\ Len(<<>>) = 0
    BY <2>1, EmptySeq DEF NoSubscription
  <2> QED BY <2>1, <2>2 DEF PhaseInv
<1> QED BY <1>4, <1>5, <1>6, <1>7, <1>8, <1>9, <1>10, <1>11, <1>12
        DEF Next, EngineStep, HandlerStep, ClientStep, HttpStep

-----------------------------------------------------------------------------
(* The stream of one subscription: what is on the wire, then what is       *)
(* buffered.  Before each event every older detail event is delivered that *)
(* the client lacks, before a marker those that it stands for, and by the  *)
(* end those that were published.                                          *)
Delivers(item, d) == item = EventAt(d) \/ (item.kind = "snapshot" /\ d <= item.seq)

Bound(item) ==
    CASE item.kind = "synchronized" -> item.seq
      [] item.kind = "event" -> item.seq - 1
      [] OTHER -> 0
Limit(s, pub, i) == IF i = Len(s) + 1 THEN pub ELSE Bound(s[i])

NoGap(s, D, start, pub) ==
    \A i \in 1..Len(s) + 1 : \A d \in D :
        start < d /\ d <= Limit(s, pub, i) => \E j \in 1..i - 1 : Delivers(s[j], d)

LEMMA NoGapPublished ==
  ASSUME NEW T, NEW s \in Seq(T), NEW D \in SUBSET Nat, NEW start \in Nat, NEW pub \in Nat,
         NoGap(s, D, start, pub), EventAt(pub + 1) \in T
  PROVE  NoGap(Append(s, EventAt(pub + 1)), D, start, pub + 1)
<1> DEFINE e == EventAt(pub + 1)
           t == Append(s, e)
<1>1. e.kind = "event" /\ e.seq = pub + 1 /\ Delivers(e, pub + 1)
  BY DEF EventAt, Delivers
<1>2. Bound(e) = pub
  BY <1>1 DEF Bound
<1>3. e \in T
  OBVIOUS
<1> HIDE DEF e
<1>4. /\ Len(s) \in Nat /\ Len(t) = Len(s) + 1 /\ t[Len(s) + 1] = e
      /\ \A j \in 1..Len(s) : t[j] = s[j]
  BY <1>3, AppendProperties, LenProperties
<1> HIDE DEF t
<1> SUFFICES ASSUME NEW i \in 1..Len(t) + 1, NEW d \in D, start < d, d <= Limit(t, pub + 1, i)
             PROVE  \E j \in 1..i - 1 : Delivers(t[j], d)
  BY DEF NoGap, e, t
<1>5. CASE i \in 1..Len(s)
  <2>1. Limit(t, pub + 1, i) = Limit(s, pub, i) /\ i \in 1..Len(s) + 1
    BY <1>4, <1>5 DEF Limit
  <2>2. PICK j \in 1..i - 1 : Delivers(s[j], d)
    BY <2>1 DEF NoGap
  <2>3. j \in 1..Len(s)
    BY <1>5
  <2> QED BY <1>4, <2>2, <2>3
<1>6. ASSUME d <= pub, i \in Len(s) + 1 .. Len(s) + 2 PROVE \E j \in 1..i - 1 : Delivers(t[j], d)
  <2>1. Len(s) + 1 \in 1..Len(s) + 1 /\ Limit(s, pub, Len(s) + 1) = pub
    BY <1>4 DEF Limit
  <2>2. PICK j \in 1..(Len(s) + 1) - 1 : Delivers(s[j], d)
    BY <1>6, <2>1 DEF NoGap
  <2>3. j \in 1..Len(s) /\ j \in 1..i - 1
    BY <1>4, <1>6
  <2> QED BY <1>4, <2>2, <2>3
<1>7. CASE i = Len(s) + 1
  <2>1. Limit(t, pub + 1, i) = pub
    BY <1>2, <1>4, <1>7 DEF Limit
  <2> QED BY <1>4, <1>6, <1>7, <2>1
<1>8. CASE i = Len(s) + 2
  <2>1. Limit(t, pub + 1, i) = pub + 1
    BY <1>4, <1>8 DEF Limit
  <2>2. CASE d = pub + 1
    <3>1. Len(s) + 1 \in 1..i - 1 /\ Delivers(t[Len(s) + 1], d)
      BY <1>1, <1>4, <1>8, <2>2
    <3> QED BY <3>1
  <2>3. CASE d # pub + 1
    <3>1. d <= pub
      BY <2>1, <2>3
    <3> QED BY <1>4, <1>6, <1>8, <3>1
  <2> QED BY <2>2, <2>3
<1> QED BY <1>4, <1>5, <1>7, <1>8

LEMMA NoGapSkipped ==
  ASSUME NEW s, Len(s) \in Nat, NEW D \in SUBSET Nat, NEW start \in Nat, NEW pub \in Nat,
         NoGap(s, D, start, pub), pub + 1 \notin D
  PROVE  NoGap(s, D, start, pub + 1)
<1> SUFFICES ASSUME NEW i \in 1..Len(s) + 1, NEW d \in D, start < d, d <= Limit(s, pub + 1, i)
             PROVE  \E j \in 1..i - 1 : Delivers(s[j], d)
  BY DEF NoGap
<1>1. d \in Nat /\ d # pub + 1
  OBVIOUS
<1>2. d <= Limit(s, pub, i)
  BY <1>1 DEF Limit
<1> QED BY <1>2 DEF NoGap

(* The first item is received, and what it delivers is behind the cursor.  *)
LEMMA NoGapReceived ==
  ASSUME NEW T, NEW s \in Seq(T), s # <<>>, NEW D \in SUBSET Nat, NEW start \in Nat, NEW next \in Nat,
         NEW pub \in Nat, NoGap(s, D, start, pub), start <= next,
         \A d \in D : next < d => ~Delivers(s[1], d)
  PROVE  NoGap(Tail(s), D, next, pub)
<1> DEFINE t == Tail(s)
<1>1. /\ Len(s) \in Nat \ {0} /\ Len(t) = Len(s) - 1 /\ \A j \in 1..Len(t) : t[j] = s[j + 1]
  BY HeadTailProperties, EmptySeq
<1> HIDE DEF t
<1> SUFFICES ASSUME NEW i \in 1..Len(t) + 1, NEW d \in D, next < d, d <= Limit(t, pub, i)
             PROVE  \E j \in 1..i - 1 : Delivers(t[j], d)
  BY DEF NoGap, t
<1>2. i \in Nat /\ i + 1 \in 1..Len(s) + 1 /\ (i + 1) - 1 = i /\ start < d
  BY <1>1
<1>3. Limit(t, pub, i) = Limit(s, pub, i + 1)
  <2>1. CASE i = Len(t) + 1
    BY <1>1, <2>1 DEF Limit
  <2>2. CASE i # Len(t) + 1
    <3>1. i \in 1..Len(t) /\ i + 1 # Len(s) + 1
      BY <1>1, <2>2
    <3> QED BY <1>1, <2>2, <3>1 DEF Limit
  <2> QED BY <2>1, <2>2
<1>4. PICK k \in 1..(i + 1) - 1 : Delivers(s[k], d)
  BY <1>2, <1>3 DEF NoGap
<1>5. k # 1
  BY <1>4
<1>6. k - 1 \in 1..i - 1 /\ k - 1 \in 1..Len(t) /\ (k - 1) + 1 = k
  BY <1>1, <1>2, <1>5
<1>7. t[k - 1] = s[k]
  BY <1>1, <1>6
<1> QED BY <1>4, <1>6, <1>7

(* Later events are beyond every limit.                                    *)
LEMMA NoGapCommitted ==
  ASSUME NEW s, Len(s) \in Nat, NEW D \in SUBSET Nat, NEW E \in SUBSET Nat, NEW start \in Nat,
         NEW pub \in Nat, NEW last \in Nat,
         NoGap(s, D, start, pub), \A e \in E : e <= last => e \in D,
         pub <= last, \A i \in 1..Len(s) : s[i].seq \in 0..last
  PROVE  NoGap(s, E, start, pub)
<1> SUFFICES ASSUME NEW i \in 1..Len(s) + 1, NEW d \in E, start < d, d <= Limit(s, pub, i)
             PROVE  \E j \in 1..i - 1 : Delivers(s[j], d)
  BY DEF NoGap
<1>1. Limit(s, pub, i) <= last /\ Limit(s, pub, i) \in Int
  <2>1. CASE i = Len(s) + 1
    BY <2>1 DEF Limit
  <2>2. CASE i \in 1..Len(s)
    <3>1. Limit(s, pub, i) = Bound(s[i])
      BY <2>2 DEF Limit
    <3>2. s[i].seq \in 0..last
      BY <2>2
    <3>3. Bound(s[i]) \in {s[i].seq, s[i].seq - 1, 0}
      BY DEF Bound
    <3> QED BY <3>1, <3>2, <3>3
  <2> QED BY <2>1, <2>2
<1>2. d \in Nat
  OBVIOUS
<1>3. d <= last
  BY <1>1, <1>2
<1>4. d \in D
  BY <1>3
<1> QED BY <1>4 DEF NoGap

(* The catch-up c, then the buffered events s, then the marker.            *)
LEMMA NoGapReplayed ==
  ASSUME NEW T, NEW s \in Seq(T), NEW c \in Seq(T), NEW D \in SUBSET Nat,
         NEW after \in Nat, NEW target \in Nat, NEW pub \in Nat,
         NoGap(s, D, target, pub), \A i \in 1..Len(s) : s[i].kind = "event",
         \A i \in 1..Len(c) : /\ c[i].seq \in Nat /\ c[i].seq <= target /\ c[i] = EventAt(c[i].seq),
         \A i, j \in 1..Len(c) : i < j => c[i].seq < c[j].seq,
         \A d \in D : after < d /\ d <= target => \E i \in 1..Len(c) : c[i].seq = d,
         NEW m \in T, m = MarkerFor(IF pub > target THEN pub ELSE target)
  PROVE  NoGap(c \o Append(s, m), D, after, pub)
<1> DEFINE b == Append(s, m)
           u == c \o b
<1>1. /\ Len(s) \in Nat /\ b \in Seq(T) /\ Len(b) = Len(s) + 1 /\ b[Len(s) + 1] = m
      /\ \A j \in 1..Len(s) : b[j] = s[j]
  BY AppendProperties, LenProperties
<1> HIDE DEF b
<1>2. /\ Len(c) \in Nat /\ Len(u) = Len(c) + Len(s) + 1
      /\ \A j \in 1..Len(c) + Len(s) + 1 : u[j] = IF j <= Len(c) THEN c[j] ELSE b[j - Len(c)]
  <2>1. Len(c) \in Nat
    BY LenProperties
  <2>2. /\ Len(u) = Len(c) + Len(b)
        /\ \A j \in 1..Len(c) + Len(b) : u[j] = IF j <= Len(c) THEN c[j] ELSE b[j - Len(c)]
    BY ZenonT(60), <1>1, ConcatProperties
  <2>3. Len(c) + Len(b) = Len(c) + Len(s) + 1
    BY <1>1, <2>1
  <2> HIDE DEF u
  <2> QED BY <2>1, <2>2, <2>3
<1> HIDE DEF u
<1>3. /\ \A j \in 1..Len(c) : u[j] = c[j]
      /\ \A j \in 1..Len(s) : u[Len(c) + j] = s[j]
      /\ u[Len(c) + (Len(s) + 1)] = m
  <2>1. \A j \in 1..Len(c) : j \in 1..Len(c) + Len(s) + 1
    BY <1>1, <1>2
  <2>2. \A j \in 1..Len(s) + 1 : /\ Len(c) + j \in 1..Len(c) + Len(s) + 1
                                 /\ ~(Len(c) + j <= Len(c)) /\ (Len(c) + j) - Len(c) = j
    BY <1>1, <1>2
  <2>3. \A j \in 1..Len(s) + 1 : u[Len(c) + j] = b[j]
    BY <1>2, <2>2
  <2>4. Len(s) + 1 \in 1..Len(s) + 1 /\ \A j \in 1..Len(s) : j \in 1..Len(s) + 1
    BY <1>1
  <2> QED BY <1>1, <1>2, <2>1, <2>3, <2>4
<1> SUFFICES ASSUME NEW i \in 1..Len(u) + 1, NEW d \in D, after < d, d <= Limit(u, pub, i)
             PROVE  \E j \in 1..i - 1 : Delivers(u[j], d)
  BY DEF NoGap, u, b
<1>4. d \in Nat /\ i \in Nat
  BY <1>1, <1>2
<1>5. CASE i \in 1..Len(c)
  <2>1. Limit(u, pub, i) = c[i].seq - 1
    <3>1. i # Len(u) + 1 /\ u[i] = c[i] /\ c[i].kind = "event"
      <4>1. i # Len(u) + 1
        BY <1>1, <1>2, <1>5
      <4>2. c[i].kind = "event"
        <5>1. c[i] = EventAt(c[i].seq)
          BY <1>5
        <5>2. EventAt(c[i].seq).kind = "event"
          BY DEF EventAt
        <5> QED BY <5>1, <5>2, Zenon
      <4> QED BY <1>3, <1>5, <4>1, <4>2
    <3> QED BY <3>1 DEF Limit, Bound
  <2>2. c[i].seq \in Nat /\ c[i].seq <= target /\ d <= c[i].seq - 1
    BY <1>5, <2>1
  <2>3. d <= target /\ d < c[i].seq
    BY <1>4, <2>2
  <2>4. PICK k \in 1..Len(c) : c[k].seq = d
    BY <2>3
  <2>5. k # i /\ ~(i < k)
    <3>1. i < k => c[i].seq < c[k].seq
      BY <1>5
    <3> QED BY <1>4, <2>2, <2>3, <2>4, <3>1
  <2>6. k \in 1..i - 1
    BY <1>2, <1>4, <2>5
  <2>7. u[k] = EventAt(d)
    BY <1>3, <2>4
  <2> QED BY <2>6, <2>7 DEF Delivers
<1>6. CASE i \notin 1..Len(c)
  <2>1. i - Len(c) \in 1..Len(s) + 2 /\ i > Len(c)
    BY <1>1, <1>2, <1>4, <1>6
  <2>2. CASE d <= target
    <3>1. PICK k \in 1..Len(c) : c[k].seq = d
      BY <2>2
    <3>2. k \in 1..i - 1
      BY <1>2, <1>4, <2>1
    <3>3. u[k] = EventAt(d)
      BY <1>3, <3>1
    <3> QED BY <3>2, <3>3 DEF Delivers
  <2>3. CASE ~(d <= target)
    <3> DEFINE x == i - Len(c)
               n == IF x <= Len(s) THEN x ELSE Len(s) + 1
    <3>1. x \in Nat /\ i = Len(c) + x /\ n \in 1..Len(s) + 1 /\ n <= x
      BY <1>1, <1>2, <1>4, <2>1
    <3>2. d <= Limit(s, pub, n)
      <4>1. CASE x <= Len(s)
        <5>1. x \in 1..Len(s) /\ n = x /\ i # Len(u) + 1 /\ n # Len(s) + 1
          BY <1>1, <1>2, <2>1, <3>1, <4>1
        <5>2. u[i] = s[x] /\ s[x].kind = "event"
          BY <1>3, <3>1, <5>1
        <5> HIDE DEF x, n
        <5>3. Limit(u, pub, i) = s[x].seq - 1
          BY <5>1, <5>2 DEF Limit, Bound
        <5>4. Limit(s, pub, n) = s[x].seq - 1
          BY <5>1, <5>2 DEF Limit, Bound
        <5> QED BY <5>3, <5>4
      <4>2. CASE x = Len(s) + 1
        <5>1. n = Len(s) + 1 /\ i # Len(u) + 1
          BY <1>1, <1>2, <3>1, <4>2
        <5>2. u[i] = m
          BY <1>3, <3>1, <4>2
        <5>3. Limit(u, pub, i) = IF pub > target THEN pub ELSE target
          BY <5>1, <5>2 DEF Limit, Bound, MarkerFor
        <5>4. d <= pub
          BY <1>4, <2>3, <5>3
        <5> HIDE DEF n
        <5>5. Limit(s, pub, n) = pub
          BY <5>1 DEF Limit
        <5> QED BY <5>4, <5>5
      <4>3. CASE x = Len(s) + 2
        <5>1. n = Len(s) + 1 /\ i = Len(u) + 1
          BY <1>1, <1>2, <3>1, <4>3
        <5> HIDE DEF n
        <5>2. Limit(s, pub, n) = pub /\ Limit(u, pub, i) = pub
          BY <5>1 DEF Limit
        <5> QED BY <5>2
      <4>4. x <= Len(s) \/ x = Len(s) + 1 \/ x = Len(s) + 2
        <5>1. Len(s) \in Nat
          BY <1>1
        <5>2. \A k \in Nat : \A y \in 1..k + 2 : y <= k \/ y = k + 1 \/ y = k + 2
          OBVIOUS
        <5>3. x \in 1..Len(s) + 2
          BY <2>1
        <5> HIDE DEF x, n
        <5> QED BY <5>1, <5>2, <5>3
      <4> HIDE DEF x, n
      <4> QED BY <4>1, <4>2, <4>3, <4>4
    <3>3. target < d
      BY <1>4, <2>3
    <3> HIDE DEF n, x
    <3>4. PICK j \in 1..n - 1 : Delivers(s[j], d)
      BY <3>1, <3>2, <3>3 DEF NoGap
    <3>5. j \in 1..Len(s) /\ Len(c) + j \in 1..i - 1
      BY <1>1, <1>2, <3>1
    <3>6. u[Len(c) + j] = s[j]
      BY <1>3, <3>5
    <3> QED BY <3>4, <3>5, <3>6
  <2> QED BY <2>2, <2>3
<1> QED BY <1>5, <1>6

(* A snapshot of everything comes first.                                   *)
LEMMA NoGapSnapshot ==
  ASSUME NEW u, Len(u) \in Nat \ {0}, NEW last \in Nat, u[1] = SnapshotAt(last),
         NEW D \in SUBSET (0..last), NEW start \in Nat, NEW pub
  PROVE  NoGap(u, D, start, pub)
<1> SUFFICES ASSUME NEW i \in 1..Len(u) + 1, NEW d \in D, start < d, d <= Limit(u, pub, i)
             PROVE  \E j \in 1..i - 1 : Delivers(u[j], d)
  BY DEF NoGap
<1>1. d \in Nat /\ d <= last
  OBVIOUS
<1>2. i # 1
  <2>1. i = 1 => Limit(u, pub, i) = 0
    BY DEF Limit, Bound, SnapshotAt
  <2> QED BY <1>1, <2>1
<1>3. 1 \in 1..i - 1
  BY <1>2
<1> QED BY <1>1, <1>3 DEF Delivers, SnapshotAt

(* What a client that is further ahead lacks is delivered as well.         *)
LEMMA NoGapAhead ==
  ASSUME NEW s, Len(s) \in Nat, NEW D \in SUBSET Nat, NEW start \in Nat, NEW next \in Nat,
         NEW pub, NoGap(s, D, start, pub), start <= next
  PROVE  NoGap(s, D, next, pub)
<1> SUFFICES ASSUME NEW i \in 1..Len(s) + 1, NEW d \in D, next < d, d <= Limit(s, pub, i)
             PROVE  \E j \in 1..i - 1 : Delivers(s[j], d)
  BY DEF NoGap
<1>1. start < d
  OBVIOUS
<1> QED BY <1>1 DEF NoGap

LEMMA NoGapEmpty ==
  ASSUME NEW D \in SUBSET Nat, NEW start \in Nat
  PROVE  NoGap(<<>>, D, start, 0)
<1>1. Len(<<>>) = 0
  BY EmptySeq
<1> QED BY <1>1 DEF NoGap, Limit

(* The queue o of ended streams, and what stays of the stream w \o b that   *)
(* ends now.                                                               *)
LEMMA NoGapQueued ==
  ASSUME NEW T, NEW o \in Seq(T), NEW w \in Seq(T), NEW b \in Seq(T), NEW n \in 0..Len(w),
         NEW D \in SUBSET Nat, NEW start \in Nat, NEW pub, NoGap(o, D, start, 0),
         n # 0 => NoGap(w \o b, D, start, pub)
  PROVE  NoGap(o \o SubSeq(w, 1, n), D, start, 0)
<1> DEFINE q == o \o SubSeq(w, 1, n)
           s == w \o b
<1>1. /\ Len(o) \in Nat /\ Len(q) = Len(o) + n
      /\ \A i \in 1..Len(o) : q[i] = o[i]
      /\ \A i \in 1..n : q[Len(o) + i] = w[i] /\ i \in 1..Len(w)
  BY QueuedItems
<1>2. Len(w) \in Nat /\ Len(b) \in Nat
  BY LenProperties
<1>3. Len(s) = Len(w) + Len(b) /\ \A i \in 1..Len(w) + Len(b) : s[i] = IF i <= Len(w) THEN w[i] ELSE b[i - Len(w)]
  BY ConcatProperties
<1> HIDE DEF q, s
<1>4. \A i \in 1..n : q[Len(o) + i] = s[i] /\ i \in 1..Len(s)
  <2> SUFFICES ASSUME NEW i \in 1..n PROVE q[Len(o) + i] = s[i] /\ i \in 1..Len(s)
    OBVIOUS
  <2>1. i \in 1..Len(w) /\ i \in 1..Len(w) + Len(b) /\ i <= Len(w)
    BY <1>2
  <2> QED BY <1>1, <1>3, <2>1
<1> SUFFICES ASSUME NEW i \in 1..Len(q) + 1, NEW d \in D, start < d, d <= Limit(q, 0, i)
             PROVE  \E j \in 1..i - 1 : Delivers(q[j], d)
  BY DEF NoGap, q
<1>5. i # Len(q) + 1 /\ i \in 1..Len(o) + n /\ i \in Nat
  <2>1. i = Len(q) + 1 => Limit(q, 0, i) = 0
    BY DEF Limit
  <2>2. d \in Nat /\ 0 < d
    OBVIOUS
  <2> QED BY <1>1, <2>1, <2>2
<1>6. CASE i \in 1..Len(o)
  <2>1. Limit(o, 0, i) = Limit(q, 0, i) /\ i \in 1..Len(o) + 1
    <3>1. i # Len(o) + 1 /\ i \in 1..Len(o) + 1 /\ q[i] = o[i] /\ i # Len(q) + 1
      BY <1>1, <1>5, <1>6
    <3> QED BY <3>1 DEF Limit
  <2>2. PICK j \in 1..i - 1 : Delivers(o[j], d)
    BY <2>1 DEF NoGap
  <2>3. q[j] = o[j]
    BY <1>1, <1>6
  <2> QED BY <2>2, <2>3
<1>7. CASE i \notin 1..Len(o)
  <2> DEFINE k == i - Len(o)
  <2>1. k \in 1..n /\ i = Len(o) + k
    BY <1>1, <1>5, <1>7
  <2> HIDE DEF k
  <2>2. q[i] = s[k] /\ k \in 1..Len(s) /\ k # Len(s) + 1 /\ k \in 1..Len(s) + 1
    BY <1>2, <1>3, <1>4, <2>1
  <2>3. Limit(s, pub, k) = Limit(q, 0, i)
    BY <1>5, <2>2 DEF Limit
  <2>4. NoGap(s, D, start, pub)
    BY <2>1 DEF s
  <2>5. PICK j \in 1..k - 1 : Delivers(s[j], d)
    BY <2>2, <2>3, <2>4 DEF NoGap
  <2>6. j \in 1..n /\ Len(o) + j \in 1..i - 1
    BY <1>1, <2>1
  <2> QED BY <1>4, <2>5, <2>6
<1> QED BY <1>6, <1>7

(* Sequences w and b, one after the other.                                 *)
LEMMA HeadMovesOver ==
  ASSUME NEW T, NEW w \in Seq(T), NEW b \in Seq(T), b # <<>>
  PROVE  Append(w, Head(b)) \o Tail(b) = w \o b
<1> DEFINE h == Head(b)
           t == Tail(b)
           v == Append(w, h)
           l == v \o t
           r == w \o b
<1>1. /\ h \in T /\ t \in Seq(T) /\ Len(t) = Len(b) - 1 /\ Len(b) \in Nat \ {0}
      /\ h = b[1] /\ \A i \in 1..Len(t) : t[i] = b[i + 1]
  BY HeadTailProperties, EmptySeq
<1>2. Len(w) \in Nat
  BY LenProperties
<1> HIDE DEF h, t
<1>3. v \in Seq(T) /\ Len(v) = Len(w) + 1 /\ v[Len(w) + 1] = h /\ \A i \in 1..Len(w) : v[i] = w[i]
  BY <1>1, AppendProperties
<1> HIDE DEF v
<1>4. l \in Seq(T) /\ Len(l) = Len(v) + Len(t)
      /\ \A i \in 1..Len(v) + Len(t) : l[i] = IF i <= Len(v) THEN v[i] ELSE t[i - Len(v)]
  BY <1>1, <1>3, ConcatProperties
<1>5. r \in Seq(T) /\ Len(r) = Len(w) + Len(b)
      /\ \A i \in 1..Len(w) + Len(b) : r[i] = IF i <= Len(w) THEN w[i] ELSE b[i - Len(w)]
  BY ConcatProperties
<1> HIDE DEF l, r
<1>6. Len(l) = Len(r)
  BY <1>1, <1>2, <1>3, <1>4, <1>5
<1>7. ASSUME NEW i \in 1..Len(l) PROVE l[i] = r[i]
  <2>1. i \in Nat /\ i \in 1..Len(v) + Len(t) /\ i \in 1..Len(w) + Len(b)
    BY <1>1, <1>2, <1>3, <1>4, <1>5, <1>6
  <2>2. CASE i <= Len(w)
    <3>1. i \in 1..Len(w) /\ i <= Len(v)
      BY <1>2, <1>3, <2>1, <2>2
    <3> QED BY <1>3, <1>4, <1>5, <2>1, <2>2, <3>1
  <2>3. CASE i = Len(w) + 1
    <3>1. i <= Len(v) /\ ~(i <= Len(w)) /\ i - Len(w) = 1
      BY <1>2, <1>3, <2>3
    <3>2. l[i] = h /\ r[i] = b[1]
      BY <1>3, <1>4, <1>5, <2>1, <2>3, <3>1
    <3> QED BY <1>1, <3>2
  <2>4. CASE i > Len(w) + 1
    <3>1. /\ ~(i <= Len(v)) /\ ~(i <= Len(w)) /\ i - Len(v) \in 1..Len(t)
          /\ (i - Len(v)) + 1 = i - Len(w)
      BY <1>1, <1>2, <1>3, <2>1, <2>4
    <3>2. l[i] = t[i - Len(v)] /\ r[i] = b[i - Len(w)]
      BY <1>4, <1>5, <2>1, <3>1
    <3>3. t[i - Len(v)] = b[(i - Len(v)) + 1]
      BY <1>1, <3>1
    <3> QED BY <3>1, <3>2, <3>3, Zenon
  <2> QED BY <1>2, <2>1, <2>2, <2>3, <2>4
<1>8. l = r
  BY <1>4, <1>5, <1>6, <1>7, SeqEqual
<1> QED BY <1>8 DEF l, r, v, h, t

LEMMA TailOfFirst ==
  ASSUME NEW T, NEW w \in Seq(T), NEW b \in Seq(T), w # <<>>
  PROVE  w \o b # <<>> /\ (w \o b)[1] = Head(w) /\ Tail(w) \o b = Tail(w \o b)
<1> DEFINE t == Tail(w)
           s == w \o b
           l == t \o b
           r == Tail(s)
<1>1. /\ t \in Seq(T) /\ Len(t) = Len(w) - 1 /\ Len(w) \in Nat \ {0}
      /\ Head(w) = w[1] /\ \A i \in 1..Len(t) : t[i] = w[i + 1]
  BY HeadTailProperties, EmptySeq
<1>2. Len(b) \in Nat
  BY LenProperties
<1> HIDE DEF t
<1>3. s \in Seq(T) /\ Len(s) = Len(w) + Len(b)
      /\ \A i \in 1..Len(w) + Len(b) : s[i] = IF i <= Len(w) THEN w[i] ELSE b[i - Len(w)]
  BY ConcatProperties
<1>4. l \in Seq(T) /\ Len(l) = Len(t) + Len(b)
      /\ \A i \in 1..Len(t) + Len(b) : l[i] = IF i <= Len(t) THEN t[i] ELSE b[i - Len(t)]
  BY <1>1, ConcatProperties
<1> HIDE DEF s, l
<1>5. s # <<>> /\ Len(s) \in Nat
  <2>1. Len(<<>>) = 0
    OBVIOUS
  <2> QED BY <1>1, <1>2, <1>3, <2>1
<1>6. s[1] = w[1]
  <2>1. 1 \in 1..Len(w) + Len(b) /\ 1 <= Len(w)
    BY <1>1, <1>2
  <2> QED BY <1>3, <2>1
<1>7. r \in Seq(T) /\ Len(r) = Len(s) - 1 /\ \A i \in 1..Len(r) : r[i] = s[i + 1]
  BY <1>3, <1>5, HeadTailProperties
<1> HIDE DEF r
<1>8. Len(l) = Len(r)
  BY <1>1, <1>2, <1>3, <1>4, <1>7
<1>9. ASSUME NEW i \in 1..Len(l) PROVE l[i] = r[i]
  <2>1. i \in Nat /\ i \in 1..Len(t) + Len(b) /\ i + 1 \in 1..Len(w) + Len(b) /\ r[i] = s[i + 1]
    BY <1>1, <1>2, <1>3, <1>4, <1>7, <1>8
  <2>2. CASE i <= Len(t)
    <3>1. i \in 1..Len(t) /\ i + 1 <= Len(w)
      BY <1>1, <2>1, <2>2
    <3> QED BY <1>1, <1>3, <1>4, <2>1, <2>2, <3>1
  <2>3. CASE ~(i <= Len(t))
    <3>1. ~(i + 1 <= Len(w)) /\ (i + 1) - Len(w) = i - Len(t)
      BY <1>1, <2>1, <2>3
    <3>2. l[i] = b[i - Len(t)] /\ s[i + 1] = b[(i + 1) - Len(w)]
      BY <1>3, <1>4, <2>1, <2>3, <3>1
    <3> QED BY <2>1, <3>1, <3>2, Zenon
  <2> QED BY <2>2, <2>3
<1>10. l = r
  BY <1>4, <1>7, <1>8, <1>9, SeqEqual
<1> QED BY <1>1, <1>5, <1>6, <1>10 DEF l, r, s, t

LEMMA AppendToSecond ==
  ASSUME NEW T, NEW w \in Seq(T), NEW b \in Seq(T), NEW e \in T
  PROVE  w \o Append(b, e) = Append(w \o b, e)
<1> DEFINE c == Append(b, e)
           s == w \o b
           l == w \o c
           r == Append(s, e)
<1>1. Len(b) \in Nat /\ Len(w) \in Nat
  BY LenProperties
<1>2. c \in Seq(T) /\ Len(c) = Len(b) + 1 /\ c[Len(b) + 1] = e /\ \A i \in 1..Len(b) : c[i] = b[i]
  BY AppendProperties
<1> HIDE DEF c
<1>3. s \in Seq(T) /\ Len(s) = Len(w) + Len(b)
      /\ \A i \in 1..Len(w) + Len(b) : s[i] = IF i <= Len(w) THEN w[i] ELSE b[i - Len(w)]
  BY ConcatProperties
<1>4. l \in Seq(T) /\ Len(l) = Len(w) + Len(c)
      /\ \A i \in 1..Len(w) + Len(c) : l[i] = IF i <= Len(w) THEN w[i] ELSE c[i - Len(w)]
  BY <1>2, ConcatProperties
<1> HIDE DEF s, l
<1>5. r \in Seq(T) /\ Len(r) = Len(s) + 1 /\ r[Len(s) + 1] = e /\ \A i \in 1..Len(s) : r[i] = s[i]
  <2>1. s \in Seq(T)
    BY <1>3
  <2> QED BY <2>1, AppendProperties
<1> HIDE DEF r
<1>6. Len(l) = Len(r)
  BY <1>1, <1>2, <1>3, <1>4, <1>5
<1>7. ASSUME NEW i \in 1..Len(l) PROVE l[i] = r[i]
  <2>1. i \in Nat /\ i \in 1..Len(w) + Len(c)
    BY <1>1, <1>2, <1>4
  <2>2. CASE i <= Len(w)
    <3>1. i \in 1..Len(w) + Len(b) /\ i \in 1..Len(s)
      BY <1>1, <1>3, <2>1, <2>2
    <3> QED BY <1>3, <1>4, <1>5, <2>1, <2>2, <3>1
  <2>3. CASE i > Len(w) /\ i <= Len(w) + Len(b)
    <3>1. /\ i \in 1..Len(w) + Len(b) /\ i \in 1..Len(s) /\ ~(i <= Len(w))
          /\ i - Len(w) \in 1..Len(b)
      BY <1>1, <1>3, <2>1, <2>3
    <3>2. l[i] = c[i - Len(w)] /\ r[i] = b[i - Len(w)]
      BY <1>3, <1>4, <1>5, <2>1, <3>1
    <3> QED BY <1>2, <3>1, <3>2
  <2>4. CASE i = Len(w) + Len(b) + 1
    <3>1. ~(i <= Len(w)) /\ i - Len(w) = Len(b) + 1 /\ i = Len(s) + 1
      BY <1>1, <1>3, <2>4
    <3>2. l[i] = c[Len(b) + 1]
      BY <1>4, <2>1, <3>1
    <3> QED BY <1>2, <1>5, <3>1, <3>2
  <2> QED BY SMTT(40), <1>1, <1>2, <2>1, <2>2, <2>3, <2>4
<1>8. l = r
  BY <1>4, <1>5, <1>6, <1>7, SeqEqual
<1> QED BY <1>8 DEF l, r, s, c

Stream == wire \o sub.buffer

(* A snapshot can only be the first item of a stream, it is not behind the *)
(* client nor behind what the client has queued before it, and a client    *)
(* without data is sent one.                                               *)
Ahead(item) ==
    /\ client.cursor <= item.seq
    /\ \A j \in 1..Len(old) : old[j].seq <= item.seq
SnapshotFirst ==
    /\ \A i \in 1..Len(Stream) : Stream[i].kind = "snapshot" => i = 1 /\ Ahead(Stream[i])
    /\ ~client.data /\ client.pending = Nothing =>
          IF old # <<>> THEN old[1].kind = "snapshot"
          ELSE sub.phase = "live" => Stream # <<>> /\ Stream[1].kind = "snapshot"

(* The client, or the catch-up that is still to be sent, reaches Start.    *)
Start == IF sub.phase = "replay" THEN sub.target ELSE client.cursor
GapFree ==
    slips = {} /\ sub.phase \in {"replay", "live"} =>
        NoGap(Stream, Details, Start, published)
OldGapFree == slips = {} => NoGap(old, Details, client.cursor, 0)

LEMMA StreamType ==
  ASSUME TypeInv
  PROVE  /\ wire \in Seq(SentItems) /\ sub.buffer \in Seq(SentItems)
         /\ Stream \in Seq(SentItems) /\ Len(Stream) \in Nat
         /\ Details \in SUBSET (0..Len(log)) /\ Details \in SUBSET Nat
         /\ Len(log) \in Nat /\ published \in Nat /\ published <= Len(log)
         /\ old \in Seq(SentItems) /\ Len(old) \in Nat
         /\ sub.target \in 0..Len(log) /\ sub.after \in 0..Len(log) /\ client.cursor \in 0..Len(log)
         /\ Start \in Nat
<1>1. LogInv /\ SubInv /\ ClientInv /\ WireInv
  BY DEF TypeInv
<1>2. wire \in Seq(SentItems) /\ sub.buffer \in Seq(BufferItems)
  BY <1>1 DEF WireInv, SubInv
<1>3. BufferItems \subseteq SentItems
  BY DEF SentItems
<1>4. sub.buffer \in Seq(SentItems)
  BY <1>2, <1>3, SeqMonotonic
<1>5. Stream \in Seq(SentItems)
  BY <1>2, <1>4, ConcatProperties DEF Stream
<1>6. Len(Stream) \in Nat
  BY <1>5, LenProperties
<1>7. Len(log) \in Nat /\ published \in Nat /\ published <= Len(log)
  BY <1>1 DEF LogInv
<1>8. Details \in SUBSET (0..Len(log)) /\ Details \in SUBSET Nat
  BY <1>7 DEF Details
<1>9. sub.target \in 0..Len(log) /\ sub.after \in 0..Len(log) /\ client.cursor \in 0..Len(log)
  BY <1>1 DEF SubInv, ClientInv
<1>10. Start \in Nat
  BY <1>7, <1>9 DEF Start
<1>11. old \in Seq(SentItems) /\ Len(old) \in Nat
  BY <1>1, LenProperties DEF WireInv
<1> QED BY <1>2, <1>4, <1>5, <1>6, <1>7, <1>8, <1>9, <1>10, <1>11

(* What the steps do to the stream.                                        *)
LEMMA StreamKept ==
  ASSUME TypeInv, \/ wire' = wire /\ sub'.buffer = sub.buffer
                  \/ SendBuffered
  PROVE  Stream' = Stream
<1>1. CASE wire' = wire /\ sub'.buffer = sub.buffer
  BY <1>1 DEF Stream
<1>2. CASE SendBuffered
  <2>1. /\ sub.buffer # <<>> /\ wire' = Append(wire, Head(sub.buffer))
        /\ sub'.buffer = Tail(sub.buffer)
    BY <1>2 DEF SendBuffered, TypeInv, SubInv
  <2>2. wire \in Seq(SentItems) /\ sub.buffer \in Seq(SentItems)
    BY StreamType
  <2>3. Append(wire, Head(sub.buffer)) \o Tail(sub.buffer) = wire \o sub.buffer
    BY <2>1, <2>2, HeadMovesOver
  <2> QED BY <2>1, <2>3 DEF Stream
<1> QED BY <1>1, <1>2

LEMMA StreamTaken ==
  ASSUME TypeInv, wire # <<>>, wire' = Tail(wire), sub' = sub
  PROVE  Stream # <<>> /\ Stream[1] = Head(wire) /\ Stream' = Tail(Stream)
<1>1. wire \in Seq(SentItems) /\ sub.buffer \in Seq(SentItems)
  BY StreamType
<1>2. /\ wire \o sub.buffer # <<>> /\ (wire \o sub.buffer)[1] = Head(wire)
      /\ Tail(wire) \o sub.buffer = Tail(wire \o sub.buffer)
  BY <1>1, TailOfFirst
<1> QED BY <1>2 DEF Stream

LEMMA StreamExtended ==
  ASSUME TypeInv, Publish
  PROVE  /\ published' = published + 1 /\ published' \in 1..Len(log)
         /\ \/ /\ sub.attached /\ published' \in Details
               /\ sub'.buffer = Append(sub.buffer, EventAt(published'))
               /\ Stream' = Append(Stream, EventAt(published')) /\ EventAt(published') \in SentItems
            \/ /\ sub' = sub /\ Stream' = Stream
               /\ sub.attached => published' \notin Details
<1>1. /\ published' = published + 1 /\ wire' = wire /\ published' \in 1..Len(log)
      /\ sub' = IF sub.attached /\ log[published'] = "detail"
                THEN [sub EXCEPT !.buffer = Append(@, EventAt(published'))] ELSE sub
  BY DEF Publish, Feed!PublishNext, TypeInv, LogInv
<1>2. published' \in Details <=> log[published'] = "detail"
  BY <1>1 DEF Details
<1>3. CASE ~(sub.attached /\ log[published'] = "detail")
  BY <1>1, <1>2, <1>3 DEF Stream
<1>4. CASE sub.attached /\ log[published'] = "detail"
  <2>1. sub'.buffer = Append(sub.buffer, EventAt(published'))
    BY <1>1, <1>4 DEF TypeInv, SubInv
  <2>2. EventAt(published') \in SentItems
    BY <1>2, <1>4 DEF SentItems, BufferItems
  <2>3. wire \in Seq(SentItems) /\ sub.buffer \in Seq(SentItems)
    BY StreamType
  <2>4. wire \o Append(sub.buffer, EventAt(published')) = Append(wire \o sub.buffer, EventAt(published'))
    <3> DEFINE e == EventAt(published')
    <3>1. e \in SentItems
      BY <2>2
    <3> HIDE DEF e, SentItems
    <3>2. wire \o Append(sub.buffer, e) = Append(wire \o sub.buffer, e)
      BY <2>3, <3>1, AppendToSecond
    <3> QED BY <3>2 DEF e
  <2>5. Stream' = Append(Stream, EventAt(published'))
    BY <1>1, <2>1, <2>4 DEF Stream
  <2> QED BY <1>1, <1>2, <1>4, <2>1, <2>2, <2>5
<1> QED BY <1>3, <1>4

LastMarker == MarkerFor(IF published > sub.target THEN published ELSE sub.target)
LEMMA StreamReplayed ==
  ASSUME TypeInv, PhaseInv, Replay
  PROVE  /\ Stream = sub.buffer
         /\ Stream' = CatchUp \o Append(sub.buffer, LastMarker)
         /\ CatchUp \in Seq(SentItems) /\ sub.buffer \in Seq(SentItems) /\ LastMarker \in SentItems
         /\ \A i \in 1..Len(sub.buffer) : sub.buffer[i].kind = "event"
         /\ sub'.phase = "live" /\ client.data /\ sub.after <= sub.target
         /\ slips = {} => sub.after <= client.cursor
<1>1. /\ sub.phase = "replay" /\ wire' = wire \o CatchUp /\ wire = <<>>
      /\ sub.after <= sub.target /\ client.data /\ (slips = {} => sub.after <= client.cursor)
      /\ \A i \in 1..Len(sub.buffer) : sub.buffer[i].kind = "event"
  BY DEF Replay, PhaseInv
<1>2. sub'.buffer = Append(sub.buffer, LastMarker) /\ sub'.phase = "live"
  BY DEF Replay, WithMarker, LastMarker, TypeInv, SubInv
<1>3. sub.buffer \in Seq(SentItems) /\ CatchUp \in Seq(SentItems)
  BY <1>1, StreamType, CatchUpRows
<1>4. <<>> \o CatchUp = CatchUp /\ <<>> \o sub.buffer = sub.buffer
  BY <1>3, ConcatEmptySeq
<1>5. Stream = sub.buffer
  BY <1>1, <1>4, Zenon DEF Stream
<1>6. Stream' = CatchUp \o Append(sub.buffer, LastMarker)
  BY <1>1, <1>2, <1>4, Zenon DEF Stream
<1>7. LastMarker \in SentItems
  <2>1. (IF published > sub.target THEN published ELSE sub.target) \in 0..Len(log)
    BY StreamType
  <2> QED BY <2>1 DEF LastMarker, SentItems, BufferItems
<1> QED BY <1>1, <1>2, <1>3, <1>5, <1>6, <1>7

LEMMA StreamSnapshot ==
  ASSUME TypeInv, PhaseInv, SendSnapshot
  PROVE  /\ Stream' \in Seq(SentItems) /\ Len(Stream') \in Nat \ {0}
         /\ Stream'[1] = SnapshotAt(Len(log))
         /\ \A i \in 1..Len(Stream') : i # 1 => Stream'[i].kind # "snapshot"
<1>1. sub.phase = "snapshot" /\ wire = <<>>
      /\ wire' = Append(wire, SnapshotAt(Len(log)))
      /\ \A i \in 1..Len(sub.buffer) : sub.buffer[i].kind = "event"
  BY DEF SendSnapshot, PhaseInv
<1> DEFINE m == MarkerFor(Len(log))
<1>2. sub'.buffer = Append(sub.buffer, m)
  BY DEF SendSnapshot, WithMarker, TypeInv, SubInv
<1>3. SnapshotAt(Len(log)) \in SentItems /\ m \in SentItems /\ m.kind # "snapshot"
  BY StreamType DEF SentItems, BufferItems, MarkerFor
<1> HIDE DEF m
<1>4. sub.buffer \in Seq(SentItems) /\ wire \in Seq(SentItems)
  BY StreamType
<1> DEFINE b == Append(sub.buffer, m)
           w == Append(wire, SnapshotAt(Len(log)))
           u == w \o b
<1>5. /\ b \in Seq(SentItems) /\ Len(b) = Len(sub.buffer) + 1 /\ b[Len(sub.buffer) + 1] = m
      /\ \A i \in 1..Len(sub.buffer) : b[i] = sub.buffer[i]
  BY <1>3, <1>4, AppendProperties
<1>6. w \in Seq(SentItems) /\ Len(w) = 1 /\ w[1] = SnapshotAt(Len(log))
  <2>1. Len(wire) = 0
    BY <1>1
  <2> DEFINE e == SnapshotAt(Len(log))
  <2>2. e \in SentItems
    BY <1>3
  <2> HIDE DEF e, SentItems
  <2>3. Append(wire, e) \in Seq(SentItems) /\ Len(Append(wire, e)) = Len(wire) + 1 /\ Append(wire, e)[Len(wire) + 1] = e
    BY <1>4, <2>2, AppendProperties
  <2> QED BY <2>1, <2>3 DEF e
<1>7. Len(sub.buffer) \in Nat
  BY <1>4, LenProperties
<1> HIDE DEF b, w
<1>8. /\ u \in Seq(SentItems) /\ Len(u) = Len(w) + Len(b)
      /\ \A i \in 1..Len(w) + Len(b) : u[i] = IF i <= Len(w) THEN w[i] ELSE b[i - Len(w)]
  BY <1>5, <1>6, ConcatProperties
<1>9. Stream' = u
  BY <1>1, <1>2 DEF Stream, b, w
<1> HIDE DEF u
<1>10. Len(u) = Len(sub.buffer) + 2 /\ Len(u) \in Nat \ {0} /\ u[1] = SnapshotAt(Len(log))
  <2>1. 1 \in 1..Len(w) + Len(b) /\ 1 <= Len(w)
    BY <1>5, <1>6, <1>7
  <2>2. u[1] = w[1]
    BY <1>8, <2>1
  <2> QED BY <1>5, <1>6, <1>7, <1>8, <2>2
<1>11. ASSUME NEW i \in 1..Len(u), i # 1 PROVE u[i].kind # "snapshot"
  <2>1. /\ i \in 1..Len(w) + Len(b) /\ ~(i <= Len(w)) /\ i - Len(w) = i - 1
        /\ i - 1 \in 1..Len(sub.buffer) \/ i - 1 = Len(sub.buffer) + 1
    BY <1>5, <1>6, <1>7, <1>10, <1>11
  <2>2. u[i] = b[i - 1]
    BY <1>8, <2>1
  <2>3. CASE i - 1 \in 1..Len(sub.buffer)
    <3>1. u[i] = sub.buffer[i - 1] /\ sub.buffer[i - 1].kind = "event"
      BY <1>1, <1>5, <2>2, <2>3
    <3> QED BY <3>1
  <2>4. CASE i - 1 = Len(sub.buffer) + 1
    <3>1. u[i] = m
      BY <1>5, <2>2, <2>4
    <3> QED BY <1>3, <3>1
  <2> QED BY <2>1, <2>3, <2>4
<1> QED BY <1>1, <1>8, <1>9, <1>10, <1>11

LEMMA InitSnapshotFirst ==
  Init => SnapshotFirst
<1> SUFFICES ASSUME Init PROVE SnapshotFirst
  OBVIOUS
<1>1. wire = <<>> /\ old = <<>> /\ sub.buffer = <<>> /\ sub.phase = "off"
  BY DEF Init, NoSubscription
<1>2. <<>> \o <<>> = <<>> /\ Len(<<>>) = 0
  BY EmptySeq, ConcatEmptySeq
<1>3. Stream = <<>>
  BY <1>1, <1>2, Zenon DEF Stream
<1> QED BY <1>1, <1>2, <1>3 DEF SnapshotFirst

(* A client without data starts with a snapshot, be it one of an ended     *)
(* stream.                                                                 *)
LEMMA FirstIsSnapshot ==
  ASSUME TypeInv, PhaseInv, SnapshotFirst, ~client.data, client.pending = Nothing,
         NEW item, \/ old # <<>> /\ item = Head(old)
                   \/ old = <<>> /\ wire # <<>> /\ item = Head(wire)
  PROVE  item.kind = "snapshot"
<1>1. CASE old # <<>> /\ item = Head(old)
  BY <1>1, StreamType, HeadTailProperties DEF SnapshotFirst
<1>2. CASE old = <<>> /\ wire # <<>> /\ item = Head(wire)
  <2>1. wire \in Seq(SentItems) /\ sub.buffer \in Seq(SentItems) /\ sub.phase = "live"
    BY <1>2, StreamType DEF PhaseInv
  <2>2. Stream[1] = Head(wire)
    BY <1>2, <2>1, TailOfFirst DEF Stream
  <2> QED BY <1>2, <2>1, <2>2 DEF SnapshotFirst
<1> QED BY <1>1, <1>2

LEMMA NextSnapshotFirst ==
  ASSUME TypeInv, PhaseInv, SnapshotFirst, Next PROVE SnapshotFirst'
<1>1. /\ SubInv /\ WireInv /\ ClientInv /\ Stream \in Seq(SentItems) /\ Len(Stream) \in Nat
      /\ old \in Seq(SentItems) /\ Len(old) \in Nat /\ LogInv
      /\ client.cursor \in 0..Len(log) /\ Len(log) \in Nat
  BY StreamType DEF TypeInv
<1>0. Nothing' = Nothing
  BY DEF Nothing
<1>2. ASSUME Stream' = Stream, old' = old, sub'.phase = "live" => sub.phase = "live",
             client'.cursor = client.cursor,
             ~client'.data /\ client'.pending = Nothing => ~client.data /\ client.pending = Nothing
      PROVE  SnapshotFirst'
  BY <1>0, <1>2 DEF SnapshotFirst, Ahead
<1>3. ASSUME wire' = <<>>, sub'.buffer = <<>>, sub'.phase # "live",
             ~client'.data /\ client'.pending = Nothing /\ old' # <<>> => old'[1].kind = "snapshot"
      PROVE  SnapshotFirst'
  <2>1. <<>> \o <<>> = <<>> /\ Len(<<>>) = 0
    BY EmptySeq, ConcatEmptySeq
  <2>2. Stream' = <<>>
    BY <1>3, <2>1, Zenon DEF Stream
  <2> QED BY <1>0, <1>3, <2>1, <2>2 DEF SnapshotFirst
<1>4. ASSUME NEW batch \in Batches, Commit(batch) PROVE SnapshotFirst'
  BY <1>2, <1>4, StreamKept DEF Commit, clientVars
<1>5. CASE AdvanceHead \/ Persist
  BY <1>2, <1>5, StreamKept DEF AdvanceHead, Persist, clientVars
<1>6. CASE Attach \/ ReadHead
  <2>1. /\ sub'.buffer = sub.buffer
        /\ sub'.phase = "live" => sub.phase = "live"
        /\ wire' = wire /\ client' = client /\ old' = old
    <3>1. CASE Attach
      BY <1>1, <3>1 DEF Attach, SubInv, clientVars
    <3>2. CASE ReadHead
      <4>1. sub' = [sub EXCEPT !.phase = "replay", !.target = head]
            \/ sub' = [sub EXCEPT !.phase = "snapshot"]
        BY <3>2 DEF ReadHead
      <4> QED BY <1>1, <3>2, <4>1 DEF ReadHead, SubInv, clientVars
    <3> QED BY <1>6, <3>1, <3>2
  <2> QED BY <1>2, <2>1, StreamKept
<1>7. CASE SendBuffered
  <2>1. sub.phase = "live" /\ client' = client /\ old' = old
    BY <1>7 DEF SendBuffered, clientVars
  <2> QED BY <1>2, <1>7, <2>1, StreamKept
<1>8. CASE ApplyPending
  <2>1. client'.data /\ client'.cursor = client.cursor
    BY <1>1, <1>8 DEF ApplyPending, ClientInv
  <2> QED BY <1>2, <1>8, <2>1, StreamKept DEF ApplyPending
<1>9. CASE Subscribe \/ LoadHttpSnapshot \/ MissHttpSnapshot
  <2>1. \A phase, cursor : Request(phase, cursor).phase = phase /\ Request(phase, cursor).buffer = <<>>
    BY DEF Request, NoSubscription
  <2>2. wire' = wire /\ wire = <<>> /\ old' = old /\ sub'.buffer = <<>>
    BY <1>9, <2>1 DEF Subscribe, LoadHttpSnapshot, MissHttpSnapshot, clientVars, PhaseInv
  <2>3. sub'.phase # "live"
    BY <1>9, <2>1 DEF Subscribe, LoadHttpSnapshot, MissHttpSnapshot
  <2>4. ~client'.data => ~client.data /\ client'.pending = client.pending
    BY <1>1, <1>9 DEF Subscribe, LoadHttpSnapshot, MissHttpSnapshot, clientVars, ClientInv
  <2> QED BY <1>3, <2>2, <2>3, <2>4 DEF SnapshotFirst
<1>10. CASE LoseSession \/ RestartServer \/ Close \/ Kill
  <2>1. wire' = <<>> /\ sub' = NoSubscription
    BY <1>10 DEF LoseSession, RestartServer, Close, Kill, Break
  <2>2. ASSUME LoseSession \/ RestartServer, ~client'.data, client'.pending = Nothing, old' # <<>>
        PROVE  old'[1].kind = "snapshot"
    <3>1. ~client.data /\ client.pending = Nothing
      BY <1>1, <2>2 DEF LoseSession, RestartServer, ClientInv
    <3>2. PICK n \in 0..Len(wire) : old' = old \o SubSeq(wire, 1, n)
      BY <2>2 DEF LoseSession, RestartServer, KeepQueued
    <3>0. wire \in Seq(SentItems) /\ old \in Seq(SentItems)
      BY StreamType
    <3> HIDE DEF SentItems
    <3>3. /\ Len(old') = Len(old) + n
          /\ \A i \in 1..Len(old) : old'[i] = old[i]
          /\ \A i \in 1..n : old'[Len(old) + i] = wire[i] /\ i \in 1..Len(wire)
      <4> DEFINE q == old \o SubSeq(wire, 1, n)
      <4>1. /\ Len(q) = Len(old) + n
            /\ \A i \in 1..Len(old) : q[i] = old[i]
            /\ \A i \in 1..n : q[Len(old) + i] = wire[i] /\ i \in 1..Len(wire)
        BY <3>0, QueuedItems
      <4>2. old' = q
        BY <3>2
      <4> HIDE DEF q
      <4> QED BY <4>1, <4>2
    <3>4. CASE old # <<>>
      <4>1. 1 \in 1..Len(old)
        BY <1>1, <3>4, EmptySeq
      <4> QED BY <3>1, <3>3, <3>4, <4>1 DEF SnapshotFirst
    <3>5. CASE old = <<>>
      <4>1. Len(old) = 0 /\ n \in 1..Len(wire) /\ Len(wire) \in Nat
        <5>1. Len(old') # 0 /\ Len(old) = 0
          BY <2>2, <3>3, <3>5, EmptySeq
        <5> QED BY <3>0, <3>3, <5>1, LenProperties
      <4>2. old'[1] = wire[1] /\ wire # <<>>
        BY <3>3, <4>1, EmptySeq
      <4>3. wire[1] = Head(wire)
        BY <3>0, <4>2, HeadTailProperties
      <4> QED BY <3>1, <3>5, <4>2, <4>3, FirstIsSnapshot
    <3> QED BY <3>4, <3>5
  <2>3. Close \/ Kill => old' = <<>>
    BY DEF Close, Kill
  <2> QED BY <1>3, <1>10, <2>1, <2>2, <2>3 DEF NoSubscription
<1>11. CASE Publish
  <2>1. sub'.phase = sub.phase /\ client' = client /\ old' = old
    BY <1>1, <1>11 DEF Publish, SubInv, clientVars
  <2>2. CASE Stream' = Stream
    BY <1>2, <2>1, <2>2
  <2>3. CASE Stream' # Stream
    <3> DEFINE e == EventAt(published')
    <3>1. e.kind = "event"
      BY DEF EventAt
    <3>2. Stream' = Append(Stream, e) /\ e \in SentItems
      BY <1>11, <2>3, StreamExtended
    <3> HIDE DEF e
    <3>3. /\ Len(Stream') = Len(Stream) + 1 /\ Stream'[Len(Stream) + 1] = e
          /\ \A i \in 1..Len(Stream) : Stream'[i] = Stream[i]
      BY <1>1, <3>2, AppendProperties
    <3>4. ASSUME NEW i \in 1..Len(Stream'), Stream'[i].kind = "snapshot"
          PROVE  i = 1 /\ Ahead(Stream'[i])
      <4>1. i \in 1..Len(Stream) \/ i = Len(Stream) + 1
        BY <1>1, <3>3
      <4>2. i \in 1..Len(Stream)
        BY <3>1, <3>3, <3>4, <4>1
      <4>3. Stream'[i] = Stream[i]
        BY <3>3, <4>2
      <4> QED BY <3>4, <4>2, <4>3 DEF SnapshotFirst
    <3>5. \A item : Ahead(item) => (Ahead(item))'
      BY <2>1 DEF Ahead
    <3>6. ASSUME sub'.phase = "live", ~client'.data, client'.pending = Nothing, old' = <<>>
          PROVE  Stream' # <<>> /\ Stream'[1].kind = "snapshot"
      <4>1. Stream # <<>> /\ Stream[1].kind = "snapshot"
        BY <2>1, <3>6 DEF SnapshotFirst
      <4>2. 1 \in 1..Len(Stream) /\ Len(<<>>) = 0
        BY <1>1, <4>1, EmptySeq
      <4>3. Stream'[1] = Stream[1] /\ Len(Stream') # 0
        BY <1>1, <3>3, <4>2
      <4> QED BY <4>1, <4>2, <4>3
    <3>7. ~client'.data /\ client'.pending = Nothing /\ old' # <<>> => old'[1].kind = "snapshot"
      BY <2>1 DEF SnapshotFirst
    <3>8. \A i \in 1..Len(Stream') : Stream'[i].kind = "snapshot" => i = 1 /\ (Ahead(Stream[i]))'
      BY <2>1, <3>4 DEF Ahead
    <3> QED BY <1>0, <3>6, <3>7, <3>8 DEF SnapshotFirst
  <2> QED BY <2>2, <2>3
<1>12. CASE Receive
  <2>1. PICK item \in SentItems :
            /\ Takes(item) /\ client.pending = Nothing /\ sub' = sub
            /\ \/ old # <<>> /\ item = Head(old) /\ old' = Tail(old) /\ wire' = wire
               \/ old = <<>> /\ old' = old /\ wire # <<>> /\ item = Head(wire) /\ wire' = Tail(wire)
    BY <1>12, ReceiveTakes
  <2>2. ASSUME ~client'.data, client'.pending = Nothing PROVE FALSE
    <3> HIDE DEF SentItems
    <3>1. ~client.data
      BY <1>1, <2>1, <2>2 DEF Takes, ClientInv
    <3>2. item.kind = "snapshot"
      BY <2>1, <3>1, FirstIsSnapshot
    <3>3. client'.pending = item
      BY <1>1, <2>1, <3>2 DEF Takes, ClientInv
    <3> QED BY <2>2, <3>2, <3>3 DEF Nothing
  <2>3. CASE old # <<>> /\ item = Head(old) /\ old' = Tail(old) /\ wire' = wire
    <3>1. Stream' = Stream
      BY <2>1, <2>3, StreamKept
    <3>2. /\ Len(old) \in Nat \ {0} /\ Len(old') = Len(old) - 1 /\ item = old[1]
          /\ \A i \in 1..Len(old') : old'[i] = old[i + 1]
      BY <1>1, <2>3, HeadTailProperties, EmptySeq
    <3>3. client'.cursor \in {client.cursor, item.seq}
      <4> HIDE DEF SentItems
      <4> QED BY <1>1, <2>1 DEF Takes, ClientInv
    <3>4. ASSUME NEW i \in 1..Len(Stream'), Stream'[i].kind = "snapshot"
          PROVE  i = 1 /\ (Ahead(Stream[i]))'
      <4>1. i = 1 /\ Ahead(Stream[i])
        BY <3>1, <3>4 DEF SnapshotFirst
      <4>2. client'.cursor <= Stream[i].seq
        <5>1. 1 \in 1..Len(old)
          BY <3>2
        <5> QED BY <3>2, <3>3, <4>1, <5>1 DEF Ahead
      <4>3. ASSUME NEW j \in 1..Len(old') PROVE old'[j].seq <= Stream[i].seq
        <5>1. j + 1 \in 1..Len(old) /\ old'[j] = old[j + 1]
          BY <3>2
        <5> QED BY <4>1, <5>1 DEF Ahead
      <4> QED BY <3>1, <4>1, <4>2, <4>3 DEF Ahead
    <3> QED BY <1>0, <2>2, <3>4 DEF SnapshotFirst
  <2>4. CASE old = <<>> /\ old' = old /\ wire # <<>> /\ item = Head(wire) /\ wire' = Tail(wire)
    <3>1. Stream # <<>> /\ Stream' = Tail(Stream)
      BY <2>1, <2>4, StreamTaken
    <3>2. /\ Len(Stream) \in Nat \ {0} /\ Len(Stream') = Len(Stream) - 1
          /\ \A i \in 1..Len(Stream') : Stream'[i] = Stream[i + 1]
      BY <1>1, <3>1, HeadTailProperties, EmptySeq
    <3>3. ASSUME NEW i \in 1..Len(Stream') PROVE Stream'[i].kind # "snapshot"
      <4>1. i + 1 \in 1..Len(Stream) /\ i + 1 # 1 /\ Stream'[i] = Stream[i + 1]
        BY <3>2
      <4> QED BY <4>1 DEF SnapshotFirst
    <3> QED BY <1>0, <2>2, <3>3 DEF SnapshotFirst
  <2> QED BY <2>1, <2>3, <2>4
<1>13. CASE Replay
  <2> DEFINE m == LastMarker
             b == Append(sub.buffer, m)
             c == CatchUp
  <2>1. /\ Stream' = c \o b /\ c \in Seq(SentItems) /\ sub.buffer \in Seq(SentItems) /\ m \in SentItems
        /\ \A i \in 1..Len(sub.buffer) : sub.buffer[i].kind = "event"
        /\ client.data
    BY <1>13, StreamReplayed
  <2>2. m.kind = "synchronized"
    BY DEF LastMarker, MarkerFor
  <2> HIDE DEF m
  <2>3. /\ b \in Seq(SentItems) /\ Len(b) = Len(sub.buffer) + 1 /\ b[Len(sub.buffer) + 1] = m
        /\ \A i \in 1..Len(sub.buffer) : b[i] = sub.buffer[i]
    BY <2>1, AppendProperties
  <2>4. \A i \in 1..Len(c) : c[i].kind = "event"
    <3>1. sub.after <= sub.target
      BY <1>13, StreamReplayed
    <3> DEFINE rows == DetailsBetween(sub.after, sub.target)
    <3>2. Len(c) = Len(rows) /\ \A i \in 1..Len(rows) : c[i] = EventAt(rows[i])
      BY <3>1, CatchUpRows
    <3>3. \A n : EventAt(n).kind = "event"
      BY DEF EventAt
    <3> HIDE DEF rows, c
    <3> QED BY <3>2, <3>3
  <2> HIDE DEF b, c
  <2>5. Len(sub.buffer) \in Nat /\ Len(c) \in Nat
    BY <2>1, LenProperties
  <2>6. /\ Len(c \o b) = Len(c) + Len(b)
        /\ \A i \in 1..Len(c) + Len(b) : (c \o b)[i] = IF i <= Len(c) THEN c[i] ELSE b[i - Len(c)]
    BY <2>1, <2>3, ConcatProperties
  <2>7. ASSUME NEW i \in 1..Len(c) + Len(b) PROVE (c \o b)[i].kind # "snapshot"
    <3>1. CASE i <= Len(c)
      <4>1. i \in 1..Len(c)
        BY <2>3, <2>5, <3>1
      <4>2. c[i].kind = "event" /\ (c \o b)[i] = c[i]
        BY <2>4, <2>6, <3>1, <4>1
      <4> QED BY <4>2
    <3>2. CASE ~(i <= Len(c))
      <4>1. i - Len(c) \in 1..Len(sub.buffer) \/ i - Len(c) = Len(sub.buffer) + 1
        BY <2>3, <2>5, <3>2
      <4>2. (c \o b)[i] = b[i - Len(c)]
        BY <2>6, <3>2
      <4>3. CASE i - Len(c) \in 1..Len(sub.buffer)
        <5>1. b[i - Len(c)] = sub.buffer[i - Len(c)] /\ sub.buffer[i - Len(c)].kind = "event"
          BY <2>1, <2>3, <4>3
        <5> QED BY <4>2, <5>1
      <4>4. CASE i - Len(c) = Len(sub.buffer) + 1
        <5>1. (c \o b)[i] = m
          BY <2>3, <4>2, <4>4
        <5> QED BY <2>2, <5>1
      <4> QED BY <4>1, <4>3, <4>4
    <3> QED BY <3>1, <3>2
  <2>8. ASSUME NEW i \in 1..Len(Stream') PROVE Stream'[i].kind # "snapshot"
    <3>1. i \in 1..Len(c) + Len(b) /\ Stream'[i] = (c \o b)[i]
      BY <2>1, <2>6
    <3> QED BY <2>7, <3>1
  <2>9. client' = client
    BY <1>13 DEF Replay, clientVars
  <2> QED BY <1>0, <2>1, <2>8, <2>9 DEF SnapshotFirst
<1>14. CASE SendSnapshot
  <2>1. /\ Stream' \in Seq(SentItems) /\ Len(Stream') \in Nat \ {0}
        /\ Stream'[1] = SnapshotAt(Len(log))
        /\ \A i \in 1..Len(Stream') : i # 1 => Stream'[i].kind # "snapshot"
    BY <1>14, StreamSnapshot
  <2>2. client' = client /\ old' = old
    BY <1>14 DEF SendSnapshot, clientVars
  <2>3. Stream'[1].kind = "snapshot" /\ Stream'[1].seq = Len(log) /\ Stream' # <<>>
    <3>1. Len(<<>>) = 0
      BY EmptySeq
    <3> QED BY <2>1, <3>1 DEF SnapshotAt
  <2>4. \A j \in 1..Len(old) : old[j].seq <= Len(log)
    <3>1. \A item \in SentItems : item.seq <= Len(log)
      BY <1>1, ItemKinds DEF Details
    <3>2. \A j \in 1..Len(old) : old[j] \in SentItems
      BY <1>1, ElementOfSeq
    <3> HIDE DEF SentItems
    <3> QED BY <3>1, <3>2
  <2>5. (Ahead(Stream[1]))'
    BY <1>1, <2>2, <2>3, <2>4 DEF Ahead
  <2>6. \A i \in 1..Len(Stream') : Stream'[i].kind = "snapshot" => i = 1 /\ (Ahead(Stream[i]))'
    BY <2>1, <2>5 DEF Ahead
  <2>7. ~client'.data /\ client'.pending = Nothing /\ old' # <<>> => old'[1].kind = "snapshot"
    BY <2>2 DEF SnapshotFirst
  <2> QED BY <1>0, <2>3, <2>6, <2>7 DEF SnapshotFirst
<1> QED BY <1>4, <1>5, <1>6, <1>7, <1>8, <1>9, <1>10, <1>11, <1>12, <1>13, <1>14
        DEF Next, EngineStep, HandlerStep, ClientStep, HttpStep

(* What an item delivers is behind the cursor once it is taken.            *)
LEMMA TakenIsBehind ==
  ASSUME TypeInv, NEW item \in SentItems, Takes(item), slips' = {}
  PROVE  /\ client'.cursor \in Nat /\ client.cursor <= client'.cursor
         /\ \A d \in Details : client'.cursor < d => ~Delivers(item, d)
<1>1. LogInv /\ ClientInv /\ Len(log) \in Nat /\ client.cursor \in Nat /\ \A d \in Details : d \in Nat
  BY StreamType DEF TypeInv
<1>2. item.seq \in Nat /\ item.kind \in {"synchronized", "event", "snapshot"}
  <2>1. \A n \in Details : n \in Nat
    BY <1>1
  <2> QED BY <1>1, <2>1, ItemKinds
<1> HIDE DEF SentItems, Details
<1>3. /\ item.kind = "synchronized" => \A d : ~Delivers(item, d)
      /\ item.kind = "event" => \A d : Delivers(item, d) => d = item.seq
      /\ item.kind = "snapshot" => \A d : Delivers(item, d) => d <= item.seq
  BY DEF Delivers, EventAt
<1>4. CASE item.kind = "synchronized"
  <2>1. client'.cursor = client.cursor
    BY <1>1, <1>4 DEF Takes, ClientInv
  <2> QED BY <1>1, <1>3, <1>4, <2>1
<1>5. CASE item.kind = "snapshot"
  <2>1. client'.cursor = item.seq
    BY <1>1, <1>5 DEF Takes, ClientInv
  <2>2. ~(item.seq < client.cursor)
    BY <1>5 DEF Takes
  <2> QED BY <1>1, <1>2, <1>3, <1>5, <2>1, <2>2
<1>6. CASE item.kind = "event" /\ item.seq > client.cursor
  <2>1. client'.cursor = item.seq
    BY <1>1, <1>6 DEF Takes, ClientInv
  <2> QED BY <1>1, <1>2, <1>3, <1>6, <2>1
<1>7. CASE item.kind = "event" /\ ~(item.seq > client.cursor)
  <2>1. client'.cursor = client.cursor
    BY <1>1, <1>7 DEF Takes, ClientInv
  <2> QED BY <1>1, <1>2, <1>3, <1>7, <2>1
<1> QED BY <1>2, <1>4, <1>5, <1>6, <1>7

LEMMA InitGapFree ==
  Init => GapFree /\ OldGapFree
<1> SUFFICES ASSUME Init PROVE GapFree /\ OldGapFree
  OBVIOUS
<1>1. GapFree
  BY DEF Init, GapFree, NoSubscription
<1>2. NoGap(<<>>, Details, 0, 0)
  <2>1. Details \in SUBSET Nat
    BY DEF Details
  <2> QED BY <2>1, NoGapEmpty
<1> QED BY <1>1, <1>2 DEF Init, OldGapFree, ClientFrom, NoCopy

LEMMA NextGapFree ==
  ASSUME TypeInv, PhaseInv, SnapshotFirst, GapFree, Next PROVE GapFree'
<1>1. /\ LogInv /\ SubInv /\ WireInv /\ ClientInv /\ Stream \in Seq(SentItems) /\ Len(Stream) \in Nat
      /\ Details \in SUBSET (0..Len(log)) /\ Details \in SUBSET Nat
      /\ Len(log) \in Nat /\ published \in Nat /\ published <= Len(log)
      /\ sub.target \in 0..Len(log) /\ client.cursor \in 0..Len(log)
      /\ Start \in Nat
  BY StreamType DEF TypeInv
<1>2. \A i \in 1..Len(Stream) : Stream[i] \in SentItems
  BY <1>1, ElementOfSeq
<1>3. log' = log => Details' = Details
  BY DEF Details
<1>4. slips' = {} => slips = {}
  BY SlipsStay
<1>5. ASSUME slips' = {} /\ sub'.phase \in {"replay", "live"} =>
                NoGap(Stream', Details', Start', published')
      PROVE  GapFree'
  BY <1>5 DEF GapFree
<1>6. ASSUME Stream' = Stream, log' = log, published' = published,
             sub'.phase = sub.phase, sub'.target = sub.target, client'.cursor = client.cursor
      PROVE  GapFree'
  <2>1. Start' = Start
    BY <1>6 DEF Start
  <2> QED BY <1>3, <1>4, <1>6, <2>1 DEF GapFree
<1>7. ASSUME sub'.phase \notin {"replay", "live"} PROVE GapFree'
  BY <1>7 DEF GapFree
<1>8. ASSUME NEW batch \in Batches, Commit(batch) PROVE GapFree'
  <2>1. sub' = sub /\ client' = client /\ published' = published /\ Stream' = Stream
    BY <1>8, StreamKept DEF Commit, clientVars, Feed!CommitBatch
  <2>2. Start' = Start
    BY <2>1 DEF Start
  <2>3. LogGrows
    BY <1>1, StepLogGrows
  <2>4. \A n \in Details' : n <= Len(log) => n \in Details
    BY <1>1, <2>3, StepKeepsItems
  <2>5. Details' \in SUBSET Nat
    BY DEF Details
  <2>6. \A i \in 1..Len(Stream) : Stream[i].seq \in 0..Len(log)
    <3>1. \A item \in SentItems : item.seq \in 0..Len(log)
      BY <1>1, ItemKinds
    <3> HIDE DEF SentItems, Details
    <3> QED BY <1>1, <1>2, <3>1
  <2>7. ASSUME slips = {}, sub.phase \in {"replay", "live"}
        PROVE  NoGap(Stream, Details', Start, published)
    <3>1. NoGap(Stream, Details, Start, published)
      BY <2>7 DEF GapFree
    <3> DEFINE D == Details
               E == Details'
               s == Stream
               start == Start
               last == Len(log)
    <3>2. /\ D \in SUBSET Nat /\ E \in SUBSET Nat /\ Len(s) \in Nat /\ start \in Nat /\ last \in Nat
          /\ published <= last
          /\ \A e \in E : e <= last => e \in D
          /\ NoGap(s, D, start, published)
          /\ \A i \in 1..Len(s) : s[i].seq \in 0..last
      BY <1>1, <2>4, <2>5, <2>6, <3>1
    <3> HIDE DEF D, E, s, start, last
    <3>3. NoGap(s, E, start, published)
      BY <1>1, <3>2, NoGapCommitted
    <3> QED BY <3>3 DEF D, E, s, start, last
  <2>8. slips' = {} => slips = {}
    BY <1>4
  <2> QED BY <1>5, <2>1, <2>2, <2>7, <2>8
<1>9. CASE AdvanceHead \/ Persist
  <2>1. sub' = sub /\ client' = client /\ published' = published /\ log' = log /\ wire' = wire
    BY <1>9 DEF AdvanceHead, Persist, clientVars, serverVars, Feed!AdvanceHead
  <2> QED BY <1>6, <2>1, StreamKept
<1>10. CASE Attach
  <2>1. /\ sub'.phase = sub.phase /\ sub'.buffer = sub.buffer
        /\ sub'.target = sub.target
    BY <1>1, <1>10 DEF Attach, SubInv
  <2>2. client' = client /\ published' = published /\ log' = log /\ wire' = wire
    BY <1>10 DEF Attach, serverVars, clientVars
  <2> QED BY <1>6, <2>1, <2>2, StreamKept
<1>11. CASE SendBuffered
  <2>1. sub'.phase = sub.phase /\ sub'.target = sub.target
    BY <1>1, <1>11 DEF SendBuffered, SubInv
  <2>2. client' = client /\ published' = published /\ log' = log
    BY <1>11 DEF SendBuffered, serverVars, clientVars
  <2> QED BY <1>6, <1>11, <2>1, <2>2, StreamKept
<1>12. CASE ApplyPending
  <2>1. client'.cursor = client.cursor
    BY <1>1, <1>12 DEF ApplyPending, ClientInv
  <2>2. sub' = sub /\ published' = published /\ log' = log /\ wire' = wire
    BY <1>12 DEF ApplyPending, serverVars
  <2> QED BY <1>6, <2>1, <2>2, StreamKept
<1>13. CASE Subscribe \/ LoadHttpSnapshot \/ MissHttpSnapshot
  <2>1. \A phase, cursor : Request(phase, cursor).phase = phase
    BY DEF Request, NoSubscription
  <2>2. sub'.phase \in {"load", "head", "snapshot"}
    BY <1>13, <2>1 DEF Subscribe, LoadHttpSnapshot, MissHttpSnapshot
  <2> QED BY <1>7, <2>2
<1>14. CASE LoseSession \/ RestartServer \/ Close \/ Kill
  <2>1. sub' = NoSubscription
    BY <1>14 DEF LoseSession, RestartServer, Close, Kill, Break
  <2> QED BY <1>7, <2>1 DEF NoSubscription
<1>15. CASE ReadHead
  <2>1. CASE ~Resumable
    <3>1. sub' = [sub EXCEPT !.phase = "snapshot"]
      BY <1>15, <2>1 DEF ReadHead
    <3>2. sub'.phase = "snapshot"
      BY <1>1, <3>1 DEF SubInv
    <3> QED BY <1>7, <3>2
  <2>2. CASE Resumable
    <3>1. /\ sub' = [sub EXCEPT !.phase = "replay", !.target = head]
          /\ sub.phase = "head" /\ wire' = wire /\ published' = published /\ log' = log
      BY <1>15, <2>2 DEF ReadHead, serverVars
    <3>2. sub'.phase = "replay" /\ sub'.target = head /\ sub'.buffer = sub.buffer
      BY <1>1, <3>1 DEF SubInv
    <3>3. Start' = head /\ head \in Nat /\ published <= head
      BY <1>1, <3>2 DEF Start, LogInv
    <3>4. Stream' = sub.buffer /\ Stream = sub.buffer
      <4>1. wire = <<>> /\ sub.buffer \in Seq(SentItems)
        BY <3>1, StreamType DEF PhaseInv
      <4>2. <<>> \o sub.buffer = sub.buffer
        BY <4>1, ConcatEmptySeq
      <4> QED BY <3>1, <3>2, <4>1, <4>2, Zenon DEF Stream
    <3>5. \A i \in 1..Len(Stream) : Stream[i].kind = "event" /\ Stream[i].seq <= published
      BY <3>1, <3>4 DEF PhaseInv
    <3>6. \A i \in 1..Len(Stream) : Stream[i].seq \in Nat
      <4>1. \A item \in SentItems : item.kind = "event" => item.seq \in Nat
        BY <1>1, ItemKinds DEF Details
      <4> HIDE DEF SentItems
      <4> QED BY <1>2, <3>5, <4>1
    <3>7. NoGap(Stream, Details, head, published)
      <4> SUFFICES ASSUME NEW i \in 1..Len(Stream) + 1, NEW d \in Details, head < d,
                          d <= Limit(Stream, published, i)
                   PROVE  FALSE
        BY DEF NoGap
      <4>1. d \in Nat
        BY <1>1
      <4>2. CASE i = Len(Stream) + 1
        <5>1. d <= published
          BY <4>2 DEF Limit
        <5> QED BY <1>1, <3>3, <4>1, <5>1
      <4>3. CASE i # Len(Stream) + 1
        <5>1. i \in 1..Len(Stream)
          BY <1>1, <4>3
        <5>2. d <= Stream[i].seq - 1
          BY <3>5, <4>3, <5>1 DEF Limit, Bound
        <5>3. Stream[i].seq \in Nat /\ Stream[i].seq <= published
          BY <3>5, <3>6, <5>1
        <5> QED BY <1>1, <3>3, <4>1, <5>2, <5>3
      <4> QED BY <4>2, <4>3
    <3> QED BY <1>3, <1>5, <3>1, <3>2, <3>3, <3>4, <3>7
  <2> QED BY <2>1, <2>2
<1>16. CASE Publish
  <2>1. /\ sub'.phase = sub.phase /\ sub'.target = sub.target
        /\ sub'.attached = sub.attached /\ client' = client /\ log' = log /\ slips' = slips
    BY <1>1, <1>16 DEF Publish, SubInv, clientVars, historyVars
  <2>2. Start' = Start
    BY <2>1 DEF Start
  <2>3. ASSUME slips = {}, sub.phase \in {"replay", "live"}
        PROVE  NoGap(Stream', Details, Start, published + 1) /\ published' = published + 1
    <3> DEFINE s == Stream
               D == Details
               start == Start
               T == SentItems
    <3>1. /\ NoGap(s, D, start, published) /\ s \in Seq(T) /\ Len(s) \in Nat
          /\ D \in SUBSET Nat /\ start \in Nat /\ published \in Nat
      BY <1>1, <2>3 DEF GapFree
    <3>2. sub.attached
      BY <2>3 DEF PhaseInv
    <3>3. /\ published' = published + 1
          /\ \/ Stream' = Append(s, EventAt(published + 1)) /\ EventAt(published + 1) \in T
             \/ Stream' = s /\ published + 1 \notin D
      BY <1>16, <3>2, StreamExtended
    <3> HIDE DEF s, D, start, T
    <3>4. CASE Stream' = Append(s, EventAt(published + 1)) /\ EventAt(published + 1) \in T
      <4>1. NoGap(Append(s, EventAt(published + 1)), D, start, published + 1)
        BY <3>1, <3>4, NoGapPublished
      <4> QED BY <3>3, <3>4, <4>1 DEF D, start
    <3>5. CASE Stream' = s /\ published + 1 \notin D
      <4>1. NoGap(s, D, start, published + 1)
        BY <3>1, <3>5, NoGapSkipped
      <4> QED BY <3>3, <3>5, <4>1 DEF D, start
    <3> QED BY <3>3, <3>4, <3>5
  <2> QED BY <1>3, <1>5, <2>1, <2>2, <2>3
<1>17. CASE Replay
  <2> DEFINE c == CatchUp
             s == sub.buffer
             m == LastMarker
             D == Details
             T == SentItems
             after == sub.after
             target == sub.target
             rows == DetailsBetween(sub.after, sub.target)
  <2>1. /\ Stream = s /\ Stream' = c \o Append(s, m)
        /\ c \in Seq(T) /\ s \in Seq(T) /\ m \in T
        /\ \A i \in 1..Len(s) : s[i].kind = "event"
        /\ sub'.phase = "live"
        /\ (slips = {} => after <= client.cursor) /\ after <= target
    BY <1>17, StreamReplayed
  <2>2. client' = client /\ published' = published /\ log' = log /\ slips' = slips /\ sub.phase = "replay"
    BY <1>17 DEF Replay, clientVars, serverVars, historyVars
  <2>3. /\ ListsDetails(rows, log, after, target) /\ Len(c) = Len(rows) /\ Len(rows) \in Nat
        /\ \A i \in 1..Len(rows) : c[i] = EventAt(rows[i])
    BY <2>1, CatchUpRows
  <2>4. Start = target /\ Start' = client.cursor
    BY <2>1, <2>2 DEF Start
  <2>5. after \in Nat /\ target \in Nat /\ target <= Len(log) /\ client.cursor \in Nat /\ D \in SUBSET Nat /\ published \in Nat
    BY <1>1, StreamType
  <2>6. \A d \in D : d \in Nat /\ log[d] = "detail"
    BY DEF Details
  <2>7. slips = {} => NoGap(s, D, target, published)
    BY <2>1, <2>2, <2>4 DEF GapFree
  <2>0. m = MarkerFor(IF published > target THEN published ELSE target)
    BY DEF LastMarker
  <2> HIDE DEF c, s, m, D, T, after, target, rows
  <2>8. /\ \A i \in 1..Len(rows) : rows[i] \in after + 1 .. target
        /\ \A i, j \in 1..Len(rows) : i < j => rows[i] < rows[j]
        /\ \A d \in after + 1 .. target : log[d] = "detail" => \E i \in 1..Len(rows) : rows[i] = d
    BY <2>3, ElementOfSeq DEF ListsDetails
  <2>9. \A n : EventAt(n).seq = n
    BY DEF EventAt
  <2>10. \A i \in 1..Len(c) : /\ c[i].seq = rows[i] /\ c[i].seq \in Nat /\ c[i].seq <= target
                              /\ c[i] = EventAt(c[i].seq)
    <3> SUFFICES ASSUME NEW i \in 1..Len(c)
                 PROVE  c[i].seq = rows[i] /\ c[i].seq \in Nat /\ c[i].seq <= target /\ c[i] = EventAt(c[i].seq)
      OBVIOUS
    <3>1. c[i] = EventAt(rows[i]) /\ rows[i] \in after + 1 .. target
      BY <2>3, <2>8
    <3>2. c[i].seq = rows[i]
      BY <2>9, <3>1
    <3>3. rows[i] \in Nat /\ rows[i] <= target
      BY <2>5, <3>1
    <3> QED BY <3>1, <3>2, <3>3
  <2>11. \A i, j \in 1..Len(c) : i < j => c[i].seq < c[j].seq
    BY <2>3, <2>8, <2>10
  <2>12. \A d \in D : after < d /\ d <= target => \E i \in 1..Len(c) : c[i].seq = d
    <3> SUFFICES ASSUME NEW d \in D, after < d, d <= target PROVE \E i \in 1..Len(c) : c[i].seq = d
      OBVIOUS
    <3>1. d \in after + 1 .. target /\ log[d] = "detail"
      BY <2>5, <2>6
    <3>2. PICK i \in 1..Len(rows) : rows[i] = d
      BY <2>8, <3>1
    <3> QED BY <2>3, <2>10, <3>2
  <2>13. ASSUME slips = {} PROVE NoGap(Stream', D, Start', published')
    <3>1. NoGap(c \o Append(s, m), D, after, published)
      BY <2>0, <2>1, <2>5, <2>7, <2>10, <2>11, <2>12, <2>13, NoGapReplayed
    <3>2. Append(s, m) \in Seq(T)
      BY <2>1, AppendProperties
    <3>3. Len(c \o Append(s, m)) \in Nat
      BY <2>1, <3>2, ConcatProperties, LenProperties
    <3>4. NoGap(c \o Append(s, m), D, client.cursor, published)
      <4> DEFINE u == c \o Append(s, m)
                 next == client.cursor
      <4>1. NoGap(u, D, after, published) /\ Len(u) \in Nat /\ next \in Nat /\ after <= next
        BY <2>1, <2>5, <2>13, <3>1, <3>3
      <4> HIDE DEF u, next
      <4>2. NoGap(u, D, next, published)
        BY <2>5, <4>1, NoGapAhead
      <4> QED BY <4>2 DEF u, next
    <3> QED BY <2>1, <2>2, <2>4, <3>4
  <2>15. Details' = D
    BY <1>3, <2>2 DEF D
  <2> QED BY <1>5, <2>2, <2>13, <2>15
<1>18. CASE SendSnapshot
  <2>1. Len(Stream') \in Nat \ {0} /\ Stream'[1] = SnapshotAt(Len(log))
    BY <1>18, StreamSnapshot
  <2>2. sub'.phase = "live" /\ client' = client /\ log' = log
    BY <1>1, <1>18 DEF SendSnapshot, SubInv, serverVars, clientVars
  <2>3. Start' \in Nat
    BY <1>1, <2>2 DEF Start
  <2> DEFINE u == Stream'
             D == Details
             start == Start'
             last == Len(log)
             pub == published'
  <2>4. Len(u) \in Nat \ {0} /\ u[1] = SnapshotAt(last) /\ start \in Nat /\ D \in SUBSET (0..last) /\ last \in Nat
    BY <1>1, <2>1, <2>3
  <2>5. Details' = D
    BY <1>3, <2>2
  <2> HIDE DEF u, D, start, last, pub
  <2>6. NoGap(u, D, start, pub)
    BY <2>4, NoGapSnapshot
  <2> QED BY <1>5, <2>5, <2>6 DEF u, start, pub
<1>19. CASE Receive
  <2>1. PICK item \in SentItems :
            /\ Takes(item) /\ client.pending = Nothing /\ sub' = sub /\ published' = published /\ log' = log
            /\ \/ old # <<>> /\ item = Head(old) /\ old' = Tail(old) /\ wire' = wire
               \/ old = <<>> /\ old' = old /\ wire # <<>> /\ item = Head(wire) /\ wire' = Tail(wire)
    BY <1>19, ReceiveTakes
  <2>2. ASSUME slips' = {}
        PROVE  /\ client'.cursor \in Nat /\ client.cursor <= client'.cursor
               /\ \A d \in Details : client'.cursor < d => ~Delivers(item, d)
    BY <1>1, <2>1, <2>2, TakenIsBehind
  <2>3. CASE old # <<>> /\ item = Head(old) /\ old' = Tail(old) /\ wire' = wire
    <3>1. Stream' = Stream
      BY <2>1, <2>3, StreamKept
    <3>2. ASSUME slips' = {}, sub.phase \in {"replay", "live"}
          PROVE  NoGap(Stream, Details, Start', published)
      <4> DEFINE s == Stream
                 D == Details
                 start == Start
                 next == Start'
      <4>1. /\ Len(s) \in Nat /\ D \in SUBSET Nat /\ start \in Nat /\ next \in Nat /\ start <= next
            /\ NoGap(s, D, start, published)
        BY <1>1, <1>4, <2>1, <2>2, <3>2 DEF GapFree, Start
      <4> HIDE DEF s, D, start, next
      <4>2. NoGap(s, D, next, published)
        BY <4>1, NoGapAhead
      <4> QED BY <4>2 DEF s, D, next
    <3> QED BY <1>3, <1>5, <2>1, <3>1, <3>2
  <2>4. CASE wire # <<>> /\ item = Head(wire) /\ wire' = Tail(wire)
    <3>1. Stream # <<>> /\ Stream[1] = item /\ Stream' = Tail(Stream)
      BY <2>1, <2>4, StreamTaken
    <3>2. sub.phase = "live"
      BY <2>4 DEF PhaseInv
    <3>3. ASSUME slips' = {} PROVE NoGap(Tail(Stream), Details, Start', published)
      <4> DEFINE s == Stream
                 D == Details
                 start == Start
                 next == Start'
                 T == SentItems
      <4>1. /\ s \in Seq(T) /\ s # <<>> /\ D \in SUBSET Nat /\ start \in Nat /\ next \in Nat /\ published \in Nat
            /\ start <= next /\ NoGap(s, D, start, published)
            /\ \A d \in D : next < d => ~Delivers(s[1], d)
        BY <1>1, <1>4, <2>1, <2>2, <3>1, <3>2, <3>3 DEF GapFree, Start
      <4> HIDE DEF s, D, start, next, T
      <4>2. NoGap(Tail(s), D, next, published)
        BY <4>1, NoGapReceived
      <4> QED BY <4>2 DEF s, D, next
    <3> QED BY <1>3, <1>5, <2>1, <3>1, <3>3
  <2> QED BY <2>1, <2>3, <2>4
<1> QED BY <1>8, <1>9, <1>10, <1>11, <1>12, <1>13, <1>14, <1>15, <1>16, <1>17, <1>18, <1>19
        DEF Next, EngineStep, HandlerStep, ClientStep, HttpStep

LEMMA NextOldGapFree ==
  ASSUME TypeInv, PhaseInv, GapFree, OldGapFree, Next PROVE OldGapFree'
<1>1. /\ LogInv /\ SubInv /\ WireInv /\ ClientInv /\ Stream \in Seq(SentItems)
      /\ old \in Seq(SentItems) /\ Len(old) \in Nat /\ wire \in Seq(SentItems) /\ sub.buffer \in Seq(SentItems)
      /\ Details \in SUBSET (0..Len(log)) /\ Details \in SUBSET Nat /\ Details' \in SUBSET Nat
      /\ Len(log) \in Nat /\ client.cursor \in 0..Len(log)
  BY StreamType DEF TypeInv, Details
<1>2. slips' = {} => slips = {}
  BY SlipsStay
<1>3. ASSUME log' = log, old' = old, client'.cursor \in Nat, client.cursor <= client'.cursor PROVE OldGapFree'
  <2> DEFINE D == Details
             next == client'.cursor
             start == client.cursor
  <2>1. Details' = D
    BY <1>3 DEF Details
  <2>2. ASSUME slips = {} PROVE NoGap(old, D, next, 0)
    <3>1. NoGap(old, D, start, 0) /\ start \in Nat /\ next \in Nat /\ start <= next /\ D \in SUBSET Nat
      BY <1>1, <1>3, <2>2 DEF OldGapFree
    <3> HIDE DEF D, next, start
    <3> QED BY <1>1, <3>1, NoGapAhead
  <2> QED BY <1>2, <1>3, <2>1, <2>2 DEF OldGapFree
<1>4. ASSUME NEW batch \in Batches, Commit(batch) PROVE OldGapFree'
  <2>1. client' = client /\ old' = old
    BY <1>4 DEF Commit, clientVars
  <2>2. LogGrows
    BY <1>1, StepLogGrows
  <2>3. \A n \in Details' : n <= Len(log) => n \in Details
    BY <1>1, <2>2, StepKeepsItems
  <2>4. \A i \in 1..Len(old) : old[i].seq \in 0..Len(log)
    <3>1. \A item \in SentItems : item.seq \in 0..Len(log)
      BY <1>1, ItemKinds
    <3>2. \A i \in 1..Len(old) : old[i] \in SentItems
      BY <1>1, ElementOfSeq
    <3> HIDE DEF SentItems, Details
    <3> QED BY <3>1, <3>2
  <2>5. ASSUME slips = {} PROVE NoGap(old, Details', client.cursor, 0)
    <3> DEFINE D == Details
               E == Details'
               start == client.cursor
               last == Len(log)
    <3>1. /\ D \in SUBSET Nat /\ E \in SUBSET Nat /\ start \in Nat /\ last \in Nat /\ 0 <= last
          /\ \A e \in E : e <= last => e \in D
          /\ NoGap(old, D, start, 0) /\ \A i \in 1..Len(old) : old[i].seq \in 0..last
      <4>1. NoGap(old, D, start, 0)
        BY <2>5 DEF OldGapFree
      <4>2. D \in SUBSET Nat /\ E \in SUBSET Nat /\ start \in Nat /\ last \in Nat /\ 0 <= last
        BY <1>1
      <4>3. \A e \in E : e <= last => e \in D
        BY <2>3
      <4> QED BY <2>4, <4>1, <4>2, <4>3
    <3> HIDE DEF D, E, start, last
    <3>2. NoGap(old, E, start, 0)
      BY <1>1, <3>1, NoGapCommitted
    <3> QED BY <3>2 DEF E, start
  <2> QED BY <1>2, <2>1, <2>5 DEF OldGapFree
<1>5. CASE AdvanceHead \/ Persist \/ Publish \/ Attach \/ HandlerStep \/ MissHttpSnapshot
  <2>1. log' = log /\ old' = old /\ client' = client
    BY <1>5 DEF AdvanceHead, Persist, Publish, Attach, HandlerStep, ReadHead, Replay, SendSnapshot, SendBuffered,
       MissHttpSnapshot, serverVars, clientVars
  <2> QED BY <1>1, <1>3, <2>1
<1>6. CASE Subscribe \/ ApplyPending
  <2>1. log' = log /\ old' = old /\ client'.cursor = client.cursor
    BY <1>1, <1>6 DEF Subscribe, ApplyPending, serverVars, ClientInv
  <2> QED BY <1>1, <1>3, <2>1
<1>7. CASE LoadHttpSnapshot
  <2>1. log' = log /\ old' = old /\ client'.cursor = Len(log)
    BY <1>1, <1>7 DEF LoadHttpSnapshot, serverVars, ClientInv
  <2> QED BY <1>1, <1>3, <2>1
<1>8. CASE LoseSession \/ RestartServer
  <2>1. log' = log /\ client'.cursor = client.cursor
    BY <1>1, <1>8 DEF LoseSession, RestartServer, serverVars, ClientInv
  <2>2. PICK n \in 0..Len(wire) : old' = old \o SubSeq(wire, 1, n)
    BY <1>8 DEF LoseSession, RestartServer, KeepQueued
  <2>3. ASSUME slips = {} PROVE NoGap(old \o SubSeq(wire, 1, n), Details, client.cursor, 0)
    <3> DEFINE D == Details
               T == SentItems
               start == client.cursor
               b == sub.buffer
    <3>1. NoGap(old, D, start, 0)
      BY <2>3 DEF OldGapFree
    <3>2. ASSUME n # 0 PROVE NoGap(wire \o b, D, start, published)
      <4>1. wire # <<>>
        BY <3>2, EmptySeq
      <4>2. sub.phase = "live"
        BY <4>1 DEF PhaseInv
      <4> QED BY <2>3, <4>2 DEF GapFree, Start, Stream
    <3>3. old \in Seq(T) /\ wire \in Seq(T) /\ b \in Seq(T) /\ D \in SUBSET Nat /\ start \in Nat
      BY <1>1
    <3> HIDE DEF D, T, start, b
    <3>4. NoGap(old \o SubSeq(wire, 1, n), D, start, 0)
      BY <3>1, <3>2, <3>3, NoGapQueued
    <3> QED BY <3>4 DEF D, start
  <2>4. Details' = Details
    BY <2>1 DEF Details
  <2> QED BY <1>2, <2>1, <2>2, <2>3, <2>4 DEF OldGapFree
<1>9. CASE Close \/ Kill
  <2>1. old' = <<>> /\ TypeInv'
    BY <1>9, NextTypeInv DEF Close, Kill
  <2>2. client'.cursor \in Nat
    BY <2>1 DEF TypeInv, ClientInv, LogInv
  <2>3. NoGap(<<>>, Details', client'.cursor, 0)
    <3> DEFINE D == Details'
               start == client'.cursor
    <3>1. D \in SUBSET Nat /\ start \in Nat
      BY <1>1, <2>2
    <3> HIDE DEF D, start
    <3>2. NoGap(<<>>, D, start, 0)
      BY <3>1, NoGapEmpty
    <3> QED BY <3>2 DEF D, start
  <2> QED BY <2>1, <2>3 DEF OldGapFree
<1>10. CASE Receive
  <2>1. PICK item \in SentItems :
            /\ Takes(item) /\ client.pending = Nothing /\ log' = log
            /\ \/ old # <<>> /\ item = Head(old) /\ old' = Tail(old) /\ wire' = wire
               \/ old = <<>> /\ old' = old /\ wire # <<>> /\ item = Head(wire) /\ wire' = Tail(wire)
    BY <1>10, ReceiveTakes
  <2>2. Details' = Details
    BY <2>1 DEF Details
  <2>3. ASSUME slips' = {}
        PROVE  /\ client'.cursor \in Nat /\ client.cursor <= client'.cursor
               /\ \A d \in Details : client'.cursor < d => ~Delivers(item, d)
    BY <1>1, <2>1, <2>3, TakenIsBehind
  <2>4. CASE old # <<>> /\ item = Head(old) /\ old' = Tail(old)
    <3>1. ASSUME slips' = {} PROVE NoGap(Tail(old), Details, client'.cursor, 0)
      <4> DEFINE D == Details
                 start == client.cursor
                 next == client'.cursor
                 T == SentItems
      <4>1. item = old[1]
        BY <1>1, <2>4, HeadTailProperties
      <4>2. /\ old \in Seq(T) /\ old # <<>> /\ D \in SUBSET Nat /\ start \in Nat /\ next \in Nat
            /\ start <= next /\ NoGap(old, D, start, 0)
            /\ \A d \in D : next < d => ~Delivers(old[1], d)
        BY <1>1, <1>2, <2>3, <2>4, <3>1, <4>1 DEF OldGapFree
      <4> HIDE DEF D, start, next, T
      <4>3. NoGap(Tail(old), D, next, 0)
        BY <4>2, NoGapReceived
      <4> QED BY <4>3 DEF D, next
    <3> QED BY <2>2, <2>4, <3>1 DEF OldGapFree
  <2>5. CASE old' = old
    <3>1. CASE slips' = {}
      BY <1>3, <2>1, <2>3, <2>5, <3>1
    <3>2. CASE slips' # {}
      BY <3>2 DEF OldGapFree
    <3> QED BY <3>1, <3>2
  <2> QED BY <2>1, <2>4, <2>5
<1> QED BY <1>4, <1>5, <1>6, <1>7, <1>8, <1>9, <1>10
        DEF Next, EngineStep, ClientStep, HttpStep

-----------------------------------------------------------------------------
(* What the client shows.  The content is compared with the fold over the  *)
(* log, and while an item is being applied the cursor is already at it.    *)
ContentOf(copy) == copy.data => copy.shown = DetailsIn(log, 0, copy.cursor)
BeingApplied(item) ==
    /\ client.cursor = item.seq
    /\ item.kind = "event" =>
        client.data /\ Append(client.shown, item.seq) = DetailsIn(log, 0, item.seq)
ContentInv ==
    slips = {} =>
        /\ client.pending = Nothing => ContentOf(client)
        /\ client.pending # Nothing => BeingApplied(client.pending)
        /\ ContentOf(cache)

(* What the markers received so far stand for is behind the cursor, and is *)
(* shown.                                                                  *)
PromiseInv ==
    slips = {} =>
        \A d \in Details : d <= client.told =>
            d <= client.cursor /\ \E i \in 1..Len(client.shown) : client.shown[i] = d

LEMMA UpToIsFold ==
  ASSUME NEW n PROVE DetailsUpTo(n) = DetailsIn(log, 0, n)
BY DEF DetailsUpTo, DetailsBetween, DetailsIn

LEMMA FoldStays ==
  ASSUME TypeInv, Next, NEW n \in 0..Len(log)
  PROVE  DetailsIn(log', 0, n) = DetailsIn(log, 0, n)
<1>1. LogGrows /\ Len(log) \in Nat
  BY StepLogGrows DEF TypeInv, LogInv
<1>2. n \in Nat /\ 0 \in Nat /\ 0 <= n /\ \A d \in 0 + 1 .. n : log'[d] = log[d]
  BY <1>1 DEF LogGrows
<1> QED BY <1>2, DetailsStay

(* What an event adds: no detail event is between the cursor and it.       *)
LEMMA EventExtends ==
  ASSUME TypeInv, NEW s \in Seq(SentItems), s # <<>>, NEW pub, NoGap(s, Details, client.cursor, pub),
         s[1].kind = "event", s[1].seq \in Details, s[1].seq > client.cursor
  PROVE  Append(DetailsIn(log, 0, client.cursor), s[1].seq) = DetailsIn(log, 0, s[1].seq)
<1> DEFINE n == s[1].seq - 1
           m == client.cursor
<1>1. Len(s) \in Nat /\ m \in Nat /\ Details \in SUBSET Nat /\ Len(log) \in Nat
  BY StreamType, LenProperties
<1>2. 1 \in 1..Len(s) + 1 /\ 1 # Len(s) + 1
  BY <1>1, EmptySeq
<1>3. n + 1 = s[1].seq /\ n \in Nat /\ m <= n /\ n + 1 <= Len(log)
  BY <1>1 DEF Details
<1>4. log[n + 1] = "detail"
  BY <1>3 DEF Details
<1>5. Limit(s, pub, 1) = n
  BY <1>2 DEF Limit, Bound
<1>6. NoGap(s, Details, m, pub)
  OBVIOUS
<1> HIDE DEF n, m
<1>7. ASSUME NEW d \in m + 1 .. n PROVE log[d] # "detail"
  <2>1. d \in 1..Len(log) /\ m < d /\ d <= n
    BY <1>1, <1>3
  <2>2. d \notin Details
    BY <1>2, <1>5, <1>6, <2>1 DEF NoGap
  <2> QED BY <2>1, <2>2 DEF Details
<1>8. DetailsIn(log, 0, n) = DetailsIn(log, 0, m)
  <2>1. 0 \in Nat /\ m \in Nat /\ n \in Nat /\ 0 <= m /\ m <= n
    BY <1>1, <1>3
  <2>2. \A d \in m + 1 .. n : log[d] # "detail"
    BY <1>7
  <2> QED BY <2>1, <2>2, DetailsSkip
<1>9. DetailsIn(log, 0, n + 1) = Append(DetailsIn(log, 0, n), n + 1)
  <2>1. 0 \in Nat /\ 0 <= n
    BY <1>3
  <2> QED BY <1>3, <1>4, <2>1, DetailsNext
<1> QED BY <1>3, <1>8, <1>9, Zenon DEF m

(* The item received next is the first of a list without gaps.             *)
LEMMA QueueIsGapFree ==
  ASSUME TypeInv, PhaseInv, GapFree, OldGapFree, slips = {},
         NEW item, \/ old # <<>> /\ item = Head(old)
                   \/ old = <<>> /\ wire # <<>> /\ item = Head(wire)
  PROVE  \E q, pub : q \in Seq(SentItems) /\ q # <<>> /\ q[1] = item /\ NoGap(q, Details, client.cursor, pub)
<1>1. CASE old # <<>> /\ item = Head(old)
  <2>1. old \in Seq(SentItems) /\ old[1] = item
    BY <1>1, StreamType, HeadTailProperties
  <2> QED BY <1>1, <2>1 DEF OldGapFree
<1>2. CASE old = <<>> /\ wire # <<>> /\ item = Head(wire)
  <2>1. wire \in Seq(SentItems) /\ sub.buffer \in Seq(SentItems) /\ Stream \in Seq(SentItems) /\ sub.phase = "live"
    BY <1>2, StreamType DEF PhaseInv
  <2>2. Stream # <<>> /\ Stream[1] = Head(wire)
    BY <1>2, <2>1, TailOfFirst DEF Stream
  <2>3. NoGap(Stream, Details, client.cursor, published)
    BY <2>1 DEF GapFree, Start
  <2> QED BY <1>2, <2>1, <2>2, <2>3
<1> QED BY <1>1, <1>2

LEMMA DetailIsShown ==
  ASSUME TypeInv, NEW n \in 0..Len(log), NEW d \in Details, d <= n
  PROVE  \E i \in 1..Len(DetailsIn(log, 0, n)) : DetailsIn(log, 0, n)[i] = d
<1>1. n \in Nat /\ 0 <= n /\ d \in 0 + 1 .. n /\ log[d] = "detail"
  BY DEF Details, TypeInv, LogInv
<1>2. ListsDetails(DetailsIn(log, 0, n), log, 0, n)
  BY <1>1, DetailsListed
<1> QED BY <1>1, <1>2 DEF ListsDetails

LEMMA InitContentInv ==
  Init => ContentInv /\ PromiseInv
<1>1. \A d \in Details : ~(d <= 0)
  BY DEF Details
<1> QED BY <1>1 DEF Init, ContentInv, PromiseInv, ContentOf, ClientFrom, NoCopy

LEMMA NextContentInv ==
  ASSUME TypeInv, PhaseInv, SnapshotFirst, GapFree, OldGapFree, ContentInv, Next PROVE ContentInv'
<1>1. /\ LogInv /\ SubInv /\ ClientInv /\ CacheInv /\ Len(log) \in Nat /\ Len(log) \in 0..Len(log)
      /\ client.cursor \in 0..Len(log) /\ cache.cursor \in 0..Len(log)
  BY DEF TypeInv, LogInv, ClientInv, CacheInv
<1>2. /\ DetailsIn(log', 0, client.cursor) = DetailsIn(log, 0, client.cursor)
      /\ DetailsIn(log', 0, cache.cursor) = DetailsIn(log, 0, cache.cursor)
  BY <1>1, FoldStays
<1>3. slips' = {} => slips = {}
  BY SlipsStay
<1>4. Nothing' = Nothing
  BY DEF Nothing
<1> SUFFICES ASSUME slips = {}, slips' = {}
             PROVE  /\ client'.pending = Nothing => ContentOf(client)'
                    /\ client'.pending # Nothing => BeingApplied(client.pending)'
                    /\ ContentOf(cache)'
  BY <1>3, <1>4 DEF ContentInv
<1> DEFINE Goal ==
      /\ client'.pending = Nothing => (client'.data => client'.shown = DetailsIn(log', 0, client'.cursor))
      /\ client'.pending # Nothing =>
          /\ client'.cursor = client'.pending.seq
          /\ client'.pending.kind = "event" =>
                client'.data /\ Append(client'.shown, client'.pending.seq) = DetailsIn(log', 0, client'.pending.seq)
      /\ cache'.data => cache'.shown = DetailsIn(log', 0, cache'.cursor)
<1> SUFFICES Goal
  BY DEF ContentOf, BeingApplied
<1>5. /\ client.pending = Nothing => (client.data => client.shown = DetailsIn(log, 0, client.cursor))
      /\ client.pending # Nothing =>
          /\ client.cursor = client.pending.seq
          /\ client.pending.kind = "event" =>
                client.data /\ Append(client.shown, client.pending.seq) = DetailsIn(log, 0, client.pending.seq)
      /\ cache.data => cache.shown = DetailsIn(log, 0, cache.cursor)
  BY DEF ContentInv, ContentOf, BeingApplied
<1> HIDE DEF DetailsIn
(* Steps that leave content, cursor and the item being applied alone.      *)
<1>6. ASSUME client'.pending = client.pending, client'.data = client.data, client'.shown = client.shown,
             client'.cursor = client.cursor,
             cache' = cache \/ (client.pending = Nothing
                    /\ cache' = [data |-> TRUE, cursor |-> client.cursor, shown |-> client.shown]
                    /\ client.data)
      PROVE  Goal
  <2>1. client.pending # Nothing => DetailsIn(log', 0, client.pending.seq) = DetailsIn(log, 0, client.pending.seq)
    BY <1>2, <1>5
  <2>2. cache'.data => cache'.shown = DetailsIn(log', 0, cache'.cursor)
    BY <1>2, <1>5, <1>6
  <2> QED BY <1>2, <1>5, <1>6, <2>1, <2>2
<1>7. CASE client' = client /\ cache' = cache
  BY <1>6, <1>7
<1>8. ASSUME NEW batch \in Batches, Commit(batch) PROVE Goal
  <2>1. client' = client /\ cache' = cache
    BY <1>8 DEF Commit, clientVars
  <2> HIDE DEF Goal
  <2> QED BY <1>7, <2>1
<1>9. CASE AdvanceHead \/ Publish \/ Attach \/ HandlerStep
  <2>1. client' = client /\ cache' = cache
    BY <1>9 DEF AdvanceHead, Publish, Attach, HandlerStep, ReadHead, Replay, SendSnapshot, SendBuffered, clientVars
  <2> HIDE DEF Goal
  <2> QED BY <1>7, <2>1
<1>10. CASE Subscribe \/ MissHttpSnapshot \/ LoseSession \/ RestartServer
  <2>1. /\ cache' = cache
        /\ \/ client' = client
           \/ client' = [client EXCEPT !.awaiting = TRUE, !.status = "synchronizing"]
           \/ client' = [client EXCEPT !.awaiting = FALSE, !.status = "cached"]
    BY <1>10 DEF Subscribe, MissHttpSnapshot, clientVars, LoseSession, RestartServer
  <2>2. /\ client'.pending = client.pending /\ client'.data = client.data /\ client'.shown = client.shown
        /\ client'.cursor = client.cursor
    BY <1>1, <2>1 DEF ClientInv
  <2> HIDE DEF Goal
  <2> QED BY <1>6, <2>1, <2>2
<1>11. CASE Persist
  <2>1. /\ client' = client /\ client.pending = Nothing /\ client.data
        /\ cache' = [data |-> TRUE, cursor |-> client.cursor, shown |-> client.shown]
    BY <1>11 DEF Persist
  <2> HIDE DEF Goal
  <2> QED BY <1>6, <2>1
<1>12. CASE LoadHttpSnapshot
  <2>1. /\ client' = [client EXCEPT !.data = TRUE, !.cursor = Len(log), !.shown = DetailsUpTo(Len(log)),
                                    !.status = IF client.awaiting THEN "synchronizing" ELSE "live"]
        /\ client.pending = Nothing /\ cache' = cache /\ log' = log
    BY <1>12 DEF LoadHttpSnapshot, serverVars
  <2>2. /\ client'.pending = Nothing /\ client'.cursor = Len(log) /\ client'.shown = DetailsUpTo(Len(log))
    BY <1>1, <2>1 DEF ClientInv
  <2>3. client'.shown = DetailsIn(log', 0, client'.cursor)
    BY <2>1, <2>2, UpToIsFold
  <2> QED BY <1>2, <1>5, <2>1, <2>2, <2>3
<1>13. CASE ApplyPending
  <2> DEFINE item == client.pending
  <2>1. /\ item # Nothing /\ cache' = cache /\ log' = log
        /\ client' = [client EXCEPT !.data = TRUE,
                         !.shown = IF item.kind = "snapshot" THEN DetailsUpTo(item.seq) ELSE Append(@, item.seq),
                         !.status = IF client.awaiting THEN "synchronizing" ELSE "live",
                         !.pending = Nothing]
    BY <1>13 DEF ApplyPending, serverVars
  <2>2. /\ client'.pending = Nothing /\ client'.cursor = client.cursor
        /\ client'.shown = IF item.kind = "snapshot" THEN DetailsUpTo(item.seq)
                           ELSE Append(client.shown, item.seq)
    BY <1>1, <2>1 DEF ClientInv
  <2>3. item.kind \in {"snapshot", "event"}
    <3>1. item \in SentItems /\ item.kind # "synchronized"
      BY <1>1, <2>1 DEF ClientInv, Contents
    <3> QED BY <1>1, <3>1, ItemKinds
  <2>4. client.cursor = item.seq
    BY <1>5, <2>1
  <2>5. client'.shown = DetailsIn(log', 0, client'.cursor)
    <3>1. CASE item.kind = "snapshot"
      <4>1. client'.shown = DetailsIn(log, 0, item.seq)
        BY <2>2, <3>1, UpToIsFold
      <4> QED BY <2>1, <2>2, <2>4, <4>1
    <3>2. CASE item.kind = "event"
      <4>1. client'.shown = Append(client.shown, item.seq)
        BY <2>2, <3>2
      <4>2. Append(client.shown, item.seq) = DetailsIn(log, 0, item.seq)
        BY <1>5, <2>1, <3>2
      <4> QED BY <2>1, <2>2, <2>4, <4>1, <4>2
    <3> QED BY <2>3, <3>1, <3>2
  <2> QED BY <1>2, <1>5, <2>1, <2>2, <2>5
<1>14. CASE Close \/ Kill
  <2>1. client' = ClientFrom(cache')
    BY <1>14 DEF Close, Kill
  <2>2. /\ client'.pending = Nothing /\ client'.data = cache'.data /\ client'.shown = cache'.shown
        /\ client'.cursor = cache'.cursor
    BY <2>1 DEF ClientFrom
  <2>3. \/ cache' = cache
        \/ /\ client.data /\ client.pending = Nothing
           /\ cache' = [data |-> TRUE, cursor |-> client.cursor, shown |-> client.shown]
    <3>1. CASE Kill
      BY <3>1 DEF Kill
    <3>2. CASE Close
      <4>1. ~(client.data /\ client.pending # Nothing)
        BY <3>2 DEF Close
      <4> QED BY <3>2, <4>1 DEF Close
    <3> QED BY <1>14, <3>1, <3>2
  <2>4. cache'.data => cache'.shown = DetailsIn(log', 0, cache'.cursor)
    BY <1>2, <1>5, <2>3
  <2> QED BY <2>2, <2>4
<1>15. CASE Receive
  <2>1. PICK item \in SentItems :
            /\ Takes(item) /\ client.pending = Nothing /\ cache' = cache /\ log' = log
            /\ \/ old # <<>> /\ item = Head(old)
               \/ old = <<>> /\ wire # <<>> /\ item = Head(wire)
    BY <1>15, ReceiveTakes
  <2> HIDE DEF Goal, SentItems
  <2>2. CASE client' = client
    BY <1>7, <2>1, <2>2
  <2>3. CASE item.kind = "synchronized"
    <3>1. /\ client'.pending = client.pending /\ client'.data = client.data /\ client'.shown = client.shown
          /\ client'.cursor = client.cursor
      BY <1>1, <2>1, <2>3 DEF Takes, ClientInv
    <3> QED BY <1>6, <2>1, <3>1
  <2>4. CASE item.kind = "snapshot"
    <3>1. client'.cursor = item.seq /\ client'.pending = item
      BY <1>1, <2>1, <2>4 DEF Takes, ClientInv
    <3>2. item # Nothing
      BY <2>4 DEF Nothing
    <3> QED BY <1>2, <1>5, <2>1, <2>4, <3>1, <3>2 DEF Goal
  <2>5. CASE item.kind = "event" /\ item.seq > client.cursor
    <3>1. client.data
      BY <2>1, <2>5, FirstIsSnapshot
    <3>2. /\ client'.cursor = item.seq /\ client'.pending = item /\ client'.data /\ client'.shown = client.shown
      BY <1>1, <2>1, <2>5, <3>1 DEF Takes, ClientInv
    <3>3. item # Nothing
      BY <2>5 DEF Nothing
    <3>4. item.seq \in Details
      BY <1>1, <2>1, <2>5, ItemKinds
    <3>5. PICK q, pub : q \in Seq(SentItems) /\ q # <<>> /\ q[1] = item /\ NoGap(q, Details, client.cursor, pub)
      BY <2>1, QueueIsGapFree
    <3>6. Append(DetailsIn(log, 0, client.cursor), item.seq) = DetailsIn(log, 0, item.seq)
      BY <2>5, <3>4, <3>5, EventExtends
    <3>7. Append(client.shown, item.seq) = DetailsIn(log, 0, item.seq)
      BY <1>5, <2>1, <3>1, <3>6
    <3> QED BY <1>2, <1>5, <2>1, <3>2, <3>3, <3>7 DEF Goal
  <2> QED BY <2>1, <2>2, <2>3, <2>4, <2>5 DEF Takes
<1> QED BY <1>8, <1>9, <1>10, <1>11, <1>12, <1>13, <1>14, <1>15
        DEF Next, EngineStep, ClientStep, HttpStep

LEMMA NextPromiseInv ==
  ASSUME TypeInv, PhaseInv, SnapshotFirst, GapFree, OldGapFree, ContentInv, PromiseInv, Next PROVE PromiseInv'
<1>1. /\ LogInv /\ SubInv /\ ClientInv /\ CacheInv /\ Len(log) \in Nat
      /\ client.shown \in Seq(1..Len(log)) /\ Len(client.shown) \in Nat
      /\ client.cursor \in 0..Len(log) /\ client.told \in 0..Len(log)
  BY LenProperties DEF TypeInv, LogInv, ClientInv
<1>2. slips' = {} => slips = {}
  BY SlipsStay
<1>3. \A n \in Details' : n <= Len(log) => n \in Details
  BY <1>1, StepLogGrows, StepKeepsItems
<1>4. \A d \in Details' : d \in Nat /\ d > 0
  BY DEF Details
<1>5. log' = log => Details' = Details
  BY DEF Details
<1> HIDE DEF Details
<1>6. ASSUME client'.told = client.told, client'.cursor = client.cursor, client'.shown = client.shown
      PROVE  PromiseInv'
  <2>1. ASSUME slips' = {}, NEW d \in Details', d <= client'.told
        PROVE  d <= client'.cursor /\ \E i \in 1..Len(client'.shown) : client'.shown[i] = d
    <3>1. d \in Details /\ d <= client.told
      BY <1>1, <1>3, <1>4, <1>6, <2>1
    <3> QED BY <1>2, <1>6, <2>1, <3>1 DEF PromiseInv
  <2> QED BY <2>1 DEF PromiseInv
<1>7. ASSUME NEW n \in 0..Len(log), log' = log, client'.shown = DetailsIn(log, 0, n), client'.cursor = n,
             client'.told = client.told, client.cursor <= n
      PROVE  PromiseInv'
  <2>1. ASSUME slips' = {}, NEW d \in Details', d <= client'.told
        PROVE  d <= client'.cursor /\ \E i \in 1..Len(client'.shown) : client'.shown[i] = d
    <3>1. d \in Details /\ d <= client.cursor
      BY <1>2, <1>5, <1>7, <2>1 DEF PromiseInv
    <3>2. d <= n
      BY <1>1, <1>4, <1>7, <2>1, <3>1
    <3>3. \E i \in 1..Len(DetailsIn(log, 0, n)) : DetailsIn(log, 0, n)[i] = d
      BY <3>1, <3>2, DetailIsShown
    <3> QED BY <1>7, <3>2, <3>3
  <2> QED BY <2>1 DEF PromiseInv
<1>8. ASSUME NEW batch \in Batches, Commit(batch) PROVE PromiseInv'
  BY <1>6, <1>8 DEF Commit, clientVars
<1>9. CASE AdvanceHead \/ Persist \/ Publish \/ Attach \/ HandlerStep \/ MissHttpSnapshot
  <2>1. client' = client
    BY <1>9 DEF AdvanceHead, Persist, Publish, Attach, HandlerStep, ReadHead, Replay, SendSnapshot, SendBuffered,
       MissHttpSnapshot, clientVars
  <2> QED BY <1>6, <2>1
<1>10. CASE Subscribe \/ LoseSession \/ RestartServer
  <2>1. client'.told = client.told /\ client'.cursor = client.cursor /\ client'.shown = client.shown
    BY <1>1, <1>10 DEF Subscribe, LoseSession, RestartServer, ClientInv
  <2> QED BY <1>6, <2>1
<1>11. CASE LoadHttpSnapshot
  <2>1. /\ log' = log /\ client'.cursor = Len(log) /\ client'.told = client.told
        /\ client'.shown = DetailsUpTo(Len(log))
    BY <1>1, <1>11 DEF LoadHttpSnapshot, serverVars, ClientInv
  <2>2. client'.shown = DetailsIn(log, 0, Len(log)) /\ client.cursor <= Len(log) /\ Len(log) \in 0..Len(log)
    BY <1>1, <2>1, UpToIsFold
  <2> QED BY <1>7, <2>1, <2>2
<1>12. CASE Close \/ Kill
  <2>1. client'.told = 0
    <3>1. \A copy : ClientFrom(copy).told = 0
      BY DEF ClientFrom
    <3> QED BY <1>12, <3>1 DEF Close, Kill
  <2> QED BY <1>4, <2>1 DEF PromiseInv
<1>13. CASE ApplyPending
  <2> DEFINE item == client.pending
  <2>1. /\ item # Nothing /\ log' = log
        /\ client'.cursor = client.cursor /\ client'.told = client.told
        /\ client'.shown = IF item.kind = "snapshot" THEN DetailsUpTo(item.seq)
                           ELSE Append(client.shown, item.seq)
    BY <1>1, <1>13 DEF ApplyPending, serverVars, ClientInv
  <2>2. item \in SentItems /\ item.kind \in {"snapshot", "event"}
    <3>1. item \in SentItems /\ item.kind # "synchronized"
      BY <1>1, <2>1 DEF ClientInv, Contents
    <3> QED BY <1>1, <3>1, ItemKinds
  <2> HIDE DEF item
  <2>3. CASE item.kind = "snapshot"
    <3>1. CASE slips' = {}
      <4>1. client.cursor = item.seq
        BY <1>2, <2>1, <3>1 DEF ContentInv, BeingApplied, item
      <4>2. client'.shown = DetailsIn(log, 0, client.cursor)
        BY <2>1, <2>3, <4>1, UpToIsFold
      <4> DEFINE n == client.cursor
      <4>3. /\ n \in 0..Len(log) /\ n <= n /\ log' = log /\ client'.cursor = n
            /\ client'.told = client.told /\ client'.shown = DetailsIn(log, 0, n)
        BY <1>1, <2>1, <4>2
      <4> QED BY <1>7, <4>3
    <3>2. CASE slips' # {}
      BY <3>2 DEF PromiseInv
    <3> QED BY <3>1, <3>2
  <2>4. CASE item.kind = "event"
    <3> DEFINE k == item.seq
    <3>1. k \in 1..Len(log)
      BY <1>1, <2>2, <2>4, ItemKinds DEF Details
    <3>2. client'.shown = Append(client.shown, k)
      BY <2>1, <2>4
    <3> HIDE DEF k
    <3>3. /\ Len(Append(client.shown, k)) = Len(client.shown) + 1
          /\ \A j \in 1..Len(client.shown) : Append(client.shown, k)[j] = client.shown[j]
      BY <1>1, <3>1, AppendProperties
    <3>4. ASSUME slips' = {}, NEW d \in Details', d <= client'.told
          PROVE  d <= client'.cursor /\ \E i \in 1..Len(client'.shown) : client'.shown[i] = d
      <4>1. d \in Details /\ d <= client.told
        BY <1>5, <2>1, <3>4
      <4>2. d <= client.cursor /\ \E i \in 1..Len(client.shown) : client.shown[i] = d
        BY <1>2, <3>4, <4>1 DEF PromiseInv
      <4>3. PICK i \in 1..Len(client.shown) : client.shown[i] = d
        BY <4>2
      <4>4. i \in 1..Len(client'.shown) /\ client'.shown[i] = client.shown[i]
        BY <1>1, <3>2, <3>3
      <4> QED BY <2>1, <4>2, <4>3, <4>4
    <3> QED BY <3>4 DEF PromiseInv
  <2> QED BY <2>2, <2>3, <2>4
<1>14. CASE Receive
  <2>1. PICK item \in SentItems :
            /\ Takes(item) /\ client.pending = Nothing /\ log' = log
            /\ \/ old # <<>> /\ item = Head(old)
               \/ old = <<>> /\ wire # <<>> /\ item = Head(wire)
    BY <1>14, ReceiveTakes
  <2> HIDE DEF SentItems
  <2>2. CASE client'.told = client.told /\ slips' = {}
    <3>1. client.cursor <= client'.cursor /\ client'.cursor \in Nat
      BY <2>1, <2>2, TakenIsBehind
    <3>2. client'.shown = client.shown
      BY <1>1, <2>1 DEF Takes, ClientInv
    <3>3. ASSUME NEW d \in Details', d <= client'.told
          PROVE  d <= client'.cursor /\ \E i \in 1..Len(client'.shown) : client'.shown[i] = d
      <4>1. d <= client.cursor /\ \E i \in 1..Len(client.shown) : client.shown[i] = d
        BY <1>2, <1>5, <2>1, <2>2, <3>3 DEF PromiseInv
      <4>2. d <= client'.cursor
        BY <1>1, <1>4, <3>1, <3>3, <4>1
      <4> QED BY <3>2, <4>1, <4>2
    <3> QED BY <3>3 DEF PromiseInv
  <2>3. CASE item.kind = "synchronized" /\ slips' = {}
    <3>1. client.data
      BY <2>1, <2>3, FirstIsSnapshot
    <3>2. client'.told = item.seq /\ client'.shown = client.shown /\ client'.cursor = client.cursor
      BY <1>1, <2>1, <2>3 DEF Takes, ClientInv
    <3>3. client.shown = DetailsIn(log, 0, client.cursor)
      BY <1>2, <2>1, <2>3, <3>1 DEF ContentInv, ContentOf
    <3>4. PICK q, pub : q \in Seq(SentItems) /\ q # <<>> /\ q[1] = item /\ NoGap(q, Details, client.cursor, pub)
      BY <1>2, <2>1, <2>3, QueueIsGapFree
    <3>5. Limit(q, pub, 1) = item.seq /\ 1 \in 1..Len(q) + 1
      <4>1. Len(q) \in Nat /\ Len(q) # 0
        BY <3>4, EmptySeq, LenProperties
      <4>2. 1 # Len(q) + 1 /\ 1 \in 1..Len(q) + 1
        BY <4>1
      <4> QED BY <2>3, <3>4, <4>2 DEF Limit, Bound
    <3>6. ASSUME NEW d \in Details', d <= client'.told
          PROVE  d <= client'.cursor /\ \E i \in 1..Len(client'.shown) : client'.shown[i] = d
      <4>1. d \in Details /\ d \in Nat /\ d <= item.seq
        BY <1>4, <1>5, <2>1, <3>2, <3>6
      <4>2. ~(client.cursor < d)
        BY <3>4, <3>5, <4>1 DEF NoGap
      <4>3. d <= client.cursor
        BY <1>1, <4>1, <4>2
      <4>4. \E i \in 1..Len(DetailsIn(log, 0, client.cursor)) : DetailsIn(log, 0, client.cursor)[i] = d
        BY <1>1, <4>1, <4>3, DetailIsShown
      <4> QED BY <3>2, <3>3, <4>3, <4>4
    <3> QED BY <3>6 DEF PromiseInv
  <2>4. CASE slips' # {}
    BY <2>4 DEF PromiseInv
  <2>5. item.kind = "synchronized" \/ client'.told = client.told
    BY <1>1, <2>1 DEF Takes, ClientInv
  <2> QED BY <2>2, <2>3, <2>4, <2>5
<1> QED BY <1>8, <1>9, <1>10, <1>11, <1>12, <1>13, <1>14
        DEF Next, EngineStep, ClientStep, HttpStep

-----------------------------------------------------------------------------
(* The inductive invariant.                                                *)
IInv == TypeInv /\ PhaseInv /\ SnapshotFirst /\ GapFree /\ OldGapFree /\ ContentInv /\ PromiseInv

LEMMA Inductive ==
  Spec => []IInv
<1>1. Init => IInv
  BY InitTypeInv, InitPhaseInv, InitSnapshotFirst, InitGapFree, InitContentInv DEF IInv
<1>2. IInv /\ [Next]_vars => IInv'
  <2> SUFFICES ASSUME IInv, [Next]_vars PROVE IInv'
    OBVIOUS
  <2>1. CASE Next
    BY <2>1, NextTypeInv, NextPhaseInv, NextSnapshotFirst, NextGapFree, NextOldGapFree, NextContentInv,
       NextPromiseInv DEF IInv
  <2>2. CASE UNCHANGED vars
    <3>1. log' = log /\ head' = head /\ published' = published /\ sub' = sub /\ wire' = wire
          /\ old' = old /\ client' = client /\ cache' = cache /\ breaks' = breaks /\ slips' = slips
      BY <2>2 DEF vars
    <3>2. TypeInv'
      BY <3>1 DEF IInv, TypeInv, LogInv, SubInv, WireInv, ClientInv, CacheInv, HistoryInv, SentItems,
         BufferItems, Contents, Details
    <3>3. PhaseInv' /\ SnapshotFirst' /\ GapFree' /\ OldGapFree'
      BY <3>1 DEF IInv, PhaseInv, SnapshotFirst, Ahead, GapFree, OldGapFree, Stream, Start, Details, Nothing
    <3>4. ContentInv' /\ PromiseInv'
      BY <3>1 DEF IInv, ContentInv, PromiseInv, ContentOf, BeingApplied, Details, Nothing
    <3> QED BY <3>2, <3>3, <3>4 DEF IInv
  <2> QED BY <2>1, <2>2
<1> QED BY <1>1, <1>2, PTL DEF Spec

(* Every variable holds values of its type, and no item, cursor or promise *)
(* names an event that is not committed, whatever an ended stream left in  *)
(* the client's queue.                                                     *)
THEOREM TypeCorrect ==
  Spec => []TypeOK
<1>1. IInv => TypeOK
  BY TypeInvGivesTypeOK DEF IInv
<1> QED BY <1>1, Inductive, PTL

(* Whatever sessions, processes and views end in whatever order, and       *)
(* whatever they leave in the client's queue, the client shows exactly the *)
(* detail events up to its cursor, once each and in log order, unless one  *)
(* of the three named interleavings happened: the live stream was attached *)
(* late, a copy was stored while an item was being applied, or a snapshot  *)
(* of an ended stream was applied after a newer one.                       *)
THEOREM ContentCorrect ==
  Spec => []OnlySlipsLoseEvents
<1>1. IInv => OnlySlipsLoseEvents
  BY UpToIsFold DEF IInv, ContentInv, ContentOf, OnlySlipsLoseEvents, ContentMatchesCursor
<1> QED BY <1>1, Inductive, PTL

(* A client that says "live" shows every detail event that was published   *)
(* when the last completion marker it received was queued, be it one that  *)
(* an ended stream left behind.                                            *)
THEOREM LiveCorrect ==
  Spec => []LiveIsCaughtUp
<1>1. IInv => LiveIsCaughtUp
  <2> SUFFICES ASSUME IInv, slips = {}, NEW n \in 1..client.told, log[n] = "detail"
               PROVE  \E i \in 1..Len(client.shown) : client.shown[i] = n
    BY DEF LiveIsCaughtUp
  <2>1. n \in Details /\ n <= client.told
    BY DEF IInv, TypeInv, ClientInv, LogInv, Details
  <2> QED BY <2>1 DEF IInv, PromiseInv
<1> QED BY <1>1, Inductive, PTL
=============================================================================
