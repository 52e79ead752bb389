----------------------------- MODULE SyncBusProofs -----------------------------
(***************************************************************************)
(* Theorems about the queue of a device, for any number of devices,        *)
(* connections, envelopes and pushes, any cap and size of the buffers, and *)
(* any number of lost Redis connections.                                   *)
(***************************************************************************)
EXTENDS SyncBus, SetSums

-----------------------------------------------------------------------------
(* The commands on a queue.  What matters of an envelope in a queue is how   *)
(* many came after it.                                                       *)

\* Of the queue q is left r: each has no more after it than before, and only
\* copies of e are missing.
LeftOf(r, q, e) ==
    /\ r \in Seq(Msgs) /\ Len(r) <= Len(q)
    /\ \A i \in DOMAIN r : \E k \in DOMAIN q : q[k] = r[i]
    /\ \A k \in DOMAIN q : q[k] # e =>
          \E i \in DOMAIN r : r[i] = q[k] /\ Len(r) - i <= Len(q) - k

\* RPUSH appends one.
LEMMA Appended ==
    ASSUME NEW q \in Seq(Msgs), NEW e \in Msgs
    PROVE  /\ Append(q, e) \in Seq(Msgs) /\ Len(q) \in Nat
           /\ DOMAIN q = 1..Len(q) /\ DOMAIN Append(q, e) = 1..(Len(q) + 1)
           /\ Len(Append(q, e)) = Len(q) + 1 /\ Append(q, e)[Len(q) + 1] = e
           /\ \A k \in DOMAIN q : k \in DOMAIN Append(q, e) /\ Append(q, e)[k] = q[k]
           /\ \A k \in DOMAIN Append(q, e) : k \in DOMAIN q \/ k = Len(q) + 1
           /\ \A k \in DOMAIN Append(q, e) :
                 Append(q, e)[k] = e \/ (k \in DOMAIN q /\ Append(q, e)[k] = q[k])
<1> DEFINE a == Append(q, e)
<1>1. a \in Seq(Msgs) /\ Len(q) \in Nat /\ Len(a) = Len(q) + 1 /\ a[Len(q) + 1] = e
  OBVIOUS
<1>2. DOMAIN q = 1..Len(q) /\ DOMAIN a = 1..(Len(q) + 1)
  OBVIOUS
<1>3. \A k \in DOMAIN q : k \in DOMAIN a /\ a[k] = q[k]
  OBVIOUS
<1> HIDE DEF a
<1>4. \A k \in DOMAIN a : k \in DOMAIN q \/ k = Len(q) + 1
  BY <1>1, <1>2
<1>5. ASSUME NEW k \in DOMAIN a PROVE a[k] = e \/ (k \in DOMAIN q /\ a[k] = q[k])
  <2>1. CASE k = Len(q) + 1
    <3>1. k \in 1..(Len(q) + 1)
      BY <1>2
    <3> QED
      BY <1>1, <2>1, <3>1
  <2>2. CASE k \in DOMAIN q
    BY <1>3, <2>2
  <2> QED
    BY <1>4, <2>1, <2>2
<1> QED
  BY <1>1, <1>2, <1>3, <1>4, <1>5 DEF a

\* LTRIM keeps the newest.
LEMMA NewestKeeps ==
    ASSUME NEW q \in Seq(Msgs), QueueCap \in Nat \ {0}
    PROVE  /\ Newest(q) \in Seq(Msgs)
           /\ Len(Newest(q)) <= QueueCap /\ Len(Newest(q)) <= Len(q)
           /\ \A i \in DOMAIN Newest(q) : \E k \in DOMAIN q :
                 q[k] = Newest(q)[i] /\ Len(q) - k = Len(Newest(q)) - i
           /\ \A k \in DOMAIN q : Len(q) - k < QueueCap =>
                 \E i \in DOMAIN Newest(q) :
                    Newest(q)[i] = q[k] /\ Len(Newest(q)) - i = Len(q) - k
<1> DEFINE n == Len(q)
<1>1. n \in Nat /\ DOMAIN q = 1..n
  OBVIOUS
<1>2. CASE n <= QueueCap
  <2>1. Newest(q) = q
    BY <1>1, <1>2 DEF Newest
  <2> QED
    BY <1>1, <1>2, <2>1
<1>3. CASE n > QueueCap
  <2> DEFINE r == SubSeq(q, n - QueueCap + 1, n)
  <2>1. Newest(q) = r
    BY <1>3 DEF Newest
  <2>2. /\ r \in Seq(Msgs) /\ Len(r) = QueueCap /\ DOMAIN r = 1..QueueCap
        /\ \A i \in 1..QueueCap : r[i] = q[i + (n - QueueCap)]
    BY <1>1, <1>3
  <2> HIDE DEF r
  <2>3. ASSUME NEW i \in DOMAIN r
        PROVE  \E k \in DOMAIN q : q[k] = r[i] /\ n - k = Len(r) - i
    <3>1. i + (n - QueueCap) \in 1..n /\ n - (i + (n - QueueCap)) = QueueCap - i
      BY <1>1, <1>3, <2>2
    <3> QED
      BY <1>1, <2>2, <3>1
  <2>4. ASSUME NEW k \in DOMAIN q, n - k < QueueCap
        PROVE  \E i \in DOMAIN r : r[i] = q[k] /\ Len(r) - i = n - k
    <3> DEFINE i == k - (n - QueueCap)
    <3>1. i \in 1..QueueCap /\ i + (n - QueueCap) = k /\ QueueCap - i = n - k
      <4>1. k \in Int /\ k <= n /\ n \in Int /\ QueueCap \in Int /\ n - k < QueueCap
        BY <1>1, <2>4
      <4> QED
        BY <4>1
    <3> HIDE DEF i
    <3> QED
      BY <2>2, <3>1
  <2> QED
    BY <1>1, <1>3, <2>1, <2>2, <2>3, <2>4
<1> QED
  BY <1>1, <1>2, <1>3

\* LREM 1 takes one copy out.
LEMMA FirstRemovedLeaves ==
    ASSUME NEW q \in Seq(Msgs), NEW e
    PROVE  LeftOf(FirstRemoved(q, e), q, e)
<1> DEFINE n == Len(q)
           at == {i \in 1..n : q[i] = e}
<1>1. n \in Nat /\ DOMAIN q = 1..n
  OBVIOUS
<1>2. CASE at = {}
  <2>1. FirstRemoved(q, e) = q
    BY <1>2 DEF FirstRemoved, RemoveFirst
  <2> QED
    BY <1>1, <2>1 DEF LeftOf
<1>3. CASE at # {}
  <2> DEFINE j == Min(at)
             r == SubSeq(q, 1, j - 1) \o SubSeq(q, j + 1, n)
  <2>1. j \in at
    <3>1. at \in SUBSET Nat
      BY <1>1
    <3>2. \E x \in at : \A y \in at : x =< y
      BY <1>3, <3>1, LeastNumber
    <3> QED
      BY <3>2 DEF Min
  <2>2. FirstRemoved(q, e) = r
    BY <1>3 DEF FirstRemoved, RemoveFirst, RemoveAt, SelectInSeq
  <2>3. j \in 1..n /\ q[j] = e
    BY <2>1
  <2> HIDE DEF j
  <2>4. /\ r \in Seq(Msgs) /\ Len(r) = n - 1 /\ DOMAIN r = 1..(n - 1)
        /\ \A i \in 1..(n - 1) : r[i] = IF i < j THEN q[i] ELSE q[i + 1]
    <3> DEFINE a == SubSeq(q, 1, j - 1)
               b == SubSeq(q, j + 1, n)
    <3>1. a \in Seq(Msgs) /\ Len(a) = j - 1 /\ \A i \in 1..(j - 1) : a[i] = q[i]
      BY <1>1, <2>3
    <3>2. b \in Seq(Msgs) /\ Len(b) = n - j /\ \A i \in 1..(n - j) : b[i] = q[i + j]
      <4>1. CASE j = n
        <5>1. b = <<>> /\ n - j = 0
          BY <1>1, <4>1
        <5> HIDE DEF b
        <5>2. <<>> \in Seq(Msgs) /\ Len(<<>>) = 0 /\ 1..0 = {}
          OBVIOUS
        <5> QED
          BY <5>1, <5>2
      <4>2. CASE j < n
        <5>1. j + 1 \in 1..n /\ n \in 1..n /\ n - (j + 1) + 1 = n - j
          BY <1>1, <2>3, <4>2
        <5>2. b \in Seq(Msgs) /\ Len(b) = n - j
          BY <1>1, <5>1
        <5>3. ASSUME NEW i \in 1..(n - j) PROVE b[i] = q[i + j]
          <6>1. (j + 1) + i - 1 = i + j
            BY <2>3
          <6> QED
            BY <1>1, <2>3, <5>1, <6>1
        <5> QED
          BY <5>2, <5>3
      <4>3. j = n \/ j < n
        <5>1. \A k \in Nat : \A i \in 1..k : i = k \/ i < k
          OBVIOUS
        <5> HIDE DEF n
        <5> QED
          BY <1>1, <2>3, <5>1
      <4> HIDE DEF b
      <4> QED
        BY <4>1, <4>2, <4>3
    <3> HIDE DEF a, b
    <3>3. /\ a \o b \in Seq(Msgs) /\ Len(a \o b) = n - 1
          /\ \A i \in 1..(n - 1) : (a \o b)[i] = IF i < j THEN a[i] ELSE b[i - (j - 1)]
      <4>1. a \o b \in Seq(Msgs) /\ Len(a \o b) = Len(a) + Len(b)
        BY <3>1, <3>2
      <4>2. Len(a) + Len(b) = n - 1
        BY <1>1, <2>3, <3>1, <3>2
      <4>3. ASSUME NEW i \in 1..(n - 1)
            PROVE  (a \o b)[i] = IF i < j THEN a[i] ELSE b[i - (j - 1)]
        <5>1. i \in 1..(Len(a) + Len(b)) /\ (i < j <=> i <= Len(a)) /\ Len(a) = j - 1
          BY <1>1, <2>3, <3>1, <4>2
        <5>2. (a \o b)[i] = IF i <= Len(a) THEN a[i] ELSE b[i - Len(a)]
          <6>1. CASE i <= Len(a)
            BY <3>1, <3>2, <5>1, <6>1
          <6>2. CASE ~(i <= Len(a))
            <7>1. /\ a \in Seq(Msgs) /\ b \in Seq(Msgs) /\ Len(a) \in Nat /\ Len(b) \in Nat
                  /\ i \in Nat /\ i > Len(a) /\ i <= Len(a) + Len(b)
              BY <3>1, <3>2, <5>1, <6>2
            <7> QED
              BY <6>2, <7>1
          <6> QED
            BY <6>1, <6>2
        <5> QED
          BY <5>1, <5>2
      <4> QED
        BY <4>1, <4>2, <4>3
    <3>4. ASSUME NEW i \in 1..(n - 1) PROVE (a \o b)[i] = IF i < j THEN q[i] ELSE q[i + 1]
      <4>1. CASE i < j
        BY <2>3, <3>1, <3>3, <4>1
      <4>2. CASE ~(i < j)
        <5>1. i - (j - 1) \in 1..(n - j) /\ (i - (j - 1)) + j = i + 1
          BY <1>1, <2>3, <4>2
        <5> QED
          BY <3>2, <3>3, <4>2, <5>1
      <4> QED
        BY <4>1, <4>2
    <3>5. r = a \o b
      BY DEF a, b, r
    <3> HIDE DEF r
    <3>6. r \in Seq(Msgs) /\ Len(r) = n - 1
      BY <3>3, <3>5
    <3>7. DOMAIN r = 1..(n - 1)
      BY <3>6
    <3>8. \A i \in 1..(n - 1) : r[i] = IF i < j THEN q[i] ELSE q[i + 1]
      BY <3>4, <3>5
    <3> QED
      BY <3>6, <3>7, <3>8
  <2> HIDE DEF r
  <2>5. ASSUME NEW i \in DOMAIN r PROVE \E k \in DOMAIN q : q[k] = r[i]
    <3>1. i \in 1..n /\ i + 1 \in 1..n
      BY <1>1, <2>4
    <3> QED
      BY <1>1, <2>4, <3>1
  <2>6. ASSUME NEW k \in DOMAIN q, q[k] # e
        PROVE  \E i \in DOMAIN r : r[i] = q[k] /\ Len(r) - i <= n - k
    <3>1. CASE k < j
      <4>1. k \in 1..(n - 1) /\ (n - 1) - k <= n - k
        BY <1>1, <2>3, <3>1
      <4> QED
        BY <2>4, <3>1, <4>1
    <3>2. CASE k > j
      <4>1. k - 1 \in 1..(n - 1) /\ ~(k - 1 < j) /\ (k - 1) + 1 = k /\ (n - 1) - (k - 1) <= n - k
        BY <1>1, <2>3, <3>2
      <4> QED
        BY <2>4, <4>1
    <3> QED
      BY <1>1, <2>3, <2>6, <3>1, <3>2
  <2> QED
    BY <1>1, <2>2, <2>4, <2>5, <2>6 DEF LeftOf
<1> QED
  BY <1>2, <1>3

\* LREM 0 goes through the queue: FoldLeft is a recursive function over the sets
\* of positions, taken apart at the greatest.
Kept(rest, f, e) == IF f = e THEN rest ELSE Append(rest, f)

KeptAt(g, q, e) ==
    g = [s \in SUBSET DOMAIN q |->
            IF s = {} THEN <<>> ELSE Kept(g[s \ {Top(s)}], q[Top(s)], e)]
KeptUpTo(g, q, e, n) ==
    \A s \in SUBSET DOMAIN q : Cardinality(s) <= n =>
        g[s] = IF s = {} THEN <<>> ELSE Kept(g[s \ {Top(s)}], q[Top(s)], e)

LEMMA KeptExists ==
    ASSUME NEW q, NEW n \in Nat, DOMAIN q = 1..n, NEW e PROVE \E g : KeptAt(g, q, e)
<1> DEFINE S == DOMAIN q
           G == {m \in Nat : \E g : g = [s \in SUBSET S |-> g[s]] /\ KeptUpTo(g, q, e, m)}
<1>1. 0 \in G
  <2> DEFINE g == [s \in SUBSET S |-> <<>>]
  <2>1. KeptUpTo(g, q, e, 0)
    <3>1. ASSUME NEW s \in SUBSET S, Cardinality(s) <= 0 PROVE s = {}
      <4>1. Cardinality(s) \in Nat /\ (s = {} <=> Cardinality(s) = 0)
        BY TopOut
      <4> QED
        BY <3>1, <4>1
    <3> QED
      BY <3>1 DEF KeptUpTo
  <2>2. g = [s \in SUBSET S |-> g[s]]
    OBVIOUS
  <2> QED
    BY <2>1, <2>2
<1>2. ASSUME NEW m \in Nat, m \in G PROVE m + 1 \in G
  <2>1. PICK g : KeptUpTo(g, q, e, m)
    BY <1>2
  <2> DEFINE h == [s \in SUBSET S |-> IF Cardinality(s) <= m THEN g[s]
                                      ELSE Kept(g[s \ {Top(s)}], q[Top(s)], e)]
  <2>2. ASSUME NEW s \in SUBSET S, Cardinality(s) <= m + 1
        PROVE  h[s] = IF s = {} THEN <<>> ELSE Kept(h[s \ {Top(s)}], q[Top(s)], e)
    <3>1. CASE s = {}
      <4>1. Cardinality(s) <= m
        BY <3>1, FS_EmptySet
      <4> QED
        BY <2>1, <3>1, <4>1 DEF KeptUpTo
    <3>2. CASE s # {}
      <4>1. s \ {Top(s)} \in SUBSET S /\ Cardinality(s \ {Top(s)}) <= m
        BY <2>2, <3>2, TopOut
      <4>2. h[s \ {Top(s)}] = g[s \ {Top(s)}]
        BY <4>1
      <4>3. h[s] = Kept(g[s \ {Top(s)}], q[Top(s)], e)
        <5>1. CASE Cardinality(s) <= m
          BY <2>1, <3>2, <5>1 DEF KeptUpTo
        <5>2. CASE ~(Cardinality(s) <= m)
          BY <5>2
        <5> QED
          BY <5>1, <5>2
      <4> HIDE DEF h
      <4> QED
        BY <3>2, <4>2, <4>3
    <3> QED
      BY <3>1, <3>2
  <2>3. h = [s \in SUBSET S |-> h[s]]
    OBVIOUS
  <2> HIDE DEF h
  <2>4. KeptUpTo(h, q, e, m + 1)
    BY <2>2 DEF KeptUpTo
  <2> QED
    BY <2>3, <2>4
<1>3. n \in G
  <2> HIDE DEF G
  <2> QED
    BY <1>1, <1>2, NatSetInduction
<1>4. PICK g : g = [s \in SUBSET S |-> g[s]] /\ KeptUpTo(g, q, e, n)
  BY <1>3
<1>5. \A s \in SUBSET S :
         g[s] = IF s = {} THEN <<>> ELSE Kept(g[s \ {Top(s)}], q[Top(s)], e)
  BY <1>4, TopOut DEF KeptUpTo
<1> QED
  BY <1>4, <1>5 DEF KeptAt

\* What is kept of the first i of the queue.
KeptSoFar(r, q, e, i) ==
    /\ r \in Seq(Msgs) /\ Len(r) <= i
    /\ \A j \in DOMAIN r : \E k \in DOMAIN q : q[k] = r[j] /\ r[j] # e
    /\ \A k \in 1..i : q[k] # e => \E j \in DOMAIN r : r[j] = q[k] /\ Len(r) - j <= i - k

LEMMA KeptOneMore ==
    ASSUME NEW q \in Seq(Msgs), NEW e, NEW i \in Nat, i + 1 \in DOMAIN q,
           NEW r, KeptSoFar(r, q, e, i)
    PROVE  KeptSoFar(Kept(r, q[i + 1], e), q, e, i + 1)
<1> DEFINE f == q[i + 1]
           a == Append(r, f)
<1>1. r \in Seq(Msgs) /\ Len(r) \in Nat /\ Len(r) <= i /\ f \in Msgs /\ DOMAIN r = 1..Len(r)
  BY DEF KeptSoFar
<1>2. CASE f = e
  <2>1. \A k \in 1..(i + 1) : q[k] # e => k \in 1..i
    BY <1>2
  <2>2. ASSUME NEW k \in 1..(i + 1), q[k] # e
        PROVE  \E j \in DOMAIN r : r[j] = q[k] /\ Len(r) - j <= (i + 1) - k
    <3>1. PICK j \in DOMAIN r : r[j] = q[k] /\ Len(r) - j <= i - k
      BY <2>1, <2>2 DEF KeptSoFar
    <3>2. Len(r) - j <= (i + 1) - k
      BY <1>1, <3>1
    <3> QED
      BY <3>1, <3>2
  <2> QED
    BY <1>1, <1>2, <2>2 DEF KeptSoFar, Kept
<1>3. CASE f # e
  <2>1. /\ a \in Seq(Msgs) /\ Len(a) = Len(r) + 1 /\ DOMAIN a = 1..(Len(r) + 1)
        /\ a[Len(r) + 1] = f /\ \A j \in 1..Len(r) : a[j] = r[j]
    BY <1>1
  <2> HIDE DEF a
  <2>2. ASSUME NEW j \in DOMAIN a PROVE \E k \in DOMAIN q : q[k] = a[j] /\ a[j] # e
    <3>1. CASE j = Len(r) + 1
      BY <1>3, <2>1, <3>1
    <3>2. CASE j # Len(r) + 1
      <4>1. j \in DOMAIN r /\ a[j] = r[j]
        BY <1>1, <2>1, <3>2
      <4> QED
        BY <4>1 DEF KeptSoFar
    <3> QED
      BY <3>1, <3>2
  <2>3. ASSUME NEW k \in 1..(i + 1), q[k] # e
        PROVE  \E j \in DOMAIN a : a[j] = q[k] /\ Len(a) - j <= (i + 1) - k
    <3>1. CASE k = i + 1
      <4>1. Len(r) + 1 \in DOMAIN a /\ Len(a) - (Len(r) + 1) = 0 /\ (i + 1) - k = 0
        BY <1>1, <2>1, <3>1
      <4> QED
        BY <2>1, <3>1, <4>1
    <3>2. CASE k # i + 1
      <4>1. k \in 1..i
        BY <3>2
      <4>2. PICK j \in DOMAIN r : r[j] = q[k] /\ Len(r) - j <= i - k
        BY <2>3, <4>1 DEF KeptSoFar
      <4>3. j \in DOMAIN a /\ a[j] = r[j] /\ Len(a) - j <= (i + 1) - k
        BY <1>1, <2>1, <4>1, <4>2
      <4> QED
        BY <4>2, <4>3
    <3> QED
      BY <3>1, <3>2
  <2>4. Len(a) <= i + 1
    BY <1>1, <2>1
  <2>5. Kept(r, f, e) = a
    BY <1>3 DEF Kept, a
  <2> HIDE DEF f
  <2> QED
    BY <2>1, <2>2, <2>3, <2>4, <2>5 DEF KeptSoFar, f
<1> QED
  BY <1>2, <1>3

LEMMA AllRemovedLeaves ==
    ASSUME NEW q \in Seq(Msgs), NEW e
    PROVE  LeftOf(AllRemoved(q, e), q, e)
<1> DEFINE n == Len(q)
           g == CHOOSE g : KeptAt(g, q, e)
           G == {i \in Nat : i <= n => KeptSoFar(g[1..i], q, e, i)}
<1>1. n \in Nat /\ DOMAIN q = 1..n
  OBVIOUS
<1>2. AllRemoved(q, e) = g[DOMAIN q]
  BY DEF AllRemoved, FoldLeft, MapThenFoldSet, KeptAt, Kept, Top
<1>3. KeptAt(g, q, e)
  BY <1>1, KeptExists
<1> HIDE DEF g
<1>4. 0 \in G
  <2>1. 1..0 = {} /\ {} \in SUBSET DOMAIN q
    OBVIOUS
  <2>2. g[1..0] = <<>>
    BY <1>3, <2>1 DEF KeptAt
  <2>3. KeptSoFar(<<>>, q, e, 0)
    <3>1. <<>> \in Seq(Msgs) /\ Len(<<>>) = 0 /\ DOMAIN <<>> = {}
      OBVIOUS
    <3> QED
      BY <2>1, <3>1 DEF KeptSoFar
  <2> QED
    BY <2>2, <2>3
<1>5. ASSUME NEW i \in Nat, i \in G PROVE i + 1 \in G
  <2> SUFFICES ASSUME i + 1 <= n PROVE KeptSoFar(g[1..(i + 1)], q, e, i + 1)
    OBVIOUS
  <2>1. /\ 1..(i + 1) \in SUBSET DOMAIN q /\ 1..(i + 1) # {} /\ i + 1 \in DOMAIN q
        /\ (1..(i + 1)) \ {i + 1} = 1..i
    <3>1. i + 1 \in 1..(i + 1) /\ \A k : k \in 1..i <=> k \in 1..(i + 1) /\ k # i + 1
      OBVIOUS
    <3>2. \A k \in 1..(i + 1) : k \in 1..n
      BY <1>1
    <3> QED
      BY <1>1, <3>1, <3>2
  <2>2. Top(1..(i + 1)) = i + 1
    <3>1. Top(1..(i + 1)) \in 1..(i + 1) /\ \A y \in 1..(i + 1) : Top(1..(i + 1)) >= y
      <4>1. \E x \in 1..(i + 1) : \A y \in 1..(i + 1) : x >= y
        OBVIOUS
      <4> QED
        BY <4>1 DEF Top, Max
    <3> QED
      BY <3>1
  <2>3. g[1..(i + 1)] = Kept(g[1..i], q[i + 1], e)
    BY <1>3, <2>1, <2>2 DEF KeptAt
  <2>4. KeptSoFar(g[1..i], q, e, i)
    BY <1>1, <1>5
  <2> QED
    BY <2>1, <2>3, <2>4, KeptOneMore
<1>6. n \in G
  <2> HIDE DEF G
  <2> QED
    BY <1>1, <1>4, <1>5, NatSetInduction
<1>7. KeptSoFar(AllRemoved(q, e), q, e, n)
  BY <1>1, <1>2, <1>6
<1> QED
  BY <1>1, <1>7 DEF KeptSoFar, LeftOf

-----------------------------------------------------------------------------
(* What the steps do to the queues                                           *)

\* A queue holds envelopes of its device, and what was pushed counts as such.
QueueFits ==
    /\ queue \in [Devices -> Seq(Msgs)]
    /\ \A d \in Devices : \A k \in DOMAIN queue[d] : To[queue[d][k]] = d
    /\ push \in [Msgs -> {"no", "rpush", "ltrim", "publish", "ok", "failed"}]
    /\ pushes \in [Msgs -> Nat]
    /\ \A e \in Msgs : push[e] # "no" => pushes[e] >= 1

\* A queue loses what was acknowledged or has expired.
Shrinks ==
    /\ \E d \in Devices, e \in acked' \cup expired' :
          /\ queue' = [queue EXCEPT ![d] = queue'[d]]
          /\ LeftOf(queue'[d], queue[d], e)
    /\ UNCHANGED <<push, pushes, recent>>

LEMMA ReplayQueue ==
    ASSUME QueueFits, NEW c \in Conns, Replay(c)
    PROVE  Shrinks \/ UNCHANGED <<queue, push, pushes, recent>>
<1> DEFINE d == DeviceOf(c)
           e == Head(back[c])
<1>1. d \in Devices /\ queue[d] \in Seq(Msgs) /\ queue = [x \in Devices |-> queue[x]]
  BY ChannelsGiven DEF QueueFits, Devices, DeviceOf, Conns
<1>2. CASE e \in expired /\ queue' = [queue EXCEPT ![d] = AllRemoved(@, e)]
  <2>1. queue'[d] = AllRemoved(queue[d], e) /\ queue' = [queue EXCEPT ![d] = queue'[d]]
    BY <1>1, <1>2
  <2>2. LeftOf(queue'[d], queue[d], e)
    BY <1>1, <2>1, AllRemovedLeaves
  <2>3. expired' = expired /\ UNCHANGED <<push, pushes, recent>>
    BY DEF Replay
  <2> QED
    BY <1>1, <1>2, <2>1, <2>2, <2>3 DEF Shrinks
<1>3. CASE UNCHANGED queue
  BY <1>3 DEF Replay
<1> QED
  BY <1>2, <1>3 DEF Replay, ReplayOne

LEMMA AckQueue ==
    ASSUME QueueFits, NEW c \in Conns, AckRemove(c)
    PROVE  Shrinks
<1> DEFINE d == DeviceOf(c)
           e == acking[c]
<1>1. d \in Devices /\ queue[d] \in Seq(Msgs) /\ queue = [x \in Devices |-> queue[x]]
  BY ChannelsGiven DEF QueueFits, Devices, DeviceOf, Conns
<1>2. queue' = [queue EXCEPT ![d] = FirstRemoved(@, e)]
  BY DEF AckRemove
<1>3. queue'[d] = FirstRemoved(queue[d], e) /\ queue' = [queue EXCEPT ![d] = queue'[d]]
  BY <1>1, <1>2
<1>4. LeftOf(queue'[d], queue[d], e)
  BY <1>1, <1>3, FirstRemovedLeaves
<1>5. acked' = acked \cup {e} /\ UNCHANGED <<push, pushes, recent>>
  BY DEF AckRemove
<1> QED
  BY <1>1, <1>3, <1>4, <1>5 DEF Shrinks

LEMMA QueueSteps ==
    ASSUME QueueFits, [Next]_vars
    PROVE  /\ acked \subseteq acked' /\ expired \subseteq expired'
           /\ \/ \E e \in Msgs :
                    Push(e) \/ RPush(e) \/ LTrim(e) \/ PublishLive(e) \/ PushFails(e)
              \/ Shrinks
              \/ UNCHANGED <<queue, push, pushes, recent>>
<1>1. ASSUME NEW e \in Msgs,
             Push(e) \/ RPush(e) \/ LTrim(e) \/ PublishLive(e) \/ PushFails(e)
      PROVE  acked' = acked /\ expired' = expired
  BY <1>1 DEF Push, RPush, LTrim, PublishLive, PushFails
<1>2. ASSUME NEW e \in Msgs, Expire(e)
      PROVE  acked' = acked /\ expired \subseteq expired' /\ UNCHANGED <<queue, push, pushes, recent>>
  BY <1>2 DEF Expire
<1>3. ASSUME NEW c \in Conns,
             Connect(c) \/ SubscribeDevice(c) \/ ReplayRead(c) \/ WriteLive(c) \/ HangUp(c)
                 \/ AckRead(c)
      PROVE  UNCHANGED <<queue, push, pushes, recent, acked, expired>>
  BY <1>3 DEF Connect, SubscribeDevice, ReplayRead, WriteLive, HangUp, AckRead, pushVars
<1>4. ASSUME NEW c \in Conns, Replay(c) \/ AckRemove(c)
      PROVE  acked \subseteq acked' /\ expired' = expired
  BY <1>4 DEF Replay, AckRemove
<1>5. CASE UNCHANGED busVars \/ UNCHANGED vars
  BY <1>5 DEF busVars, vars
<1>6. CASE Next
  BY <1>1, <1>2, <1>3, <1>4, <1>5, <1>6, ReplayQueue, AckQueue DEF Next, DeliveryLoop
<1> QED
  BY <1>5, <1>6

LEMMA InitQueue == BusGiven /\ Init => QueueFits
<1> SUFFICES ASSUME Init PROVE QueueFits
  OBVIOUS
<1>1. <<>> \in Seq(Msgs) /\ DOMAIN <<>> = {}
  OBVIOUS
<1> QED
  BY <1>1 DEF Init, BusInit, QueueFits

LEMMA NextQueue == BusGiven /\ QueueFits /\ [Next]_vars => QueueFits'
<1> SUFFICES ASSUME BusGiven, QueueFits, [Next]_vars PROVE QueueFits'
  OBVIOUS
<1>1. ASSUME NEW e \in Msgs, Push(e) PROVE QueueFits'
  BY <1>1 DEF Push, Pushes, QueueFits
<1>2. ASSUME NEW e \in Msgs, RPush(e) PROVE QueueFits'
  <2> DEFINE d == To[e]
             a == Append(queue[d], e)
  <2>1. d \in Devices /\ queue[d] \in Seq(Msgs)
    BY DEF BusGiven, Devices, QueueFits
  <2>2. /\ a \in Seq(Msgs)
        /\ \A k \in DOMAIN a : a[k] = e \/ (k \in DOMAIN queue[d] /\ a[k] = queue[d][k])
    <3> DEFINE q == queue[d]
    <3>1. q \in Seq(Msgs)
      BY <2>1
    <3> HIDE DEF q
    <3>2. /\ Append(q, e) \in Seq(Msgs)
          /\ \A k \in DOMAIN Append(q, e) :
                Append(q, e)[k] = e \/ (k \in DOMAIN q /\ Append(q, e)[k] = q[k])
      BY <3>1, Appended
    <3> QED
      BY <3>2 DEF q
  <2>3. queue' = [queue EXCEPT ![d] = a] /\ push' = [push EXCEPT ![e] = "ltrim"] /\ pushes' = pushes
    BY <1>2 DEF RPush, Pushes
  <2>4. push[e] = "rpush"
    BY <1>2 DEF RPush
  <2> HIDE DEF a, d
  <2>5. \A k \in DOMAIN a : To[a[k]] = d
    BY <2>1, <2>2 DEF QueueFits, d
  <2> QED
    BY <2>1, <2>2, <2>3, <2>4, <2>5 DEF QueueFits
<1>3. ASSUME NEW e \in Msgs, LTrim(e) PROVE QueueFits'
  <2> DEFINE d == To[e]
             a == Newest(queue[d])
  <2>1. d \in Devices /\ queue[d] \in Seq(Msgs)
    BY DEF BusGiven, Devices, QueueFits
  <2>2. /\ a \in Seq(Msgs)
        /\ \A k \in DOMAIN a : \E i \in DOMAIN queue[d] : a[k] = queue[d][i]
    BY <2>1, NewestKeeps DEF BusGiven
  <2>3. /\ queue' = [queue EXCEPT ![d] = a] /\ push' = [push EXCEPT ![e] = "publish"]
        /\ pushes' = pushes /\ push[e] = "ltrim"
    BY <1>3 DEF LTrim, Pushes, Trimmed
  <2> HIDE DEF a, d
  <2>4. \A k \in DOMAIN a : To[a[k]] = d
    BY <2>1, <2>2 DEF QueueFits
  <2> QED
    BY <2>1, <2>2, <2>3, <2>4 DEF QueueFits
<1>4. ASSUME NEW e \in Msgs, PublishLive(e) \/ PushFails(e) PROVE QueueFits'
  BY <1>4 DEF PublishLive, PushFails, Pushes, QueueFits
<1>5. CASE Shrinks
  <2>1. PICK d \in Devices, e \in acked' \cup expired' :
           queue' = [queue EXCEPT ![d] = queue'[d]] /\ LeftOf(queue'[d], queue[d], e)
    BY <1>5 DEF Shrinks
  <2> DEFINE a == queue'[d]
  <2>2. /\ a \in Seq(Msgs)
        /\ \A k \in DOMAIN a : \E i \in DOMAIN queue[d] : queue[d][i] = a[k]
    BY <2>1 DEF LeftOf
  <2>3. queue' = [queue EXCEPT ![d] = a]
    BY <2>1
  <2> HIDE DEF a
  <2>4. \A k \in DOMAIN a : To[a[k]] = d
    BY <2>1, <2>2 DEF QueueFits
  <2> QED
    BY <1>5, <2>2, <2>3, <2>4 DEF QueueFits, Shrinks
<1>6. CASE UNCHANGED <<queue, push, pushes, recent>>
  BY <1>6 DEF QueueFits
<1> QED
  BY <1>1, <1>2, <1>3, <1>4, <1>5, <1>6, QueueSteps

-----------------------------------------------------------------------------
(* Nothing leaves a queue early: of what came last, each that is not done    *)
(* with is in the queue, and with no more after it than came since.  The     *)
(* count is what makes LTRIM harmless: it keeps whatever has fewer than      *)
(* QueueCap after it.                                                        *)

Backed(q, r, done) ==
    \A j \in DOMAIN r : r[j] \notin done =>
        \E k \in DOMAIN q : q[k] = r[j] /\ Len(q) - k <= Len(r) - j

KeptInv ==
    /\ recent \in [Devices -> Seq(Msgs)]
    /\ \A d \in Devices : /\ Len(recent[d]) <= QueueCap
                          /\ Backed(queue[d], recent[d], acked \cup expired)

LEMMA BackedAppended ==
    ASSUME NEW q \in Seq(Msgs), NEW r \in Seq(Msgs), NEW done, NEW e \in Msgs,
           QueueCap \in Nat \ {0}, Backed(q, r, done)
    PROVE  Backed(Append(q, e), Newest(Append(r, e)), done)
<1> DEFINE a == Append(q, e)
           b == Append(r, e)
           w == Newest(b)
<1> SUFFICES ASSUME NEW j \in DOMAIN w, w[j] \notin done
             PROVE  \E k \in DOMAIN a : a[k] = w[j] /\ Len(a) - k <= Len(w) - j
  BY DEF Backed
<1>1. /\ b \in Seq(Msgs) /\ Len(b) = Len(r) + 1 /\ b[Len(r) + 1] = e /\ Len(r) \in Nat
      /\ DOMAIN r = 1..Len(r)
      /\ \A k \in DOMAIN r : b[k] = r[k]
      /\ \A k \in DOMAIN b : k \in DOMAIN r \/ k = Len(r) + 1
  BY Appended
<1>2. /\ Len(a) = Len(q) + 1 /\ a[Len(q) + 1] = e /\ Len(q) \in Nat
      /\ DOMAIN q = 1..Len(q) /\ DOMAIN a = 1..(Len(q) + 1)
      /\ \A k \in DOMAIN q : k \in DOMAIN a /\ a[k] = q[k]
  BY Appended
<1>3. PICK i \in DOMAIN b : b[i] = w[j] /\ Len(b) - i = Len(w) - j
  <2> HIDE DEF b
  <2> QED
    BY <1>1, NewestKeeps
<1> HIDE DEF a, b, w
<1>4. CASE i = Len(r) + 1
  <2>1. Len(q) + 1 \in DOMAIN a /\ Len(a) - (Len(q) + 1) = 0 /\ Len(w) - j = 0
    BY <1>1, <1>2, <1>3, <1>4
  <2>2. a[Len(q) + 1] = w[j]
    BY <1>1, <1>2, <1>3, <1>4
  <2> QED
    BY <2>1, <2>2
<1>5. CASE i \in DOMAIN r
  <2>1. r[i] = w[j]
    BY <1>1, <1>3, <1>5
  <2>2. PICK k \in DOMAIN q : q[k] = r[i] /\ Len(q) - k <= Len(r) - i
    BY <1>5, <2>1 DEF Backed
  <2>3. k \in DOMAIN a /\ a[k] = w[j]
    BY <1>2, <2>1, <2>2
  <2>4. Len(a) - k <= Len(w) - j
    <3>1. Len(a) - k = (Len(q) - k) + 1 /\ Len(b) - i = (Len(r) - i) + 1
      BY <1>1, <1>2, <1>5, <2>2
    <3>2. Len(q) - k \in Int /\ Len(r) - i \in Int
      BY <1>1, <1>2, <1>5, <2>2
    <3> QED
      BY <1>3, <2>2, <3>1, <3>2
  <2> QED
    BY <2>3, <2>4
<1> QED
  BY <1>1, <1>3, <1>4, <1>5

LEMMA BackedTrimmed ==
    ASSUME NEW q \in Seq(Msgs), NEW r \in Seq(Msgs), NEW done,
           QueueCap \in Nat \ {0}, Len(r) <= QueueCap, Backed(q, r, done)
    PROVE  Backed(Newest(q), r, done)
<1> DEFINE w == Newest(q)
<1> SUFFICES ASSUME NEW j \in DOMAIN r, r[j] \notin done
             PROVE  \E k \in DOMAIN w : w[k] = r[j] /\ Len(w) - k <= Len(r) - j
  BY DEF Backed
<1>1. PICK k \in DOMAIN q : q[k] = r[j] /\ Len(q) - k <= Len(r) - j
  BY DEF Backed
<1>2. Len(q) - k < QueueCap
  BY <1>1
<1>3. PICK i \in DOMAIN w : w[i] = q[k] /\ Len(w) - i = Len(q) - k
  BY <1>2, NewestKeeps
<1> HIDE DEF w
<1> QED
  BY <1>1, <1>3

LEMMA BackedLess ==
    ASSUME NEW q \in Seq(Msgs), NEW w, NEW r \in Seq(Msgs), NEW done, NEW e \in done,
           LeftOf(w, q, e), Backed(q, r, done)
    PROVE  Backed(w, r, done)
<1> SUFFICES ASSUME NEW j \in DOMAIN r, r[j] \notin done
             PROVE  \E k \in DOMAIN w : w[k] = r[j] /\ Len(w) - k <= Len(r) - j
  BY DEF Backed
<1>1. PICK k \in DOMAIN q : q[k] = r[j] /\ Len(q) - k <= Len(r) - j
  BY DEF Backed
<1>2. PICK i \in DOMAIN w : w[i] = q[k] /\ Len(w) - i <= Len(q) - k
  BY <1>1 DEF LeftOf
<1>3. Len(w) - i \in Int /\ Len(q) - k \in Int /\ Len(r) - j \in Int
  BY DEF LeftOf
<1>4. Len(w) - i <= Len(r) - j
  BY <1>1, <1>2, <1>3
<1> QED
  BY <1>1, <1>2, <1>4

LEMMA InitKept == BusGiven /\ Init => KeptInv
<1>1. <<>> \in Seq(Msgs) /\ DOMAIN <<>> = {} /\ Len(<<>>) = 0
  OBVIOUS
<1> QED
  BY <1>1 DEF BusGiven, Init, BusInit, KeptInv, Backed

LEMMA NextKept == BusGiven /\ QueueFits /\ KeptInv /\ [Next]_vars => KeptInv'
<1> SUFFICES ASSUME BusGiven, QueueFits, KeptInv, [Next]_vars PROVE KeptInv'
  OBVIOUS
<1> DEFINE done == acked \cup expired
           later == acked' \cup expired'
<1>a. QueueCap \in Nat \ {0}
  BY DEF BusGiven
<1>b. \A d \in Devices : queue[d] \in Seq(Msgs) /\ recent[d] \in Seq(Msgs)
  BY DEF QueueFits, KeptInv
<1>c. done \subseteq later
  BY QueueSteps
<1>d. ASSUME NEW d \in Devices PROVE Backed(queue[d], recent[d], later)
  BY <1>c, <1>d DEF KeptInv, Backed
<1>e. \A d \in Devices : Len(recent[d]) <= QueueCap
  BY DEF KeptInv
<1> HIDE DEF later
<1>1. ASSUME NEW e \in Msgs, RPush(e) PROVE KeptInv'
  <2> DEFINE d == To[e]
             a == Append(queue[d], e)
             b == Newest(Append(recent[d], e))
  <2>1. d \in Devices
    BY DEF BusGiven, Devices
  <2>2. Append(recent[d], e) \in Seq(Msgs)
    BY <1>b, <2>1, Appended
  <2>3. b \in Seq(Msgs) /\ Len(b) <= QueueCap
    BY <1>a, <2>2, NewestKeeps
  <2>4. Backed(a, b, later)
    BY <1>a, <1>b, <1>d, <2>1, BackedAppended
  <2>5. queue' = [queue EXCEPT ![d] = a] /\ recent' = [recent EXCEPT ![d] = b]
    BY <1>1 DEF RPush
  <2> HIDE DEF a, b, d
  <2> QED
    BY <1>d, <1>e, <2>1, <2>3, <2>4, <2>5 DEF KeptInv, QueueFits, later
<1>2. ASSUME NEW e \in Msgs, LTrim(e) PROVE KeptInv'
  <2> DEFINE d == To[e]
             a == Newest(queue[d])
  <2>1. d \in Devices
    BY DEF BusGiven, Devices
  <2>2. Backed(a, recent[d], later)
    BY <1>a, <1>b, <1>d, <1>e, <2>1, BackedTrimmed
  <2>3. queue' = [queue EXCEPT ![d] = a] /\ recent' = recent
    BY <1>2 DEF LTrim, Trimmed
  <2> HIDE DEF a, d
  <2> QED
    BY <1>d, <1>e, <2>1, <2>2, <2>3 DEF KeptInv, QueueFits, later
<1>3. CASE Shrinks
  <2>1. PICK d \in Devices, e \in later :
           queue' = [queue EXCEPT ![d] = queue'[d]] /\ LeftOf(queue'[d], queue[d], e)
    BY <1>3 DEF Shrinks, later
  <2>2. Backed(queue'[d], recent[d], later)
    BY <1>b, <1>d, <2>1, BackedLess
  <2>3. recent' = recent
    BY <1>3 DEF Shrinks
  <2>4. \A x \in Devices : x # d => queue'[x] = queue[x]
    BY <2>1 DEF QueueFits
  <2> QED
    BY <1>d, <1>e, <2>2, <2>3, <2>4 DEF KeptInv, later
<1>4. CASE UNCHANGED <<queue, recent>>
  BY <1>4, <1>d, <1>e DEF KeptInv, later
<1>5. ASSUME NEW e \in Msgs, Push(e) \/ PublishLive(e) \/ PushFails(e)
      PROVE  UNCHANGED <<queue, recent>>
  BY <1>5 DEF Push, PublishLive, PushFails
<1> QED
  BY <1>1, <1>2, <1>3, <1>4, <1>5, QueueSteps

\* SyncBus: an envelope leaves its queue by an ack, by expiry or by QueueCap
\* newer ones, whatever pipelines, replays and acks interleave and fail.
THEOREM LeavesByAck == Spec => []KeptUntilAcked
<1>1. QueueFits /\ KeptInv => KeptUntilAcked
  <2> SUFFICES ASSUME QueueFits, KeptInv, NEW d \in Devices, NEW x \in Range(recent[d]),
                      x \notin acked \cup expired
               PROVE  x \in Range(queue[d])
    BY DEF KeptUntilAcked
  <2>1. PICK j \in DOMAIN recent[d] : recent[d][j] = x
    BY DEF Range
  <2>2. \E k \in DOMAIN queue[d] : queue[d][k] = x
    BY <2>1 DEF KeptInv, Backed
  <2> QED
    BY <2>2 DEF Range
<1> QED
  BY BusAssumption, InitQueue, InitKept, NextQueue, NextKept, <1>1, PTL DEF Spec

-----------------------------------------------------------------------------
(* A queue is over its cap only by pushes that have appended and not got to  *)
(* their LTRIM.  One that has not appended yet is not counted either: then   *)
(* RPUSH adds one to both sides, a failure keeps what it counts, and LTRIM   *)
(* takes the length below the cap whatever is counted.                       *)

Owing ==
    [e \in Msgs |-> IF push[e] \in {"rpush", "publish", "ok"} THEN pushes[e] - 1 ELSE pushes[e]]

ForDevice(d) == {e \in Msgs : To[e] = d}

CapInv ==
    \A d \in Devices : Len(queue[d]) <= QueueCap + SumFunctionOnSet(Owing, ForDevice(d))

LEMMA OwingCounts ==
    ASSUME QueueFits
    PROVE  \A e \in Msgs : Owing[e] \in Nat /\ Untrimmed[e] \in Nat /\ Owing[e] <= Untrimmed[e]
<1> SUFFICES ASSUME NEW e \in Msgs
             PROVE  Owing[e] \in Nat /\ Untrimmed[e] \in Nat /\ Owing[e] <= Untrimmed[e]
  OBVIOUS
<1>1. pushes[e] \in Nat /\ (push[e] # "no" => pushes[e] >= 1)
  BY DEF QueueFits
<1> QED
  BY <1>1 DEF Owing, Untrimmed

LEMMA ForDeviceFinite ==
    ASSUME BusGiven, NEW d PROVE IsFiniteSet(ForDevice(d)) /\ ForDevice(d) \subseteq Msgs
BY FS_Subset DEF BusGiven, ForDevice

\* What is owed does not fall where no count does, and grows with one of them.
LEMMA OwedGrows ==
    ASSUME BusGiven, QueueFits, QueueFits', NEW d,
           \A e \in Msgs : Owing[e] <= Owing'[e],
           NEW k \in Msgs, NEW more \in Nat, Owing[k] + more <= Owing'[k]
    PROVE  SumFunctionOnSet(Owing, ForDevice(d)) + (IF k \in ForDevice(d) THEN more ELSE 0)
               <= SumFunctionOnSet(Owing', ForDevice(d))
<1> DEFINE S == ForDevice(d)
           later == Owing'
<1>1. IsFiniteSet(S) /\ S \subseteq Msgs
  BY ForDeviceFinite
<1>2. \A e \in Msgs : Owing[e] \in Nat
  BY OwingCounts
<1>3. ASSUME NEW e \in Msgs PROVE Owing'[e] \in Nat
  <2>1. pushes'[e] \in Nat /\ (push'[e] # "no" => pushes'[e] >= 1)
    BY DEF QueueFits
  <2> QED
    BY <2>1 DEF Owing
<1>4. \A e \in Msgs : later[e] \in Nat
  BY <1>3
<1> HIDE DEF S, later
<1>5. \A e \in S : Owing[e] \in Int /\ later[e] \in Int /\ Owing[e] <= later[e]
  BY <1>1, <1>2, <1>4 DEF later
<1>6. k \in S => Owing[k] + more <= later[k]
  BY DEF later
<1>7. SumFunctionOnSet(Owing, S) + (IF k \in S THEN more ELSE 0) <= SumFunctionOnSet(later, S)
  BY <1>1, <1>5, <1>6, SumLess
<1> QED
  BY <1>7 DEF S, later

\* Only an append makes a queue longer, and its push then owes one more.
LEMMA NextCap == BusGiven /\ QueueFits /\ CapInv /\ QueueFits' /\ [Next]_vars => CapInv'
<1> SUFFICES ASSUME BusGiven, QueueFits, CapInv, QueueFits', [Next]_vars PROVE CapInv'
  OBVIOUS
<1> DEFINE owed(d) == SumFunctionOnSet(Owing, ForDevice(d))
           owing(d) == SumFunctionOnSet(Owing', ForDevice(d))
<1>a. QueueCap \in Nat \ {0} /\ To \in [Msgs -> Devices]
  BY DEF BusGiven, Devices
<1>b. \A d \in Devices : /\ Len(queue[d]) \in Nat /\ Len(queue'[d]) \in Nat
                         /\ Len(queue[d]) <= QueueCap + owed(d)
  BY DEF QueueFits, CapInv
<1>c. \A d \in Devices : owed(d) \in Nat /\ owing(d) \in Nat
  <2> SUFFICES ASSUME NEW d \in Devices PROVE owed(d) \in Nat /\ owing(d) \in Nat
    OBVIOUS
  <2> DEFINE S == ForDevice(d)
             later == Owing'
  <2>1. IsFiniteSet(S) /\ S \subseteq Msgs
    BY ForDeviceFinite
  <2>2. \A e \in Msgs : Owing[e] \in Nat
    BY OwingCounts
  <2>3. \A e \in Msgs : later[e] \in Nat
    <3> SUFFICES ASSUME NEW e \in Msgs PROVE later[e] \in Nat
      OBVIOUS
    <3>1. pushes'[e] \in Nat /\ (push'[e] # "no" => pushes'[e] >= 1)
      BY DEF QueueFits
    <3> QED
      BY <3>1 DEF Owing
  <2> HIDE DEF S, later
  <2>4. SumFunctionOnSet(Owing, S) \in Nat /\ SumFunctionOnSet(later, S) \in Nat
    BY <2>1, <2>2, <2>3, SumNat
  <2> QED
    BY <2>4 DEF S, later
<1> HIDE DEF owed, owing
\* Where no count falls, the cap is kept by what does not append.
<1>d. ASSUME \A e \in Msgs : Owing[e] <= Owing'[e], NEW d \in Devices
      PROVE  owed(d) <= owing(d)
  <2>1. CASE Msgs = {}
    <3>1. ForDevice(d) = {}
      BY <2>1 DEF ForDevice
    <3> QED
      BY <1>c, <3>1, SumEmpty DEF owed, owing
  <2>2. ASSUME NEW k \in Msgs PROVE owed(d) <= owing(d)
    <3>1. Owing[k] + 0 <= Owing'[k]
      <4>1. Owing[k] \in Nat
        BY OwingCounts
      <4> QED
        BY <1>d, <4>1
    <3>2. owed(d) + (IF k \in ForDevice(d) THEN 0 ELSE 0) <= owing(d)
      BY <1>d, <3>1, OwedGrows DEF owed, owing
    <3> QED
      BY <1>c, <3>2
  <2> QED
    BY <2>1, <2>2
<1>e. ASSUME \A e \in Msgs : Owing[e] <= Owing'[e],
             \A d \in Devices : Len(queue'[d]) <= Len(queue[d])
      PROVE  CapInv'
  <2>1. ASSUME NEW d \in Devices PROVE Len(queue'[d]) <= QueueCap + owing(d)
    BY <1>a, <1>b, <1>c, <1>d, <1>e
  <2> QED
    BY <2>1 DEF CapInv, owing
<1>f. \A e \in Msgs : Owing[e] \in Nat
  BY OwingCounts
<1>1. ASSUME NEW e \in Msgs, Push(e) \/ PublishLive(e) \/ PushFails(e) PROVE CapInv'
  <2>1. UNCHANGED queue
    BY <1>1 DEF Push, PublishLive, PushFails
  <2>2. ASSUME NEW x \in Msgs PROVE Owing[x] <= Owing'[x]
    <3>1. CASE x # e
      <4>1. push'[x] = push[x] /\ pushes'[x] = pushes[x]
        BY <1>1, <3>1 DEF Push, PublishLive, PushFails, Pushes, QueueFits
      <4>2. Owing'[x] = Owing[x]
        BY <4>1 DEF Owing
      <4> QED
        BY <1>f, <4>2
    <3>2. CASE x = e
      <4>1. pushes[e] \in Nat
        BY DEF QueueFits
      <4>2. CASE Push(e)
        <5>1. push[e] \in {"no", "failed"} /\ push'[e] = "rpush" /\ pushes'[e] = pushes[e] + 1
          BY <4>2 DEF Push, Pushes, QueueFits
        <5> QED
          BY <3>2, <4>1, <5>1 DEF Owing
      <4>3. CASE PublishLive(e)
        <5>1. push[e] = "publish" /\ push'[e] \in {"ok", "failed"} /\ pushes'[e] = pushes[e]
          BY <4>3 DEF PublishLive, Pushes, QueueFits
        <5> QED
          BY <3>2, <4>1, <5>1 DEF Owing
      <4>4. CASE PushFails(e)
        <5>1. push'[e] = "failed" /\ pushes'[e] = pushes[e]
          BY <4>4 DEF PushFails, Pushes, QueueFits
        <5> QED
          BY <3>2, <4>1, <5>1 DEF Owing
      <4> QED
        BY <1>1, <4>2, <4>3, <4>4
    <3> QED
      BY <3>1, <3>2
  <2> QED
    BY <1>b, <1>e, <2>1, <2>2
<1>2. ASSUME NEW e \in Msgs, RPush(e) PROVE CapInv'
  <2>1. /\ push[e] = "rpush" /\ push' = [push EXCEPT ![e] = "ltrim"] /\ pushes' = pushes
        /\ queue' = [queue EXCEPT ![To[e]] = Append(@, e)]
    BY <1>2 DEF RPush, Pushes
  <2>2. pushes[e] \in Nat /\ push'[e] = "ltrim"
    BY <2>1 DEF QueueFits
  <2>3. Owing[e] + 1 <= Owing'[e]
    BY <2>1, <2>2 DEF Owing
  <2>4. \A x \in Msgs : Owing[x] <= Owing'[x]
    <3>1. ASSUME NEW x \in Msgs, x # e PROVE Owing'[x] = Owing[x]
      <4>1. push'[x] = push[x]
        BY <2>1, <3>1 DEF QueueFits
      <4> QED
        BY <2>1, <4>1 DEF Owing
    <3>2. \A x \in Msgs : Owing'[x] \in Nat
      <4> SUFFICES ASSUME NEW x \in Msgs PROVE Owing'[x] \in Nat
        OBVIOUS
      <4>1. pushes'[x] \in Nat /\ (push'[x] # "no" => pushes'[x] >= 1)
        BY DEF QueueFits
      <4> QED
        BY <4>1 DEF Owing
    <3> QED
      BY <1>f, <2>3, <3>1, <3>2
  <2>5. ASSUME NEW d \in Devices PROVE Len(queue'[d]) <= QueueCap + owing(d)
    <3>1. CASE d # To[e]
      <4>1. queue'[d] = queue[d] /\ owed(d) <= owing(d)
        BY <1>d, <2>1, <2>4, <3>1 DEF QueueFits
      <4> QED
        BY <1>a, <1>b, <1>c, <4>1
    <3>2. CASE d = To[e]
      <4>1. queue[d] \in Seq(Msgs) /\ queue'[d] = Append(queue[d], e)
        BY <2>1, <3>2 DEF QueueFits
      <4>2. Len(queue'[d]) = Len(queue[d]) + 1
        BY <4>1
      <4>3. owed(d) + (IF e \in ForDevice(d) THEN 1 ELSE 0) <= owing(d)
        BY <2>3, <2>4, OwedGrows DEF owed, owing
      <4>4. e \in ForDevice(d)
        BY <3>2 DEF ForDevice
      <4> QED
        BY <1>a, <1>b, <1>c, <4>2, <4>3, <4>4
    <3> QED
      BY <3>1, <3>2
  <2> QED
    BY <2>5 DEF CapInv, owing
<1>3. ASSUME NEW e \in Msgs, LTrim(e) PROVE CapInv'
  <2>1. /\ push[e] = "ltrim" /\ push' = [push EXCEPT ![e] = "publish"] /\ pushes' = pushes
        /\ queue' = [queue EXCEPT ![To[e]] = Newest(@)]
    BY <1>3 DEF LTrim, Pushes, Trimmed
  <2>2. ASSUME NEW d \in Devices PROVE Len(queue'[d]) <= QueueCap + owing(d)
    <3>1. CASE d = To[e]
      <4>1. queue[d] \in Seq(Msgs) /\ queue'[d] = Newest(queue[d])
        BY <2>1, <3>1 DEF QueueFits
      <4>2. Len(queue'[d]) <= QueueCap
        BY <1>a, <4>1, NewestKeeps
      <4> QED
        BY <1>a, <1>b, <1>c, <4>2
    <3>2. CASE d # To[e]
      <4>1. queue'[d] = queue[d]
        BY <2>1, <3>2 DEF QueueFits
      <4>2. owing(d) = owed(d)
        <5> DEFINE S == ForDevice(d)
                   later == Owing'
        <5>1. IsFiniteSet(S) /\ S \subseteq Msgs /\ e \notin S
          BY <3>2, ForDeviceFinite DEF ForDevice
        <5>2. \A x \in S : later[x] = Owing[x]
          <6>1. ASSUME NEW x \in S PROVE later[x] = Owing[x]
            <7>1. x \in Msgs /\ push'[x] = push[x]
              BY <2>1, <5>1 DEF QueueFits
            <7> QED
              BY <2>1, <7>1 DEF Owing
          <6> QED
            BY <6>1
        <5> HIDE DEF S, later
        <5>3. SumFunctionOnSet(Owing, S) = SumFunctionOnSet(later, S)
          BY <5>1, <5>2, SumSame
        <5> QED
          BY <5>3 DEF S, later, owed, owing
      <4> QED
        BY <1>b, <4>1, <4>2
    <3> QED
      BY <3>1, <3>2
  <2> QED
    BY <2>2 DEF CapInv, owing
<1>4. CASE Shrinks
  <2>1. PICK d \in Devices, e \in acked' \cup expired' :
           queue' = [queue EXCEPT ![d] = queue'[d]] /\ LeftOf(queue'[d], queue[d], e)
    BY <1>4 DEF Shrinks
  <2>2. \A x \in Devices : x = d \/ queue'[x] = queue[x]
    BY <2>1 DEF QueueFits
  <2>3. \A x \in Devices : Len(queue'[x]) <= Len(queue[x])
    BY <1>b, <2>1, <2>2 DEF LeftOf
  <2>4. \A x \in Msgs : Owing'[x] = Owing[x]
    BY <1>4 DEF Shrinks, Owing
  <2> QED
    BY <1>e, <1>f, <2>3, <2>4
<1>5. CASE UNCHANGED <<queue, push, pushes, recent>>
  <2>1. \A x \in Msgs : Owing'[x] = Owing[x]
    BY <1>5 DEF Owing
  <2> QED
    BY <1>5, <1>b, <1>e, <1>f, <2>1
<1> QED
  BY <1>1, <1>2, <1>3, <1>4, <1>5, QueueSteps

LEMMA InitCap == BusGiven /\ Init => CapInv
<1> SUFFICES ASSUME BusGiven, Init, NEW d \in Devices
             PROVE  Len(queue[d]) <= QueueCap + SumFunctionOnSet(Owing, ForDevice(d))
  BY DEF CapInv
<1>1. IsFiniteSet(ForDevice(d)) /\ \A e \in ForDevice(d) : Owing[e] \in Nat
  BY InitQueue, OwingCounts, ForDeviceFinite
<1>2. SumFunctionOnSet(Owing, ForDevice(d)) \in Nat
  BY <1>1, SumNat
<1>3. Len(queue[d]) = 0
  BY DEF Init, BusInit
<1> QED
  BY <1>2, <1>3 DEF BusGiven

\* SyncBus: a backlog is held to QueueCap but for the envelopes of pushes that
\* have not got to their LTRIM, though pushes fail anywhere and are retried.
THEOREM HeldToCap == Spec => []BacklogBounded
<1>1. QueueFits /\ CapInv => BacklogBounded
  <2> SUFFICES ASSUME QueueFits, CapInv, NEW d \in Devices
               PROVE  Len(queue[d]) <= QueueCap + SumFunctionOnSet(Untrimmed, ForDevice(d))
    BY DEF BacklogBounded, ForDevice
  <2> DEFINE S == ForDevice(d)
  <2>1. IsFiniteSet(S) /\ S \subseteq Msgs
    BY BusAssumption, ForDeviceFinite
  <2>2. \A e \in S : /\ Owing[e] \in Nat /\ Untrimmed[e] \in Nat
                     /\ Owing[e] \in Int /\ Untrimmed[e] \in Int /\ Owing[e] <= Untrimmed[e]
    BY <2>1, OwingCounts
  <2>3. Len(queue[d]) \in Nat /\ Len(queue[d]) <= QueueCap + SumFunctionOnSet(Owing, S)
    BY DEF CapInv, QueueFits
  <2> HIDE DEF S
  <2>4. SumFunctionOnSet(Owing, S) \in Nat /\ SumFunctionOnSet(Untrimmed, S) \in Nat
    BY <2>1, <2>2, SumNat
  <2>5. \A k : SumFunctionOnSet(Owing, S) + (IF k \in S THEN 0 ELSE 0)
                    <= SumFunctionOnSet(Untrimmed, S)
    <3> TAKE k
    <3>1. k \in S => Owing[k] + 0 <= Untrimmed[k]
      BY <2>2
    <3> QED
      BY <2>1, <2>2, <3>1, SumLess
  <2>6. Len(queue[d]) <= QueueCap + SumFunctionOnSet(Untrimmed, S)
    BY <2>3, <2>4, <2>5, BusAssumption DEF BusGiven
  <2> QED
    BY <2>6 DEF S
<1> QED
  BY BusAssumption, InitQueue, InitCap, NextQueue, NextCap, <1>1, PTL DEF Spec

-----------------------------------------------------------------------------
(* Nothing falls between the replay and the live messages: from LRANGE on,   *)
(* what is owed to a connection is still to be replayed, written, or on its  *)
(* way, because the connection has been in the dispatcher's table since      *)
(* before LRANGE.                                                            *)

\* The steps of a delivery loop, in their order.
LEMMA LoopOrder ==
    /\ Head(Order) = "subscribe"
    /\ After["subscribe"] = "lrange" /\ After["lrange"] = "replay" /\ After["replay"] = "live"
<1>1. /\ Order[1] = "subscribe" /\ Order[2] = "lrange" /\ Order[3] = "replay" /\ Order[4] = "live"
      /\ Head(Order) = "subscribe" /\ DOMAIN Order = 1..4 /\ Len(Order) = 4
  BY DEF Order
<1>2. /\ (CHOOSE i \in DOMAIN Order : Order[i] = "subscribe") = 1
      /\ (CHOOSE i \in DOMAIN Order : Order[i] = "lrange") = 2
      /\ (CHOOSE i \in DOMAIN Order : Order[i] = "replay") = 3
  BY <1>1
<1>3. {"subscribe", "lrange", "replay"} \subseteq Range(Front(Order))
  <2>1. Front(Order) = SubSeq(Order, 1, 3)
    BY <1>1 DEF Front
  <2>2. /\ DOMAIN Front(Order) = 1..3 /\ Front(Order)[1] = "subscribe"
        /\ Front(Order)[2] = "lrange" /\ Front(Order)[3] = "replay"
    BY <1>1, <2>1 DEF Order
  <2> QED
    BY <2>2 DEF Range
<1> QED
  BY <1>1, <1>2, <1>3 DEF After

\* The dispatcher sends each envelope on the channel of its device.
WayFits ==
    /\ box \in [Subs -> Seq(Msgs)]
    /\ inbox \in Seq(Message)
    /\ \A i \in DOMAIN inbox : inbox[i].on = To[inbox[i].msg]
    /\ Waiting \/ fan \in [msg : Msgs, to : SUBSET Subs]
    /\ losses \in Nat

\* From LRANGE on a connection is in the table.
ConnFits ==
    /\ subs \in [Channels -> SUBSET Subs]
    /\ chan \in [Subs -> {"none", "open", "closed"}]
    /\ loop \in [Conns -> {"no", "gone", "subscribe", "lrange", "replay", "live"}]
    /\ back \in [Conns -> Seq(Msgs)]
    /\ shown \in [Conns -> SUBSET Msgs]
    /\ \A c \in Conns : loop[c] \in {"lrange", "replay", "live"} =>
          c \in subs[DeviceOf(c)] /\ chan[c] = "open"
    /\ \A c \in Conns : loop[c] = "live" => back[c] = <<>>

Owed(c, e) ==
    /\ loop[c] \in {"replay", "live"}
    /\ e \in Range(queue[DeviceOf(c)])
    /\ push[e] = "ok" /\ e \notin expired

InReach(c, e) == e \in Range(back[c]) \/ e \in shown[c] \/ Coming(c, e) \/ Missed(c, e)

Reached == \A c \in Conns, e \in Msgs : Owed(c, e) => InReach(c, e)

GapInv == QueueFits /\ WayFits /\ ConnFits /\ (losses = 0 => Reached)

LEMMA InitGap == BusGiven /\ Init => GapInv
<1> SUFFICES ASSUME BusGiven, Init PROVE GapInv
  OBVIOUS
<1>1. <<>> \in Seq(Msgs) /\ <<>> \in Seq(Message) /\ DOMAIN <<>> = {}
  OBVIOUS
<1>2. WayFits
  BY <1>1 DEF Init, DispatcherInit, WayFits, Waiting
<1>3. ConnFits
  BY <1>1 DEF Init, DispatcherInit, BusInit, ConnFits
<1>4. Reached
  BY DEF Init, BusInit, Reached, Owed
<1> QED
  BY <1>2, <1>3, <1>4, InitQueue DEF GapInv

LEMMA NextWay == BusGiven /\ WayFits /\ ConnFits /\ [Next]_vars => WayFits'
<1> SUFFICES ASSUME BusGiven, WayFits, ConnFits, [Next]_vars PROVE WayFits'
  OBVIOUS
<1>a. inbox \in Seq(Message) /\ losses \in Nat
  BY DEF WayFits
<1>1. CASE UNCHANGED <<box, inbox, fan, losses>>
  BY <1>1 DEF WayFits, Waiting
<1>2. ASSUME NEW e \in Msgs, PublishLive(e) PROVE WayFits'
  <2> DEFINE letter == [on |-> To[e], msg |-> e]
  <2>1. letter \in Message /\ letter.on = To[letter.msg]
    BY DEF Message, BusGiven
  <2> HIDE DEF letter
  <2>2. Append(inbox, letter) \in Seq(Message)
        /\ \A i \in DOMAIN Append(inbox, letter) :
              Append(inbox, letter)[i] = letter
                \/ (i \in DOMAIN inbox /\ Append(inbox, letter)[i] = inbox[i])
    BY <1>a, <2>1
  <2>3. inbox' = inbox \/ inbox' = Append(inbox, letter)
    BY <1>2 DEF PublishLive, Sent, letter
  <2>4. /\ inbox' \in Seq(Message)
        /\ \A i \in DOMAIN inbox' : inbox'[i].on = To[inbox'[i].msg]
    BY <2>1, <2>2, <2>3 DEF WayFits
  <2>5. UNCHANGED <<box, fan, losses>>
    BY <1>2 DEF PublishLive, redisVars
  <2> QED
    BY <2>4, <2>5 DEF WayFits, Waiting
<1>3. ASSUME NEW c \in Conns, WriteLive(c) PROVE WayFits'
  <2>1. /\ Tail(box[c]) \in Seq(Msgs) /\ box' = [box EXCEPT ![c] = Tail(@)]
        /\ UNCHANGED <<inbox, fan, losses>>
    BY <1>3 DEF WriteLive, Receive, WayFits, Conns, redisVars
  <2> QED
    BY <2>1 DEF WayFits, Waiting
<1>4. ASSUME NEW c \in Conns, HangUp(c) PROVE WayFits'
  <2>1. /\ box' = [box EXCEPT ![c] = <<>>] \/ box' = box
        /\ UNCHANGED <<inbox, fan, losses>>
    BY <1>4 DEF HangUp, Abandon, remove, dispatcherVars
  <2>2. <<>> \in Seq(Msgs)
    OBVIOUS
  <2> QED
    BY <2>1, <2>2 DEF WayFits, Waiting
<1>5. CASE Take
  <2>1. inbox # <<>>
    BY <1>5 DEF Take
  <2>2. /\ Head(inbox) \in Message /\ Tail(inbox) \in Seq(Message)
        /\ \A i \in DOMAIN Tail(inbox) : i + 1 \in DOMAIN inbox /\ Tail(inbox)[i] = inbox[i + 1]
    BY <1>a, <2>1
  <2>3. subs[Head(inbox).on] \in SUBSET Subs /\ Head(inbox).msg \in Msgs
    BY <2>2 DEF Message, ConnFits
  <2>4. /\ fan' = IF subs[Head(inbox).on] = {} THEN Nobody
                  ELSE [msg |-> Head(inbox).msg, to |-> subs[Head(inbox).on]]
        /\ inbox' = Tail(inbox) /\ UNCHANGED <<box, losses>>
    BY <1>5 DEF Take, redisVars
  <2>5. \A i \in DOMAIN inbox' : inbox'[i].on = To[inbox'[i].msg]
    BY <2>2, <2>4 DEF WayFits
  <2>6. fan' = Nobody \/ fan' \in [msg : Msgs, to : SUBSET Subs]
    BY <2>3, <2>4
  <2> QED
    BY <2>2, <2>4, <2>5, <2>6 DEF WayFits, Waiting
<1>6. CASE Send
  <2>1. PICK s \in fan.to :
           TrySend(s) /\ fan' = IF fan.to = {s} THEN Nobody ELSE [fan EXCEPT !.to = @ \ {s}]
    BY <1>6 DEF Send
  <2>2. fan \in [msg : Msgs, to : SUBSET Subs]
    BY <1>6 DEF Send, WayFits
  <2>3. fan.msg \in Msgs /\ s \in Subs
    BY <2>1, <2>2
  <2>4. box' \in [Subs -> Seq(Msgs)]
    <3>1. box \in [Subs -> Seq(Msgs)] /\ Append(box[s], fan.msg) \in Seq(Msgs)
      BY <2>3 DEF WayFits
    <3>2. box' = box \/ box' = [box EXCEPT ![s] = Append(box[s], fan.msg)]
      BY <2>1 DEF TrySend
    <3> QED
      BY <3>1, <3>2
  <2>5. fan' = Nobody \/ fan' \in [msg : Msgs, to : SUBSET Subs]
    <3>1. [fan EXCEPT !.to = @ \ {s}] \in [msg : Msgs, to : SUBSET Subs]
      BY <2>2
    <3> QED
      BY <2>1, <3>1
  <2>6. UNCHANGED <<inbox, losses>>
    BY <1>6 DEF Send, redisVars
  <2> QED
    BY <2>4, <2>5, <2>6 DEF WayFits, Waiting
<1>7. CASE ConnectionLost
  <2>1. UNCHANGED <<box, fan>> /\ losses' \in Nat
    BY <1>7, <1>a DEF ConnectionLost
  <2>2. PICK n \in 0..Len(inbox) : inbox' = SubSeq(inbox, 1, n)
    BY <1>7 DEF ConnectionLost, Cut
  <2>3. /\ inbox' \in Seq(Message)
        /\ \A i \in DOMAIN inbox' : i \in DOMAIN inbox /\ inbox'[i] = inbox[i]
    BY <1>a, <2>2
  <2>4. \A i \in DOMAIN inbox' : inbox'[i].on = To[inbox'[i].msg]
    BY <2>3 DEF WayFits
  <2> QED
    BY <2>1, <2>3, <2>4 DEF WayFits, Waiting
<1>8. Next => \/ UNCHANGED <<box, inbox, fan, losses>>
              \/ \E e \in Msgs : PublishLive(e)
              \/ \E c \in Conns : WriteLive(c) \/ HangUp(c)
              \/ Take \/ Send \/ ConnectionLost
  <2>1. ASSUME NEW e \in Msgs, Push(e) \/ RPush(e) \/ LTrim(e) \/ PushFails(e) \/ Expire(e)
        PROVE  UNCHANGED <<box, inbox, fan, losses>>
    BY <2>1 DEF Push, RPush, LTrim, PushFails, Expire, dispatcherVars
  <2>2. ASSUME NEW c \in Conns, Connect(c) \/ SubscribeDevice(c) \/ ReplayRead(c) \/ Replay(c)
                                  \/ AckRead(c) \/ AckRemove(c)
        PROVE  UNCHANGED <<box, inbox, fan, losses>>
    BY <2>2 DEF Connect, SubscribeDevice, Subscribe, ReplayRead, Replay, AckRead, AckRemove,
                dispatcherVars
  <2>3. RedisExecutes => UNCHANGED <<box, inbox, fan, losses>>
    BY DEF RedisExecutes
  <2> QED
    BY <2>1, <2>2, <2>3 DEF Next, DeliveryLoop
<1> QED
  BY <1>1, <1>2, <1>3, <1>4, <1>5, <1>6, <1>7, <1>8 DEF vars

LEMMA NextConn == BusGiven /\ QueueFits /\ WayFits /\ ConnFits /\ [Next]_vars => ConnFits'
<1> SUFFICES ASSUME BusGiven, QueueFits, WayFits, ConnFits, [Next]_vars PROVE ConnFits'
  OBVIOUS
<1>a. \A c \in Conns : c \in Subs /\ DeviceOf(c) \in Channels /\ DeviceOf(c) = ChannelOf[c]
  BY ChannelsGiven DEF Conns, DeviceOf
<1>1. CASE UNCHANGED <<subs, chan, loop, back, shown>>
  BY <1>1 DEF ConnFits
<1>2. ASSUME NEW c \in Conns, Connect(c) PROVE ConnFits'
  <2>1. /\ loop' = [loop EXCEPT ![c] = "subscribe"]
        /\ UNCHANGED <<subs, chan, back, shown>>
    BY <1>2, LoopOrder DEF Connect, dispatcherVars
  <2> QED
    BY <2>1 DEF ConnFits
<1>3. ASSUME NEW c \in Conns, SubscribeDevice(c) PROVE ConnFits'
  <2>1. /\ loop' = [loop EXCEPT ![c] = "lrange"]
        /\ subs' = [subs EXCEPT ![DeviceOf(c)] = @ \cup {c}]
        /\ chan' = [chan EXCEPT ![c] = "open"]
        /\ UNCHANGED <<back, shown>>
    BY <1>3, <1>a, LoopOrder DEF SubscribeDevice, Subscribe, Done
  <2> QED
    BY <2>1, <1>a DEF ConnFits, Conns
<1>4. ASSUME NEW c \in Conns, ReplayRead(c) PROVE ConnFits'
  <2>1. /\ loop' = [loop EXCEPT ![c] = "replay"] /\ loop[c] = "lrange"
        /\ back' = [back EXCEPT ![c] = queue[DeviceOf(c)]]
        /\ UNCHANGED <<subs, chan, shown>>
    BY <1>4, LoopOrder DEF ReplayRead, Done, dispatcherVars
  <2>2. queue[DeviceOf(c)] \in Seq(Msgs)
    BY <1>a DEF QueueFits, Devices
  <2> QED
    BY <2>1, <2>2 DEF ConnFits
<1>5. ASSUME NEW c \in Conns, Replay(c) PROVE ConnFits'
  <2>1. loop[c] = "replay" /\ UNCHANGED <<subs, chan>> /\ back[c] \in Seq(Msgs)
    BY <1>5 DEF Replay, dispatcherVars, ConnFits
  <2>2. CASE back[c] # <<>> /\ ReplayOne(c) /\ UNCHANGED loop
    <3>1. Tail(back[c]) \in Seq(Msgs) /\ Head(back[c]) \in Msgs
      BY <2>1, <2>2
    <3>2. /\ back' = [back EXCEPT ![c] = Tail(@)]
          /\ shown' = shown \/ shown' = [shown EXCEPT ![c] = @ \cup {Head(back[c])}]
      BY <2>2 DEF ReplayOne
    <3>3. back' \in [Conns -> Seq(Msgs)] /\ \A o \in Conns : o # c => back'[o] = back[o]
      BY <3>1, <3>2 DEF ConnFits
    <3>4. shown' \in [Conns -> SUBSET Msgs]
      BY <3>1, <3>2 DEF ConnFits
    <3>5. UNCHANGED <<subs, chan, loop>>
      BY <2>1, <2>2
    <3>6. \A o \in Conns : loop[o] = "live" => o # c /\ back'[o] = <<>>
      BY <2>1, <3>3 DEF ConnFits
    <3> QED
      BY <3>3, <3>4, <3>5, <3>6 DEF ConnFits
  <2>3. CASE back[c] = <<>> /\ Done(c, "replay") /\ UNCHANGED <<queue, back, shown>>
    <3>1. loop' = [loop EXCEPT ![c] = "live"]
      BY <2>3, LoopOrder DEF Done
    <3> QED
      BY <2>1, <2>3, <3>1 DEF ConnFits
  <2> QED
    BY <1>5, <2>2, <2>3 DEF Replay
<1>6. ASSUME NEW c \in Conns, WriteLive(c) PROVE ConnFits'
  <2>1. Head(box[c]) \in Msgs
    BY <1>6, <1>a DEF WriteLive, Receive, WayFits
  <2>2. /\ shown' = [shown EXCEPT ![c] = @ \cup {Head(box[c])}]
        /\ UNCHANGED <<subs, chan, loop, back>>
    BY <1>6 DEF WriteLive, Receive, tableVars
  <2> QED
    BY <2>1, <2>2 DEF ConnFits
<1>7. ASSUME NEW c \in Conns, HangUp(c) PROVE ConnFits'
  <2>1. /\ loop' = [loop EXCEPT ![c] = "gone"]
        /\ back' = [back EXCEPT ![c] = <<>>]
        /\ shown' = [shown EXCEPT ![c] = {}]
    BY <1>7 DEF HangUp
  <2>2. \/ UNCHANGED <<subs, chan>>
        \/ /\ subs' = [subs EXCEPT ![DeviceOf(c)] = @ \ {c}]
           /\ chan' = [chan EXCEPT ![c] = "closed"]
    BY <1>7, <1>a DEF HangUp, Abandon, remove, dispatcherVars
  <2>3. /\ subs' \in [Channels -> SUBSET Subs]
        /\ chan' \in [Subs -> {"none", "open", "closed"}]
        /\ \A o \in Conns :
              o # c => (o \in subs[DeviceOf(o)] => o \in subs'[DeviceOf(o)]) /\ chan'[o] = chan[o]
    <3>1. CASE UNCHANGED <<subs, chan>>
      BY <3>1 DEF ConnFits
    <3>2. CASE /\ subs' = [subs EXCEPT ![DeviceOf(c)] = @ \ {c}]
               /\ chan' = [chan EXCEPT ![c] = "closed"]
      <4>1. subs' \in [Channels -> SUBSET Subs] /\ chan' \in [Subs -> {"none", "open", "closed"}]
        BY <1>a, <3>2 DEF ConnFits
      <4>2. ASSUME NEW o \in Conns, o # c
            PROVE  (o \in subs[DeviceOf(o)] => o \in subs'[DeviceOf(o)]) /\ chan'[o] = chan[o]
        BY <1>a, <3>2, <4>2 DEF ConnFits
      <4> QED
        BY <4>1, <4>2
    <3> QED
      BY <2>2, <3>1, <3>2
  <2>4. <<>> \in Seq(Msgs)
    OBVIOUS
  <2> QED
    BY <2>1, <2>3, <2>4 DEF ConnFits
<1>8. Next => \/ UNCHANGED <<subs, chan, loop, back, shown>>
              \/ \E c \in Conns : \/ Connect(c) \/ SubscribeDevice(c) \/ ReplayRead(c)
                                  \/ Replay(c) \/ WriteLive(c) \/ HangUp(c)
  <2>1. ASSUME NEW e \in Msgs, Push(e) \/ RPush(e) \/ LTrim(e) \/ PublishLive(e) \/ PushFails(e)
                                  \/ Expire(e)
        PROVE  UNCHANGED <<subs, chan, loop, back, shown>>
    BY <2>1 DEF Push, RPush, LTrim, PublishLive, PushFails, Expire, dispatcherVars, connVars,
                tableVars
  <2>2. ASSUME NEW c \in Conns, AckRead(c) \/ AckRemove(c)
        PROVE  UNCHANGED <<subs, chan, loop, back, shown>>
    BY <2>2 DEF AckRead, AckRemove, dispatcherVars
  <2>3. ASSUME Take \/ Send \/ RedisExecutes \/ ConnectionLost, UNCHANGED busVars
        PROVE  UNCHANGED <<subs, chan, loop, back, shown>>
    BY <2>3 DEF Take, Send, RedisExecutes, ConnectionLost, tableVars, busVars
  <2> QED
    BY <2>1, <2>2, <2>3 DEF Next, DeliveryLoop
<1> QED
  BY <1>1, <1>2, <1>3, <1>4, <1>5, <1>6, <1>7, <1>8 DEF vars

\* What is owed was owed before, or has just been pushed, or is about to be
\* replayed.
LEMMA OwedBefore ==
    ASSUME BusGiven, QueueFits, ConnFits, [Next]_vars,
           NEW c \in Conns, NEW e \in Msgs, Owed(c, e)'
    PROVE  Owed(c, e) \/ PublishLive(e) \/ ReplayRead(c)
<1> DEFINE d == DeviceOf(c)
<1>1. d \in Devices
  BY ChannelsGiven DEF DeviceOf, Conns, Devices
<1>2. push[e] = "ok" \/ PublishLive(e)
  <2>1. push'[e] = "ok"
    BY DEF Owed
  <2>2. CASE Shrinks \/ UNCHANGED <<queue, push, pushes, recent>>
    BY <2>1, <2>2 DEF Shrinks
  <2>3. ASSUME NEW x \in Msgs, Push(x) \/ RPush(x) \/ LTrim(x) \/ PushFails(x)
        PROVE  push[e] = "ok"
    <3>1. PICK step \in {"rpush", "ltrim", "publish", "failed"} : push' = [push EXCEPT ![x] = step]
      BY <2>3 DEF Push, RPush, LTrim, PushFails, Pushes
    <3> QED
      BY <2>1, <3>1 DEF QueueFits
  <2>4. ASSUME NEW x \in Msgs, PublishLive(x) PROVE push[e] = "ok" \/ PublishLive(e)
    <3>1. x = e \/ push'[e] = push[e]
      BY <2>4 DEF PublishLive, Pushes, QueueFits
    <3> QED
      BY <2>1, <2>4, <3>1
  <2> QED
    BY <2>2, <2>3, <2>4, QueueSteps
<1>3. e \in Range(queue[d])
  <2>1. push'[e] = "ok" /\ e \in Range(queue'[d])
    BY DEF Owed
  <2>2. PICK k \in DOMAIN queue'[d] : queue'[d][k] = e
    BY <2>1 DEF Range
  <2>3. CASE queue'[d] = queue[d]
    BY <2>1, <2>3
  <2>4. ASSUME NEW x \in Msgs, RPush(x) PROVE e \in Range(queue[d])
    <3>1. /\ push' = [push EXCEPT ![x] = "ltrim"]
          /\ queue' = [queue EXCEPT ![To[x]] = Append(@, x)]
      BY <2>4 DEF RPush, Pushes
    <3>2. x # e
      BY <2>1, <3>1 DEF QueueFits
    <3>3. CASE To[x] # d
      BY <1>1, <2>1, <3>1, <3>3 DEF QueueFits
    <3>4. CASE To[x] = d
      <4>1. queue[d] \in Seq(Msgs) /\ queue'[d] = Append(queue[d], x)
        BY <1>1, <3>1, <3>4 DEF QueueFits
      <4>2. k \in DOMAIN queue[d] /\ queue[d][k] = e
        BY <2>2, <3>2, <4>1, Appended
      <4> QED
        BY <4>2 DEF Range
    <3> QED
      BY <3>3, <3>4
  <2>5. ASSUME NEW x \in Msgs, LTrim(x) PROVE e \in Range(queue[d])
    <3>1. queue[d] \in Seq(Msgs) /\ (queue'[d] = queue[d] \/ queue'[d] = Newest(queue[d]))
      BY <1>1, <2>5 DEF LTrim, Trimmed, QueueFits
    <3>2. CASE queue'[d] = Newest(queue[d])
      <4>1. \E i \in DOMAIN queue[d] : queue[d][i] = e
        BY <2>2, <3>1, <3>2, NewestKeeps DEF BusGiven
      <4> QED
        BY <4>1 DEF Range
    <3> QED
      BY <2>3, <3>1, <3>2
  <2>6. CASE Shrinks
    <3>1. PICK o \in Devices, x \in acked' \cup expired' :
             queue' = [queue EXCEPT ![o] = queue'[o]] /\ LeftOf(queue'[o], queue[o], x)
      BY <2>6 DEF Shrinks
    <3>2. CASE o = d
      <4>1. \E i \in DOMAIN queue[d] : queue[d][i] = e
        BY <2>2, <3>1, <3>2 DEF LeftOf
      <4> QED
        BY <4>1 DEF Range
    <3>3. CASE o # d
      BY <1>1, <2>3, <3>1, <3>3 DEF QueueFits
    <3> QED
      BY <3>2, <3>3
  <2>7. ASSUME NEW x \in Msgs, Push(x) \/ PublishLive(x) \/ PushFails(x)
        PROVE  queue' = queue
    BY <2>7 DEF Push, PublishLive, PushFails
  <2> QED
    BY <2>3, <2>4, <2>5, <2>6, <2>7, QueueSteps
<1>4. e \notin expired
  BY QueueSteps DEF Owed
<1>5. loop[c] \in {"replay", "live"} \/ ReplayRead(c)
  <2>1. loop'[c] \in {"replay", "live"}
    BY DEF Owed
  <2>2. CASE UNCHANGED loop
    BY <2>1, <2>2
  <2>3. ASSUME NEW o \in Conns, Connect(o) \/ SubscribeDevice(o) \/ HangUp(o)
        PROVE  loop[c] \in {"replay", "live"}
    <3>1. PICK step \in {"subscribe", "lrange", "gone"} : loop' = [loop EXCEPT ![o] = step]
      BY <2>3, LoopOrder DEF Connect, SubscribeDevice, HangUp, Done
    <3> QED
      BY <2>1, <3>1 DEF ConnFits
  <2>4. ASSUME NEW o \in Conns, ReplayRead(o) PROVE loop[c] \in {"replay", "live"} \/ ReplayRead(c)
    <3>1. o = c \/ loop'[c] = loop[c]
      BY <2>4 DEF ReplayRead, Done, ConnFits
    <3> QED
      BY <2>1, <2>4, <3>1
  <2>5. ASSUME NEW o \in Conns, Replay(o) PROVE loop[c] \in {"replay", "live"}
    <3>1. loop[o] = "replay" /\ (o = c \/ loop'[c] = loop[c])
      BY <2>5 DEF Replay, Done, ConnFits
    <3> QED
      BY <2>1, <3>1
  <2>6. Next => \/ UNCHANGED loop
                \/ \E o \in Conns : \/ Connect(o) \/ SubscribeDevice(o) \/ HangUp(o)
                                    \/ ReplayRead(o) \/ Replay(o)
    <3>1. ASSUME NEW x \in Msgs, Push(x) \/ RPush(x) \/ LTrim(x) \/ PublishLive(x)
                                    \/ PushFails(x) \/ Expire(x)
          PROVE  UNCHANGED loop
      BY <3>1 DEF Push, RPush, LTrim, PublishLive, PushFails, Expire, connVars
    <3>2. ASSUME NEW o \in Conns, WriteLive(o) \/ AckRead(o) \/ AckRemove(o)
          PROVE  UNCHANGED loop
      BY <3>2 DEF WriteLive, AckRead, AckRemove
    <3>3. UNCHANGED busVars => UNCHANGED loop
      BY DEF busVars
    <3> QED
      BY <3>1, <3>2, <3>3 DEF Next, DeliveryLoop
  <2> QED
    BY <2>2, <2>3, <2>4, <2>5, <2>6 DEF vars
<1> QED
  BY <1>2, <1>3, <1>4, <1>5 DEF Owed

\* What is in a sequence is its head or in its tail, and stays when one is added.
LEMMA InSteps ==
    ASSUME NEW S, NEW q \in Seq(S), NEW e
    PROVE  /\ e \in Range(q) => q # <<>> /\ (e = Head(q) \/ e \in Range(Tail(q)))
           /\ \A x \in S : e \in Range(q) \/ e = x => e \in Range(Append(q, x))
<1>1. ASSUME e \in Range(q) PROVE q # <<>> /\ (e = Head(q) \/ e \in Range(Tail(q)))
  <2>1. PICK k \in DOMAIN q : q[k] = e
    BY <1>1 DEF Range
  <2>2. q # <<>> /\ k \in 1..Len(q) /\ Len(q) \in Nat
    BY <2>1
  <2>3. CASE k = 1
    BY <2>1, <2>2, <2>3
  <2>4. CASE k # 1
    <3>1. k - 1 \in 1..Len(Tail(q)) /\ Tail(q)[k - 1] = e
      BY <2>1, <2>2, <2>4
    <3>2. DOMAIN Tail(q) = 1..Len(Tail(q))
      BY <2>2
    <3> QED
      BY <2>2, <3>1, <3>2 DEF Range
  <2> QED
    BY <2>3, <2>4, <2>2
<1>2. ASSUME NEW x \in S, e \in Range(q) \/ e = x PROVE e \in Range(Append(q, x))
  <2> DEFINE a == Append(q, x)
  <2>1. /\ DOMAIN a = 1..(Len(q) + 1) /\ Len(q) \in Nat /\ a[Len(q) + 1] = x
        /\ \A k \in DOMAIN q : k \in DOMAIN a /\ a[k] = q[k]
    OBVIOUS
  <2> HIDE DEF a
  <2>2. CASE e = x
    <3>1. Len(q) + 1 \in DOMAIN a
      BY <2>1
    <3> QED
      BY <2>1, <2>2, <3>1 DEF Range
  <2>3. CASE e \in Range(q)
    BY <2>1, <2>3 DEF Range
  <2> QED
    BY <1>2, <2>2, <2>3
<1> QED
  BY <1>1, <1>2

\* What concerns neither the connection nor the way to it.
LEMMA SameReach ==
    ASSUME NEW c \in Conns, NEW e \in Msgs, InReach(c, e),
           UNCHANGED <<fan, inbox, full>>,
           back'[c] = back[c], shown'[c] = shown[c], box'[c] = box[c],
           <<c, e>> \in unlisted => <<c, e>> \in unlisted'
    PROVE  InReach(c, e)'
BY DEF InReach, Coming, Missed, Waiting

LEMMA TakeReaches ==
    ASSUME BusGiven, QueueFits, WayFits, ConnFits, Take, UNCHANGED busVars,
           NEW c \in Conns, NEW e \in Msgs, Owed(c, e), InReach(c, e)
    PROVE  InReach(c, e)'
<1> DEFINE to == subs[Head(inbox).on]
<1>1. /\ Waiting /\ inbox # <<>> /\ inbox' = Tail(inbox) /\ UNCHANGED <<box, full>>
      /\ fan' = IF to = {} THEN Nobody ELSE [msg |-> Head(inbox).msg, to |-> to]
  BY DEF Take
<1>2. UNCHANGED <<back, shown, unlisted>>
  BY DEF busVars
<1>3. ASSUME NEW i \in DOMAIN inbox, inbox[i].msg = e PROVE Coming(c, e)'
  <2>1. inbox \in Seq(Message)
    BY DEF WayFits
  <2>2. CASE i = 1
    <3>1. Head(inbox) = inbox[1] /\ 1 \in DOMAIN inbox
      BY <1>1, <2>1
    <3>2. Head(inbox).msg = e /\ Head(inbox).on = To[e]
      BY <1>3, <2>2, <3>1 DEF WayFits
    <3>3. To[e] = DeviceOf(c) /\ c \in subs[DeviceOf(c)]
      <4>1. PICK k \in DOMAIN queue[DeviceOf(c)] : queue[DeviceOf(c)][k] = e
        BY DEF Owed, Range
      <4>2. DeviceOf(c) \in Devices
        BY ChannelsGiven DEF DeviceOf, Conns, Devices
      <4> QED
        BY <4>1, <4>2 DEF QueueFits, ConnFits, Owed
    <3>4. c \in to /\ fan' = [msg |-> e, to |-> to]
      BY <1>1, <3>2, <3>3
    <3>5. fan'.msg = e /\ c \in fan'.to /\ fan' # Nobody
      BY <3>4 DEF Nobody
    <3> QED
      BY <3>5 DEF Coming, Waiting
  <2>3. CASE i # 1
    <3>1. i - 1 \in DOMAIN Tail(inbox) /\ Tail(inbox)[i - 1] = inbox[i]
      BY <1>1, <2>1, <2>3
    <3> QED
      BY <1>1, <1>3, <3>1 DEF Coming
  <2> QED
    BY <2>2, <2>3
<1>4. Coming(c, e) => Coming(c, e)'
  BY <1>1, <1>3 DEF Coming
<1> QED
  BY <1>1, <1>2, <1>4 DEF InReach, Missed

LEMMA SendReaches ==
    ASSUME WayFits, ConnFits, Send, UNCHANGED busVars,
           NEW c \in Conns, NEW e \in Msgs, Owed(c, e), InReach(c, e)
    PROVE  InReach(c, e)'
<1>1. PICK s \in fan.to :
         TrySend(s) /\ fan' = IF fan.to = {s} THEN Nobody ELSE [fan EXCEPT !.to = @ \ {s}]
  BY DEF Send
<1>2. fan \in [msg : Msgs, to : SUBSET Subs] /\ s \in Subs /\ fan.msg \in Msgs
  BY <1>1 DEF Send, WayFits
<1>3. UNCHANGED <<inbox, back, shown, unlisted>>
  BY DEF Send, busVars
<1>4. full \subseteq full' /\ (e \in Range(box[c]) => e \in Range(box'[c]))
  <2>1. box \in [Subs -> Seq(Msgs)] /\ c \in Subs
    BY DEF WayFits, Conns
  <2>2. \/ UNCHANGED box /\ full \subseteq full'
        \/ box' = [box EXCEPT ![s] = Append(@, fan.msg)] /\ UNCHANGED full
    BY <1>1 DEF TrySend
  <2>3. CASE box' = [box EXCEPT ![s] = Append(@, fan.msg)] /\ UNCHANGED full
    <3>1. CASE s = c
      <4>1. box'[c] = Append(box[c], fan.msg) /\ box[c] \in Seq(Msgs)
        BY <2>1, <2>3, <3>1
      <4> QED
        BY <1>2, <2>3, <4>1, InSteps
    <3>2. CASE s # c
      BY <2>1, <2>3, <3>2
    <3> QED
      BY <3>1, <3>2
  <2> QED
    BY <2>2, <2>3
<1>5. ASSUME fan.msg = e, c \in fan.to PROVE InReach(c, e)'
  <2>1. CASE s = c
    <3>1. chan[c] = "open"
      BY DEF Owed, ConnFits
    <3>2. \/ box' = [box EXCEPT ![c] = Append(@, e)]
          \/ full' = full \cup {<<c, e>>}
      BY <1>1, <1>5, <2>1, <3>1 DEF TrySend
    <3>3. CASE box' = [box EXCEPT ![c] = Append(@, e)]
      <4>1. box[c] \in Seq(Msgs) /\ box'[c] = Append(box[c], e)
        BY <3>3 DEF WayFits, Conns
      <4>2. e \in Range(box'[c])
        BY <4>1, InSteps
      <4> QED
        BY <4>2 DEF InReach, Coming
    <3>4. CASE full' = full \cup {<<c, e>>}
      BY <3>4 DEF InReach, Missed
    <3> QED
      BY <3>2, <3>3, <3>4
  <2>2. CASE s # c
    <3>1. fan' = [fan EXCEPT !.to = @ \ {s}]
      BY <1>1, <1>5, <2>2
    <3>2. fan'.msg = e /\ c \in fan'.to
      BY <1>2, <1>5, <2>2, <3>1
    <3>3. fan' # Nobody
      BY <3>2 DEF Nobody
    <3> QED
      BY <3>2, <3>3 DEF InReach, Coming, Waiting
  <2> QED
    BY <2>1, <2>2
<1> QED
  BY <1>3, <1>4, <1>5 DEF InReach, Coming, Missed

LEMMA ReachKept ==
    ASSUME BusGiven, QueueFits, WayFits, ConnFits, [Next]_vars, losses' = losses,
           NEW c \in Conns, NEW e \in Msgs, Owed(c, e), Owed(c, e)', InReach(c, e)
    PROVE  InReach(c, e)'
<1>a. /\ back \in [Conns -> Seq(Msgs)] /\ shown \in [Conns -> SUBSET Msgs]
      /\ box \in [Conns -> Seq(Msgs)] /\ loop[c] \in {"replay", "live"} /\ c \in Subs
  BY DEF ConnFits, WayFits, Conns, Owed
<1>1. CASE UNCHANGED <<back, shown, box, fan, inbox, full, unlisted>>
  BY <1>1, SameReach
<1>2. ASSUME NEW x \in Msgs, PublishLive(x) PROVE InReach(c, e)'
  <2>1. UNCHANGED <<back, shown, box, fan, full>> /\ unlisted \subseteq unlisted'
    BY <1>2 DEF PublishLive, connVars
  <2>2. ASSUME NEW i \in DOMAIN inbox PROVE i \in DOMAIN inbox' /\ inbox'[i] = inbox[i]
    <3>1. inbox \in Seq(Message) /\ [on |-> To[x], msg |-> x] \in Message
      BY DEF WayFits, Message, BusGiven
    <3>2. inbox' = inbox \/ inbox' = Append(inbox, [on |-> To[x], msg |-> x])
      BY <1>2 DEF PublishLive, Sent
    <3> QED
      BY <3>1, <3>2
  <2>3. Coming(c, e) => Coming(c, e)'
    BY <2>1, <2>2 DEF Coming, Waiting
  <2> QED
    BY <2>1, <2>3 DEF InReach, Missed
<1>3. ASSUME NEW o \in Conns, ReplayRead(o) PROVE InReach(c, e)'
  <2>1. o # c
    BY <1>3, <1>a DEF ReplayRead
  <2>2. back'[c] = back[c] /\ UNCHANGED <<shown, box, fan, inbox, full, unlisted>>
    BY <1>3, <1>a, <2>1 DEF ReplayRead, dispatcherVars
  <2> QED
    BY <2>2, SameReach
<1>4. ASSUME NEW o \in Conns, Replay(o) PROVE InReach(c, e)'
  <2>1. UNCHANGED <<box, fan, inbox, full, unlisted>>
    BY <1>4 DEF Replay, dispatcherVars
  <2>2. CASE UNCHANGED <<back, shown>> \/ o # c
    <3>1. back'[c] = back[c] /\ shown'[c] = shown[c]
      BY <1>4, <1>a, <2>2 DEF Replay, ReplayOne
    <3> QED
      BY <2>1, <3>1, SameReach
  <2>3. CASE o = c /\ back[c] # <<>> /\ ReplayOne(c)
    <3>1. /\ back'[c] = Tail(back[c])
          /\ shown[c] \subseteq shown'[c]
          /\ Head(back[c]) \notin expired => Head(back[c]) \in shown'[c]
      BY <1>a, <2>3 DEF ReplayOne
    <3>2. back[c] \in Seq(Msgs)
      BY <1>a
    <3>3. e \in Range(back[c]) => e = Head(back[c]) \/ e \in Range(back'[c])
      BY <3>1, <3>2, InSteps
    <3>4. e \notin expired
      BY DEF Owed
    <3> QED
      BY <2>1, <3>1, <3>3, <3>4 DEF InReach, Coming, Missed, Waiting
  <2> QED
    BY <1>4, <2>2, <2>3 DEF Replay
<1>5. ASSUME NEW o \in Conns, WriteLive(o) PROVE InReach(c, e)'
  <2>1. UNCHANGED <<back, fan, inbox, full, unlisted>>
    BY <1>5 DEF WriteLive, Receive
  <2>2. /\ box' = [box EXCEPT ![o] = Tail(@)]
        /\ shown' = [shown EXCEPT ![o] = @ \cup {Head(box[o])}]
    BY <1>5 DEF WriteLive, Receive
  <2>3. CASE o = c
    <3>1. /\ box[c] \in Seq(Msgs) /\ box'[c] = Tail(box[c])
          /\ shown'[c] = shown[c] \cup {Head(box[c])}
      BY <1>a, <2>2, <2>3
    <3>2. e \in Range(box[c]) => e = Head(box[c]) \/ e \in Range(box'[c])
      BY <3>1, InSteps
    <3> QED
      BY <2>1, <3>1, <3>2 DEF InReach, Coming, Missed, Waiting
  <2>4. CASE o # c
    <3>1. box'[c] = box[c] /\ shown'[c] = shown[c]
      BY <1>a, <2>2, <2>4
    <3> QED
      BY <2>1, <3>1, SameReach
  <2> QED
    BY <2>3, <2>4
<1>6. ASSUME NEW o \in Conns, HangUp(o) PROVE InReach(c, e)'
  <2>1. /\ loop' = [loop EXCEPT ![o] = "gone"]
        /\ back' = [back EXCEPT ![o] = <<>>]
        /\ shown' = [shown EXCEPT ![o] = {}]
        /\ unlisted' = {m \in unlisted : m[1] # o}
    BY <1>6 DEF HangUp
  <2>2. /\ box' = [box EXCEPT ![o] = <<>>] \/ box' = box
        /\ UNCHANGED <<fan, inbox, full>>
    BY <1>6 DEF HangUp, Abandon, remove, dispatcherVars
  <2>3. o # c
    BY <1>a, <2>1 DEF Owed, ConnFits
  <2>4. back'[c] = back[c] /\ shown'[c] = shown[c] /\ box'[c] = box[c]
    BY <1>a, <2>1, <2>2, <2>3
  <2>5. <<c, e>> \in unlisted => <<c, e>> \in unlisted'
    BY <2>1, <2>3
  <2> QED
    BY <2>2, <2>4, <2>5, SameReach
<1>7. Next => \/ UNCHANGED <<back, shown, box, fan, inbox, full, unlisted>>
              \/ \E x \in Msgs : PublishLive(x)
              \/ \E o \in Conns : ReplayRead(o) \/ Replay(o) \/ WriteLive(o) \/ HangUp(o)
              \/ (Take \/ Send) /\ UNCHANGED busVars
  <2>1. ASSUME NEW x \in Msgs, Push(x) \/ RPush(x) \/ LTrim(x) \/ PushFails(x) \/ Expire(x)
        PROVE  UNCHANGED <<back, shown, box, fan, inbox, full, unlisted>>
    BY <2>1 DEF Push, RPush, LTrim, PushFails, Expire, dispatcherVars, connVars
  <2>2. ASSUME NEW o \in Conns,
               Connect(o) \/ SubscribeDevice(o) \/ AckRead(o) \/ AckRemove(o)
        PROVE  UNCHANGED <<back, shown, box, fan, inbox, full, unlisted>>
    BY <2>2 DEF Connect, SubscribeDevice, Subscribe, AckRead, AckRemove, dispatcherVars
  <2>3. ASSUME RedisExecutes, UNCHANGED busVars
        PROVE  UNCHANGED <<back, shown, box, fan, inbox, full, unlisted>>
    BY <2>3 DEF RedisExecutes, busVars
  <2>4. ~ConnectionLost
    BY DEF ConnectionLost, WayFits
  <2> QED
    BY <2>1, <2>2, <2>3, <2>4 DEF Next, DeliveryLoop
<1> QED
  BY <1>1, <1>2, <1>3, <1>4, <1>5, <1>6, <1>7, TakeReaches, SendReaches DEF vars

LEMMA NextGap == BusGiven /\ GapInv /\ [Next]_vars => GapInv'
<1> SUFFICES ASSUME BusGiven, GapInv, [Next]_vars PROVE GapInv'
  OBVIOUS
<1>1. QueueFits /\ WayFits /\ ConnFits /\ (losses = 0 => Reached)
  BY DEF GapInv
<1>2. QueueFits' /\ WayFits' /\ ConnFits'
  BY <1>1, NextQueue, NextWay, NextConn
<1>3. ASSUME losses' = 0 PROVE losses = 0 /\ losses' = losses
  <2>1. losses' = losses \/ losses' = losses + 1
    <3>1. ASSUME NEW e \in Msgs, Push(e) \/ RPush(e) \/ LTrim(e) \/ PublishLive(e)
                                    \/ PushFails(e) \/ Expire(e)
          PROVE  losses' = losses
      BY <3>1 DEF Push, RPush, LTrim, PublishLive, PushFails, Expire, dispatcherVars, redisVars
    <3>2. ASSUME NEW c \in Conns, Connect(c) \/ DeliveryLoop(c) \/ HangUp(c) \/ AckRead(c)
                                     \/ AckRemove(c)
          PROVE  losses' = losses
      BY <3>2 DEF Connect, DeliveryLoop, SubscribeDevice, Subscribe, ReplayRead, Replay, WriteLive,
                  Receive, HangUp, Abandon, remove, AckRead, AckRemove, dispatcherVars, redisVars
    <3>3. Take \/ Send \/ RedisExecutes => losses' = losses
      BY DEF Take, Send, RedisExecutes, redisVars
    <3>4. ConnectionLost => losses' = losses + 1
      BY DEF ConnectionLost
    <3> QED
      BY <3>1, <3>2, <3>3, <3>4 DEF Next, vars
  <2> QED
    BY <1>1, <1>3, <2>1 DEF WayFits
<1>4. ASSUME losses' = 0, NEW c \in Conns, NEW e \in Msgs, Owed(c, e)' PROVE InReach(c, e)'
  <2>1. CASE Owed(c, e)
    <3>1. InReach(c, e)
      BY <1>1, <1>3, <1>4, <2>1 DEF Reached
    <3> QED
      BY <1>1, <1>3, <1>4, <2>1, <3>1, ReachKept
  <2>2. CASE PublishLive(e) /\ ~ReplayRead(c)
    <3>1. c \in subs[DeviceOf(c)] /\ To[e] = DeviceOf(c)
      <4>1. UNCHANGED <<loop, queue, subs>> /\ DeviceOf(c) \in Devices
        BY <2>2, ChannelsGiven DEF PublishLive, connVars, tableVars, DeviceOf, Conns, Devices
      <4>2. PICK k \in DOMAIN queue[DeviceOf(c)] : queue[DeviceOf(c)][k] = e
        BY <1>4, <4>1 DEF Owed, Range
      <4> QED
        BY <1>1, <1>4, <4>1, <4>2 DEF ConnFits, QueueFits, Owed
    <3>2. CASE To[e] \in listed
      <4> DEFINE letter == [on |-> To[e], msg |-> e]
      <4>1. inbox' = Append(inbox, letter)
        BY <2>2, <3>2 DEF PublishLive, Sent
      <4>2. inbox \in Seq(Message) /\ letter \in Message /\ letter.msg = e
        BY <1>1 DEF WayFits, Message, BusGiven
      <4> HIDE DEF letter
      <4>3. Len(inbox) + 1 \in DOMAIN inbox' /\ inbox'[Len(inbox) + 1] = letter
        BY <4>1, <4>2
      <4> QED
        BY <4>2, <4>3 DEF InReach, Coming
    <3>3. CASE To[e] \notin listed
      <4>1. unlisted' = unlisted \cup (subs[To[e]] \X {e})
        BY <2>2, <3>3 DEF PublishLive
      <4> QED
        BY <3>1, <4>1 DEF InReach, Missed
    <3> QED
      BY <3>2, <3>3
  <2>3. CASE ReplayRead(c)
    <3>1. back'[c] = queue[DeviceOf(c)] /\ queue' = queue
      BY <1>1, <2>3 DEF ReplayRead, ConnFits, pushVars
    <3> QED
      BY <1>4, <3>1 DEF InReach, Owed
  <2> QED
    BY <1>1, <1>4, <2>1, <2>2, <2>3, OwedBefore
<1> QED
  BY <1>2, <1>4 DEF GapInv, Reached

\* SyncBus: an envelope in the queue of a device has been written to each of its
\* connections that is past its replay, or is on its way there, unless it found
\* the channel full or came before the SUBSCRIBE was executed.
THEOREM NothingFalls == Spec => []NoGap
<1>1. GapInv => NoGap
  <2> SUFFICES ASSUME GapInv, losses = 0, NEW c \in Conns, loop[c] = "live",
                      NEW e \in Range(queue[DeviceOf(c)]), push[e] = "ok", e \notin expired
               PROVE  e \in shown[c] \/ Coming(c, e) \/ Missed(c, e)
    BY DEF NoGap
  <2>1. e \in Msgs
    <3>1. DeviceOf(c) \in Devices
      BY ChannelsGiven DEF DeviceOf, Conns, Devices
    <3> QED
      BY <3>1 DEF GapInv, QueueFits, Range
  <2>2. InReach(c, e)
    BY <2>1 DEF GapInv, Reached, Owed
  <2>3. e \notin Range(back[c])
    BY DEF GapInv, ConnFits, Range
  <2> QED
    BY <2>2, <2>3 DEF InReach
<1> QED
  BY BusAssumption, InitGap, NextGap, <1>1, PTL DEF Spec
================================================================================
