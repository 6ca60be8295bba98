--------------------------- MODULE SequenceLemmas ---------------------------
(***************************************************************************)
(* Sequences that are joined by FlattenSeq: where each of them stands, what *)
(* the whole holds, and in which order. FlattenSeq is recursive; the proofs *)
(* look at the first position at which two readings differ, which does not  *)
(* exist because < is well-founded (FirstFailure).                          *)
(***************************************************************************)
EXTENDS Integers, SequencesExt, SequenceTheorems, WellFoundedInduction, TLAPS

\* Induction over positions: the first one at which something fails.
LEMMA FirstFailure ==
    ASSUME NEW n \in Nat, NEW S \in SUBSET (0..n), S # {}
    PROVE  \E i \in S : \A j \in 0..(i - 1) : j \notin S
  <1> DEFINE Less == {ss \in Nat \X Nat : ss[1] < ss[2]}
  <1>1. Less = OpToRel(<, Nat)
    BY Zenon DEF OpToRel
  <1>2. IsWellFoundedOn(Less, Nat)
    BY <1>1, NatLessThanWellFounded, Zenon
  <1> HIDE DEF Less
  <1>3. S \subseteq Nat
    OBVIOUS
  <1>4. \E i \in S : \A j \in S : ~(<<j, i>> \in Less)
    BY <1>2, <1>3, WFMin, Zenon
  <1>5. ASSUME NEW i \in S, NEW j \in S, ~(<<j, i>> \in Less)
        PROVE  i <= j
    BY <1>3, <1>5 DEF Less
  <1>6. PICK i \in S : \A j \in S : i <= j
    BY <1>4, <1>5
  <1>7. \A j \in 0..(i - 1) : j \notin S
    <2> SUFFICES ASSUME NEW j \in 0..(i - 1), j \in S PROVE FALSE
      OBVIOUS
    <2>1. i <= j /\ i \in Nat /\ j \in Nat /\ j <= i - 1
      BY <1>3, <1>6
    <2>2. QED
      BY <2>1
  <1>8. QED
    BY <1>7

\* Steps from 0 leave no position out.
LEMMA Covered ==
    ASSUME NEW n \in Nat, NEW end \in [0..n -> Nat], end[0] = 0
    PROVE  \A p \in 1..end[n] : \E k \in 1..n : p \in (end[k - 1] + 1)..end[k]
  <1> TAKE p \in 1..end[n]
  <1> DEFINE Over == {k \in 0..n : p <= end[k]}
  <1>0. p \in Nat /\ p >= 1 /\ p <= end[n]
    OBVIOUS
  <1>1. PICK k \in Over : \A l \in 0..(k - 1) : l \notin Over
    <2>1. Over \in SUBSET (0..n) /\ Over # {}
      BY <1>0
    <2> HIDE DEF Over
    <2>2. QED
      BY <2>1, FirstFailure
  <1>2. k \in 0..n /\ p <= end[k]
    OBVIOUS
  <1>3. k # 0
    BY <1>0, <1>2
  <1>4. k \in 1..n /\ k - 1 \in 0..(k - 1) /\ k - 1 \in 0..n
    BY <1>2, <1>3
  <1>5. ~(p <= end[k - 1])
    BY <1>1, <1>4
  <1>6. p \in (end[k - 1] + 1)..end[k]
    BY <1>0, <1>2, <1>4, <1>5
  <1>7. QED
    BY <1>4, <1>6

\* FlattenSeq joins its sequences one by one.
LEMMA FlattenUnfolds ==
    ASSUME NEW S, NEW seqs \in Seq(Seq(S))
    PROVE  \E f : /\ f \in [0..Len(seqs) -> Seq(S)]
                  /\ f[0] = <<>>
                  /\ \A i \in 1..Len(seqs) : f[i] = f[i - 1] \o seqs[i]
                  /\ FlattenSeq(seqs) = f[Len(seqs)]
  <1> DEFINE n == Len(seqs)
  <1>0. n \in Nat /\ \A i \in 1..n : seqs[i] \in Seq(S)
    OBVIOUS
  <1>1. CASE n = 0
    <2> DEFINE f == [i \in 0..0 |-> <<>>]
    <2>1. seqs = <<>>
      BY <1>1
    <2>2. FlattenSeq(seqs) = <<>>
      BY <1>1, <2>1 DEF FlattenSeq
    <2>3. f \in [0..n -> Seq(S)] /\ f[0] = <<>> /\ 1..n = {}
      BY <1>1
    <2>4. QED
      BY <1>1, <2>2, <2>3
  <1>2. CASE n # 0
    <2> DEFINE P(f) == f = [i \in 1..n |-> IF i = 1 THEN seqs[i] ELSE f[i - 1] \o seqs[i]]
               Q(f, k) == f \in [1..k -> Seq(S)] /\ \A i \in 1..k : f[i] = IF i = 1 THEN seqs[i] ELSE f[i - 1] \o seqs[i]
               Bad == {k \in 0..n : k >= 1 /\ ~\E f : Q(f, k)}
    <2>1. Bad = {}
      <3> SUFFICES ASSUME Bad # {} PROVE FALSE
        OBVIOUS
      <3> HIDE DEF Q
      <3>1. PICK k \in Bad : \A j \in 0..(k - 1) : j \notin Bad
        <4>1. Bad \in SUBSET (0..n)
          OBVIOUS
        <4> HIDE DEF Bad
        <4>2. QED
          BY <1>0, <4>1, FirstFailure
      <3>2. k \in 1..n /\ ~\E f : Q(f, k)
        BY <1>0
      <3>3. CASE k = 1
        <4>1. Q([i \in 1..1 |-> seqs[i]], 1)
          BY <1>0, <3>2, <3>3 DEF Q
        <4>2. QED
          BY <3>2, <3>3, <4>1
      <3>4. CASE k # 1
        <4>1. k - 1 \in 0..(k - 1) /\ k - 1 \in 1..n /\ k - 1 \in 0..n /\ k - 1 >= 1
          BY <1>0, <3>2, <3>4
        <4>2. PICK f : Q(f, k - 1)
          BY <3>1, <4>1
        <4> DEFINE g == [i \in 1..k |-> IF i = k THEN f[k - 1] \o seqs[k] ELSE f[i]]
        <4>3. f \in [1..(k - 1) -> Seq(S)]
          BY <4>2 DEF Q
        <4>4. \A i \in 1..k : g[i] \in Seq(S)
          <5> TAKE i \in 1..k
          <5>1. CASE i = k
            <6>1. f[k - 1] \in Seq(S) /\ seqs[k] \in Seq(S)
              BY <1>0, <3>2, <4>1, <4>3
            <6>2. QED
              BY <5>1, <6>1
          <5>2. CASE i # k
            <6>1. i \in 1..(k - 1)
              BY <3>2, <5>2
            <6>2. QED
              BY <4>3, <5>2, <6>1
          <5>3. QED
            BY <5>1, <5>2
        <4>5. \A i \in 1..k : g[i] = IF i = 1 THEN seqs[i] ELSE g[i - 1] \o seqs[i]
          <5> TAKE i \in 1..k
          <5>1. CASE i = k
            <6>1. g[k - 1] = f[k - 1]
              BY <3>2, <3>4
            <6>2. QED
              BY <3>4, <5>1, <6>1
          <5>2. CASE i # k
            <6>1. i \in 1..(k - 1)
              BY <3>2, <5>2
            <6>2. g[i] = f[i] /\ (i # 1 => g[i - 1] = f[i - 1])
              BY <3>2, <5>2, <6>1
            <6>3. f[i] = IF i = 1 THEN seqs[i] ELSE f[i - 1] \o seqs[i]
              BY <4>2, <6>1 DEF Q
            <6>4. QED
              BY <6>2, <6>3
          <5>3. QED
            BY <5>1, <5>2
        <4>6. g \in [1..k -> Seq(S)]
          BY <4>4
        <4> HIDE DEF g
        <4>7. Q(g, k)
          BY <4>5, <4>6 DEF Q
        <4>8. QED
          BY <3>2, <4>7
      <3>5. QED
        BY <3>3, <3>4
    <2>2. PICK f : Q(f, n)
      <3> HIDE DEF Q
      <3>1. n \in 0..n /\ n >= 1 /\ n \notin Bad
        BY <1>0, <1>2, <2>1
      <3>2. QED
        BY <3>1
    <2>3. P(f)
      BY <2>2
    <2> DEFINE F == CHOOSE h : P(h)
    <2>4. P(F)
      <3>1. \E h : P(h)
        BY <2>3
      <3> HIDE DEF P
      <3>2. QED
        BY <3>1
    <2>5. FlattenSeq(seqs) = F[n]
      BY <1>2, Zenon DEF FlattenSeq
    <2>6. \A i \in 1..n : F[i] = IF i = 1 THEN seqs[i] ELSE F[i - 1] \o seqs[i]
      BY <2>4
    <2> HIDE DEF F, P, Q, Bad
    <2>7. \A i \in 1..n : F[i] \in Seq(S)
      <3> DEFINE Wrong == {i \in 0..n : i >= 1 /\ F[i] \notin Seq(S)}
      <3> SUFFICES ASSUME Wrong # {} PROVE FALSE
        <4>1. \A i \in 1..n : i \in 0..n /\ i >= 1
          BY <1>0
        <4>2. QED
          BY <4>1
      <3>1. PICK i \in Wrong : \A j \in 0..(i - 1) : j \notin Wrong
        <4>1. Wrong \in SUBSET (0..n)
          OBVIOUS
        <4> HIDE DEF Wrong
        <4>2. QED
          BY <1>0, <4>1, FirstFailure
      <3>2. i \in 1..n /\ F[i] \notin Seq(S)
        BY <1>0
      <3>3. i # 1
        BY <1>0, <2>6, <3>2
      <3>4. i - 1 \in 0..(i - 1) /\ i - 1 \in 0..n /\ i - 1 >= 1
        BY <1>0, <3>2, <3>3
      <3>5. F[i - 1] \in Seq(S)
        BY <3>1, <3>4
      <3>6. F[i] = F[i - 1] \o seqs[i]
        BY <2>6, <3>2, <3>3
      <3>7. QED
        BY <1>0, <3>2, <3>5, <3>6
    <2> DEFINE G == [i \in 0..n |-> IF i = 0 THEN <<>> ELSE F[i]]
    <2>8. \A i \in 0..n : G[i] \in Seq(S)
      BY <1>0, <2>7
    <2>9. \A i \in 1..n : G[i] = G[i - 1] \o seqs[i]
      <3> TAKE i \in 1..n
      <3>1. CASE i = 1
        <4>1. G[0] = <<>> /\ G[1] = seqs[1]
          BY <1>0, <1>2, <2>6, <3>1
        <4>2. <<>> \o seqs[1] = seqs[1]
          BY <1>0, <3>1
        <4> HIDE DEF G
        <4>3. i - 1 = 0
          BY <3>1
        <4>4. QED
          BY <3>1, <4>1, <4>2, <4>3
      <3>2. CASE i # 1
        <4>1. G[i] = F[i] /\ G[i - 1] = F[i - 1]
          BY <1>0, <3>2
        <4>2. QED
          BY <2>6, <3>2, <4>1
      <3>3. QED
        BY <3>1, <3>2
    <2>10. G \in [0..n -> Seq(S)] /\ G[0] = <<>> /\ G[n] = F[n]
      BY <1>0, <1>2, <2>8
    <2> HIDE DEF G
    <2>11. QED
      BY <2>5, <2>9, <2>10
  <1>3. QED
    BY <1>1, <1>2

\* Where the sequences stand in their join t: the k-th ends at end[k], and every
\* position of t is in one of them.
Places(t, seqs, end) ==
    /\ end \in [0..Len(seqs) -> Nat]
    /\ end[0] = 0
    /\ end[Len(seqs)] = Len(t)
    /\ \A k \in 1..Len(seqs) : end[k] = end[k - 1] + Len(seqs[k]) /\ end[k] <= Len(t)
    /\ \A k \in 1..Len(seqs) : \A q \in 1..Len(seqs[k]) : t[end[k - 1] + q] = seqs[k][q]
    /\ \A p \in 1..Len(t) : \E k \in 1..Len(seqs) : p \in (end[k - 1] + 1)..end[k]

LEMMA FlattenPlaces ==
    ASSUME NEW S, NEW seqs \in Seq(Seq(S))
    PROVE  FlattenSeq(seqs) \in Seq(S) /\ \E end : Places(FlattenSeq(seqs), seqs, end)
  <1> DEFINE n == Len(seqs)
             t == FlattenSeq(seqs)
  <1>0. n \in Nat /\ \A i \in 1..n : seqs[i] \in Seq(S)
    OBVIOUS
  <1>1. PICK f : /\ f \in [0..n -> Seq(S)] /\ f[0] = <<>> /\ t = f[n]
                 /\ \A i \in 1..n : f[i] = f[i - 1] \o seqs[i]
    <2>1. \E f : /\ f \in [0..Len(seqs) -> Seq(S)] /\ f[0] = <<>>
                 /\ \A i \in 1..Len(seqs) : f[i] = f[i - 1] \o seqs[i]
                 /\ FlattenSeq(seqs) = f[Len(seqs)]
      BY FlattenUnfolds
    <2>2. QED
      BY <2>1
  <1> HIDE DEF t, n
  <1> DEFINE end == [k \in 0..n |-> Len(f[k])]
  <1>2. end \in [0..n -> Nat] /\ (\A k \in 0..n : end[k] = Len(f[k])) /\ end[0] = 0
    BY <1>0, <1>1
  <1> HIDE DEF end
  <1>3. \A k \in 1..n : k \in 0..n /\ k - 1 \in 0..n /\ f[k] \in Seq(S) /\ f[k - 1] \in Seq(S)
    BY <1>0, <1>1
  <1>4. \A k \in 1..n : end[k] = end[k - 1] + Len(seqs[k])
    <2> TAKE k \in 1..n
    <2>1. f[k] = f[k - 1] \o seqs[k] /\ f[k - 1] \in Seq(S) /\ seqs[k] \in Seq(S)
      BY <1>0, <1>1, <1>3
    <2>2. Len(f[k]) = Len(f[k - 1]) + Len(seqs[k])
      BY <2>1
    <2>3. QED
      BY <1>2, <1>3, <2>2
  <1>5. \A k \in 1..n : Len(seqs[k]) \in Nat /\ end[k] \in Nat /\ end[k - 1] \in Nat
    BY <1>0, <1>2, <1>3
  <1>6. \A k \in 1..n : /\ \A p \in 1..end[k - 1] : f[k][p] = f[k - 1][p]
                        /\ \A q \in 1..Len(seqs[k]) : f[k][end[k - 1] + q] = seqs[k][q]
    <2> TAKE k \in 1..n
    <2>1. f[k] = f[k - 1] \o seqs[k] /\ f[k - 1] \in Seq(S) /\ seqs[k] \in Seq(S) /\ end[k - 1] = Len(f[k - 1])
      BY <1>0, <1>1, <1>2, <1>3
    <2>2. \A a, b \in Seq(S) : /\ \A p \in 1..Len(a) : (a \o b)[p] = a[p]
                              /\ \A q \in 1..Len(b) : (a \o b)[Len(a) + q] = b[q]
      OBVIOUS
    <2>3. /\ \A p \in 1..Len(f[k - 1]) : (f[k - 1] \o seqs[k])[p] = f[k - 1][p]
          /\ \A q \in 1..Len(seqs[k]) : (f[k - 1] \o seqs[k])[Len(f[k - 1]) + q] = seqs[k][q]
      BY <2>1, <2>2, Zenon
    <2>4. QED
      BY <2>1, <2>3, Zenon
  <1> DEFINE Holds(i, m) == end[i] <= end[m] /\ \A p \in 1..end[i] : f[m][p] = f[i][p]
  <1>7. \A i \in 0..n : Holds(i, n)
    <2> TAKE i \in 0..n
    <2> DEFINE Bad == {m \in 0..n : m >= i /\ ~Holds(i, m)}
    <2> SUFFICES ASSUME Bad # {} PROVE FALSE
      BY <1>0
    <2>1. PICK m \in Bad : \A l \in 0..(m - 1) : l \notin Bad
      <3>1. Bad \in SUBSET (0..n)
        OBVIOUS
      <3> HIDE DEF Bad
      <3>2. QED
        BY <1>0, <3>1, FirstFailure
    <2>2. m \in 0..n /\ m >= i /\ ~Holds(i, m)
      OBVIOUS
    <2>3. m # i
      <3>1. end[i] \in Nat
        BY <1>2
      <3>2. QED
        BY <2>2, <3>1
    <2>4. m \in 1..n /\ m - 1 \in 0..n /\ m - 1 >= i /\ m - 1 \in 0..(m - 1)
      BY <1>0, <2>2, <2>3
    <2>5. Holds(i, m - 1)
      <3> HIDE DEF Holds
      <3>1. QED
        BY <2>1, <2>4
    <2>6. end[m] = end[m - 1] + Len(seqs[m]) /\ Len(seqs[m]) \in Nat /\ end[m] \in Nat /\ end[m - 1] \in Nat /\ end[i] \in Nat
      BY <1>2, <1>4, <1>5, <2>4
    <2>7. end[i] <= end[m - 1] /\ end[i] <= end[m]
      BY <2>5, <2>6
    <2>8. ASSUME NEW p \in 1..end[i]
          PROVE  f[m][p] = f[i][p]
      <3>1. p \in 1..end[m - 1]
        BY <2>6, <2>7
      <3>2. f[m][p] = f[m - 1][p]
        BY <1>6, <2>4, <3>1
      <3>3. QED
        BY <2>5, <3>2
    <2>9. QED
      BY <2>2, <2>7, <2>8
  <1>8. t \in Seq(S) /\ end[n] = Len(t) /\ n \in 0..n
    BY <1>0, <1>1, <1>2
  <1>9. \A k \in 1..n : end[k] <= Len(t)
    <2> HIDE DEF Holds
    <2> TAKE k \in 1..n
    <2>1. Holds(k, n)
      BY <1>3, <1>7
    <2>2. QED
      BY <1>8, <2>1 DEF Holds
  <1>10. \A k \in 1..n : \A q \in 1..Len(seqs[k]) : t[end[k - 1] + q] = seqs[k][q]
    <2> TAKE k \in 1..n
    <2> TAKE q \in 1..Len(seqs[k])
    <2> HIDE DEF Holds
    <2>1. Holds(k, n) /\ k \in 1..n
      BY <1>3, <1>7
    <2>2. end[k - 1] + q \in 1..end[k]
      <3>1. end[k] = end[k - 1] + Len(seqs[k]) /\ end[k - 1] \in Nat /\ Len(seqs[k]) \in Nat
        BY <1>4, <1>5
      <3>2. QED
        BY <3>1
    <2>3. f[n][end[k - 1] + q] = f[k][end[k - 1] + q]
      BY <2>1, <2>2 DEF Holds
    <2>4. f[k][end[k - 1] + q] = seqs[k][q]
      BY <1>6
    <2>5. QED
      BY <1>1, <2>3, <2>4
  <1>11. \A p \in 1..Len(t) : \E k \in 1..n : p \in (end[k - 1] + 1)..end[k]
    <2>1. end[n] = Len(t) /\ end \in [0..n -> Nat] /\ end[0] = 0
      BY <1>2, <1>8
    <2>2. QED
      BY <1>0, <2>1, Covered
  <1>12. Places(t, seqs, end)
    BY <1>2, <1>4, <1>8, <1>9, <1>10, <1>11 DEF Places, n
  <1>13. QED
    BY <1>8, <1>12 DEF t

\* The joined sequence holds what the sequences hold.
LEMMA FlattenHolds ==
    ASSUME NEW S, NEW seqs \in Seq(Seq(S))
    PROVE  /\ FlattenSeq(seqs) \in Seq(S)
           /\ \A p \in 1..Len(FlattenSeq(seqs)) : \E k \in 1..Len(seqs) : \E q \in 1..Len(seqs[k]) :
                 FlattenSeq(seqs)[p] = seqs[k][q]
           /\ \A k \in 1..Len(seqs) : \A q \in 1..Len(seqs[k]) : \E p \in 1..Len(FlattenSeq(seqs)) :
                 FlattenSeq(seqs)[p] = seqs[k][q]
  <1> DEFINE t == FlattenSeq(seqs)
  <1>1. t \in Seq(S) /\ \E end : Places(t, seqs, end)
    BY FlattenPlaces
  <1>2. PICK end : Places(t, seqs, end)
    BY <1>1
  <1>3. Len(t) \in Nat /\ Len(seqs) \in Nat /\ \A k \in 1..Len(seqs) : Len(seqs[k]) \in Nat
    BY <1>1
  <1> HIDE DEF t
  <1>4. ASSUME NEW k \in 1..Len(seqs)
        PROVE  /\ end[k] \in Nat /\ end[k - 1] \in Nat /\ Len(seqs[k]) \in Nat /\ Len(t) \in Nat
               /\ end[k] = end[k - 1] + Len(seqs[k]) /\ end[k] <= Len(t)
               /\ \A q \in 1..Len(seqs[k]) : t[end[k - 1] + q] = seqs[k][q]
    <2>1. end \in [0..Len(seqs) -> Nat] /\ k \in 0..Len(seqs) /\ k - 1 \in 0..Len(seqs)
      BY <1>2, <1>3 DEF Places
    <2>2. end[k] \in Nat /\ end[k - 1] \in Nat
      BY <2>1
    <2>3. QED
      BY <1>2, <1>3, <2>2, Zenon DEF Places
  <1>5. ASSUME NEW p \in 1..Len(t)
        PROVE  \E k \in 1..Len(seqs) : \E q \in 1..Len(seqs[k]) : t[p] = seqs[k][q]
    <2>1. PICK k \in 1..Len(seqs) : p \in (end[k - 1] + 1)..end[k]
      BY <1>2, Zenon DEF Places
    <2> DEFINE a == end[k - 1]
               n == Len(seqs[k])
               q == p - a
    <2>2. a \in Nat /\ n \in Nat /\ p \in (a + 1)..(a + n) /\ p \in Nat
      <3>1. end[k] = a + n /\ a \in Nat /\ n \in Nat
        BY <1>4
      <3>2. p \in (a + 1)..end[k]
        BY <2>1
      <3> HIDE DEF a, n
      <3>3. QED
        BY <1>3, <3>1, <3>2
    <2>3. q \in 1..n /\ a + q = p
      <3> HIDE DEF a, n
      <3>1. QED
        BY <2>2
    <2>4. t[a + q] = seqs[k][q]
      <3> HIDE DEF q
      <3>1. QED
        BY <1>4, <2>3
    <2>5. t[p] = seqs[k][q]
      BY <2>3, <2>4, Zenon
    <2> HIDE DEF q
    <2>6. QED
      BY <2>3, <2>5
  <1>6. ASSUME NEW k \in 1..Len(seqs), NEW q \in 1..Len(seqs[k])
        PROVE  \E p \in 1..Len(t) : t[p] = seqs[k][q]
    <2> DEFINE a == end[k - 1]
               n == Len(seqs[k])
    <2>1. a \in Nat /\ n \in Nat /\ end[k] = a + n /\ end[k] <= Len(t) /\ Len(t) \in Nat
      BY <1>4
    <2>2. t[a + q] = seqs[k][q]
      BY <1>4
    <2>3. q \in 1..n
      OBVIOUS
    <2> HIDE DEF a, n
    <2>4. a + q \in 1..Len(t)
      BY <2>1, <2>3
    <2>5. QED
      BY <2>2, <2>4
  <1>7. QED
    BY <1>1, <1>5, <1>6 DEF t

\* The elements at the positions in K, in their order.
Picked(seq, K) == FlattenSeq([i \in 1..Len(seq) |-> IF i \in K THEN <<seq[i]>> ELSE <<>>])

\* They are those elements, each once, in their order.
LEMMA PickedFrom ==
    ASSUME NEW S, NEW seq \in Seq(S), NEW K
    PROVE  /\ Picked(seq, K) \in Seq(S)
           /\ \E from \in [1..Len(Picked(seq, K)) -> 1..Len(seq)] :
                 /\ \A p \in 1..Len(Picked(seq, K)) : from[p] \in K /\ Picked(seq, K)[p] = seq[from[p]]
                 /\ \A p, q \in 1..Len(Picked(seq, K)) : p < q => from[p] < from[q]
                 /\ \A i \in 1..Len(seq) : i \in K => \E p \in 1..Len(Picked(seq, K)) : from[p] = i
  <1> DEFINE n == Len(seq)
             seqs == [i \in 1..n |-> IF i \in K THEN <<seq[i]>> ELSE <<>>]
             t == FlattenSeq(seqs)
  <1>0. n \in Nat /\ t = Picked(seq, K)
    BY DEF Picked
  <1>1. seqs \in Seq(Seq(S)) /\ Len(seqs) = n
    <2>1. \A i \in 1..n : seq[i] \in S
      OBVIOUS
    <2>2. \A x \in S : <<x>> \in Seq(S)
      OBVIOUS
    <2>3. <<>> \in Seq(S)
      OBVIOUS
    <2>4. \A i \in 1..n : seqs[i] \in Seq(S)
      BY <2>1, <2>2, <2>3
    <2>5. QED
      BY <1>0, <2>4
  <1>2. \A i \in 1..n : /\ i \in K => Len(seqs[i]) = 1 /\ seqs[i][1] = seq[i]
                        /\ i \notin K => Len(seqs[i]) = 0
    OBVIOUS
  <1> HIDE DEF seqs
  <1>3. t \in Seq(S) /\ \E end : Places(t, seqs, end)
    BY <1>1, FlattenPlaces
  <1>4. PICK end : Places(t, seqs, end)
    BY <1>3
  <1> HIDE DEF t, n
  <1>5. Len(t) \in Nat
    BY <1>3
  <1>6. end \in [0..n -> Nat] /\ end[0] = 0 /\ end[n] = Len(t)
    BY <1>1, <1>4, Zenon DEF Places
  <1>7. ASSUME NEW i \in 1..n
        PROVE  /\ i - 1 \in 0..n /\ i \in 0..n /\ end[i] \in Nat /\ end[i - 1] \in Nat /\ end[i] <= Len(t)
               /\ i \in K => end[i] = end[i - 1] + 1 /\ t[end[i]] = seq[i]
               /\ i \notin K => end[i] = end[i - 1]
    <2>1. i - 1 \in 0..n /\ i \in 0..n
      BY <1>0
    <2>2. end[i] \in Nat /\ end[i - 1] \in Nat
      BY <1>6, <2>1
    <2>3. /\ end[i] = end[i - 1] + Len(seqs[i]) /\ end[i] <= Len(t)
          /\ \A q \in 1..Len(seqs[i]) : t[end[i - 1] + q] = seqs[i][q]
      BY <1>1, <1>4, Zenon DEF Places
    <2>4. i \in K => end[i] = end[i - 1] + 1 /\ t[end[i - 1] + 1] = seq[i]
      <3>1. 1 \in 1..1
        OBVIOUS
      <3>2. QED
        BY <1>2, <2>3, <3>1, Zenon
    <2>5. i \notin K => end[i] = end[i - 1]
      <3>1. i \notin K => end[i] = end[i - 1] + 0
        BY <1>2, <2>3, Zenon
      <3>2. QED
        BY <2>2, <3>1
    <2>6. QED
      BY <2>1, <2>2, <2>3, <2>4, <2>5, Zenon
  <1>8. \A p \in 1..Len(t) : \E i \in 1..n : i \in K /\ end[i] = p
    <2> TAKE p \in 1..Len(t)
    <2>1. PICK i \in 1..n : p \in (end[i - 1] + 1)..end[i]
      BY <1>1, <1>4, Zenon DEF Places
    <2>2. end[i] \in Nat /\ end[i - 1] \in Nat
      BY <1>7
    <2>3. i \in K
      BY <1>7, <2>1, <2>2
    <2>4. end[i] = p
      BY <1>7, <2>1, <2>2, <2>3
    <2>5. QED
      BY <2>3, <2>4
  <1>9. \A i, j \in 0..n : i <= j => end[i] <= end[j]
    <2> DEFINE Bad == {m \in 0..n : \E i \in 0..m : ~(end[i] <= end[m])}
    <2>1. Bad = {}
      <3> SUFFICES ASSUME Bad # {} PROVE FALSE
        OBVIOUS
      <3>1. PICK m \in Bad : \A l \in 0..(m - 1) : l \notin Bad
        <4>1. Bad \in SUBSET (0..n)
          OBVIOUS
        <4> HIDE DEF Bad
        <4>2. QED
          BY <1>0, <4>1, FirstFailure
      <3>2. m \in 0..n /\ \E i \in 0..m : ~(end[i] <= end[m])
        OBVIOUS
      <3>3. PICK i \in 0..m : ~(end[i] <= end[m])
        BY <3>2
      <3>4. m \in Nat /\ i \in Nat /\ i \in 0..n /\ end[i] \in Nat /\ end[m] \in Nat
        BY <1>0, <1>6, <3>2, <3>3
      <3>5. i # m
        BY <3>3, <3>4
      <3>6. m \in 1..n /\ i \in 0..(m - 1) /\ m - 1 \in 0..(m - 1) /\ m - 1 \in 0..n
        BY <1>0, <3>2, <3>4, <3>5
      <3>7. m - 1 \notin Bad
        BY <3>1, <3>6
      <3>8. end[i] <= end[m - 1]
        BY <3>6, <3>7
      <3>9. end[m - 1] <= end[m] /\ end[m - 1] \in Nat
        <4>1. end[m - 1] \in Nat /\ (end[m] = end[m - 1] + 1 \/ end[m] = end[m - 1])
          BY <1>7, <3>6
        <4>2. QED
          BY <4>1
      <3>10. QED
        BY <3>3, <3>4, <3>8, <3>9
    <2>2. TAKE i, j \in 0..n
    <2>3. HAVE i <= j
    <2>4. i \in 0..j
      BY <1>0, <2>3
    <2>5. j \notin Bad
      BY <2>1
    <2>6. QED
      BY <2>4, <2>5
  <1> DEFINE from == [p \in 1..Len(t) |-> CHOOSE i \in 1..n : i \in K /\ end[i] = p]
  <1>10. \A p \in 1..Len(t) : from[p] \in 1..n /\ from[p] \in K /\ end[from[p]] = p
    BY <1>8
  <1>11. from \in [1..Len(t) -> 1..n]
    BY <1>10
  <1> HIDE DEF from
  <1>12. \A p \in 1..Len(t) : t[p] = seq[from[p]]
    <2> TAKE p \in 1..Len(t)
    <2>1. from[p] \in 1..n /\ from[p] \in K /\ end[from[p]] = p
      BY <1>10
    <2>2. t[end[from[p]]] = seq[from[p]]
      BY <1>7, <2>1
    <2>3. QED
      BY <2>1, <2>2, Zenon
  <1>13. \A p, q \in 1..Len(t) : p < q => from[p] < from[q]
    <2> TAKE p, q \in 1..Len(t)
    <2> HAVE p < q
    <2> DEFINE i == from[p]
               j == from[q]
    <2>1. i \in 1..n /\ j \in 1..n /\ end[i] = p /\ end[j] = q
      BY <1>10
    <2> HIDE DEF i, j
    <2>2. i \in Nat /\ j \in Nat /\ i \in 0..n /\ j \in 0..n /\ p \in Nat /\ q \in Nat
      BY <1>0, <1>5, <2>1
    <2>3. j <= i => q <= p
      BY <1>9, <2>1, <2>2
    <2>4. i < j
      BY <2>2, <2>3
    <2>5. QED
      BY <2>4 DEF i, j
  <1>14. \A i \in 1..n : i \in K => \E p \in 1..Len(t) : from[p] = i
    <2> TAKE i \in 1..n
    <2> HAVE i \in K
    <2>1. end[i] = end[i - 1] + 1 /\ end[i] <= Len(t) /\ end[i - 1] \in Nat /\ end[i] \in Nat
      BY <1>7
    <2> DEFINE p == end[i]
    <2>2. p \in 1..Len(t)
      BY <1>5, <2>1
    <2> DEFINE j == from[p]
    <2>3. j \in 1..n /\ j \in K /\ end[j] = p
      BY <1>10, <2>2
    <2> HIDE DEF j
    <2>4. end[j] = end[j - 1] + 1 /\ end[j - 1] \in Nat /\ end[j] \in Nat
      BY <1>7, <2>3
    <2>5. i \in Nat /\ j \in Nat /\ i \in 0..n /\ j \in 0..n /\ i - 1 \in 0..n /\ j - 1 \in 0..n
      BY <1>0, <2>3
    <2>6. i < j => end[i] <= end[j - 1]
      BY <1>9, <2>5
    <2>7. j < i => end[j] <= end[i - 1]
      BY <1>9, <2>5
    <2>8. end[i] = end[j]
      BY <2>3
    <2>9. i = j
      BY <2>1, <2>4, <2>5, <2>6, <2>7, <2>8
    <2>10. QED
      BY <2>2, <2>9 DEF j
  <1>15. QED
    BY <1>0, <1>3, <1>10, <1>11, <1>12, <1>13, <1>14 DEF n

\* The members of K that are places of seq are the m after place a.
IsRun(K, seq, a, m) ==
    /\ a \in Nat /\ m \in Nat /\ a + m <= Len(seq)
    /\ \A i \in 1..Len(seq) : i \in K <=> i \in (a + 1)..(a + m)

\* The elements picked at places that follow one another stand as they stood.
LEMMA PickedRun ==
    ASSUME NEW S, NEW seq \in Seq(S), NEW K, NEW a, NEW m, IsRun(K, seq, a, m)
    PROVE  Len(Picked(seq, K)) = m /\ \A q \in 1..m : Picked(seq, K)[q] = seq[a + q]
  <1>0. /\ a \in Nat /\ m \in Nat /\ a + m <= Len(seq)
        /\ \A i \in 1..Len(seq) : i \in K <=> i \in (a + 1)..(a + m)
    BY DEF IsRun
  <1> DEFINE n == Len(seq)
             t == Picked(seq, K)
             l == Len(t)
  <1>1. /\ t \in Seq(S)
        /\ \E from \in [1..l -> 1..n] :
              /\ \A p \in 1..l : from[p] \in K /\ t[p] = seq[from[p]]
              /\ \A p, q \in 1..l : p < q => from[p] < from[q]
              /\ \A i \in 1..n : i \in K => \E p \in 1..l : from[p] = i
    BY PickedFrom
  <1>2. PICK from \in [1..l -> 1..n] :
           /\ \A p \in 1..l : from[p] \in K /\ t[p] = seq[from[p]]
           /\ \A p, q \in 1..l : p < q => from[p] < from[q]
           /\ \A i \in 1..n : i \in K => \E p \in 1..l : from[p] = i
    BY <1>0, <1>1
  <1>3. n \in Nat /\ l \in Nat
    BY <1>0, <1>1
  <1> HIDE DEF n, t, l
  <1>4. \A p \in 1..l : from[p] \in (a + 1)..(a + m) /\ t[p] = seq[from[p]]
    BY <1>0, <1>2 DEF n
  <1>5. \A q \in 1..m : \E p \in 1..l : from[p] = a + q
    <2> TAKE q \in 1..m
    <2>1. a + q \in 1..n /\ a + q \in (a + 1)..(a + m)
      BY <1>0, <1>3 DEF n
    <2>2. QED
      BY <1>0, <1>2, <2>1 DEF n
  <1> DEFINE Bad == {q \in 0..l : q >= 1 /\ from[q] # a + q}
  <1>6. Bad = {}
    <2> SUFFICES ASSUME Bad # {} PROVE FALSE
      OBVIOUS
    <2>1. Bad \in SUBSET (0..l)
      OBVIOUS
    <2>2. PICK q \in Bad : \A j \in 0..(q - 1) : j \notin Bad
      <3> HIDE DEF Bad
      <3>1. QED
        BY <1>3, <2>1, FirstFailure
    <2>3. q \in 1..l /\ from[q] # a + q /\ \A j \in 1..(q - 1) : j \in 1..l /\ from[j] = a + j
      BY <1>0, <1>3, <2>2
    <2> HIDE DEF Bad
    <2>4. from[q] \in Nat /\ from[q] >= a + 1 /\ from[q] <= a + m
      BY <1>0, <1>4, <2>3
    <2>5. from[q] > a + q
      <3>1. CASE q = 1
        BY <1>0, <2>3, <2>4, <3>1
      <3>2. CASE q # 1
        <4>1. q - 1 \in 1..(q - 1) /\ q - 1 \in 1..l /\ q - 1 < q
          BY <1>0, <1>3, <2>3, <3>2
        <4>2. from[q - 1] = a + (q - 1) /\ from[q - 1] < from[q]
          BY <1>0, <1>2, <2>3, <4>1
        <4>3. from[q] > a + (q - 1) /\ from[q] # a + q /\ from[q] \in Nat /\ q \in Nat
          BY <1>0, <1>3, <2>3, <2>4, <4>2
        <4>4. QED
          BY <1>0, <4>3
      <3>3. QED
        BY <1>0, <3>1, <3>2
    <2>6. q \in 1..m
      BY <1>0, <1>3, <2>3, <2>4, <2>5
    <2>7. PICK p \in 1..l : from[p] = a + q
      BY <1>0, <1>5, <2>6
    <2>8. p # q
      BY <1>0, <2>3, <2>7
    <2>9. CASE p < q
      <3>1. p \in 1..(q - 1)
        BY <1>0, <1>3, <2>3, <2>9
      <3>2. from[p] = a + p
        BY <1>0, <2>3, <3>1
      <3>3. QED
        BY <1>0, <2>3, <2>7, <2>9, <3>2
    <2>10. CASE q < p
      <3>1. from[q] < from[p]
        BY <1>0, <1>2, <2>3, <2>10
      <3>2. QED
        BY <1>0, <2>4, <2>5, <2>6, <2>7, <3>1
    <2>11. QED
      BY <1>0, <1>3, <2>3, <2>8, <2>9, <2>10
  <1>7. \A q \in 1..l : from[q] = a + q
    <2> TAKE q \in 1..l
    <2>1. q \in 0..l /\ q >= 1 /\ q \notin Bad
      BY <1>3, <1>6
    <2>2. QED
      BY <1>0, <2>1
  <1> HIDE DEF Bad
  <1>8. \A q \in 1..l : q \in 1..m
    BY <1>0, <1>3, <1>4, <1>7
  <1>9. \A q \in 1..m : q \in 1..l
    <2> TAKE q \in 1..m
    <2>1. PICK p \in 1..l : from[p] = a + q
      BY <1>0, <1>5
    <2>2. a + p = a + q
      BY <1>0, <1>7, <2>1
    <2>3. p = q
      BY <1>0, <1>3, <2>2
    <2>4. QED
      BY <1>0, <2>3
  <1>10. l = m
    <2>1. l >= 1 => l \in 1..m
      BY <1>0, <1>3, <1>8
    <2>2. m \in Nat /\ (m >= 1 => m \in 1..m)
      BY <1>0
    <2>3. m >= 1 => m \in 1..l
      BY <1>9, <2>2
    <2>4. QED
      BY <1>3, <2>1, <2>2, <2>3
  <1>11. \A q \in 1..m : t[q] = seq[a + q]
    BY <1>0, <1>4, <1>7, <1>10
  <1>12. QED
    BY <1>0, <1>10, <1>11 DEF t, l
=============================================================================
