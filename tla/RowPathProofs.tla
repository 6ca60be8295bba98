---------------------------- MODULE RowPathProofs ----------------------------
(***************************************************************************)
(* The way of a row, for rows, columns and values of any number:            *)
(*   - the text of COPY: what FormatRowToCopyText writes, the server reads  *)
(*     as the same fields (CopyRoundTrip), and ends where the row ends;     *)
(*   - what MapRows hands over are values that the encoding can write;      *)
(*   - every batch is the encoding of whole rows (BatchesAreFramed);        *)
(*   - a load that succeeds has brought the records of its source, in their *)
(*     order and with their columns (RowsLandInOrder);                      *)
(*   - a batch that was refused ends with every row copied or rejected, and *)
(*     exactly the bad ones rejected, under every policy (BatchRetry, at    *)
(*     the end of this module);                                             *)
(*   - no connection is in use that was given back                          *)
(*     (PooledConnectionsAreIdle).                                          *)
(*                                                                          *)
(* Texts are folds in the model. The proofs do not go by induction over     *)
(* them: a reader is a function on positions, and the first position at     *)
(* which two readings differ does not exist, because < is well-founded      *)
(* (FirstFailure).                                                          *)
(***************************************************************************)
EXTENDS RowPath, BatchRetry, SequenceLemmas, FiniteSetTheorems, SequenceTheorems, TLAPS

----------------------------------------------------------------------------
(* The text of COPY.                                                        *)

\* An odd number of backslashes ends at position i, the place 0 included.
OpenAt(s, i) ==
    \E j \in 0..i :
        /\ j = 0 \/ s[j] # "\\"
        /\ \A k \in (j + 1)..i : s[k] = "\\"
        /\ (i - j) % 2 = 1

LEMMA EscapedIsOpen ==
    ASSUME NEW S, NEW s \in Seq(S), NEW i \in 1..Len(s)
    PROVE  i \in Escaped(s) <=> OpenAt(s, i - 1)
  <1>1. i - 1 \in Nat /\ Len(s) \in Nat /\ i \in Nat
    OBVIOUS
  <1>2. QED
    BY <1>1 DEF Escaped, OpenAt

LEMMA ParityFlips ==
    ASSUME NEW i \in Nat, NEW j \in Nat, j < i
    PROVE  ((i - j) % 2 = 1) <=> ~((i - 1 - j) % 2 = 1)
  OBVIOUS

\* The run of backslashes before a position begins somewhere.
LEMMA RunBegins ==
    ASSUME NEW S, NEW s \in Seq(S), NEW i \in 0..Len(s)
    PROVE  \E j \in 0..i : (j = 0 \/ s[j] # "\\") /\ \A k \in (j + 1)..i : s[k] = "\\"
  <1>0. Len(s) \in Nat /\ i \in Nat
    OBVIOUS
  <1> DEFINE Holds(m) == \E j \in 0..m : (j = 0 \/ s[j] # "\\") /\ \A k \in (j + 1)..m : s[k] = "\\"
             Bad == {m \in 0..i : ~Holds(m)}
  <1> SUFFICES ASSUME Bad # {} PROVE FALSE
    <2>1. i \in 0..i
      BY <1>0
    <2>2. QED
      BY <2>1
  <1> HIDE DEF Holds
  <1>1. PICK m \in Bad : \A l \in 0..(m - 1) : l \notin Bad
    <2>1. Bad \in SUBSET (0..i)
      OBVIOUS
    <2> HIDE DEF Bad
    <2>2. QED
      BY <1>0, <2>1, FirstFailure
  <1>2. m \in 0..i /\ ~Holds(m)
    OBVIOUS
  <1>3. CASE m = 0 \/ s[m] # "\\"
    BY <1>0, <1>2, <1>3 DEF Holds
  <1>4. CASE m # 0 /\ s[m] = "\\"
    <2>1. m - 1 \in 0..(m - 1) /\ m - 1 \in 0..i
      BY <1>0, <1>2, <1>4
    <2>2. Holds(m - 1)
      BY <1>1, <2>1
    <2>3. PICK j \in 0..(m - 1) : (j = 0 \/ s[j] # "\\") /\ \A k \in (j + 1)..(m - 1) : s[k] = "\\"
      BY <2>2 DEF Holds
    <2>4. j \in 0..m /\ \A k \in (j + 1)..m : k = m \/ k \in (j + 1)..(m - 1)
      BY <1>0, <1>2, <2>1
    <2>5. Holds(m)
      BY <1>4, <2>3, <2>4 DEF Holds
    <2>6. QED
      BY <1>2, <2>5
  <1>5. QED
    BY <1>3, <1>4

\* A backslash opens an escape unless it is escaped itself; nothing else does.
LEMMA OpenSteps ==
    ASSUME NEW S, NEW s \in Seq(S), NEW i \in 1..Len(s)
    PROVE  OpenAt(s, i) <=> s[i] = "\\" /\ ~OpenAt(s, i - 1)
  <1>0. Len(s) \in Nat /\ i \in Nat /\ i - 1 \in Nat /\ i - 1 \in 0..Len(s) /\ i >= 1
    OBVIOUS
  <1>1. CASE s[i] # "\\"
    <2> SUFFICES ASSUME OpenAt(s, i) PROVE FALSE
      BY <1>1
    <2>1. PICK j \in 0..i : (\A k \in (j + 1)..i : s[k] = "\\") /\ (i - j) % 2 = 1
      BY DEF OpenAt
    <2>2. j # i
      BY <1>0, <2>1
    <2>3. i \in (j + 1)..i
      BY <1>0, <2>2
    <2>4. QED
      BY <1>1, <2>1, <2>3
  <1>2. CASE s[i] = "\\"
    <2>1. PICK j \in 0..(i - 1) : (j = 0 \/ s[j] # "\\") /\ \A k \in (j + 1)..(i - 1) : s[k] = "\\"
      BY <1>0, RunBegins
    <2>2. j \in 0..i /\ j \in Nat /\ j < i
      BY <1>0
    <2>3. \A k \in (j + 1)..i : s[k] = "\\"
      <3>1. \A k \in (j + 1)..i : k = i \/ k \in (j + 1)..(i - 1)
        BY <1>0, <2>2
      <3>2. QED
        BY <1>2, <2>1, <3>1
    <2>4. OpenAt(s, i) <=> (i - j) % 2 = 1
      <3>1. ASSUME OpenAt(s, i) PROVE (i - j) % 2 = 1
        <4>1. PICK l \in 0..i : (l = 0 \/ s[l] # "\\") /\ (\A k \in (l + 1)..i : s[k] = "\\") /\ (i - l) % 2 = 1
          BY <3>1 DEF OpenAt
        <4>2. ~(l < j) /\ ~(j < l)
          <5>1. l < j => j # 0 /\ j \in (l + 1)..i
            BY <1>0, <2>2
          <5>2. j < l => l # 0 /\ l \in (j + 1)..i
            BY <1>0, <2>2
          <5>3. QED
            BY <2>1, <2>3, <4>1, <5>1, <5>2
        <4>3. l = j
          BY <1>0, <2>2, <4>2
        <4>4. QED
          BY <4>1, <4>3
      <3>2. ASSUME (i - j) % 2 = 1 PROVE OpenAt(s, i)
        BY <2>1, <2>2, <2>3, <3>2 DEF OpenAt
      <3>3. QED
        BY <3>1, <3>2
    <2>5. OpenAt(s, i - 1) <=> (i - 1 - j) % 2 = 1
      <3>1. ASSUME OpenAt(s, i - 1) PROVE (i - 1 - j) % 2 = 1
        <4>1. PICK l \in 0..(i - 1) : (l = 0 \/ s[l] # "\\") /\ (\A k \in (l + 1)..(i - 1) : s[k] = "\\") /\ (i - 1 - l) % 2 = 1
          BY <3>1 DEF OpenAt
        <4>2. ~(l < j) /\ ~(j < l)
          <5>1. l < j => j # 0 /\ j \in (l + 1)..(i - 1)
            BY <1>0, <2>2
          <5>2. j < l => l # 0 /\ l \in (j + 1)..(i - 1)
            BY <1>0, <2>2
          <5>3. QED
            BY <2>1, <4>1, <5>1, <5>2
        <4>3. l = j
          BY <1>0, <2>2, <4>2
        <4>4. QED
          BY <4>1, <4>3
      <3>2. ASSUME (i - 1 - j) % 2 = 1 PROVE OpenAt(s, i - 1)
        BY <2>1, <3>2 DEF OpenAt
      <3>3. QED
        BY <3>1, <3>2
    <2>6. ((i - j) % 2 = 1) <=> ~((i - 1 - j) % 2 = 1)
      BY <1>0, <2>2, ParityFlips
    <2>7. QED
      BY <1>2, <2>4, <2>5, <2>6
  <1>3. QED
    BY <1>1, <1>2

LEMMA NothingOpenAtFirst ==
    ASSUME NEW s
    PROVE  ~OpenAt(s, 0)
  <1>1. \A j \in 0..0 : j = 0 /\ (0 - j) % 2 = 0
    OBVIOUS
  <1>2. QED
    BY <1>1 DEF OpenAt

\* Where s goes on as u does, after a place at which nothing is open, the same
\* escapes are open in both.
LEMMA OpenShifts ==
    ASSUME NEW S, NEW s \in Seq(S), NEW u \in Seq(S), NEW p \in Nat, p + Len(u) <= Len(s),
           ~OpenAt(s, p), \A q \in 1..Len(u) : s[p + q] = u[q]
    PROVE  \A i \in 0..Len(u) : OpenAt(s, p + i) <=> OpenAt(u, i)
  <1> TAKE n \in 0..Len(u)
  <1>0. Len(u) \in Nat /\ Len(s) \in Nat /\ n \in Nat
    <2>1. Len(u) \in Nat /\ Len(s) \in Nat
      OBVIOUS
    <2>2. QED
      BY <2>1
  <1> DEFINE Holds(i) == OpenAt(s, p + i) <=> OpenAt(u, i)
             Bad == {i \in 0..n : ~Holds(i)}
  <1> SUFFICES ASSUME Bad # {} PROVE FALSE
    <2>1. n \in 0..n
      BY <1>0
    <2>2. QED
      BY <2>1
  <1> HIDE DEF Holds
  <1>1. PICK i \in Bad : \A l \in 0..(i - 1) : l \notin Bad
    <2>1. Bad \in SUBSET (0..n)
      OBVIOUS
    <2> HIDE DEF Bad
    <2>2. QED
      BY <1>0, <2>1, FirstFailure
  <1>2. i \in 0..n /\ ~Holds(i)
    OBVIOUS
  <1>3. CASE i = 0
    <2>1. ~OpenAt(u, 0) /\ p + 0 = p
      BY NothingOpenAtFirst
    <2>2. QED
      BY <1>2, <1>3, <2>1 DEF Holds
  <1>4. CASE i # 0
    <2>1. i - 1 \in 0..(i - 1) /\ i - 1 \in 0..n /\ i \in 1..Len(u) /\ p + i \in 1..Len(s) /\ p + i - 1 = p + (i - 1)
      BY <1>0, <1>2, <1>4
    <2>2. Holds(i - 1)
      BY <1>1, <2>1
    <2>3. OpenAt(s, p + i) <=> s[p + i] = "\\" /\ ~OpenAt(s, p + i - 1)
      BY <2>1, OpenSteps
    <2>4. OpenAt(u, i) <=> u[i] = "\\" /\ ~OpenAt(u, i - 1)
      BY <2>1, OpenSteps
    <2>5. Holds(i)
      BY <2>1, <2>2, <2>3, <2>4 DEF Holds
    <2>6. QED
      BY <1>2, <2>5
  <1>5. QED
    BY <1>3, <1>4

\* A function whose values grow at each step grows.
LEMMA StepsGrow ==
    ASSUME NEW n \in Nat, NEW pos \in [0..n -> Nat], \A k \in 1..n : pos[k - 1] < pos[k]
    PROVE  \A i, j \in 0..n : i < j => pos[i] < pos[j]
  <1> TAKE i, j \in 0..n
  <1> DEFINE Holds(m) == pos[i] < pos[m]
             Bad == {m \in 0..n : i < m /\ ~Holds(m)}
  <1> SUFFICES ASSUME Bad # {} PROVE FALSE
    OBVIOUS
  <1>1. PICK m \in Bad : \A l \in 0..(m - 1) : l \notin Bad
    <2>1. Bad \in SUBSET (0..n)
      OBVIOUS
    <2> HIDE DEF Bad
    <2>2. QED
      BY <2>1, FirstFailure
  <1>2. m \in 0..n /\ i < m /\ ~Holds(m)
    OBVIOUS
  <1>3. m \in 1..n /\ m - 1 \in 0..n /\ pos[m] \in Nat /\ pos[m - 1] \in Nat /\ pos[i] \in Nat /\ pos[m - 1] < pos[m]
    <2>1. m \in 1..n /\ m - 1 \in 0..n
      BY <1>2
    <2>2. QED
      BY <2>1
  <1>4. CASE m - 1 = i
    BY <1>2, <1>3, <1>4
  <1>5. CASE m - 1 # i
    <2>1. m - 1 \in 0..(m - 1) /\ i < m - 1
      BY <1>2, <1>3, <1>5
    <2>2. Holds(m - 1)
      <3> HIDE DEF Holds
      <3>1. QED
        BY <1>1, <1>3, <2>1
    <2>3. Holds(m)
      BY <1>3, <2>2
    <2>4. QED
      BY <1>2, <2>3
  <1>6. QED
    BY <1>4, <1>5

\* The first k of the places are k places.
LEMMA PlacesCounted ==
    ASSUME NEW n \in Nat, NEW pos \in [0..n -> Nat], \A k \in 1..n : pos[k - 1] < pos[k], NEW k \in 1..n
    PROVE  Cardinality({j \in {pos[l] : l \in 1..n} : j <= pos[k]}) = k
  <1>1. \A i, j \in 0..n : i < j => pos[i] < pos[j]
    BY StepsGrow
  <1> DEFINE B == {j \in {pos[l] : l \in 1..n} : j <= pos[k]}
             f == [l \in 1..k |-> pos[l]]
  <1>2. \A l \in 1..n : pos[l] \in Nat /\ l \in 0..n
    OBVIOUS
  <1>3. \A l \in 1..n : pos[l] <= pos[k] <=> l <= k
    <2> TAKE l \in 1..n
    <2>1. l < k => pos[l] < pos[k]
      BY <1>1, <1>2
    <2>2. k < l => pos[k] < pos[l]
      BY <1>1, <1>2
    <2>3. QED
      BY <1>2, <2>1, <2>2
  <1>4. \A l \in 1..k : l \in 1..n
    OBVIOUS
  <1>5. B = {pos[l] : l \in 1..k}
    BY <1>3, <1>4
  <1>6. f \in Bijection(1..k, B)
    <2>1. f \in [1..k -> B]
      BY <1>5
    <2>2. \A a, b \in 1..k : f[a] = f[b] => a = b
      <3> TAKE a, b \in 1..k
      <3>1. a < b => pos[a] < pos[b]
        BY <1>1, <1>2, <1>4
      <3>2. b < a => pos[b] < pos[a]
        BY <1>1, <1>2, <1>4
      <3>3. QED
        BY <1>2, <1>4, <3>1, <3>2
    <2>3. \A b \in B : \E a \in 1..k : f[a] = b
      BY <1>5
    <2> HIDE DEF f, B
    <2>4. QED
      BY <2>1, <2>2, <2>3 DEF Bijection, Injection, Surjection, IsInjective
  <1> HIDE DEF f
  <1>7. ExistsBijection(1..k, B)
    BY <1>6, Zenon DEF ExistsBijection
  <1> HIDE DEF B
  <1>8. Cardinality(B) = k
    <2>1. k \in Nat
      OBVIOUS
    <2>2. QED
      BY <1>7, <2>1, FS_CountingElements
  <1>9. QED
    BY <1>8 DEF B

Between(s, pos, n) == [k \in 1..n |-> SubSeq(s, pos[k - 1] + 1, pos[k] - 1)]

\* The pieces of a text lie between the places of its plain separators.
LEMMA PiecesLie ==
    ASSUME NEW S, NEW s \in Seq(S), NEW sep,
           NEW n \in Nat, NEW pos \in [0..n -> Nat], pos[0] = 0, \A k \in 1..n : pos[k - 1] < pos[k],
           Ends(s, sep) = {pos[k] : k \in 1..n}
    PROVE  Pieces(s, sep) = Between(s, pos, n)
  <1> DEFINE ends == Ends(s, sep)
             Upto(i) == {j \in ends : j <= i}
             End(k) == IF k = 0 THEN 0 ELSE CHOOSE i \in ends : Cardinality(Upto(i)) = k
  <1>1. ends = {pos[k] : k \in 1..n}
    OBVIOUS
  <1>2. Pieces(s, sep) = [k \in 1..Cardinality(ends) |-> SubSeq(s, End(k - 1) + 1, End(k) - 1)]
    BY DEF Pieces
  <1> HIDE DEF ends
  <1>3. \A k \in 1..n : Cardinality(Upto(pos[k])) = k
    BY <1>1, PlacesCounted
  <1> HIDE DEF Upto
  <1>4. \A k \in 1..n : End(k) = pos[k]
    <2> TAKE k \in 1..n
    <2>1. pos[k] \in ends /\ Cardinality(Upto(pos[k])) = k
      BY <1>1, <1>3
    <2>2. \A i \in ends : Cardinality(Upto(i)) = k => i = pos[k]
      <3> TAKE i \in ends
      <3>1. PICK l \in 1..n : i = pos[l]
        BY <1>1
      <3>2. Cardinality(Upto(i)) = l
        BY <1>3, <3>1
      <3>3. QED
        BY <3>1, <3>2
    <2> DEFINE P(i) == i \in ends /\ Cardinality(Upto(i)) = k
    <2>3. (CHOOSE i \in ends : Cardinality(Upto(i)) = k) = pos[k]
      BY <2>1, <2>2, Zenon
    <2>4. k # 0
      OBVIOUS
    <2>5. QED
      BY <2>3, <2>4
  <1>5. End(0) = pos[0]
    OBVIOUS
  <1> HIDE DEF End
  <1>6. Cardinality(ends) = n
    <2>1. CASE n = 0
      <3>1. ends = {}
        BY <1>1, <2>1
      <3>2. QED
        BY <2>1, <3>1, FS_EmptySet
    <2>2. CASE n # 0
      <3>1. n \in 1..n /\ n \in 0..n
        BY <2>2
      <3>2. \A l \in 1..n : l < n => pos[l] < pos[n]
        <4>1. \A i, j \in 0..n : i < j => pos[i] < pos[j]
          BY StepsGrow
        <4>2. QED
          BY <3>1, <4>1
      <3>3. \A l \in 1..n : pos[l] <= pos[n]
        <4> TAKE l \in 1..n
        <4>1. pos[l] \in Nat /\ pos[n] \in Nat /\ (l < n \/ l = n)
          BY <3>1
        <4>2. QED
          BY <3>2, <4>1
      <3>4. ends = Upto(pos[n])
        BY <1>1, <3>3 DEF Upto
      <3>5. QED
        BY <1>3, <3>1, <3>4
    <2>3. QED
      BY <2>1, <2>2
  <1>7. \A k \in 1..n : End(k - 1) = pos[k - 1] /\ End(k) = pos[k]
    <2> TAKE k \in 1..n
    <2>1. k - 1 = 0 \/ k - 1 \in 1..n
      OBVIOUS
    <2>2. QED
      BY <1>4, <1>5, <2>1
  <1>8. QED
    BY <1>2, <1>6, <1>7 DEF Between

\* A text of l symbols and a separator, after the first a of m symbols.
LEMMA RoomFor ==
    ASSUME NEW a \in Nat, NEW l \in Nat, NEW b, b = a + l + 1, NEW m \in Nat, b <= m
    PROVE  b \in Nat /\ b \in 1..m /\ b - 1 = a + l /\ b - 1 \in 0..m /\ a + l <= m /\ a < b
  OBVIOUS

LEMMA InRoom ==
    ASSUME NEW a \in Nat, NEW l \in Nat, NEW b, b = a + l + 1, NEW i \in (a + 1)..b, i # b
    PROVE  i - a \in 1..l /\ i = a + (i - a)
  OBVIOUS

\* t consists of the texts u, each with a separator after it.
Framed(t, u, sep, end) ==
    /\ end \in [0..Len(u) -> Nat]
    /\ end[0] = 0
    /\ end[Len(u)] = Len(t)
    /\ \A k \in 1..Len(u) : end[k] = end[k - 1] + Len(u[k]) + 1 /\ end[k] <= Len(t)
    /\ \A k \in 1..Len(u) : t[end[k]] = sep /\ \A q \in 1..Len(u[k]) : t[end[k - 1] + q] = u[k][q]
    /\ \A p \in 1..Len(t) : \E k \in 1..Len(u) : p \in (end[k - 1] + 1)..end[k]

\* Nothing in text ends where sep should, and no escape is left open.
Sealed(text, sep) == (\A q \in 1..Len(text) : text[q] # sep) /\ ~OpenAt(text, Len(text))

\* Sealed texts are the pieces of what they are framed in.
LEMMA FramedPieces ==
    ASSUME NEW S, NEW sep, sep # "\\", NEW u \in Seq(Seq(S)), NEW t \in Seq(S), NEW end,
           Framed(t, u, sep, end), \A k \in 1..Len(u) : Sealed(u[k], sep)
    PROVE  Pieces(t, sep) = u
  <1> DEFINE n == Len(u)
  <1>0. n \in Nat /\ Len(t) \in Nat /\ end \in [0..n -> Nat] /\ end[0] = 0
    BY DEF Framed
  <1>1. \A k \in 1..n : /\ end[k] = end[k - 1] + Len(u[k]) + 1 /\ end[k] <= Len(t)
                        /\ end[k] \in Nat /\ end[k - 1] \in Nat /\ Len(u[k]) \in Nat /\ u[k] \in Seq(S)
    <2> TAKE k \in 1..n
    <2>1. k \in 0..n /\ k - 1 \in 0..n /\ u[k] \in Seq(S)
      BY <1>0
    <2>2. end[k] \in Nat /\ end[k - 1] \in Nat /\ Len(u[k]) \in Nat
      <3> HIDE DEF n
      <3>1. end[k] \in Nat
        BY <1>0, <2>1
      <3>2. end[k - 1] \in Nat
        BY <1>0, <2>1
      <3>3. Len(u[k]) \in Nat
        BY <2>1
      <3>4. QED
        BY <3>1, <3>2, <3>3
    <2>3. end[k] = end[k - 1] + Len(u[k]) + 1 /\ end[k] <= Len(t)
      BY Zenon DEF Framed
    <2>4. QED
      BY <2>1, <2>2, <2>3
  <1>2. \A k \in 1..n : t[end[k]] = sep /\ \A q \in 1..Len(u[k]) : t[end[k - 1] + q] = u[k][q]
    BY DEF Framed
  <1>3. \A p \in 1..Len(t) : \E k \in 1..n : p \in (end[k - 1] + 1)..end[k]
    BY DEF Framed
  <1>4. \A k \in 1..n : /\ \A q \in 1..Len(u[k]) : u[k][q] # sep
                        /\ ~OpenAt(u[k], Len(u[k]))
    BY DEF Sealed
  <1> HIDE DEF n
  <1>5. \A k \in 0..n : ~OpenAt(t, end[k])
    <2> TAKE k \in 0..n
    <2>1. CASE k = 0
      BY <1>0, <2>1, NothingOpenAtFirst
    <2>2. CASE k # 0
      <3>1. k \in 1..n
        BY <1>0, <2>2
      <3>2. end[k] \in 1..Len(t)
        <4>1. /\ end[k - 1] \in Nat /\ Len(u[k]) \in Nat /\ end[k] = end[k - 1] + Len(u[k]) + 1
              /\ Len(t) \in Nat /\ end[k] <= Len(t)
          BY <1>0, <1>1, <3>1, Zenon
        <4>2. QED
          BY <4>1, RoomFor, Zenon
      <3>3. t[end[k]] # "\\"
        BY <1>2, <3>1
      <3>4. QED
        BY <3>2, <3>3, OpenSteps
    <2>3. QED
      BY <2>1, <2>2
  <1>6. \A k \in 1..n : ~OpenAt(t, end[k] - 1)
    <2> TAKE k \in 1..n
    <2>1. /\ u[k] \in Seq(S) /\ end[k - 1] \in Nat /\ Len(u[k]) \in Nat /\ end[k - 1] + Len(u[k]) <= Len(t)
          /\ end[k] - 1 = end[k - 1] + Len(u[k])
      BY <1>0, <1>1, RoomFor
    <2>2. k - 1 \in 0..n
      BY <1>0
    <2>3. ~OpenAt(t, end[k - 1])
      BY <1>5, <2>2
    <2>4. \A q \in 1..Len(u[k]) : t[end[k - 1] + q] = u[k][q]
      BY <1>2
    <2>5. OpenAt(t, end[k - 1] + Len(u[k])) <=> OpenAt(u[k], Len(u[k]))
      <3>1. \A i \in 0..Len(u[k]) : OpenAt(t, end[k - 1] + i) <=> OpenAt(u[k], i)
        <4> DEFINE v == u[k]
                   p == end[k - 1]
        <4>1. v \in Seq(S) /\ p \in Nat /\ p + Len(v) <= Len(t) /\ ~OpenAt(t, p)
          BY <2>1, <2>3
        <4>2. \A q \in 1..Len(v) : t[p + q] = v[q]
          BY <2>4
        <4> HIDE DEF v, p
        <4>3. \A i \in 0..Len(v) : OpenAt(t, p + i) <=> OpenAt(v, i)
          BY <4>1, <4>2, OpenShifts
        <4>4. QED
          BY <4>3 DEF v, p
      <3>2. Len(u[k]) \in 0..Len(u[k])
        BY <2>1
      <3>3. QED
        BY <3>1, <3>2
    <2>6. QED
      BY <1>4, <2>1, <2>5
  <1>7. Ends(t, sep) = {end[k] : k \in 1..n}
    <2>1. ASSUME NEW k \in 1..n
          PROVE  end[k] \in Ends(t, sep)
      <3>1. end[k] \in 1..Len(t)
        <4>1. /\ end[k - 1] \in Nat /\ Len(u[k]) \in Nat /\ end[k] = end[k - 1] + Len(u[k]) + 1
              /\ Len(t) \in Nat /\ end[k] <= Len(t)
          BY <1>0, <1>1, Zenon
        <4>2. QED
          BY <4>1, RoomFor, Zenon
      <3>2. end[k] \notin Escaped(t)
        BY <1>6, <3>1, EscapedIsOpen
      <3>3. QED
        BY <1>2, <3>1, <3>2 DEF Ends
    <2>2. ASSUME NEW i \in Ends(t, sep)
          PROVE  i \in {end[k] : k \in 1..n}
      <3>0. i \in 1..Len(t) /\ t[i] = sep
        BY DEF Ends
      <3>1. PICK k \in 1..n : i \in (end[k - 1] + 1)..end[k]
        BY <1>3, <3>0
      <3>2. end[k] = end[k - 1] + Len(u[k]) + 1 /\ end[k - 1] \in Nat /\ Len(u[k]) \in Nat
        BY <1>1
      <3>3. CASE i = end[k]
        BY <3>3
      <3>4. CASE i # end[k]
        <4>1. i - end[k - 1] \in 1..Len(u[k]) /\ i = end[k - 1] + (i - end[k - 1])
          BY <3>1, <3>2, <3>4, InRoom
        <4>2. t[end[k - 1] + (i - end[k - 1])] = u[k][i - end[k - 1]]
          BY <1>2, <4>1
        <4>3. t[i] = u[k][i - end[k - 1]]
          BY <4>1, <4>2
        <4>4. QED
          BY <1>4, <3>0, <4>1, <4>3
      <3>5. QED
        BY <3>3, <3>4
    <2>3. QED
      BY <2>1, <2>2
  <1>8. \A k \in 1..n : end[k - 1] < end[k]
    <2> TAKE k \in 1..n
    <2>1. end[k] = end[k - 1] + Len(u[k]) + 1 /\ end[k - 1] \in Nat /\ Len(u[k]) \in Nat
      BY <1>1
    <2>2. QED
      BY <2>1
  <1>9. Pieces(t, sep) = Between(t, end, n)
    <2>1. n \in Nat /\ end \in [0..n -> Nat] /\ end[0] = 0
      BY <1>0
    <2>2. QED
      BY <1>7, <1>8, <2>1, PiecesLie
  <1>10. \A k \in 1..n : SubSeq(t, end[k - 1] + 1, end[k] - 1) = u[k]
    <2> TAKE k \in 1..n
    <2>1. /\ end[k] = end[k - 1] + Len(u[k]) + 1 /\ end[k - 1] \in Nat /\ Len(u[k]) \in Nat
          /\ end[k] <= Len(t) /\ u[k] \in Seq(S)
      BY <1>1
    <2> DEFINE v == SubSeq(t, end[k - 1] + 1, end[k] - 1)
    <2>2. v \in Seq(S) /\ Len(v) = Len(u[k]) /\ \A q \in 1..Len(u[k]) : v[q] = t[end[k - 1] + q]
      <3> DEFINE a == end[k - 1]
                 l == Len(u[k])
      <3>1. a \in Nat /\ l \in Nat /\ a + l <= Len(t) /\ end[k] - 1 = a + l
        BY <1>0, <2>1, RoomFor
      <3> HIDE DEF a, l
      <3>2. SubSeq(t, a + 1, a + l) \in Seq(S) /\ Len(SubSeq(t, a + 1, a + l)) = l
        BY <3>1, <1>0
      <3>3. \A q \in 1..l : SubSeq(t, a + 1, a + l)[q] = t[a + q]
        BY <3>1, <1>0
      <3>4. QED
        BY <3>1, <3>2, <3>3 DEF a, l
    <2> HIDE DEF v
    <2>3. \A q \in 1..Len(u[k]) : v[q] = u[k][q]
      BY <1>2, <2>2
    <2>4. v = u[k]
      BY <2>1, <2>2, <2>3, SeqEqual
    <2>5. QED
      BY <2>4 DEF v
  <1>11. u = [k \in 1..n |-> u[k]]
    BY DEF n
  <1>12. QED
    BY <1>9, <1>10, <1>11 DEF Between

\* The escapes: no two characters share one, and none of them is a separator.
LEMMA Escapes ==
    /\ "\\" \in DOMAIN EscapeOf /\ "NL" \in DOMAIN EscapeOf /\ "TAB" \in DOMAIN EscapeOf /\ "CR" \in DOMAIN EscapeOf
    /\ \A c \in DOMAIN EscapeOf : /\ EscapeOf[c] \in {"n", "r", "t", "b", "f", "v", "\\"}
                                  /\ Unescaped(EscapeOf[c]) = c
  <1>1. DOMAIN EscapeOf = {"NL", "CR", "TAB", "BS", "FF", "VT", "\\"}
    BY DEF EscapeOf
  <1>2. /\ EscapeOf["NL"] = "n" /\ EscapeOf["CR"] = "r" /\ EscapeOf["TAB"] = "t"
        /\ EscapeOf["BS"] = "b" /\ EscapeOf["FF"] = "f" /\ EscapeOf["VT"] = "v" /\ EscapeOf["\\"] = "\\"
    BY DEF EscapeOf
  <1>3. \A c \in DOMAIN EscapeOf : EscapeOf[c] \in {"n", "r", "t", "b", "f", "v", "\\"}
    BY <1>1, <1>2
  <1>4. \A c, d \in DOMAIN EscapeOf : EscapeOf[c] = EscapeOf[d] => c = d
    BY <1>1, <1>2
  <1>5. ASSUME NEW c \in DOMAIN EscapeOf
        PROVE  Unescaped(EscapeOf[c]) = c
    <2>1. (CHOOSE d \in DOMAIN EscapeOf : EscapeOf[d] = EscapeOf[c]) = c
      BY <1>4
    <2>2. QED
      BY <2>1 DEF Unescaped
  <1>6. QED
    BY <1>1, <1>3, <1>5

\* t is u with an escape for every character that has one; the k-th character
\* of u ends at end[k].
Plain(t, u, end, k) == u[k] \notin DOMAIN EscapeOf /\ end[k] = end[k - 1] + 1 /\ t[end[k]] = u[k]
Double(t, u, end, k) ==
    /\ u[k] \in DOMAIN EscapeOf /\ end[k] = end[k - 1] + 2
    /\ t[end[k - 1] + 1] = "\\" /\ t[end[k]] = EscapeOf[u[k]]
Encodes(t, u, end) ==
    /\ end \in [0..Len(u) -> Nat]
    /\ end[0] = 0
    /\ end[Len(u)] = Len(t)
    /\ \A k \in 1..Len(u) : end[k] <= Len(t) /\ (Plain(t, u, end, k) \/ Double(t, u, end, k))
    /\ \A p \in 1..Len(t) : \E k \in 1..Len(u) : p \in (end[k - 1] + 1)..end[k]

LEMMA OneOrTwo ==
    ASSUME NEW a \in Nat, NEW b \in Nat, b = a + 1 \/ b = a + 2, NEW m \in Nat, b <= m
    PROVE  /\ b \in 1..m /\ a + 1 \in 1..m /\ a < b
           /\ b = a + 1 => b - 1 = a
           /\ b = a + 2 => b - 1 = a + 1 /\ a + 1 - 1 = a
           /\ \A p \in (a + 1)..b : p = b \/ (b = a + 2 /\ p = a + 1)
  OBVIOUS

LEMMA EncodedSteps ==
    ASSUME NEW S, NEW t \in Seq(S), NEW u \in Seq(S), NEW end, Encodes(t, u, end), NEW k \in 1..Len(u)
    PROVE  /\ end[k] \in Nat /\ end[k - 1] \in Nat /\ Len(t) \in Nat /\ end[k] <= Len(t)
           /\ end[k] = end[k - 1] + 1 \/ end[k] = end[k - 1] + 2
           /\ Plain(t, u, end, k) \/ Double(t, u, end, k)
           /\ k - 1 \in 0..Len(u)
  <1>1. k \in 0..Len(u) /\ k - 1 \in 0..Len(u) /\ Len(t) \in Nat
    OBVIOUS
  <1>2. end \in [0..Len(u) -> Nat] /\ end[k] <= Len(t) /\ (Plain(t, u, end, k) \/ Double(t, u, end, k))
    BY DEF Encodes
  <1>3. end[k] = end[k - 1] + 1 \/ end[k] = end[k - 1] + 2
    BY <1>2, Zenon DEF Plain, Double
  <1>4. end[k] \in Nat /\ end[k - 1] \in Nat
    BY <1>1, <1>2
  <1>5. QED
    BY <1>1, <1>2, <1>3, <1>4

\* No escape is open where a character of u ends.
LEMMA EncodedCloses ==
    ASSUME NEW S, NEW t \in Seq(S), NEW u \in Seq(S), NEW end, Encodes(t, u, end), NEW k \in 0..Len(u)
    PROVE  ~OpenAt(t, end[k])
  <1> DEFINE Holds(m) == ~OpenAt(t, end[m])
             Bad == {m \in 0..Len(u) : ~Holds(m)}
  <1>0. Len(u) \in Nat /\ end[0] = 0
    BY DEF Encodes
  <1> HIDE DEF Holds
  <1> SUFFICES ASSUME Bad # {} PROVE FALSE
    BY DEF Holds
  <1>1. PICK m \in Bad : \A l \in 0..(m - 1) : l \notin Bad
    <2>1. Bad \in SUBSET (0..Len(u))
      OBVIOUS
    <2> HIDE DEF Bad
    <2>2. QED
      BY <1>0, <2>1, FirstFailure
  <1>2. m \in 0..Len(u) /\ ~Holds(m)
    OBVIOUS
  <1>3. CASE m = 0
    <2>1. ~OpenAt(t, 0)
      BY NothingOpenAtFirst
    <2>2. QED
      BY <1>0, <1>2, <1>3, <2>1 DEF Holds
  <1>4. CASE m # 0
    <2>1. m \in 1..Len(u) /\ m - 1 \in 0..(m - 1) /\ m - 1 \in 0..Len(u)
      BY <1>0, <1>2, <1>4
    <2>2. Holds(m - 1)
      BY <1>1, <2>1
    <2>3. /\ end[m] \in Nat /\ end[m - 1] \in Nat /\ Len(t) \in Nat /\ end[m] <= Len(t)
          /\ end[m] = end[m - 1] + 1 \/ end[m] = end[m - 1] + 2
          /\ Plain(t, u, end, m) \/ Double(t, u, end, m)
      BY <2>1, EncodedSteps
    <2>4. /\ end[m] \in 1..Len(t) /\ end[m - 1] + 1 \in 1..Len(t)
          /\ end[m] = end[m - 1] + 2 => end[m] - 1 = end[m - 1] + 1 /\ end[m - 1] + 1 - 1 = end[m - 1]
      BY <2>3, OneOrTwo, Zenon
    <2>5. OpenAt(t, end[m]) => t[end[m]] = "\\" /\ ~OpenAt(t, end[m] - 1)
      BY <2>4, OpenSteps
    <2>6. CASE Plain(t, u, end, m)
      <3>1. t[end[m]] # "\\"
        BY <2>6, Escapes, Zenon DEF Plain
      <3>2. QED
        BY <1>2, <2>5, <3>1 DEF Holds
    <2>7. CASE Double(t, u, end, m)
      <3> DEFINE i == end[m - 1] + 1
      <3>1. t[i] = "\\" /\ end[m] - 1 = i /\ i - 1 = end[m - 1] /\ i \in 1..Len(t)
        <4>1. t[i] = "\\" /\ end[m] = end[m - 1] + 2
          BY <2>7, Zenon DEF Double
        <4>2. end[m] - 1 = i /\ i - 1 = end[m - 1] /\ i \in 1..Len(t)
          <5>1. end[m - 1] \in Nat /\ i \in 1..Len(t)
            BY <2>3, <2>4
          <5>2. QED
            BY <4>1, <5>1
        <4>3. QED
          BY <4>1, <4>2
      <3> HIDE DEF i
      <3>2. OpenAt(t, i) <=> t[i] = "\\" /\ ~OpenAt(t, i - 1)
        BY <3>1, OpenSteps
      <3>3. OpenAt(t, i)
        BY <2>2, <3>1, <3>2, Zenon DEF Holds
      <3>4. QED
        BY <1>2, <2>5, <3>1, <3>3, Zenon DEF Holds
    <2>8. QED
      BY <2>3, <2>6, <2>7
  <1>5. QED
    BY <1>3, <1>4

\* Nothing in an encoded text ends a field or a row.
LEMMA EncodedSealed ==
    ASSUME NEW S, NEW t \in Seq(S), NEW u \in Seq(S), NEW end, Encodes(t, u, end), NEW sep \in {"TAB", "NL", "CR"}
    PROVE  Sealed(t, sep)
  <1>1. ASSUME NEW p \in 1..Len(t)
        PROVE  t[p] # sep
    <2>1. PICK k \in 1..Len(u) : p \in (end[k - 1] + 1)..end[k]
      BY DEF Encodes
    <2>2. /\ end[k] \in Nat /\ end[k - 1] \in Nat /\ Len(t) \in Nat /\ end[k] <= Len(t)
          /\ end[k] = end[k - 1] + 1 \/ end[k] = end[k - 1] + 2
          /\ Plain(t, u, end, k) \/ Double(t, u, end, k)
      BY EncodedSteps
    <2>3. p = end[k] \/ (end[k] = end[k - 1] + 2 /\ p = end[k - 1] + 1)
      <3>1. \A q \in (end[k - 1] + 1)..end[k] : q = end[k] \/ (end[k] = end[k - 1] + 2 /\ q = end[k - 1] + 1)
        BY <2>2, OneOrTwo, Zenon
      <3>2. QED
        BY <2>1, <3>1
    <2>4. sep # "\\" /\ sep \in DOMAIN EscapeOf /\ sep \notin {"n", "r", "t", "b", "f", "v", "\\"}
      BY Escapes
    <2>5. CASE Plain(t, u, end, k)
      <3>1. p = end[k]
        <4>1. end[k] = end[k - 1] + 1
          BY <2>5 DEF Plain
        <4>2. QED
          BY <2>2, <2>3, <4>1
      <3>2. QED
        BY <2>4, <2>5, <3>1, Zenon DEF Plain
    <2>6. CASE Double(t, u, end, k)
      <3>1. t[p] = "\\" \/ t[p] = EscapeOf[u[k]]
        BY <2>3, <2>6, Zenon DEF Double
      <3>2. EscapeOf[u[k]] \in {"n", "r", "t", "b", "f", "v", "\\"}
        BY <2>6, Escapes, Zenon DEF Double
      <3>3. QED
        BY <2>4, <3>1, <3>2, Zenon
    <2>7. QED
      BY <2>2, <2>5, <2>6
  <1>2. ~OpenAt(t, Len(t))
    <2>1. Len(u) \in 0..Len(u) /\ end[Len(u)] = Len(t)
      BY DEF Encodes
    <2>2. ~OpenAt(t, end[Len(u)])
      BY <2>1, EncodedCloses
    <2>3. QED
      BY <2>1, <2>2
  <1>3. QED
    BY <1>1, <1>2 DEF Sealed

\* An encoded text is never taken for NULL.
LEMMA EncodedNotNull ==
    ASSUME NEW S, NEW t \in Seq(S), NEW u \in Seq(S), NEW end, Encodes(t, u, end)
    PROVE  t # Null
  <1> SUFFICES ASSUME t = Null PROVE FALSE
    OBVIOUS
  <1>1. Len(t) = 2 /\ t[1] = "\\" /\ t[2] = "N"
    BY DEF Null
  <1>2. 1 \in 1..Len(t)
    BY <1>1
  <1>3. PICK k \in 1..Len(u) : 1 \in (end[k - 1] + 1)..end[k]
    BY <1>2, Zenon DEF Encodes
  <1>4. /\ end[k] \in Nat /\ end[k - 1] \in Nat
        /\ Plain(t, u, end, k) \/ Double(t, u, end, k)
    BY EncodedSteps
  <1>5. end[k - 1] = 0
    BY <1>3, <1>4
  <1>6. CASE Plain(t, u, end, k)
    <2>1. end[k] = 1
      BY <1>5, <1>6 DEF Plain
    <2>2. u[k] = "\\" /\ u[k] \notin DOMAIN EscapeOf
      BY <1>1, <1>6, <2>1, Zenon DEF Plain
    <2>3. QED
      BY <2>2, Escapes, Zenon
  <1>7. CASE Double(t, u, end, k)
    <2>1. end[k] = 2
      BY <1>5, <1>7 DEF Double
    <2>2. EscapeOf[u[k]] = "N" /\ u[k] \in DOMAIN EscapeOf
      BY <1>1, <1>7, <2>1, Zenon DEF Double
    <2>3. EscapeOf[u[k]] \in {"n", "r", "t", "b", "f", "v", "\\"}
      BY <2>2, Escapes, Zenon
    <2>4. QED
      BY <2>2, <2>3
  <1>8. QED
    BY <1>4, <1>6, <1>7

\* What the server makes of position i of a text.
ReadAt(t, i) == IF i \in Escaped(t) THEN <<Unescaped(t[i])>> ELSE IF t[i] = "\\" THEN <<>> ELSE <<t[i]>>

LEMMA EncodedReadAt ==
    ASSUME NEW S, NEW t \in Seq(S), NEW u \in Seq(S), NEW end, Encodes(t, u, end), NEW k \in 1..Len(u)
    PROVE  /\ ReadAt(t, end[k]) = <<u[k]>>
           /\ end[k] = end[k - 1] + 2 => ReadAt(t, end[k - 1] + 1) = <<>>
  <1>1. /\ end[k] \in Nat /\ end[k - 1] \in Nat /\ Len(t) \in Nat /\ end[k] <= Len(t)
        /\ end[k] = end[k - 1] + 1 \/ end[k] = end[k - 1] + 2
        /\ Plain(t, u, end, k) \/ Double(t, u, end, k)
        /\ k - 1 \in 0..Len(u)
    BY EncodedSteps
  <1> DEFINE i == end[k]
             i1 == end[k - 1] + 1
  <1>2. i \in 1..Len(t) /\ i1 \in 1..Len(t) /\ i1 - 1 = end[k - 1]
    <2>1. end[k] \in 1..Len(t) /\ end[k - 1] + 1 \in 1..Len(t)
      BY <1>1, OneOrTwo, Zenon
    <2>2. QED
      BY <1>1, <2>1
  <1>3. ~OpenAt(t, i1 - 1)
    <2>1. ~OpenAt(t, end[k - 1])
      BY <1>1, EncodedCloses
    <2>2. QED
      BY <1>2, <2>1, Zenon
  <1>4. CASE Plain(t, u, end, k)
    <2>1. i = i1 /\ end[k] # end[k - 1] + 2
      BY <1>1, <1>4 DEF Plain
    <2>2. t[i] = u[k] /\ t[i] # "\\"
      BY <1>4, Escapes, Zenon DEF Plain
    <2> HIDE DEF i1
    <2>3. ~OpenAt(t, i - 1)
      BY <1>3, <2>1, Zenon
    <2>4. i \notin Escaped(t)
      BY <1>2, <2>3, EscapedIsOpen
    <2>5. QED
      BY <2>1, <2>2, <2>4, Zenon DEF ReadAt
  <1>5. CASE Double(t, u, end, k)
    <2>1. t[i1] = "\\" /\ t[i] = EscapeOf[u[k]] /\ u[k] \in DOMAIN EscapeOf
      BY <1>5, Zenon DEF Double
    <2>2. i - 1 = i1
      <3>1. end[k] = end[k - 1] + 2
        BY <1>5 DEF Double
      <3>2. QED
        BY <1>1, <3>1
    <2> HIDE DEF i1
    <2>3. OpenAt(t, i1)
      BY <1>2, <1>3, <2>1, OpenSteps
    <2>4. OpenAt(t, i - 1)
      BY <2>2, <2>3, Zenon
    <2>5. i \in Escaped(t) /\ i1 \notin Escaped(t)
      BY <1>2, <1>3, <2>4, EscapedIsOpen
    <2>6. Unescaped(t[i]) = u[k]
      BY <2>1, Escapes, Zenon
    <2>7. ReadAt(t, i) = <<u[k]>> /\ ReadAt(t, i1) = <<>>
      BY <2>1, <2>5, <2>6, Zenon DEF ReadAt
    <2>8. QED
      BY <2>7, Zenon DEF i1
  <1>6. QED
    BY <1>1, <1>4, <1>5

\* What the server reads from an encoded text is the text.
LEMMA EncodedReads ==
    ASSUME NEW S, NEW t \in Seq(S), NEW u \in Seq(S), NEW end, Encodes(t, u, end)
    PROVE  Unescape(t) = u
  <1> DEFINE R == S \cup {Unescaped(c) : c \in S}
             seqs == [i \in 1..Len(t) |-> ReadAt(t, i)]
             r == FlattenSeq(seqs)
  <1>0. Len(t) \in Nat /\ Len(u) \in Nat /\ end[0] = 0 /\ end[Len(u)] = Len(t) /\ end \in [0..Len(u) -> Nat]
    BY DEF Encodes
  <1>1. Unescape(t) = r
    BY DEF Unescape, ReadAt
  <1>2. seqs \in Seq(Seq(R)) /\ Len(seqs) = Len(t) /\ \A i \in 1..Len(t) : seqs[i] = ReadAt(t, i)
    <2>1. \A i \in 1..Len(t) : ReadAt(t, i) \in Seq(R)
      <3> TAKE i \in 1..Len(t)
      <3>1. t[i] \in S /\ t[i] \in R /\ Unescaped(t[i]) \in R
        OBVIOUS
      <3> HIDE DEF R
      <3>2. <<>> \in Seq(R) /\ \A c \in R : <<c>> \in Seq(R)
        OBVIOUS
      <3>3. QED
        BY <3>1, <3>2, Zenon DEF ReadAt
    <2> HIDE DEF R
    <2>2. QED
      BY <1>0, <2>1
  <1> HIDE DEF R, seqs
  <1>3. r \in Seq(R) /\ \E mid : Places(r, seqs, mid)
    BY <1>2, FlattenPlaces
  <1>4. PICK mid : Places(r, seqs, mid)
    BY <1>3
  <1> HIDE DEF r
  <1>5. /\ mid \in [0..Len(t) -> Nat] /\ mid[0] = 0 /\ mid[Len(t)] = Len(r)
        /\ \A i \in 1..Len(t) : mid[i] = mid[i - 1] + Len(ReadAt(t, i))
        /\ \A i \in 1..Len(t) : \A q \in 1..Len(ReadAt(t, i)) : r[mid[i - 1] + q] = ReadAt(t, i)[q]
    <2>1. mid \in [0..Len(seqs) -> Nat] /\ mid[0] = 0 /\ mid[Len(seqs)] = Len(r)
      BY <1>4, Zenon DEF Places
    <2>2. mid \in [0..Len(t) -> Nat] /\ mid[0] = 0 /\ mid[Len(t)] = Len(r)
      BY <1>2, <2>1, Zenon
    <2>3. ASSUME NEW i \in 1..Len(t)
          PROVE  /\ mid[i] = mid[i - 1] + Len(ReadAt(t, i))
                 /\ \A q \in 1..Len(ReadAt(t, i)) : r[mid[i - 1] + q] = ReadAt(t, i)[q]
      <3>1. i \in 1..Len(seqs) /\ seqs[i] = ReadAt(t, i)
        BY <1>2, Zenon
      <3>2. /\ mid[i] = mid[i - 1] + Len(seqs[i])
            /\ \A q \in 1..Len(seqs[i]) : r[mid[i - 1] + q] = seqs[i][q]
        BY <1>4, <3>1, Zenon DEF Places
      <3>3. QED
        BY <3>1, <3>2, Zenon
    <2>4. QED
      BY <2>2, <2>3, Zenon
  <1>6. \A k \in 0..Len(u) : mid[end[k]] = k
    <2> DEFINE Holds(k) == mid[end[k]] = k
               Bad == {k \in 0..Len(u) : ~Holds(k)}
    <2> SUFFICES ASSUME Bad # {} PROVE FALSE
      OBVIOUS
    <2> HIDE DEF Holds
    <2>1. PICK k \in Bad : \A l \in 0..(k - 1) : l \notin Bad
      <3>1. Bad \in SUBSET (0..Len(u))
        OBVIOUS
      <3> HIDE DEF Bad
      <3>2. QED
        BY <1>0, <3>1, FirstFailure
    <2>2. k \in 0..Len(u) /\ ~Holds(k)
      OBVIOUS
    <2>3. CASE k = 0
      BY <1>0, <1>5, <2>2, <2>3 DEF Holds
    <2>4. CASE k # 0
      <3>1. k \in 1..Len(u) /\ k - 1 \in 0..(k - 1) /\ k - 1 \in 0..Len(u)
        BY <1>0, <2>2, <2>4
      <3>2. mid[end[k - 1]] = k - 1
        BY <2>1, <3>1 DEF Holds
      <3>3. /\ end[k] \in Nat /\ end[k - 1] \in Nat /\ Len(t) \in Nat /\ end[k] <= Len(t)
            /\ end[k] = end[k - 1] + 1 \/ end[k] = end[k - 1] + 2
        BY <3>1, EncodedSteps
      <3>4. /\ ReadAt(t, end[k]) = <<u[k]>>
            /\ end[k] = end[k - 1] + 2 => ReadAt(t, end[k - 1] + 1) = <<>>
        BY <3>1, EncodedReadAt
      <3>5. /\ end[k] \in 1..Len(t) /\ end[k - 1] + 1 \in 1..Len(t)
            /\ end[k] = end[k - 1] + 1 => end[k] - 1 = end[k - 1]
            /\ end[k] = end[k - 1] + 2 => end[k] - 1 = end[k - 1] + 1 /\ end[k - 1] + 1 - 1 = end[k - 1]
        BY <3>3, OneOrTwo, Zenon
      <3>6. Len(ReadAt(t, end[k])) = 1
        BY <3>4
      <3>7. mid[end[k]] = mid[end[k] - 1] + 1
        BY <1>5, <3>5, <3>6, Zenon
      <3>8. mid[end[k] - 1] = k - 1
        <4>1. CASE end[k] = end[k - 1] + 1
          BY <3>2, <3>5, <4>1, Zenon
        <4>2. CASE end[k] = end[k - 1] + 2
          <5> DEFINE i == end[k - 1] + 1
          <5>1. i \in 1..Len(t) /\ end[k] - 1 = i /\ i - 1 = end[k - 1] /\ ReadAt(t, i) = <<>>
            <6>1. i \in 1..Len(t) /\ ReadAt(t, i) = <<>>
              BY <3>4, <3>5, <4>2, Zenon
            <6>2. end[k] - 1 = i /\ i - 1 = end[k - 1]
              BY <3>3, <4>2
            <6>3. QED
              BY <6>1, <6>2
          <5> HIDE DEF i
          <5>2. Len(ReadAt(t, i)) = 0
            BY <5>1
          <5>3. mid[i] = mid[i - 1] + 0
            BY <1>5, <5>1, <5>2, Zenon
          <5>4. mid[i] = (k - 1) + 0
            BY <3>2, <5>1, <5>3, Zenon
          <5>5. QED
            BY <2>2, <5>1, <5>4
        <4>3. QED
          BY <3>3, <4>1, <4>2
      <3>9. Holds(k)
        BY <3>1, <3>7, <3>8 DEF Holds
      <3>10. QED
        BY <2>2, <3>9
    <2>5. QED
      BY <2>3, <2>4
  <1>7. Len(r) = Len(u)
    BY <1>0, <1>5, <1>6
  <1>8. \A k \in 1..Len(u) : r[k] = u[k]
    <2> TAKE k \in 1..Len(u)
    <2>1. end[k] \in 1..Len(t) /\ ReadAt(t, end[k]) = <<u[k]>>
      <3>1. /\ end[k] \in Nat /\ end[k - 1] \in Nat /\ Len(t) \in Nat /\ end[k] <= Len(t)
            /\ end[k] = end[k - 1] + 1 \/ end[k] = end[k - 1] + 2
        BY EncodedSteps
      <3>2. end[k] \in 1..Len(t)
        BY <3>1, OneOrTwo, Zenon
      <3>3. ReadAt(t, end[k]) = <<u[k]>>
        BY EncodedReadAt
      <3>4. QED
        BY <3>2, <3>3
    <2> DEFINE i == end[k]
    <2>2. i \in 1..Len(t) /\ ReadAt(t, i) = <<u[k]>> /\ mid[i] = k
      BY <1>0, <1>6, <2>1
    <2> HIDE DEF i
    <2>3. Len(ReadAt(t, i)) = 1 /\ ReadAt(t, i)[1] = u[k] /\ 1 \in 1..Len(ReadAt(t, i))
      BY <2>2
    <2>4. mid[i] = mid[i - 1] + 1 /\ r[mid[i - 1] + 1] = u[k]
      BY <1>5, <2>2, <2>3, Zenon
    <2>5. QED
      BY <2>2, <2>4, Zenon
  <1>9. u \in Seq(R)
    BY DEF R
  <1>10. QED
    BY <1>1, <1>3, <1>7, <1>8, <1>9, SeqEqual

\* Symbols that every text may hold. (The provers do not know that a literal is
\* in STRING, so the texts are over some set that holds these.)
Base == {"\\", "N", "x", "?", "TAB", "NL"} \cup {EscapeOf[c] : c \in DOMAIN EscapeOf} \cup {HexOf[b] : b \in Bytes}

\* The values that MapRows hands over: binary text is bytes, and numbers and
\* booleans are printed without a character that has an escape.
IsGo(g, T) ==
    \/ g.kind = "nil" /\ g.text = <<>>
    \/ g.kind = "bytes" /\ g.text \in Seq(Bytes)
    \/ g.kind = "string" /\ g.text \in Seq(T)
    \/ g.kind \notin {"nil", "bytes", "string"} /\ g.text \in Seq(T \ DOMAIN EscapeOf)

\* A replaced run of bad bytes is the only change that ToValidUTF8 makes.
LEMMA ValidTyped ==
    ASSUME NEW T, "?" \in T, NEW s \in Seq(T)
    PROVE  ValidUTF8(s) \in Seq(T)
  <1> DEFINE Part(i) == IF s[i] # "bad" THEN <<s[i]>> ELSE IF i > 1 /\ s[i - 1] = "bad" THEN <<>> ELSE <<"?">>
             seqs == [i \in 1..Len(s) |-> Part(i)]
  <1>1. \A i \in 1..Len(s) : Part(i) \in Seq(T)
    <2> TAKE i \in 1..Len(s)
    <2>1. s[i] \in T
      OBVIOUS
    <2>2. <<>> \in Seq(T) /\ \A c \in T : <<c>> \in Seq(T)
      OBVIOUS
    <2>3. QED
      BY <2>1, <2>2, Zenon
  <1>2. ValidUTF8(s) = FlattenSeq(seqs)
    BY DEF ValidUTF8
  <1>3. seqs \in Seq(Seq(T))
    <2> HIDE DEF Part
    <2>1. QED
      BY <1>1
  <1> HIDE DEF seqs
  <1>4. QED
    BY <1>2, <1>3, FlattenPlaces

LEMMA EscapeTyped ==
    ASSUME NEW T, Base \subseteq T, NEW c \in T
    PROVE  /\ Escape(c) \in Seq(T)
           /\ c \in DOMAIN EscapeOf => Len(Escape(c)) = 2 /\ Escape(c)[1] = "\\" /\ Escape(c)[2] = EscapeOf[c]
           /\ c \notin DOMAIN EscapeOf => Len(Escape(c)) = 1 /\ Escape(c)[1] = c
  <1>1. CASE c \in DOMAIN EscapeOf
    <2> DEFINE e == EscapeOf[c]
    <2>1. Escape(c) = <<"\\", e>>
      BY <1>1 DEF Escape
    <2>2. "\\" \in T /\ e \in T
      BY <1>1 DEF Base
    <2> HIDE DEF e
    <2>3. <<"\\", e>> \in Seq(T) /\ Len(<<"\\", e>>) = 2 /\ <<"\\", e>>[1] = "\\" /\ <<"\\", e>>[2] = e
      BY <2>2
    <2>4. QED
      BY <1>1, <2>1, <2>3, Zenon DEF e
  <1>2. CASE c \notin DOMAIN EscapeOf
    <2>1. Escape(c) = <<c>>
      BY <1>2 DEF Escape
    <2>2. <<c>> \in Seq(T) /\ Len(<<c>>) = 1 /\ <<c>>[1] = c
      OBVIOUS
    <2>3. QED
      BY <1>2, <2>1, <2>2, Zenon
  <1>3. QED
    BY <1>1, <1>2

\* escapeCopyString encodes the text, once it is valid.
LEMMA StringEncodes ==
    ASSUME NEW T, Base \subseteq T, NEW s \in Seq(T)
    PROVE  /\ EscapeCopyString(s) \in Seq(T) /\ ValidUTF8(s) \in Seq(T)
           /\ \E end : Encodes(EscapeCopyString(s), ValidUTF8(s), end)
  <1> DEFINE u == ValidUTF8(s)
             seqs == [i \in 1..Len(u) |-> Escape(u[i])]
             t == EscapeCopyString(s)
  <1>1. u \in Seq(T)
    BY ValidTyped DEF Base
  <1>2. t = FlattenSeq(seqs)
    BY DEF EscapeCopyString
  <1> HIDE DEF u
  <1>3. Len(u) \in Nat /\ \A i \in 1..Len(u) : u[i] \in T
    BY <1>1
  <1>4. seqs \in Seq(Seq(T)) /\ Len(seqs) = Len(u) /\ \A i \in 1..Len(u) : seqs[i] = Escape(u[i])
    <2>1. \A i \in 1..Len(u) : Escape(u[i]) \in Seq(T)
      BY <1>3, EscapeTyped, Zenon
    <2>2. QED
      BY <1>3, <2>1
  <1> HIDE DEF seqs, t
  <1>5. t \in Seq(T) /\ \E end : Places(t, seqs, end)
    BY <1>2, <1>4, FlattenPlaces
  <1>6. PICK end : Places(t, seqs, end)
    BY <1>5
  <1>7. /\ end \in [0..Len(u) -> Nat] /\ end[0] = 0 /\ end[Len(u)] = Len(t)
        /\ \A k \in 1..Len(u) : end[k] = end[k - 1] + Len(Escape(u[k])) /\ end[k] <= Len(t)
        /\ \A k \in 1..Len(u) : \A q \in 1..Len(Escape(u[k])) : t[end[k - 1] + q] = Escape(u[k])[q]
        /\ \A p \in 1..Len(t) : \E k \in 1..Len(u) : p \in (end[k - 1] + 1)..end[k]
    <2>1. /\ end \in [0..Len(seqs) -> Nat] /\ end[0] = 0 /\ end[Len(seqs)] = Len(t)
          /\ \A p \in 1..Len(t) : \E k \in 1..Len(seqs) : p \in (end[k - 1] + 1)..end[k]
      BY <1>6, Zenon DEF Places
    <2>2. /\ end \in [0..Len(u) -> Nat] /\ end[0] = 0 /\ end[Len(u)] = Len(t)
          /\ \A p \in 1..Len(t) : \E k \in 1..Len(u) : p \in (end[k - 1] + 1)..end[k]
      BY <1>4, <2>1, Zenon
    <2>3. ASSUME NEW k \in 1..Len(u)
          PROVE  /\ end[k] = end[k - 1] + Len(Escape(u[k])) /\ end[k] <= Len(t)
                 /\ \A q \in 1..Len(Escape(u[k])) : t[end[k - 1] + q] = Escape(u[k])[q]
      <3>1. k \in 1..Len(seqs) /\ seqs[k] = Escape(u[k])
        BY <1>4, Zenon
      <3>2. /\ end[k] = end[k - 1] + Len(seqs[k]) /\ end[k] <= Len(t)
            /\ \A q \in 1..Len(seqs[k]) : t[end[k - 1] + q] = seqs[k][q]
        BY <1>6, <3>1, Zenon DEF Places
      <3>3. QED
        BY <3>1, <3>2, Zenon
    <2>4. QED
      BY <2>2, <2>3, Zenon
  <1>8. ASSUME NEW k \in 1..Len(u)
        PROVE  end[k] <= Len(t) /\ (Plain(t, u, end, k) \/ Double(t, u, end, k))
    <2>1. u[k] \in T
      BY <1>3
    <2>2. CASE u[k] \in DOMAIN EscapeOf
      <3>1. Len(Escape(u[k])) = 2 /\ Escape(u[k])[1] = "\\" /\ Escape(u[k])[2] = EscapeOf[u[k]]
        BY <2>1, <2>2, EscapeTyped, Zenon
      <3>2. end[k] = end[k - 1] + 2
        BY <1>7, <3>1, Zenon
      <3>3. 1 \in 1..2 /\ 2 \in 1..2
        OBVIOUS
      <3>4. t[end[k - 1] + 1] = "\\" /\ t[end[k - 1] + 2] = EscapeOf[u[k]]
        BY <1>7, <3>1, <3>3, Zenon
      <3>5. QED
        BY <1>7, <2>2, <3>2, <3>4, Zenon DEF Double
    <2>3. CASE u[k] \notin DOMAIN EscapeOf
      <3>1. Len(Escape(u[k])) = 1 /\ Escape(u[k])[1] = u[k]
        BY <2>1, <2>3, EscapeTyped, Zenon
      <3>2. end[k] = end[k - 1] + 1
        BY <1>7, <3>1, Zenon
      <3>3. 1 \in 1..1
        OBVIOUS
      <3>4. t[end[k - 1] + 1] = u[k]
        BY <1>7, <3>1, <3>3, Zenon
      <3>5. QED
        BY <1>7, <2>3, <3>2, <3>4, Zenon DEF Plain
    <2>4. QED
      BY <2>2, <2>3
  <1>9. Encodes(t, u, end)
    BY <1>7, <1>8, Zenon DEF Encodes
  <1>10. QED
    BY <1>1, <1>5, <1>9 DEF u, t

LEMMA HexDigits ==
    /\ EscapeOf["\\"] = "\\" /\ "x" \notin DOMAIN EscapeOf
    /\ \A b \in Bytes : HexOf[b] \notin DOMAIN EscapeOf
  <1>1. DOMAIN EscapeOf = {"NL", "CR", "TAB", "BS", "FF", "VT", "\\"} /\ EscapeOf["\\"] = "\\"
    BY DEF EscapeOf
  <1>2. \A b \in Bytes : HexOf[b] \in {"00", "09", "0a", "0d", "4e", "61", "78", "ff", "5c"}
    BY DEF Bytes, HexOf
  <1>3. QED
    BY <1>1, <1>2

\* The backslash before the x is the only character of a bytea that has an
\* escape, and it is written with one.
LEMMA BytesEncode ==
    ASSUME NEW T, Base \subseteq T, NEW s \in Seq(Bytes)
    PROVE  LET u == <<"\\", "x">> \o [i \in 1..Len(s) |-> Hex(s[i])] IN
           /\ HexEncodeCopyBytes(s) \in Seq(T) /\ u \in Seq(T)
           /\ \E end : Encodes(HexEncodeCopyBytes(s), u, end)
  <1> DEFINE h == [i \in 1..Len(s) |-> Hex(s[i])]
             n == Len(s)
             u == <<"\\", "x">> \o h
             t == HexEncodeCopyBytes(s)
             end == [k \in 0..(n + 2) |-> IF k = 0 THEN 0 ELSE k + 1]
  <1>1. n \in Nat /\ \A i \in 1..n : s[i] \in Bytes
    OBVIOUS
  <1>2. \A i \in 1..n : Hex(s[i]) \in T /\ Hex(s[i]) \notin DOMAIN EscapeOf
    <2> TAKE i \in 1..n
    <2>1. HexOf[s[i]] \in Base
      BY <1>1 DEF Base
    <2>2. QED
      BY <1>1, <2>1, HexDigits, Zenon DEF Hex
  <1>3. h \in Seq(T) /\ Len(h) = n /\ \A i \in 1..n : h[i] \in T /\ h[i] \notin DOMAIN EscapeOf
    <2>1. h \in [1..n -> T]
      BY <1>2
    <2>2. \A i \in 1..n : h[i] = Hex(s[i])
      OBVIOUS
    <2> HIDE DEF h
    <2>3. h \in Seq(T) /\ Len(h) = n
      BY <1>1, <2>1
    <2>4. QED
      BY <1>2, <2>2, <2>3
  <1>4. t = <<"\\", "\\", "x">> \o h
    BY DEF HexEncodeCopyBytes
  <1>5. "\\" \in T /\ "x" \in T
    BY DEF Base
  <1> HIDE DEF h, t
  <1>6. \A b \in T : /\ <<b, "x">> \in Seq(T) /\ Len(<<b, "x">>) = 2 /\ <<b, "x">>[1] = b /\ <<b, "x">>[2] = "x"
                     /\ <<b, b, "x">> \in Seq(T) /\ Len(<<b, b, "x">>) = 3
                     /\ <<b, b, "x">>[1] = b /\ <<b, b, "x">>[2] = b /\ <<b, b, "x">>[3] = "x"
    BY <1>5
  <1>c. \A a, b \in Seq(T) : /\ a \o b \in Seq(T) /\ Len(a \o b) = Len(a) + Len(b)
                             /\ \A p \in 1..Len(a) : (a \o b)[p] = a[p]
                             /\ \A q \in 1..Len(b) : (a \o b)[Len(a) + q] = b[q]
    OBVIOUS
  <1>7. u \in Seq(T) /\ Len(u) = n + 2 /\ u[1] = "\\" /\ u[2] = "x" /\ \A k \in 3..(n + 2) : u[k] = h[k - 2]
    <2> DEFINE v == <<"\\", "x">>
    <2>1. v \in Seq(T) /\ Len(v) = 2 /\ v[1] = "\\" /\ v[2] = "x"
      BY <1>5, <1>6, Zenon
    <2> HIDE DEF v
    <2> DEFINE w == v \o h
    <2>2. /\ w \in Seq(T) /\ Len(w) = Len(v) + Len(h)
          /\ \A p \in 1..Len(v) : w[p] = v[p]
          /\ \A q \in 1..Len(h) : w[Len(v) + q] = h[q]
      <3>1. v \in Seq(T) /\ h \in Seq(T)
        BY <1>3, <2>1
      <3>2. QED
        BY <1>c, <3>1, Zenon
    <2> HIDE DEF w
    <2>3. w \in Seq(T) /\ Len(w) = n + 2 /\ w[1] = v[1] /\ w[2] = v[2]
      BY <1>1, <1>3, <2>1, <2>2
    <2>4. \A k \in 3..(n + 2) : w[k] = h[k - 2]
      <3> TAKE k \in 3..(n + 2)
      <3>1. k - 2 \in 1..Len(h) /\ k = Len(v) + (k - 2)
        BY <1>1, <1>3, <2>1
      <3>2. w[Len(v) + (k - 2)] = h[k - 2]
        BY <2>2, <3>1
      <3>3. QED
        BY <3>1, <3>2
    <2>5. QED
      BY <2>1, <2>3, <2>4, Zenon DEF v, w
  <1>8. t \in Seq(T) /\ Len(t) = n + 3 /\ t[1] = "\\" /\ t[2] = "\\" /\ t[3] = "x" /\ \A k \in 3..(n + 2) : t[k + 1] = h[k - 2]
    <2> DEFINE v == <<"\\", "\\", "x">>
    <2>1. v \in Seq(T) /\ Len(v) = 3 /\ v[1] = "\\" /\ v[2] = "\\" /\ v[3] = "x"
      BY <1>5, <1>6, Zenon
    <2> HIDE DEF v
    <2> DEFINE w == v \o h
    <2>2. /\ w \in Seq(T) /\ Len(w) = Len(v) + Len(h)
          /\ \A p \in 1..Len(v) : w[p] = v[p]
          /\ \A q \in 1..Len(h) : w[Len(v) + q] = h[q]
      <3>1. v \in Seq(T) /\ h \in Seq(T)
        BY <1>3, <2>1
      <3>2. QED
        BY <1>c, <3>1, Zenon
    <2> HIDE DEF w
    <2>3. w \in Seq(T) /\ Len(w) = n + 3 /\ w[1] = v[1] /\ w[2] = v[2] /\ w[3] = v[3]
      BY <1>1, <1>3, <2>1, <2>2
    <2>4. \A k \in 3..(n + 2) : w[k + 1] = h[k - 2]
      <3> TAKE k \in 3..(n + 2)
      <3>1. k - 2 \in 1..Len(h) /\ k + 1 = Len(v) + (k - 2)
        BY <1>1, <1>3, <2>1
      <3>2. w[Len(v) + (k - 2)] = h[k - 2]
        BY <2>2, <3>1
      <3>3. QED
        BY <3>1, <3>2
    <2>5. QED
      BY <1>4, <2>1, <2>3, <2>4, Zenon DEF v, w
  <1> HIDE DEF u, n
  <1>9. /\ end \in [0..(n + 2) -> Nat] /\ end[0] = 0 /\ end[n + 2] = n + 3
        /\ \A k \in 1..(n + 2) : end[k] = k + 1 /\ end[k] <= n + 3
        /\ \A k \in 2..(n + 2) : end[k - 1] = k
    BY <1>1
  <1>10. \A k \in 3..(n + 2) : k - 2 \in 1..n
    BY <1>1
  <1> HIDE DEF end
  <1>11. ASSUME NEW k \in 1..(n + 2)
         PROVE  Plain(t, u, end, k) \/ Double(t, u, end, k)
    <2>1. CASE k = 1
      <3>1. end[k] = 2 /\ end[k - 1] = 0
        BY <1>9, <2>1
      <3>2. end[k] = end[k - 1] + 2 /\ end[k - 1] + 1 = 1
        BY <3>1
      <3>3. QED
        BY <1>7, <1>8, <2>1, <3>1, <3>2, Escapes, HexDigits, Zenon DEF Double
    <2>2. CASE k # 1
      <3>1. k \in 2..(n + 2) /\ (k = 2 \/ k \in 3..(n + 2))
        BY <1>1, <2>2
      <3>2. end[k] = k + 1 /\ end[k - 1] = k
        BY <1>9, <3>1
      <3>3. end[k] = end[k - 1] + 1
        BY <3>2
      <3>4. u[k] \notin DOMAIN EscapeOf /\ t[k + 1] = u[k]
        <4>1. CASE k = 2
          <5>1. k + 1 = 3
            BY <4>1
          <5>2. QED
            BY <1>7, <1>8, <4>1, <5>1, HexDigits, Zenon
        <4>2. CASE k \in 3..(n + 2)
          BY <1>3, <1>7, <1>8, <1>10, <4>2, Zenon
        <4>3. QED
          BY <3>1, <4>1, <4>2
      <3>5. QED
        BY <3>2, <3>3, <3>4, Zenon DEF Plain
    <2>3. QED
      BY <2>1, <2>2
  <1>12. ASSUME NEW p \in 1..(n + 3)
         PROVE  \E k \in 1..(n + 2) : p \in (end[k - 1] + 1)..end[k]
    <2>1. CASE p = 1 \/ p = 2
      <3>1. 1 \in 1..(n + 2) /\ end[1] = 2 /\ end[1 - 1] = 0
        BY <1>1, <1>9
      <3>2. p \in (end[1 - 1] + 1)..end[1]
        BY <2>1, <3>1
      <3>3. QED
        BY <3>1, <3>2
    <2>2. CASE p # 1 /\ p # 2
      <3> DEFINE k == p - 1
      <3>1. k \in 2..(n + 2) /\ k \in 1..(n + 2) /\ p = k + 1
        BY <1>1, <2>2
      <3> HIDE DEF k
      <3>2. end[k] = k + 1 /\ end[k - 1] = k
        BY <1>9, <3>1
      <3>3. p \in (end[k - 1] + 1)..end[k]
        BY <3>1, <3>2
      <3>4. QED
        BY <3>1, <3>3
    <2>3. QED
      BY <2>1, <2>2
  <1>13. Encodes(t, u, end)
    BY <1>7, <1>8, <1>9, <1>11, <1>12 DEF Encodes
  <1>14. QED
    BY <1>7, <1>8, <1>13 DEF t, u, h

\* A text without escapes encodes itself.
LEMMA PlainEncodes ==
    ASSUME NEW T, NEW s \in Seq(T \ DOMAIN EscapeOf)
    PROVE  s \in Seq(T) /\ \E end : Encodes(s, s, end)
  <1> DEFINE n == Len(s)
             end == [k \in 0..n |-> k]
  <1>1. n \in Nat /\ s \in Seq(T) /\ \A k \in 1..n : s[k] \notin DOMAIN EscapeOf
    <2> DEFINE U == T \ DOMAIN EscapeOf
    <2>1. s \in Seq(U)
      OBVIOUS
    <2>2. U \subseteq T /\ \A c \in U : c \notin DOMAIN EscapeOf
      OBVIOUS
    <2> HIDE DEF U
    <2>3. QED
      BY <2>1, <2>2
  <1>2. /\ end \in [0..n -> Nat] /\ end[0] = 0 /\ end[n] = n
        /\ \A k \in 1..n : end[k] = k /\ end[k - 1] = k - 1 /\ end[k] = end[k - 1] + 1 /\ end[k] <= n
    BY <1>1
  <1> HIDE DEF end
  <1>3. \A k \in 1..n : Plain(s, s, end, k)
    BY <1>1, <1>2 DEF Plain
  <1>4. \A p \in 1..n : p \in (end[p - 1] + 1)..end[p]
    BY <1>2
  <1>5. Encodes(s, s, end)
    BY <1>2, <1>3, <1>4 DEF Encodes
  <1>6. QED
    BY <1>1, <1>5

\* FormatField: the server reads the value from it, and it ends nothing.
LEMMA FieldReads ==
    ASSUME NEW T, Base \subseteq T, NEW g, IsGo(g, T)
    PROVE  /\ FormatField(g) \in Seq(T)
           /\ \A sep \in {"TAB", "NL", "CR"} : Sealed(FormatField(g), sep)
           /\ Cell(FormatField(g)) = CellOf(g)
  <1>1. CASE g.kind = "nil"
    <2>1. FormatField(g) = Null /\ CellOf(g) = NullCell
      BY <1>1 DEF FormatField, CellOf
    <2>2. Null \in Seq(T) /\ Len(Null) = 2 /\ Null[1] = "\\" /\ Null[2] = "N"
      <3>1. "\\" \in T /\ "N" \in T
        BY DEF Base
      <3>2. QED
        BY <3>1 DEF Null
    <2> DEFINE s == Null
    <2>3. s \in Seq(T) /\ 2 \in 1..Len(s) /\ s[2] # "\\"
      BY <2>2
    <2>4. \A q \in 1..Len(s) : s[q] \in {"\\", "N"}
      <3>1. \A q \in 1..2 : q = 1 \/ q = 2
        OBVIOUS
      <3>2. QED
        BY <2>2, <3>1, Zenon
    <2>5. ~OpenAt(s, 2)
      <3> HIDE DEF s
      <3>1. QED
        BY <2>3, OpenSteps
    <2>6. \A sep \in {"TAB", "NL", "CR"} : Sealed(s, sep)
      <3>1. \A sep \in {"TAB", "NL", "CR"} : sep \notin {"\\", "N"}
        OBVIOUS
      <3>2. QED
        BY <2>2, <2>4, <2>5, <3>1, Zenon DEF Sealed
    <2>7. Cell(s) = NullCell
      BY DEF Cell
    <2>8. QED
      BY <2>1, <2>2, <2>6, <2>7
  <1>2. ASSUME g.kind # "nil", NEW t \in Seq(T), NEW u \in Seq(T), NEW end, Encodes(t, u, end),
               FormatField(g) = t, Printed(g) = u
        PROVE  /\ FormatField(g) \in Seq(T)
               /\ \A sep \in {"TAB", "NL", "CR"} : Sealed(FormatField(g), sep)
               /\ Cell(FormatField(g)) = CellOf(g)
    <2>1. \A sep \in {"TAB", "NL", "CR"} : Sealed(t, sep)
      BY <1>2, EncodedSealed
    <2>2. t # Null
      BY <1>2, EncodedNotNull
    <2>3. Unescape(t) = u
      BY <1>2, EncodedReads
    <2>4. QED
      BY <1>2, <2>1, <2>2, <2>3, Zenon DEF Cell, CellOf
  <1>3. CASE g.kind = "bytes"
    <2>1. g.text \in Seq(Bytes)
      BY <1>3 DEF IsGo
    <2> DEFINE u == <<"\\", "x">> \o [i \in 1..Len(g.text) |-> Hex(g.text[i])]
               t == HexEncodeCopyBytes(g.text)
    <2>2. t \in Seq(T) /\ u \in Seq(T) /\ \E end : Encodes(t, u, end)
      BY <2>1, BytesEncode
    <2>3. FormatField(g) = t /\ Printed(g) = u
      BY <1>3 DEF FormatField, Printed
    <2> HIDE DEF t, u
    <2>4. g.kind # "nil"
      BY <1>3
    <2>5. QED
      BY <1>2, <2>2, <2>3, <2>4
  <1>4. CASE g.kind = "string"
    <2>1. g.text \in Seq(T)
      BY <1>4 DEF IsGo
    <2> DEFINE u == ValidUTF8(g.text)
               t == EscapeCopyString(g.text)
    <2>2. t \in Seq(T) /\ u \in Seq(T) /\ \E end : Encodes(t, u, end)
      BY <2>1, StringEncodes
    <2>3. FormatField(g) = t /\ Printed(g) = u
      BY <1>4 DEF FormatField, Printed
    <2> HIDE DEF t, u
    <2>4. g.kind # "nil"
      BY <1>4
    <2>5. QED
      BY <1>2, <2>2, <2>3, <2>4
  <1>5. CASE g.kind \notin {"nil", "bytes", "string"}
    <2>1. g.text \in Seq(T \ DOMAIN EscapeOf)
      BY <1>5 DEF IsGo
    <2> DEFINE t == g.text
    <2>2. t \in Seq(T) /\ \E end : Encodes(t, t, end)
      BY <2>1, PlainEncodes
    <2>3. FormatField(g) = t /\ Printed(g) = t
      BY <1>5 DEF FormatField, Printed
    <2> HIDE DEF t
    <2>4. g.kind # "nil"
      BY <1>5
    <2>5. QED
      BY <1>2, <2>2, <2>3, <2>4
  <1>6. QED
    BY <1>1, <1>3, <1>4, <1>5

\* A row without its line end, and what its i-th field adds to it.
Part(row, i) == (IF i > 1 THEN <<"TAB">> ELSE <<>>) \o FormatField(row[i])
LineOf(row) == FlattenSeq([i \in 1..Len(row) |-> Part(row, i)])

LEMMA PartTyped ==
    ASSUME NEW T, Base \subseteq T, NEW f \in Seq(T)
    PROVE  /\ <<>> \o f = f
           /\ <<"TAB">> \o f \in Seq(T) /\ Len(<<"TAB">> \o f) = Len(f) + 1 /\ (<<"TAB">> \o f)[1] = "TAB"
           /\ \A q \in 1..Len(f) : (<<"TAB">> \o f)[q + 1] = f[q]
  <1>1. "TAB" \in T
    BY DEF Base
  <1>2. \A a \in T : /\ <<a>> \o f \in Seq(T) /\ Len(<<a>> \o f) = Len(f) + 1 /\ (<<a>> \o f)[1] = a
                     /\ \A q \in 1..Len(f) : (<<a>> \o f)[q + 1] = f[q]
    OBVIOUS
  <1>3. <<>> \o f = f
    OBVIOUS
  <1>4. QED
    BY <1>1, <1>2, <1>3, Zenon

LEMMA TabAdded ==
    ASSUME NEW a \in Nat, NEW l \in Nat, NEW m \in Nat, NEW b, b = a + (l + 1), b <= m
    PROVE  /\ b + 1 = (a + 1) + l + 1 /\ b + 1 <= m + 1
           /\ \A q \in 1..l : a + (q + 1) \in 1..m /\ (a + 1) + q = a + (q + 1)
  OBVIOUS

\* The fields of a line, each with a tab after it, are the line with a tab.
LEMMA LineFramed ==
    ASSUME NEW T, Base \subseteq T, NEW row, Len(row) \in Nat \ {0},
           \A i \in 1..Len(row) : FormatField(row[i]) \in Seq(T)
    PROVE  /\ LineOf(row) \in Seq(T) /\ Append(LineOf(row), "TAB") \in Seq(T)
           /\ \E end : Framed(Append(LineOf(row), "TAB"), [i \in 1..Len(row) |-> FormatField(row[i])], "TAB", end)
  <1> DEFINE n == Len(row)
             u == [i \in 1..n |-> FormatField(row[i])]
             parts == [i \in 1..n |-> Part(row, i)]
             line == LineOf(row)
             t == Append(line, "TAB")
  <1>1. n \in Nat \ {0} /\ Len(u) = n /\ u \in Seq(Seq(T)) /\ \A i \in 1..n : u[i] \in Seq(T) /\ Len(u[i]) \in Nat
    OBVIOUS
  <1>2. line = FlattenSeq(parts)
    BY DEF LineOf
  <1>3. ASSUME NEW i \in 1..n
        PROVE  /\ Part(row, i) \in Seq(T)
               /\ i = 1 => Part(row, i) = u[i]
               /\ i # 1 => /\ Len(Part(row, i)) = Len(u[i]) + 1 /\ Part(row, i)[1] = "TAB"
                           /\ \A q \in 1..Len(u[i]) : Part(row, i)[q + 1] = u[i][q]
    <2> DEFINE f == FormatField(row[i])
    <2>1. f = u[i] /\ f \in Seq(T)
      OBVIOUS
    <2>2. i = 1 => Part(row, i) = <<>> \o f
      BY DEF Part
    <2>3. i # 1 => Part(row, i) = <<"TAB">> \o f
      BY DEF Part
    <2> HIDE DEF f, u
    <2>4. /\ <<>> \o f = f
          /\ <<"TAB">> \o f \in Seq(T) /\ Len(<<"TAB">> \o f) = Len(f) + 1 /\ (<<"TAB">> \o f)[1] = "TAB"
          /\ \A q \in 1..Len(f) : (<<"TAB">> \o f)[q + 1] = f[q]
      BY <2>1, PartTyped
    <2>5. QED
      BY <2>1, <2>2, <2>3, <2>4, Zenon
  <1>4. parts \in Seq(Seq(T)) /\ Len(parts) = n /\ \A i \in 1..n : parts[i] = Part(row, i)
    BY <1>1, <1>3
  <1> HIDE DEF parts, line, u
  <1>5. line \in Seq(T) /\ \E e : Places(line, parts, e)
    BY <1>2, <1>4, FlattenPlaces
  <1>6. PICK e : Places(line, parts, e)
    BY <1>5
  <1> HIDE DEF n
  <1>7. /\ e \in [0..n -> Nat] /\ e[0] = 0 /\ e[n] = Len(line)
        /\ \A k \in 1..n : e[k] = e[k - 1] + Len(Part(row, k)) /\ e[k] <= Len(line)
        /\ \A k \in 1..n : \A q \in 1..Len(Part(row, k)) : line[e[k - 1] + q] = Part(row, k)[q]
    <2>1. e \in [0..Len(parts) -> Nat] /\ e[0] = 0 /\ e[Len(parts)] = Len(line)
      BY <1>6, Zenon DEF Places
    <2>2. e \in [0..n -> Nat] /\ e[0] = 0 /\ e[n] = Len(line)
      BY <1>4, <2>1, Zenon
    <2>3. ASSUME NEW k \in 1..n
          PROVE  /\ e[k] = e[k - 1] + Len(Part(row, k)) /\ e[k] <= Len(line)
                 /\ \A q \in 1..Len(Part(row, k)) : line[e[k - 1] + q] = Part(row, k)[q]
      <3>1. k \in 1..Len(parts) /\ parts[k] = Part(row, k)
        BY <1>4, Zenon
      <3>2. /\ e[k] = e[k - 1] + Len(parts[k]) /\ e[k] <= Len(line)
            /\ \A q \in 1..Len(parts[k]) : line[e[k - 1] + q] = parts[k][q]
        BY <1>6, <3>1, Zenon DEF Places
      <3>3. QED
        BY <3>1, <3>2, Zenon
    <2>4. QED
      BY <2>2, <2>3, Zenon
  <1>8. /\ t \in Seq(T) /\ Len(t) = Len(line) + 1 /\ t[Len(line) + 1] = "TAB" /\ Len(line) \in Nat
        /\ \A p \in 1..Len(line) : t[p] = line[p]
    <2>1. "TAB" \in T
      BY DEF Base
    <2>2. \A a \in T : /\ Append(line, a) \in Seq(T) /\ Len(Append(line, a)) = Len(line) + 1
                       /\ Append(line, a)[Len(line) + 1] = a /\ Len(line) \in Nat
                       /\ \A p \in 1..Len(line) : Append(line, a)[p] = line[p]
      BY <1>5
    <2>3. QED
      BY <2>1, <2>2, Zenon
  <1>b. Len(t) = Len(line) + 1 /\ Len(line) \in Nat
    BY <1>8
  <1> HIDE DEF t
  <1> DEFINE end == [k \in 0..n |-> IF k = 0 THEN 0 ELSE e[k] + 1]
  <1>9. /\ end \in [0..n -> Nat] /\ end[0] = 0 /\ end[n] = Len(t)
        /\ \A k \in 1..n : end[k] = e[k] + 1 /\ k \in 0..n /\ k - 1 \in 0..n
    <2>1. \A k \in 0..n : e[k] \in Nat
      BY <1>7
    <2>2. n # 0 /\ n \in Nat /\ e[n] = Len(line)
      BY <1>1, <1>7
    <2>3. end \in [0..n -> Nat] /\ end[0] = 0
      BY <2>1, <2>2
    <2>4. \A k \in 1..n : end[k] = e[k] + 1 /\ k \in 0..n /\ k - 1 \in 0..n
      BY <2>2
    <2>5. n \in 1..n
      BY <2>2
    <2> HIDE DEF end
    <2>6. end[n] = Len(line) + 1
      BY <2>2, <2>4, <2>5
    <2>7. QED
      BY <1>b, <2>3, <2>4, <2>6
  <1> HIDE DEF end
  <1>10. ASSUME NEW k \in 1..n
         PROVE  /\ end[k] = end[k - 1] + Len(u[k]) + 1 /\ end[k] <= Len(t)
                /\ end[k] \in Nat /\ end[k - 1] \in Nat /\ Len(u[k]) \in Nat
    <2>1. end[k] = e[k] + 1 /\ e[k] \in Nat /\ e[k - 1] \in Nat /\ Len(u[k]) \in Nat /\ end[k] \in Nat /\ end[k - 1] \in Nat
      BY <1>1, <1>7, <1>9
    <2>2. e[k] = e[k - 1] + Len(Part(row, k)) /\ e[k] <= Len(line)
      BY <1>7
    <2>3. CASE k = 1
      <3>1. Len(Part(row, k)) = Len(u[k])
        BY <1>3, <2>3, Zenon
      <3>2. end[k - 1] = 0 /\ e[k - 1] = 0
        BY <1>7, <1>9, <2>3
      <3>3. QED
        BY <1>b, <2>1, <2>2, <3>1, <3>2
    <2>4. CASE k # 1
      <3>1. Len(Part(row, k)) = Len(u[k]) + 1
        BY <1>3, <2>4, Zenon
      <3>2. end[k - 1] = e[k - 1] + 1
        <4>1. k - 1 \in 1..n
          BY <1>1, <2>4
        <4>2. QED
          BY <1>9, <4>1
      <3>3. e[k] = e[k - 1] + (Len(u[k]) + 1)
        BY <2>2, <3>1, Zenon
      <3>4. e[k] + 1 = (e[k - 1] + 1) + Len(u[k]) + 1 /\ e[k] + 1 <= Len(line) + 1
        <4> DEFINE a == e[k - 1]
                   l == Len(u[k])
                   m == Len(line)
                   b == e[k]
        <4>1. a \in Nat /\ l \in Nat /\ m \in Nat /\ b = a + (l + 1) /\ b <= m
          BY <1>b, <2>1, <2>2, <3>3
        <4> HIDE DEF a, l, m, b
        <4>2. b + 1 = (a + 1) + l + 1 /\ b + 1 <= m + 1
          BY <4>1, TabAdded
        <4>3. QED
          BY <4>2 DEF a, l, m, b
      <3>5. QED
        BY <1>b, <2>1, <3>2, <3>4, Zenon
    <2>5. QED
      BY <2>3, <2>4
  <1>11. ASSUME NEW k \in 1..n
         PROVE  t[end[k]] = "TAB"
    <2>1. end[k] = e[k] + 1
      BY <1>9
    <2>2. CASE k = n
      BY <1>7, <1>8, <2>1, <2>2
    <2>3. CASE k # n
      <3> DEFINE m == k + 1
      <3>1. m \in 1..n /\ m # 1 /\ m - 1 = k
        BY <1>1, <2>3
      <3> HIDE DEF m
      <3>2. Len(Part(row, m)) = Len(u[m]) + 1 /\ Part(row, m)[1] = "TAB" /\ Len(u[m]) \in Nat
        BY <1>1, <1>3, <3>1, Zenon
      <3>3. 1 \in 1..Len(Part(row, m))
        BY <3>2
      <3>4. line[e[k] + 1] = "TAB"
        BY <1>7, <3>1, <3>2, <3>3, Zenon
      <3>5. e[k] + 1 \in 1..Len(line)
        <4>1. e[m] = e[m - 1] + Len(Part(row, m)) /\ e[m] <= Len(line) /\ e[k] \in Nat
          BY <1>7, <1>9, <3>1
        <4>2. QED
          BY <1>8, <3>1, <3>2, <4>1
      <3>6. QED
        BY <1>8, <2>1, <3>4, <3>5
    <2>4. QED
      BY <2>2, <2>3
  <1>12. ASSUME NEW k \in 1..n, NEW q \in 1..Len(u[k])
         PROVE  t[end[k - 1] + q] = u[k][q]
    <2>1. end[k] = e[k] + 1 /\ e[k] \in Nat /\ e[k - 1] \in Nat /\ Len(u[k]) \in Nat
      BY <1>1, <1>7, <1>9
    <2>2. e[k] = e[k - 1] + Len(Part(row, k)) /\ e[k] <= Len(line)
      BY <1>7
    <2>3. CASE k = 1
      <3>1. Part(row, k) = u[k]
        BY <1>3, <2>3, Zenon
      <3>2. line[e[k - 1] + q] = u[k][q]
        BY <1>7, <3>1, Zenon
      <3>3. end[k - 1] = e[k - 1]
        BY <1>7, <1>9, <2>3
      <3>4. e[k - 1] + q \in 1..Len(line)
        BY <1>b, <2>1, <2>2, <3>1
      <3>5. QED
        BY <1>8, <3>2, <3>3, <3>4
    <2>4. CASE k # 1
      <3>1. Len(Part(row, k)) = Len(u[k]) + 1 /\ Part(row, k)[q + 1] = u[k][q]
        BY <1>3, <2>4, Zenon
      <3>2. q + 1 \in 1..Len(Part(row, k))
        BY <2>1, <3>1
      <3>3. line[e[k - 1] + (q + 1)] = u[k][q]
        BY <1>7, <3>1, <3>2, Zenon
      <3>4. end[k - 1] = e[k - 1] + 1
        <4>1. k - 1 \in 1..n
          BY <1>1, <2>4
        <4>2. QED
          BY <1>9, <4>1
      <3>5. e[k - 1] + (q + 1) \in 1..Len(line) /\ end[k - 1] + q = e[k - 1] + (q + 1)
        <4>1. e[k] = e[k - 1] + (Len(u[k]) + 1)
          BY <2>2, <3>1, Zenon
        <4>2. e[k - 1] + (q + 1) \in 1..Len(line) /\ (e[k - 1] + 1) + q = e[k - 1] + (q + 1)
          <5> DEFINE a == e[k - 1]
                     l == Len(u[k])
                     m == Len(line)
                     b == e[k]
          <5>1. a \in Nat /\ l \in Nat /\ m \in Nat /\ b = a + (l + 1) /\ b <= m /\ q \in 1..l
            BY <1>b, <2>1, <2>2, <4>1
          <5> HIDE DEF a, l, m, b
          <5>2. a + (q + 1) \in 1..m /\ (a + 1) + q = a + (q + 1)
            BY <5>1, TabAdded
          <5>3. QED
            BY <5>2 DEF a, m
        <4>3. QED
          BY <3>4, <4>2, Zenon
      <3>6. QED
        BY <1>8, <3>3, <3>5
    <2>5. QED
      BY <2>3, <2>4
  <1>13. \A p \in 1..Len(t) : \E k \in 1..n : p \in (end[k - 1] + 1)..end[k]
    <2>1. n \in Nat /\ end \in [0..n -> Nat] /\ end[0] = 0 /\ end[n] = Len(t)
      BY <1>1, <1>9
    <2>2. QED
      BY <2>1, Covered
  <1>14. Framed(t, u, "TAB", end)
    BY <1>1, <1>9, <1>10, <1>11, <1>12, <1>13 DEF Framed
  <1>15. QED
    BY <1>5, <1>8, <1>14 DEF line, t, u, n

\* No text of a line ends the row, and the server finds its cells in it.
LEMMA LineReads ==
    ASSUME NEW T, Base \subseteq T, NEW row, Len(row) \in Nat \ {0}, \A i \in 1..Len(row) : IsGo(row[i], T)
    PROVE  /\ LineOf(row) \in Seq(T)
           /\ \A q \in 1..Len(LineOf(row)) : LineOf(row)[q] \notin {"NL", "CR"}
           /\ Sealed(LineOf(row), "NL")
           /\ Cells(LineOf(row)) = [i \in 1..Len(row) |-> CellOf(row[i])]
  <1> DEFINE n == Len(row)
             u == [i \in 1..n |-> FormatField(row[i])]
             line == LineOf(row)
             t == Append(line, "TAB")
  <1>1. \A i \in 1..n : /\ FormatField(row[i]) \in Seq(T)
                        /\ \A sep \in {"TAB", "NL", "CR"} : Sealed(FormatField(row[i]), sep)
                        /\ Cell(FormatField(row[i])) = CellOf(row[i])
    BY FieldReads
  <1>2. line \in Seq(T) /\ t \in Seq(T) /\ \E end : Framed(t, u, "TAB", end)
    BY <1>1, LineFramed
  <1>3. n \in Nat \ {0} /\ Len(u) = n /\ u \in Seq(Seq(T)) /\ \A i \in 1..n : u[i] = FormatField(row[i])
    BY <1>1
  <1>4. PICK end : Framed(t, u, "TAB", end)
    BY <1>2
  <1> HIDE DEF u, line
  <1>5. Len(t) = Len(line) + 1 /\ Len(line) \in Nat /\ \A p \in 1..Len(line) : t[p] = line[p]
    <2>1. \A a : /\ Len(Append(line, a)) = Len(line) + 1 /\ Len(line) \in Nat
                 /\ \A p \in 1..Len(line) : Append(line, a)[p] = line[p]
      BY <1>2
    <2>2. QED
      BY <2>1, Zenon
  <1> HIDE DEF t, n
  <1>6. \A k \in 1..n : Sealed(u[k], "TAB") /\ Sealed(u[k], "NL") /\ Sealed(u[k], "CR")
    BY <1>1, <1>3
  <1>7. Pieces(t, "TAB") = u
    <2>1. \A k \in 1..Len(u) : Sealed(u[k], "TAB")
      BY <1>3, <1>6
    <2>2. QED
      BY <1>2, <1>3, <1>4, <2>1, FramedPieces
  <1>8. Cells(line) = [i \in 1..n |-> CellOf(row[i])]
    <2>1. Cells(line) = [i \in 1..Len(u) |-> Cell(u[i])]
      BY <1>7 DEF Cells, t
    <2>2. \A i \in 1..n : Cell(u[i]) = CellOf(row[i])
      BY <1>1, <1>3
    <2>3. QED
      BY <1>3, <2>1, <2>2
  <1>9. /\ end \in [0..n -> Nat] /\ end[0] = 0 /\ end[n] = Len(t)
        /\ \A k \in 1..n : end[k] = end[k - 1] + Len(u[k]) + 1 /\ end[k] <= Len(t)
        /\ \A k \in 1..n : t[end[k]] = "TAB" /\ \A q \in 1..Len(u[k]) : t[end[k - 1] + q] = u[k][q]
        /\ \A p \in 1..Len(t) : \E k \in 1..n : p \in (end[k - 1] + 1)..end[k]
    BY <1>3, <1>4 DEF Framed
  <1>10. \A k \in 1..n : end[k] \in Nat /\ end[k - 1] \in Nat /\ Len(u[k]) \in Nat /\ u[k] \in Seq(T)
    <2> TAKE k \in 1..n
    <2>1. k \in 0..n /\ k - 1 \in 0..n /\ u[k] \in Seq(T)
      BY <1>3
    <2>2. end[k] \in Nat /\ end[k - 1] \in Nat
      BY <1>9, <2>1
    <2>3. QED
      BY <2>1, <2>2
  <1>11. ASSUME NEW p \in 1..Len(line)
         PROVE  line[p] \notin {"NL", "CR"}
    <2>1. p \in 1..Len(t) /\ line[p] = t[p]
      BY <1>5
    <2>2. PICK k \in 1..n : p \in (end[k - 1] + 1)..end[k]
      BY <1>9, <2>1
    <2>3. CASE p = end[k]
      BY <1>9, <2>1, <2>3
    <2>4. CASE p # end[k]
      <3> DEFINE a == end[k - 1]
                 l == Len(u[k])
                 b == end[k]
                 q == p - a
      <3>1. a \in Nat /\ l \in Nat /\ b = a + l + 1 /\ p \in (a + 1)..b /\ p # b
        BY <1>9, <1>10, <2>2, <2>4
      <3> HIDE DEF a, l, b
      <3>2. q \in 1..l /\ p = a + q
        BY <3>1, InRoom
      <3> HIDE DEF q
      <3>3. t[p] = u[k][q]
        BY <1>9, <3>2 DEF a, l
      <3>4. u[k][q] # "NL" /\ u[k][q] # "CR"
        BY <1>6, <3>2 DEF Sealed, l
      <3>5. QED
        BY <2>1, <3>3, <3>4
    <2>5. QED
      BY <2>3, <2>4
  <1>12. ~OpenAt(line, Len(line))
    <2> DEFINE a == end[n - 1]
               v == u[n]
    <2>1. n \in 1..n /\ n - 1 \in 0..n /\ (n - 1 = 0 \/ n - 1 \in 1..n)
      BY <1>3
    <2>2. /\ a \in Nat /\ v \in Seq(T) /\ Len(v) \in Nat /\ end[n] = a + Len(v) + 1 /\ end[n] = Len(line) + 1
          /\ \A q \in 1..Len(v) : t[a + q] = v[q]
      BY <1>5, <1>9, <1>10, <2>1
    <2>3. ~OpenAt(v, Len(v))
      BY <1>6, <2>1 DEF Sealed
    <2>4. ~OpenAt(line, a)
      <3>1. CASE n - 1 = 0
        <4>1. a = 0
          BY <1>9, <3>1
        <4>2. QED
          BY <4>1, NothingOpenAtFirst
      <3>2. CASE n - 1 \in 1..n
        <4> DEFINE m == n - 1
        <4>1. m \in 1..n /\ a = end[m]
          BY <3>2
        <4> HIDE DEF m
        <4>2. t[a] = "TAB" /\ a = end[m - 1] + Len(u[m]) + 1 /\ end[m - 1] \in Nat /\ Len(u[m]) \in Nat
          BY <1>9, <1>10, <4>1
        <4> HIDE DEF a, v
        <4>3. a >= 1
          BY <4>2
        <4>4. a \in 1..Len(line)
          BY <1>5, <2>2, <4>3
        <4>5. line[a] = "TAB"
          BY <1>5, <4>2, <4>4
        <4>6. line[a] # "\\"
          BY <4>5
        <4>7. QED
          BY <1>2, <4>4, <4>6, OpenSteps
      <3>3. QED
        BY <2>1, <3>1, <3>2
    <2> HIDE DEF a, v
    <2>5. a + Len(v) = Len(line)
      BY <1>5, <2>2
    <2>6. \A q \in 1..Len(v) : line[a + q] = v[q]
      <3> TAKE q \in 1..Len(v)
      <3>1. a + q \in 1..Len(line)
        BY <2>2, <2>5
      <3>2. QED
        BY <1>5, <2>2, <3>1
    <2>7. \A i \in 0..Len(v) : OpenAt(line, a + i) <=> OpenAt(v, i)
      <3>1. a + Len(v) <= Len(line)
        BY <1>5, <2>5
      <3>2. QED
        BY <1>2, <2>2, <2>4, <2>6, <3>1, OpenShifts
    <2>8. Len(v) \in 0..Len(v)
      BY <2>2
    <2>9. OpenAt(line, a + Len(v)) <=> OpenAt(v, Len(v))
      BY <2>7, <2>8
    <2>10. QED
      BY <2>3, <2>5, <2>9, Zenon
  <1>13. Sealed(line, "NL")
    BY <1>11, <1>12 DEF Sealed
  <1>14. QED
    BY <1>2, <1>8, <1>11, <1>13 DEF line, n

LEMMA FormatEndsLine ==
    ASSUME NEW row
    PROVE  FormatRowToCopyText(row) = LineOf(row) \o <<"NL">>
  BY DEF FormatRowToCopyText, LineOf, Part

LEMMA LineEnded ==
    ASSUME NEW T, Base \subseteq T, NEW line \in Seq(T)
    PROVE  /\ line \o <<"NL">> \in Seq(T) /\ Len(line \o <<"NL">>) = Len(line) + 1 /\ Len(line) \in Nat
           /\ (line \o <<"NL">>)[Len(line) + 1] = "NL"
           /\ \A q \in 1..Len(line) : (line \o <<"NL">>)[q] = line[q]
           /\ line \o <<"NL">> = Append(line, "NL")
  <1>1. "NL" \in T
    BY DEF Base
  <1>2. \A a \in T : /\ line \o <<a>> \in Seq(T) /\ Len(line \o <<a>>) = Len(line) + 1 /\ Len(line) \in Nat
                     /\ (line \o <<a>>)[Len(line) + 1] = a
                     /\ \A q \in 1..Len(line) : (line \o <<a>>)[q] = line[q]
                     /\ line \o <<a>> = Append(line, a)
    OBVIOUS
  <1>3. QED
    BY <1>1, <1>2, Zenon

\* The encoding of rows, and their cells as the server should read them.
Encoding(rows) == FlattenSeq([i \in 1..Len(rows) |-> FormatRowToCopyText(rows[i])])
CellsFor(row) == [j \in 1..Len(row) |-> CellOf(row[j])]
CellsOf(rows) == [i \in 1..Len(rows) |-> CellsFor(rows[i])]

\* Whatever the rows, the server reads from their encoding the values that were
\* encoded, NULL where there was none: no character of a value ends a field or
\* a row or makes a NULL (FormatRowToCopyText, FormatField, escapeCopyString).
THEOREM CopyRoundTrip ==
    ASSUME NEW T, Base \subseteq T, NEW rows, Len(rows) \in Nat,
           \A i \in 1..Len(rows) : Len(rows[i]) \in Nat \ {0} /\ \A j \in 1..Len(rows[i]) : IsGo(rows[i][j], T)
    PROVE  ReadStream(Encoding(rows)) = CellsOf(rows)
  <1> DEFINE n == Len(rows)
             u == [i \in 1..n |-> LineOf(rows[i])]
             lines == [i \in 1..n |-> FormatRowToCopyText(rows[i])]
             t == FlattenSeq(lines)
  <1>1. ASSUME NEW i \in 1..n
        PROVE  /\ LineOf(rows[i]) \in Seq(T) /\ Sealed(LineOf(rows[i]), "NL")
               /\ Cells(LineOf(rows[i])) = [j \in 1..Len(rows[i]) |-> CellOf(rows[i][j])]
    <2> DEFINE row == rows[i]
    <2>1. Len(row) \in Nat \ {0} /\ \A j \in 1..Len(row) : IsGo(row[j], T)
      OBVIOUS
    <2> HIDE DEF row
    <2>2. /\ LineOf(row) \in Seq(T) /\ Sealed(LineOf(row), "NL")
          /\ Cells(LineOf(row)) = [j \in 1..Len(row) |-> CellOf(row[j])]
      BY <2>1, LineReads
    <2>3. QED
      BY <2>2 DEF row
  <1>2. u \in Seq(Seq(T)) /\ Len(u) = n /\ n \in Nat /\ \A i \in 1..n : u[i] = LineOf(rows[i]) /\ u[i] \in Seq(T) /\ Len(u[i]) \in Nat
    <2>1. \A i \in 1..n : u[i] = LineOf(rows[i]) /\ LineOf(rows[i]) \in Seq(T)
      BY <1>1
    <2>2. u \in [1..n -> Seq(T)] /\ n \in Nat
      BY <2>1
    <2> HIDE DEF u, n
    <2>3. u \in Seq(Seq(T)) /\ Len(u) = n
      BY <2>2
    <2>4. QED
      BY <2>1, <2>2, <2>3
  <1>3. ASSUME NEW i \in 1..n
        PROVE  /\ lines[i] \in Seq(T) /\ Len(lines[i]) = Len(u[i]) + 1 /\ lines[i][Len(u[i]) + 1] = "NL"
               /\ \A q \in 1..Len(u[i]) : lines[i][q] = u[i][q]
    <2>1. lines[i] = LineOf(rows[i]) \o <<"NL">>
      BY FormatEndsLine
    <2> DEFINE line == LineOf(rows[i])
    <2>2. line \in Seq(T) /\ u[i] = line
      BY <1>1
    <2> HIDE DEF line, u, lines
    <2>3. /\ line \o <<"NL">> \in Seq(T) /\ Len(line \o <<"NL">>) = Len(line) + 1
          /\ (line \o <<"NL">>)[Len(line) + 1] = "NL"
          /\ \A q \in 1..Len(line) : (line \o <<"NL">>)[q] = line[q]
      BY <2>2, LineEnded
    <2>4. QED
      BY <2>1, <2>2, <2>3, Zenon DEF line
  <1>4. lines \in Seq(Seq(T)) /\ Len(lines) = n
    <2>1. \A i \in 1..n : lines[i] \in Seq(T)
      BY <1>3, Zenon
    <2>2. QED
      BY <1>2, <2>1
  <1> HIDE DEF u, lines, n
  <1>5. t \in Seq(T) /\ \E e : Places(t, lines, e)
    BY <1>4, FlattenPlaces
  <1>6. PICK e : Places(t, lines, e)
    BY <1>5
  <1> HIDE DEF t
  <1>7. /\ e \in [0..n -> Nat] /\ e[0] = 0 /\ e[n] = Len(t)
        /\ \A k \in 1..n : e[k] = e[k - 1] + Len(lines[k]) /\ e[k] <= Len(t)
        /\ \A k \in 1..n : \A q \in 1..Len(lines[k]) : t[e[k - 1] + q] = lines[k][q]
        /\ \A p \in 1..Len(t) : \E k \in 1..n : p \in (e[k - 1] + 1)..e[k]
    BY <1>4, <1>6, Zenon DEF Places
  <1>8. ASSUME NEW k \in 1..n
        PROVE  /\ e[k] = e[k - 1] + Len(u[k]) + 1
               /\ t[e[k]] = "NL"
               /\ \A q \in 1..Len(u[k]) : t[e[k - 1] + q] = u[k][q]
    <2>1. e[k - 1] \in Nat /\ Len(u[k]) \in Nat
      <3>1. k - 1 \in 0..n
        BY <1>2
      <3>2. QED
        BY <1>2, <1>7, <3>1
    <2>2. e[k] = e[k - 1] + (Len(u[k]) + 1)
      BY <1>3, <1>7, Zenon
    <2>3. e[k] = e[k - 1] + Len(u[k]) + 1
      <3> DEFINE a == e[k - 1]
                 l == Len(u[k])
                 b == e[k]
      <3>1. a \in Nat /\ l \in Nat /\ b = a + (l + 1)
        BY <2>1, <2>2
      <3> HIDE DEF a, l, b
      <3>2. b = a + l + 1
        BY <3>1
      <3>3. QED
        BY <3>2 DEF a, l, b
    <2> DEFINE l == Len(u[k])
    <2>4. Len(lines[k]) = l + 1 /\ l \in Nat
      BY <1>3, <2>1
    <2> HIDE DEF l
    <2>5. l + 1 \in 1..Len(lines[k]) /\ \A q \in 1..l : q \in 1..Len(lines[k])
      BY <2>4
    <2>6. t[e[k - 1] + (l + 1)] = "NL"
      BY <1>3, <1>7, <2>5, Zenon DEF l
    <2>7. t[e[k]] = "NL"
      BY <2>2, <2>6, Zenon DEF l
    <2>8. \A q \in 1..l : t[e[k - 1] + q] = u[k][q]
      BY <1>3, <1>7, <2>5, Zenon DEF l
    <2>9. QED
      BY <2>3, <2>7, <2>8 DEF l
  <1>9. Framed(t, u, "NL", e)
    BY <1>2, <1>7, <1>8 DEF Framed
  <1>10. \A k \in 1..Len(u) : Sealed(u[k], "NL")
    BY <1>1, <1>2
  <1>11. Pieces(t, "NL") = u
    BY <1>2, <1>5, <1>9, <1>10, FramedPieces
  <1>12. ReadStream(t) = [i \in 1..Len(u) |-> Cells(u[i])]
    BY <1>11 DEF ReadStream
  <1>13. \A i \in 1..n : Cells(u[i]) = [j \in 1..Len(rows[i]) |-> CellOf(rows[i][j])]
    BY <1>1, <1>2
  <1>14. QED
    BY <1>2, <1>12, <1>13 DEF t, lines, n, Encoding, CellsOf, CellsFor

----------------------------------------------------------------------------
(* The values that MapRows hands over.                                      *)

\* What may be in a text before the transforms, and after them.
Written == STRING \cup Base \cup Bytes \cup {"day", "year1", "t", "f", "0"} \cup {ToString(n) : n \in Int}
Symbols == Written \cup {Bin(b) : b \in Written}

LEMMA SymbolSets ==
    /\ Base \subseteq Written /\ Base \subseteq Symbols /\ Bytes \subseteq Symbols /\ Written \subseteq Symbols
    /\ STRING \subseteq Written /\ Bytes \subseteq Written
    /\ "day" \in Written /\ "year1" \in Written /\ "t" \in Symbols /\ "f" \in Symbols /\ "0" \in Symbols
    /\ \A n \in Int : ToString(n) \in Written
    /\ \A b \in Written : Bin(b) \in Symbols
  BY DEF Written, Symbols

LEMMA SeqWidens ==
    ASSUME NEW S, NEW T, S \subseteq T, NEW s \in Seq(S)
    PROVE  s \in Seq(T)
  OBVIOUS

LEMMA StrIsGo ==
    ASSUME NEW T, NEW s \in Seq(T)
    PROVE  IsGo(Str(s), T)
  BY DEF Str, Go, IsGo

LEMMA NilIsGo ==
    ASSUME NEW T
    PROVE  IsGo(Nil, T)
  BY DEF Nil, Go, IsGo

\* A value is text of T, whatever its kind.
LEMMA GoText ==
    ASSUME NEW T, Bytes \subseteq T, NEW g, IsGo(g, T)
    PROVE  g.text \in Seq(T)
  <1>1. <<>> \in Seq(T)
    OBVIOUS
  <1>2. \A s \in Seq(Bytes) : s \in Seq(T)
    BY SeqWidens
  <1>3. \A s \in Seq(T \ DOMAIN EscapeOf) : s \in Seq(T)
    <2>1. T \ DOMAIN EscapeOf \subseteq T
      OBVIOUS
    <2>2. QED
      BY <2>1, SeqWidens
  <1>4. QED
    BY <1>1, <1>2, <1>3, Zenon DEF IsGo

LEMMA GoWidens ==
    ASSUME NEW S, NEW T, S \subseteq T, NEW g, IsGo(g, S)
    PROVE  IsGo(g, T)
  <1>1. \A s \in Seq(S) : s \in Seq(T)
    BY SeqWidens
  <1>2. \A s \in Seq(S \ DOMAIN EscapeOf) : s \in Seq(T \ DOMAIN EscapeOf)
    <2>1. S \ DOMAIN EscapeOf \subseteq T \ DOMAIN EscapeOf
      OBVIOUS
    <2>2. QED
      BY <2>1, SeqWidens
  <1>3. QED
    BY <1>1, <1>2, Zenon DEF IsGo

\* A number is printed in digits.
LEMMA NumeralIsGo ==
    ASSUME NEW m \in Int, ToString(m) \notin DOMAIN EscapeOf, NEW kind \in {"int", "uint"}, NEW n
    PROVE  IsGo(Go(kind, <<ToString(m)>>, n), Written)
  <1> DEFINE d == ToString(m)
  <1>1. d \in Written \ DOMAIN EscapeOf
    BY SymbolSets
  <1> HIDE DEF d
  <1>2. <<d>> \in Seq(Written \ DOMAIN EscapeOf)
    BY <1>1
  <1> DEFINE g == Go(kind, <<d>>, n)
  <1>3. g.text = <<d>> /\ g.kind = kind
    BY DEF Go
  <1>4. kind \notin {"nil", "bytes", "string"}
    OBVIOUS
  <1> HIDE DEF g
  <1>5. IsGo(g, Written)
    BY <1>2, <1>3, <1>4, Zenon DEF IsGo
  <1>6. QED
    BY <1>5 DEF g, d

\* What MapRows has converted: binary text of MySQL is still bytes, all other
\* text is a string, and numbers are printed.
LEMMA ConvertedIsGo ==
    ASSUME NumeralsAssumption, NEW c, NEW v, IsValueOf(c, v)
    PROVE  IsGo(Convert(c, Driver(c, v)), Written)
  <1>1. v.text \in Seq(STRING) /\ v.n \in Numbers
    BY DEF IsValueOf, Value
  <1>2. v.text \in Seq(Written)
    BY <1>1, SymbolSets, SeqWidens
  <1>3. /\ ToString(v.n) \notin DOMAIN EscapeOf /\ ToString(AsInt64(v.n)) \notin DOMAIN EscapeOf
        /\ v.n \in Int /\ AsInt64(v.n) \in Int
    <2>1. \A n \in Int : AsInt64(n) \in Int
      BY DEF AsInt64, Bits
    <2>2. v.n \in Int
      BY <1>1 DEF Numbers, Signed, Unsigned
    <2>3. QED
      BY <1>1, <2>1, <2>2 DEF NumeralsAssumption
  <1>4. IsGo(Str(v.text), Written)
    BY <1>2, StrIsGo
  <1>5. IsGo(IntOf(v.n), Written) /\ IsGo(IntOf(AsInt64(v.n)), Written)
    BY <1>3, NumeralIsGo DEF IntOf
  <1> DEFINE date == ReadDate(v.text)
  <1>6. date \in Seq(Written) /\ IsGo(Str(date), Written) /\ IsGo(Str(<<"day">>), Written)
    <2>1. <<"year1">> \in Seq(Written) /\ <<"day">> \in Seq(Written)
      BY SymbolSets
    <2>2. date \in Seq(Written)
      BY <1>2, <2>1, Zenon DEF ReadDate
    <2>3. QED
      BY <2>1, <2>2, StrIsGo
  <1>7. c.type \in Integral /\ ~v.null => IsGo(Go("int", v.text, v.n), Written)
    <2> SUFFICES ASSUME c.type \in Integral, ~v.null PROVE IsGo(Go("int", v.text, v.n), Written)
      OBVIOUS
    <2>1. v.text = <<ToString(v.n)>>
      BY DEF IsValueOf
    <2>2. IsGo(Go("int", <<ToString(v.n)>>, v.n), Written)
      BY <1>3, NumeralIsGo
    <2>3. QED
      BY <2>1, <2>2
  <1>8. c.type \in Binary => IsGo(Go("bytes", v.text, 0), Written)
    <2> SUFFICES ASSUME c.type \in Binary PROVE IsGo(Go("bytes", v.text, 0), Written)
      OBVIOUS
    <2> DEFINE g == Go("bytes", v.text, 0)
    <2>1. g.text = v.text /\ g.kind = "bytes"
      BY DEF Go
    <2> HIDE DEF g
    <2>2. IsGo(g, Written)
      BY <2>1, Zenon DEF IsGo, IsValueOf
    <2>3. QED
      BY <2>2 DEF g
  <1>9. \A kind, n : /\ Go(kind, v.text, n).kind = kind /\ Go(kind, v.text, n).text = v.text /\ Go(kind, v.text, n).n = n
                    /\ Go(kind, date, n).kind = kind /\ Go(kind, date, n).text = date
    BY DEF Go
  <1> HIDE DEF date
  <1>10. CASE v.null
    <2>1. Driver(c, v) = Nil /\ Nil.kind = "nil"
      BY <1>10 DEF Driver, Nil, Go
    <2>2. Convert(c, Nil) = Nil
      BY <2>1 DEF Convert, ConvertMySQLValue, ConvertOtherValue
    <2>3. QED
      BY <2>1, <2>2, NilIsGo
  <1>11. CASE ~v.null /\ c.source = "mysql"
    <2>1. CASE c.type = "bigint" /\ c.unsigned
      <3> DEFINE g == Go("uint", v.text, v.n)
      <3>1. Driver(c, v) = g
        BY <1>11, <2>1 DEF Driver, MySQLDriver
      <3>2. g.kind = "uint" /\ g.n = v.n
        BY <1>9
      <3> HIDE DEF g
      <3>3. Convert(c, g) = IntOf(AsInt64(v.n))
        BY <1>11, <3>2 DEF Convert, ConvertMySQLValue
      <3>4. QED
        BY <1>5, <3>1, <3>3
    <2>2. CASE ~(c.type = "bigint" /\ c.unsigned) /\ c.type \in Integral
      <3> DEFINE g == Go("int", v.text, v.n)
      <3>1. Driver(c, v) = g
        BY <1>11, <2>2 DEF Driver, MySQLDriver
      <3>2. g.kind = "int"
        BY <1>9
      <3>3. IsGo(g, Written)
        BY <1>7, <1>11, <2>2
      <3> HIDE DEF g
      <3>4. Convert(c, g) = g
        BY <1>11, <3>2 DEF Convert, ConvertMySQLValue
      <3>5. QED
        BY <3>1, <3>3, <3>4
    <2>3. CASE ~(c.type = "bigint" /\ c.unsigned) /\ c.type \notin Integral /\ c.type \in Dates
      <3> DEFINE g == Go("time", date, 0)
      <3>1. Driver(c, v) = g
        BY <1>11, <2>3 DEF Driver, MySQLDriver, date
      <3>2. g.kind = "time" /\ g.text = date
        BY <1>9
      <3> HIDE DEF g
      <3>3. Convert(c, g) = Str(IF date = <<"day.f">> THEN <<"day">> ELSE date)
        BY <1>11, <3>2 DEF Convert, ConvertMySQLValue
      <3>4. QED
        BY <1>6, <3>1, <3>3, Zenon
    <2>4. CASE ~(c.type = "bigint" /\ c.unsigned) /\ c.type \notin Integral /\ c.type \notin Dates
      <3> DEFINE g == Go("bytes", v.text, 0)
      <3>1. Driver(c, v) = g
        BY <1>11, <2>4 DEF Driver, MySQLDriver
      <3>2. g.kind = "bytes" /\ g.text = v.text
        BY <1>9
      <3>3. c.type \in Binary => IsGo(g, Written)
        BY <1>8
      <3> HIDE DEF g
      <3>4. Convert(c, g) = IF c.type \in Binary THEN g ELSE Str(v.text)
        BY <1>11, <3>2 DEF Convert, ConvertMySQLValue
      <3>5. QED
        BY <1>4, <3>1, <3>3, <3>4, Zenon
    <2>5. QED
      BY <2>1, <2>2, <2>3, <2>4
  <1>12. CASE ~v.null /\ c.source # "mysql"
    <2> DEFINE g == Driver(c, v)
    <2>1. Convert(c, g) = ConvertOtherValue(g)
      BY <1>12 DEF Convert
    <2>2. \/ g = Go("bool", v.text, v.n)
          \/ c.type \in Integral /\ g = Go("int", v.text, v.n)
          \/ g = Go("bytes", v.text, 0)
          \/ g = Go("time", date, 0)
          \/ g = Str(v.text)
      <3>1. CASE c.source = "mssql"
        BY <1>12, <3>1 DEF Driver, MSSQLDriver
      <3>2. CASE c.source # "mssql"
        BY <1>12, <3>2 DEF Driver, SQLiteDriver, date
      <3>3. QED
        BY <3>1, <3>2
    <2> HIDE DEF g
    <2>3. CASE g = Go("bool", v.text, v.n)
      <3>1. g.kind = "bool" /\ g.n = v.n
        BY <1>9, <2>3
      <3>2. ConvertOtherValue(g) = IntOf(v.n)
        BY <3>1 DEF ConvertOtherValue
      <3>3. QED
        BY <1>5, <2>1, <3>2 DEF g
    <2>4. CASE c.type \in Integral /\ g = Go("int", v.text, v.n)
      <3>1. g.kind = "int"
        BY <1>9, <2>4
      <3>2. ConvertOtherValue(g) = g
        BY <3>1 DEF ConvertOtherValue
      <3>3. IsGo(g, Written)
        BY <1>7, <1>12, <2>4
      <3>4. QED
        BY <2>1, <3>2, <3>3 DEF g
    <2>5. CASE g = Go("bytes", v.text, 0)
      <3>1. g.kind = "bytes" /\ g.text = v.text
        BY <1>9, <2>5
      <3>2. ConvertOtherValue(g) = Str(v.text)
        BY <3>1 DEF ConvertOtherValue
      <3>3. QED
        BY <1>4, <2>1, <3>2 DEF g
    <2>6. CASE g = Go("time", date, 0)
      <3>1. g.kind = "time" /\ g.text = date
        BY <1>9, <2>6
      <3>2. ConvertOtherValue(g) = Str(date)
        BY <3>1 DEF ConvertOtherValue
      <3>3. QED
        BY <1>6, <2>1, <3>2 DEF g
    <2>7. CASE g = Str(v.text)
      <3>1. g.kind = "string"
        BY <2>7 DEF Str, Go
      <3>2. ConvertOtherValue(g) = g
        BY <3>1 DEF ConvertOtherValue
      <3>3. QED
        BY <1>4, <2>1, <2>7, <3>2 DEF g
    <2>8. QED
      BY <2>2, <2>3, <2>4, <2>5, <2>6, <2>7
  <1>13. QED
    BY <1>10, <1>11, <1>12

LEMMA WithoutTyped ==
    ASSUME NEW T, NEW s \in Seq(T), NEW b
    PROVE  Without(s, b) \in Seq(T)
  <1> DEFINE P(i) == IF s[i] = b THEN <<>> ELSE <<s[i]>>
             seqs == [i \in 1..Len(s) |-> P(i)]
  <1>1. \A i \in 1..Len(s) : P(i) \in Seq(T)
    <2> TAKE i \in 1..Len(s)
    <2>1. s[i] \in T
      OBVIOUS
    <2>2. <<>> \in Seq(T) /\ \A c \in T : <<c>> \in Seq(T)
      OBVIOUS
    <2>3. QED
      BY <2>1, <2>2, Zenon
  <1>2. Without(s, b) = FlattenSeq(seqs)
    BY DEF Without
  <1>3. seqs \in Seq(Seq(T))
    <2> HIDE DEF P
    <2>1. QED
      BY <1>1
  <1> HIDE DEF seqs
  <1>4. QED
    BY <1>2, <1>3, FlattenPlaces

\* No transform makes anything but a value.
LEMMA TransformedIsGo ==
    ASSUME NEW name, NEW g, IsGo(g, Written)
    PROVE  IsGo(Transformed(name, g), Symbols)
  <1>1. IsGo(g, Symbols) /\ g.text \in Seq(Written) /\ g.text \in Seq(Symbols)
    <2>1. g.text \in Seq(Written)
      BY SymbolSets, GoText
    <2>2. QED
      BY <2>1, SymbolSets, GoWidens, SeqWidens
  <1>2. \A b : IsGo(Bool(b), Symbols)
    <2>1. <<"t">> \in Seq(Symbols) /\ <<"f">> \in Seq(Symbols)
      BY SymbolSets
    <2>2. IsGo(Str(<<"t">>), Symbols) /\ IsGo(Str(<<"f">>), Symbols)
      BY <2>1, StrIsGo
    <2>3. QED
      BY <2>2, Zenon DEF Bool
  <1>3. IsGo(Nil, Symbols)
    BY NilIsGo
  <1>4. IsGo(TinyIntToBool(g), Symbols) /\ IsGo(MssqlBitToBoolean(g), Symbols) /\ IsGo(BitToBool(g), Symbols)
    BY <1>1, <1>2, Zenon DEF TinyIntToBool, MssqlBitToBoolean, BitToBool
  <1>5. IsGo(BitToBinStr(g), Symbols)
    <2> DEFINE s == [i \in 1..Len(g.text) |-> Bin(g.text[i])]
    <2>1. s \in Seq(Symbols)
      <3> DEFINE w == g.text
      <3>1. w \in Seq(Written)
        BY <1>1
      <3> HIDE DEF w
      <3>2. Len(w) \in Nat /\ \A i \in 1..Len(w) : w[i] \in Written
        BY <3>1
      <3>3. \A i \in 1..Len(w) : Bin(w[i]) \in Symbols
        BY <3>2, SymbolSets
      <3>4. [i \in 1..Len(w) |-> Bin(w[i])] \in Seq(Symbols)
        BY <3>2, <3>3
      <3>5. QED
        BY <3>4 DEF w
    <2> HIDE DEF s
    <2>2. <<"0">> \in Seq(Symbols)
      BY SymbolSets
    <2>3. IsGo(Str(s), Symbols) /\ IsGo(Str(<<"0">>), Symbols)
      BY <2>1, <2>2, StrIsGo
    <2>4. BitToBinStr(g) = g \/ BitToBinStr(g) = Str(<<"0">>) \/ BitToBinStr(g) = Str(s)
      BY DEF BitToBinStr, s
    <2>5. QED
      BY <1>1, <2>3, <2>4
  <1>6. IsGo(ZeroDatesToNull(g), Symbols)
    BY <1>1, <1>3, Zenon DEF ZeroDatesToNull
  <1>7. IsGo(RemoveNullChars(g), Symbols)
    <2>1. Without(g.text, "NUL") \in Seq(Symbols)
      BY <1>1, WithoutTyped
    <2>2. IsGo(Str(Without(g.text, "NUL")), Symbols)
      BY <2>1, StrIsGo
    <2>3. QED
      BY <1>1, <2>2, Zenon DEF RemoveNullChars
  <1>8. IsGo(FloatToString(g), Symbols)
    BY <1>1, StrIsGo DEF FloatToString
  <1>9. IsGo(ByteVectorToBytea(g), Symbols)
    <2> SUFFICES ASSUME g.kind = "bytes" PROVE IsGo(ByteVectorToBytea(g), Symbols)
      BY <1>1 DEF ByteVectorToBytea
    <2> DEFINE s == g.text
               u == <<"\\", "x">> \o [i \in 1..Len(s) |-> Hex(s[i])]
    <2>1. s \in Seq(Bytes)
      BY DEF IsGo
    <2>2. u \in Seq(Symbols)
      BY <2>1, SymbolSets, BytesEncode
    <2>3. ByteVectorToBytea(g) = Str(u)
      BY DEF ByteVectorToBytea
    <2> HIDE DEF u
    <2>4. QED
      BY <2>2, <2>3, StrIsGo
  <1>10. QED
    BY <1>1, <1>3, <1>4, <1>5, <1>6, <1>7, <1>8, <1>9, Zenon DEF Transformed

\* A record is what stands between its blanks.
LEMMA TrimTyped ==
    ASSUME NEW T, NEW text \in Seq(T)
    PROVE  Trim(text) \in Seq(T)
  <1> DEFINE solid == {i \in 1..Len(text) : text[i] # "blank"}
  <1>1. CASE solid = {}
    <2>1. Trim(text) = <<>>
      BY <1>1 DEF Trim
    <2>2. QED
      BY <2>1
  <1>2. CASE solid # {}
    <2> DEFINE i1 == CHOOSE i \in solid : \A j \in solid : i <= j
               i2 == CHOOSE i \in solid : \A j \in solid : i >= j
    <2>1. Trim(text) = SubSeq(text, i1, i2)
      BY <1>2 DEF Trim
    <2>2. Len(text) \in Nat /\ solid \in SUBSET (0..Len(text)) /\ \A i \in solid : i \in 1..Len(text)
      OBVIOUS
    <2>3. i1 \in solid
      <3>1. \E i \in solid : \A j \in solid : i <= j
        <4> HIDE DEF solid
        <4>1. PICK i \in solid : \A j \in 0..(i - 1) : j \notin solid
          BY <1>2, <2>2, FirstFailure
        <4>2. \A j \in solid : i <= j
          <5> TAKE j \in solid
          <5>1. i \in 1..Len(text) /\ j \in 1..Len(text)
            BY <2>2
          <5>2. j < i => j \in 0..(i - 1)
            BY <5>1
          <5>3. QED
            BY <4>1, <5>1, <5>2
        <4>3. QED
          BY <4>2
      <3> HIDE DEF solid
      <3>2. QED
        BY <3>1, Zenon
    <2>4. i2 \in solid
      <3>1. \E i \in solid : \A j \in solid : i >= j
        <4> DEFINE n == Len(text)
                   back == {j \in 0..n : n - j \in solid}
        <4> HIDE DEF solid
        <4>0. n \in Nat
          BY <2>2
        <4>1. back \in SUBSET (0..n) /\ back # {}
          <5>1. PICK i \in solid : TRUE
            BY <1>2
          <5>2. i \in 1..n
            BY <2>2
          <5>3. n - i \in 0..n /\ n - (n - i) = i
            BY <4>0, <5>2
          <5>4. n - i \in back
            BY <5>1, <5>3
          <5>5. QED
            BY <5>4
        <4> HIDE DEF back, n
        <4>2. PICK b \in back : \A j \in 0..(b - 1) : j \notin back
          BY <4>0, <4>1, FirstFailure
        <4>3. b \in 0..n /\ n - b \in solid
          BY DEF back
        <4>4. \A j \in solid : n - b >= j
          <5> TAKE j \in solid
          <5>1. j \in 1..n
            BY <2>2 DEF n
          <5>2. j > n - b => n - j \in 0..(b - 1) /\ n - j \in 0..n /\ n - (n - j) = j
            BY <4>0, <4>3, <5>1
          <5>3. j > n - b => n - j \in back
            BY <5>2 DEF back
          <5>4. ~(j > n - b)
            BY <4>2, <5>2, <5>3
          <5>5. QED
            BY <4>0, <4>3, <5>1, <5>4
        <4>5. QED
          BY <4>3, <4>4
      <3> HIDE DEF solid
      <3>2. QED
        BY <3>1, Zenon
    <2>5. i1 \in 1..Len(text) /\ i2 \in 1..Len(text)
      BY <2>2, <2>3, <2>4
    <2> HIDE DEF i1, i2, solid
    <2>6. SubSeq(text, i1, i2) \in Seq(T)
      BY <2>2, <2>5
    <2>7. QED
      BY <2>1, <2>6
  <1>3. QED
    BY <1>1, <1>2

\* The elements of every row that MapRows hands over are Go values of a known
\* kind, one for each column or field.
LEMMA HandedGo ==
    ASSUME NumeralsAssumption, JobsAssumption, job \in Jobs, NEW k \in 1..Len(job.rows)
    PROVE  /\ Len(HandedRow(job.rows[k])) \in Nat \ {0}
           /\ \A i \in 1..Len(HandedRow(job.rows[k])) : IsGo(HandedRow(job.rows[k])[i], Symbols)
  <1> DEFINE row == job.rows[k]
             n == Len(row)
  <1>1. row # <<>>
    BY DEF JobsAssumption
  <1>2. CASE IsSQL
    <2>1. job.rows \in Seq(Seq(Value)) /\ \A i \in 1..n : IsValueOf(job.cols[i], row[i])
      <3>1. job.source \in SQL /\ job.source # "csv"
        BY <1>2 DEF IsSQL, SQL
      <3>2. QED
        BY <3>1 DEF JobsAssumption
    <2>2. n \in Nat \ {0}
      <3>1. row \in Seq(Value)
        BY <2>1
      <3>2. QED
        BY <1>1, <3>1
    <2>3. HandedRow(row) = [i \in 1..n |-> Transformed(Apply(EngineOf(job.source, <<>>), job.cols[i]).transform,
                                                      Convert(job.cols[i], Driver(job.cols[i], row[i])))]
      BY <1>2 DEF HandedRow, RowOf
    <2>4. ASSUME NEW i \in 1..n
          PROVE  IsGo(Transformed(Apply(EngineOf(job.source, <<>>), job.cols[i]).transform,
                                  Convert(job.cols[i], Driver(job.cols[i], row[i]))), Symbols)
      <3>1. IsGo(Convert(job.cols[i], Driver(job.cols[i], row[i])), Written)
        BY <2>1, ConvertedIsGo, Zenon
      <3>2. QED
        BY <3>1, TransformedIsGo, Zenon
    <2> HIDE DEF n, row
    <2>5. Len(HandedRow(row)) = n /\ \A i \in 1..n : IsGo(HandedRow(row)[i], Symbols)
      BY <2>2, <2>3, <2>4
    <2>6. QED
      BY <2>2, <2>5 DEF row
  <1>3. CASE IsCSV
    <2>1. job.rows \in Seq(Seq(Seq(STRING))) /\ ~IsSQL
      BY <1>3 DEF IsCSV, IsSQL, SQL, JobsAssumption
    <2>2. n \in Nat \ {0} /\ \A i \in 1..n : row[i] \in Seq(STRING)
      <3>1. row \in Seq(Seq(STRING))
        BY <2>1
      <3>2. QED
        BY <1>1, <3>1
    <2>3. HandedRow(row) = [i \in 1..n |-> ApplyNullIf(row[i])]
      BY <1>3, <2>1 DEF HandedRow, BuildRow
    <2>4. ASSUME NEW i \in 1..n
          PROVE  IsGo(ApplyNullIf(row[i]), Symbols)
      <3>1. row[i] \in Seq(Symbols)
        BY <2>2, SymbolSets, SeqWidens
      <3>2. IsGo(Str(Trim(row[i])), Symbols) /\ IsGo(Nil, Symbols)
        BY <3>1, TrimTyped, StrIsGo, NilIsGo
      <3>3. QED
        BY <3>2, Zenon DEF ApplyNullIf
    <2> HIDE DEF n, row
    <2>5. Len(HandedRow(row)) = n /\ \A i \in 1..n : IsGo(HandedRow(row)[i], Symbols)
      BY <2>2, <2>3, <2>4
    <2>6. QED
      BY <2>2, <2>5 DEF row
  <1>4. CASE ~IsSQL /\ ~IsCSV
    <2>1. job.rows \in Seq(Seq(Value))
      BY <1>4 DEF IsCSV, JobsAssumption
    <2>2. n \in Nat \ {0} /\ \A i \in 1..n : row[i].text \in Seq(STRING)
      <3>1. row \in Seq(Value)
        BY <2>1
      <3>2. n \in Nat /\ \A i \in 1..n : row[i] \in Value
        BY <3>1
      <3>3. \A v \in Value : v.text \in Seq(STRING)
        BY DEF Value
      <3>4. QED
        BY <1>1, <3>1, <3>2, <3>3
    <2>3. HandedRow(row) = [i \in 1..n |-> IF row[i].null THEN Nil ELSE Str(row[i].text)]
      BY <1>4 DEF HandedRow, RowSent
    <2>4. ASSUME NEW i \in 1..n
          PROVE  IsGo(IF row[i].null THEN Nil ELSE Str(row[i].text), Symbols)
      <3>1. row[i].text \in Seq(Symbols)
        BY <2>2, SymbolSets, SeqWidens
      <3>2. IsGo(Str(row[i].text), Symbols) /\ IsGo(Nil, Symbols)
        BY <3>1, StrIsGo, NilIsGo
      <3>3. QED
        BY <3>2, Zenon
    <2> HIDE DEF n, row
    <2>5. Len(HandedRow(row)) = n /\ \A i \in 1..n : IsGo(HandedRow(row)[i], Symbols)
      BY <2>2, <2>3, <2>4
    <2>6. QED
      BY <2>2, <2>5 DEF row
  <1>5. QED
    BY <1>2, <1>3, <1>4

\* The line of a row: it ends with a line end, its only one, and has no
\* carriage return.
IsLine(s) ==
    /\ s \in Seq(Symbols) /\ Len(s) \in Nat \ {0} /\ s[Len(s)] = "NL"
    /\ \A q \in 1..(Len(s) - 1) : s[q] # "NL" /\ s[q] # "CR"

LEMMA HandedIsLine ==
    ASSUME NumeralsAssumption, JobsAssumption, job \in Jobs, NEW k \in 1..Len(job.rows)
    PROVE  IsLine(FormatRowToCopyText(HandedRow(job.rows[k])))
  <1> DEFINE row == HandedRow(job.rows[k])
             line == LineOf(row)
  <1>1. Len(row) \in Nat \ {0} /\ \A i \in 1..Len(row) : IsGo(row[i], Symbols)
    BY HandedGo
  <1>2. FormatRowToCopyText(row) = line \o <<"NL">>
    BY FormatEndsLine
  <1> HIDE DEF row
  <1>3. line \in Seq(Symbols) /\ \A q \in 1..Len(line) : line[q] \notin {"NL", "CR"}
    BY <1>1, SymbolSets, LineReads
  <1> HIDE DEF line
  <1>4. /\ line \o <<"NL">> \in Seq(Symbols) /\ Len(line \o <<"NL">>) = Len(line) + 1 /\ Len(line) \in Nat
        /\ (line \o <<"NL">>)[Len(line) + 1] = "NL"
        /\ \A q \in 1..Len(line) : (line \o <<"NL">>)[q] = line[q]
    BY <1>3, SymbolSets, LineEnded, Zenon
  <1> DEFINE s == line \o <<"NL">>
             l == Len(line)
  <1>5. s \in Seq(Symbols) /\ Len(s) = l + 1 /\ l \in Nat /\ s[l + 1] = "NL"
    BY <1>4
  <1>6. \A q \in 1..l : s[q] # "NL" /\ s[q] # "CR"
    BY <1>3, <1>4
  <1> HIDE DEF s, l
  <1>7. l = Len(s) - 1 /\ Len(s) \in Nat \ {0} /\ s[Len(s)] = "NL"
    BY <1>5
  <1>8. IsLine(s)
    BY <1>5, <1>6, <1>7 DEF IsLine
  <1>9. QED
    BY <1>2, <1>8 DEF s, row

\* ScanLines gives a line back as it was written.
LEMMA LineScanned ==
    ASSUME IsLine(buf)
    PROVE  LineEnd = Len(buf) /\ Append(Line, "NL") = buf /\ SubSeq(buf, LineEnd + 1, Len(buf)) = <<>>
  <1> DEFINE n == Len(buf)
             P(i) == i \in 1..n /\ buf[i] = "NL" /\ \A j \in 1..(i - 1) : buf[j] # "NL"
  <1>1. buf \in Seq(Symbols) /\ n \in Nat \ {0} /\ buf[n] = "NL" /\ \A q \in 1..(n - 1) : buf[q] # "NL" /\ buf[q] # "CR"
    BY DEF IsLine
  <1>2. LineEnd = CHOOSE i : P(i)
    BY DEF LineEnd
  <1>3. P(n)
    BY <1>1
  <1>4. ASSUME NEW i, P(i) PROVE i = n
    <2>1. i \in 1..n /\ (i # n => i \in 1..(n - 1))
      BY <1>1, <1>4
    <2>2. QED
      BY <1>1, <1>4, <2>1
  <1> HIDE DEF P, n
  <1>5. LineEnd = n
    BY <1>2, <1>3, <1>4, Zenon
  <1>6. n > 1 => buf[n - 1] # "CR"
    <2>1. n > 1 => n - 1 \in 1..(n - 1)
      BY <1>1
    <2>2. QED
      BY <1>1, <2>1
  <1>7. Line = SubSeq(buf, 1, n - 1)
    BY <1>5, <1>6 DEF Line
  <1>8. Append(Line, "NL") = buf
    <2>1. \A s \in Seq(Symbols) : \A m \in Nat \ {0} : Len(s) = m => Append(SubSeq(s, 1, m - 1), s[m]) = s
      OBVIOUS
    <2>2. Append(SubSeq(buf, 1, n - 1), buf[n]) = buf
      BY <1>1, <2>1, Zenon DEF n
    <2>3. QED
      BY <1>1, <1>7, <2>2
  <1>9. SubSeq(buf, n + 1, n) = <<>>
    BY <1>1
  <1>10. QED
    BY <1>5, <1>8, <1>9 DEF n

\* What MapRows makes of a row of the source.
LineAt(k) == FormatRowToCopyText(HandedRow(job.rows[k]))

\* The batch is the last rows read; before the first row it is empty.
Batched ==
    /\ reader \in {"start", "skip", "header", "first"} => batch = <<>>
    /\ result = "error" => reader = "done"
    /\ result # "error" =>
          /\ batch \in Seq(Seq(Symbols)) /\ Len(batch) <= seen
          /\ \A i \in 1..Len(batch) : batch[i] = LineAt(seen - Len(batch) + i)

\* What is under way between the goroutine and the scanner: at most a line in
\* the pipe and a line in the buffer, of the rows after those that were seen.
InFlight ==
    /\ copier = "off" => pipe = <<>> /\ buf = <<>> /\ sent = 0
    /\ job.source # "pgsql" \/ reader = "start" => copier = "off"
    /\ job.source = "pgsql" => reader \in {"start", "rows", "mapped", "done"} /\ (reader = "start" => seen = 0)
    /\ closed = "reader" => reader = "done"
    /\ pipe # <<>> => copier = "writing"
    /\ reader = "rows" /\ job.source = "pgsql" =>
          /\ sent \in 0..Len(job.rows)
          /\ pipe # <<>> => pipe = LineAt(sent)
          /\ buf # <<>> => buf = LineAt(seen + 1)
          /\ sent = seen + (IF pipe = <<>> THEN 0 ELSE 1) + (IF buf = <<>> THEN 0 ELSE 1)

FramedInv == job \in Jobs /\ seen \in 0..Len(job.rows) /\ Batched /\ InFlight

\* Lines of rows in a row are read as the cells of those rows.
LEMMA LinesRead ==
    ASSUME NumeralsAssumption, JobsAssumption, job \in Jobs, NEW a \in Nat, NEW n \in Nat, a + n <= Len(job.rows),
           NEW lines, lines = [i \in 1..n |-> LineAt(a + i)]
    PROVE  /\ ReadStream(FlattenSeq(lines)) = [i \in 1..n |-> CellsFor(HandedRow(job.rows[a + i]))]
           /\ \A i \in 1..n : Len(HandedRow(job.rows[a + i])) \in Nat \ {0}
  <1> DEFINE rows == [i \in 1..n |-> HandedRow(job.rows[a + i])]
  <1>1. ASSUME NEW i \in 1..n
        PROVE  /\ Len(HandedRow(job.rows[a + i])) \in Nat \ {0}
               /\ \A j \in 1..Len(HandedRow(job.rows[a + i])) : IsGo(HandedRow(job.rows[a + i])[j], Symbols)
    <2> DEFINE k == a + i
               m == Len(job.rows)
    <2>1. m \in Nat /\ a + n <= m
      BY DEF JobsAssumption
    <2> HIDE DEF m
    <2>2. k \in 1..m
      BY <2>1
    <2> HIDE DEF k
    <2>3. k \in 1..Len(job.rows)
      BY <2>2 DEF m
    <2>4. /\ Len(HandedRow(job.rows[k])) \in Nat \ {0}
          /\ \A j \in 1..Len(HandedRow(job.rows[k])) : IsGo(HandedRow(job.rows[k])[j], Symbols)
      BY <2>3, HandedGo
    <2>5. QED
      BY <2>4 DEF k
  <1>2. Len(rows) = n /\ \A i \in 1..n : rows[i] = HandedRow(job.rows[a + i])
    OBVIOUS
  <1>3. lines = [i \in 1..n |-> FormatRowToCopyText(rows[i])]
    <2>1. \A i \in 1..n : LineAt(a + i) = FormatRowToCopyText(rows[i])
      BY <1>2 DEF LineAt
    <2> HIDE DEF rows
    <2>2. QED
      BY <2>1
  <1> HIDE DEF rows
  <1>4. ReadStream(Encoding(rows)) = CellsOf(rows)
    <2>1. Len(rows) \in Nat /\ Base \subseteq Symbols
      BY <1>2, SymbolSets
    <2>2. \A i \in 1..Len(rows) : Len(rows[i]) \in Nat \ {0} /\ \A j \in 1..Len(rows[i]) : IsGo(rows[i][j], Symbols)
      BY <1>1, <1>2
    <2>3. QED
      BY <2>1, <2>2, CopyRoundTrip
  <1>5. ReadStream(FlattenSeq(lines)) = CellsOf(rows)
    BY <1>2, <1>3, <1>4 DEF Encoding
  <1>6. CellsOf(rows) = [i \in 1..n |-> CellsFor(HandedRow(job.rows[a + i]))]
    BY <1>2 DEF CellsOf
  <1>7. QED
    BY <1>1, <1>5, <1>6

\* From the invariant: the server reads the batch row by row.
LEMMA InvFrames ==
    ASSUME NumeralsAssumption, JobsAssumption, FramedInv
    PROVE  RowsFramed
  <1> DEFINE n == Len(batch)
             a == seen - n
  <1> SUFFICES ASSUME result # "error"
               PROVE  LET r == ReadStream(FlattenSeq(batch)) IN
                      /\ Len(r) = n
                      /\ \A i \in 1..n :
                            /\ Len(r[i]) = Len(Handed(i))
                            /\ \A j \in 1..Len(r[i]) : r[i][j] = CellOf(Handed(i)[j])
    BY Zenon DEF RowsFramed
  <1>1. batch \in Seq(Seq(Symbols)) /\ n <= seen /\ \A i \in 1..n : batch[i] = LineAt(a + i)
    BY DEF FramedInv, Batched
  <1>2. n \in Nat /\ a \in Nat /\ a + n <= Len(job.rows) /\ job \in Jobs
    <2>1. job \in Jobs /\ seen \in 0..Len(job.rows)
      BY DEF FramedInv
    <2>2. Len(job.rows) \in Nat
      BY <2>1 DEF JobsAssumption
    <2>3. n \in Nat
      BY <1>1
    <2> HIDE DEF n
    <2>4. QED
      BY <1>1, <2>1, <2>2, <2>3
  <1>3. batch = [i \in 1..n |-> LineAt(a + i)]
    <2>1. batch = [i \in 1..n |-> batch[i]]
      BY <1>1
    <2> HIDE DEF n, a
    <2>2. QED
      BY <1>1, <2>1
  <1> DEFINE r == ReadStream(FlattenSeq(batch))
  <1>4. \A i : Handed(i) = HandedRow(job.rows[a + i])
    BY DEF Handed
  <1> HIDE DEF r, n, a
  <1>5. r = [i \in 1..n |-> CellsFor(HandedRow(job.rows[a + i]))] /\ \A i \in 1..n : Len(HandedRow(job.rows[a + i])) \in Nat
    BY <1>2, <1>3, LinesRead DEF r
  <1>6. Len(r) = n
    BY <1>2, <1>5
  <1>7. ASSUME NEW i \in 1..n
        PROVE  Len(r[i]) = Len(Handed(i)) /\ \A j \in 1..Len(r[i]) : r[i][j] = CellOf(Handed(i)[j])
    <2> DEFINE row == Handed(i)
    <2>1. r[i] = [j \in 1..Len(row) |-> CellOf(row[j])] /\ Len(row) \in Nat
      BY <1>4, <1>5 DEF CellsFor
    <2> HIDE DEF row
    <2>2. Len(r[i]) = Len(row)
      BY <2>1
    <2>3. QED
      BY <2>1, <2>2 DEF row
  <1>8. QED
    BY <1>6, <1>7 DEF r

LEMMA SameRows ==
    ASSUME job' = job
    PROVE  \A k : LineAt(k)' = LineAt(k)
  BY DEF LineAt, HandedRow, RowOf, BuildRow, RowSent, ApplyNullIf, IsSQL, IsCSV

\* A row that MapRows hands over joins the batch, or empties it.
LEMMA RowBatched ==
    ASSUME NumeralsAssumption, JobsAssumption, FramedInv, UNCHANGED job, seen' = seen + 1,
           seen < Len(job.rows), reader = "rows", ProcessRow(LineAt(seen + 1))
    PROVE  Batched'
  <1> DEFINE n == Len(batch)
             line == LineAt(seen + 1)
  <1>1. Len(job.rows) \in Nat /\ seen \in Nat
    BY DEF FramedInv, JobsAssumption
  <1>2. result # "error" /\ batch \in Seq(Seq(Symbols)) /\ n <= seen /\ \A i \in 1..n : batch[i] = LineAt(seen - n + i)
    BY DEF FramedInv, Batched
  <1>3. CASE Fail(TRUE)
    BY <1>3 DEF Fail, Batched
  <1>4. CASE batch' = <<>> /\ UNCHANGED <<reader, result>>
    <2>1. batch' \in Seq(Seq(Symbols)) /\ Len(batch') = 0
      BY <1>4
    <2>2. QED
      BY <1>1, <1>4, <2>1 DEF FramedInv, Batched
  <1>5. CASE batch' = Append(batch, line) /\ UNCHANGED <<reader, result>>
    <2>1. line \in Seq(Symbols)
      <3>1. seen + 1 \in 1..Len(job.rows) /\ job \in Jobs
        <4> DEFINE m == Len(job.rows)
        <4>1. m \in Nat /\ seen \in Nat /\ seen < m
          BY <1>1
        <4> HIDE DEF m
        <4>2. seen + 1 \in 1..m
          BY <4>1
        <4>3. QED
          BY <4>2 DEF m, FramedInv
      <3>2. QED
        BY <3>1, HandedIsLine DEF LineAt, IsLine
    <2>2. /\ batch' \in Seq(Seq(Symbols)) /\ Len(batch') = n + 1 /\ n \in Nat /\ batch'[n + 1] = line
          /\ \A i \in 1..n : batch'[i] = batch[i]
      <3>1. \A s \in Seq(Seq(Symbols)) : \A a \in Seq(Symbols) :
                /\ Append(s, a) \in Seq(Seq(Symbols)) /\ Len(Append(s, a)) = Len(s) + 1 /\ Len(s) \in Nat
                /\ Append(s, a)[Len(s) + 1] = a /\ \A i \in 1..Len(s) : Append(s, a)[i] = s[i]
        OBVIOUS
      <3> HIDE DEF line
      <3>2. QED
        BY <1>2, <1>5, <2>1, <3>1, Zenon
    <2>3. Len(batch') <= seen'
      BY <1>1, <1>2, <2>2
    <2>4. ASSUME NEW i \in 1..Len(batch')
          PROVE  batch'[i] = LineAt(seen' - Len(batch') + i)
      <3> HIDE DEF n, line
      <3>1. CASE i \in 1..n
        <4>1. seen' - Len(batch') + i = seen - n + i
          <5>1. n \in Nat /\ seen \in Nat /\ seen' = seen + 1 /\ Len(batch') = n + 1 /\ i \in 1..n
            BY <1>1, <2>2, <3>1
          <5> DEFINE l == Len(batch')
          <5>2. l = n + 1
            BY <5>1
          <5> HIDE DEF l
          <5>3. seen' - l + i = seen - n + i
            BY <5>1, <5>2
          <5>4. QED
            BY <5>3 DEF l
        <4>2. batch'[i] = LineAt(seen - n + i)
          BY <1>2, <2>2, <3>1, Zenon
        <4>3. QED
          BY <4>1, <4>2, Zenon
      <3>2. CASE i = n + 1
        <4>1. seen' - Len(batch') + i = seen + 1
          <5>1. n \in Nat /\ seen \in Nat /\ seen' = seen + 1 /\ Len(batch') = n + 1
            BY <1>1, <2>2
          <5> DEFINE l == Len(batch')
          <5>2. l = n + 1
            BY <5>1
          <5> HIDE DEF l
          <5>3. seen' - l + i = seen + 1
            BY <3>2, <5>1, <5>2
          <5>4. QED
            BY <5>3 DEF l
        <4>2. QED
          BY <2>2, <3>2, <4>1, Zenon DEF line
      <3>3. i \in 1..n \/ i = n + 1
        BY <2>2
      <3>4. QED
        BY <3>1, <3>2, <3>3
    <2>5. (\A i \in 1..Len(batch) : batch[i] = LineAt(seen - Len(batch) + i))'
      <3>1. \A i : (LineAt(seen - Len(batch) + i))' = LineAt(seen' - Len(batch') + i)
        BY DEF LineAt, HandedRow, RowOf, BuildRow, RowSent, ApplyNullIf, IsSQL, IsCSV
      <3> HIDE DEF line, n
      <3>2. QED
        BY <2>4, <3>1
    <2>6. QED
      BY <1>5, <2>2, <2>3, <2>5 DEF FramedInv, Batched
  <1>6. Fail(TRUE) \/ ((batch' = <<>> \/ batch' = Append(batch, line)) /\ UNCHANGED <<reader, result>>)
    BY DEF ProcessRow, Flush
  <1>7. QED
    BY <1>3, <1>4, <1>5, <1>6

\* Steps that leave the batch alone, end in an error, or do both.
LEMMA BatchRests ==
    ASSUME FramedInv, UNCHANGED <<job, batch>>,
           \/ UNCHANGED <<seen, result>> /\ (reader' \in {"start", "skip", "header", "first"} =>
                                               reader \in {"start", "skip", "header", "first"})
                                        /\ (reader = "done" => reader' = "done")
           \/ result' = "error" /\ reader' = "done"
           \/ batch = <<>> /\ UNCHANGED result /\ reader # "done" /\ seen' \in Nat
    PROVE  Batched'
  <1>1. CASE UNCHANGED <<seen, result>> /\ (reader' \in {"start", "skip", "header", "first"} =>
                                               reader \in {"start", "skip", "header", "first"})
                                        /\ (reader = "done" => reader' = "done")
    BY <1>1, SameRows DEF FramedInv, Batched
  <1>2. CASE result' = "error" /\ reader' = "done"
    BY <1>2 DEF FramedInv, Batched
  <1>3. CASE batch = <<>> /\ UNCHANGED result /\ reader # "done" /\ seen' \in Nat
    <2>1. batch' \in Seq(Seq(Symbols)) /\ Len(batch') = 0 /\ batch' = <<>>
      BY <1>3
    <2>2. QED
      BY <1>3, <2>1 DEF FramedInv, Batched
  <1>4. QED
    BY <1>1, <1>2, <1>3

\* Nothing is in flight but in a PostgreSQL load that MapRows goes on with.
LEMMA FlightRests ==
    ASSUME InFlight, UNCHANGED <<job, copier, sent, pipe, buf>>, closed' = "reader" => reader' = "done",
           job.source # "pgsql" \/ reader' \in {"mapped", "done"}
    PROVE  InFlight'
  BY DEF InFlight

LEMMA FlightGoesOn ==
    ASSUME job.source = "pgsql", UNCHANGED job, copier' # "off", reader' \in {"rows", "mapped", "done"},
           closed' = "reader" => reader' = "done", pipe' # <<>> => copier' = "writing",
           reader' = "rows" =>
               /\ sent' \in 0..Len(job.rows)
               /\ pipe' # <<>> => pipe' = LineAt(sent)'
               /\ buf' # <<>> => buf' = LineAt(seen + 1)'
               /\ sent' = seen' + (IF pipe' = <<>> THEN 0 ELSE 1) + (IF buf' = <<>> THEN 0 ELSE 1)
    PROVE  InFlight'
  BY DEF InFlight

\* The goroutine is a row ahead of what is in the pipe, and only when the last
\* one was taken.
LEMMA CopierKeepsFramedInv ==
    ASSUME NumeralsAssumption, JobsAssumption, FramedInv, Copier
    PROVE  FramedInv'
  <1>0. InFlight /\ Len(job.rows) \in Nat /\ seen \in Nat /\ job \in Jobs
    BY DEF FramedInv, JobsAssumption
  <1>1. UNCHANGED <<job, reader, seen, batch, result, buf>>
    BY DEF Copier, CopierWrites, CopierUnblocks, CopierEnds
  <1>2. Batched'
    BY <1>1, BatchRests
  <1>3. job.source = "pgsql" /\ reader # "start" /\ copier # "off"
    BY <1>0 DEF Copier, CopierWrites, CopierUnblocks, CopierEnds, InFlight
  <1>4. LineAt(seen + 1)' = LineAt(seen + 1) /\ \A k : LineAt(k)' = LineAt(k)
    BY <1>1, SameRows
  <1>5. CASE CopierWrites
    <2>1. sent' = sent + 1 /\ copier' = "writing" /\ closed' = closed /\ copier = "copying" /\ pipe = <<>> /\ sent < Len(job.rows)
      BY <1>0, <1>5 DEF CopierWrites, InFlight
    <2>2. pipe' = LineAt(sent + 1)
      <3>1. ~IsSQL /\ ~IsCSV
        BY <1>3 DEF IsSQL, IsCSV, SQL
      <3>2. QED
        BY <1>5, <3>1 DEF CopierWrites, LineAt, HandedRow
    <2>3. pipe' = LineAt(sent)'
      BY <1>1, <2>1, <2>2 DEF LineAt, HandedRow, RowOf, BuildRow, RowSent, ApplyNullIf, IsSQL, IsCSV
    <2>4. ASSUME reader # "rows" PROVE InFlight'
      <3>1. /\ reader' \in {"mapped", "done"} /\ copier' # "off" /\ UNCHANGED job
            /\ (closed' = "reader" => reader' = "done")
        BY <1>0, <1>1, <1>3, <2>1, <2>4 DEF InFlight
      <3>2. InFlight'
        BY <1>3, <2>1, <3>1, FlightGoesOn
      <3>3. QED
        BY <3>2
    <2>5. ASSUME reader = "rows" PROVE InFlight'
      <3>1. sent \in 0..Len(job.rows) /\ sent = seen + 0 + (IF buf = <<>> THEN 0 ELSE 1)
        BY <1>0, <1>3, <2>1, <2>5 DEF InFlight
      <3>2. sent' \in 0..Len(job.rows)
        BY <1>0, <2>1, <3>1
      <3>3. pipe' # <<>>
        <4>1. sent + 1 \in 1..Len(job.rows)
          BY <1>0, <2>1, <3>1
        <4>2. IsLine(LineAt(sent + 1))
          BY <1>0, <4>1, HandedIsLine DEF LineAt
        <4>3. QED
          BY <2>2, <4>2 DEF IsLine
      <3>4. sent' = seen + 1 + (IF buf = <<>> THEN 0 ELSE 1)
        BY <1>0, <2>1, <3>1
      <3>5. buf # <<>> => buf = LineAt(seen + 1)
        BY <1>0, <1>3, <2>5 DEF InFlight
      <3>6. closed # "reader"
        BY <1>0, <2>5 DEF InFlight
      <3>7. /\ reader' = "rows" /\ copier' = "writing" /\ UNCHANGED job /\ closed' # "reader"
            /\ (buf' # <<>> => buf' = LineAt(seen + 1)')
        BY <1>1, <1>4, <2>1, <2>5, <3>5, <3>6
      <3>8. sent' = seen' + (IF pipe' = <<>> THEN 0 ELSE 1) + (IF buf' = <<>> THEN 0 ELSE 1)
        BY <1>1, <3>3, <3>4
      <3>9. QED
        BY <1>3, <2>3, <3>2, <3>7, <3>8, FlightGoesOn
    <2>6. QED
      BY <1>0, <1>1, <1>2, <2>4, <2>5 DEF FramedInv
  <1>6. CASE CopierUnblocks
    <2>1. pipe' = <<>> /\ sent' = sent /\ closed' = closed /\ copier' \in {"ended", "copying"} /\ (pipe = <<>> \/ closed = "reader")
      BY <1>6 DEF CopierUnblocks
    <2>2. CASE pipe = <<>>
      BY <1>0, <1>1, <1>2, <1>3, <1>4, <2>1, <2>2 DEF FramedInv, InFlight
    <2>3. CASE closed = "reader"
      BY <1>0, <1>1, <1>2, <1>3, <2>1, <2>3 DEF FramedInv, InFlight
    <2>4. QED
      BY <2>1, <2>2, <2>3
  <1>7. CASE CopierEnds
    <2>1. pipe' = pipe /\ sent' = sent /\ (closed' = "reader" => closed = "reader") /\ copier' = "ended" /\ copier = "copying"
      BY <1>7 DEF CopierEnds
    <2>2. pipe = <<>>
      BY <1>0, <2>1 DEF InFlight
    <2>3. QED
      BY <1>0, <1>1, <1>2, <1>3, <1>4, <2>1, <2>2 DEF FramedInv, InFlight
  <1>8. QED
    BY <1>5, <1>6, <1>7 DEF Copier

\* The scanner hands over the line of the row after those seen.
LEMMA ScannerKeepsFramedInv ==
    ASSUME NumeralsAssumption, JobsAssumption, FramedInv, ScannerReads \/ ScannerLine
    PROVE  FramedInv'
  <1>0. InFlight /\ Len(job.rows) \in Nat /\ seen \in 0..Len(job.rows) /\ job \in Jobs /\ reader = "rows" /\ UNCHANGED job
    <2>1. reader = "rows" /\ UNCHANGED job
      BY DEF ScannerReads, ScannerLine
    <2>2. InFlight /\ seen \in 0..Len(job.rows) /\ job \in Jobs
      BY DEF FramedInv
    <2>3. Len(job.rows) \in Nat
      BY <2>2 DEF JobsAssumption
    <2>4. QED
      BY <2>1, <2>2, <2>3
  <1>1. job.source = "pgsql" /\ copier # "off" /\ closed # "reader"
    BY <1>0 DEF ScannerReads, ScannerLine, InFlight
  <1>2. \A k : LineAt(k)' = LineAt(k)
    BY <1>0, SameRows
  <1>3. /\ sent \in 0..Len(job.rows) /\ (pipe # <<>> => pipe = LineAt(sent)) /\ (buf # <<>> => buf = LineAt(seen + 1))
        /\ sent = seen + (IF pipe = <<>> THEN 0 ELSE 1) + (IF buf = <<>> THEN 0 ELSE 1)
    BY <1>0, <1>1 DEF InFlight
  <1>4. CASE ScannerReads
    <2>1. /\ pipe # <<>> /\ buf = <<>> /\ buf' = pipe /\ pipe' = <<>>
          /\ UNCHANGED <<reader, seen, batch, result, copier, sent, closed>>
      BY <1>4 DEF ScannerReads
    <2>2. sent = seen + 1
      BY <1>0, <1>3, <2>1
    <2>3. buf' = LineAt(seen + 1)'
      <3>1. buf' = LineAt(seen + 1)
        BY <1>3, <2>1, <2>2
      <3>2. LineAt(seen + 1)' = LineAt(seen + 1)
        BY <1>0, <2>1 DEF LineAt, HandedRow, RowOf, BuildRow, RowSent, ApplyNullIf, IsSQL, IsCSV
      <3>3. QED
        BY <3>1, <3>2
    <2>4. InFlight'
      <3>1. buf' # <<>> /\ pipe' = <<>> /\ sent' \in 0..Len(job.rows)
        BY <1>3, <2>1
      <3>2. sent' = seen' + (IF pipe' = <<>> THEN 0 ELSE 1) + (IF buf' = <<>> THEN 0 ELSE 1)
        BY <1>0, <2>1, <2>2, <3>1
      <3>3. QED
        BY <1>0, <1>1, <2>1, <2>3, <3>1, <3>2, FlightGoesOn
    <2>5. Batched'
      BY <1>0, <2>1, BatchRests
    <2>6. QED
      BY <1>0, <2>1, <2>4, <2>5 DEF FramedInv
  <1>5. CASE ScannerLine
    <2>1. buf # <<>> /\ UNCHANGED <<copier, sent, pipe>>
      BY <1>5 DEF ScannerLine
    <2>2. seen + 1 \in 1..Len(job.rows) /\ buf = LineAt(seen + 1)
      BY <1>0, <1>3, <2>1
    <2>3. IsLine(buf)
      BY <1>0, <2>2, HandedIsLine DEF LineAt
    <2>4. CASE Fail(FALSE) /\ UNCHANGED <<seen, batch, target, buf>>
      <3>1. reader' = "done" /\ result' = "error"
        BY <2>4 DEF Fail
      <3>2. InFlight'
        BY <1>0, <2>1, <2>4, <3>1, FlightRests
      <3>3. Batched'
        BY <1>0, <2>4, <3>1, BatchRests
      <3>4. QED
        BY <1>0, <2>4, <3>2, <3>3 DEF FramedInv
    <2>5. CASE seen' = seen + 1 /\ buf' = SubSeq(buf, LineEnd + 1, Len(buf)) /\ ProcessRow(Append(Line, "NL"))
      <3>1. buf' = <<>> /\ ProcessRow(LineAt(seen + 1))
        BY <2>2, <2>3, <2>5, LineScanned
      <3>2. seen < Len(job.rows) /\ seen' \in 0..Len(job.rows)
        BY <1>0, <2>2, <2>5
      <3>3. Batched'
        BY <1>0, <2>5, <3>1, <3>2, RowBatched
      <3>4. \/ reader' = "done"
            \/ UNCHANGED <<reader, closed>>
        BY <3>1 DEF ProcessRow, Fail
      <3>5. sent = seen' + (IF pipe = <<>> THEN 0 ELSE 1) + 0
        BY <1>0, <1>3, <2>1, <2>5
      <3>6. pipe # <<>> => pipe = LineAt(sent)'
        BY <1>0, <1>3, <2>1 DEF LineAt, HandedRow, RowOf, BuildRow, RowSent, ApplyNullIf, IsSQL, IsCSV
      <3>7. InFlight'
        BY <1>0, <1>1, <1>3, <2>1, <3>1, <3>4, <3>5, <3>6 DEF InFlight
      <3>8. QED
        BY <1>0, <3>2, <3>3, <3>7 DEF FramedInv
    <2>6. QED
      BY <1>5, <2>4, <2>5 DEF ScannerLine
  <1>6. QED
    BY <1>4, <1>5

\* A row of a cursor or a record of a file joins the batch.
LEMMA RowKeepsFramedInv ==
    ASSUME NumeralsAssumption, JobsAssumption, FramedInv, NextRow \/ ReadRecord
    PROVE  FramedInv'
  <1>0. /\ InFlight /\ Len(job.rows) \in Nat /\ seen \in 0..Len(job.rows) /\ job \in Jobs
        /\ reader = "rows" /\ job.source # "pgsql" /\ seen < Len(job.rows)
        /\ seen' = seen + 1 /\ UNCHANGED <<job, copier, sent, pipe, buf>>
    <2>1. /\ reader = "rows" /\ job.source # "pgsql" /\ seen < Len(job.rows)
          /\ seen' = seen + 1 /\ UNCHANGED <<job, copier, sent, pipe, buf>>
      BY DEF NextRow, ReadRecord, TakeRecord, Readable, IsSQL, IsCSV, SQL
    <2>2. InFlight /\ seen \in 0..Len(job.rows) /\ job \in Jobs
      BY DEF FramedInv
    <2>3. Len(job.rows) \in Nat
      BY <2>2 DEF JobsAssumption
    <2>4. QED
      BY <2>1, <2>2, <2>3
  <1>1. ProcessRow(LineAt(seen + 1))
    <2>1. CASE NextRow
      BY <2>1 DEF NextRow, LineAt, HandedRow
    <2>2. CASE ReadRecord
      <3>1. IsCSV /\ ~IsSQL
        BY <2>2 DEF ReadRecord, IsCSV, IsSQL, SQL
      <3>2. QED
        BY <2>2, <3>1 DEF ReadRecord, Record, LineAt, HandedRow
    <2>3. QED
      BY <2>1, <2>2
  <1>2. Batched'
    BY <1>0, <1>1, RowBatched
  <1>3. closed' = "reader" => reader' = "done"
    <2>1. reader' = "done" \/ UNCHANGED closed
      BY <1>1 DEF ProcessRow, Fail
    <2>2. QED
      BY <1>0, <2>1 DEF InFlight
  <1>4. InFlight'
    BY <1>0, <1>3, FlightRests
  <1>5. seen' \in 0..Len(job.rows)
    BY <1>0
  <1>6. QED
    BY <1>0, <1>2, <1>4, <1>5 DEF FramedInv

\* The steps that hand no row over.
LEMMA ReaderKeepsFramedInv ==
    ASSUME NumeralsAssumption, JobsAssumption, FramedInv, Reader
    PROVE  FramedInv'
  <1>0. InFlight /\ Batched /\ Len(job.rows) \in Nat /\ seen \in 0..Len(job.rows) /\ job \in Jobs
    <2>1. job \in Jobs
      BY DEF FramedInv
    <2>2. Len(job.rows) \in Nat
      BY <2>1 DEF JobsAssumption
    <2>3. QED
      BY <2>2 DEF FramedInv
  <1>1. ASSUME \/ Fail(TRUE)
               \/ Fail(FALSE),
               UNCHANGED <<job, seen, batch, copier, sent, pipe, buf>>
        PROVE  FramedInv'
    <2>1. reader' = "done" /\ result' = "error"
      BY <1>1 DEF Fail
    <2>2. InFlight' /\ Batched'
      BY <1>0, <1>1, <2>1, FlightRests, BatchRests
    <2>3. QED
      BY <1>0, <1>1, <2>2 DEF FramedInv
  <1>2. ASSUME UNCHANGED <<job, copier, sent, pipe, buf, closed, batch, result>>, reader # "done",
               reader' \in {"start", "skip", "header", "first"} => reader \in {"start", "skip", "header", "first"},
               job.source # "pgsql" \/ reader' \in {"mapped", "done"},
               \/ UNCHANGED seen
               \/ seen' \in 0..Len(job.rows) /\ batch = <<>>
        PROVE  FramedInv'
    <2>1. closed' = "reader" => reader' = "done"
      BY <1>0, <1>2 DEF InFlight
    <2>2. InFlight'
      BY <1>0, <1>2, <2>1, FlightRests
    <2>3. seen' \in 0..Len(job.rows) /\ seen' \in Nat
      BY <1>0, <1>2
    <2>4. Batched'
      BY <1>2, <2>3, BatchRests
    <2>5. QED
      BY <1>0, <1>2, <2>2, <2>3, <2>4 DEF FramedInv
  <1>3. CASE Query \/ RowsEnd
    <2>1. /\ UNCHANGED <<job, copier, sent, pipe, buf, closed, batch, result, seen>>
          /\ job.source # "pgsql" /\ reader # "done" /\ reader' \in {"rows", "mapped"}
      BY <1>3 DEF Query, RowsEnd, copierVars, IsSQL, SQL
    <2>2. QED
      BY <1>2, <2>1
  <1>4. CASE OpenFile \/ SkipEnds \/ ReadFirst
    <2>1. /\ UNCHANGED <<job, copier, sent, pipe, buf, closed, batch, result, seen>>
          /\ reader \in {"start", "skip", "first"}
      BY <1>4 DEF OpenFile, SkipEnds, ReadFirst, copierVars
    <2>2. job.source # "pgsql"
      BY <1>0, <1>4 DEF OpenFile, SkipEnds, ReadFirst, InFlight, IsCSV
    <2>3. QED
      BY <1>2, <2>1, <2>2
  <1>5. CASE SkipLine \/ ReadHeader
    <2>1. /\ UNCHANGED <<job, copier, sent, pipe, buf, closed, batch, result>>
          /\ reader \in {"skip", "header"} /\ seen' = seen + 1 /\ seen < Len(job.rows)
      BY <1>5 DEF SkipLine, ReadHeader, TakeRecord, Readable, copierVars
    <2>2. job.source # "pgsql"
      BY <1>0, <2>1 DEF InFlight
    <2>3. batch = <<>>
      BY <1>0, <2>1 DEF Batched
    <2>4. seen' \in 0..Len(job.rows)
      BY <1>0, <2>1
    <2>5. QED
      BY <1>2, <2>1, <2>2, <2>3, <2>4
  <1>6. CASE QueryFails \/ AcquireSourceFails \/ OpenFileFails \/ Cancelled \/ ReadFails
    BY <1>1, <1>6 DEF QueryFails, AcquireSourceFails, OpenFileFails, Cancelled, ReadFails
  <1>7. CASE FileEnds
    <2>1. CASE Fail(FALSE)
      BY <1>1, <1>7, <2>1 DEF FileEnds
    <2>2. CASE reader' = "mapped" /\ UNCHANGED <<result, closed>> /\ reader \in {"rows", "first"}
      <3>1. UNCHANGED <<job, seen, batch, copier, sent, pipe, buf>>
        BY <1>7 DEF FileEnds
      <3>2. QED
        BY <1>2, <2>2, <3>1
    <2>3. QED
      BY <1>7, <2>1, <2>2 DEF FileEnds
  <1>8. CASE ScannerEnds
    <2>1. CASE Fail(FALSE)
      BY <1>1, <1>8, <2>1 DEF ScannerEnds
    <2>2. CASE reader' = "mapped" /\ UNCHANGED <<result, closed>> /\ reader = "rows"
      <3>1. UNCHANGED <<job, seen, batch, copier, sent, pipe, buf>>
        BY <1>8 DEF ScannerEnds
      <3>2. QED
        BY <1>2, <2>2, <3>1
    <2>3. QED
      BY <1>8, <2>1, <2>2 DEF ScannerEnds
  <1>9. CASE StartCopier
    <2>1. /\ reader = "start" /\ job.source = "pgsql" /\ reader' = "rows" /\ copier' = "copying"
          /\ UNCHANGED <<job, seen, batch, result, sent, pipe, closed, buf>>
      BY <1>9 DEF StartCopier
    <2>2. seen = 0 /\ sent = 0 /\ pipe = <<>> /\ buf = <<>> /\ closed # "reader"
      BY <1>0, <2>1 DEF InFlight
    <2>3. sent' \in 0..Len(job.rows) /\ sent' = seen' + (IF pipe' = <<>> THEN 0 ELSE 1) + (IF buf' = <<>> THEN 0 ELSE 1)
      BY <1>0, <2>1, <2>2
    <2>4. InFlight'
      BY <2>1, <2>2, <2>3, FlightGoesOn
    <2>5. Batched'
      BY <2>1, BatchRests
    <2>6. QED
      BY <1>0, <2>1, <2>4, <2>5 DEF FramedInv
  <1>10. CASE FlushFinal
    <2>1. /\ UNCHANGED <<job, seen, copier, sent, pipe, buf, closed>> /\ reader = "mapped" /\ reader' = "done"
          /\ batch' = <<>> \/ (result' = "error" /\ batch' = batch)
      BY <1>10 DEF FlushFinal, Flush, copierVars
    <2>2. InFlight'
      BY <1>0, <2>1, FlightRests
    <2>3. CASE result' = "error"
      <3>1. Batched'
        BY <2>1, <2>3 DEF Batched
      <3>2. QED
        BY <1>0, <2>1, <2>2, <3>1 DEF FramedInv
    <2>4. CASE batch' = <<>> /\ result' # "error"
      <3>1. batch' \in Seq(Seq(Symbols)) /\ Len(batch') = 0 /\ seen' \in Nat
        BY <1>0, <2>1, <2>4
      <3>2. Batched'
        BY <2>1, <2>4, <3>1 DEF Batched
      <3>3. QED
        BY <1>0, <2>1, <2>2, <3>2 DEF FramedInv
    <2>5. QED
      BY <2>1, <2>3, <2>4
  <1>11. QED
    BY <1>3, <1>4, <1>5, <1>6, <1>7, <1>8, <1>9, <1>10, RowKeepsFramedInv, ScannerKeepsFramedInv DEF Reader

LEMMA InitFramed == RowInit => FramedInv
  <1> SUFFICES ASSUME RowInit
               PROVE  FramedInv
    OBVIOUS
  <1>1. /\ job \in Jobs /\ reader = "start" /\ seen = 0 /\ batch = <<>> /\ copier = "off" /\ sent = 0
        /\ pipe = <<>> /\ buf = <<>>
    BY Zenon DEF RowInit
  <1>2. result # "error" /\ closed # "reader"
    BY DEF RowInit
  <1>3. Len(job.rows) \in Nat
    BY <1>1, JobsAssumption DEF JobsAssumption
  <1>4. Batched
    <2>1. <<>> \in Seq(Seq(Symbols)) /\ Len(<<>>) = 0
      OBVIOUS
    <2>2. batch \in Seq(Seq(Symbols)) /\ Len(batch) = 0
      BY <1>1, <2>1
    <2>3. QED
      BY <1>1, <1>2, <2>2 DEF Batched
  <1>5. InFlight
    BY <1>1, <1>2 DEF InFlight
  <1>6. QED
    BY <1>1, <1>3, <1>4, <1>5 DEF FramedInv

LEMMA NextFramed == FramedInv /\ [RowNext]_rowVars => FramedInv'
  <1> SUFFICES ASSUME FramedInv, [RowNext]_rowVars
               PROVE  FramedInv'
    OBVIOUS
  <1>1. CASE UNCHANGED rowVars
    <2>1. UNCHANGED <<job, reader, seen, batch, result, copier, sent, pipe, closed, buf>>
      BY <1>1 DEF rowVars, copierVars
    <2>2. Batched'
      BY <2>1, BatchRests
    <2>3. \A k : LineAt(k)' = LineAt(k)
      BY <2>1, SameRows
    <2>4. LineAt(sent)' = LineAt(sent) /\ LineAt(seen + 1)' = LineAt(seen + 1)
      BY <2>1 DEF LineAt, HandedRow, RowOf, BuildRow, RowSent, ApplyNullIf, IsSQL, IsCSV
    <2>5. InFlight'
      BY <2>1, <2>4 DEF FramedInv, InFlight
    <2>6. QED
      BY <2>1, <2>2, <2>5 DEF FramedInv
  <1>2. QED
    BY <1>1, NumeralsAssumption, JobsAssumption, CopierKeepsFramedInv, ReaderKeepsFramedInv DEF RowNext

\* Whatever is loaded, from whatever source, in batches of any size: at every
\* moment of a load that has not failed, the server would read the batch row by
\* row, with the values and NULLs that MapRows handed over.
THEOREM BatchesAreFramed == RowSpec => []RowsFramed
  <1>1. RowInit => FramedInv
    BY InitFramed
  <1>2. FramedInv /\ [RowNext]_rowVars => FramedInv'
    BY NextFramed
  <1>3. FramedInv => RowsFramed
    BY NumeralsAssumption, JobsAssumption, InvFrames
  <1>4. QED
    BY <1>1, <1>2, <1>3, PTL DEF RowSpec

\* Text without a bad byte is what it was.
LEMMA ValidKept ==
    ASSUME NEW T, NEW s \in Seq(T), \A p \in 1..Len(s) : s[p] # "bad"
    PROVE  ValidUTF8(s) = s
  <1> DEFINE n == Len(s)
             seqs == [i \in 1..n |-> <<s[i]>>]
             t == FlattenSeq(seqs)
  <1>1. ValidUTF8(s) = t
    <2>1. [i \in 1..n |-> IF s[i] # "bad" THEN <<s[i]>>
                          ELSE IF i > 1 /\ s[i - 1] = "bad" THEN <<>> ELSE <<"?">>] = seqs
      OBVIOUS
    <2>2. QED
      BY <2>1 DEF ValidUTF8
  <1>2. n \in Nat /\ seqs \in Seq(Seq(T)) /\ Len(seqs) = n
    OBVIOUS
  <1>3. \A i \in 1..n : Len(seqs[i]) = 1 /\ seqs[i][1] = s[i]
    OBVIOUS
  <1> HIDE DEF seqs, n
  <1>4. t \in Seq(T) /\ \E e : Places(t, seqs, e)
    BY <1>2, FlattenPlaces
  <1>5. PICK e : Places(t, seqs, e)
    BY <1>4
  <1> HIDE DEF t
  <1>6. /\ e \in [0..n -> Nat] /\ e[0] = 0 /\ e[n] = Len(t)
        /\ \A k \in 1..n : e[k] = e[k - 1] + Len(seqs[k])
        /\ \A k \in 1..n : \A q \in 1..Len(seqs[k]) : t[e[k - 1] + q] = seqs[k][q]
    BY <1>2, <1>5, Zenon DEF Places
  <1>7. \A k \in 1..n : e[k] = e[k - 1] + 1 /\ t[e[k - 1] + 1] = s[k]
    <2> TAKE k \in 1..n
    <2>1. Len(seqs[k]) = 1 /\ seqs[k][1] = s[k]
      BY <1>3
    <2>2. 1 \in 1..Len(seqs[k])
      BY <2>1
    <2>3. QED
      BY <1>6, <2>1, <2>2
  <1>8. \A k \in 0..n : e[k] = k
    <2> DEFINE Bad == {k \in 0..n : e[k] # k}
    <2> SUFFICES ASSUME Bad # {}
                 PROVE  FALSE
      OBVIOUS
    <2>1. Bad \in SUBSET (0..n)
      OBVIOUS
    <2> HIDE DEF Bad
    <2>2. PICK k \in Bad : \A j \in 0..(k - 1) : j \notin Bad
      BY <1>2, <2>1, FirstFailure
    <2>3. k \in 0..n /\ e[k] # k
      BY DEF Bad
    <2>4. k # 0
      BY <1>6, <2>3
    <2>5. k \in 1..n /\ k - 1 \in 0..(k - 1) /\ k - 1 \in 0..n
      BY <1>2, <2>3, <2>4
    <2>6. e[k - 1] = k - 1
      BY <2>2, <2>5 DEF Bad
    <2>7. e[k] = (k - 1) + 1
      BY <1>7, <2>5, <2>6
    <2>8. QED
      BY <2>3, <2>5, <2>7
  <1>9. Len(t) = n
    BY <1>2, <1>6, <1>8
  <1>10. \A k \in 1..n : t[k] = s[k]
    <2> TAKE k \in 1..n
    <2>1. k - 1 \in 0..n /\ (k - 1) + 1 = k
      BY <1>2
    <2>2. QED
      BY <1>7, <1>8, <2>1
  <1>11. t = s
    <2>1. s \in Seq(T) /\ t \in Seq(T) /\ Len(s) = Len(t)
      BY <1>4, <1>9 DEF n
    <2>2. \A k \in 1..Len(s) : t[k] = s[k]
      BY <1>10 DEF n
    <2>3. QED
      BY <2>1, <2>2
  <1>12. QED
    BY <1>1, <1>11

\* A column of text holds what it is given.
LEMMA InputText ==
    ASSUME NEW cell, Input("text", cell).ok
    PROVE  Input("text", cell).value = IF cell.null THEN NullValue ELSE Text(cell.text)
  <1>1. "text" \notin DOMAIN Bits
    BY DEF Bits
  <1>2. "text" \notin DOMAIN BitStrings
    BY Zenon DEF BitStrings
  <1>3. ~Refused.ok
    BY DEF Refused
  <1>4. "text" # "bytea" /\ "text" # "boolean" /\ "text" \notin {"timestamptz", "timestamp", "date"}
    OBVIOUS
  <1>5. CASE cell.null
    <2>1. Input("text", cell) = [ok |-> TRUE, value |-> NullValue]
      BY <1>5, Zenon DEF Input
    <2>2. QED
      BY <1>5, <2>1
  <1>6. CASE ~cell.null
    <2>1. \/ Input("text", cell) = Refused
          \/ Input("text", cell) = Taken(cell.text)
      BY <1>1, <1>2, <1>4, <1>6, Zenon DEF Input
    <2>2. QED
      BY <1>3, <1>6, <2>1 DEF Taken
  <1>7. QED
    BY <1>5, <1>6

\* A sequence, of whatever it is.
IsSeq(s) == \E S : s \in Seq(S)

Joins(u, s, t) ==
    /\ IsSeq(u) /\ Len(s) \in Nat /\ Len(t) \in Nat /\ Len(u) = Len(s) + Len(t)
    /\ \A i \in 1..Len(s) : u[i] = s[i]
    /\ \A i \in 1..Len(t) : u[Len(s) + i] = t[i]

LEMMA SeqsJoin ==
    ASSUME NEW s, IsSeq(s), NEW t, IsSeq(t)
    PROVE  Joins(s \o t, s, t)
  <1>1. PICK S : s \in Seq(S)
    BY DEF IsSeq
  <1>2. PICK T : t \in Seq(T)
    BY DEF IsSeq
  <1> DEFINE U == S \cup T
  <1>3. s \in Seq(U) /\ t \in Seq(U)
    <2>1. S \subseteq U /\ T \subseteq U
      OBVIOUS
    <2> HIDE DEF U
    <2>2. QED
      BY <1>1, <1>2, <2>1, SeqWidens
  <1> HIDE DEF U
  <1>4. s \o t \in Seq(U)
    BY <1>3
  <1>5. QED
    BY <1>3, <1>4 DEF IsSeq, Joins

LEMMA EmptyIsSeq == IsSeq(<<>>) /\ Len(<<>>) = 0
  <1>1. <<>> \in Seq({})
    OBVIOUS
  <1>2. QED
    BY <1>1 DEF IsSeq

\* The rows that the lines skipped and the header are not.
FirstSeen == IF IsCSV THEN FirstRecord ELSE 0
CellsAt(k) == CellsFor(HandedRow(job.rows[FirstSeen + k]))

\* A row that COPY took, and the columns that it named.
RowFits(cells) ==
    /\ Len(cells) = Len(columns)
    /\ \A i \in 1..Len(columns) : Input(TypeOf(columns[i]), cells[i]).ok
ColumnsFit ==
    /\ {columns[i] : i \in 1..Len(columns)} \subseteq {job.table[i] : i \in 1..Len(job.table)}
    /\ \A i, j \in 1..Len(columns) : i # j => columns[i] # columns[j]

\* The rows of the target are the first rows of the source, in order.
Landed(rows) ==
    /\ IsSeq(rows)
    /\ rows # <<>> => ColumnsFit
    /\ \A k \in 1..Len(rows) :
          rows[k] = TargetRow(CellsAt(k)) /\ RowFits(CellsAt(k)) /\ FirstSeen + k <= Len(job.rows)

LEMMA SameColumns ==
    ASSUME UNCHANGED <<job, columns>>
    PROVE  Landed(target)' <=> Landed(target')
  <1>1. \A k : CellsAt(k)' = CellsAt(k)
    BY DEF CellsAt, FirstSeen, FirstRecord, HandedRow, RowOf, BuildRow, RowSent, ApplyNullIf, IsSQL, IsCSV
  <1>2. \A type : TypeOf(type)' = TypeOf(type)
    BY DEF TypeOf, IsSQL
  <1>3. \A cells : TargetRow(cells)' = TargetRow(cells)
    BY <1>2 DEF TargetRow
  <1>4. \A cells : RowFits(cells)' <=> RowFits(cells)
    BY <1>2 DEF RowFits
  <1>5. ColumnsFit' <=> ColumnsFit
    BY DEF ColumnsFit
  <1>6. FirstSeen' = FirstSeen
    BY DEF FirstSeen, FirstRecord, IsCSV
  <1>7. QED
    BY <1>1, <1>3, <1>4, <1>5, <1>6 DEF Landed

\* The offset of the first row that COPY gets.
LEMMA FirstIsNat ==
    ASSUME JobsAssumption, job \in Jobs
    PROVE  FirstSeen \in Nat /\ (IsCSV => job.skip \in Nat)
  BY DEF JobsAssumption, FirstSeen, FirstRecord, IsCSV

\* COPY adds the rows whose lines it is given.
LEMMA FlushLands ==
    ASSUME NumeralsAssumption, JobsAssumption, job \in Jobs, UNCHANGED <<job, columns>>, Landed(target),
           NEW n \in Nat, NEW lines, FirstSeen + Len(target) \in Nat, FirstSeen + Len(target) + n <= Len(job.rows),
           lines = [i \in 1..n |-> LineAt(FirstSeen + Len(target) + i)], Flush(lines)
    PROVE  Landed(target)' /\ Len(target') = Len(target) + n /\ batch' = <<>>
  <1> DEFINE m == Len(target)
             a == FirstSeen + m
             read1 == ReadStream(FlattenSeq(lines))
             new == [r \in 1..Len(read1) |-> TargetRow(read1[r])]
  <1>1. CopyTaken(read1) /\ target' = target \o new /\ batch' = <<>>
    BY DEF Flush
  <1>2. read1 = [i \in 1..n |-> CellsFor(HandedRow(job.rows[a + i]))]
    <2> HIDE DEF read1, m
    <2>1. a \in Nat /\ a + n <= Len(job.rows) /\ lines = [i \in 1..n |-> LineAt(a + i)]
      BY DEF m
    <2> HIDE DEF a
    <2>2. QED
      BY <2>1, LinesRead DEF read1
  <1> HIDE DEF read1
  <1>3. Len(read1) = n /\ \A i \in 1..n : read1[i] = CellsFor(HandedRow(job.rows[a + i]))
    BY <1>2
  <1>4. new = [r \in 1..n |-> TargetRow(read1[r])]
    BY <1>3
  <1>5. IsSeq(new) /\ Len(new) = n /\ \A i \in 1..n : new[i] = TargetRow(read1[i])
    <2>1. new \in Seq({TargetRow(read1[r]) : r \in 1..n}) /\ Len(new) = n /\ \A i \in 1..n : new[i] = TargetRow(read1[i])
      BY <1>4
    <2>2. QED
      BY <2>1 DEF IsSeq
  <1> HIDE DEF new
  <1>6. IsSeq(target) /\ \A k \in 1..m : target[k] = TargetRow(CellsAt(k)) /\ RowFits(CellsAt(k)) /\ FirstSeen + k <= Len(job.rows)
    BY DEF Landed
  <1>7. /\ IsSeq(target') /\ m \in Nat /\ Len(target') = m + n
        /\ \A i \in 1..m : target'[i] = target[i]
        /\ \A i \in 1..n : target'[m + i] = new[i]
    <2>0. IsSeq(target) /\ IsSeq(new)
      BY <1>5, <1>6
    <2>1. Joins(target \o new, target, new)
      BY <2>0, SeqsJoin, Zenon
    <2>2. Joins(target', target, new)
      BY <1>1, <2>1
    <2>3. QED
      BY <1>5, <2>2 DEF Joins
  <1>8. ASSUME NEW i \in 1..n
        PROVE  CellsAt(m + i) = read1[i]
    <2>1. FirstSeen + (m + i) = a + i
      <3>1. FirstSeen \in Int
        <4>1. job.source = "csv" => job.skip \in Nat
          BY DEF JobsAssumption
        <4>2. QED
          BY <4>1 DEF FirstSeen, FirstRecord, IsCSV
      <3> HIDE DEF m
      <3>2. QED
        BY <1>7, <3>1
    <2>2. QED
      BY <1>3, <2>1 DEF CellsAt
  <1>9. ColumnsFit /\ \A i \in 1..n : RowFits(read1[i])
    BY <1>1, <1>3 DEF CopyTaken, ColumnsFit, RowFits
  <1>10. ASSUME NEW k \in 1..(m + n)
         PROVE  target'[k] = TargetRow(CellsAt(k)) /\ RowFits(CellsAt(k)) /\ FirstSeen + k <= Len(job.rows)
    <2> HIDE DEF m, a
    <2>1. CASE k \in 1..m
      BY <1>6, <1>7, <2>1
    <2>2. CASE k \notin 1..m
      <3> DEFINE i == k - m
      <3>1. i \in 1..n /\ k = m + i
        BY <1>7, <2>2
      <3> HIDE DEF i
      <3>2. CellsAt(k) = read1[i] /\ target'[k] = new[i]
        BY <1>7, <1>8, <3>1
      <3>3. target'[k] = TargetRow(CellsAt(k)) /\ RowFits(CellsAt(k))
        BY <1>5, <1>9, <3>1, <3>2
      <3>4. FirstSeen + k <= Len(job.rows)
        <4> DEFINE l == Len(job.rows)
        <4>1. l \in Nat /\ FirstSeen \in Nat /\ FirstSeen + m + n <= l
          BY FirstIsNat DEF JobsAssumption, m
        <4> HIDE DEF l
        <4>2. FirstSeen + k <= l
          BY <1>7, <4>1
        <4>3. QED
          BY <4>2 DEF l
      <3>5. QED
        BY <3>3, <3>4
    <2>3. QED
      BY <2>1, <2>2
  <1>11. Landed(target')
    BY <1>7, <1>9, <1>10 DEF Landed
  <1>12. QED
    BY <1>1, <1>7, <1>11, SameColumns

\* The columns that COPY should name.
Wanted == IF IsCSV THEN Names ELSE job.table

\* How far MapRows is, and what of it has landed.
Counted ==
    /\ result = "ok" => reader = "done" /\ batch = <<>>
    /\ reader = "start" => seen = 0 /\ closed = ""
    /\ reader = "skip" => IsCSV /\ seen <= job.skip
    /\ reader \in {"header", "first"} => IsCSV /\ seen = job.skip
    /\ reader = "header" => job.header
    /\ reader = "first" => ~job.header
    /\ reader \in {"rows", "mapped"} \/ result = "ok" => seen = FirstSeen + Len(target) + Len(batch)
    /\ reader = "mapped" \/ result = "ok" => seen = Len(job.rows)
    /\ closed = "EOF" => copier = "ended" /\ sent = Len(job.rows)
    /\ reader \in {"start", "skip", "header", "first"} => target = <<>>

\* The columns are settled when the first row is handed over.
Named ==
    /\ reader \in {"skip", "header", "first"} => columns = job.names
    /\ reader = "first" => columns = <<>>
    /\ reader = "rows" \/ target # <<>> \/ (reader = "mapped" /\ batch # <<>>) => columns = Wanted

ArriveInv == Landed(target) /\ Counted /\ Named

LEMMA SameSource ==
    ASSUME UNCHANGED job
    PROVE  FirstSeen' = FirstSeen /\ Wanted' = Wanted /\ (IsCSV' <=> IsCSV)
  BY DEF FirstSeen, FirstRecord, Wanted, Names, IsCSV

\* Rows that have landed stay where they are.
LEMMA LandedRests ==
    ASSUME UNCHANGED <<job, target>>, Landed(target), UNCHANGED columns \/ target = <<>>
    PROVE  Landed(target)'
  <1>1. CASE UNCHANGED columns
    <2>1. Landed(target')
      BY Zenon
    <2>2. QED
      BY <1>1, <2>1, SameColumns
  <1>2. CASE target = <<>>
    <2>1. target' = <<>>
      BY <1>2
    <2>2. IsSeq(target') /\ Len(target') = 0
      BY <2>1, EmptyIsSeq
    <2>3. QED
      BY <2>1, <2>2 DEF Landed
  <1>3. QED
    BY <1>1, <1>2

\* An error loses no row that has landed.
LEMMA FailArrives ==
    ASSUME ArriveInv, NEW close \in {TRUE, FALSE}, Fail(close), UNCHANGED <<job, target, columns, copier, sent>>
    PROVE  ArriveInv'
  <1>1. reader' = "done" /\ result' = "error" /\ (closed' = "EOF" => closed = "EOF")
    BY DEF Fail
  <1>2. Landed(target)'
    BY LandedRests DEF ArriveInv
  <1>3. Counted'
    BY <1>1 DEF ArriveInv, Counted
  <1>4. Named'
    BY <1>1, SameSource DEF ArriveInv, Named
  <1>5. QED
    BY <1>2, <1>3, <1>4 DEF ArriveInv

\* A row that MapRows hands over is in the batch or has landed.
LEMMA RowArrives ==
    ASSUME NumeralsAssumption, JobsAssumption, FramedInv, ArriveInv, UNCHANGED <<job, columns, copier, sent>>,
           seen' = seen + 1, seen < Len(job.rows), reader = "rows", ProcessRow(LineAt(seen + 1))
    PROVE  ArriveInv'
  <1> DEFINE n == Len(batch)
             m == Len(target)
             line == LineAt(seen + 1)
             lines == Append(batch, line)
  <1>1. /\ job \in Jobs /\ Len(job.rows) \in Nat /\ seen \in Nat /\ result # "error" /\ result # "ok"
        /\ batch \in Seq(Seq(Symbols)) /\ \A i \in 1..n : batch[i] = LineAt(seen - n + i)
    <2>1. job \in Jobs
      BY DEF FramedInv
    <2>2. Len(job.rows) \in Nat
      BY <2>1 DEF JobsAssumption
    <2>3. result # "error" /\ batch \in Seq(Seq(Symbols)) /\ \A i \in 1..n : batch[i] = LineAt(seen - n + i)
      BY DEF FramedInv, Batched
    <2>4. result # "ok"
      BY DEF ArriveInv, Counted
    <2>5. QED
      BY <2>1, <2>2, <2>3, <2>4 DEF FramedInv
  <1>2. n \in Nat /\ m \in Nat /\ FirstSeen \in Nat /\ seen = FirstSeen + m + n /\ columns = Wanted /\ Landed(target)
    <2>1. n \in Nat
      BY <1>1
    <2>2. m \in Nat
      BY DEF ArriveInv, Landed, IsSeq
    <2>3. QED
      BY <1>1, <2>1, <2>2, FirstIsNat DEF ArriveInv, Counted, Named
  <1>3. CASE Fail(TRUE) /\ UNCHANGED target
    BY <1>3, FailArrives
  <1>4. CASE UNCHANGED <<reader, result, closed, target>> /\ batch' = lines
    <2>1. line \in Seq(Symbols)
      <3>1. seen + 1 \in 1..Len(job.rows)
        BY <1>1
      <3>2. QED
        BY <1>1, <3>1, HandedIsLine DEF LineAt, IsLine
    <2>2. Len(batch') = n + 1
      <3> HIDE DEF line
      <3>1. QED
        BY <1>1, <1>4, <2>1
    <2>3. seen' = FirstSeen' + Len(target') + Len(batch')
      <3>1. FirstSeen' = FirstSeen /\ Len(target') = m
        BY <1>4, SameSource
      <3> HIDE DEF n, m
      <3>2. QED
        BY <1>2, <2>2, <3>1
    <2>4. Counted'
      BY <1>1, <1>4, <2>3 DEF ArriveInv, Counted
    <2>5. Named'
      BY <1>2, <1>4, SameSource DEF Named
    <2>6. Landed(target)'
      BY <1>2, <1>4, LandedRests
    <2>7. QED
      BY <2>4, <2>5, <2>6 DEF ArriveInv
  <1>5. CASE UNCHANGED <<reader, result, closed>> /\ Flush(lines)
    <2>1. lines = [i \in 1..(n + 1) |-> LineAt(FirstSeen + m + i)]
      <3>1. line \in Seq(Symbols)
        <4>1. seen + 1 \in 1..Len(job.rows)
          BY <1>1
        <4>2. QED
          BY <1>1, <4>1, HandedIsLine DEF LineAt, IsLine
      <3>2. \A s \in Seq(Seq(Symbols)) : \A x \in Seq(Symbols) :
                /\ Append(s, x) \in Seq(Seq(Symbols)) /\ Len(Append(s, x)) = Len(s) + 1
                /\ Append(s, x)[Len(s) + 1] = x /\ \A i \in 1..Len(s) : Append(s, x)[i] = s[i]
        OBVIOUS
      <3> HIDE DEF line
      <3>3. /\ lines \in Seq(Seq(Symbols)) /\ Len(lines) = n + 1
            /\ lines[n + 1] = line /\ \A i \in 1..n : lines[i] = batch[i]
        BY <1>1, <3>1, <3>2, Zenon
      <3> HIDE DEF lines, n, m
      <3>4. ASSUME NEW i \in 1..(n + 1)
            PROVE  lines[i] = LineAt(FirstSeen + m + i)
        <4>1. CASE i = n + 1
          <5>1. FirstSeen + m + i = seen + 1
            BY <1>2, <4>1
          <5>2. QED
            BY <3>3, <4>1, <5>1, Zenon DEF line
        <4>2. CASE i # n + 1
          <5>1. i \in 1..n /\ FirstSeen + m + i = seen - n + i
            BY <1>2, <4>2
          <5>2. QED
            BY <1>1, <3>3, <5>1, Zenon
        <4>3. QED
          BY <4>1, <4>2
      <3>5. QED
        BY <3>3, <3>4
    <2>2. FirstSeen + m \in Nat /\ n + 1 \in Nat /\ FirstSeen + m + (n + 1) <= Len(job.rows)
      <3> HIDE DEF n, m
      <3>1. QED
        BY <1>1, <1>2
    <2> HIDE DEF lines
    <2>3. Landed(target)' /\ Len(target') = m + (n + 1) /\ batch' = <<>>
      <3> DEFINE l == n + 1
      <3>1. l \in Nat /\ FirstSeen + m + l <= Len(job.rows) /\ lines = [i \in 1..l |-> LineAt(FirstSeen + m + i)]
        BY <2>1, <2>2
      <3> HIDE DEF l
      <3>2. Landed(target)' /\ Len(target') = m + l /\ batch' = <<>>
        BY <1>1, <1>2, <1>5, <2>2, <3>1, FlushLands
      <3>3. QED
        BY <3>2 DEF l
    <2>4. seen' = FirstSeen' + Len(target') + Len(batch')
      <3>1. FirstSeen' = FirstSeen /\ Len(batch') = 0
        BY <2>3, SameSource
      <3> HIDE DEF n, m
      <3>2. QED
        BY <1>2, <2>3, <3>1
    <2>5. Counted'
      BY <1>1, <1>5, <2>4 DEF ArriveInv, Counted
    <2>6. Named'
      BY <1>2, <1>5, SameSource DEF Named
    <2>7. QED
      BY <2>3, <2>5, <2>6 DEF ArriveInv
  <1>6. QED
    BY <1>3, <1>4, <1>5 DEF ProcessRow

LEMMA CopierKeepsArriveInv ==
    ASSUME FramedInv, ArriveInv, Copier
    PROVE  ArriveInv'
  <1>1. UNCHANGED <<job, reader, seen, batch, target, result, columns>>
    BY DEF Copier, CopierWrites, CopierUnblocks, CopierEnds
  <1>2. reader # "start" /\ copier # "ended"
    BY DEF Copier, CopierWrites, CopierUnblocks, CopierEnds, FramedInv, InFlight
  <1>3. closed # "EOF"
    BY <1>2 DEF ArriveInv, Counted
  <1>4. closed' = "EOF" => copier' = "ended" /\ sent' = Len(job.rows)
    BY <1>3 DEF Copier, CopierWrites, CopierUnblocks, CopierEnds
  <1>5. FirstSeen' = FirstSeen /\ Wanted' = Wanted /\ (IsCSV' <=> IsCSV)
    BY <1>1, SameSource
  <1>6. Counted'
    BY <1>1, <1>2, <1>4, <1>5 DEF ArriveInv, Counted
  <1>7. Named'
    BY <1>1, <1>5 DEF ArriveInv, Named
  <1>8. Landed(target)'
    BY <1>1, LandedRests DEF ArriveInv
  <1>9. QED
    BY <1>6, <1>7, <1>8 DEF ArriveInv

\* Steps of MapRows that hand over a row.
LEMMA RowsKeepArriveInv ==
    ASSUME NumeralsAssumption, JobsAssumption, FramedInv, ArriveInv, NextRow \/ ReadRecord \/ ScannerLine
    PROVE  ArriveInv'
  <1>0. Len(job.rows) \in Nat /\ seen \in 0..Len(job.rows) /\ job \in Jobs
    <2>1. job \in Jobs
      BY DEF FramedInv
    <2>2. Len(job.rows) \in Nat
      BY <2>1 DEF JobsAssumption
    <2>3. QED
      BY <2>2 DEF FramedInv
  <1>1. CASE NextRow
    <2>1. /\ UNCHANGED <<job, columns, copier, sent>> /\ seen' = seen + 1 /\ seen < Len(job.rows) /\ reader = "rows"
          /\ ProcessRow(LineAt(seen + 1))
      BY <1>1 DEF NextRow, LineAt, HandedRow
    <2>2. QED
      BY <2>1, RowArrives
  <1>2. CASE ReadRecord
    <2>1. /\ UNCHANGED <<job, columns, copier, sent>> /\ seen' = seen + 1 /\ seen < Len(job.rows) /\ reader = "rows"
      BY <1>2 DEF ReadRecord, TakeRecord, Readable
    <2>2. IsCSV /\ ~IsSQL
      BY <1>2 DEF ReadRecord, IsCSV, IsSQL, SQL
    <2>3. ProcessRow(LineAt(seen + 1))
      BY <1>2, <2>2 DEF ReadRecord, Record, LineAt, HandedRow
    <2>4. QED
      BY <2>1, <2>3, RowArrives
  <1>3. CASE ScannerLine
    <2>1. /\ UNCHANGED <<job, columns, copier, sent, pipe>> /\ reader = "rows" /\ buf # <<>>
      BY <1>3 DEF ScannerLine
    <2>2. CASE Fail(FALSE) /\ UNCHANGED <<seen, batch, target, buf>>
      BY <2>1, <2>2, FailArrives
    <2>3. CASE seen' = seen + 1 /\ buf' = SubSeq(buf, LineEnd + 1, Len(buf)) /\ ProcessRow(Append(Line, "NL"))
      <3>1. /\ buf = LineAt(seen + 1) /\ sent \in 0..Len(job.rows)
            /\ sent = seen + (IF pipe = <<>> THEN 0 ELSE 1) + (IF buf = <<>> THEN 0 ELSE 1)
        BY <2>1 DEF FramedInv, InFlight
      <3>2. seen + 1 \in 1..Len(job.rows) /\ seen < Len(job.rows)
        BY <1>0, <2>1, <3>1
      <3>3. IsLine(buf)
        BY <1>0, <3>1, <3>2, HandedIsLine DEF LineAt
      <3>4. ProcessRow(LineAt(seen + 1))
        BY <2>3, <3>1, <3>3, LineScanned
      <3>5. QED
        BY <2>1, <2>3, <3>2, <3>4, RowArrives
    <2>4. QED
      BY <1>3, <2>2, <2>3 DEF ScannerLine
  <1>4. QED
    BY <1>1, <1>2, <1>3

\* The start of a load: nothing has landed, and the offset of the first row is
\* reached when the first row is handed over.
LEMMA StartKeepsArriveInv ==
    ASSUME NumeralsAssumption, JobsAssumption, FramedInv, ArriveInv,
           Query \/ StartCopier \/ OpenFile \/ SkipLine \/ SkipEnds \/ ReadHeader \/ ReadFirst
    PROVE  ArriveInv'
  <1>0. FirstSeen \in Nat /\ (IsCSV => job.skip \in Nat) /\ seen \in Nat /\ Len(job.rows) \in Nat
    <2>1. job \in Jobs /\ seen \in 0..Len(job.rows)
      BY DEF FramedInv
    <2>2. FirstSeen \in Nat /\ (IsCSV => job.skip \in Nat)
      BY <2>1, FirstIsNat
    <2>3. Len(job.rows) \in Nat
      BY <2>1 DEF JobsAssumption
    <2>4. QED
      BY <2>1, <2>2, <2>3
  <1>1. /\ UNCHANGED <<job, batch, target, result, closed, copier, sent>> \/ StartCopier
        /\ UNCHANGED <<job, batch, target, result, closed, sent>>
        /\ reader \in {"start", "skip", "header", "first"}
    BY DEF Query, StartCopier, OpenFile, SkipLine, SkipEnds, ReadHeader, ReadFirst, copierVars
  <1>2. /\ batch = <<>> /\ target = <<>> /\ result # "ok" /\ Len(batch) = 0 /\ Len(target) = 0
        /\ (reader = "start" => closed = "")
        /\ (closed = "EOF" => copier = "ended" /\ sent = Len(job.rows))
    <2>1. batch = <<>> /\ target = <<>>
      BY <1>1 DEF FramedInv, Batched, ArriveInv, Counted
    <2>2. QED
      BY <1>1, <2>1 DEF ArriveInv, Counted
  <1>3. FirstSeen' = FirstSeen /\ Wanted' = Wanted /\ (IsCSV' <=> IsCSV)
    BY <1>1, SameSource
  <1>4. Landed(target)'
    BY <1>1, <1>2, LandedRests DEF ArriveInv
  <1>5. closed' = "EOF" => copier' = "ended" /\ sent' = Len(job.rows)
    BY <1>1, <1>2 DEF StartCopier
  <1>6. CASE Query \/ StartCopier
    <2>1. ~IsCSV /\ reader = "start" /\ reader' = "rows" /\ columns' = job.table /\ seen' = seen
      BY <1>6 DEF Query, StartCopier, IsSQL, SQL, IsCSV
    <2>2. FirstSeen = 0 /\ Wanted = job.table /\ seen = 0
      BY <2>1 DEF FirstSeen, Wanted, ArriveInv, Counted
    <2>3. seen' = FirstSeen' + Len(target') + Len(batch')
      <3>1. Len(target') = 0 /\ Len(batch') = 0
        BY <1>1, <1>2
      <3>2. QED
        BY <1>3, <2>1, <2>2, <3>1
    <2>4. Counted'
      BY <1>1, <1>2, <1>5, <2>1, <2>3 DEF Counted
    <2>5. Named'
      BY <1>3, <2>1, <2>2 DEF Named
    <2>6. QED
      BY <1>4, <2>4, <2>5 DEF ArriveInv
  <1>7. CASE OpenFile
    <2>1. IsCSV /\ reader = "start" /\ reader' = "skip" /\ columns' = job.names /\ seen' = seen
      BY <1>7 DEF OpenFile
    <2>2. seen' <= job.skip
      <3>1. seen = 0
        BY <2>1, Zenon DEF ArriveInv, Counted
      <3>2. QED
        BY <1>0, <2>1, <3>1
    <2>3. Counted'
      BY <1>1, <1>2, <1>3, <1>5, <2>1, <2>2 DEF Counted
    <2>4. Named'
      BY <1>1, <1>2, <2>1 DEF Named
    <2>5. QED
      BY <1>4, <2>3, <2>4 DEF ArriveInv
  <1>8. CASE SkipLine
    <2>1. IsCSV /\ seen < job.skip /\ reader = "skip" /\ reader' = reader /\ columns' = columns /\ seen' = seen + 1
      BY <1>8 DEF SkipLine, TakeRecord, ArriveInv, Counted
    <2>2. seen' <= job.skip
      BY <1>0, <2>1
    <2>3. Counted'
      BY <1>1, <1>2, <1>3, <1>5, <2>1, <2>2 DEF Counted
    <2>4. Named'
      BY <1>1, <1>2, <2>1 DEF Named, ArriveInv
    <2>5. QED
      BY <1>4, <2>3, <2>4 DEF ArriveInv
  <1>9. CASE SkipEnds
    <2>1. IsCSV /\ seen = job.skip /\ reader = "skip" /\ columns' = columns /\ seen' = seen /\ columns = job.names
      BY <1>9 DEF SkipEnds, ArriveInv, Counted, Named
    <2>2. CASE job.header /\ reader' = "header"
      <3>1. Counted'
        BY <1>1, <1>2, <1>3, <1>5, <2>1, <2>2 DEF Counted
      <3>2. Named'
        BY <1>1, <1>2, <2>1, <2>2 DEF Named
      <3>3. QED
        BY <1>4, <3>1, <3>2 DEF ArriveInv
    <2>3. CASE ~job.header /\ columns = <<>> /\ reader' = "first"
      <3>1. Counted'
        BY <1>1, <1>2, <1>3, <1>5, <2>1, <2>3 DEF Counted
      <3>2. Named'
        BY <1>1, <1>2, <2>1, <2>3 DEF Named
      <3>3. QED
        BY <1>4, <3>1, <3>2 DEF ArriveInv
    <2>4. CASE ~job.header /\ columns # <<>> /\ reader' = "rows"
      <3>1. FirstSeen = job.skip /\ Wanted = job.names
        BY <1>0, <2>1, <2>4 DEF FirstSeen, FirstRecord, Wanted, Names
      <3>2. seen' = FirstSeen' + Len(target') + Len(batch')
        BY <1>0, <1>1, <1>2, <1>3, <2>1, <3>1
      <3>3. Counted'
        BY <1>1, <1>2, <1>5, <2>4, <3>2 DEF Counted
      <3>4. Named'
        BY <1>3, <2>1, <2>4, <3>1 DEF Named
      <3>5. QED
        BY <1>4, <3>3, <3>4 DEF ArriveInv
    <2>5. QED
      BY <1>9, <2>2, <2>3, <2>4 DEF SkipEnds
  <1>10. CASE ReadHeader
    <2> DEFINE NamesFrom(record) == [i \in 1..Len(record) |-> NameIn(record[i])]
    <2>1. /\ IsCSV /\ seen = job.skip /\ job.header /\ reader = "header" /\ reader' = "rows" /\ seen' = seen + 1
          /\ columns = job.names /\ columns' = IF columns = <<>> THEN NamesFrom(job.rows[seen + 1]) ELSE columns
      BY <1>10 DEF ReadHeader, TakeRecord, Record, ArriveInv, Counted, Named
    <2>2. FirstRecord = seen + 1 /\ FirstSeen = seen + 1
      BY <1>0, <2>1 DEF FirstRecord, FirstSeen
    <2>3. Wanted = IF job.names # <<>> THEN job.names ELSE NamesFrom(job.rows[FirstRecord])
      BY <2>1, Zenon DEF Wanted, Names
    <2> HIDE DEF NamesFrom
    <2>4. columns' = Wanted
      BY <2>1, <2>2, <2>3
    <2>5. seen' = FirstSeen' + Len(target') + Len(batch')
      BY <1>0, <1>1, <1>2, <1>3, <2>1, <2>2
    <2>6. Counted'
      BY <1>1, <1>2, <1>5, <2>1, <2>5 DEF Counted
    <2>7. Named'
      BY <1>3, <2>1, <2>4 DEF Named
    <2>8. QED
      BY <1>4, <2>6, <2>7 DEF ArriveInv
  <1>11. CASE ReadFirst
    <2> DEFINE NamesFrom(record) == [i \in 1..Len(record) |-> "col_" \o ToString(i)]
    <2>1. /\ IsCSV /\ seen = job.skip /\ ~job.header /\ reader = "first" /\ reader' = "rows" /\ seen' = seen
          /\ job.names = <<>> /\ columns' = NamesFrom(job.rows[seen + 1])
      BY <1>11, Zenon DEF ReadFirst, Record, ArriveInv, Counted, Named
    <2>2. FirstRecord = seen /\ FirstSeen = seen
      BY <1>0, <2>1 DEF FirstRecord, FirstSeen
    <2>3. Wanted = NamesFrom(job.rows[FirstRecord + 1])
      BY <2>1, Zenon DEF Wanted, Names
    <2> HIDE DEF NamesFrom
    <2>4. columns' = Wanted
      BY <2>1, <2>2, <2>3
    <2>5. seen' = FirstSeen' + Len(target') + Len(batch')
      BY <1>0, <1>1, <1>2, <1>3, <2>1, <2>2
    <2>6. Counted'
      BY <1>1, <1>2, <1>5, <2>1, <2>5 DEF Counted
    <2>7. Named'
      BY <1>3, <2>1, <2>4 DEF Named
    <2>8. QED
      BY <1>4, <2>6, <2>7 DEF ArriveInv
  <1>12. QED
    BY <1>6, <1>7, <1>8, <1>9, <1>10, <1>11

\* The end of the rows: all of them are in the batch or have landed, for the
\* pipe ends only after the last row.
LEMMA EndKeepsArriveInv ==
    ASSUME NumeralsAssumption, JobsAssumption, FramedInv, ArriveInv,
           \/ RowsEnd \/ QueryFails \/ AcquireSourceFails \/ OpenFileFails \/ ScannerReads \/ Cancelled \/ ScannerEnds \/ FileEnds \/ ReadFails
    PROVE  ArriveInv'
  <1>0. FirstSeen \in Nat /\ seen \in Nat /\ Len(job.rows) \in Nat
    <2>1. job \in Jobs /\ seen \in 0..Len(job.rows)
      BY DEF FramedInv
    <2>2. FirstSeen \in Nat
      BY <2>1, FirstIsNat
    <2>3. Len(job.rows) \in Nat
      BY <2>1 DEF JobsAssumption
    <2>4. QED
      BY <2>1, <2>2, <2>3
  <1>1. UNCHANGED <<job, seen, batch, target, columns, copier, sent>>
    BY DEF RowsEnd, QueryFails, AcquireSourceFails, OpenFileFails, ScannerReads, Cancelled, ScannerEnds, FileEnds, ReadFails, copierVars
  <1>2. CASE Fail(TRUE) \/ Fail(FALSE)
    BY <1>1, <1>2, FailArrives
  <1>3. FirstSeen' = FirstSeen /\ Wanted' = Wanted /\ (IsCSV' <=> IsCSV)
    BY <1>1, SameSource
  <1>4. Landed(target)'
    BY <1>1, LandedRests DEF ArriveInv
  <1>5. ASSUME reader' = "mapped", UNCHANGED <<result, closed>>, reader \in {"rows", "first"}, seen = Len(job.rows)
        PROVE  ArriveInv'
    <2>1. seen = FirstSeen + Len(target) + Len(batch)
      <3>1. CASE reader = "rows"
        BY <3>1 DEF ArriveInv, Counted
      <3>2. CASE reader = "first"
        <4>1. target = <<>> /\ batch = <<>>
          BY <3>2 DEF ArriveInv, Counted, FramedInv, Batched
        <4>2. IsCSV /\ seen = job.skip /\ ~job.header
          BY <3>2, Zenon DEF ArriveInv, Counted
        <4>3. Len(target) = 0 /\ Len(batch) = 0
          BY <4>1
        <4>4. FirstSeen = seen
          BY <1>0, <4>2 DEF FirstSeen, FirstRecord
        <4>5. QED
          BY <1>0, <4>3, <4>4
      <3>3. QED
        BY <1>5, <3>1, <3>2
    <2>2. result # "ok" /\ (closed = "EOF" => copier = "ended" /\ sent = Len(job.rows))
      BY <1>5 DEF ArriveInv, Counted
    <2>3. Counted'
      BY <1>1, <1>3, <1>5, <2>1, <2>2 DEF Counted
    <2>4. target # <<>> \/ batch # <<>> => columns = Wanted
      BY <1>5 DEF ArriveInv, Counted, Named, FramedInv, Batched
    <2>5. Named'
      BY <1>1, <1>3, <1>5, <2>4 DEF Named
    <2>6. QED
      BY <1>4, <2>3, <2>5 DEF ArriveInv
  <1>6. CASE RowsEnd
    BY <1>1, <1>5, <1>6 DEF RowsEnd, copierVars
  <1>7. CASE FileEnds
    BY <1>2, <1>5, <1>7 DEF FileEnds
  <1>8. CASE ScannerEnds
    <2>1. CASE Fail(FALSE)
      BY <1>2, <2>1
    <2>2. CASE closed = "EOF" /\ reader' = "mapped" /\ UNCHANGED <<result, closed>>
      <3>1. reader = "rows" /\ job.source = "pgsql" /\ buf = <<>> /\ pipe = <<>>
        BY <1>8 DEF ScannerEnds
      <3>2. sent = seen + (IF pipe = <<>> THEN 0 ELSE 1) + (IF buf = <<>> THEN 0 ELSE 1)
        BY <3>1 DEF FramedInv, InFlight
      <3>3. sent = Len(job.rows)
        BY <2>2 DEF ArriveInv, Counted
      <3>4. seen = Len(job.rows)
        BY <1>0, <3>1, <3>2, <3>3
      <3>5. QED
        BY <1>5, <2>2, <3>1, <3>4
    <2>3. QED
      BY <1>8, <2>1, <2>2 DEF ScannerEnds
  <1>9. CASE ScannerReads
    <2>1. UNCHANGED <<reader, result, closed>>
      BY <1>9 DEF ScannerReads
    <2>2. Counted'
      BY <1>1, <1>3, <2>1 DEF ArriveInv, Counted
    <2>3. Named'
      BY <1>1, <1>3, <2>1 DEF ArriveInv, Named
    <2>4. QED
      BY <1>4, <2>2, <2>3 DEF ArriveInv
  <1>10. CASE QueryFails \/ AcquireSourceFails \/ OpenFileFails \/ Cancelled \/ ReadFails
    BY <1>2, <1>10 DEF QueryFails, AcquireSourceFails, OpenFileFails, Cancelled, ReadFails
  <1>11. QED
    BY <1>6, <1>7, <1>8, <1>9, <1>10

\* The rows that do not fill a batch land too, or the load fails.
LEMMA FinalKeepsArriveInv ==
    ASSUME NumeralsAssumption, JobsAssumption, FramedInv, ArriveInv, FlushFinal
    PROVE  ArriveInv'
  <1> DEFINE n == Len(batch)
             m == Len(target)
  <1>1. /\ UNCHANGED <<job, seen, columns, copier, sent, closed>> /\ reader = "mapped" /\ reader' = "done"
        /\ \/ result' = "error" /\ batch # <<>> /\ UNCHANGED <<batch, target>>
           \/ result' = "ok" /\ batch = <<>> /\ UNCHANGED <<batch, target>>
           \/ result' = "ok" /\ batch # <<>> /\ Flush(batch)
    BY DEF FlushFinal, copierVars
  <1>2. FirstSeen' = FirstSeen /\ Wanted' = Wanted /\ (IsCSV' <=> IsCSV)
    BY <1>1, SameSource
  <1>3. /\ seen = FirstSeen + m + n /\ seen = Len(job.rows) /\ Landed(target)
        /\ (closed = "EOF" => copier = "ended" /\ sent = Len(job.rows))
        /\ (target # <<>> \/ batch # <<>> => columns = Wanted)
    BY <1>1 DEF ArriveInv, Counted, Named
  <1>4. CASE UNCHANGED <<batch, target>> /\ (result' = "error" \/ (result' = "ok" /\ batch = <<>>))
    <2>1. Landed(target)'
      BY <1>1, <1>3, <1>4, LandedRests
    <2>2. Counted'
      BY <1>1, <1>2, <1>3, <1>4 DEF Counted
    <2>3. Named'
      BY <1>1, <1>2, <1>3, <1>4 DEF Named
    <2>4. QED
      BY <2>1, <2>2, <2>3 DEF ArriveInv
  <1>5. CASE result' = "ok" /\ batch # <<>> /\ Flush(batch)
    <2>1. /\ job \in Jobs /\ FirstSeen \in Nat /\ Len(job.rows) \in Nat /\ batch \in Seq(Seq(Symbols)) /\ n \in Nat /\ m \in Nat
          /\ \A i \in 1..n : batch[i] = LineAt(seen - n + i)
      <3>1. job \in Jobs
        BY DEF FramedInv
      <3>2. FirstSeen \in Nat /\ Len(job.rows) \in Nat
        BY <3>1, FirstIsNat DEF JobsAssumption
      <3>3. batch \in Seq(Seq(Symbols)) /\ \A i \in 1..n : batch[i] = LineAt(seen - n + i)
        BY <1>1 DEF FramedInv, Batched
      <3>4. n \in Nat
        BY <3>3
      <3>5. m \in Nat
        BY <1>3 DEF Landed, IsSeq
      <3>6. QED
        BY <3>1, <3>2, <3>3, <3>4, <3>5
    <2>2. batch = [i \in 1..n |-> LineAt(FirstSeen + m + i)]
      <3>1. batch = [i \in 1..n |-> batch[i]]
        BY <2>1
      <3> HIDE DEF n, m
      <3>2. \A i \in 1..n : seen - n + i = FirstSeen + m + i
        BY <1>3, <2>1
      <3>3. \A i \in 1..n : batch[i] = LineAt(FirstSeen + m + i)
        BY <2>1, <3>2
      <3>4. QED
        BY <3>1, <3>3
    <2>3. FirstSeen + m \in Nat /\ FirstSeen + m + n <= Len(job.rows)
      <3> HIDE DEF n, m
      <3>1. QED
        BY <1>3, <2>1
    <2>4. Landed(target)' /\ Len(target') = m + n /\ batch' = <<>>
      <3> HIDE DEF n
      <3>1. QED
        BY <1>1, <1>3, <1>5, <2>1, <2>2, <2>3, FlushLands
    <2>5. seen' = FirstSeen' + Len(target') + Len(batch')
      <3>1. Len(batch') = 0
        BY <2>4
      <3> HIDE DEF n, m
      <3>2. QED
        BY <1>1, <1>2, <1>3, <2>1, <2>4, <3>1
    <2>6. Counted'
      BY <1>1, <1>3, <1>5, <2>4, <2>5 DEF Counted
    <2>7. Named'
      BY <1>1, <1>2, <1>3, <1>5, <2>4 DEF Named
    <2>8. QED
      BY <2>4, <2>6, <2>7 DEF ArriveInv
  <1>6. QED
    BY <1>1, <1>4, <1>5

\* What a column of a row that has landed holds.
LEMMA LandedCell ==
    ASSUME Landed(target), ~IsSQL, NEW k \in 1..Len(target), NEW j \in 1..Len(job.table)
    PROVE  LET name == job.table[j]
               i == CHOOSE i \in 1..Len(columns) : columns[i] = name
               cell == CellsAt(k)[i] IN
           target[k][name] = IF \E l \in 1..Len(columns) : columns[l] = name
                             THEN IF cell.null THEN NullValue ELSE Text(cell.text)
                             ELSE NullValue
  <1> DEFINE name == job.table[j]
             P(l) == l \in 1..Len(columns) /\ columns[l] = name
             i == CHOOSE l : P(l)
             cell == CellsAt(k)[i]
  <1>1. target[k] = TargetRow(CellsAt(k)) /\ RowFits(CellsAt(k))
    BY DEF Landed
  <1>2. TypeOf(name) = "text"
    BY DEF TypeOf
  <1>3. target[k][name] = IF \E l : P(l) THEN Input("text", cell).value ELSE NullValue
    <2>1. target[k][name] = IF \E l \in 1..Len(columns) : columns[l] = name
                            THEN Input(TypeOf(name), CellsAt(k)[CHOOSE l \in 1..Len(columns) : columns[l] = name]).value
                            ELSE NullValue
      <3>1. name \in {job.table[l] : l \in 1..Len(job.table)}
        OBVIOUS
      <3>2. QED
        BY <1>1, <3>1 DEF TargetRow
    <2>2. QED
      BY <1>2, <2>1
  <1>4. CASE \E l : P(l)
    <2>1. P(i)
      <3> HIDE DEF P
      <3>1. QED
        BY <1>4, Zenon
    <2>2. Input(TypeOf(columns[i]), CellsAt(k)[i]).ok
      BY <1>1, <2>1 DEF RowFits
    <2>3. Input("text", cell).ok
      BY <1>2, <2>1, <2>2
    <2>4. Input("text", cell).value = IF cell.null THEN NullValue ELSE Text(cell.text)
      BY <2>3, InputText
    <2>5. QED
      BY <1>3, <1>4, <2>4
  <1>5. CASE ~\E l : P(l)
    BY <1>3, <1>5
  <1>6. QED
    BY <1>4, <1>5

\* Of PostgreSQL, what lands is what was sent.
LEMMA ValuesLand ==
    ASSUME JobsAssumption, FramedInv, ArriveInv, job.source = "pgsql", NEW k \in 1..Len(target), NEW j \in 1..Len(job.table)
    PROVE  target[k][job.table[j]] = job.rows[k][j]
  <1> DEFINE name == job.table[j]
             row == job.rows[k]
  <1>1. ~IsSQL /\ ~IsCSV /\ Landed(target) /\ target # <<>> /\ job \in Jobs
    <2>1. ~IsSQL /\ ~IsCSV
      BY DEF IsSQL, IsCSV, SQL
    <2>2. target # <<>>
      <3>1. Len(<<>>) = 0
        OBVIOUS
      <3>2. QED
        BY <3>1
    <2>3. QED
      BY <2>1, <2>2 DEF ArriveInv, FramedInv
  <1>2. columns = job.table /\ FirstSeen = 0 /\ ColumnsFit
    BY <1>1 DEF ArriveInv, Named, Wanted, FirstSeen, Landed
  <1>3. (CHOOSE i \in 1..Len(columns) : columns[i] = name) = j
    <2> DEFINE P(i) == i \in 1..Len(columns) /\ columns[i] = name
    <2>1. P(j)
      BY <1>2
    <2>2. \A i : P(i) => i = j
      BY <1>2 DEF ColumnsFit
    <2> HIDE DEF P
    <2>3. (CHOOSE i : P(i)) = j
      BY <2>1, <2>2, Zenon
    <2>4. QED
      BY <2>3 DEF P
  <1>4. target[k][name] = IF CellsAt(k)[j].null THEN NullValue ELSE Text(CellsAt(k)[j].text)
    <2> DEFINE i == CHOOSE i \in 1..Len(columns) : columns[i] = name
    <2>1. target[k][name] = IF \E l \in 1..Len(columns) : columns[l] = name
                            THEN IF CellsAt(k)[i].null THEN NullValue ELSE Text(CellsAt(k)[i].text)
                            ELSE NullValue
      BY <1>1, LandedCell, Zenon
    <2>2. \E l \in 1..Len(columns) : columns[l] = name
      BY <1>2
    <2>3. i = j
      BY <1>3
    <2> HIDE DEF i, name
    <2>4. QED
      BY <2>1, <2>2, <2>3
  <1>5. k \in 1..Len(job.rows) /\ Len(CellsAt(k)) = Len(job.table)
    <2>1. Len(job.rows) \in Nat /\ Len(target) \in Nat
      BY <1>1 DEF JobsAssumption, Landed, IsSeq
    <2>2. FirstSeen + k <= Len(job.rows) /\ Len(CellsAt(k)) = Len(columns)
      BY <1>1 DEF Landed, RowFits
    <2>3. QED
      BY <1>2, <2>1, <2>2
  <1>6. row \in Seq(Value) /\ \A i \in 1..Len(row) : IsTextValue(row[i])
    <2>1. job.rows \in Seq(Seq(Value)) /\ \A i \in 1..Len(row) : IsTextValue(row[i])
      BY <1>1, <1>5 DEF JobsAssumption, IsCSV
    <2>2. QED
      BY <1>5, <2>1
  <1>7. CellsAt(k) = [i \in 1..Len(row) |-> CellOf(RowSent(row)[i])] /\ Len(row) \in Nat
    <2>1. CellsAt(k) = CellsFor(RowSent(row))
      <3>1. FirstSeen + k = k
        BY <1>2, <1>5
      <3>2. QED
        BY <1>1, <3>1 DEF CellsAt, HandedRow
    <2>2. Len(row) \in Nat
      BY <1>6
    <2>3. Len(RowSent(row)) = Len(row)
      BY <2>2 DEF RowSent
    <2>4. QED
      BY <2>1, <2>2, <2>3 DEF CellsFor
  <1> HIDE DEF row, name
  <1>8. j \in 1..Len(row)
    <2>1. Len(CellsAt(k)) = Len(row)
      BY <1>7
    <2>2. QED
      BY <1>5, <2>1
  <1> DEFINE v == row[j]
  <1>9. CellsAt(k)[j] = CellOf(IF v.null THEN Nil ELSE Str(v.text))
    BY <1>7, <1>8 DEF RowSent
  <1>10. IsTextValue(v) /\ v.text \in Seq(STRING)
    <2>1. v \in Value /\ IsTextValue(v)
      BY <1>6, <1>8
    <2> HIDE DEF v
    <2>2. QED
      BY <2>1 DEF Value
  <1> HIDE DEF v
  <1>11. CASE v = NullValue
    <2>1. v.null
      BY <1>11 DEF NullValue
    <2>2. CellsAt(k)[j] = NullCell
      BY <1>9, <2>1 DEF CellOf, Nil, Go
    <2>3. QED
      BY <1>4, <1>11, <2>2 DEF NullCell, v, row, name
  <1>12. CASE v = Text(v.text) /\ \A p \in 1..Len(v.text) : v.text[p] # "bad"
    <2>1. ~v.null
      BY <1>12 DEF Text
    <2>2. CellOf(Str(v.text)) = TextCell(ValidUTF8(v.text))
      BY DEF CellOf, Printed, Str, Go
    <2>3. ValidUTF8(v.text) = v.text
      BY <1>10, <1>12, ValidKept
    <2>4. CellsAt(k)[j] = TextCell(v.text)
      BY <1>9, <2>1, <2>2, <2>3
    <2>5. target[k][name] = Text(v.text)
      BY <1>4, <2>4 DEF TextCell
    <2>6. QED
      BY <1>12, <2>5 DEF v, row, name
  <1>13. QED
    BY <1>10, <1>11, <1>12 DEF IsTextValue

\* Of a CSV file, what lands under a name is what the record has under it.
LEMMA RecordsLand ==
    ASSUME JobsAssumption, FramedInv, ArriveInv, IsCSV, NEW k \in 1..Len(target), NEW j \in 1..Len(job.table)
    PROVE  target[k][job.table[j]] = CSVCell(job.rows[FirstRecord + k], job.table[j])
  <1> DEFINE name == job.table[j]
             row == job.rows[FirstRecord + k]
             i == CHOOSE i \in 1..Len(columns) : columns[i] = name
  <1>1. ~IsSQL /\ Landed(target) /\ target # <<>> /\ job \in Jobs
    <2>1. ~IsSQL
      BY DEF IsSQL, IsCSV, SQL
    <2>2. target # <<>>
      <3>1. Len(<<>>) = 0
        OBVIOUS
      <3>2. QED
        BY <3>1
    <2>3. QED
      BY <2>1, <2>2 DEF ArriveInv, FramedInv
  <1>2. columns = Names /\ FirstSeen = FirstRecord
    BY <1>1 DEF ArriveInv, Named, Wanted, FirstSeen
  <1>3. target[k][name] = IF \E l \in 1..Len(columns) : columns[l] = name
                          THEN IF CellsAt(k)[i].null THEN NullValue ELSE Text(CellsAt(k)[i].text)
                          ELSE NullValue
    BY <1>1, LandedCell, Zenon
  <1>4. CASE ~\E l \in 1..Len(columns) : columns[l] = name
    <2>1. CSVCell(row, name) = NullValue
      BY <1>2, <1>4, Zenon DEF CSVCell
    <2>2. QED
      BY <1>3, <1>4, <2>1
  <1>5. CASE \E l \in 1..Len(columns) : columns[l] = name
    <2>1. i \in 1..Len(columns)
      BY <1>5, Zenon
    <2>2. FirstRecord + k \in 1..Len(job.rows) /\ Len(CellsAt(k)) = Len(columns)
      <3>1. Len(job.rows) \in Nat /\ Len(target) \in Nat /\ FirstSeen \in Nat
        <4>1. Len(job.rows) \in Nat
          BY <1>1 DEF JobsAssumption
        <4>2. Len(target) \in Nat
          BY <1>1 DEF Landed, IsSeq
        <4>3. FirstSeen \in Nat
          BY <1>1, FirstIsNat
        <4>4. QED
          BY <4>1, <4>2, <4>3
      <3>2. FirstSeen + k <= Len(job.rows) /\ Len(CellsAt(k)) = Len(columns)
        BY <1>1 DEF Landed, RowFits
      <3>3. QED
        BY <1>2, <3>1, <3>2
    <2>3. Len(row) \in Nat
      <3>1. job.rows \in Seq(Seq(Seq(STRING)))
        BY <1>1 DEF JobsAssumption, IsCSV
      <3>2. row \in Seq(Seq(STRING))
        BY <2>2, <3>1
      <3>3. QED
        BY <3>2
    <2>4. CellsAt(k) = [l \in 1..Len(row) |-> CellOf(ApplyNullIf(row[l]))]
      <3>1. CellsAt(k) = CellsFor(BuildRow(row))
        BY <1>1, <1>2 DEF CellsAt, HandedRow
      <3>2. Len(BuildRow(row)) = Len(row)
        BY <2>3 DEF BuildRow
      <3>3. QED
        BY <3>1, <3>2 DEF CellsFor, BuildRow
    <2> HIDE DEF row, i, name
    <2>5. i \in 1..Len(row)
      <3>1. Len(CellsAt(k)) = Len(row)
        BY <2>3, <2>4
      <3>2. QED
        BY <2>1, <2>2, <3>1
    <2>6. CellsAt(k)[i] = CellOf(ApplyNullIf(row[i]))
      BY <2>4, <2>5
    <2> DEFINE text == Trim(row[i])
    <2>7. CSVCell(row, name) = IF (text = <<>> /\ ~job.keep) \/ text \in job.nullIf
                               THEN NullValue ELSE Text(ValidUTF8(text))
      BY <1>2, <1>5, Zenon DEF CSVCell, i
    <2>8. ApplyNullIf(row[i]) = IF (text = <<>> /\ ~job.keep) \/ text \in job.nullIf THEN Nil ELSE Str(text)
      BY Zenon DEF ApplyNullIf
    <2> HIDE DEF text
    <2>9. CellOf(Nil) = NullCell /\ CellOf(Str(text)) = TextCell(ValidUTF8(text))
      BY DEF CellOf, Printed, Nil, Str, Go
    <2>10. NullCell.null /\ ~TextCell(ValidUTF8(text)).null /\ TextCell(ValidUTF8(text)).text = ValidUTF8(text)
      BY DEF NullCell, TextCell
    <2>11. CASE (text = <<>> /\ ~job.keep) \/ text \in job.nullIf
      <3>1. CellsAt(k)[i] = NullCell /\ CSVCell(row, name) = NullValue
        BY <2>6, <2>7, <2>8, <2>9, <2>11, Zenon
      <3>2. target[k][name] = NullValue
        BY <1>3, <1>5, <2>10, <3>1, Zenon
      <3>3. QED
        BY <3>1, <3>2 DEF row, name
    <2>12. CASE ~((text = <<>> /\ ~job.keep) \/ text \in job.nullIf)
      <3>1. CellsAt(k)[i] = TextCell(ValidUTF8(text)) /\ CSVCell(row, name) = Text(ValidUTF8(text))
        BY <2>6, <2>7, <2>8, <2>9, <2>12, Zenon
      <3>2. target[k][name] = Text(ValidUTF8(text))
        BY <1>3, <1>5, <2>10, <3>1, Zenon
      <3>3. QED
        BY <3>1, <3>2 DEF row, name
    <2>13. QED
      BY <2>11, <2>12
  <1>6. QED
    BY <1>4, <1>5

LEMMA InvArrives ==
    ASSUME JobsAssumption, FramedInv, ArriveInv
    PROVE  RowsArrive
  <1>1. job.source = "pgsql" =>
            \A k \in 1..Len(target), j \in 1..Len(job.table) : target[k][job.table[j]] = job.rows[k][j]
    BY ValuesLand
  <1>2. IsCSV =>
            \A k \in 1..Len(target), j \in 1..Len(job.table) :
               target[k][job.table[j]] = CSVCell(job.rows[FirstRecord + k], job.table[j])
    BY RecordsLand
  <1>3. result = "ok" => Len(target) = Len(job.rows) - FirstSeen
    <2> SUFFICES ASSUME result = "ok"
                 PROVE  Len(target) = Len(job.rows) - FirstSeen
      OBVIOUS
    <2>1. batch = <<>> /\ seen = FirstSeen + Len(target) + Len(batch) /\ seen = Len(job.rows)
      BY DEF ArriveInv, Counted
    <2>2. Len(batch) = 0 /\ Len(target) \in Nat /\ FirstSeen \in Nat
      BY <2>1, FirstIsNat DEF FramedInv, ArriveInv, Landed, IsSeq
    <2>3. QED
      BY <2>1, <2>2
  <1>4. QED
    BY <1>1, <1>2, <1>3 DEF RowsArrive, FirstSeen

\* Whatever the rows, the sizes and the settings: of PostgreSQL and of CSV files
\* every row lands under the names of its columns, in the order of the source,
\* also when the load fails later, and a load that succeeds has landed them all.
THEOREM RowsLandInOrder == RowSpec => []RowsArrive
  <1>1. RowInit => FramedInv /\ ArriveInv
    <2> SUFFICES ASSUME RowInit
                 PROVE  ArriveInv
      BY InitFramed
    <2>1. reader = "start" /\ seen = 0 /\ batch = <<>> /\ target = <<>> /\ result # "ok" /\ closed = ""
      BY DEF RowInit
    <2>2. closed # "EOF"
      BY DEF RowInit
    <2>3. Landed(target)
      <3>1. target = <<>>
        BY DEF RowInit
      <3>2. IsSeq(target) /\ Len(target) = 0
        BY <3>1, EmptyIsSeq
      <3>3. QED
        BY <3>1, <3>2 DEF Landed
    <2>4. Counted
      BY <2>1, <2>2, Zenon DEF Counted
    <2>5. Named
      BY <2>1 DEF Named
    <2>6. QED
      BY <2>3, <2>4, <2>5 DEF ArriveInv
  <1>2. FramedInv /\ ArriveInv /\ [RowNext]_rowVars => FramedInv' /\ ArriveInv'
    <2> SUFFICES ASSUME FramedInv, ArriveInv, [RowNext]_rowVars
                 PROVE  ArriveInv'
      BY NextFramed
    <2>1. CASE UNCHANGED rowVars
      <3>1. UNCHANGED <<job, reader, seen, columns, batch, target, result, copier, sent, closed>>
        BY <2>1 DEF rowVars, copierVars
      <3>2. Landed(target)'
        BY <3>1, LandedRests DEF ArriveInv
      <3>3. FirstSeen' = FirstSeen /\ Wanted' = Wanted /\ (IsCSV' <=> IsCSV)
        BY <3>1, SameSource
      <3>4. Counted'
        BY <3>1, <3>3 DEF ArriveInv, Counted
      <3>5. Named'
        BY <3>1, <3>3 DEF ArriveInv, Named
      <3>6. QED
        BY <3>2, <3>4, <3>5 DEF ArriveInv
    <2>2. CASE Copier
      BY <2>2, CopierKeepsArriveInv
    <2>3. CASE Reader
      BY <2>3, NumeralsAssumption, JobsAssumption, RowsKeepArriveInv, StartKeepsArriveInv, EndKeepsArriveInv,
         FinalKeepsArriveInv DEF Reader
    <2>4. QED
      BY <2>1, <2>2, <2>3 DEF RowNext
  <1>3. FramedInv /\ ArriveInv => RowsArrive
    BY JobsAssumption, InvArrives
  <1>4. QED
    BY <1>1, <1>2, <1>3, PTL DEF RowSpec

----------------------------------------------------------------------------
(* RowPath. Whatever the rows, the columns and the encoding are, the pool   *)
(* never holds a connection that a goroutine still copies from. MapRows     *)
(* learns of the goroutine's end only through the pipe, so the              *)
(* strengthening is about the pipe: it has an end of its own only when the  *)
(* goroutine has ended.                                                     *)

\* CloseWithError is the last thing the goroutine does; a CSV file, or a cursor,
\* has no goroutine, and there is none before MapRows has begun.
PipeInv ==
    /\ closed \in {"EOF", "error"} => copier = "ended"
    /\ conn = "held" => copier # "off"
    /\ reader = "start" => copier = "off"
    /\ copier \in {"off", "copying", "writing", "ended"}

PoolInv == PooledIsIdle /\ PipeInv

\* The steps of the goroutine.
LEMMA CopierKeepsPoolInv ==
    ASSUME PoolInv, Copier
    PROVE  PoolInv'
  <1>1. CASE CopierWrites
    BY <1>1 DEF CopierWrites, PoolInv, PooledIsIdle, PipeInv
  <1>2. CASE CopierUnblocks
    BY <1>2 DEF CopierUnblocks, PoolInv, PooledIsIdle, PipeInv
  <1>3. CASE CopierEnds
    BY <1>3 DEF CopierEnds, PoolInv, PooledIsIdle, PipeInv
  <1>4. QED
    BY <1>1, <1>2, <1>3 DEF Copier

\* An error of MapRows destroys a connection whose goroutine has not ended.
LEMMA FailKeepsPoolInv ==
    ASSUME PoolInv, NEW close \in {TRUE, FALSE}, Fail(close), UNCHANGED copier
    PROVE  PoolInv'
  <1>1. closed' \in {"EOF", "error"} => closed' = closed
    BY DEF Fail
  <1>2. conn' # "held"
    BY DEF Fail
  <1>3. conn' = "pool" => conn = "pool" \/ copier = "ended"
    BY DEF Fail
  <1>4. reader' = "done"
    BY DEF Fail
  <1>5. QED
    BY <1>1, <1>2, <1>3, <1>4 DEF PoolInv, PooledIsIdle, PipeInv

\* Every row ends in an error, or leaves the connection as it is.
LEMMA RowKeepsPoolInv ==
    ASSUME PoolInv, NEW formatted, ProcessRow(formatted), UNCHANGED copier
    PROVE  PoolInv'
  <1>1. CASE Fail(TRUE)
    BY <1>1, FailKeepsPoolInv
  <1>2. CASE UNCHANGED <<reader, closed, conn>>
    BY <1>2 DEF PoolInv, PooledIsIdle, PipeInv
  <1>3. QED
    BY <1>1, <1>2 DEF ProcessRow

\* The steps of MapRows and of the pipeline.
LEMMA ReaderKeepsPoolInv ==
    ASSUME PoolInv, Reader
    PROVE  PoolInv'
  <1>1. CASE UNCHANGED <<copier, closed, conn>> /\ (reader' = "start" => reader = "start")
    BY <1>1 DEF PoolInv, PooledIsIdle, PipeInv
  <1>2. CASE StartCopier
    BY <1>2 DEF StartCopier, PoolInv, PooledIsIdle, PipeInv
  <1>3. CASE UNCHANGED copier /\ (Fail(TRUE) \/ Fail(FALSE))
    BY <1>3, FailKeepsPoolInv
  <1>4. CASE NextRow
    BY <1>4, RowKeepsPoolInv DEF NextRow
  <1>5. CASE ReadRecord
    BY <1>5, RowKeepsPoolInv DEF ReadRecord
  <1>6. CASE ScannerLine
    <2>1. UNCHANGED copier
      BY <1>6 DEF ScannerLine
    <2>2. Fail(FALSE) \/ ProcessRow(Append(Line, "NL"))
      BY <1>6 DEF ScannerLine
    <2>3. QED
      BY <2>1, <2>2, FailKeepsPoolInv, RowKeepsPoolInv
  <1>7. CASE ScannerEnds
    <2>1. UNCHANGED copier /\ closed \in {"EOF", "error"}
      BY <1>7 DEF ScannerEnds
    <2>2. CASE conn' = "pool" /\ UNCHANGED closed /\ reader' = "mapped"
      BY <2>1, <2>2 DEF PoolInv, PooledIsIdle, PipeInv
    <2>3. QED
      BY <1>7, <2>1, <2>2, FailKeepsPoolInv DEF ScannerEnds
  <1>8. CASE FileEnds
    BY <1>1, <1>3, <1>8 DEF FileEnds
  <1>9. CASE QueryFails \/ AcquireSourceFails \/ OpenFileFails \/ Cancelled \/ ReadFails
    BY <1>3, <1>9 DEF QueryFails, AcquireSourceFails, OpenFileFails, Cancelled, ReadFails
  <1>10. CASE Query \/ RowsEnd \/ ScannerReads \/ OpenFile \/ SkipLine \/ SkipEnds \/ ReadHeader \/ ReadFirst
    BY <1>1, <1>10
       DEF Query, RowsEnd, ScannerReads, OpenFile, SkipLine, SkipEnds, ReadHeader, ReadFirst, copierVars
  <1>11. CASE FlushFinal
    BY <1>1, <1>11 DEF FlushFinal, copierVars
  <1>12. QED
    BY <1>2, <1>4, <1>5, <1>6, <1>7, <1>8, <1>9, <1>10, <1>11 DEF Reader

\* MapRows of PostgreSQL: a connection in the pool is idle, on every path, for
\* any table, any rows and any length of the scanner's lines.
THEOREM PooledConnectionsAreIdle == RowSpec => []PooledIsIdle
  <1>1. RowInit => PoolInv
    BY DEF RowInit, PoolInv, PooledIsIdle, PipeInv
  <1>2. PoolInv /\ [RowNext]_rowVars => PoolInv'
    <2> SUFFICES ASSUME PoolInv, [RowNext]_rowVars
                 PROVE  PoolInv'
      OBVIOUS
    <2>1. CASE UNCHANGED rowVars
      BY <2>1 DEF rowVars, copierVars, PoolInv, PooledIsIdle, PipeInv
    <2>2. QED
      BY <2>1, CopierKeepsPoolInv, ReaderKeepsPoolInv DEF RowNext
  <1>3. QED
    BY <1>1, <1>2, PTL DEF RowSpec, PoolInv

----------------------------------------------------------------------------
(* BatchRetry. While the connection lasts, a bad row is either found or in a*)
(* range that is still to be tested, and only bad rows are found            *)
(* (SearchInv). Once it is lost nothing is known of what was found, but the *)
(* last COPY fails, or has no row to send, so that RetryBatch cannot report *)
(* success wrongly.                                                         *)

\* The ranges still to be tested, as a set, and the rows in them.
Ranges(s) == {s[k] : k \in 1 .. Len(s)}
Todo == UNION {RowsOf(r) : r \in Ranges(pending)}

\* The ranges are not empty and inside the batch.
RangesInv == \A r \in Ranges(pending) : 0 <= r[1] /\ r[1] <= r[2] /\ r[2] < size

SearchInv == connection = "up" => found \subseteq bad /\ bad \subseteq found \cup Todo

\* What RetryBatch knows at each of its COPYs.
StageInv ==
    /\ pc = "whole" => found = {} /\ rejected = {} /\ err = "nil"
    /\ pc = "search" => SearchInv /\ err = "nil"
    /\ pc = "clean" => (connection = "up" => found = bad) /\ rejected = found /\ err = "nil"

BInv == TypeOK /\ RangesInv /\ StageInv /\ RejectsExactlyBad /\ NoRowLost

----------------------------------------------------------------------------
(* Facts about ranges and sequences *)

\* A sequence that is not empty has its head and the elements of its tail.
LEMMA HeadAndTail ==
    ASSUME NEW S, NEW s \in Seq(S), s # <<>>
    PROVE  Ranges(s) = {Head(s)} \cup Ranges(Tail(s)) /\ Tail(s) \in Seq(S) /\ Head(s) \in S
  <1>1. Len(s) \in Nat /\ Len(s) > 0 /\ Head(s) = s[1] /\ s[1] \in S
    OBVIOUS
  <1>2. Tail(s) \in Seq(S) /\ Len(Tail(s)) = Len(s) - 1 /\ \A k \in 1 .. Len(s) - 1 : Tail(s)[k] = s[k + 1]
    OBVIOUS
  <1>3. \A k \in 2 .. Len(s) : k - 1 \in 1 .. Len(s) - 1 /\ s[k] = Tail(s)[k - 1]
    BY <1>1, <1>2
  <1> DEFINE t == Tail(s)
             h == Head(s)
  <1> HIDE DEF t, h
  <1>4. Len(s) \in Nat /\ Len(s) > 0 /\ h = s[1] /\ Len(t) = Len(s) - 1
    BY <1>1, <1>2 DEF t, h
  <1>5. ASSUME NEW r \in Ranges(s) PROVE r \in {h} \cup Ranges(t)
    <2>1. PICK k \in 1..Len(s) : r = s[k]
      BY DEF Ranges
    <2>2. k = 1 => r = h
      BY <1>4, <2>1
    <2>3. k # 1 => k \in 2..Len(s) /\ k - 1 \in 1..Len(t)
      BY <1>4, <2>1
    <2>4. k # 1 => r = t[k - 1]
      BY <1>3, <2>1, <2>3 DEF t
    <2>5. QED
      BY <2>2, <2>3, <2>4 DEF Ranges
  <1>6. ASSUME NEW r \in Ranges(t) PROVE r \in Ranges(s)
    <2>1. PICK k \in 1..Len(t) : r = t[k]
      BY DEF Ranges
    <2>2. k \in 1..(Len(s) - 1) /\ k + 1 \in 1..Len(s)
      BY <1>4, <2>1
    <2>3. t[k] = s[k + 1]
      BY <1>2, <2>2 DEF t
    <2>4. QED
      BY <2>1, <2>2, <2>3 DEF Ranges
  <1>7. h \in Ranges(s)
    <2>1. 1 \in 1..Len(s)
      BY <1>4
    <2>2. QED
      BY <1>4, <2>1 DEF Ranges
  <1>8. Ranges(s) = {h} \cup Ranges(t)
    BY <1>5, <1>6, <1>7
  <1>9. QED
    BY <1>1, <1>2, <1>8 DEF t, h

\* Two elements before a sequence.
LEMMA TwoBefore ==
    ASSUME NEW S, NEW a \in S, NEW b \in S, NEW t \in Seq(S)
    PROVE  Ranges(<<a, b>> \o t) = {a, b} \cup Ranges(t) /\ <<a, b>> \o t \in Seq(S)
  <1> DEFINE u == <<a, b>> \o t
  <1>1. u \in Seq(S) /\ Len(u) = Len(t) + 2 /\ Len(t) \in Nat
    OBVIOUS
  <1>2. u[1] = a /\ u[2] = b /\ \A k \in 1 .. Len(t) : u[k + 2] = t[k]
    OBVIOUS
  <1>3. \A k \in 3 .. Len(u) : k - 2 \in 1 .. Len(t) /\ u[k] = t[k - 2]
    BY <1>1, <1>2
  <1> HIDE DEF u
  <1>4. Ranges(u) = {a, b} \cup Ranges(t)
    <2>1. 1 \in 1 .. Len(u) /\ 2 \in 1 .. Len(u) /\ \A k \in 1 .. Len(t) : k + 2 \in 1 .. Len(u)
      BY <1>1
    <2>2. \A k \in 1 .. Len(u) : k = 1 \/ k = 2 \/ k \in 3 .. Len(u)
      BY <1>1
    <2>3. Ranges(u) \subseteq {a, b} \cup Ranges(t)
      BY <1>2, <1>3, <2>2 DEF Ranges
    <2>4. {a, b} \cup Ranges(t) \subseteq Ranges(u)
      BY <1>2, <2>1 DEF Ranges
    <2>5. QED
      BY <2>3, <2>4
  <1>5. QED
    BY <1>1, <1>4 DEF u

\* The halves of a range of two rows or more: together they are the range, and
\* neither is empty (findBadRows).
LEMMA HalvesCover ==
    ASSUME NEW lo \in Nat, NEW hi \in Nat, lo < hi
    PROVE  LET mid == (lo + hi) \div 2 IN
           /\ mid \in Nat /\ lo <= mid /\ mid < hi
           /\ lo .. hi = (lo .. mid) \cup ((mid + 1) .. hi)
  <1> DEFINE mid == (lo + hi) \div 2
  <1>1. mid \in Nat /\ lo <= mid /\ mid < hi
    OBVIOUS
  <1> HIDE DEF mid
  <1>2. lo .. hi = (lo .. mid) \cup ((mid + 1) .. hi)
    BY <1>1
  <1>3. QED
    BY <1>1, <1>2 DEF mid

\* The rows of a batch can be counted.
LEMMA CountRows ==
    ASSUME size \in Nat, NEW R \in SUBSET Rows
    PROVE  /\ Cardinality(Rows) = size
           /\ Cardinality(R) \in 0 .. size
  <1>1. IsFiniteSet(Rows) /\ Cardinality(Rows) = size
    BY FS_Interval DEF Rows
  <1>2. IsFiniteSet(R) /\ Cardinality(R) <= Cardinality(Rows)
    BY <1>1, FS_Subset
  <1>3. QED
    BY <1>1, <1>2, FS_CardinalityType

----------------------------------------------------------------------------
(* The steps *)

\* Whatever a COPY does, the copies stays one.
LEMMA FlushKeepsTarget ==
    ASSUME TypeOK, NEW rows, FlushSucceeds(rows) \/ FlushFails(rows)
    PROVE  copies' \in [0..MaxIndex -> Nat] /\ connection' \in {"up", "lost"}
  <1>1. Sent(rows) \in [0..MaxIndex -> Nat]
    BY DEF TypeOK, Sent
  <1>2. QED
    BY <1>1 DEF TypeOK, FlushSucceeds, FlushFails

LEMMA TestFailsKeeps ==
    ASSUME BInv, TestFails
    PROVE  BInv'
  <1> DEFINE lo == Head(pending)[1]
             hi == Head(pending)[2]
             mid == (lo + hi) \div 2
             P == (0..MaxIndex) \X (0..MaxIndex)
  <1>1. /\ pc = "search" /\ pending # <<>> /\ FlushFails(lo .. hi)
        /\ UNCHANGED <<size, bad, pc, imported, rejected, err>>
    BY DEF TestFails
  <1>2. /\ pending \in Seq(P) /\ Head(pending) \in P /\ Tail(pending) \in Seq(P)
        /\ Ranges(pending) = {Head(pending)} \cup Ranges(Tail(pending))
    BY <1>1, HeadAndTail DEF BInv, TypeOK
  <1>3. /\ Head(pending) = <<lo, hi>> /\ lo \in Nat /\ hi \in Nat /\ lo <= hi /\ hi < size
        /\ size \in Nat /\ size <= MaxRows
    BY <1>1, <1>2, MaxRowsAssumption DEF BInv, TypeOK, RangesInv, MaxIndex
  <1>4. RowsOf(Head(pending)) = lo .. hi
    BY DEF RowsOf
  <1>5. connection' = "up" => connection = "up" /\ (lo .. hi) \cap bad # {}
    BY <1>1 DEF FlushFails, BInv, TypeOK
  <1>6. copies' \in [0..MaxIndex -> Nat] /\ connection' \in {"up", "lost"}
    BY <1>1, FlushKeepsTarget DEF BInv
  <1>7. CASE lo = hi
    <2>1. found' = found \cup {lo} /\ pending' = Tail(pending)
      BY <1>7 DEF TestFails
    <2>2. TypeOK'
      <3>1. found' \in SUBSET Rows
        <4> HIDE DEF lo
        <4>1. lo \in Rows
          BY <1>3 DEF Rows
        <4>2. QED
          BY <2>1, <4>1 DEF BInv, TypeOK
      <3>2. pending' \in Seq(P)
        BY <1>2, <2>1
      <3>3. QED
        BY <1>1, <1>6, <3>1, <3>2 DEF BInv, TypeOK, Rows
    <2>3. RangesInv'
      BY <1>1, <1>2, <2>1 DEF BInv, RangesInv
    <2>4. lo .. hi = {lo}
      BY <1>3, <1>7
    <2>5. Todo \subseteq {lo} \cup Todo'
      BY <1>2, <1>4, <2>1, <2>4 DEF Todo
    <2>6. SearchInv'
      BY <1>1, <1>5, <2>1, <2>4, <2>5 DEF BInv, StageInv, SearchInv
    <2>7. QED
      BY <1>1, <2>2, <2>3, <2>6 DEF BInv, StageInv, RejectsExactlyBad, NoRowLost
  <1>8. CASE lo # hi
    <2>1. found' = found /\ pending' = <<<<lo, mid>>, <<mid + 1, hi>>>> \o Tail(pending)
      BY <1>8 DEF TestFails, Halves
    <2>2. /\ mid \in Nat /\ lo <= mid /\ mid < hi
          /\ lo .. hi = (lo .. mid) \cup ((mid + 1) .. hi)
      BY <1>3, <1>8, HalvesCover
    <2> HIDE DEF lo, hi, mid
    <2>3. <<lo, mid>> \in P /\ <<mid + 1, hi>> \in P
      BY <1>3, <2>2, MaxRowsAssumption DEF MaxIndex
    <2>4. /\ Ranges(pending') = {<<lo, mid>>, <<mid + 1, hi>>} \cup Ranges(Tail(pending))
          /\ pending' \in Seq(P)
      <3> HIDE DEF P
      <3> DEFINE a == <<lo, mid>>
                 b == <<mid + 1, hi>>
                 t == Tail(pending)
      <3>1. a \in P /\ b \in P /\ t \in Seq(P) /\ pending' = <<a, b>> \o t
        BY <1>2, <2>1, <2>3
      <3> HIDE DEF a, b, t
      <3>2. Ranges(<<a, b>> \o t) = {a, b} \cup Ranges(t) /\ <<a, b>> \o t \in Seq(P)
        BY <3>1, TwoBefore
      <3>3. Ranges(pending') = {a, b} \cup Ranges(t) /\ pending' \in Seq(P)
        BY <3>1, <3>2
      <3>4. QED
        BY <3>3 DEF a, b, t
    <2>5. TypeOK'
      BY <1>1, <1>6, <2>1, <2>4 DEF BInv, TypeOK, Rows
    <2>6. RangesInv'
      BY <1>1, <1>2, <1>3, <2>2, <2>4 DEF BInv, RangesInv
    <2>7. Todo \subseteq Todo'
      <3>1. RowsOf(<<lo, mid>>) = lo .. mid /\ RowsOf(<<mid + 1, hi>>) = (mid + 1) .. hi
        BY DEF RowsOf
      <3>2. QED
        BY <1>2, <1>4, <2>2, <2>4, <3>1 DEF Todo
    <2>8. SearchInv'
      BY <1>1, <1>5, <2>1, <2>7 DEF BInv, StageInv, SearchInv
    <2>9. QED
      BY <1>1, <2>5, <2>6, <2>8 DEF BInv, StageInv, RejectsExactlyBad, NoRowLost
  <1>9. QED
    BY <1>7, <1>8

\* The other steps of the search and the two COPYs around it.
LEMMA OtherStepsKeep ==
    ASSUME BInv, WholeSucceeds \/ WholeFails \/ TestSucceeds \/ SearchEnds \/ CleanSucceeds \/ CleanFails
    PROVE  BInv'
  <1> USE DEF BInv, StageInv, RejectsExactlyBad, NoRowLost, SearchInv
  <1>1. size \in Nat /\ Rows \subseteq 0..MaxIndex
    BY MaxRowsAssumption DEF TypeOK, Rows, MaxIndex
  <1>2. CASE WholeSucceeds
    <2>1. copies' \in [0..MaxIndex -> Nat] /\ connection' \in {"up", "lost"}
      BY <1>2, FlushKeepsTarget DEF WholeSucceeds
    <2>2. TypeOK' /\ RangesInv'
      BY <1>1, <1>2, <2>1 DEF WholeSucceeds, TypeOK, RangesInv, Rows
    <2>3. bad = {} /\ rejected' = {} /\ err' = "nil" /\ pc' = "done"
      BY <1>2 DEF WholeSucceeds, FlushSucceeds, TypeOK
    <2>4. \A i \in Rows : copies'[i] > 0
      BY <1>1, <1>2 DEF WholeSucceeds, FlushSucceeds, Sent, TypeOK
    <2>5. imported' = Cardinality(Rows) /\ UNCHANGED <<size, bad>>
      BY <1>1, <1>2, CountRows DEF WholeSucceeds
    <2>6. Rows' \ rejected' = Rows
      BY <2>3, <2>5 DEF Rows
    <2>7. QED
      BY <2>2, <2>3, <2>4, <2>5, <2>6
  <1>3. CASE WholeFails
    <2>1. copies' \in [0..MaxIndex -> Nat] /\ connection' \in {"up", "lost"}
      BY <1>3, FlushKeepsTarget DEF WholeFails
    <2>2. pending' = <<<<0, size - 1>>>> /\ size > 0 /\ UNCHANGED <<size, bad, found, imported, rejected, err>>
      BY <1>1, <1>3 DEF WholeFails, FlushFails, Rows
    <2>3. pending' \in Seq((0..MaxIndex) \X (0..MaxIndex))
      <3>1. <<0, size - 1>> \in (0..MaxIndex) \X (0..MaxIndex)
        BY <1>1, <2>2, MaxRowsAssumption DEF TypeOK, MaxIndex
      <3>2. QED
        BY <2>2, <3>1
    <2>4. Ranges(pending') = {<<0, size - 1>>}
      BY <2>2 DEF Ranges
    <2>5. Todo' = Rows
      BY <2>4 DEF Todo, RowsOf, Rows
    <2>6. TypeOK'
      BY <1>3, <2>1, <2>2, <2>3 DEF WholeFails, TypeOK, Rows
    <2>7. RangesInv'
      BY <1>1, <2>2, <2>4 DEF RangesInv
    <2>8. QED
      BY <1>3, <2>2, <2>5, <2>6, <2>7 DEF WholeFails, TypeOK
  <1>4. CASE TestSucceeds
    <2>1. /\ pending # <<>> /\ pending' = Tail(pending)
          /\ RowsOf(Head(pending)) \cap bad = {}
          /\ UNCHANGED <<size, bad, pc, found, imported, rejected, err, connection>>
      BY <1>4 DEF TestSucceeds, FlushSucceeds
    <2>2. copies' \in [0..MaxIndex -> Nat] /\ connection' \in {"up", "lost"}
      BY <1>4, FlushKeepsTarget DEF TestSucceeds
    <2>3. /\ Ranges(pending) = {Head(pending)} \cup Ranges(pending')
          /\ pending' \in Seq((0..MaxIndex) \X (0..MaxIndex))
      BY <2>1, HeadAndTail DEF TypeOK
    <2>4. TypeOK' /\ RangesInv'
      BY <2>1, <2>2, <2>3 DEF TypeOK, RangesInv, Rows
    <2>5. bad \cap Todo \subseteq Todo'
      BY <2>1, <2>3 DEF Todo
    <2>6. QED
      BY <1>4, <2>1, <2>4, <2>5 DEF TestSucceeds
  <1>5. CASE SearchEnds
    <2>1. Todo = {}
      BY <1>5 DEF SearchEnds, Todo, Ranges
    <2>2. TypeOK' /\ RangesInv'
      BY <1>5 DEF SearchEnds, TypeOK, RangesInv, Rows
    <2>3. QED
      BY <1>5, <2>1, <2>2 DEF SearchEnds
  <1>6. CASE CleanSucceeds
    <2>1. copies' \in [0..MaxIndex -> Nat] /\ connection' \in {"up", "lost"}
      BY <1>6, FlushKeepsTarget DEF CleanSucceeds
    <2>2. Cardinality(Good) \in 0 .. size
      BY <1>1, CountRows DEF Good
    <2>3. TypeOK' /\ RangesInv'
      BY <1>6, <2>1, <2>2 DEF CleanSucceeds, TypeOK, RangesInv, Rows
    <2>4. \A i \in Good : copies'[i] > 0
      <3>1. copies' = Sent(Good) /\ copies \in [0..MaxIndex -> Nat]
        BY <1>6 DEF CleanSucceeds, FlushSucceeds, TypeOK
      <3>2. \A i \in Good : i \in 0..MaxIndex /\ copies[i] \in Nat
        BY <1>1, <3>1 DEF Good
      <3>3. QED
        BY <3>1, <3>2 DEF Sent
    <2>5. /\ rejected = found /\ UNCHANGED <<size, bad, found, rejected, err, connection>>
          /\ pc' = "done" /\ imported' = Cardinality(Good)
      BY <1>6 DEF CleanSucceeds, FlushSucceeds
    <2>6. Rows' \ rejected' = Good
      BY <2>5 DEF Good, Rows
    <2>7. QED
      BY <1>6, <2>3, <2>4, <2>5, <2>6 DEF CleanSucceeds
  <1>7. CASE CleanFails
    <2>1. copies' \in [0..MaxIndex -> Nat] /\ connection' \in {"up", "lost"}
      BY <1>7, FlushKeepsTarget DEF CleanFails
    <2>2. TypeOK' /\ RangesInv'
      BY <1>7, <2>1 DEF CleanFails, TypeOK, RangesInv, Rows
    <2>3. connection' # "up"
      BY <1>7 DEF CleanFails, FlushFails, Good
    <2>4. QED
      BY <1>7, <2>2, <2>3 DEF CleanFails
  <1>8. QED
    BY <1>2, <1>3, <1>4, <1>5, <1>6, <1>7

----------------------------------------------------------------------------
(* The theorems *)

\* RetryBatch: the inductive invariant.
THEOREM RetryInvariance == Spec => []BInv
  <1>1. Init => BInv
    BY MaxRowsAssumption
       DEF Init, BInv, TypeOK, RangesInv, Ranges, StageInv, RejectsExactlyBad, NoRowLost, MaxIndex, Rows
  <1>2. BInv /\ [Next]_vars => BInv'
    <2> SUFFICES ASSUME BInv, [Next]_vars
                 PROVE  BInv'
      OBVIOUS
    <2>1. CASE UNCHANGED vars
      BY <2>1 DEF BInv, TypeOK, RangesInv, StageInv, SearchInv, Todo, RejectsExactlyBad, NoRowLost, Rows, vars
    <2>2. QED
      BY <2>1, TestFailsKeeps, OtherStepsKeep DEF Next
  <1>3. QED
    BY <1>1, <1>2, PTL DEF Spec

\* The variables keep their types, and no range leaves the batch.
THEOREM RetryTypeCorrect == Spec => []TypeOK
  BY RetryInvariance, PTL DEF BInv

\* findBadRows and RetryBatch: while the connection lasts, exactly the bad rows
\* are rejected and the rest is loaded without an error.
THEOREM RejectsTheBadRows == Spec => []RejectsExactlyBad
  BY RetryInvariance, PTL DEF BInv

\* RetryBatch: success leaves no row behind, also when the connection was lost,
\* and Imported is the number of rows that were not rejected.
THEOREM LosesNoRow == Spec => []NoRowLost
  BY RetryInvariance, PTL DEF BInv

=============================================================================
