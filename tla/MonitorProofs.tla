---------------------------- MODULE MonitorProofs ----------------------------
(***************************************************************************)
(* What every user of the monitor may rely on: its variables keep their     *)
(* types, and nothing that was sent is lost or counted twice between the    *)
(* channel and the statistics. The conserved quantity is a table's Credit   *)
(* for a type of event: what its statistics show plus what the events still *)
(* in the channel will add. A send raises it, once; the loop never changes  *)
(* it; and when the channel is empty it is what the statistics show.        *)
(***************************************************************************)
EXTENDS Monitor, FiniteSetTheorems, FunctionTheorems, TLAPS

CountedTypes == {"write", "error", "end"}

\* What an event adds to the statistics of table t that its type is for.
Amount(evt, type, t) ==
    IF evt.type # type \/ evt.table # t THEN 0 ELSE IF type = "write" THEN evt.count ELSE 1

Tally(type, t) ==
    IF type = "write" THEN stats[t].written
    ELSE IF type = "error" THEN stats[t].errors ELSE stats[t].ended

\* One element for each unit that the events of q will add.
Units(q, type, t) == {u \in (1..Len(q)) \X Nat : u[2] \in 1..Amount(q[u[1]], type, t)}

Countable(type, t) == IsFiniteSet(Units(events, type, t))

Credit(type, t) == Tally(type, t) + Cardinality(Units(events, type, t))

----------------------------------------------------------------------------
(* Counting the events of a queue *)

LEMMA AmountType ==
    ASSUME NEW evt \in Event, NEW type, NEW t
    PROVE  Amount(evt, type, t) \in Nat
  BY DEF Amount, Event

\* An interval of one event's units has as many elements as the event adds.
LEMMA UnitsOfOne ==
    ASSUME NEW i, NEW k \in Nat
    PROVE  /\ IsFiniteSet({i} \X (1..k))
           /\ Cardinality({i} \X (1..k)) = k
  <1>1. IsFiniteSet({i}) /\ Cardinality({i}) = 1
    BY FS_Singleton
  <1>2. IsFiniteSet(1..k) /\ Cardinality(1..k) = k
    BY FS_Interval
  <1>3. /\ IsFiniteSet({i} \X (1..k))
        /\ Cardinality({i} \X (1..k)) = Cardinality({i}) * Cardinality(1..k)
    BY <1>1, <1>2, FS_Product
  <1>4. 1 * k = k
    OBVIOUS
  <1>5. QED
    BY <1>1, <1>2, <1>3, <1>4

\* Append adds the units of the new event.
LEMMA UnitsOfAppend ==
    ASSUME NEW q \in Seq(Event), NEW evt \in Event, NEW type, NEW t,
           IsFiniteSet(Units(q, type, t))
    PROVE  /\ IsFiniteSet(Units(Append(q, evt), type, t))
           /\ Cardinality(Units(Append(q, evt), type, t)) = Cardinality(Units(q, type, t)) + Amount(evt, type, t)
  <1> DEFINE n == Len(q)
             k == Amount(evt, type, t)
             new == {n + 1} \X (1..k)
  <1>1. n \in Nat /\ k \in Nat
    BY AmountType
  <1>2. /\ Len(Append(q, evt)) = n + 1 /\ Append(q, evt)[n + 1] = evt
        /\ \A i \in 1..n : Append(q, evt)[i] = q[i]
    OBVIOUS
  <1>3. Units(Append(q, evt), type, t) = Units(q, type, t) \cup new
    BY <1>1, <1>2 DEF Units
  <1>4. Units(q, type, t) \cap new = {}
    BY <1>1 DEF Units
  <1> HIDE DEF n, k
  <1>5. IsFiniteSet(new) /\ Cardinality(new) = k
    BY <1>1, UnitsOfOne
  <1> HIDE DEF new
  <1>6. /\ IsFiniteSet(Units(q, type, t) \cup new)
        /\ Cardinality(Units(q, type, t) \cup new) = Cardinality(Units(q, type, t)) + Cardinality(new) - Cardinality({})
    BY <1>4, <1>5, FS_Union
  <1>7. Cardinality({}) = 0 /\ Cardinality(Units(q, type, t)) \in Nat
    BY FS_EmptySet, FS_CardinalityType
  <1>8. QED
    BY <1>1, <1>3, <1>5, <1>6, <1>7 DEF k

\* Tail takes the units of the first event away and moves the others up.
LEMMA UnitsOfTail ==
    ASSUME NEW q \in Seq(Event), q # <<>>, NEW type, NEW t,
           IsFiniteSet(Units(q, type, t))
    PROVE  /\ IsFiniteSet(Units(Tail(q), type, t))
           /\ Cardinality(Units(q, type, t)) = Cardinality(Units(Tail(q), type, t)) + Amount(Head(q), type, t)
  <1> DEFINE n == Len(q)
             k == Amount(Head(q), type, t)
             first == {1} \X (1..k)
             rest == Units(q, type, t) \ first
             tail == Units(Tail(q), type, t)
             shift == [u \in tail |-> <<u[1] + 1, u[2]>>]
  <1>1. n \in Nat \ {0} /\ k \in Nat /\ Head(q) = q[1]
    BY AmountType
  <1>2. Len(Tail(q)) = n - 1 /\ \A i \in 1..(n - 1) : Tail(q)[i] = q[i + 1]
    OBVIOUS
  <1>3. first \subseteq Units(q, type, t)
    BY <1>1 DEF Units
  <1>4. \A u \in Units(q, type, t) : u \in rest <=> u[1] # 1
    BY <1>1 DEF Units
  <1>5. shift \in Bijection(tail, rest)
    <2>1. ASSUME NEW u \in tail
          PROVE  shift[u] \in rest
      <3>1. /\ u[1] \in 1..(n - 1) /\ u[2] \in Nat
            /\ u[2] \in 1..Amount(Tail(q)[u[1]], type, t)
        BY <1>2 DEF Units
      <3>2. <<u[1] + 1, u[2]>> \in Units(q, type, t)
        BY <1>1, <1>2, <3>1 DEF Units
      <3>3. QED
        BY <1>1, <1>4, <3>1, <3>2
    <2>2. ASSUME NEW u \in tail, NEW v \in tail, shift[u] = shift[v]
          PROVE  u = v
      <3>1. /\ u = <<u[1], u[2]>> /\ v = <<v[1], v[2]>>
            /\ u[1] \in Nat /\ v[1] \in Nat
        BY DEF Units
      <3>2. u[1] + 1 = v[1] + 1 /\ u[2] = v[2]
        BY <2>2
      <3>3. QED
        BY <3>1, <3>2
    <2>3. ASSUME NEW v \in rest
          PROVE  \E u \in tail : shift[u] = v
      <3>1. /\ v = <<v[1], v[2]>> /\ v[1] \in 2..n /\ v[2] \in Nat
            /\ v[2] \in 1..Amount(q[v[1]], type, t)
        BY <1>1, <1>4 DEF Units
      <3>2. <<v[1] - 1, v[2]>> \in tail
        <4>1. v[1] - 1 \in 1..(n - 1) /\ Tail(q)[v[1] - 1] = q[v[1]]
          BY <1>1, <1>2, <3>1
        <4>2. QED
          BY <1>2, <3>1, <4>1 DEF Units
      <3>3. QED
        BY <3>1, <3>2
    <2>4. QED
      BY <2>1, <2>2, <2>3 DEF Bijection, Injection, Surjection, IsInjective
  <1> HIDE DEF n, k, first, tail, shift
  <1>6. IsFiniteSet(rest) /\ Cardinality(rest) = Cardinality(Units(q, type, t)) - Cardinality(first)
    <2>1. Units(q, type, t) \cap first = first
      BY <1>3
    <2>2. QED
      BY <2>1, FS_Difference
  <1>7. Cardinality(first) = k
    BY <1>1, UnitsOfOne DEF first
  <1> HIDE DEF rest
  <1>8. ExistsBijection(rest, tail)
    <2>1. ExistsBijection(tail, rest)
      BY <1>5 DEF ExistsBijection
    <2>2. QED
      BY <2>1, Fun_ExistsBijSymmetric
  <1>9. IsFiniteSet(tail) /\ Cardinality(tail) = Cardinality(rest)
    BY <1>6, <1>8, FS_Bijection
  <1>10. Cardinality(Units(q, type, t)) \in Nat
    BY FS_CardinalityType
  <1>11. QED
    BY <1>1, <1>6, <1>7, <1>9, <1>10 DEF k, tail

----------------------------------------------------------------------------
(* The steps of the monitor *)

\* Sends, the loop and Close keep the monitor's variables in their types.
LEMMA MonitorTypeStep ==
    ASSUME MonitorTypeOK,
           (\E evt \in Event : Send(evt)) \/ Loop \/ Close \/ UNCHANGED monitorVars
    PROVE  MonitorTypeOK'
  <1>1. ASSUME NEW evt \in Event, Send(evt)
        PROVE  MonitorTypeOK'
    BY <1>1, EventCapAssumption DEF Send, MonitorTypeOK
  <1>2. CASE ProcessEvent
    <2>1. /\ Head(events) \in Event
          /\ Tail(events) \in Seq(Event)
          /\ Len(Tail(events)) <= EventCap
      BY <1>2, EventCapAssumption DEF ProcessEvent, MonitorTypeOK
    <2>2. AddEvent(stats[Head(events).table], Head(events)) \in TableStats
      <3> DEFINE e == Head(events)
                 ts == stats[e.table]
      <3>1. e.count \in Nat /\ ts \in TableStats
        BY <2>1 DEF MonitorTypeOK, Event
      <3> HIDE DEF e, ts
      <3>2. AddEvent(ts, e) \in TableStats
        BY <3>1 DEF AddEvent, TableStats
      <3>3. QED
        BY <3>2 DEF e, ts
    <2>3. stats' \in [TableNames -> TableStats]
      BY <1>2, <2>2 DEF ProcessEvent, MonitorTypeOK
    <2>4. QED
      BY <1>2, <2>1, <2>3 DEF ProcessEvent, MonitorTypeOK
  <1>3. CASE LoopExit
    BY <1>3 DEF LoopExit, MonitorTypeOK
  <1>4. CASE Close
    BY <1>4 DEF Close, MonitorTypeOK
  <1>5. CASE UNCHANGED monitorVars
    BY <1>5 DEF monitorVars, MonitorTypeOK
  <1>6. QED
    BY <1>1, <1>2, <1>3, <1>4, <1>5 DEF Loop

LEMMA CreditType ==
    ASSUME MonitorTypeOK, NEW type \in CountedTypes, NEW t \in TableNames,
           Countable(type, t)
    PROVE  Tally(type, t) \in Nat /\ Credit(type, t) \in Nat
  <1>1. Cardinality(Units(events, type, t)) \in Nat
    BY FS_CardinalityType DEF Countable
  <1>2. Tally(type, t) \in Nat
    BY DEF MonitorTypeOK, Tally, TableStats, CountedTypes
  <1>3. QED
    BY <1>1, <1>2 DEF Credit

\* A send raises the credit of what it reports by what it reports.
LEMMA SendCredits ==
    ASSUME MonitorTypeOK, NEW type \in CountedTypes, NEW t \in TableNames, Countable(type, t),
           NEW evt \in Event, Send(evt)
    PROVE  Countable(type, t)' /\ Credit(type, t)' = Credit(type, t) + Amount(evt, type, t)
  <1>1. events \in Seq(Event) /\ events' = Append(events, evt) /\ UNCHANGED stats
    BY DEF MonitorTypeOK, Send
  <1>2. /\ IsFiniteSet(Units(events', type, t))
        /\ Cardinality(Units(events', type, t)) = Cardinality(Units(events, type, t)) + Amount(evt, type, t)
    BY <1>1, UnitsOfAppend DEF Countable
  <1>3. Tally(type, t)' = Tally(type, t) /\ Tally(type, t) \in Nat
    BY <1>1 DEF Tally, MonitorTypeOK, TableStats, CountedTypes
  <1>4. Amount(evt, type, t) \in Nat /\ Cardinality(Units(events, type, t)) \in Nat
    BY AmountType, FS_CardinalityType DEF Countable
  <1>5. QED
    BY <1>2, <1>3, <1>4 DEF Countable, Credit

\* The loop moves units from the channel to the statistics: it keeps every
\* credit, whatever the event at the head of the channel is about.
LEMMA LoopKeepsCredit ==
    ASSUME MonitorTypeOK, NEW type \in CountedTypes, NEW t \in TableNames, Countable(type, t),
           Loop \/ Close \/ UNCHANGED monitorVars
    PROVE  Countable(type, t)' /\ Credit(type, t)' = Credit(type, t)
  <1>1. CASE UNCHANGED <<events, stats>>
    BY <1>1 DEF Countable, Credit, Tally
  <1>2. CASE ProcessEvent
    <2> DEFINE e == Head(events)
               k == Amount(e, type, t)
    <2>1. events \in Seq(Event) /\ events # <<>> /\ events' = Tail(events)
      BY <1>2 DEF ProcessEvent, MonitorTypeOK
    <2>2. /\ IsFiniteSet(Units(events', type, t))
          /\ Cardinality(Units(events, type, t)) = Cardinality(Units(events', type, t)) + k
      BY <2>1, UnitsOfTail DEF Countable
    <2>3. e \in Event /\ k \in Nat
      BY <2>1, AmountType
    <2>4. Tally(type, t) \in Nat /\ Tally(type, t)' = Tally(type, t) + k
      <3>1. stats \in [TableNames -> TableStats] /\ e.table \in TableNames /\ e.count \in Nat
        BY <2>3 DEF MonitorTypeOK, Event
      <3> HIDE DEF e
      <3>2. stats' = [stats EXCEPT ![e.table] = AddEvent(stats[e.table], e)]
        BY <1>2 DEF ProcessEvent, e
      <3>3. /\ stats[t] \in TableStats
            /\ stats'[t] = IF e.table = t THEN AddEvent(stats[t], e) ELSE stats[t]
        BY <3>1, <3>2
      <3>4. CASE e.table = t
        BY <3>1, <3>3, <3>4 DEF Tally, Amount, AddEvent, TableStats, CountedTypes
      <3>5. CASE e.table # t
        BY <3>3, <3>5 DEF Tally, Amount, TableStats, CountedTypes
      <3>6. QED
        BY <3>4, <3>5
    <2>5. Cardinality(Units(events', type, t)) \in Nat
      BY <2>2, FS_CardinalityType
    <2> HIDE DEF k
    <2>6. QED
      BY <2>2, <2>3, <2>4, <2>5 DEF Countable, Credit, k
  <1>3. QED
    BY <1>1, <1>2 DEF Loop, LoopExit, Close, monitorVars

\* An empty channel holds no units: the statistics show the whole credit.
LEMMA DrainedCredit ==
    ASSUME NEW type \in CountedTypes, NEW t \in TableNames, MonitorTypeOK, events = <<>>
    PROVE  Countable(type, t) /\ Credit(type, t) = Tally(type, t)
  <1>1. Units(events, type, t) = {}
    BY DEF Units
  <1>2. Tally(type, t) \in Nat
    BY DEF MonitorTypeOK, Tally, TableStats, CountedTypes
  <1>3. IsFiniteSet(Units(events, type, t)) /\ Cardinality(Units(events, type, t)) = 0
    BY <1>1, FS_EmptySet
  <1>4. QED
    BY <1>2, <1>3 DEF Countable, Credit
=============================================================================
