---------------------------- MODULE RunLogProofs ----------------------------
(***************************************************************************)
(* The run log for any number of writers, torn lines, polls and lost       *)
(* connections: types, that the browser's stream is a start of the         *)
(* readable log without gaps or repetitions, and that the log and its      *)
(* stream implement EventStream.  Then its lock: types, that a reclaimer   *)
(* never drops the lock of a live process that has written its pid, for    *)
(* any number of processes, and that two processes without a lock left     *)
(* over implement OneWriter.                                               *)
(***************************************************************************)
EXTENDS RunLog, RunLogLock, FiniteSetTheorems, SequenceTheorems, WellFoundedInduction, TLAPS

\* A non-empty set of naturals has a least element.
LEMMA NatSetMin ==
  ASSUME NEW T \in SUBSET Nat, T # {}
  PROVE  \E m \in T : \A k \in T : m <= k
<1>1. PICK m \in T : \A k \in T : <<k, m>> \notin OpToRel(<, Nat)
  BY NatLessThanWellFounded, WFMin
<1>2. ASSUME NEW k \in T PROVE m <= k
  <2>1. ~(k < m)
    BY <1>1, <1>2 DEF OpToRel
  <2>2. k \in Nat /\ m \in Nat
    OBVIOUS
  <2> QED
    BY <2>1, <2>2
<1> QED
  BY <1>2

\* Induction stated for a set rather than a predicate.
LEMMA NatSetInduction ==
  ASSUME NEW S, 0 \in S, \A n \in Nat : n \in S => n + 1 \in S
  PROVE  \A n \in Nat : n \in S
<1> DEFINE T == {n \in Nat : n \notin S}
<1>1. SUFFICES ASSUME T # {} PROVE FALSE
  OBVIOUS
<1>2. T \in SUBSET Nat
  OBVIOUS
<1>3. PICK m \in T : \A k \in T : m <= k
  <2> HIDE DEF T
  <2> QED
    BY <1>1, <1>2, NatSetMin
<1>4. m # 0 /\ m - 1 \in Nat
  BY <1>3
<1> QED
  BY <1>3, <1>4

(* ---- The events of a range of lines ------------------------------------- *)

Picked(l, m, after, i) == i > m /\ l[i].valid /\ l[i].seq > after

IsEventsOn(g, l, m, after, n) ==
  g = [i \in 0..n |-> IF i = 0 THEN <<>>
                      ELSE IF Picked(l, m, after, i) THEN Append(g[i - 1], l[i].seq) ELSE g[i - 1]]

LEMMA EventsOnExists ==
  ASSUME NEW l, NEW m, NEW after
  PROVE  \A n \in Nat : \E g : IsEventsOn(g, l, m, after, n)
<1> DEFINE S == {n \in Nat : \E g : IsEventsOn(g, l, m, after, n)}
<1>1. 0 \in S
  <2>1. IsEventsOn([i \in 0..0 |-> <<>>], l, m, after, 0)
    BY DEF IsEventsOn
  <2>2. QED
    BY <2>1
<1>2. ASSUME NEW n \in Nat, n \in S
      PROVE  n + 1 \in S
  <2>1. PICK g : IsEventsOn(g, l, m, after, n)
    BY <1>2
  <2> DEFINE next == IF Picked(l, m, after, n + 1) THEN Append(g[n], l[n + 1].seq) ELSE g[n]
             h == [i \in 0..(n + 1) |-> IF i = n + 1 THEN next ELSE g[i]]
  <2>2. ASSUME NEW i \in 0..(n + 1)
        PROVE  h[i] = IF i = 0 THEN <<>>
                      ELSE IF Picked(l, m, after, i) THEN Append(h[i - 1], l[i].seq) ELSE h[i - 1]
    <3>1. CASE i = n + 1
      <4>1. h[n + 1] = next /\ h[(n + 1) - 1] = g[n]
        OBVIOUS
      <4>2. QED
        BY <3>1, <4>1
    <3>2. CASE i # n + 1
      <4>1. h[i] = g[i] /\ (i # 0 => h[i - 1] = g[i - 1])
        BY <3>2
      <4>2. g[i] = IF i = 0 THEN <<>>
                   ELSE IF Picked(l, m, after, i) THEN Append(g[i - 1], l[i].seq) ELSE g[i - 1]
        <5>1. i \in 0..n
          BY <3>2
        <5> HIDE DEF h, next
        <5>2. QED
          BY <2>1, <5>1 DEF IsEventsOn
      <4> HIDE DEF h
      <4>3. QED
        BY <4>1, <4>2
    <3>3. QED
      BY <3>1, <3>2
  <2>3. IsEventsOn(h, l, m, after, n + 1)
    <3>1. h = [i \in 0..(n + 1) |-> h[i]]
      OBVIOUS
    <3> HIDE DEF h
    <3>2. QED
      BY <2>2, <3>1 DEF IsEventsOn
  <2>4. QED
    BY <2>3
<1>3. QED
  <2> HIDE DEF S
  <2>1. \A n \in Nat : n \in S
    BY <1>1, <1>2, NatSetInduction
  <2>2. QED
    BY <2>1 DEF S

LEMMA EventsOnAgree ==
  ASSUME NEW l, NEW m, NEW after, NEW j \in Nat, NEW n \in Nat, NEW g, NEW h,
         IsEventsOn(g, l, m, after, j), IsEventsOn(h, l, m, after, n)
  PROVE  \A i \in Nat : i <= j /\ i <= n => g[i] = h[i]
<1> DEFINE S == {i \in Nat : i <= j /\ i <= n => g[i] = h[i]}
<1>1. 0 \in S
  BY DEF IsEventsOn
<1>2. ASSUME NEW i \in Nat, i \in S
      PROVE  i + 1 \in S
  <2>1. SUFFICES ASSUME i + 1 <= j, i + 1 <= n
                 PROVE  g[i + 1] = h[i + 1]
    OBVIOUS
  <2>2. g[i] = h[i]
    BY <1>2, <2>1
  <2> DEFINE Next1(f) == IF Picked(l, m, after, i + 1) THEN Append(f[i], l[i + 1].seq) ELSE f[i]
  <2>3. i + 1 \in 0..j /\ i + 1 \in 0..n /\ i + 1 # 0 /\ (i + 1) - 1 = i
    BY <2>1
  <2>4. g[i + 1] = Next1(g) /\ h[i + 1] = Next1(h)
    BY <2>3 DEF IsEventsOn
  <2>5. QED
    BY <2>2, <2>4
<1>3. QED
  <2> HIDE DEF S
  <2>1. \A i \in Nat : i \in S
    BY <1>1, <1>2, NatSetInduction
  <2>2. QED
    BY <2>1 DEF S

\* The two equations of EventsBetween: every other fact about it rests on them.
LEMMA EventsUnfold ==
  ASSUME NEW l, NEW m, NEW after
  PROVE  /\ EventsBetween(l, m, 0, after) = <<>>
         /\ \A n \in Nat : EventsBetween(l, m, n + 1, after) =
              IF Picked(l, m, after, n + 1)
              THEN Append(EventsBetween(l, m, n, after), l[n + 1].seq)
              ELSE EventsBetween(l, m, n, after)
<1> DEFINE Val(g, i) == IF i = 0 THEN <<>>
                        ELSE IF Picked(l, m, after, i) THEN Append(g[i - 1], l[i].seq) ELSE g[i - 1]
           R(g) == g = [i \in Nat |-> Val(g, i)]
           P(n) == CHOOSE g : IsEventsOn(g, l, m, after, n)
           s == [i \in Nat |-> P(i)[i]]
<1>1. \A n \in Nat : IsEventsOn(P(n), l, m, after, n)
  BY EventsOnExists
<1>2. R(s)
  <2>1. ASSUME NEW i \in Nat
        PROVE  s[i] = Val(s, i)
    <3>1. CASE i = 0
      <4>1. IsEventsOn(P(0), l, m, after, 0)
        BY <1>1
      <4> HIDE DEF P
      <4>2. P(0)[0] = <<>>
        BY <4>1 DEF IsEventsOn
      <4>3. QED
        BY <3>1, <4>2
    <3>2. CASE i # 0
      <4>1. i - 1 \in Nat
        BY <3>2
      <4>2. P(i)[i - 1] = P(i - 1)[i - 1]
        <5> HIDE DEF P
        <5>1. IsEventsOn(P(i), l, m, after, i) /\ IsEventsOn(P(i - 1), l, m, after, i - 1)
          BY <1>1, <4>1
        <5>2. QED
          BY <5>1, <4>1, EventsOnAgree
      <4>3. P(i)[i] = Val(P(i), i)
        <5> HIDE DEF P
        <5>1. IsEventsOn(P(i), l, m, after, i) /\ i \in 0..i
          BY <1>1
        <5>2. QED
          BY <5>1 DEF IsEventsOn
      <4>4. s[i] = P(i)[i] /\ s[i - 1] = P(i - 1)[i - 1]
        BY <4>1
      <4> HIDE DEF P, s
      <4>5. QED
        BY <3>2, <4>2, <4>3, <4>4
    <3>3. QED
      BY <3>1, <3>2
  <2>2. s = [i \in Nat |-> s[i]]
    OBVIOUS
  <2> HIDE DEF s, Val
  <2>3. QED
    BY <2>1, <2>2
<1>3. R(CHOOSE g : R(g))
  <2> HIDE DEF R, s
  <2>1. QED
    BY <1>2
<1>4. \A n : EventsBetween(l, m, n, after) = (CHOOSE g : R(g))[n]
  BY DEF EventsBetween, Picked
<1>5. QED
  <2> DEFINE t == CHOOSE g : R(g)
  <2>1. t = [i \in Nat |-> Val(t, i)]
    BY <1>3
  <2>2. \A n \in Nat : EventsBetween(l, m, n, after) = t[n]
    BY <1>4
  <2> HIDE DEF t
  <2>3. t[0] = <<>>
    BY <2>1
  <2>4. ASSUME NEW n \in Nat
        PROVE  t[n + 1] = IF Picked(l, m, after, n + 1) THEN Append(t[n], l[n + 1].seq) ELSE t[n]
    <3>1. n + 1 \in Nat /\ n + 1 # 0 /\ (n + 1) - 1 = n
      OBVIOUS
    <3>2. t[n + 1] = Val(t, n + 1)
      <4> HIDE DEF Val
      <4>1. QED
        BY <2>1, <3>1
    <3>3. QED
      BY <3>1, <3>2
  <2>5. QED
    BY <2>2, <2>3, <2>4

LEMMA AppendFacts ==
  ASSUME NEW s \in Seq(Nat), NEW x \in Nat, NEW t, t = Append(s, x)
  PROVE  /\ t \in Seq(Nat) /\ Len(t) = Len(s) + 1 /\ Len(s) \in Nat
         /\ \A j \in 1..Len(s) : t[j] = s[j]
         /\ t[Len(s) + 1] = x
  OBVIOUS

LEMMA PrefixFacts ==
  ASSUME NEW s \in Seq(Nat), NEW r \in Seq(Nat), IsPrefixOf(s, r)
  PROVE  /\ Len(s) \in Nat /\ Len(r) \in Nat /\ Len(s) <= Len(r)
         /\ \A i \in 1..Len(s) : i \in 1..Len(r) /\ s[i] = r[i]
<1>1. DOMAIN s = 1..Len(s) /\ Len(s) \in Nat /\ Len(r) \in Nat
  OBVIOUS
<1>2. Len(s) <= Len(r) /\ \A i \in 1..Len(s) : s[i] = r[i]
  BY <1>1 DEF IsPrefixOf
<1>3. QED
  BY <1>1, <1>2

LEMMA PrefixOfAppend ==
  ASSUME NEW s \in Seq(Nat), NEW r \in Seq(Nat), IsPrefixOf(s, r), NEW x \in Nat,
         NEW t, t = Append(r, x)
  PROVE  IsPrefixOf(s, t)
<1>1. /\ Len(t) = Len(r) + 1 /\ Len(s) \in Nat /\ Len(r) \in Nat
      /\ \A j \in 1..Len(r) : t[j] = r[j]
  BY AppendFacts
<1>2. Len(s) <= Len(r) /\ DOMAIN s = 1..Len(s) /\ \A j \in 1..Len(s) : s[j] = r[j]
  BY DEF IsPrefixOf
<1>3. \A j \in 1..Len(s) : j \in 1..Len(r) /\ s[j] = t[j]
  BY <1>1, <1>2
<1>4. QED
  BY <1>1, <1>2, <1>3 DEF IsPrefixOf

\* Events are natural numbers, each that of a readable line in the range.
LEMMA EventsType ==
  ASSUME NEW l \in Seq(Line), NEW m, NEW after, NEW n \in 0..Len(l)
  PROVE  /\ EventsBetween(l, m, n, after) \in Seq(Nat)
         /\ \A j \in 1..Len(EventsBetween(l, m, n, after)) : \E i \in 1..n :
              l[i].valid /\ EventsBetween(l, m, n, after)[j] = l[i].seq
<1> DEFINE E(k) == EventsBetween(l, m, k, after)
           Good(k) == /\ E(k) \in Seq(Nat)
                      /\ \A j \in 1..Len(E(k)) : \E i \in 1..k : l[i].valid /\ E(k)[j] = l[i].seq
           S == {k \in Nat : k <= n => Good(k)}
<1>1. 0 \in S
  <2>1. E(0) = <<>>
    BY EventsUnfold
  <2>2. <<>> \in Seq(Nat) /\ 1..Len(<<>>) = {}
    OBVIOUS
  <2>3. Good(0)
    <3> HIDE DEF E
    <3>1. E(0) \in Seq(Nat) /\ 1..Len(E(0)) = {}
      BY <2>1, <2>2
    <3>2. QED
      BY <3>1
  <2>4. QED
    BY <2>3
<1>2. ASSUME NEW k \in Nat, k \in S
      PROVE  k + 1 \in S
  <2>1. SUFFICES ASSUME k + 1 <= n
                 PROVE  Good(k + 1)
    OBVIOUS
  <2>2. Good(k)
    BY <1>2, <2>1
  <2>3. E(k + 1) = IF Picked(l, m, after, k + 1) THEN Append(E(k), l[k + 1].seq) ELSE E(k)
    BY EventsUnfold
  <2>4. l[k + 1] \in Line
    BY <2>1
  <2> HIDE DEF E
  <2>5. CASE Picked(l, m, after, k + 1)
    <3>1. E(k + 1) = Append(E(k), l[k + 1].seq) /\ l[k + 1].valid /\ l[k + 1].seq \in Nat
      BY <2>3, <2>4, <2>5 DEF Picked, Line
    <3>2. /\ E(k + 1) \in Seq(Nat) /\ Len(E(k + 1)) = Len(E(k)) + 1 /\ Len(E(k)) \in Nat
          /\ \A j \in 1..Len(E(k)) : E(k + 1)[j] = E(k)[j]
          /\ E(k + 1)[Len(E(k)) + 1] = l[k + 1].seq
      BY <3>1, <2>2, AppendFacts
    <3>3. ASSUME NEW j \in 1..Len(E(k + 1))
          PROVE  \E i \in 1..(k + 1) : l[i].valid /\ E(k + 1)[j] = l[i].seq
      <4>1. CASE j = Len(E(k)) + 1
        BY <4>1, <3>1, <3>2
      <4>2. CASE j \in 1..Len(E(k))
        <5>1. PICK i \in 1..k : l[i].valid /\ E(k)[j] = l[i].seq
          BY <4>2, <2>2
        <5>2. QED
          BY <5>1, <4>2, <3>2
      <4>3. QED
        BY <4>1, <4>2, <3>2
    <3>4. QED
      BY <3>2, <3>3
  <2>6. CASE ~Picked(l, m, after, k + 1)
    <3>1. E(k + 1) = E(k)
      BY <2>3, <2>6
    <3>2. QED
      BY <3>1, <2>2
  <2>7. QED
    BY <2>5, <2>6
<1>3. QED
  <2> HIDE DEF S
  <2>1. \A k \in Nat : k \in S
    BY <1>1, <1>2, NatSetInduction
  <2>2. n \in S
    BY <2>1
  <2>3. QED
    BY <2>2 DEF S

\* Logs that agree on their first lines have the same events there.
LEMMA EventsAgree ==
  ASSUME NEW l, NEW k, NEW m, NEW after, NEW n \in Nat, \A i \in 1..n : l[i] = k[i]
  PROVE  EventsBetween(l, m, n, after) = EventsBetween(k, m, n, after)
<1> DEFINE S == {i \in Nat : i <= n => EventsBetween(l, m, i, after) = EventsBetween(k, m, i, after)}
<1>1. 0 \in S
  BY EventsUnfold
<1>2. ASSUME NEW i \in Nat, i \in S
      PROVE  i + 1 \in S
  <2>1. SUFFICES ASSUME i + 1 <= n
                 PROVE  EventsBetween(l, m, i + 1, after) = EventsBetween(k, m, i + 1, after)
    OBVIOUS
  <2>2. EventsBetween(l, m, i, after) = EventsBetween(k, m, i, after)
    BY <1>2, <2>1
  <2>3. l[i + 1] = k[i + 1]
    BY <2>1
  <2>4. Picked(l, m, after, i + 1) <=> Picked(k, m, after, i + 1)
    BY <2>3 DEF Picked
  <2>5. EventsBetween(l, m, i + 1, after) =
          IF Picked(l, m, after, i + 1) THEN Append(EventsBetween(l, m, i, after), l[i + 1].seq)
          ELSE EventsBetween(l, m, i, after)
    BY EventsUnfold
  <2>6. EventsBetween(k, m, i + 1, after) =
          IF Picked(k, m, after, i + 1) THEN Append(EventsBetween(k, m, i, after), k[i + 1].seq)
          ELSE EventsBetween(k, m, i, after)
    BY EventsUnfold
  <2>7. QED
    BY <2>2, <2>3, <2>4, <2>5, <2>6
<1>3. QED
  <2> HIDE DEF S
  <2>1. \A i \in Nat : i \in S
    BY <1>1, <1>2, NatSetInduction
  <2>2. QED
    BY <2>1 DEF S

\* The events of the first lines are the first events.
LEMMA EventsPrefix ==
  ASSUME NEW l \in Seq(Line), NEW m, NEW after, NEW j \in Nat, NEW n \in 0..Len(l), j <= n
  PROVE  IsPrefixOf(EventsBetween(l, m, j, after), EventsBetween(l, m, n, after))
<1> DEFINE E(i) == EventsBetween(l, m, i, after)
           S == {i \in Nat : j <= i /\ i <= n => IsPrefixOf(E(j), E(i))}
<1>1. \A i \in 0..n : E(i) \in Seq(Nat)
  BY EventsType
<1>2. \A i \in Nat : E(i + 1) = IF Picked(l, m, after, i + 1) THEN Append(E(i), l[i + 1].seq) ELSE E(i)
  BY EventsUnfold
<1>3. IsPrefixOf(E(j), E(j))
  BY <1>1 DEF IsPrefixOf
<1>4. 0 \in S
  BY <1>3
<1>5. ASSUME NEW i \in Nat, i \in S
      PROVE  i + 1 \in S
  <2>1. SUFFICES ASSUME j <= i + 1, i + 1 <= n
                 PROVE  IsPrefixOf(E(j), E(i + 1))
    OBVIOUS
  <2>2. CASE j = i + 1
    BY <2>2, <1>3
  <2>3. CASE j <= i
    <3>1. IsPrefixOf(E(j), E(i)) /\ E(i) \in Seq(Nat) /\ E(i + 1) \in Seq(Nat) /\ E(j) \in Seq(Nat)
      BY <1>5, <2>1, <2>3, <1>1
    <3>2. l[i + 1].seq \in Nat
      <4>1. l[i + 1] \in Line
        BY <2>1
      <4>2. QED
        BY <4>1 DEF Line
    <3>3. E(i + 1) = E(i) \/ E(i + 1) = Append(E(i), l[i + 1].seq)
      BY <1>2
    <3> HIDE DEF E
    <3>4. CASE E(i + 1) = E(i)
      BY <3>1, <3>4
    <3>5. CASE E(i + 1) = Append(E(i), l[i + 1].seq)
      BY <3>1, <3>2, <3>5, PrefixOfAppend
    <3>6. QED
      BY <3>3, <3>4, <3>5
  <2>4. QED
    BY <2>1, <2>2, <2>3
<1>6. QED
  <2> HIDE DEF S
  <2>1. \A i \in Nat : i \in S
    BY <1>4, <1>5, NatSetInduction
  <2>2. n \in S
    BY <2>1
  <2>3. QED
    BY <2>2 DEF S

(* ---- Rising numbers ------------------------------------------------------- *)

Rising(l) ==
  \A i, j \in 1..Len(l) : i < j /\ l[i].valid /\ l[j].valid => l[i].seq < l[j].seq
Positive(l) == \A i \in 1..Len(l) : l[i].seq > 0

Increasing(s) == \A i, j \in 1..Len(s) : i < j => s[i] < s[j]

LEMMA IncreasingAppend ==
  ASSUME NEW s \in Seq(Nat), Increasing(s), NEW x \in Nat, \A j \in 1..Len(s) : s[j] < x,
         NEW t, t = Append(s, x)
  PROVE  Increasing(t)
<1>1. /\ Len(t) = Len(s) + 1 /\ Len(s) \in Nat
      /\ \A j \in 1..Len(s) : t[j] = s[j]
      /\ t[Len(s) + 1] = x
  BY AppendFacts
<1>2. ASSUME NEW i \in 1..Len(t), NEW j \in 1..Len(t), i < j
      PROVE  t[i] < t[j]
  <2>1. i \in 1..Len(s) /\ t[i] = s[i] /\ (j = Len(s) + 1 \/ j \in 1..Len(s))
    BY <1>1, <1>2
  <2>2. CASE j = Len(s) + 1
    BY <2>1, <2>2, <1>1
  <2>3. CASE j \in 1..Len(s)
    <3>1. t[j] = s[j] /\ s[i] < s[j]
      BY <2>1, <2>3, <1>1, <1>2 DEF Increasing
    <3>2. QED
      BY <2>1, <3>1
  <2>4. QED
    BY <2>1, <2>2, <2>3
<1>3. QED
  BY <1>2 DEF Increasing

LEMMA EventsIncrease ==
  ASSUME NEW l \in Seq(Line), Rising(l), NEW n \in 0..Len(l)
  PROVE  Increasing(EventsBetween(l, 0, n, -1))
<1> DEFINE E(i) == EventsBetween(l, 0, i, -1)
           S == {i \in Nat : i <= n => Increasing(E(i))}
<1>1. \A i \in 0..n : E(i) \in Seq(Nat) /\ \A j \in 1..Len(E(i)) : \E k \in 1..i : l[k].valid /\ E(i)[j] = l[k].seq
  BY EventsType
<1>2. 0 \in S
  <2>1. E(0) = <<>>
    BY EventsUnfold
  <2> HIDE DEF E
  <2>2. QED
    BY <2>1 DEF Increasing
<1>3. ASSUME NEW i \in Nat, i \in S
      PROVE  i + 1 \in S
  <2>1. SUFFICES ASSUME i + 1 <= n
                 PROVE  Increasing(E(i + 1))
    OBVIOUS
  <2>2. Increasing(E(i)) /\ E(i) \in Seq(Nat) /\ \A j \in 1..Len(E(i)) : \E k \in 1..i : l[k].valid /\ E(i)[j] = l[k].seq
    BY <1>1, <1>3, <2>1
  <2>3. E(i + 1) = IF Picked(l, 0, -1, i + 1) THEN Append(E(i), l[i + 1].seq) ELSE E(i)
    BY EventsUnfold
  <2>4. l[i + 1].seq \in Nat
    <3>1. l[i + 1] \in Line
      BY <2>1
    <3>2. QED
      BY <3>1 DEF Line
  <2> HIDE DEF E
  <2>5. CASE Picked(l, 0, -1, i + 1)
    <3>1. l[i + 1].valid /\ E(i + 1) = Append(E(i), l[i + 1].seq)
      BY <2>3, <2>5 DEF Picked
    <3>2. ASSUME NEW j \in 1..Len(E(i))
          PROVE  E(i)[j] < l[i + 1].seq
      <4>1. PICK k \in 1..i : l[k].valid /\ E(i)[j] = l[k].seq
        BY <2>2
      <4>2. QED
        BY <4>1, <3>1, <2>1 DEF Rising
    <3>3. QED
      BY <3>1, <3>2, <2>2, <2>4, IncreasingAppend
  <2>6. CASE ~Picked(l, 0, -1, i + 1)
    BY <2>2, <2>3, <2>6
  <2>7. QED
    BY <2>5, <2>6
<1>4. QED
  <2> HIDE DEF S
  <2>1. \A i \in Nat : i \in S
    BY <1>2, <1>3, NatSetInduction
  <2>2. n \in S
    BY <2>1
  <2>3. QED
    BY <2>2 DEF S

\* Every readable line of the log is among its events.
LEMMA EventsHave ==
  ASSUME NEW l \in Seq(Line), NEW n \in 1..Len(l), l[n].valid
  PROVE  LET k == Len(EventsBetween(l, 0, n, -1))
         IN  k \in 1..Len(Readable(l)) /\ Readable(l)[k] = l[n].seq
<1> DEFINE before == EventsBetween(l, 0, n - 1, -1)
           upto == EventsBetween(l, 0, n, -1)
           all == Readable(l)
<1>1. n - 1 \in 0..Len(l) /\ n \in 0..Len(l) /\ Len(l) \in 0..Len(l) /\ n - 1 \in Nat /\ (n - 1) + 1 = n
  OBVIOUS
<1>2. before \in Seq(Nat) /\ upto \in Seq(Nat)
  BY <1>1, EventsType
<1>3. all \in Seq(Nat) /\ IsPrefixOf(upto, all)
  BY <1>1, EventsType, EventsPrefix DEF Readable
<1>4. l[n].seq \in Nat
  <2>1. l[n] \in Line
    OBVIOUS
  <2>2. QED
    BY <2>1 DEF Line
<1>5. upto = Append(before, l[n].seq)
  <2>1. Picked(l, 0, -1, n)
    BY <1>4 DEF Picked
  <2>2. EventsBetween(l, 0, (n - 1) + 1, -1) =
          IF Picked(l, 0, -1, (n - 1) + 1) THEN Append(before, l[(n - 1) + 1].seq) ELSE before
    BY <1>1, EventsUnfold
  <2>3. QED
    BY <1>1, <2>1, <2>2
<1> HIDE DEF before, upto, all
<1>6. Len(upto) = Len(before) + 1 /\ Len(before) \in Nat /\ upto[Len(before) + 1] = l[n].seq
  BY <1>2, <1>4, <1>5, AppendFacts
<1>7. Len(upto) \in 1..Len(all) /\ all[Len(upto)] = l[n].seq
  <2>1. \A i \in 1..Len(upto) : i \in 1..Len(all) /\ upto[i] = all[i]
    BY <1>2, <1>3, PrefixFacts
  <2>2. Len(upto) \in 1..Len(upto)
    BY <1>6
  <2>3. QED
    BY <2>1, <2>2, <1>6
<1>8. QED
  BY <1>7 DEF upto, all

LEMMA PrefixesEqual ==
  ASSUME NEW s \in Seq(Nat), NEW t \in Seq(Nat), NEW r \in Seq(Nat),
         IsPrefixOf(s, r), IsPrefixOf(t, r), Len(s) = Len(t)
  PROVE  s = t
<1>1. (\A i \in 1..Len(s) : s[i] = r[i]) /\ (\A i \in 1..Len(t) : t[i] = r[i])
  BY PrefixFacts
<1>2. \A i \in 1..Len(s) : s[i] = t[i]
  BY <1>1
<1>3. QED
  BY <1>2, SeqEqual

LEMMA PrefixTransitive ==
  ASSUME NEW s \in Seq(Nat), NEW t \in Seq(Nat), NEW r \in Seq(Nat),
         IsPrefixOf(s, t), IsPrefixOf(t, r)
  PROVE  IsPrefixOf(s, r)
<1>1. /\ DOMAIN s = 1..Len(s) /\ DOMAIN t = 1..Len(t) /\ Len(s) \in Nat /\ Len(t) \in Nat
      /\ Len(r) \in Nat /\ Len(s) <= Len(t) /\ Len(t) <= Len(r)
  BY DEF IsPrefixOf
<1>2. \A i \in 1..Len(s) : i \in 1..Len(t) /\ s[i] = t[i] /\ t[i] = r[i]
  BY <1>1 DEF IsPrefixOf
<1>3. QED
  BY <1>1, <1>2 DEF IsPrefixOf

LEMMA ConcatAppend ==
  ASSUME NEW p \in Seq(Nat), NEW q \in Seq(Nat), NEW x \in Nat
  PROVE  p \o Append(q, x) = Append(p \o q, x)
<1>1. <<x>> \in Seq(Nat) /\ p \o q \in Seq(Nat)
  BY ConcatProperties
<1>2. Append(q, x) = q \o <<x>>
  BY AppendIsConcat
<1>3. Append(p \o q, x) = (p \o q) \o <<x>>
  BY <1>1, AppendIsConcat
<1>4. (p \o q) \o <<x>> = p \o (q \o <<x>>)
  BY <1>1, ConcatAssociative
<1>5. QED
  BY <1>2, <1>3, <1>4

LEMMA LastOf ==
  ASSUME NEW s \in Seq(Nat)
  PROVE  /\ LastSeq(s) \in Nat
         /\ Increasing(s) => \A i \in 1..Len(s) : s[i] <= LastSeq(s)
<1>1. Len(s) \in Nat /\ (s # <<>> => Len(s) \in 1..Len(s)) /\ \A i \in 1..Len(s) : s[i] \in Nat
  OBVIOUS
<1>2. LastSeq(s) \in Nat
  BY <1>1 DEF LastSeq
<1>3. ASSUME Increasing(s), NEW i \in 1..Len(s)
      PROVE  s[i] <= LastSeq(s)
  <2>1. s # <<>>
    BY <1>3
  <2>2. i = Len(s) \/ i < Len(s)
    BY <1>1
  <2>3. QED
    BY <2>1, <2>2, <1>1, <1>3 DEF LastSeq, Increasing
<1>4. QED
  BY <1>2, <1>3

LEMMA PrefixIncreases ==
  ASSUME NEW s \in Seq(Nat), NEW r \in Seq(Nat), IsPrefixOf(s, r), Increasing(r)
  PROVE  Increasing(s)
<1>1. \A i \in 1..Len(s) : i \in 1..Len(r) /\ s[i] = r[i]
  BY PrefixFacts
<1>2. QED
  BY <1>1 DEF Increasing

\* What a poll reads from line m on, without what is up to the last event of p,
\* is what p lacks of the log's events: the heart of the proof.
LEMMA CatchUp ==
  ASSUME NEW l \in Seq(Line), Rising(l), Positive(l),
         NEW p \in Seq(Nat), IsPrefixOf(p, Readable(l)),
         NEW m \in 0..Len(l), Len(EventsBetween(l, 0, m, -1)) <= Len(p)
  PROVE  p \o NewEvents(l, m, LastSeq(p)) = Readable(l)
<1> DEFINE R == Readable(l)
           Up(n) == EventsBetween(l, 0, n, -1)
           New(n) == EventsBetween(l, m, n, LastSeq(p))
           Good(n) == /\ Len(Up(n)) <= Len(p) => New(n) = <<>>
                      /\ Len(Up(n)) >= Len(p) => p \o New(n) = Up(n)
           S == {n \in Nat : n <= Len(l) => Good(n)}
<1>1. /\ Len(l) \in Nat /\ Len(p) \in Nat /\ R \in Seq(Nat)
      /\ \A n \in 0..Len(l) : Up(n) \in Seq(Nat) /\ Len(Up(n)) \in Nat /\ New(n) \in Seq(Nat)
  <2>1. Len(l) \in 0..Len(l) /\ Len(l) \in Nat /\ Len(p) \in Nat
    OBVIOUS
  <2>2. R \in Seq(Nat)
    BY <2>1, EventsType DEF Readable
  <2>3. ASSUME NEW n \in 0..Len(l)
        PROVE  Up(n) \in Seq(Nat) /\ New(n) \in Seq(Nat)
    BY EventsType
  <2> HIDE DEF Up, New, R
  <2>4. QED
    BY <2>1, <2>2, <2>3
<1>2. \A n \in 0..Len(l) : IsPrefixOf(Up(n), R)
  BY EventsPrefix DEF Readable
<1>3. Increasing(R) /\ Increasing(p)
  <2>1. Increasing(R)
    BY EventsIncrease DEF Readable
  <2> HIDE DEF R
  <2>2. QED
    BY <2>1, <1>1, PrefixIncreases DEF R
<1>4. Up(0) = <<>> /\ New(0) = <<>>
  BY EventsUnfold
<1>5. \A n \in Nat :
        /\ Up(n + 1) = IF Picked(l, 0, -1, n + 1) THEN Append(Up(n), l[n + 1].seq) ELSE Up(n)
        /\ New(n + 1) = IF Picked(l, m, LastSeq(p), n + 1) THEN Append(New(n), l[n + 1].seq) ELSE New(n)
  BY EventsUnfold
<1>6. R = Up(Len(l))
  BY DEF Readable
<1>7. IsPrefixOf(p, R) /\ Len(Up(m)) <= Len(p)
  OBVIOUS
<1>8. \A n \in 0..Len(l) : n <= m => Len(Up(n)) <= Len(Up(m))
  <2>1. \A n \in 0..Len(l) : n <= m => IsPrefixOf(Up(n), Up(m))
    BY EventsPrefix
  <2> HIDE DEF Up
  <2>2. QED
    BY <2>1 DEF IsPrefixOf
<1> HIDE DEF R, Up, New
<1>9. 0 \in S
  <2>1. Len(Up(0)) = 0 /\ (Len(p) <= 0 => p = <<>>)
    BY <1>1, <1>4
  <2>2. Good(0)
    BY <2>1, <1>4, <1>1, ConcatEmptySeq
  <2>3. QED
    BY <2>2
<1>10. ASSUME NEW n \in Nat, n \in S, n + 1 <= Len(l)
       PROVE  Good(n + 1)
  <2> DEFINE x == l[n + 1].seq
  <2>1. Good(n) /\ n \in 0..Len(l) /\ n + 1 \in 0..Len(l)
    BY <1>10, <1>1
  <2>2. l[n + 1].valid \in BOOLEAN /\ x \in Nat /\ x > 0
    <3>1. l[n + 1] \in Line /\ n + 1 \in 1..Len(l)
      BY <1>10
    <3>2. QED
      BY <3>1 DEF Line, Positive
  <2>6. /\ Up(n) \in Seq(Nat) /\ Up(n + 1) \in Seq(Nat) /\ New(n) \in Seq(Nat)
        /\ Len(Up(n)) \in Nat /\ Len(Up(n + 1)) \in Nat /\ Len(p) \in Nat
    BY <2>1, <1>1
  <2>7. /\ Len(Up(n)) <= Len(p) => New(n) = <<>>
        /\ Len(Up(n)) >= Len(p) => p \o New(n) = Up(n)
    BY <2>1
  <2>3. CASE ~l[n + 1].valid
    <3>1. Up(n + 1) = Up(n) /\ New(n + 1) = New(n)
      BY <2>3, <1>5 DEF Picked
    <3>2. QED
      BY <2>1, <3>1
  <2>4. CASE l[n + 1].valid
    <3>1. Up(n + 1) = Append(Up(n), x)
      <4>1. Picked(l, 0, -1, n + 1)
        BY <2>2, <2>4 DEF Picked
      <4>2. QED
        BY <4>1, <1>5
    <3> DEFINE k == Len(Up(n + 1))
    <3>2. k = Len(Up(n)) + 1 /\ k \in Nat /\ Up(n + 1)[k] = x
      <4>1. Len(Up(n + 1)) = Len(Up(n)) + 1 /\ Up(n + 1)[Len(Up(n)) + 1] = x
        BY <3>1, <2>6, <2>2, AppendFacts
      <4>2. QED
        BY <4>1, <2>6
    <3>3. k \in 1..Len(R) /\ R[k] = x
      <4>1. \A i \in 1..k : i \in 1..Len(R) /\ Up(n + 1)[i] = R[i]
        BY <2>1, <1>1, <1>2, PrefixFacts
      <4>2. k \in 1..k
        BY <3>2, <1>1, <2>1
      <4>3. QED
        BY <4>1, <4>2, <3>2
    <3>4. Len(p) <= Len(R) /\ \A i \in 1..Len(p) : i \in 1..Len(R) /\ p[i] = R[i]
      BY <1>1, <1>7, PrefixFacts
    <3> HIDE DEF k, x
    <3>5. CASE k <= Len(p)
      <4>1. k \in 1..Len(p) /\ p[k] = x
        BY <3>3, <3>4, <3>5, <1>1
      <4>2. x <= LastSeq(p) /\ LastSeq(p) \in Nat
        BY <4>1, <1>3, LastOf
      <4>3. New(n + 1) = New(n)
        <5>1. ~Picked(l, m, LastSeq(p), n + 1)
          BY <4>2, <2>2 DEF Picked, x
        <5>2. QED
          BY <5>1, <1>5
      <4>4. New(n + 1) = <<>>
        BY <4>3, <2>6, <2>7, <3>2, <3>5
      <4>5. Len(Up(n + 1)) >= Len(p) => p \o New(n + 1) = Up(n + 1)
        <5>1. SUFFICES ASSUME Len(Up(n + 1)) >= Len(p)
                       PROVE  p \o New(n + 1) = Up(n + 1)
          OBVIOUS
        <5>2. Len(Up(n + 1)) = Len(p)
          BY <5>1, <3>5, <2>6 DEF k
        <5>3. IsPrefixOf(Up(n + 1), R)
          BY <2>1, <1>2
        <5>4. p = Up(n + 1)
          BY <5>2, <5>3, <2>6, <1>1, <1>7, PrefixesEqual
        <5>5. p \o <<>> = p
          BY ConcatEmptySeq
        <5>6. QED
          BY <5>4, <5>5, <4>4
      <4>6. QED
        BY <4>4, <4>5
    <3>6. CASE k > Len(p)
      <4>1. p \o New(n) = Up(n)
        <5>1. Len(Up(n)) >= Len(p)
          BY <3>2, <3>6, <2>6
        <5>2. QED
          BY <5>1, <2>7
      <4>2. n + 1 > m
        <5>1. SUFFICES ASSUME n + 1 <= m
                       PROVE  FALSE
          OBVIOUS
        <5>2. k <= Len(Up(m))
          BY <5>1, <2>1, <1>8 DEF k
        <5>3. QED
          BY <5>2, <3>2, <3>6, <1>1, <1>7
      <4>3. x > LastSeq(p)
        <5>1. CASE p = <<>>
          BY <5>1, <2>2 DEF LastSeq, x
        <5>2. CASE p # <<>>
          <6>1. Len(p) \in 1..Len(p) /\ LastSeq(p) = p[Len(p)]
            BY <5>2 DEF LastSeq
          <6>2. Len(p) \in 1..Len(R) /\ LastSeq(p) = R[Len(p)]
            BY <6>1, <3>4
          <6>3. R[Len(p)] < R[k]
            BY <6>2, <3>3, <3>6, <1>3 DEF Increasing
          <6>4. QED
            BY <6>2, <6>3, <3>3, <1>1
        <5>3. QED
          BY <5>1, <5>2
      <4>4. New(n + 1) = Append(New(n), x)
        <5>1. Picked(l, m, LastSeq(p), n + 1)
          BY <2>4, <4>2, <4>3 DEF Picked, x
        <5>2. QED
          BY <5>1, <1>5 DEF x
      <4>5. p \o New(n + 1) = Up(n + 1)
        <5>1. p \o Append(New(n), x) = Append(p \o New(n), x)
          BY <2>1, <2>2, <1>1, ConcatAppend DEF x
        <5>2. QED
          BY <5>1, <4>1, <4>4, <3>1 DEF x
      <4>6. ~(Len(Up(n + 1)) <= Len(p))
        BY <3>6, <2>6 DEF k
      <4>7. QED
        BY <4>5, <4>6
    <3>7. k <= Len(p) \/ k > Len(p)
      BY <3>2, <2>6
    <3>8. QED
      BY <3>5, <3>6, <3>7
  <2>5. QED
    BY <2>3, <2>4
<1>11. Len(l) \in S
  <2>1. ASSUME NEW n \in Nat, n \in S
        PROVE  n + 1 \in S
    <3>1. n + 1 <= Len(l) => Good(n + 1)
      BY <1>10, <2>1
    <3> HIDE DEF Good
    <3>2. QED
      BY <3>1
  <2> HIDE DEF S
  <2>2. \A n \in Nat : n \in S
    BY <1>9, <2>1, NatSetInduction
  <2>3. QED
    BY <2>2, <1>1
<1>12. Good(Len(l))
  BY <1>11, <1>1
<1>13. Len(R) >= Len(p)
  BY <1>1, <1>7, PrefixFacts
<1>14. p \o New(Len(l)) = R
  <2>1. Len(Up(Len(l))) >= Len(p)
    BY <1>13, <1>6
  <2>2. QED
    BY <1>12, <2>1, <1>6
<1>15. QED
  BY <1>14 DEF R, New, NewEvents

(* ---- The invariant --------------------------------------------------------- *)

OneAtATime == \A p, q \in writers : p = q

\* A writer's number is not below that of any readable line, and is above them
\* all while it writes the next.
Ahead == \A p \in writers : \A i \in 1..Len(log) : log[i].valid =>
           log[i].seq <= seq[p] /\ (writing[p] => log[i].seq < seq[p])

Numbered == Positive(log) /\ \A p \in Openers : writing[p] => seq[p] > 0

\* The server is never ahead of what it sent: its last is that of the stream,
\* and the lines before its offset are in the stream.
Position ==
  /\ last = LastSeq(received \o sent)
  /\ Len(EventsBetween(log, 0, offset, -1)) <= Len(received \o sent)

LogInv == OneAtATime /\ Ahead /\ Numbered /\ Rising(log)
IInv == RunLogTypeOK /\ LogInv /\ StreamHasNoGap /\ Position

LEMMA ReadableType ==
  ASSUME NEW l \in Seq(Line)
  PROVE  /\ Readable(l) \in Seq(Nat)
         /\ \A j \in 1..Len(Readable(l)) : \E i \in 1..Len(l) : l[i].valid /\ Readable(l)[j] = l[i].seq
<1>1. Len(l) \in 0..Len(l)
  OBVIOUS
<1>2. QED
  BY <1>1, EventsType DEF Readable

\* The number a process continues from is not below that of any readable line.
LEMMA HighestCovers ==
  ASSUME NEW l \in Seq(Line), Rising(l)
  PROVE  /\ HighestSeq(Readable(l)) \in Nat
         /\ \A i \in 1..Len(l) : l[i].valid => l[i].seq <= HighestSeq(Readable(l))
<1> DEFINE s == Readable(l)
           N == {0} \cup {s[i] : i \in DOMAIN s}
<1>1. s \in Seq(Nat)
  BY ReadableType
<1>2. Increasing(s)
  <2>1. Len(l) \in 0..Len(l)
    OBVIOUS
  <2>2. QED
    BY <2>1, EventsIncrease DEF Readable
<1>3. \A i \in 1..Len(l) : l[i].valid => \E k \in 1..Len(s) : s[k] = l[i].seq
  BY EventsHave
<1> HIDE DEF s
<1>4. DOMAIN s = 1..Len(s) /\ N \subseteq Nat
  BY <1>1
<1>5. \E n \in N : \A i \in DOMAIN s : s[i] <= n
  <2>1. LastSeq(s) \in N
    <3>1. s # <<>> => Len(s) \in 1..Len(s)
      BY <1>1
    <3>2. QED
      BY <3>1, <1>4 DEF LastSeq
  <2>2. QED
    BY <2>1, <1>1, <1>2, <1>4, LastOf
<1> HIDE DEF N
<1>6. HighestSeq(s) = CHOOSE n \in N : \A i \in DOMAIN s : s[i] <= n
  BY DEF HighestSeq, N
<1>7. HighestSeq(s) \in N /\ \A i \in DOMAIN s : s[i] <= HighestSeq(s)
  BY <1>5, <1>6
<1>8. QED
  <2>1. HighestSeq(s) \in Nat
    BY <1>4, <1>7
  <2>2. \A i \in 1..Len(l) : l[i].valid => l[i].seq <= HighestSeq(s)
    BY <1>3, <1>4, <1>7
  <2>3. QED
    BY <2>1, <2>2 DEF s

IsExtended(k, l, x) == k = Append(l, x)

\* What a complete line adds to the log and to its events.
LEMMA LineAdded ==
  ASSUME NEW l \in Seq(Line), NEW x \in Line, NEW k, IsExtended(k, l, x)
  PROVE  /\ k \in Seq(Line) /\ Len(k) = Len(l) + 1 /\ Len(l) \in Nat
         /\ \A i \in 1..Len(l) : k[i] = l[i]
         /\ k[Len(l) + 1] = x
         /\ \A n \in 0..Len(l) : EventsBetween(k, 0, n, -1) = EventsBetween(l, 0, n, -1)
         /\ Readable(k) = IF x.valid THEN Append(Readable(l), x.seq) ELSE Readable(l)
         /\ IsPrefixOf(Readable(l), Readable(k))
<1>1. /\ k \in Seq(Line) /\ Len(k) = Len(l) + 1 /\ Len(l) \in Nat
      /\ \A i \in 1..Len(l) : k[i] = l[i]
      /\ k[Len(l) + 1] = x
  BY DEF IsExtended
<1>2. ASSUME NEW n \in 0..Len(l)
      PROVE  EventsBetween(k, 0, n, -1) = EventsBetween(l, 0, n, -1)
  <2>1. n \in Nat /\ \A i \in 1..n : k[i] = l[i]
    BY <1>1
  <2>2. QED
    BY ONLY <2>1, EventsAgree
<1>3. EventsBetween(k, 0, Len(l), -1) = Readable(l)
  <2>1. Len(l) \in 0..Len(l)
    BY <1>1
  <2>2. QED
    BY <2>1, <1>2 DEF Readable
<1>4. Readable(k) = IF x.valid THEN Append(Readable(l), x.seq) ELSE Readable(l)
  <2>1. EventsBetween(k, 0, Len(l) + 1, -1) =
          IF Picked(k, 0, -1, Len(l) + 1)
          THEN Append(EventsBetween(k, 0, Len(l), -1), k[Len(l) + 1].seq)
          ELSE EventsBetween(k, 0, Len(l), -1)
    BY <1>1, EventsUnfold
  <2>2. Picked(k, 0, -1, Len(l) + 1) <=> x.valid
    <3>1. x.seq \in Nat
      BY DEF Line
    <3>2. Len(l) + 1 > 0
      BY <1>1
    <3>3. QED
      BY <1>1, <3>1, <3>2 DEF Picked
  <2>3. QED
    BY <2>1, <2>2, <1>1, <1>3 DEF Readable
<1>5. IsPrefixOf(Readable(l), Readable(k))
  <2>1. Len(l) \in Nat /\ Len(k) \in 0..Len(k) /\ Len(l) <= Len(k)
    BY <1>1
  <2>2. QED
    BY <2>1, <1>1, <1>3, EventsPrefix DEF Readable
<1>6. QED
  BY <1>1, <1>2, <1>4, <1>5

LEMMA LineTypes ==
  ASSUME NEW l \in Seq(Line)
  PROVE  \A i \in 1..Len(l) : l[i].seq \in Nat /\ l[i].valid \in BOOLEAN
<1>1. \A i \in 1..Len(l) : l[i] \in Line
  OBVIOUS
<1>2. QED
  BY <1>1 DEF Line

LEMMA InitIInv == RunLogInit => IInv
<1> SUFFICES ASSUME RunLogInit
             PROVE  IInv
  OBVIOUS
<1> USE RunLogAssumption DEF RunLogInit, Init
<1>1. Len(log) = 0 /\ 1..Len(log) = {} /\ <<>> \o <<>> = <<>> /\ Len(<<>>) = 0
  OBVIOUS
<1>2. RunLogTypeOK
  BY <1>1 DEF RunLogTypeOK
<1>3. LogInv
  BY <1>1 DEF LogInv, OneAtATime, Ahead, Numbered, Positive, Rising
<1>4. EventsBetween(log, 0, 0, -1) = <<>>
  BY EventsUnfold
<1>5. StreamHasNoGap
  <2>1. received \o sent = <<>> /\ Readable(log) = <<>>
    BY <1>1, <1>4 DEF Readable
  <2>2. QED
    BY <2>1 DEF StreamHasNoGap, IsPrefixOf
<1>6. Position
  BY <1>1, <1>4 DEF Position, LastSeq
<1>7. QED
  BY <1>2, <1>3, <1>5, <1>6 DEF IInv

\* The steps that leave the log and the reader alone keep the stream as it is.
LEMMA StreamUnchanged ==
  ASSUME StreamHasNoGap, Position, log' = log, UNCHANGED readerVars
  PROVE  StreamHasNoGap' /\ Position'
  BY DEF StreamHasNoGap, Position, readerVars

LEMMA OpenLogIInv ==
  ASSUME IInv, NEW p \in Openers, OpenLog(p)
  PROVE  IInv'
<1> USE DEF IInv, LogInv
<1>1. /\ writers = {} /\ writers' = {p} /\ UNCHANGED <<log, tail, writing, published, readerVars>>
      /\ seq' = [seq EXCEPT ![p] = HighestSeq(Readable(log))]
  BY DEF OpenLog, Open
<1>2. /\ HighestSeq(Readable(log)) \in Nat
      /\ \A i \in 1..Len(log) : log[i].valid => log[i].seq <= HighestSeq(Readable(log))
  BY HighestCovers DEF RunLogTypeOK
<1>3. \A q \in Openers : ~writing[q]
  BY <1>1 DEF RunLogTypeOK
<1>4. RunLogTypeOK'
  BY <1>1, <1>2, <1>3 DEF RunLogTypeOK, readerVars
<1>5. LogInv'
  <2>1. OneAtATime' /\ Rising(log)' /\ Numbered'
    BY <1>1, <1>3 DEF OneAtATime, Numbered
  <2>2. Ahead'
    <3>1. seq'[p] = HighestSeq(Readable(log)) /\ ~writing'[p] /\ log' = log
      BY <1>1, <1>3 DEF RunLogTypeOK
    <3>2. QED
      BY <3>1, <1>1, <1>2 DEF Ahead
  <2>3. QED
    BY <2>1, <2>2
<1>6. QED
  BY <1>1, <1>4, <1>5, StreamUnchanged

LEMMA PublishBeginIInv ==
  ASSUME IInv, NEW p \in Openers, PublishBegin(p)
  PROVE  IInv'
<1> USE DEF IInv, LogInv
<1>1. /\ p \in writers /\ ~writing[p] /\ UNCHANGED <<writers, log, published, readerVars>>
      /\ seq' = [seq EXCEPT ![p] = @ + 1] /\ writing' = [writing EXCEPT ![p] = TRUE]
      /\ tail' \in {"part", "glued"}
  BY DEF PublishBegin
<1>2. RunLogTypeOK'
  BY <1>1 DEF RunLogTypeOK, readerVars
<1>3. \A q \in writers : q = p
  BY <1>1 DEF OneAtATime
<1>4. seq'[p] = seq[p] + 1 /\ seq[p] \in Nat
  BY <1>1 DEF RunLogTypeOK
<1>5. LogInv'
  <2>1. OneAtATime' /\ Rising(log)'
    BY <1>1 DEF OneAtATime
  <2>2. Ahead'
    <3>1. SUFFICES ASSUME NEW i \in 1..Len(log), log[i].valid
                   PROVE  log[i].seq < seq'[p]
      <4>1. \A i \in 1..Len(log) : log[i].seq \in Nat
        BY LineTypes DEF RunLogTypeOK
      <4>2. QED
        BY <1>1, <1>3, <1>4, <4>1 DEF Ahead
    <3>2. log[i].seq <= seq[p] /\ log[i].seq \in Nat
      BY <1>1, <3>1, LineTypes DEF Ahead, RunLogTypeOK
    <3>3. QED
      BY <3>2, <1>4
  <2>3. Numbered'
    <3>1. \A q \in Openers : q # p => (writing'[q] <=> writing[q]) /\ seq'[q] = seq[q]
      BY <1>1 DEF RunLogTypeOK
    <3>2. seq'[p] > 0
      BY <1>4
    <3>3. QED
      BY <3>1, <3>2, <1>1 DEF Numbered
  <2>4. QED
    BY <2>1, <2>2, <2>3
<1>6. QED
  BY <1>1, <1>2, <1>5, StreamUnchanged

LEMMA PublishEndIInv ==
  ASSUME IInv, NEW p \in Openers, PublishEnd(p)
  PROVE  IInv'
<1> USE DEF IInv, LogInv
<1> DEFINE line == [seq |-> seq[p], valid |-> tail = "part"]
<1>1. /\ writing[p] /\ log' = Append(log, line) /\ tail' = "nothing"
      /\ writing' = [writing EXCEPT ![p] = FALSE] /\ published' = Append(published, seq[p])
      /\ UNCHANGED <<writers, seq, readerVars>>
  BY DEF PublishEnd
<1>2. line \in Line /\ line.seq = seq[p] /\ line.valid \in BOOLEAN
  BY DEF Line, RunLogTypeOK
<1>3. log \in Seq(Line)
  BY DEF RunLogTypeOK
<1>4. /\ log' \in Seq(Line) /\ Len(log') = Len(log) + 1 /\ Len(log) \in Nat
      /\ \A i \in 1..Len(log) : log'[i] = log[i]
      /\ log'[Len(log) + 1] = line
      /\ \A n \in 0..Len(log) : EventsBetween(log', 0, n, -1) = EventsBetween(log, 0, n, -1)
      /\ Readable(log') = IF line.valid THEN Append(Readable(log), line.seq) ELSE Readable(log)
      /\ IsPrefixOf(Readable(log), Readable(log'))
  <2>1. IsExtended(log', log, line)
    BY <1>1 DEF IsExtended
  <2> HIDE DEF line
  <2>2. QED
    BY ONLY <2>1, <1>2, <1>3, LineAdded
<1> HIDE DEF line
<1>5. p \in writers /\ \A q \in writers : q = p
  BY <1>1 DEF OneAtATime, RunLogTypeOK
<1>6. RunLogTypeOK'
  <2>1. published' \in Seq(Nat) /\ writing' \in [Openers -> BOOLEAN]
    BY <1>1 DEF RunLogTypeOK
  <2>2. \A q \in Openers : ~writing'[q]
    BY <1>1, <1>5 DEF RunLogTypeOK
  <2>3. offset' \in 0..Len(log')
    BY <1>1, <1>4 DEF RunLogTypeOK, readerVars
  <2>4. QED
    BY <1>1, <1>4, <2>1, <2>2, <2>3 DEF RunLogTypeOK, readerVars
<1>7. ~writing'[p] /\ seq[p] \in Nat /\ seq[p] > 0
  BY <1>1 DEF RunLogTypeOK, Numbered
<1>8. \A i \in 1..Len(log') :
        (i \in 1..Len(log) /\ log'[i] = log[i]) \/ (i = Len(log) + 1 /\ log'[i] = line)
  <2>1. \A i \in 1..Len(log') : i \in 1..Len(log) \/ i = Len(log) + 1
    BY <1>4
  <2>2. QED
    BY <2>1, <1>4
<1>9. \A i \in 1..Len(log) : log[i].seq \in Nat /\ (log[i].valid => log[i].seq < seq[p])
  BY <1>1, <1>3, <1>5, LineTypes DEF Ahead
<1>10. LogInv'
  <2>1. OneAtATime'
    BY <1>1 DEF OneAtATime
  <2>2. Ahead'
    BY <1>1, <1>2, <1>5, <1>7, <1>8, <1>9 DEF Ahead
  <2>3. Numbered'
    <3>1. \A i \in 1..Len(log') : log'[i].seq > 0
      BY <1>2, <1>7, <1>8 DEF Numbered, Positive
    <3>2. \A q \in Openers : writing'[q] => seq'[q] > 0
      BY <1>1 DEF Numbered, RunLogTypeOK
    <3>3. QED
      BY <3>1, <3>2 DEF Numbered, Positive
  <2>4. Rising(log)'
    <3>1. SUFFICES ASSUME NEW i \in 1..Len(log'), NEW j \in 1..Len(log'),
                          i < j, log'[i].valid, log'[j].valid
                   PROVE  log'[i].seq < log'[j].seq
      BY DEF Rising
    <3>2. i \in 1..Len(log) /\ log'[i] = log[i]
      BY <3>1, <1>4, <1>8
    <3>3. CASE j \in 1..Len(log) /\ log'[j] = log[j]
      BY <3>1, <3>2, <3>3 DEF Rising
    <3>4. CASE j = Len(log) + 1 /\ log'[j] = line
      BY <3>1, <3>2, <3>4, <1>2, <1>9
    <3>5. QED
      BY <3>3, <3>4, <1>8
  <2>5. QED
    BY <2>1, <2>2, <2>3, <2>4
<1>11. StreamHasNoGap'
  <2>1. received \o sent \in Seq(Nat)
    BY ConcatProperties DEF RunLogTypeOK
  <2>2. Readable(log) \in Seq(Nat) /\ Readable(log') \in Seq(Nat)
    BY <1>3, <1>4, ReadableType
  <2>3. IsPrefixOf(received \o sent, Readable(log'))
    BY <2>1, <2>2, <1>4, PrefixTransitive DEF StreamHasNoGap
  <2>4. QED
    BY <2>3, <1>1 DEF StreamHasNoGap, readerVars
<1>12. Position'
  <2>1. EventsBetween(log', 0, offset, -1) = EventsBetween(log, 0, offset, -1)
    BY <1>4 DEF RunLogTypeOK
  <2>2. QED
    BY <2>1, <1>1 DEF Position, readerVars
<1>13. QED
  BY <1>6, <1>10, <1>11, <1>12

\* The writer leaves, in order or not.
LEMMA LeaveIInv ==
  ASSUME IInv, NEW p \in Openers, CloseLog(p) \/ Crash(p)
  PROVE  IInv'
<1> USE DEF IInv, LogInv
<1>1. /\ p \in writers /\ writers' = writers \ {p} /\ UNCHANGED <<log, seq, published, readerVars>>
      /\ writing' = writing \/ writing' = [writing EXCEPT ![p] = FALSE]
      /\ tail' \in {"nothing", "part", "glued"}
  BY DEF CloseLog, Crash, Leave, logVars, RunLogTypeOK
<1>2. \A q \in writers : q = p
  BY <1>1 DEF OneAtATime
<1>3. writers' = {}
  BY <1>1, <1>2
<1>4. \A q \in Openers : ~writing'[q]
  BY <1>2 DEF CloseLog, Crash, RunLogTypeOK, logVars
<1>5. RunLogTypeOK'
  BY <1>1, <1>3, <1>4 DEF RunLogTypeOK, readerVars
<1>6. LogInv'
  <2>1. OneAtATime' /\ Ahead'
    BY <1>3 DEF OneAtATime, Ahead
  <2>2. Rising(log)' /\ Numbered'
    BY <1>1, <1>4 DEF Numbered
  <2>3. QED
    BY <2>1, <2>2
<1>7. QED
  BY <1>1, <1>5, <1>6, StreamUnchanged

LEMMA MoveHead ==
  ASSUME NEW r \in Seq(Nat), NEW s \in Seq(Nat), s # <<>>
  PROVE  Append(r, Head(s)) \o Tail(s) = r \o s
<1> DEFINE h == Head(s)
<1>1. h \in Nat /\ Tail(s) \in Seq(Nat) /\ <<h>> \in Seq(Nat)
  BY HeadTailProperties
<1>2. <<h>> \o Tail(s) = s
  <2>1. <<h>> \o Tail(s) \in Seq(Nat)
    BY <1>1, ConcatProperties
  <2>2. Len(<<h>> \o Tail(s)) = Len(s) /\ \A i \in 1..Len(s) : (<<h>> \o Tail(s))[i] = s[i]
    OBVIOUS
  <2>3. QED
    BY <2>1, <2>2, SeqEqual
<1>3. Append(r, h) = r \o <<h>>
  BY <1>1, AppendIsConcat
<1>4. (r \o <<h>>) \o Tail(s) = r \o (<<h>> \o Tail(s))
  BY <1>1, ConcatAssociative
<1>5. QED
  BY <1>2, <1>3, <1>4

\* The steps of the reader leave the log and its writers alone.
LEMMA LogUnchanged ==
  ASSUME LogInv, UNCHANGED <<writers, logVars>>
  PROVE  LogInv'
  BY DEF LogInv, OneAtATime, Ahead, Numbered, logVars

LEMMA PollIInv ==
  ASSUME IInv, Poll
  PROVE  IInv'
<1> DEFINE new == NewEvents(log, offset, last)
           got == received \o sent
<1>1. /\ offset' = Len(log) /\ sent' = sent \o new
      /\ last' = IF new = <<>> THEN last ELSE LastSeq(new)
      /\ UNCHANGED <<writers, logVars, received, reconnects>>
  BY DEF Poll
<1>2. /\ RunLogTypeOK /\ log \in Seq(Line) /\ offset \in 0..Len(log) /\ Len(log) \in Nat
      /\ received \in Seq(Nat) /\ sent \in Seq(Nat) /\ got \in Seq(Nat)
  BY ConcatProperties DEF IInv, RunLogTypeOK
<1>3. new \in Seq(Nat)
  <2>1. Len(log) \in 0..Len(log)
    BY <1>2
  <2>2. QED
    BY <1>2, <2>1, EventsType DEF NewEvents
<1>4. got \o new = Readable(log)
  <2>1. IsPrefixOf(got, Readable(log)) /\ last = LastSeq(got)
    BY DEF IInv, StreamHasNoGap, Position
  <2>2. Len(EventsBetween(log, 0, offset, -1)) <= Len(got) /\ Rising(log) /\ Positive(log)
    BY DEF IInv, LogInv, Numbered, Position
  <2> HIDE DEF got
  <2>3. got \o NewEvents(log, offset, LastSeq(got)) = Readable(log)
    BY <1>2, <2>1, <2>2, CatchUp
  <2>4. QED
    BY <2>1, <2>3
<1>5. received' \o sent' = Readable(log) /\ log' = log
  <2>1. received \o (sent \o new) = got \o new
    <3>1. received \in Seq(Nat) /\ sent \in Seq(Nat) /\ new \in Seq(Nat)
      BY <1>2, <1>3
    <3> HIDE DEF new
    <3>2. QED
      BY <3>1, ConcatAssociative, SMTT(30)
  <2>2. QED
    BY <2>1, <1>1, <1>4 DEF logVars
<1>6. Readable(log) \in Seq(Nat)
  BY <1>2, ReadableType
<1>7. last' = LastSeq(Readable(log))
  <2>1. last = LastSeq(got)
    BY DEF IInv, Position
  <2> HIDE DEF new, got
  <2>2. CASE new = <<>>
    <3>1. got \o <<>> = got
      BY <1>2, ConcatEmptySeq
    <3>2. QED
      BY <2>1, <2>2, <3>1, <1>1, <1>4
  <2>3. CASE new # <<>>
    <3>1. /\ Len(got \o new) = Len(got) + Len(new) /\ Len(got) \in Nat /\ Len(new) \in Nat \ {0}
          /\ \A i \in 1..(Len(got) + Len(new)) :
               (got \o new)[i] = IF i <= Len(got) THEN got[i] ELSE new[i - Len(got)]
      BY <2>3, <1>2, <1>3, ConcatProperties, EmptySeq
    <3>2. (got \o new)[Len(got) + Len(new)] = new[Len(new)]
      <4>1. /\ Len(got) + Len(new) \in 1..(Len(got) + Len(new))
            /\ ~(Len(got) + Len(new) <= Len(got))
            /\ (Len(got) + Len(new)) - Len(got) = Len(new)
        BY <3>1
      <4>2. QED
        BY <3>1, <4>1
    <3>3. got \o new # <<>>
      BY <2>3, <1>2, <1>3, ConcatEqualIffEmpty
    <3>4. LastSeq(got \o new) = LastSeq(new)
      BY <2>3, <3>1, <3>2, <3>3 DEF LastSeq
    <3>5. QED
      BY <2>3, <3>4, <1>1, <1>4
  <2>4. QED
    BY <2>2, <2>3
<1>8. RunLogTypeOK'
  <2>1. last' \in Nat
    BY <1>6, <1>7, LastOf
  <2>2. sent' \in Seq(Nat)
    BY <1>1, <1>2, <1>3, ConcatProperties
  <2>3. offset' \in 0..Len(log)
    BY <1>1, <1>2
  <2>4. QED
    BY <2>1, <2>2, <2>3, <1>1, <1>2 DEF RunLogTypeOK, logVars
<1>9. StreamHasNoGap'
  <2>1. IsPrefixOf(Readable(log), Readable(log))
    BY DEF IsPrefixOf
  <2>2. QED
    BY <2>1, <1>5, <1>6 DEF StreamHasNoGap, IsPrefixOf
<1>10. Position'
  BY <1>1, <1>5, <1>6, <1>7 DEF Position, Readable
<1>11. QED
  BY <1>1, <1>8, <1>9, <1>10, LogUnchanged DEF IInv

LEMMA ReceiveIInv ==
  ASSUME IInv, Receive
  PROVE  IInv'
<1>1. /\ sent # <<>> /\ received' = Append(received, Head(sent)) /\ sent' = Tail(sent)
      /\ UNCHANGED <<writers, logVars, offset, last, reconnects>>
  BY DEF Receive
<1>2. received \in Seq(Nat) /\ sent \in Seq(Nat)
  BY DEF IInv, RunLogTypeOK
<1>3. received' \in Seq(Nat) /\ sent' \in Seq(Nat)
  BY <1>1, <1>2, HeadTailProperties, AppendProperties
<1>4. received' \o sent' = received \o sent
  BY <1>1, <1>2, MoveHead
<1>5. RunLogTypeOK'
  BY <1>1, <1>3 DEF IInv, RunLogTypeOK, logVars
<1>6. StreamHasNoGap' /\ Position'
  BY <1>1, <1>4 DEF IInv, StreamHasNoGap, Position, logVars
<1>7. QED
  BY <1>1, <1>5, <1>6, LogUnchanged DEF IInv

LEMMA ReconnectIInv ==
  ASSUME IInv, Reconnect
  PROVE  IInv'
<1>1. /\ reconnects < MaxReconnects /\ reconnects' = reconnects + 1
      /\ sent' = <<>> /\ offset' = 0 /\ last' = LastSeq(received)
      /\ UNCHANGED <<writers, logVars, received>>
  BY DEF Reconnect
<1>2. /\ RunLogTypeOK /\ received \in Seq(Nat) /\ sent \in Seq(Nat)
      /\ log \in Seq(Line) /\ received \o sent \in Seq(Nat) /\ Readable(log) \in Seq(Nat)
  BY ConcatProperties, ReadableType DEF IInv, RunLogTypeOK
<1>3. received' \o sent' = received
  BY <1>1, <1>2, ConcatEmptySeq
<1>4. RunLogTypeOK'
  <2>1. last' \in Nat
    BY <1>1, <1>2, LastOf
  <2>2. sent' \in Seq(Nat) /\ offset' \in 0..Len(log) /\ reconnects' \in 0..MaxReconnects
    BY <1>1, <1>2, RunLogAssumption DEF RunLogTypeOK
  <2>3. QED
    BY <2>1, <2>2, <1>1, <1>2 DEF RunLogTypeOK, logVars
<1>5. StreamHasNoGap'
  <2>1. IsPrefixOf(received, received \o sent)
    <3>1. /\ DOMAIN received = 1..Len(received) /\ Len(received) \in Nat /\ Len(sent) \in Nat
          /\ Len(received \o sent) = Len(received) + Len(sent)
          /\ \A i \in 1..Len(received) : (received \o sent)[i] = received[i]
      BY <1>2
    <3>2. QED
      BY <3>1 DEF IsPrefixOf
  <2>2. IsPrefixOf(received, Readable(log))
    BY <2>1, <1>2, PrefixTransitive DEF IInv, StreamHasNoGap
  <2>3. QED
    BY <2>2, <1>1, <1>3 DEF StreamHasNoGap, logVars
<1>6. Position'
  <2>1. EventsBetween(log', 0, 0, -1) = <<>>
    BY EventsUnfold
  <2>2. Len(<<>>) = 0 /\ Len(received) \in Nat
    BY <1>2
  <2>3. QED
    BY <2>1, <2>2, <1>1, <1>3 DEF Position
<1>7. QED
  BY <1>1, <1>4, <1>5, <1>6, LogUnchanged DEF IInv

LEMMA NextIInv == IInv /\ [RunLogNext]_vars => IInv'
<1> SUFFICES ASSUME IInv, [RunLogNext]_vars
             PROVE  IInv'
  OBVIOUS
<1>1. ASSUME NEW p \in Openers, OpenLog(p)
      PROVE  IInv'
  BY <1>1, OpenLogIInv
<1>2. ASSUME NEW p \in Openers, PublishBegin(p)
      PROVE  IInv'
  BY <1>2, PublishBeginIInv
<1>3. ASSUME NEW p \in Openers, PublishEnd(p)
      PROVE  IInv'
  BY <1>3, PublishEndIInv
<1>4. ASSUME NEW p \in Openers, CloseLog(p) \/ Crash(p)
      PROVE  IInv'
  BY <1>4, LeaveIInv
<1>5. CASE Poll
  BY <1>5, PollIInv
<1>6. CASE Receive
  BY <1>6, ReceiveIInv
<1>7. CASE Reconnect
  BY <1>7, ReconnectIInv
<1>8. CASE UNCHANGED vars
  <2>1. UNCHANGED <<writers, logVars, readerVars>>
    BY <1>8 DEF vars
  <2>2. RunLogTypeOK'
    BY <2>1 DEF IInv, RunLogTypeOK, logVars, readerVars
  <2>3. StreamHasNoGap' /\ Position'
    BY <2>1, StreamUnchanged DEF IInv, logVars
  <2>4. QED
    BY <2>1, <2>2, <2>3, LogUnchanged DEF IInv
<1>9. QED
  BY <1>1, <1>2, <1>3, <1>4, <1>5, <1>6, <1>7, <1>8 DEF RunLogNext

\* The types, and that only a process which holds the log writes to it.
THEOREM RunLogTypeCorrect == RunLogSpec => []RunLogTypeOK
<1>1. IInv => RunLogTypeOK
  BY DEF IInv
<1>2. QED
  BY <1>1, InitIInv, NextIInv, PTL DEF RunLogSpec

\* Whatever was received and is under way is the start of the readable log, for
\* any number of writers, kills, torn lines, polls and lost connections.
THEOREM StreamCorrect == RunLogSpec => []StreamHasNoGap
<1>1. IInv => StreamHasNoGap
  BY DEF IInv
<1>2. QED
  BY <1>1, InitIInv, NextIInv, PTL DEF RunLogSpec

(* ---- The log and its stream are an event stream ---------------------------- *)

LEMMA InitStream == RunLogInit => Stream!Init
<1> SUFFICES ASSUME RunLogInit
             PROVE  Readable(log) = <<>> /\ received = <<>>
  BY DEF Stream!Init
<1>1. Len(log) = 0 /\ received = <<>>
  BY DEF RunLogInit
<1>2. QED
  BY <1>1, EventsUnfold DEF Readable

\* A complete line is one more event, above all before it, or no event at all.
LEMMA PublishEndStream ==
  ASSUME IInv, NEW p \in Openers, PublishEnd(p)
  PROVE  Stream!Publish \/ UNCHANGED <<Readable(log), received>>
<1> DEFINE line == [seq |-> seq[p], valid |-> tail = "part"]
           old == Readable(log)
           grown == Readable(log')
<1>1. /\ writing[p] /\ log' = Append(log, line) /\ UNCHANGED received
      /\ line.seq = seq[p] /\ log \in Seq(Line) /\ line \in Line /\ p \in writers /\ seq[p] \in Nat
  BY DEF PublishEnd, readerVars, IInv, RunLogTypeOK, Line
<1>2. grown = IF line.valid THEN Append(old, line.seq) ELSE old
  <2>1. IsExtended(log', log, line)
    BY <1>1 DEF IsExtended
  <2> HIDE DEF line
  <2>2. QED
    BY ONLY <2>1, <1>1, LineAdded
<1>3. /\ old \in Seq(Nat)
      /\ \A j \in 1..Len(old) : \E i \in 1..Len(log) : log[i].valid /\ old[j] = log[i].seq
  BY <1>1, ReadableType
<1>4. \A i \in 1..Len(log) : log[i].valid => log[i].seq < seq[p]
  BY <1>1 DEF IInv, LogInv, Ahead
<1>5. \A j \in 1..Len(old) : old[j] < seq[p]
  BY <1>3, <1>4
<1> HIDE DEF old, line
<1>6. CASE line.valid
  <2>1. grown = Append(old, seq[p])
    BY <1>1, <1>2, <1>6
  <2> HIDE DEF grown
  <2>2. /\ Len(grown) = Len(old) + 1 /\ grown[Len(old) + 1] = seq[p]
        /\ \A i \in 1..Len(old) : grown[i] = old[i]
    BY <2>1, <1>1, <1>3, AppendFacts
  <2>3. DOMAIN old = 1..Len(old)
    BY <1>3
  <2>4. QED
    BY <2>2, <2>3, <1>1, <1>5 DEF Stream!Publish, old, grown
<1>7. CASE ~line.valid
  BY <1>1, <1>2, <1>7 DEF old
<1>8. QED
  BY <1>6, <1>7

\* What the browser receives next is the first event it lacks.
LEMMA ReceiveStream ==
  ASSUME IInv, Receive
  PROVE  Stream!Receive
<1>1. /\ sent # <<>> /\ received' = Append(received, Head(sent)) /\ log' = log
      /\ received \in Seq(Nat) /\ sent \in Seq(Nat) /\ log \in Seq(Line)
  BY DEF Receive, logVars, IInv, RunLogTypeOK
<1>2. Readable(log) \in Seq(Nat) /\ received \o sent \in Seq(Nat)
  BY <1>1, ReadableType, ConcatProperties
<1>3. \A i \in 1..Len(received \o sent) :
        i \in 1..Len(Readable(log)) /\ (received \o sent)[i] = Readable(log)[i]
  BY <1>2, PrefixFacts DEF IInv, StreamHasNoGap
<1> DEFINE n == Len(received) + 1
<1>4. /\ n \in 1..Len(received \o sent) /\ Len(received) \in Nat
      /\ (received \o sent)[n] = Head(sent)
  BY <1>1
<1>5. Len(received) < Len(Readable(log)) /\ Readable(log)[n] = Head(sent)
  <2>1. n \in 1..Len(Readable(log)) /\ Readable(log)[n] = Head(sent)
    BY <1>3, <1>4
  <2>2. QED
    BY <2>1, <1>2, <1>4
<1>6. QED
  BY <1>1, <1>5 DEF Stream!Receive

\* Each step is a step of the event stream or none.
LEMMA NextStream == IInv /\ [RunLogNext]_vars => [Stream!Next]_(Stream!streamVars)
<1> SUFFICES ASSUME IInv, [RunLogNext]_vars
             PROVE  Stream!Next \/ UNCHANGED <<Readable(log), received>>
  BY DEF Stream!streamVars
<1>1. ASSUME NEW p \in Openers, PublishEnd(p)
      PROVE  Stream!Next \/ UNCHANGED <<Readable(log), received>>
  BY <1>1, PublishEndStream DEF Stream!Next
<1>2. CASE Receive
  BY <1>2, ReceiveStream DEF Stream!Next
<1>3. ASSUME NEW p \in Openers, OpenLog(p) \/ PublishBegin(p) \/ CloseLog(p) \/ Crash(p)
      PROVE  UNCHANGED <<Readable(log), received>>
  BY <1>3 DEF OpenLog, PublishBegin, CloseLog, Crash, logVars, readerVars
<1>4. CASE Poll \/ Reconnect
  BY <1>4 DEF Poll, Reconnect, logVars
<1>5. CASE UNCHANGED vars
  BY <1>5 DEF vars, logVars, readerVars
<1>6. QED
  BY <1>1, <1>2, <1>3, <1>4, <1>5 DEF RunLogNext

\* The numbers only grow from writer to writer, and the browser gets each event
\* once and in order.
THEOREM StreamImplements == RunLogSpec => ImplementsEventStream
<1>1. QED
  BY InitStream, InitIInv, NextIInv, NextStream, PTL DEF RunLogSpec, ImplementsEventStream, Stream!Spec

(* ---- The lock (RunLogLock) -------------------------------------------- *)

\* Where a process has not created its lock file yet.
Before == {"first", "inspect", "move", "recheck", "restore", "second"}

\* The file of such a process is nowhere.
NotPlaced == \A p \in Processes : pc[p] \in Before =>
               at # p /\ \A q \in Processes : aside[q] # p

\* A pid that a reclaimer acts on belongs to a dead process.
SawDead == \A p \in Processes : pc[p] \in {"move", "recheck"} /\ saw[p] \in Processes =>
             pc[saw[p]] = "dead"

LockInv == TypeOK /\ NotPlaced /\ SawDead

LEMMA InitLockInv == LockInit => LockInv
  BY LockAssumption DEF LockInit, LockInv, TypeOK, NotPlaced, SawDead, Files, Places, Before

\* Every action of a process keeps the invariant.
LEMMA NextLockInv == LockInv /\ [LockNext]_lockVars => LockInv'
<1> SUFFICES ASSUME LockInv, [LockNext]_lockVars PROVE LockInv'
  OBVIOUS
<1> USE LockAssumption DEF LockInv, TypeOK, NotPlaced, SawDead, Files, Places, Before, Goto
<1>1. ASSUME NEW p \in Processes, TryOpen(p) PROVE LockInv'
  <2>1. CASE at = NoFile
    <3>1. at' = p /\ pc' = [pc EXCEPT ![p] = "create"] /\ UNCHANGED <<aside, written, saw>>
      BY <1>1, <2>1 DEF TryOpen
    <3>2. TypeOK'
      BY <1>1, <3>1 DEF TryOpen
    <3>3. NotPlaced'
      BY <3>1
    <3>4. SawDead'
      BY <1>1, <3>1 DEF TryOpen
    <3> QED BY <3>2, <3>3, <3>4
  <2>2. CASE at # NoFile
    <3>1. /\ pc' = [pc EXCEPT ![p] = IF pc[p] = "first" THEN "inspect" ELSE "refused"]
          /\ UNCHANGED <<at, aside, written, saw>>
      BY <1>1, <2>2 DEF TryOpen
    <3>2. TypeOK' /\ NotPlaced'
      BY <1>1, <3>1 DEF TryOpen
    <3>3. SawDead'
      BY <1>1, <3>1 DEF TryOpen
    <3> QED BY <3>2, <3>3
  <2> QED BY <2>1, <2>2
<1>2. ASSUME NEW p \in Processes, WritePid(p) PROVE LockInv'
  BY <1>2 DEF WritePid
<1>3. ASSUME NEW p \in Processes, Inspect(p) PROVE LockInv'
  <2>1. TypeOK' /\ NotPlaced'
    BY <1>3 DEF Inspect, Content
  <2>2. SawDead'
    <3> SUFFICES ASSUME NEW q \in Processes, pc'[q] \in {"move", "recheck"}, saw'[q] \in Processes
                 PROVE  pc'[saw'[q]] = "dead"
      OBVIOUS
    <3>1. \A r \in Processes : pc[r] = "dead" => pc'[r] = "dead"
      BY <1>3 DEF Inspect
    <3>2. CASE q # p
      BY <3>1, <3>2, <1>3 DEF Inspect
    <3>3. CASE q = p
      <4>1. at # NoFile /\ saw'[p] = Content(at) /\ Stale(at)
        BY <1>3, <3>3 DEF Inspect
      <4>2. saw'[p] = at /\ at \in Processes
        BY <4>1, <3>3 DEF Content
      <4> QED BY <4>1, <4>2, <3>1, <3>3 DEF Stale, Alive
    <3> QED BY <3>2, <3>3
  <2> QED BY <2>1, <2>2
<1>4. ASSUME NEW p \in Processes, Move(p) PROVE LockInv'
  <2>1. TypeOK'
    BY <1>4 DEF Move
  <2>2. NotPlaced'
    BY <1>4 DEF Move
  <2>3. SawDead'
    BY <1>4 DEF Move
  <2> QED BY <2>1, <2>2, <2>3
<1>5. ASSUME NEW p \in Processes, Recheck(p) PROVE LockInv'
  <2>1. TypeOK'
    BY <1>5 DEF Recheck
  <2>2. NotPlaced'
    BY <1>5 DEF Recheck
  <2>3. SawDead'
    BY <1>5 DEF Recheck
  <2> QED BY <2>1, <2>2, <2>3
<1>6. ASSUME NEW p \in Processes, Restore(p) PROVE LockInv'
  <2>1. TypeOK'
    BY <1>6 DEF Restore
  <2>2. NotPlaced'
    BY <1>6 DEF Restore
  <2>3. SawDead'
    BY <1>6 DEF Restore
  <2> QED BY <2>1, <2>2, <2>3
<1>7. ASSUME NEW p \in Processes, Close(p) PROVE LockInv'
  BY <1>7 DEF Close
<1>8. ASSUME NEW p \in Processes, Die(p) PROVE LockInv'
  BY <1>8 DEF Die
<1>9. CASE UNCHANGED lockVars
  BY <1>9 DEF lockVars
<1> QED
  BY <1>1, <1>2, <1>3, <1>4, <1>5, <1>6, <1>7, <1>8, <1>9 DEF LockNext, Step

LEMMA LockInvCorrect == LockSpec => []LockInv
  BY InitLockInv, NextLockInv, PTL DEF LockSpec

\* The types hold, and a lock file is in one place at a time (_acquire_lock,
\* _reclaim_stale_lock).
THEOREM TypeCorrect == LockSpec => []TypeOK
<1>1. LockInv => TypeOK
  BY DEF LockInv
<1> QED
  BY <1>1, LockInvCorrect, PTL

\* _reclaim_stale_lock never removes the lock of a live process that has
\* written its pid.
THEOREM PidLockKept == LockSpec => PidLockNeverDropped
<1> DEFINE Kept == \A p \in Processes : pc[p] = "recheck" /\ pc'[p] = "second" =>
                     ~(Alive(aside[p]) /\ aside[p] \in written)
<1>1. LockInv /\ [LockNext]_lockVars => [Kept]_lockVars
  <2> SUFFICES ASSUME LockInv, LockNext, NEW p \in Processes,
                      pc[p] = "recheck", pc'[p] = "second",
                      Alive(aside[p]), aside[p] \in written
               PROVE  FALSE
    OBVIOUS
  <2>1. Recheck(p)
    <3>1. PICK q \in Processes : Step(q) \/ Close(q) \/ Die(q)
      BY DEF LockNext
    <3>2. q = p
      BY <3>1 DEF Step, TryOpen, WritePid, Inspect, Move, Recheck, Restore, Close, Die,
                  Goto, LockInv, TypeOK
    <3> QED BY <3>1, <3>2 DEF Step, TryOpen, WritePid, Inspect, Move, Restore, Close, Die,
                  Goto, LockInv, TypeOK
  <2>2. Content(aside[p]) = saw[p]
    BY <2>1 DEF Recheck, Goto, LockInv, TypeOK
  <2>3. saw[p] = aside[p] /\ aside[p] \in Processes
    BY <2>2 DEF Content, Alive
  <2> QED
    BY <2>3 DEF LockInv, SawDead, Alive
<1>2. PidLockNeverDropped <=> [][Kept]_lockVars
  BY DEF PidLockNeverDropped
<1> QED
  BY <1>1, <1>2, LockInvCorrect, PTL DEF LockSpec
-----------------------------------------------------------------------------
(* Two processes that open a log without a lock.                            *)

AtMostTwo == \A p, q, r \in Processes : p = q \/ q = r \/ p = r

\* The other one has created the file that a process found; when a process
\* reclaims, the other is dead or has closed the log, and what it renamed aside
\* is the file of the dead one, as it had read it.
Reclaims ==
  /\ at # OldFile
  /\ \A p \in Processes :
       /\ pc[p] # "restore"
       /\ pc[p] \in {"create", "open"} => at = p
       /\ pc[p] = "refused" => at # p
       /\ pc[p] = "recheck" => /\ at = NoFile /\ aside[p] \in Processes \ {p}
                               /\ pc[aside[p]] = "dead" /\ saw[p] = Content(aside[p])
  /\ \A p, q \in Processes : p # q =>
       /\ pc[p] \in {"inspect", "move", "recheck", "second"} =>
            pc[q] \in {"create", "open", "closed", "dead"}
       /\ pc[p] = "move" =>
            \/ at = NoFile /\ pc[q] \in {"closed", "dead"}
            \/ at = q /\ pc[q] = "dead" /\ saw[p] = Content(q)
       /\ pc[p] = "second" => at = NoFile /\ pc[q] \in {"closed", "dead"}

LEMMA InitReclaims == ASSUME LeftOver \subseteq {"none"} PROVE LockInit => Reclaims
  BY LockAssumption DEF LockInit, Reclaims, Files

LEMMA NextReclaims ==
  ASSUME AtMostTwo, LockInv, Reclaims, [LockNext]_lockVars
  PROVE  Reclaims'
<1> USE LockAssumption DEF LockInv, TypeOK, NotPlaced, Reclaims, Files, Places, Before, Goto
<1>1. ASSUME NEW p \in Processes, TryOpen(p) PROVE Reclaims'
  <2>1. CASE at = NoFile
    BY <1>1, <2>1 DEF TryOpen, Content
  <2>2. CASE at # NoFile
    <3>1. pc[p] = "first" /\ at # p /\ at \in Processes
      BY <1>1, <2>2 DEF TryOpen, AtMostTwo
    <3>2. \A q \in Processes : q # p =>
            at = q /\ pc[q] \in {"create", "open", "closed", "dead"}
      BY <3>1 DEF AtMostTwo
    <3>3. pc' = [pc EXCEPT ![p] = "inspect"] /\ UNCHANGED <<at, aside, written, saw>>
      BY <1>1, <2>2, <3>1 DEF TryOpen
    <3> QED
      BY <3>1, <3>2, <3>3 DEF Content
  <2> QED
    BY <2>1, <2>2
<1>2. ASSUME NEW p \in Processes, WritePid(p) PROVE Reclaims'
  BY <1>2 DEF WritePid, Content
<1>3. ASSUME NEW p \in Processes, Inspect(p) PROVE Reclaims'
  BY <1>3 DEF Inspect, Content, Stale, Alive, AtMostTwo
<1>4. ASSUME NEW p \in Processes, Move(p) PROVE Reclaims'
  BY <1>4 DEF Move, Content, AtMostTwo
<1>5. ASSUME NEW p \in Processes, Recheck(p) PROVE Reclaims'
  BY <1>5 DEF Recheck, Content, AtMostTwo
<1>6. ASSUME NEW p \in Processes, Restore(p) PROVE Reclaims'
  BY <1>6 DEF Restore
<1>7. ASSUME NEW p \in Processes, Close(p) PROVE Reclaims'
  BY <1>7 DEF Close, Content
<1>8. ASSUME NEW p \in Processes, Die(p) PROVE Reclaims'
  BY <1>8 DEF Die, Content
<1>9. CASE UNCHANGED lockVars
  BY <1>9 DEF lockVars, Content
<1> QED
  BY <1>1, <1>2, <1>3, <1>4, <1>5, <1>6, <1>7, <1>8, <1>9 DEF LockNext, Step

Pair == INSTANCE OneWriter WITH Openers <- Processes, writers <- Writers

\* Two processes that open a log without a lock, and that may die anywhere, have
\* one writer between them (EventBus: "one writer per run log").
THEOREM PairHasOneWriter ==
  ASSUME AtMostTwo, LeftOver \subseteq {"none"}
  PROVE  LockSpec => Pair!Spec
<1> USE DEF Writers
<1>1. LockInit => Pair!Init
  BY DEF LockInit, Pair!Init
<1>2. ASSUME LockInv, Reclaims, LockNext
      PROVE  [Pair!Next]_Writers
  <2> USE DEF LockInv, TypeOK, Reclaims, Pair!Next, Pair!Open, Pair!Leave
  <2>1. PICK p \in Processes : Step(p) \/ Close(p) \/ Die(p)
    BY <1>2 DEF LockNext
  <2>2. CASE WritePid(p)
    <3>1. pc[p] = "create" /\ \A q \in Processes : q # p => pc[q] # "open"
      BY <1>2, <2>2 DEF WritePid
    <3>2. \A q \in Processes : pc'[q] = IF q = p THEN "open" ELSE pc[q]
      BY <1>2, <2>2 DEF WritePid, Goto
    <3>3. Writers = {} /\ Writers' = {p}
      BY <3>1, <3>2
    <3> QED
      BY <3>3
  <2>3. CASE TryOpen(p) \/ Inspect(p) \/ Move(p) \/ Recheck(p) \/ Restore(p)
    <3>1. \A q \in Processes : pc'[q] = "open" <=> pc[q] = "open"
      BY <1>2, <2>3 DEF TryOpen, Inspect, Move, Recheck, Restore, Goto
    <3>2. Writers' = Writers
      BY <3>1
    <3> QED
      BY <3>2
  <2>4. CASE Close(p) \/ Die(p)
    <3>1. \A q \in Processes : pc'[q] = "open" <=> pc[q] = "open" /\ q # p
      BY <1>2, <2>4 DEF Close, Die, Goto
    <3>2. Writers' = Writers \ {p}
      BY <3>1
    <3>3. p \in Writers \/ Writers' = Writers
      BY <3>2
    <3> QED
      BY <3>2, <3>3
  <2> QED
    BY <2>1, <2>2, <2>3, <2>4 DEF Step
<1>3. LockSpec => [](LockInv /\ Reclaims)
  BY LockInvCorrect, InitReclaims, NextReclaims, PTL DEF LockSpec
<1>4. ASSUME LockInv, Reclaims, [LockNext]_lockVars
      PROVE  [Pair!Next]_Writers
  BY <1>2, <1>4 DEF lockVars
<1> QED
  BY <1>1, <1>3, <1>4, PTL DEF LockSpec, Pair!Spec
=============================================================================
