------------------------- MODULE CostTrackerProofs --------------------------
(***************************************************************************)
(* What holds of CostTracker for every number of commands and arms and     *)
(* every choice of caps and costs.                                         *)
(***************************************************************************)
EXTENDS CostTracker, FiniteSets, FiniteSetTheorems, WellFoundedInduction, TLAPS

(* ---- Sums ---------------------------------------------------------------- *)

\* A non-empty set of naturals has a least element.
LEMMA NatSetMin ==
  ASSUME NEW T \in SUBSET Nat, T # {}
  PROVE  \E m \in T : \A k \in T : m <= k
<1>1. PICK m \in T : \A k \in T : <<k, m>> \notin OpToRel(<, Nat)
  BY NatLessThanWellFounded, WFMin
<1>2. ASSUME NEW k \in T PROVE m <= k
  <2>1. ~(k < m)
    BY <1>1, <1>2 DEF OpToRel
  <2>2. k \in Nat /\ m \in Nat
    OBVIOUS
  <2> QED
    BY <2>1, <2>2
<1> QED
  BY <1>2

\* Induction stated for a set rather than a predicate.
LEMMA NatSetInduction ==
  ASSUME NEW S, 0 \in S, \A n \in Nat : n \in S => n + 1 \in S
  PROVE  \A n \in Nat : n \in S
<1> DEFINE T == {n \in Nat : n \notin S}
<1>1. SUFFICES ASSUME T # {} PROVE FALSE
  OBVIOUS
<1>2. T \in SUBSET Nat
  OBVIOUS
<1>3. PICK m \in T : \A k \in T : m <= k
  <2> HIDE DEF T
  <2> QED
    BY <1>1, <1>2, NatSetMin
<1>4. m # 0 /\ m - 1 \in Nat
  BY <1>3
<1> QED
  BY <1>3, <1>4

(***************************************************************************)
(* The recursion that defines SumTo has a solution: the solutions on the   *)
(* initial intervals 0..n exist and agree where they overlap.              *)
(***************************************************************************)
IsSumOn(g, f, n) == g = [i \in 0..n |-> IF i = 0 THEN 0 ELSE g[i - 1] + f[i]]

LEMMA SumOnExists ==
  ASSUME NEW f
  PROVE  \A n \in Nat : \E g : IsSumOn(g, f, n)
<1> DEFINE S == {n \in Nat : \E g : IsSumOn(g, f, n)}
<1>1. 0 \in S
  <2>1. IsSumOn([i \in 0..0 |-> 0], f, 0)
    BY DEF IsSumOn
  <2>2. QED
    BY <2>1
<1>2. ASSUME NEW n \in Nat, n \in S
      PROVE  n + 1 \in S
  <2>1. PICK g : IsSumOn(g, f, n)
    BY <1>2
  <2> DEFINE h == [i \in 0..(n + 1) |-> IF i = n + 1 THEN g[n] + f[n + 1] ELSE g[i]]
  <2>2. ASSUME NEW i \in 0..(n + 1)
        PROVE  h[i] = IF i = 0 THEN 0 ELSE h[i - 1] + f[i]
    BY <2>1 DEF IsSumOn
  <2>3. IsSumOn(h, f, n + 1)
    BY <2>2 DEF IsSumOn
  <2>4. QED
    BY <2>3
<1>3. QED
  <2> HIDE DEF S
  <2>1. \A n \in Nat : n \in S
    BY <1>1, <1>2, NatSetInduction
  <2>2. QED
    BY <2>1 DEF S

LEMMA SumOnAgree ==
  ASSUME NEW f, NEW m \in Nat, NEW n \in Nat, NEW g, NEW h,
         IsSumOn(g, f, m), IsSumOn(h, f, n)
  PROVE  \A i \in Nat : i <= m /\ i <= n => g[i] = h[i]
<1> DEFINE S == {i \in Nat : i <= m /\ i <= n => g[i] = h[i]}
<1>1. 0 \in S
  BY DEF IsSumOn
<1>2. ASSUME NEW i \in Nat, i \in S
      PROVE  i + 1 \in S
  <2>1. SUFFICES ASSUME i + 1 <= m, i + 1 <= n
                 PROVE  g[i + 1] = h[i + 1]
    OBVIOUS
  <2>2. g[i] = h[i]
    BY <1>2, <2>1
  <2>3. g[i + 1] = g[i] + f[i + 1] /\ h[i + 1] = h[i] + f[i + 1]
    BY <2>1 DEF IsSumOn
  <2>4. QED
    BY <2>2, <2>3
<1>3. QED
  <2> HIDE DEF S
  <2>1. \A i \in Nat : i \in S
    BY <1>1, <1>2, NatSetInduction
  <2>2. QED
    BY <2>1 DEF S

\* The two equations of the sum: every other fact about SumTo rests on them.
LEMMA SumToUnfold ==
  ASSUME NEW f
  PROVE  /\ SumTo(f, 0) = 0
         /\ \A n \in Nat : SumTo(f, n + 1) = SumTo(f, n) + f[n + 1]
<1> DEFINE R(g) == g = [i \in Nat |-> IF i = 0 THEN 0 ELSE g[i - 1] + f[i]]
           P(n) == CHOOSE g : IsSumOn(g, f, n)
           s == [i \in Nat |-> P(i)[i]]
<1>1. \A n \in Nat : IsSumOn(P(n), f, n)
  BY SumOnExists
<1>2. R(s)
  <2>1. ASSUME NEW i \in Nat
        PROVE  s[i] = IF i = 0 THEN 0 ELSE s[i - 1] + f[i]
    <3>1. CASE i = 0
      <4>1. IsSumOn(P(0), f, 0)
        BY <1>1
      <4> HIDE DEF P
      <4>2. P(0)[0] = 0
        BY <4>1 DEF IsSumOn
      <4>3. QED
        BY <3>1, <4>2
    <3>2. CASE i # 0
      <4>1. i - 1 \in Nat
        BY <3>2
      <4>2. P(i)[i - 1] = P(i - 1)[i - 1]
        <5> HIDE DEF P
        <5>1. IsSumOn(P(i), f, i) /\ IsSumOn(P(i - 1), f, i - 1)
          BY <1>1, <4>1
        <5>2. QED
          BY <5>1, <4>1, SumOnAgree
      <4>3. P(i)[i] = P(i)[i - 1] + f[i]
        <5> HIDE DEF P
        <5>1. QED
          BY <1>1, <3>2 DEF IsSumOn
      <4>4. QED
        BY <3>2, <4>1, <4>2, <4>3
    <3>3. QED
      BY <3>1, <3>2
  <2>2. s = [i \in Nat |-> s[i]]
    OBVIOUS
  <2> HIDE DEF s
  <2>3. QED
    BY <2>1, <2>2
<1>3. R(CHOOSE g : R(g))
  <2> HIDE DEF R, s
  <2>1. QED
    BY <1>2
<1>4. \A n : SumTo(f, n) = (CHOOSE g : R(g))[n]
  BY DEF SumTo
<1>5. QED
  <2> DEFINE t == CHOOSE g : R(g)
  <2>1. t = [i \in Nat |-> IF i = 0 THEN 0 ELSE t[i - 1] + f[i]]
    BY <1>3
  <2>2. \A n \in Nat : SumTo(f, n) = t[n]
    BY <1>4
  <2> HIDE DEF t
  <2>3. t[0] = 0 /\ \A n \in Nat : t[n + 1] = t[n] + f[n + 1]
    BY <2>1
  <2>4. QED
    BY <2>2, <2>3

\* Functions that agree on 1..n have the same sum.
LEMMA SumToAgree ==
  ASSUME NEW f, NEW g, NEW n \in Nat, \A i \in 1..n : f[i] = g[i]
  PROVE  SumTo(f, n) = SumTo(g, n)
<1> DEFINE S == {m \in Nat : m <= n => SumTo(f, m) = SumTo(g, m)}
<1>1. 0 \in S
  BY SumToUnfold
<1>2. ASSUME NEW m \in Nat, m \in S
      PROVE  m + 1 \in S
  BY <1>2, SumToUnfold
<1>3. QED
  <2> HIDE DEF S
  <2>1. \A m \in Nat : m \in S
    BY <1>1, <1>2, NatSetInduction
  <2>2. QED
    BY <2>1 DEF S

\* The sum of naturals is a natural, at least each of its terms.
LEMMA SumToNat ==
  ASSUME NEW f, NEW n \in Nat, \A i \in 1..n : f[i] \in Nat
  PROVE  /\ SumTo(f, n) \in Nat
         /\ \A i \in 1..n : f[i] <= SumTo(f, n)
<1> DEFINE S == {m \in Nat : m <= n => /\ SumTo(f, m) \in Nat
                                     /\ \A i \in 1..m : f[i] <= SumTo(f, m)}
<1>1. 0 \in S
  BY SumToUnfold
<1>2. ASSUME NEW m \in Nat, m \in S
      PROVE  m + 1 \in S
  <2>1. SUFFICES ASSUME m + 1 <= n
                 PROVE  /\ SumTo(f, m + 1) \in Nat
                        /\ \A i \in 1..(m + 1) : f[i] <= SumTo(f, m + 1)
    OBVIOUS
  <2>2. SumTo(f, m) \in Nat /\ \A i \in 1..m : f[i] <= SumTo(f, m)
    BY <1>2, <2>1
  <2>3. SumTo(f, m + 1) = SumTo(f, m) + f[m + 1] /\ f[m + 1] \in Nat
    BY SumToUnfold, <2>1
  <2>4. ASSUME NEW i \in 1..(m + 1)
        PROVE  f[i] <= SumTo(f, m + 1)
    <3>1. f[i] \in Nat
      BY <2>1
    <3>2. CASE i = m + 1
      BY <2>2, <2>3, <3>2
    <3>3. CASE i \in 1..m
      BY <2>2, <2>3, <3>1, <3>3
    <3>4. QED
      BY <3>2, <3>3
  <2>5. QED
    BY <2>2, <2>3, <2>4
<1>3. QED
  <2> HIDE DEF S
  <2>1. \A m \in Nat : m \in S
    BY <1>1, <1>2, NatSetInduction
  <2>2. QED
    BY <2>1 DEF S

\* A longer prefix of naturals has at least the sum of a shorter one.
LEMMA SumToMonotonic ==
  ASSUME NEW f, NEW n \in Nat, \A i \in 1..n : f[i] \in Nat, NEW m \in 0..n
  PROVE  SumTo(f, m) <= SumTo(f, n)
<1> DEFINE S == {k \in Nat : m <= k /\ k <= n => SumTo(f, m) <= SumTo(f, k)}
<1>0. \A k \in 0..n : SumTo(f, k) \in Nat
  BY SumToNat
<1>1. 0 \in S
  BY <1>0
<1>2. ASSUME NEW k \in Nat, k \in S
      PROVE  k + 1 \in S
  <2>1. CASE m = k + 1
    BY <1>0, <2>1
  <2>2. CASE m # k + 1
    BY <1>0, <1>2, <2>2, SumToUnfold
  <2>3. QED
    BY <2>1, <2>2
<1>3. QED
  <2> HIDE DEF S
  <2>1. \A k \in Nat : k \in S
    BY <1>1, <1>2, NatSetInduction
  <2>2. QED
    BY <2>1 DEF S

\* Changing one term changes the sum by the difference.
LEMMA SumToExcept ==
  ASSUME NEW f, NEW n \in Nat, \A i \in 1..n : f[i] \in Int,
         NEW k \in 1..n, NEW v \in Int, NEW g,
         \A i \in 1..n : g[i] = IF i = k THEN v ELSE f[i]
  PROVE  SumTo(g, n) = SumTo(f, n) + v - f[k]
<1> DEFINE S == {m \in Nat : m <= n =>
                   /\ SumTo(f, m) \in Int
                   /\ SumTo(g, m) = IF m < k THEN SumTo(f, m) ELSE SumTo(f, m) + v - f[k]}
<1>1. 0 \in S
  BY SumToUnfold
<1>2. ASSUME NEW m \in Nat, m \in S
      PROVE  m + 1 \in S
  BY <1>2, SumToUnfold
<1>3. QED
  <2> HIDE DEF S
  <2>1. \A m \in Nat : m \in S
    BY <1>1, <1>2, NatSetInduction
  <2>2. n \in S
    BY <2>1
  <2>3. QED
    BY <2>2 DEF S

\* A sum of zeros is zero; a sum of terms of at most k each is at most n * k.
LEMMA SumToZero ==
  ASSUME NEW f, NEW n \in Nat, \A i \in 1..n : f[i] = 0
  PROVE  SumTo(f, n) = 0
<1> DEFINE S == {m \in Nat : m <= n => SumTo(f, m) = 0}
<1>1. 0 \in S
  BY SumToUnfold
<1>2. ASSUME NEW m \in Nat, m \in S
      PROVE  m + 1 \in S
  BY <1>2, SumToUnfold
<1>3. QED
  <2> HIDE DEF S
  <2>1. \A m \in Nat : m \in S
    BY <1>1, <1>2, NatSetInduction
  <2>2. QED
    BY <2>1 DEF S

LEMMA SumToAtMost ==
  ASSUME NEW f, NEW n \in Nat, NEW k \in Nat, \A i \in 1..n : f[i] \in Nat /\ f[i] <= k
  PROVE  SumTo(f, n) <= n * k
<1> DEFINE S == {m \in Nat : m <= n => SumTo(f, m) \in Nat /\ SumTo(f, m) <= m * k}
<1>1. 0 \in S
  BY SumToUnfold
<1>2. ASSUME NEW m \in Nat, m \in S
      PROVE  m + 1 \in S
  <2>1. SUFFICES ASSUME m + 1 <= n
                 PROVE  /\ SumTo(f, m + 1) \in Nat
                        /\ SumTo(f, m + 1) <= (m + 1) * k
    OBVIOUS
  <2>2. SumTo(f, m) \in Nat /\ SumTo(f, m) <= m * k
    BY <1>2, <2>1
  <2>3. SumTo(f, m + 1) = SumTo(f, m) + f[m + 1] /\ f[m + 1] \in Nat /\ f[m + 1] <= k
    BY SumToUnfold, <2>1
  <2>4. m * k \in Nat /\ (m + 1) * k = m * k + k
    OBVIOUS
  <2>5. QED
    BY <2>2, <2>3, <2>4
<1>3. QED
  <2> HIDE DEF S
  <2>1. \A m \in Nat : m \in S
    BY <1>1, <1>2, NatSetInduction
  <2>2. QED
    BY <2>1 DEF S

(* ---- The ledger, the totals and the caps ---------------------------------- *)

\* The ledger's parts are sequences of naturals as long as the ledger.
LEMMA PartsAreNat ==
  ASSUME NEW l \in Seq(Entry), NEW c \in Commands, NEW i \in 1..Len(l)
  PROVE  /\ BuildPart(l)[i] \in Nat
         /\ ExperimentPart(l)[i] \in Nat
         /\ SessionPart(l, c)[i] \in Nat
<1>1. l[i] \in Entry
  OBVIOUS
<1>2. l[i].cost \in Nat
  BY <1>1 DEF Entry
<1>3. QED
  BY <1>2 DEF BuildPart, ExperimentPart, SessionPart

\* What a command still has to count is a natural.
LEMMA NewIsNat ==
  ASSUME TypeOK, NEW c \in Commands, offset[c] <= Len(ledger)
  PROVE  NewBuild(c) \in Nat /\ NewExperiment(c) \in Nat /\ NewSession(c) \in Nat
<1>1. ledger \in Seq(Entry) /\ Len(ledger) \in Nat /\ offset[c] \in 0..Len(ledger)
  BY DEF TypeOK
<1>2. \A f : (\A i \in 1..Len(ledger) : f[i] \in Nat)
              => SumBetween(f, offset[c], Len(ledger)) \in Nat
  BY <1>1, SumToNat, SumToMonotonic DEF SumBetween
<1>3. QED
  BY <1>1, <1>2, PartsAreNat DEF NewBuild, NewExperiment, NewSession

\* Appending an entry leaves the sums over the old entries alone.
LEMMA SumsAfterAppend ==
  ASSUME NEW l \in Seq(Entry), NEW e \in Entry,
         NEW n \in 0..Len(l), NEW c \in Commands
  PROVE  /\ SumTo(BuildPart(Append(l, e)), n) = SumTo(BuildPart(l), n)
         /\ SumTo(ExperimentPart(Append(l, e)), n) = SumTo(ExperimentPart(l), n)
         /\ SumTo(SessionPart(Append(l, e), c), n) = SumTo(SessionPart(l, c), n)
<1> DEFINE m == Append(l, e)
<1>1. \A i \in 1..n : /\ BuildPart(m)[i] = BuildPart(l)[i]
                      /\ ExperimentPart(m)[i] = ExperimentPart(l)[i]
                      /\ SessionPart(m, c)[i] = SessionPart(l, c)[i]
  BY DEF BuildPart, ExperimentPart, SessionPart
<1>2. QED
  BY <1>1, SumToAgree

\* The entry itself adds its own part.
LEMMA SumsOfAppend ==
  ASSUME NEW l \in Seq(Entry), NEW e \in Entry, NEW c \in Commands
  PROVE  LET n == Len(l) + 1
             m == Append(l, e) IN
         /\ SumTo(BuildPart(m), n) = SumTo(BuildPart(l), Len(l)) + e.cost
         /\ SumTo(ExperimentPart(m), n) =
              SumTo(ExperimentPart(l), Len(l)) + (IF e.experiment THEN e.cost ELSE 0)
         /\ SumTo(SessionPart(m, c), n) =
              SumTo(SessionPart(l, c), Len(l))
              + (IF ~e.experiment /\ e.session = SessionOf[c] THEN e.cost ELSE 0)
<1> DEFINE n == Len(l) + 1
           m == Append(l, e)
<1>1. /\ BuildPart(m)[n] = e.cost
      /\ ExperimentPart(m)[n] = IF e.experiment THEN e.cost ELSE 0
      /\ SessionPart(m, c)[n] = IF ~e.experiment /\ e.session = SessionOf[c]
                                THEN e.cost ELSE 0
  BY DEF BuildPart, ExperimentPart, SessionPart
<1>2. Len(l) \in Nat /\ Len(l) \in 0..Len(l)
  OBVIOUS
<1>3. \A f : SumTo(f, n) = SumTo(f, Len(l)) + f[n]
  BY <1>2, SumToUnfold
<1>4. QED
  BY <1>1, <1>2, <1>3, SumsAfterAppend

-----------------------------------------------------------------------------
(* Types.  A command's offset never passes the end of the ledger.          *)

OffsetInLedger == \A c \in Commands : offset[c] <= Len(ledger)
TypeInv == TypeOK /\ OffsetInLedger

\* Reading the new entries keeps the totals natural and moves the offset to
\* the end of the ledger.
LEMMA ReadNewType ==
  ASSUME TypeInv, NEW c \in Commands, ReadNew(c)
  PROVE  /\ build' \in [Commands -> Nat] /\ session' \in [Commands -> Nat]
         /\ experiment' \in [Commands -> Nat] /\ offset' \in [Commands -> Nat]
         /\ \A d \in Commands : offset'[d] <= Len(ledger)
<1>1. NewBuild(c) \in Nat /\ NewExperiment(c) \in Nat /\ NewSession(c) \in Nat
  BY NewIsNat DEF TypeInv, OffsetInLedger
<1>2. Len(ledger) \in Nat
  BY DEF TypeInv, TypeOK
<1>3. build' \in [Commands -> Nat] /\ session' \in [Commands -> Nat]
  BY <1>1 DEF ReadNew, TypeInv, TypeOK
<1>4. experiment' \in [Commands -> Nat] /\ offset' \in [Commands -> Nat]
  BY <1>1, <1>2 DEF ReadNew, TypeInv, TypeOK
<1>5. \A d \in Commands : offset'[d] <= Len(ledger)
  BY <1>2 DEF ReadNew, TypeInv, TypeOK, OffsetInLedger
<1>6. QED
  BY <1>3, <1>4, <1>5

\* Releasing a reservation keeps the types.
LEMMA ReleaseType ==
  ASSUME TypeOK, NEW c \in Commands, NEW a \in Arms, ReleaseLocked(c, a)
  PROVE  /\ reserved' \in [Commands -> Nat]
         /\ scope' \in [Commands -> [Arms -> [spent : Nat, reserved : Nat]]]
         /\ call' \in [Commands -> [Arms -> [open : BOOLEAN, amount : Nat]]]
<1>1. scope[c][a] \in [spent : Nat, reserved : Nat] /\ reserved[c] \in Nat
  BY DEF TypeOK
<1>2. call[c][a] \in [open : BOOLEAN, amount : Nat]
  BY DEF TypeOK
<1>3. reserved' \in [Commands -> Nat]
  BY <1>1, <1>2 DEF ReleaseLocked, AtLeastZero, TypeOK
<1>4. AtLeastZero(scope[c][a].reserved - call[c][a].amount) \in Nat
  BY <1>1, <1>2 DEF AtLeastZero
<1>5. scope' \in [Commands -> [Arms -> [spent : Nat, reserved : Nat]]]
  BY <1>1, <1>4 DEF ReleaseLocked, TypeOK
<1>6. call' \in [Commands -> [Arms -> [open : BOOLEAN, amount : Nat]]]
  BY <1>2 DEF ReleaseLocked, TypeOK
<1>7. QED
  BY <1>3, <1>5, <1>6

LEMMA TypeInit == Init => TypeInv
BY DEF Init, TypeInv, TypeOK, OffsetInLedger, FreshScope, Idle

\* The parts of TypeInv the steps below rest on, each in a form of its own.
LEMMA TypeFacts ==
  ASSUME TypeInv
  PROVE  /\ ledger \in Seq(Entry) /\ Len(ledger) \in Nat
         /\ running \in SUBSET Commands
         /\ offset \in [Commands -> Nat] /\ \A c \in Commands : offset[c] <= Len(ledger)
         /\ batch \in [Commands -> Nat] /\ session \in [Commands -> Nat]
         /\ experiment \in [Commands -> Nat] /\ build \in [Commands -> Nat]
         /\ reserved \in [Commands -> Nat]
         /\ scope \in [Commands -> [Arms -> [spent : Nat, reserved : Nat]]]
         /\ call \in [Commands -> [Arms -> [open : BOOLEAN, amount : Nat]]]
         /\ raised \in [Commands -> [Arms -> BOOLEAN]]
         /\ appending \in SUBSET [cmd : Commands, arm : Arms, cost : Nat]
         /\ \A r, q \in appending : r = q
BY DEF TypeInv, TypeOK, OffsetInLedger

\* A longer ledger of entries keeps TypeInv when the rest has its type.
LEMMA LedgerGrows ==
  ASSUME TypeInv, NEW e \in Entry, ledger' = Append(ledger, e)
  PROVE  ledger' \in Seq(Entry) /\ Len(ledger') = Len(ledger) + 1
<1>1. ledger \in Seq(Entry)
  BY TypeFacts
<1>2. QED
  BY <1>1

LEMMA TypeNext == TypeInv /\ [Next]_vars => TypeInv'
<1>0. SUFFICES ASSUME TypeInv, [Next]_vars
               PROVE  TypeInv'
  OBVIOUS
<1>1. ASSUME NEW c \in Commands, Start(c)
      PROVE  TypeInv'
  BY <1>0, <1>1, ReadNewType DEF Start, TypeInv, TypeOK, OffsetInLedger
<1>2. ASSUME NEW c \in Commands, Refresh(c)
      PROVE  TypeInv'
  BY <1>0, <1>2, ReadNewType DEF Refresh, TypeInv, TypeOK, OffsetInLedger
<1>3. ASSUME NEW c \in Commands, Stop(c)
      PROVE  TypeInv'
  <2>1. /\ [a \in Arms |-> FreshScope] \in [Arms -> [spent : Nat, reserved : Nat]]
        /\ [a \in Arms |-> Idle] \in [Arms -> [open : BOOLEAN, amount : Nat]]
        /\ [a \in Arms |-> FALSE] \in [Arms -> BOOLEAN]
    BY DEF FreshScope, Idle
  <2>2. /\ scope' \in [Commands -> [Arms -> [spent : Nat, reserved : Nat]]]
        /\ call' \in [Commands -> [Arms -> [open : BOOLEAN, amount : Nat]]]
        /\ raised' \in [Commands -> [Arms -> BOOLEAN]]
    BY <1>0, <1>3, <2>1, TypeFacts DEF Stop
  <2>3. /\ offset' \in [Commands -> Nat]
        /\ \A d \in Commands : offset'[d] <= Len(ledger')
    BY <1>0, <1>3, TypeFacts DEF Stop
  <2>4. QED
    BY <1>0, <1>3, <2>2, <2>3 DEF Stop, TypeInv, TypeOK, OffsetInLedger
<1>4. ASSUME NEW c \in Commands, NEW a \in Arms, NewScope(c, a)
      PROVE  TypeInv'
  <2>1. FreshScope \in [spent : Nat, reserved : Nat]
    BY DEF FreshScope
  <2>2. scope' \in [Commands -> [Arms -> [spent : Nat, reserved : Nat]]]
    BY <1>0, <1>4, <2>1, TypeFacts DEF NewScope
  <2>3. QED
    BY <1>0, <1>4, <2>2 DEF NewScope, totals, TypeInv, TypeOK, OffsetInLedger
<1>5. ASSUME NEW c \in Commands, NEW a \in Arms, Release(c, a)
      PROVE  TypeInv'
  BY <1>0, <1>5, ReleaseType DEF Release, totals, TypeInv, TypeOK, OffsetInLedger
<1>6. ASSUME NEW c \in Commands, NEW a \in Arms, NEW w \in WorstCases, Reserve(c, a, w)
      PROVE  TypeInv'
  <2>1. w \in Nat
    BY CostAssumption
  <2>2. ReadNew(c)
    BY <1>6 DEF Reserve
  <2>3. scope[c][a] \in [spent : Nat, reserved : Nat] /\ reserved[c] \in Nat
    BY <1>0, TypeFacts
  <2>4. raised' \in [Commands -> [Arms -> BOOLEAN]]
    <3>1. raised \in [Commands -> [Arms -> BOOLEAN]]
      BY <1>0, TypeFacts
    <3>2. CASE raised' = [raised EXCEPT ![c][a] = TRUE]
      BY <3>1, <3>2
    <3>3. CASE raised' = [raised EXCEPT ![c][a] = FALSE]
      BY <3>1, <3>3
    <3>4. QED
      BY <1>6, <3>2, <3>3 DEF Reserve
  <2>5. /\ reserved' \in [Commands -> Nat]
        /\ scope' \in [Commands -> [Arms -> [spent : Nat, reserved : Nat]]]
        /\ call' \in [Commands -> [Arms -> [open : BOOLEAN, amount : Nat]]]
    <3>1. CASE UNCHANGED <<scope, reserved, call>>
      BY <1>0, <3>1, TypeFacts
    <3>2. CASE /\ scope' = [scope EXCEPT ![c][a].reserved = @ + w]
               /\ reserved' = [reserved EXCEPT ![c] = @ + w]
               /\ call' = [call EXCEPT ![c][a] = [open |-> TRUE, amount |-> w]]
      <4>1. scope[c][a].reserved + w \in Nat /\ reserved[c] + w \in Nat
        BY <2>1, <2>3
      <4>2. scope' \in [Commands -> [Arms -> [spent : Nat, reserved : Nat]]]
        <5>1. scope \in [Commands -> [Arms -> [spent : Nat, reserved : Nat]]]
          BY <1>0, TypeFacts
        <5>2. QED
          BY <3>2, <4>1, <5>1
      <4>3. call' \in [Commands -> [Arms -> [open : BOOLEAN, amount : Nat]]]
        <5>1. call \in [Commands -> [Arms -> [open : BOOLEAN, amount : Nat]]]
          BY <1>0, TypeFacts
        <5>2. [open |-> TRUE, amount |-> w] \in [open : BOOLEAN, amount : Nat]
          BY <2>1
        <5>3. QED
          BY <3>2, <5>1, <5>2
      <4>4. reserved' \in [Commands -> Nat]
        <5>1. reserved \in [Commands -> Nat]
          BY <1>0, TypeFacts
        <5>2. QED
          BY <3>2, <4>1, <5>1
      <4>5. QED
        BY <4>2, <4>3, <4>4
    <3>3. QED
      BY <1>6, <3>1, <3>2 DEF Reserve
  <2>6. UNCHANGED <<ledger, running, batch, appending>>
    BY <1>6 DEF Reserve
  <2>7. QED
    BY <1>0, <2>2, <2>4, <2>5, <2>6, ReadNewType DEF TypeInv, TypeOK, OffsetInLedger
<1>7. ASSUME NEW c \in Commands, NEW a \in Arms, NEW x \in ActualCosts, SettleBegin(c, a, x)
      PROVE  TypeInv'
  <2>1. x \in Nat
    BY CostAssumption
  <2>2. ReadNew(c) /\ ReleaseLocked(c, a) /\ UNCHANGED <<ledger, running, batch, raised>>
    BY <1>7 DEF SettleBegin
  <2>3. /\ appending' \in SUBSET [cmd : Commands, arm : Arms, cost : Nat]
        /\ \A r, q \in appending' : r = q
    BY <1>7, <2>1 DEF SettleBegin
  <2>4. QED
    BY <1>0, <2>2, <2>3, ReadNewType, ReleaseType DEF TypeInv, TypeOK, OffsetInLedger
<1>8. ASSUME SettleEnd
      PROVE  TypeInv'
  <2>1. PICK r \in appending : SettleEnd!(r)
    BY <1>8 DEF SettleEnd
  <2> DEFINE c == r.cmd
             a == r.arm
             e == [session |-> SessionOf[c], experiment |-> IsExperiment[c],
                   opening |-> FALSE, cost |-> r.cost]
  <2>2. c \in Commands /\ a \in Arms /\ r.cost \in Nat
    BY <1>0, TypeFacts
  <2>3. e \in Entry
    BY <2>2, CostAssumption DEF Entry
  <2>4. ledger' \in Seq(Entry) /\ Len(ledger') = Len(ledger) + 1
    BY <1>0, <2>1, <2>3, LedgerGrows
  <2>5. raised' \in [Commands -> [Arms -> BOOLEAN]]
    BY <1>0, <2>1, <2>2, TypeFacts DEF Crosses
  <2>6. scope' \in [Commands -> [Arms -> [spent : Nat, reserved : Nat]]]
    <3>1. scope \in [Commands -> [Arms -> [spent : Nat, reserved : Nat]]]
      BY <1>0, TypeFacts
    <3>2. scope[c][a].spent + r.cost \in Nat
      BY <2>2, <3>1
    <3>3. scope' = [scope EXCEPT ![c][a].spent = @ + r.cost]
      BY <2>1
    <3> HIDE DEF c, a, e
    <3>4. QED
      BY <2>2, <3>1, <3>2, <3>3
  <2>7. /\ batch' \in [Commands -> Nat] /\ build' \in [Commands -> Nat]
        /\ experiment' \in [Commands -> Nat] /\ session' \in [Commands -> Nat]
    <3>1. /\ batch \in [Commands -> Nat] /\ build \in [Commands -> Nat]
          /\ experiment \in [Commands -> Nat] /\ session \in [Commands -> Nat]
      BY <1>0, TypeFacts
    <3>2. batch' \in [Commands -> Nat] /\ build' \in [Commands -> Nat]
      BY <2>1, <2>2, <3>1
    <3>3. CASE IsExperiment[c]
      BY <2>1, <2>2, <3>1, <3>2, <3>3
    <3>4. CASE ~IsExperiment[c]
      BY <2>1, <2>2, <3>1, <3>2, <3>4
    <3>5. QED
      BY <3>3, <3>4
  <2>8. /\ offset' \in [Commands -> Nat]
        /\ \A d \in Commands : offset'[d] <= Len(ledger')
    <3>1. /\ offset \in [Commands -> Nat] /\ Len(ledger) \in Nat
          /\ \A d \in Commands : offset[d] <= Len(ledger)
      BY <1>0, TypeFacts
    <3>2. offset' = [offset EXCEPT ![c] = Len(ledger) + 1]
      BY <2>1
    <3>3. QED
      BY <2>2, <2>4, <3>1, <3>2
  <2>9. UNCHANGED <<running, reserved, call>> /\ appending' = {}
    BY <2>1
  <2>10. QED
    BY <1>0, <2>4, <2>5, <2>6, <2>7, <2>8, <2>9 DEF TypeInv, TypeOK, OffsetInLedger
<1>9. ASSUME NEW x \in OpeningAmounts, RecordOpeningBalance(x)
      PROVE  TypeInv'
  <2> DEFINE e == [session |-> NoSession, experiment |-> FALSE, opening |-> TRUE, cost |-> x]
  <2>1. e \in Entry
    <3>1. x \in Nat
      BY CostAssumption
    <3>2. QED
      BY <3>1 DEF Entry
  <2>2. ledger' = Append(ledger, e)
    BY <1>9 DEF RecordOpeningBalance
  <2>3. ledger' \in Seq(Entry) /\ Len(ledger') = Len(ledger) + 1
    <3> HIDE DEF e
    <3>1. QED
      BY <1>0, <2>1, <2>2, LedgerGrows
  <2>4. /\ UNCHANGED <<running, offset, totals, reserved, scope, call, raised, appending>>
    BY <1>9 DEF RecordOpeningBalance
  <2>5. \A d \in Commands : offset'[d] <= Len(ledger')
    BY <1>0, <2>3, <2>4, TypeFacts
  <2>6. QED
    BY <1>0, <2>3, <2>4, <2>5 DEF totals, TypeInv, TypeOK, OffsetInLedger
<1>10. CASE UNCHANGED vars
  BY <1>0, <1>10 DEF vars, TypeInv, TypeOK, OffsetInLedger
<1>11. QED
  BY <1>0, <1>1, <1>2, <1>3, <1>4, <1>5, <1>6, <1>7, <1>8, <1>9, <1>10 DEF Next

\* Every variable keeps its type (TypeOK), whatever the commands interleave.
THEOREM TypeCorrect == Spec => []TypeOK
<1>1. Spec => []TypeInv
  BY TypeInit, TypeNext, PTL DEF Spec
<1>2. TypeInv => TypeOK
  BY DEF TypeInv
<1>3. QED
  BY <1>1, <1>2, PTL

-----------------------------------------------------------------------------
(* What is held is what the open calls hold.                               *)

\* The amounts of the open calls of one command are naturals.
LEMMA OpenAmountsNat ==
  ASSUME TypeInv, NEW c \in Commands
  PROVE  /\ \A a \in 1..NArms : OpenAmounts(c)[a] \in Nat
         /\ \A a \in Arms : OpenAmounts(c)[a] = IF call[c][a].open THEN call[c][a].amount ELSE 0
BY TypeFacts DEF OpenAmounts, Arms

\* A command whose calls are untouched keeps its amounts.
LEMMA OpenAmountsSame ==
  ASSUME NEW c \in Commands, call'[c] = call[c]
  PROVE  OpenAmounts(c)' = OpenAmounts(c)
BY DEF OpenAmounts

\* Changing the amount of one arm to v changes the sum by the difference.
LEMMA OpenAmountsChange ==
  ASSUME TypeInv, NEW c \in Commands, NEW a \in Arms, NEW v \in Nat,
         \A b \in Arms : OpenAmounts(c)'[b] = IF b = a THEN v ELSE OpenAmounts(c)[b]
  PROVE  SumTo(OpenAmounts(c)', NArms) =
           SumTo(OpenAmounts(c), NArms) + v - OpenAmounts(c)[a]
<1>1. NArms \in Nat /\ a \in 1..NArms
  BY CostAssumption DEF Arms
<1>2. \A i \in 1..NArms : OpenAmounts(c)[i] \in Int
  BY OpenAmountsNat
<1>3. \A i \in 1..NArms : OpenAmounts(c)'[i] = IF i = a THEN v ELSE OpenAmounts(c)[i]
  BY DEF Arms
<1>4. QED
  <2> DEFINE f == OpenAmounts(c)
             g == OpenAmounts(c)'
  <2> HIDE DEF f, g
  <2>1. SumTo(g, NArms) = SumTo(f, NArms) + v - f[a]
    BY <1>1, <1>2, <1>3, SumToExcept DEF f, g
  <2>2. QED
    BY <2>1 DEF f, g

HeldFor(c) ==
  /\ reserved[c] = SumTo(OpenAmounts(c), NArms)
  /\ \A a \in Arms : scope[c][a].reserved = OpenAmounts(c)[a]

\* release and settle give back exactly what the call held.
LEMMA ReleaseHeld ==
  ASSUME TypeInv, TypeInv', NEW c \in Commands, NEW a \in Arms,
         HeldIsWhatOpenCallsHold, call[c][a].open, ReleaseLocked(c, a)
  PROVE  /\ HeldIsWhatOpenCallsHold'
         /\ reserved' = [reserved EXCEPT ![c] = @ - call[c][a].amount]
         /\ call[c][a].amount <= reserved[c]
         /\ scope[c][a].reserved = call[c][a].amount /\ scope'[c][a].reserved = 0
<1>1. call[c][a].amount \in Nat /\ call[c][a] \in [open : BOOLEAN, amount : Nat]
  BY TypeFacts
<1>2. OpenAmounts(c)[a] = call[c][a].amount
  BY OpenAmountsNat
<1>3. NArms \in Nat /\ a \in 1..NArms
  BY CostAssumption DEF Arms
<1>4. SumTo(OpenAmounts(c), NArms) \in Nat /\ call[c][a].amount <= SumTo(OpenAmounts(c), NArms)
  BY <1>2, <1>3, OpenAmountsNat, SumToNat
<1>5. /\ reserved[c] = SumTo(OpenAmounts(c), NArms)
      /\ \A b \in Arms : scope[c][b].reserved = OpenAmounts(c)[b]
  BY DEF HeldIsWhatOpenCallsHold
<1>6. reserved' = [reserved EXCEPT ![c] = @ - call[c][a].amount]
  <2>1. AtLeastZero(reserved[c] - call[c][a].amount) = reserved[c] - call[c][a].amount
    BY <1>1, <1>4, <1>5 DEF AtLeastZero
  <2>2. QED
    BY <2>1 DEF ReleaseLocked
<1>7. \A b \in Arms : scope'[c][b].reserved = IF b = a THEN 0 ELSE scope[c][b].reserved
  <2>1. scope \in [Commands -> [Arms -> [spent : Nat, reserved : Nat]]]
    BY TypeFacts
  <2>2. AtLeastZero(scope[c][a].reserved - call[c][a].amount) = 0
    BY <1>1, <1>2, <1>5 DEF AtLeastZero
  <2>3. QED
    BY <2>1, <2>2 DEF ReleaseLocked
<1>8. \A b \in Arms : OpenAmounts(c)'[b] = IF b = a THEN 0 ELSE OpenAmounts(c)[b]
  <2>1. call \in [Commands -> [Arms -> [open : BOOLEAN, amount : Nat]]]
    BY TypeFacts
  <2>2. call' = [call EXCEPT ![c][a].open = FALSE]
    BY DEF ReleaseLocked
  <2>3. QED
    BY <2>1, <2>2 DEF OpenAmounts
<1>9. SumTo(OpenAmounts(c)', NArms) = SumTo(OpenAmounts(c), NArms) - call[c][a].amount
  BY <1>1, <1>2, <1>4, <1>8, OpenAmountsChange
<1>10. reserved \in [Commands -> Nat]
  BY TypeFacts
<1>11. HeldFor(c)'
  <2>1. reserved'[c] = SumTo(OpenAmounts(c)', NArms)
    BY <1>5, <1>6, <1>9, <1>10
  <2>2. QED
    BY <1>5, <1>7, <1>8, <2>1 DEF HeldFor
<1>12. ASSUME NEW d \in Commands, d # c
       PROVE  HeldFor(d)'
  <2>1. call'[d] = call[d] /\ scope'[d] = scope[d] /\ reserved'[d] = reserved[d]
    BY <1>12, <1>10, <1>6, TypeFacts DEF ReleaseLocked
  <2>2. QED
    BY <2>1, OpenAmountsSame DEF HeldFor, HeldIsWhatOpenCallsHold
<1>13. QED
  BY <1>2, <1>5, <1>6, <1>4, <1>7, <1>11, <1>12 DEF HeldFor, HeldIsWhatOpenCallsHold

\* A step that leaves the calls and the held amounts alone.
LEMMA HeldUntouched ==
  ASSUME HeldIsWhatOpenCallsHold, UNCHANGED <<call, reserved>>,
         \A c \in Commands, a \in Arms : scope'[c][a].reserved = scope[c][a].reserved
  PROVE  HeldIsWhatOpenCallsHold'
<1>1. ASSUME NEW c \in Commands
      PROVE  HeldFor(c)'
  BY OpenAmountsSame DEF HeldFor, HeldIsWhatOpenCallsHold
<1>2. QED
  BY <1>1 DEF HeldFor, HeldIsWhatOpenCallsHold

LEMMA HeldInit == Init => HeldIsWhatOpenCallsHold
<1> SUFFICES ASSUME Init, NEW c \in Commands
             PROVE  HeldFor(c)
  BY DEF HeldIsWhatOpenCallsHold, HeldFor
<1>1. \A a \in Arms : OpenAmounts(c)[a] = 0
  BY DEF Init, OpenAmounts, Idle
<1>2. SumTo(OpenAmounts(c), NArms) = 0
  BY <1>1, SumToZero, CostAssumption DEF Arms
<1>3. QED
  BY <1>1, <1>2 DEF Init, HeldFor, FreshScope

LEMMA HeldNext ==
  TypeInv /\ TypeInv' /\ HeldIsWhatOpenCallsHold /\ [Next]_vars => HeldIsWhatOpenCallsHold'
<1>0. SUFFICES ASSUME TypeInv, TypeInv', HeldIsWhatOpenCallsHold, [Next]_vars
               PROVE  HeldIsWhatOpenCallsHold'
  OBVIOUS
<1>1. ASSUME NEW c \in Commands, Start(c) \/ Refresh(c)
      PROVE  HeldIsWhatOpenCallsHold'
  BY <1>0, <1>1, HeldUntouched DEF Start, Refresh
<1>2. ASSUME NEW c \in Commands, Stop(c)
      PROVE  HeldIsWhatOpenCallsHold'
  <2>1. ASSUME NEW d \in Commands, d # c
        PROVE  HeldFor(d)'
    <3>1. call'[d] = call[d] /\ scope'[d] = scope[d] /\ reserved'[d] = reserved[d]
      BY <1>0, <1>2, <2>1, TypeFacts DEF Stop
    <3>2. QED
      BY <1>0, <3>1, OpenAmountsSame DEF HeldFor, HeldIsWhatOpenCallsHold
  <2>2. HeldFor(c)'
    <3>1. /\ call'[c] = [a \in Arms |-> Idle] /\ reserved'[c] = 0
          /\ scope'[c] = [a \in Arms |-> FreshScope]
      BY <1>0, <1>2, TypeFacts DEF Stop
    <3>2. \A a \in Arms : OpenAmounts(c)'[a] = 0
      BY <3>1 DEF OpenAmounts, Idle
    <3>3. SumTo(OpenAmounts(c)', NArms) = 0
      BY <3>2, SumToZero, CostAssumption DEF Arms
    <3>4. QED
      BY <3>1, <3>2, <3>3 DEF HeldFor, FreshScope
  <2>3. QED
    BY <2>1, <2>2 DEF HeldFor, HeldIsWhatOpenCallsHold
<1>3. ASSUME NEW c \in Commands, NEW a \in Arms, NewScope(c, a)
      PROVE  HeldIsWhatOpenCallsHold'
  <2>1. UNCHANGED <<call, reserved>> /\ scope' = [scope EXCEPT ![c][a] = FreshScope]
    BY <1>3 DEF NewScope
  <2>2. scope[c][a].reserved = 0
    BY <1>0, <1>3, OpenAmountsNat DEF NewScope, HeldIsWhatOpenCallsHold
  <2>3. ASSUME NEW d \in Commands, NEW b \in Arms
        PROVE  scope'[d][b].reserved = scope[d][b].reserved
    BY <1>0, <2>1, <2>2, TypeFacts DEF FreshScope
  <2>4. QED
    BY <1>0, <2>1, <2>3, HeldUntouched
<1>4. ASSUME NEW c \in Commands, NEW a \in Arms, Release(c, a)
      PROVE  HeldIsWhatOpenCallsHold'
  BY <1>0, <1>4, ReleaseHeld DEF Release
<1>5. ASSUME NEW c \in Commands, NEW a \in Arms, NEW x \in ActualCosts, SettleBegin(c, a, x)
      PROVE  HeldIsWhatOpenCallsHold'
  BY <1>0, <1>5, ReleaseHeld DEF SettleBegin
<1>6. ASSUME NEW c \in Commands, NEW a \in Arms, NEW w \in WorstCases, Reserve(c, a, w)
      PROVE  HeldIsWhatOpenCallsHold'
  <2>1. CASE UNCHANGED <<scope, reserved, call>>
    BY <1>0, <2>1, HeldUntouched
  <2>2. CASE /\ scope' = [scope EXCEPT ![c][a].reserved = @ + w]
             /\ reserved' = [reserved EXCEPT ![c] = @ + w]
             /\ call' = [call EXCEPT ![c][a] = [open |-> TRUE, amount |-> w]]
    <3>1. w \in Nat /\ ~call[c][a].open
      BY <1>6, CostAssumption DEF Reserve
    <3>2. OpenAmounts(c)[a] = 0
      BY <1>0, <3>1, OpenAmountsNat
    <3>3. \A b \in Arms : OpenAmounts(c)'[b] = IF b = a THEN w ELSE OpenAmounts(c)[b]
      <4>1. call \in [Commands -> [Arms -> [open : BOOLEAN, amount : Nat]]]
        BY <1>0, TypeFacts
      <4>2. QED
        BY <2>2, <4>1 DEF OpenAmounts
    <3>4. SumTo(OpenAmounts(c), NArms) \in Nat
      BY <1>0, OpenAmountsNat, SumToNat, CostAssumption
    <3>5. SumTo(OpenAmounts(c)', NArms) = SumTo(OpenAmounts(c), NArms) + w
      BY <1>0, <3>1, <3>2, <3>3, <3>4, OpenAmountsChange
    <3>6. \A b \in Arms : scope'[c][b].reserved = OpenAmounts(c)'[b]
      <4>1. scope \in [Commands -> [Arms -> [spent : Nat, reserved : Nat]]]
        BY <1>0, TypeFacts
      <4>2. \A b \in Arms : scope[c][b].reserved = OpenAmounts(c)[b]
        BY <1>0 DEF HeldIsWhatOpenCallsHold
      <4>3. \A b \in Arms : scope'[c][b].reserved = IF b = a THEN w ELSE scope[c][b].reserved
        BY <2>2, <3>1, <3>2, <4>1, <4>2
      <4>4. QED
        BY <3>3, <4>2, <4>3
    <3>7. HeldFor(c)'
      <4>1. reserved \in [Commands -> Nat] /\ reserved[c] = SumTo(OpenAmounts(c), NArms)
        BY <1>0, TypeFacts DEF HeldIsWhatOpenCallsHold
      <4>2. QED
        BY <2>2, <3>5, <3>6, <4>1 DEF HeldFor
    <3>8. ASSUME NEW d \in Commands, d # c
          PROVE  HeldFor(d)'
      <4>1. call'[d] = call[d] /\ scope'[d] = scope[d] /\ reserved'[d] = reserved[d]
        BY <1>0, <2>2, <3>8, TypeFacts
      <4>2. QED
        BY <1>0, <4>1, OpenAmountsSame DEF HeldFor, HeldIsWhatOpenCallsHold
    <3>9. QED
      BY <3>7, <3>8 DEF HeldFor, HeldIsWhatOpenCallsHold
  <2>3. QED
    BY <1>6, <2>1, <2>2 DEF Reserve
<1>7. ASSUME SettleEnd
      PROVE  HeldIsWhatOpenCallsHold'
  <2>1. PICK r \in appending : SettleEnd!(r)
    BY <1>7 DEF SettleEnd
  <2>2. UNCHANGED <<call, reserved>>
    BY <2>1
  <2>3. ASSUME NEW d \in Commands, NEW b \in Arms
        PROVE  scope'[d][b].reserved = scope[d][b].reserved
    <3>1. scope' = [scope EXCEPT ![r.cmd][r.arm].spent = @ + r.cost]
      BY <2>1
    <3>2. scope \in [Commands -> [Arms -> [spent : Nat, reserved : Nat]]]
          /\ r.cmd \in Commands /\ r.arm \in Arms
      BY <1>0, TypeFacts
    <3>3. QED
      BY <3>1, <3>2
  <2>4. QED
    BY <1>0, <2>2, <2>3, HeldUntouched
<1>8. ASSUME NEW x \in OpeningAmounts, RecordOpeningBalance(x)
      PROVE  HeldIsWhatOpenCallsHold'
  BY <1>0, <1>8, HeldUntouched DEF RecordOpeningBalance
<1>9. CASE UNCHANGED vars
  BY <1>0, <1>9, HeldUntouched DEF vars
<1>10. QED
  BY <1>0, <1>1, <1>2, <1>3, <1>4, <1>5, <1>6, <1>7, <1>8, <1>9 DEF Next

\* Reservations are given back once and only once, for any number of
\* commands and arms.
THEOREM HeldCorrect == Spec => []HeldIsWhatOpenCallsHold
<1>1. Spec => []TypeInv
  BY TypeInit, TypeNext, PTL DEF Spec
<1>2. QED
  BY <1>1, HeldInit, HeldNext, PTL DEF Spec

-----------------------------------------------------------------------------
(* Calls, the append in progress, and commands that are not running.       *)

CallInv ==
  /\ \A c \in Commands : c \notin running =>
       offset[c] = 0 /\ batch[c] = 0 /\ build[c] = 0 /\ experiment[c] = 0 /\ session[c] = 0
  /\ \A r \in appending :
       /\ r.cmd \in running /\ ~call[r.cmd][r.arm].open
       /\ EstimatesHold => r.cost <= call[r.cmd][r.arm].amount
  /\ \A c \in Commands, a \in Arms : call[c][a].amount <= MaxWorst

LEMMA CallInit == Init => CallInv
BY CostAssumption DEF Init, CallInv, Idle

\* Steps that leave calls and the append alone, and clear nothing.
LEMMA CallUntouched ==
  ASSUME CallInv, UNCHANGED <<call, appending>>, running \subseteq running',
         \A c \in Commands : c \notin running' =>
           /\ offset'[c] = offset[c] /\ batch'[c] = batch[c] /\ build'[c] = build[c]
           /\ experiment'[c] = experiment[c] /\ session'[c] = session[c]
  PROVE  CallInv'
BY DEF CallInv

\* Reading new entries touches only the command that reads.
LEMMA ReadNewOthers ==
  ASSUME TypeInv, NEW c \in Commands, ReadNew(c), NEW d \in Commands, d # c
  PROVE  /\ offset'[d] = offset[d] /\ build'[d] = build[d]
         /\ experiment'[d] = experiment[d] /\ session'[d] = session[d]
BY TypeFacts DEF ReadNew

LEMMA CallNext == TypeInv /\ CallInv /\ [Next]_vars => CallInv'
<1>0. SUFFICES ASSUME TypeInv, CallInv, [Next]_vars
               PROVE  CallInv'
  OBVIOUS
<1>1. ASSUME NEW c \in Commands, Start(c)
      PROVE  CallInv'
  BY <1>0, <1>1, ReadNewOthers, CallUntouched DEF Start
<1>2. ASSUME NEW c \in Commands, Refresh(c)
      PROVE  CallInv'
  BY <1>0, <1>2, ReadNewOthers, CallUntouched DEF Refresh
<1>3. ASSUME NEW c \in Commands, Stop(c)
      PROVE  CallInv'
  <2>1. /\ running' = running \ {c} /\ appending' = {r \in appending : r.cmd # c}
        /\ call' = [call EXCEPT ![c] = [a \in Arms |-> Idle]]
    BY <1>3 DEF Stop
  <2>2. \A d \in Commands : d # c => call'[d] = call[d]
    BY <1>0, <2>1, TypeFacts
  <2>3. \A d \in Commands : d \notin running' =>
          /\ offset'[d] = 0 /\ batch'[d] = 0 /\ build'[d] = 0
          /\ experiment'[d] = 0 /\ session'[d] = 0
    BY <1>0, <1>3, <2>1, TypeFacts DEF Stop, CallInv
  <2>4. \A d \in Commands, a \in Arms : call'[d][a].amount <= MaxWorst
    BY <1>0, <2>1, TypeFacts, CostAssumption DEF CallInv, Idle
  <2>5. \A r \in appending' :
          /\ r.cmd \in running' /\ ~call'[r.cmd][r.arm].open
          /\ EstimatesHold => r.cost <= call'[r.cmd][r.arm].amount
    BY <1>0, <2>1, <2>2, TypeFacts DEF CallInv
  <2>6. QED
    BY <2>3, <2>4, <2>5 DEF CallInv
<1>4. ASSUME NEW c \in Commands, NEW a \in Arms, NewScope(c, a)
      PROVE  CallInv'
  BY <1>0, <1>4, CallUntouched DEF NewScope, totals
<1>5. ASSUME NEW c \in Commands, NEW a \in Arms, Release(c, a)
      PROVE  CallInv'
  <2>1. /\ UNCHANGED <<running, offset, totals, appending>>
        /\ call' = [call EXCEPT ![c][a].open = FALSE]
    BY <1>5 DEF Release, ReleaseLocked
  <2>2. \A d \in Commands, b \in Arms :
          call'[d][b].amount = call[d][b].amount /\ (call'[d][b].open => call[d][b].open)
    <3>1. call \in [Commands -> [Arms -> [open : BOOLEAN, amount : Nat]]]
      BY <1>0, TypeFacts
    <3>2. QED
      BY <2>1, <3>1
  <2>3. QED
    BY <1>0, <2>1, <2>2, TypeFacts DEF CallInv, totals
<1>6. ASSUME NEW c \in Commands, NEW a \in Arms, NEW w \in WorstCases, Reserve(c, a, w)
      PROVE  CallInv'
  <2>1. /\ UNCHANGED <<running, batch, appending>> /\ c \in running /\ Unlocked(c)
        /\ ReadNew(c)
    BY <1>6 DEF Reserve
  <2>2. w <= MaxWorst
    BY CostAssumption
  <2>3. \/ call' = call
        \/ call' = [call EXCEPT ![c][a] = [open |-> TRUE, amount |-> w]]
    BY <1>6 DEF Reserve
  <2>4. \A d \in Commands, b \in Arms : call'[d][b].amount <= MaxWorst
    <3>1. call \in [Commands -> [Arms -> [open : BOOLEAN, amount : Nat]]]
      BY <1>0, TypeFacts
    <3>2. \A d \in Commands, b \in Arms : call[d][b].amount <= MaxWorst
      BY <1>0 DEF CallInv
    <3>3. CASE call' = call
      BY <3>2, <3>3
    <3>4. CASE call' = [call EXCEPT ![c][a] = [open |-> TRUE, amount |-> w]]
      <4>1. SUFFICES ASSUME NEW d \in Commands, NEW b \in Arms
                     PROVE  call'[d][b].amount <= MaxWorst
        OBVIOUS
      <4>2. CASE d = c /\ b = a
        <5>1. call'[d][b] = [open |-> TRUE, amount |-> w]
          BY <3>1, <3>4, <4>2
        <5>2. QED
          BY <2>2, <5>1
      <4>3. CASE ~(d = c /\ b = a)
        <5>1. call'[d][b] = call[d][b]
          BY <3>1, <3>4, <4>3
        <5>2. QED
          BY <3>2, <5>1
      <4>4. QED
        BY <4>2, <4>3
    <3>5. QED
      BY <2>3, <3>3, <3>4
  <2>5. \A d \in Commands : d # c => call'[d] = call[d]
    BY <1>0, <2>3, TypeFacts
  <2>6. \A r \in appending : r.cmd # c
    BY <2>1 DEF Unlocked
  <2>7. \A d \in Commands : d \notin running' =>
          /\ offset'[d] = 0 /\ batch'[d] = 0 /\ build'[d] = 0
          /\ experiment'[d] = 0 /\ session'[d] = 0
    BY <1>0, <2>1, ReadNewOthers DEF CallInv
  <2>8. QED
    BY <1>0, <2>1, <2>4, <2>5, <2>6, <2>7, TypeFacts DEF CallInv
<1>7. ASSUME NEW c \in Commands, NEW a \in Arms, NEW x \in ActualCosts, SettleBegin(c, a, x)
      PROVE  CallInv'
  <2>1. /\ UNCHANGED <<running, batch>> /\ c \in running /\ ReadNew(c)
        /\ call' = [call EXCEPT ![c][a].open = FALSE]
        /\ EstimatesHold => x <= call[c][a].amount
        /\ appending' = {[cmd |-> c, arm |-> a, cost |-> x]}
    BY <1>7 DEF SettleBegin, ReleaseLocked
  <2>2. \A d \in Commands, b \in Arms : call'[d][b].amount = call[d][b].amount
    BY <1>0, <2>1, TypeFacts
  <2>3. ~call'[c][a].open
    BY <1>0, <2>1, TypeFacts
  <2>4. \A d \in Commands : d \notin running' =>
          /\ offset'[d] = 0 /\ batch'[d] = 0 /\ build'[d] = 0
          /\ experiment'[d] = 0 /\ session'[d] = 0
    BY <1>0, <2>1, ReadNewOthers DEF CallInv
  <2>5. \A r \in appending' :
          /\ r.cmd \in running' /\ ~call'[r.cmd][r.arm].open
          /\ EstimatesHold => r.cost <= call'[r.cmd][r.arm].amount
    BY <2>1, <2>2, <2>3
  <2>6. QED
    BY <1>0, <2>2, <2>4, <2>5 DEF CallInv
<1>8. ASSUME SettleEnd
      PROVE  CallInv'
  <2>1. PICK r \in appending : SettleEnd!(r)
    BY <1>8 DEF SettleEnd
  <2>2. UNCHANGED <<running, reserved, call>> /\ appending' = {} /\ r.cmd \in running
    BY <1>0, <2>1 DEF CallInv
  <2>3. \A d \in Commands : d # r.cmd =>
          /\ offset'[d] = offset[d] /\ batch'[d] = batch[d] /\ build'[d] = build[d]
          /\ experiment'[d] = experiment[d] /\ session'[d] = session[d]
    BY <1>0, <2>1, TypeFacts
  <2>4. QED
    BY <1>0, <2>2, <2>3 DEF CallInv
<1>9. ASSUME NEW x \in OpeningAmounts, RecordOpeningBalance(x)
      PROVE  CallInv'
  BY <1>0, <1>9, CallUntouched DEF RecordOpeningBalance, totals
<1>10. CASE UNCHANGED vars
  BY <1>0, <1>10, CallUntouched DEF vars
<1>11. QED
  BY <1>0, <1>1, <1>2, <1>3, <1>4, <1>5, <1>6, <1>7, <1>8, <1>9, <1>10 DEF Next

-----------------------------------------------------------------------------
(* The totals agree with the ledger, an opening balance that is appended   *)
(* without the file lock included.                                         *)

TotalsFor(c) ==
  /\ BuildAgrees(c)
  /\ experiment[c] = SumTo(ExperimentPart(ledger), offset[c])
  /\ session[c] = SumTo(SessionPart(ledger, c), offset[c])

\* There is one opening balance at most, and it counts for the build only.
OneOpening ==
  /\ \A i, j \in DOMAIN ledger : ledger[i].opening /\ ledger[j].opening => i = j
  /\ \A i \in DOMAIN ledger :
       ledger[i].opening => ~ledger[i].experiment /\ ledger[i].session = NoSession

\* The file lock keeps the ledger still between the read and the append, but
\* for an opening balance.
BehindByOpening(c) == offset[c] + 1 = Len(ledger) /\ ledger[Len(ledger)].opening
TotalsInv ==
  /\ \A c \in Commands : TotalsFor(c)
  /\ OneOpening
  /\ \A r \in appending : offset[r.cmd] = Len(ledger) \/ BehindByOpening(r.cmd)

LEMMA TotalsInit == Init => TotalsInv
BY SumToUnfold DEF Init, TotalsInv, TotalsFor, BuildAgrees, OneOpening

\* After a read the totals cover the whole ledger.
LEMMA ReadNewTotals ==
  ASSUME TypeInv, NEW c \in Commands, TotalsFor(c), ReadNew(c), ledger' = ledger
  PROVE  TotalsFor(c)' /\ offset'[c] = Len(ledger)
<1>1. /\ build \in [Commands -> Nat] /\ session \in [Commands -> Nat]
      /\ experiment \in [Commands -> Nat] /\ offset \in [Commands -> Nat]
      /\ Len(ledger) \in Nat /\ ledger \in Seq(Entry) /\ offset[c] <= Len(ledger)
  BY TypeFacts
<1>2. \A f : (\A i \in 1..Len(ledger) : f[i] \in Nat) =>
              SumTo(f, offset[c]) \in Nat /\ SumTo(f, Len(ledger)) \in Nat
  BY <1>1, SumToNat
<1>3. /\ SumTo(BuildPart(ledger), Len(ledger)) \in Nat /\ SumTo(BuildPart(ledger), offset[c]) \in Nat
      /\ SumTo(ExperimentPart(ledger), Len(ledger)) \in Nat
      /\ SumTo(SessionPart(ledger, c), Len(ledger)) \in Nat
  BY <1>1, <1>2, PartsAreNat
<1>4. /\ offset'[c] = Len(ledger)
      /\ build'[c] = build[c] + NewBuild(c)
      /\ experiment'[c] = experiment[c] + NewExperiment(c)
      /\ session'[c] = session[c] + NewSession(c)
  BY <1>1 DEF ReadNew
<1>5. BuildAgrees(c)'
  <2> DEFINE all == SumTo(BuildPart(ledger), Len(ledger))
             old == SumTo(BuildPart(ledger), offset[c])
  <2>1. build'[c] = build[c] + (all - old) /\ all \in Nat /\ old \in Nat /\ build[c] \in Nat
    BY <1>1, <1>3, <1>4 DEF NewBuild, SumBetween
  <2>2. BuildPart(ledger)' = BuildPart(ledger)
    BY DEF BuildPart
  <2>3. CASE build[c] = old
    <3> HIDE DEF all, old
    <3>1. build'[c] = all
      BY <2>1, <2>3
    <3>2. QED
      BY <3>1, <2>2, <1>4 DEF BuildAgrees, all
  <2>4. ASSUME NEW i \in 1..offset[c], ledger[i].opening, build[c] + ledger[i].cost = old
        PROVE  BuildAgrees(c)'
    <3>1. i \in 1..Len(ledger)
      BY <1>1
    <3>2. ledger[i].cost \in Nat
      <4>1. ledger[i] \in Entry
        BY <1>1, <3>1
      <4>2. QED
        BY <4>1 DEF Entry
    <3> HIDE DEF all, old
    <3>3. build'[c] + ledger[i].cost = all
      BY <2>1, <2>4, <3>2
    <3>4. QED
      BY <1>4, <2>2, <2>4, <3>1, <3>3 DEF BuildAgrees, all
  <2>5. QED
    BY <2>3, <2>4 DEF TotalsFor, BuildAgrees
<1>6. experiment'[c] = SumTo(ExperimentPart(ledger), Len(ledger))
  BY <1>1, <1>3, <1>4 DEF TotalsFor, NewExperiment, SumBetween
<1>7. session'[c] = SumTo(SessionPart(ledger, c), Len(ledger))
  BY <1>1, <1>3, <1>4 DEF TotalsFor, NewSession, SumBetween
<1>8. QED
  BY <1>4, <1>5, <1>6, <1>7 DEF TotalsFor, SessionPart

LEMMA TotalsSame ==
  ASSUME NEW c \in Commands, TotalsFor(c), ledger' = ledger,
         /\ offset'[c] = offset[c] /\ build'[c] = build[c]
         /\ experiment'[c] = experiment[c] /\ session'[c] = session[c]
  PROVE  TotalsFor(c)'
BY DEF TotalsFor, SessionPart, BuildAgrees

\* An entry beyond a command's offset is nothing to its totals.
LEMMA TotalsOfLonger ==
  ASSUME TypeInv, NEW c \in Commands, TotalsFor(c), NEW e \in Entry, ledger' = Append(ledger, e),
         /\ offset'[c] = offset[c] /\ build'[c] = build[c]
         /\ experiment'[c] = experiment[c] /\ session'[c] = session[c]
  PROVE  TotalsFor(c)'
<1>1. ledger \in Seq(Entry) /\ offset[c] \in 0..Len(ledger)
  BY TypeFacts
<1>2. \A i \in 1..offset[c] : ledger'[i] = ledger[i]
  BY <1>1
<1>3. /\ SumTo(BuildPart(ledger'), offset[c]) = SumTo(BuildPart(ledger), offset[c])
      /\ SumTo(ExperimentPart(ledger'), offset[c]) = SumTo(ExperimentPart(ledger), offset[c])
      /\ SumTo(SessionPart(ledger', c), offset[c]) = SumTo(SessionPart(ledger, c), offset[c])
  BY <1>1, SumsAfterAppend
<1>4. BuildAgrees(c)'
  BY <1>2, <1>3 DEF TotalsFor, BuildAgrees
<1>5. QED
  BY <1>3, <1>4 DEF TotalsFor

\* A read by one command keeps every command's totals right.
LEMMA ReadNewKeepsTotals ==
  ASSUME TypeInv, TotalsInv, NEW c \in Commands, ReadNew(c), ledger' = ledger
  PROVE  /\ \A d \in Commands : TotalsFor(d)'
         /\ OneOpening'
         /\ \A r \in appending : offset'[r.cmd] = Len(ledger) \/ BehindByOpening(r.cmd)'
         /\ offset'[c] = Len(ledger)
<1>1. TotalsFor(c)' /\ offset'[c] = Len(ledger)
  BY ReadNewTotals DEF TotalsInv
<1>2. ASSUME NEW d \in Commands, d # c
      PROVE  TotalsFor(d)' /\ offset'[d] = offset[d]
  BY <1>2, ReadNewOthers, TotalsSame DEF TotalsInv
<1>3. \A r \in appending : r.cmd \in Commands
  BY TypeFacts
<1>4. OneOpening'
  BY DEF TotalsInv, OneOpening
<1>5. ASSUME NEW r \in appending
      PROVE  offset'[r.cmd] = Len(ledger) \/ BehindByOpening(r.cmd)'
  <2>1. CASE r.cmd = c
    BY <1>1, <2>1
  <2>2. CASE r.cmd # c
    BY <1>2, <1>3, <2>2 DEF TotalsInv, BehindByOpening
  <2>3. QED
    BY <2>1, <2>2
<1>6. QED
  BY <1>1, <1>2, <1>4, <1>5

\* What a command that appends has counted: the whole ledger, or all but an
\* opening balance.
CountedAll(c) ==
  LET n == Len(ledger) IN
  /\ \/ build[c] = SumTo(BuildPart(ledger), n)
     \/ \E i \in 1..n : ledger[i].opening /\ build[c] + ledger[i].cost = SumTo(BuildPart(ledger), n)
  /\ experiment[c] = SumTo(ExperimentPart(ledger), n)
  /\ session[c] = SumTo(SessionPart(ledger, c), n)

LEMMA AppenderCountedAll ==
  ASSUME TypeInv, TotalsInv, NEW r \in appending
  PROVE  CountedAll(r.cmd)
<1> DEFINE c == r.cmd
           n == Len(ledger)
<1>1. /\ c \in Commands /\ ledger \in Seq(Entry) /\ n \in Nat /\ offset[c] \in 0..n
      /\ build[c] \in Nat /\ experiment[c] \in Nat /\ session[c] \in Nat
  BY TypeFacts
<1>2. TotalsFor(c)
  BY <1>1 DEF TotalsInv
<1>3. CASE offset[c] = n
  BY <1>2, <1>3 DEF TotalsFor, BuildAgrees, CountedAll
<1>4. CASE BehindByOpening(c)
  <2> DEFINE k == offset[c]
  <2>1. k + 1 = n /\ k \in Nat /\ n \in DOMAIN ledger /\ ledger[n] \in Entry /\ ledger[n].opening
    BY <1>1, <1>4 DEF BehindByOpening
  <2>2. ~ledger[n].experiment /\ ledger[n].session # SessionOf[c] /\ ledger[n].cost \in Nat
    <3>1. ledger[n].session = NoSession /\ ~ledger[n].experiment
      BY <2>1 DEF TotalsInv, OneOpening
    <3>2. QED
      BY <1>1, <2>1, <3>1, CostAssumption DEF Entry
  <2>3. /\ BuildPart(ledger)[n] = ledger[n].cost
        /\ ExperimentPart(ledger)[n] = 0
        /\ SessionPart(ledger, c)[n] = 0
    BY <2>1, <2>2 DEF BuildPart, ExperimentPart, SessionPart
  <2>4. \A f : SumTo(f, n) = SumTo(f, k) + f[n]
    BY <2>1, SumToUnfold
  <2>5. build[c] = SumTo(BuildPart(ledger), k)
    <3>1. ASSUME NEW i \in 1..k, ledger[i].opening
          PROVE  FALSE
      <4>1. i \in DOMAIN ledger /\ i # n
        BY <1>1, <2>1
      <4>2. QED
        BY <2>1, <3>1, <4>1 DEF TotalsInv, OneOpening
    <3>2. QED
      BY <1>2, <3>1 DEF TotalsFor, BuildAgrees
  <2>6. experiment[c] = SumTo(ExperimentPart(ledger), k) /\ session[c] = SumTo(SessionPart(ledger, c), k)
    BY <1>2 DEF TotalsFor
  <2>7. build[c] + ledger[n].cost = SumTo(BuildPart(ledger), n)
    BY <2>3, <2>4, <2>5
  <2>8. /\ experiment[c] = SumTo(ExperimentPart(ledger), n)
        /\ session[c] = SumTo(SessionPart(ledger, c), n)
    BY <1>1, <2>3, <2>4, <2>6
  <2>9. n \in 1..n
    BY <1>1, <2>1
  <2>10. QED
    BY <2>1, <2>7, <2>8, <2>9 DEF CountedAll
<1>5. QED
  BY <1>3, <1>4 DEF TotalsInv

\* The append keeps the totals of the command that appends.
LEMMA AppendKeepsTotals ==
  ASSUME TypeInv, NEW c \in Commands, CountedAll(c), NEW x \in Nat,
         ledger' = Append(ledger, [session |-> SessionOf[c], experiment |-> IsExperiment[c],
                                   opening |-> FALSE, cost |-> x]),
         offset'[c] = Len(ledger) + 1, build'[c] = build[c] + x,
         experiment'[c] = IF IsExperiment[c] THEN experiment[c] + x ELSE experiment[c],
         session'[c] = IF IsExperiment[c] THEN session[c] ELSE session[c] + x
  PROVE  TotalsFor(c)'
<1> DEFINE e == [session |-> SessionOf[c], experiment |-> IsExperiment[c],
                 opening |-> FALSE, cost |-> x]
           n == Len(ledger)
<1>1. /\ ledger \in Seq(Entry) /\ n \in Nat
      /\ build[c] \in Nat /\ experiment[c] \in Nat /\ session[c] \in Nat
  BY TypeFacts
<1>2. e \in Entry /\ e.experiment \in BOOLEAN
  BY CostAssumption DEF Entry
<1>3. e.cost = x /\ e.experiment = IsExperiment[c] /\ e.session = SessionOf[c]
  OBVIOUS
<1>4. ledger' = Append(ledger, e)
  OBVIOUS
<1> HIDE DEF e
<1>5. /\ SumTo(BuildPart(ledger'), n + 1) = SumTo(BuildPart(ledger), n) + x
      /\ SumTo(ExperimentPart(ledger'), n + 1) =
           SumTo(ExperimentPart(ledger), n) + (IF IsExperiment[c] THEN x ELSE 0)
      /\ SumTo(SessionPart(ledger', c), n + 1) =
           SumTo(SessionPart(ledger, c), n) + (IF IsExperiment[c] THEN 0 ELSE x)
  BY <1>1, <1>2, <1>3, <1>4, SumsOfAppend
<1>6. BuildAgrees(c)'
  <2>1. CASE build[c] = SumTo(BuildPart(ledger), n)
    <3>1. build'[c] = SumTo(BuildPart(ledger'), n + 1)
      BY <1>1, <1>5, <2>1
    <3>2. QED
      BY <3>1 DEF BuildAgrees
  <2>2. ASSUME NEW i \in 1..n, ledger[i].opening,
               build[c] + ledger[i].cost = SumTo(BuildPart(ledger), n)
        PROVE  BuildAgrees(c)'
    <3>1. ledger'[i] = ledger[i] /\ i \in 1..(n + 1) /\ ledger[i].cost \in Nat
      <4>1. ledger[i] \in Entry
        BY <1>1
      <4>2. ledger[i].cost \in Nat
        BY <4>1 DEF Entry
      <4>3. ledger'[i] = ledger[i] /\ i \in 1..(n + 1)
        BY <1>1, <1>2, <1>4
      <4>4. QED
        BY <4>2, <4>3
    <3>2. build'[c] + ledger[i].cost = SumTo(BuildPart(ledger'), n + 1)
      BY <1>1, <1>5, <2>2, <3>1
    <3>3. QED
      BY <2>2, <3>1, <3>2 DEF BuildAgrees
  <2>3. QED
    BY <2>1, <2>2 DEF CountedAll
<1>7. experiment'[c] = SumTo(ExperimentPart(ledger'), n + 1)
  BY <1>1, <1>2, <1>3, <1>5 DEF CountedAll
<1>8. session'[c] = SumTo(SessionPart(ledger', c), n + 1)
  BY <1>1, <1>2, <1>3, <1>5 DEF CountedAll
<1>9. QED
  BY <1>6, <1>7, <1>8 DEF TotalsFor

LEMMA OpeningKeepsTotals ==
  ASSUME TypeInv, TotalsInv, NEW x \in OpeningAmounts, RecordOpeningBalance(x)
  PROVE  TotalsInv'
<1> DEFINE e == [session |-> NoSession, experiment |-> FALSE, opening |-> TRUE, cost |-> x]
           n == Len(ledger)
<1>1. /\ ledger \in Seq(Entry) /\ n \in Nat
      /\ \A r \in appending : r.cmd \in Commands /\ offset[r.cmd] \in Nat
  BY TypeFacts
<1>2. e \in Entry
  BY CostAssumption DEF Entry
<1>3. /\ ledger' = Append(ledger, e) /\ \A i \in DOMAIN ledger : ~ledger[i].opening
      /\ UNCHANGED <<offset, totals, appending>>
  BY DEF RecordOpeningBalance
<1>4. ASSUME NEW c \in Commands
      PROVE  TotalsFor(c)'
  BY <1>2, <1>3, TotalsOfLonger DEF TotalsInv, totals
<1>5. /\ Len(ledger') = n + 1 /\ ledger'[n + 1] = e /\ DOMAIN ledger' = 1..(n + 1)
      /\ \A i \in 1..n : i \in DOMAIN ledger /\ ledger'[i] = ledger[i]
  BY <1>1, <1>2, <1>3
<1>6. OneOpening'
  <2>1. \A i \in DOMAIN ledger' : ledger'[i].opening => i = n + 1
    BY <1>1, <1>3, <1>5
  <2>2. QED
    BY <2>1, <1>5 DEF OneOpening
<1>7. ASSUME NEW r \in appending'
      PROVE  BehindByOpening(r.cmd)'
  <2>1. r \in appending /\ offset'[r.cmd] = offset[r.cmd] /\ offset[r.cmd] \in Nat
    BY <1>1, <1>3
  <2>2. offset[r.cmd] = n
    <3>1. CASE BehindByOpening(r.cmd)
      <4>1. n \in DOMAIN ledger /\ ledger[n].opening
        BY <1>1, <2>1, <3>1 DEF BehindByOpening
      <4>2. QED
        BY <4>1, <1>3
    <3>2. QED
      BY <2>1, <3>1 DEF TotalsInv
  <2>3. QED
    BY <2>1, <2>2, <1>5 DEF BehindByOpening
<1>8. QED
  BY <1>4, <1>6, <1>7 DEF TotalsInv

LEMMA TotalsNext == TypeInv /\ CallInv /\ TotalsInv /\ [Next]_vars => TotalsInv'
<1>0. SUFFICES ASSUME TypeInv, CallInv, TotalsInv, [Next]_vars
               PROVE  TotalsInv'
  OBVIOUS
<1>1. ASSUME NEW c \in Commands, Start(c) \/ Refresh(c)
      PROVE  TotalsInv'
  BY <1>0, <1>1, ReadNewKeepsTotals DEF Start, Refresh, TotalsInv
<1>2. ASSUME NEW c \in Commands, Stop(c)
      PROVE  TotalsInv'
  <2>1. /\ offset'[c] = 0 /\ build'[c] = 0 /\ experiment'[c] = 0 /\ session'[c] = 0
        /\ ledger' = ledger /\ appending' = {r \in appending : r.cmd # c}
    BY <1>0, <1>2, TypeFacts DEF Stop
  <2>2. TotalsFor(c)'
    BY <2>1, SumToUnfold DEF TotalsFor, BuildAgrees
  <2>3. ASSUME NEW d \in Commands, d # c
        PROVE  /\ offset'[d] = offset[d] /\ build'[d] = build[d]
               /\ experiment'[d] = experiment[d] /\ session'[d] = session[d]
    BY <1>0, <1>2, <2>3, TypeFacts DEF Stop
  <2>4. \A d \in Commands : TotalsFor(d)'
    BY <1>0, <2>1, <2>2, <2>3, TotalsSame DEF TotalsInv
  <2>5. OneOpening'
    BY <1>0, <2>1 DEF TotalsInv, OneOpening
  <2>6. ASSUME NEW r \in appending'
        PROVE  (offset[r.cmd] = Len(ledger) \/ BehindByOpening(r.cmd))'
    <3>1. r \in appending /\ r.cmd \in Commands /\ r.cmd # c
      BY <1>0, <2>1, TypeFacts
    <3>2. QED
      BY <1>0, <2>1, <2>3, <3>1 DEF TotalsInv, BehindByOpening
  <2>7. QED
    BY <2>4, <2>5, <2>6 DEF TotalsInv
<1>3. ASSUME NEW c \in Commands, NEW a \in Arms, NewScope(c, a) \/ Release(c, a)
      PROVE  TotalsInv'
  <2>1. UNCHANGED <<ledger, offset, totals, appending>>
    BY <1>3 DEF NewScope, Release
  <2>2. QED
    BY <1>0, <2>1, TotalsSame DEF totals, TotalsInv, OneOpening, BehindByOpening
<1>4. ASSUME NEW c \in Commands, NEW a \in Arms, NEW w \in WorstCases, Reserve(c, a, w)
      PROVE  TotalsInv'
  BY <1>0, <1>4, ReadNewKeepsTotals DEF Reserve, TotalsInv
<1>5. ASSUME NEW c \in Commands, NEW a \in Arms, NEW x \in ActualCosts, SettleBegin(c, a, x)
      PROVE  TotalsInv'
  BY <1>0, <1>5, ReadNewKeepsTotals DEF SettleBegin, TotalsInv
<1>6. ASSUME SettleEnd
      PROVE  TotalsInv'
  <2>1. PICK r \in appending : SettleEnd!(r)
    BY <1>6 DEF SettleEnd
  <2> DEFINE c == r.cmd
             e == [session |-> SessionOf[c], experiment |-> IsExperiment[c],
                   opening |-> FALSE, cost |-> r.cost]
             n == Len(ledger)
  <2>2. c \in Commands /\ r.cost \in Nat /\ n \in Nat /\ ledger \in Seq(Entry)
    BY <1>0, TypeFacts
  <2>3. e \in Entry
    BY <2>2, CostAssumption DEF Entry
  <2>4. ledger' = Append(ledger, e) /\ appending' = {}
    BY <2>1
  <2>5. CountedAll(c)
    BY <1>0, AppenderCountedAll
  <2>6. /\ offset'[c] = n + 1 /\ build'[c] = build[c] + r.cost
        /\ experiment'[c] = IF IsExperiment[c] THEN experiment[c] + r.cost ELSE experiment[c]
        /\ session'[c] = IF IsExperiment[c] THEN session[c] ELSE session[c] + r.cost
    BY <1>0, <2>1, <2>2, TypeFacts
  <2>7. TotalsFor(c)'
    BY <1>0, <2>2, <2>4, <2>5, <2>6, AppendKeepsTotals
  <2>8. ASSUME NEW d \in Commands, d # c
        PROVE  TotalsFor(d)'
    <3>1. /\ offset'[d] = offset[d] /\ build'[d] = build[d]
          /\ experiment'[d] = experiment[d] /\ session'[d] = session[d]
      BY <1>0, <2>1, <2>2, <2>8, TypeFacts
    <3>2. TotalsFor(d)
      BY <1>0 DEF TotalsInv
    <3> HIDE DEF e, c, n
    <3>3. QED
      BY <1>0, <2>3, <2>4, <3>1, <3>2, TotalsOfLonger
  <2>9. OneOpening'
    <3>1. /\ DOMAIN ledger' = 1..(n + 1) /\ ledger'[n + 1] = e /\ ~e.opening
          /\ \A i \in 1..n : i \in DOMAIN ledger /\ ledger'[i] = ledger[i]
      BY <2>2, <2>3, <2>4
    <3>2. \A i \in DOMAIN ledger' : ledger'[i].opening => i \in DOMAIN ledger /\ ledger'[i] = ledger[i]
      BY <2>2, <3>1
    <3> HIDE DEF e, c, n
    <3>3. QED
      BY <1>0, <3>2 DEF TotalsInv, OneOpening
  <2>10. QED
    BY <2>4, <2>7, <2>8, <2>9 DEF TotalsInv
<1>7. CASE UNCHANGED vars
  BY <1>0, <1>7, TotalsSame DEF vars, totals, TotalsInv, OneOpening, BehindByOpening
<1>8. ASSUME NEW x \in OpeningAmounts, RecordOpeningBalance(x)
      PROVE  TotalsInv'
  BY <1>0, <1>8, OpeningKeepsTotals
<1>9. QED
  BY <1>0, <1>1, <1>2, <1>3, <1>4, <1>5, <1>6, <1>7, <1>8 DEF Next

\* Every running total is the sum of exactly the ledger entries below the
\* command's offset, for any number of commands, arms and entries; an opening
\* balance that falls inside a record is the one entry that may be missing.
THEOREM TotalsCorrect == Spec => []TotalsAgreeWithLedger
<1>1. Spec => []TypeInv
  BY TypeInit, TypeNext, PTL DEF Spec
<1>2. Spec => []CallInv
  BY <1>1, CallInit, CallNext, PTL DEF Spec
<1>3. TypeInv /\ CallInv /\ TotalsInv /\ [Next]_vars => TotalsInv'
  BY TotalsNext
<1>4. Spec => []TotalsInv
  BY <1>1, <1>2, <1>3, TotalsInit, PTL DEF Spec
<1>5. TypeInv /\ TotalsInv => TotalsAgreeWithLedger
  BY TypeFacts DEF TotalsInv, TotalsFor, TotalsAgreeWithLedger
<1>6. QED
  BY <1>1, <1>4, <1>5, PTL

-----------------------------------------------------------------------------
(* Caps.                                                                   *)

\* The part of the append in progress that belongs to one arm.
ArmPending(c, a) == IF \E r \in appending : r.cmd = c /\ r.arm = a THEN Pending(c) ELSE 0

\* CapsHoldWithinCommand for one command, with the append in progress.
CapsFor(c) ==
  /\ batch[c] + reserved[c] + Pending(c) <= BatchCap
  /\ \A a \in Arms : scope[c][a].spent + scope[c][a].reserved + ArmPending(c, a) <= RunCap

LEMMA PendingFacts ==
  ASSUME TypeInv, NEW c \in Commands
  PROVE  /\ Pending(c) \in Nat
         /\ (\A r \in appending : r.cmd # c) => Pending(c) = 0
         /\ \A r \in appending : r.cmd = c => Pending(c) = r.cost
         /\ \A a \in Arms : ArmPending(c, a) \in Nat
<1>1. \A r \in appending : r.cost \in Nat
  BY TypeFacts
<1>2. \A r \in appending : r.cmd = c => Pending(c) = r.cost
  <2>1. SUFFICES ASSUME NEW r \in appending, r.cmd = c
                 PROVE  Pending(c) = r.cost
    OBVIOUS
  <2>2. \A q \in appending : q = r
    BY TypeFacts
  <2>3. (CHOOSE q \in appending : q.cmd = c) = r
    BY <2>1, <2>2
  <2>4. QED
    BY <2>1, <2>3 DEF Pending
<1>3. (\A r \in appending : r.cmd # c) => Pending(c) = 0
  BY DEF Pending
<1>4. Pending(c) \in Nat
  BY <1>1, <1>2, <1>3
<1>5. QED
  BY <1>2, <1>3, <1>4 DEF ArmPending

\* Nothing is pending for a command whose lock is free.
LEMMA UnlockedPending ==
  ASSUME NEW c \in Commands, Unlocked(c), TypeInv
  PROVE  Pending(c) = 0 /\ \A a \in Arms : ArmPending(c, a) = 0
<1>1. \A r \in appending : r.cmd # c
  BY DEF Unlocked
<1>2. QED
  BY <1>1, PendingFacts DEF ArmPending

\* A command whose own state and append are untouched keeps its caps.
LEMMA CapsSame ==
  ASSUME NEW c \in Commands, CapsFor(c),
         batch'[c] = batch[c], reserved'[c] = reserved[c], scope'[c] = scope[c],
         Pending(c)' = Pending(c), \A a \in Arms : ArmPending(c, a)' = ArmPending(c, a)
  PROVE  CapsFor(c)'
BY DEF CapsFor

LEMMA PendingSame ==
  ASSUME appending' = appending
  PROVE  \A c \in Commands : /\ Pending(c)' = Pending(c)
                             /\ \A a \in Arms : ArmPending(c, a)' = ArmPending(c, a)
BY DEF Pending, ArmPending

CapsInv == \A c \in Commands : CapsFor(c)

LEMMA CapsInit == Init => CapsInv
<1>1. BatchCap \in Nat /\ RunCap \in Nat
  BY CostAssumption
<1>2. QED
  BY <1>1 DEF Init, CapsInv, CapsFor, Pending, ArmPending, FreshScope

\* The numbers the caps are about are naturals.
LEMMA CapNumbers ==
  ASSUME TypeInv, NEW c \in Commands
  PROVE  /\ batch[c] \in Nat /\ reserved[c] \in Nat /\ Pending(c) \in Nat
         /\ BatchCap \in Nat /\ RunCap \in Nat
         /\ \A a \in Arms : /\ scope[c][a] \in [spent : Nat, reserved : Nat]
                            /\ call[c][a] \in [open : BOOLEAN, amount : Nat]
                            /\ ArmPending(c, a) \in Nat
BY TypeFacts, PendingFacts, CostAssumption

\* A release gives room back: the caps hold with x <= amount pending instead.
LEMMA ReleaseCaps ==
  ASSUME TypeInv, TypeInv', NEW c \in Commands, NEW a \in Arms, CapsFor(c),
         HeldIsWhatOpenCallsHold, call[c][a].open, ReleaseLocked(c, a),
         batch'[c] = batch[c], Unlocked(c),
         Pending(c)' \in Nat, ArmPending(c, a)' \in Nat,
         Pending(c)' <= call[c][a].amount, ArmPending(c, a)' <= call[c][a].amount,
         \A b \in Arms : b # a => ArmPending(c, b)' = 0
  PROVE  CapsFor(c)'
<1>1. /\ Pending(c) = 0 /\ \A b \in Arms : ArmPending(c, b) = 0
  BY UnlockedPending
<1>2. Pending(c)' \in Nat /\ ArmPending(c, a)' \in Nat
  OBVIOUS
<1>3. /\ reserved' = [reserved EXCEPT ![c] = @ - call[c][a].amount]
      /\ scope[c][a].reserved = call[c][a].amount /\ scope'[c][a].reserved = 0
  BY ReleaseHeld
<1>4. \A b \in Arms : /\ scope'[c][b].spent = scope[c][b].spent
                      /\ b # a => scope'[c][b].reserved = scope[c][b].reserved
  <2>1. scope \in [Commands -> [Arms -> [spent : Nat, reserved : Nat]]]
    BY TypeFacts
  <2>2. QED
    BY <2>1 DEF ReleaseLocked
<1>5. batch'[c] + reserved'[c] + Pending(c)' <= BatchCap
  <2>1. reserved'[c] = reserved[c] - call[c][a].amount
    BY <1>3, TypeFacts
  <2>2. QED
    BY <1>1, <1>2, <2>1, CapNumbers DEF CapsFor
<1>6. ASSUME NEW b \in Arms
      PROVE  scope'[c][b].spent + scope'[c][b].reserved + ArmPending(c, b)' <= RunCap
  <2>1. /\ scope[c][b].spent \in Nat /\ scope[c][b].reserved \in Nat /\ RunCap \in Nat
        /\ call[c][a].amount \in Nat
        /\ scope[c][b].spent + scope[c][b].reserved + 0 <= RunCap
    BY <1>1, CapNumbers DEF CapsFor
  <2>2. CASE b = a
    <3>1. /\ scope'[c][b].spent = scope[c][b].spent /\ scope'[c][b].reserved = 0
          /\ scope[c][b].reserved = call[c][a].amount
      BY <1>6, <1>3, <1>4, <2>2
    <3>2. ArmPending(c, b)' \in Nat /\ ArmPending(c, b)' <= call[c][a].amount
      BY <2>2
    <3>3. QED
      BY <2>1, <3>1, <3>2
  <2>3. CASE b # a
    <3>1. scope'[c][b].spent = scope[c][b].spent /\ scope'[c][b].reserved = scope[c][b].reserved
      BY <1>6, <1>4, <2>3
    <3>2. ArmPending(c, b)' = 0
      BY <2>3
    <3>3. QED
      BY <2>1, <3>1, <3>2
  <2>4. QED
    BY <2>2, <2>3
<1>7. QED
  BY <1>5, <1>6 DEF CapsFor

\* A release touches one command only.
LEMMA ReleaseOthers ==
  ASSUME TypeInv, NEW c \in Commands, NEW a \in Arms, ReleaseLocked(c, a),
         NEW d \in Commands, d # c
  PROVE  reserved'[d] = reserved[d] /\ scope'[d] = scope[d] /\ call'[d] = call[d]
BY TypeFacts DEF ReleaseLocked

LEMMA CapsNext ==
  ASSUME EstimatesHold
  PROVE  /\ TypeInv /\ TypeInv' /\ CallInv /\ HeldIsWhatOpenCallsHold /\ CapsInv
         /\ [Next]_vars
         => CapsInv'
<1>0. SUFFICES ASSUME TypeInv, TypeInv', CallInv, HeldIsWhatOpenCallsHold, CapsInv,
                      [Next]_vars
               PROVE  CapsInv'
  OBVIOUS
<1>1. ASSUME NEW c \in Commands, Start(c) \/ Refresh(c)
      PROVE  CapsInv'
  BY <1>0, <1>1, CapsSame, PendingSame DEF Start, Refresh, CapsInv
<1>2. ASSUME NEW c \in Commands, Stop(c)
      PROVE  CapsInv'
  <2>1. /\ batch'[c] = 0 /\ reserved'[c] = 0 /\ scope'[c] = [a \in Arms |-> FreshScope]
        /\ appending' = {r \in appending : r.cmd # c}
    BY <1>0, <1>2, TypeFacts DEF Stop
  <2>2. Pending(c)' = 0 /\ \A a \in Arms : ArmPending(c, a)' = 0
    BY <2>1 DEF Pending, ArmPending
  <2>3. CapsFor(c)'
    BY <2>1, <2>2, CostAssumption DEF CapsFor, FreshScope
  <2>4. ASSUME NEW d \in Commands, d # c
        PROVE  CapsFor(d)'
    <3>1. batch'[d] = batch[d] /\ reserved'[d] = reserved[d] /\ scope'[d] = scope[d]
      BY <1>0, <1>2, <2>4, TypeFacts DEF Stop
    <3>2. \A r \in appending : r.cmd = d <=> r \in appending' /\ r.cmd = d
      BY <2>1, <2>4
    <3>3. Pending(d)' = Pending(d)
      <4>1. CASE \A r \in appending : r.cmd # d
        BY <1>0, <2>1, <4>1, PendingFacts DEF Pending
      <4>2. CASE \E r \in appending : r.cmd = d
        <5>1. PICK r \in appending : r.cmd = d
          BY <4>2
        <5>2. appending = {r}
          BY <1>0, TypeFacts
        <5>3. appending' = appending
          BY <2>1, <2>4, <5>1, <5>2
        <5>4. QED
          BY <5>3 DEF Pending
      <4>3. QED
        BY <4>1, <4>2
    <3>4. \A a \in Arms : ArmPending(d, a)' = ArmPending(d, a)
      BY <2>1, <2>4, <3>3 DEF ArmPending
    <3>5. QED
      BY <1>0, <3>1, <3>3, <3>4, CapsSame DEF CapsInv
  <2>5. QED
    BY <2>3, <2>4 DEF CapsInv
<1>3. ASSUME NEW c \in Commands, NEW a \in Arms, NewScope(c, a)
      PROVE  CapsInv'
  <2>1. /\ scope' = [scope EXCEPT ![c][a] = FreshScope]
        /\ UNCHANGED <<batch, reserved, appending>>
        /\ \A r \in appending : <<r.cmd, r.arm>> # <<c, a>>
    BY <1>3 DEF NewScope, totals
  <2>2. ArmPending(c, a)' = 0
    BY <2>1 DEF ArmPending
  <2>3. \A b \in Arms : scope'[c][b] = IF b = a THEN FreshScope ELSE scope[c][b]
    BY <1>0, <2>1, TypeFacts
  <2>4. CapsFor(c)'
    <3>1. CapsFor(c)
      BY <1>0 DEF CapsInv
    <3>2. batch'[c] + reserved'[c] + Pending(c)' <= BatchCap
      BY <2>1, <3>1, PendingSame DEF CapsFor
    <3>3. ASSUME NEW b \in Arms
          PROVE  scope'[c][b].spent + scope'[c][b].reserved + ArmPending(c, b)' <= RunCap
      BY <2>1, <2>2, <2>3, <3>1, PendingSame, CostAssumption DEF CapsFor, FreshScope
    <3>4. QED
      BY <3>2, <3>3 DEF CapsFor
  <2>5. ASSUME NEW d \in Commands, d # c
        PROVE  CapsFor(d)'
    <3>1. scope'[d] = scope[d]
      BY <1>0, <2>1, <2>5, TypeFacts
    <3>2. QED
      BY <1>0, <2>1, <3>1, CapsSame, PendingSame DEF CapsInv
  <2>6. QED
    BY <2>4, <2>5 DEF CapsInv
<1>4. ASSUME NEW c \in Commands, NEW a \in Arms, Release(c, a)
      PROVE  CapsInv'
  <2>1. /\ ReleaseLocked(c, a) /\ call[c][a].open /\ UNCHANGED <<batch, appending>>
        /\ Unlocked(c)
    BY <1>4 DEF Release, totals
  <2>2. CapsFor(c)'
    <3>1. Pending(c)' = 0 /\ \A b \in Arms : ArmPending(c, b)' = 0
      BY <1>0, <2>1, PendingSame, UnlockedPending
    <3>2. call[c][a].amount \in Nat
      BY <1>0, TypeFacts
    <3>3. CapsFor(c)
      BY <1>0 DEF CapsInv
    <3>4. QED
      BY <1>0, <2>1, <3>1, <3>2, <3>3, ReleaseCaps
  <2>3. \A d \in Commands : d # c => CapsFor(d)'
    BY <1>0, <2>1, ReleaseOthers, CapsSame, PendingSame DEF CapsInv
  <2>4. QED
    BY <2>2, <2>3 DEF CapsInv
<1>5. ASSUME NEW c \in Commands, NEW a \in Arms, NEW x \in ActualCosts, SettleBegin(c, a, x)
      PROVE  CapsInv'
  <2>1. /\ ReleaseLocked(c, a) /\ call[c][a].open /\ UNCHANGED batch
        /\ Unlocked(c) /\ appending = {} /\ x <= call[c][a].amount
        /\ appending' = {[cmd |-> c, arm |-> a, cost |-> x]}
    BY <1>5, EstimatesHold DEF SettleBegin
  <2>2. Pending(c)' = x /\ ArmPending(c, a)' = x
    <3> DEFINE q == [cmd |-> c, arm |-> a, cost |-> x]
    <3>1. q.cmd = c /\ q.arm = a /\ q.cost = x
      OBVIOUS
    <3>2. appending' = {q}
      BY <2>1
    <3> HIDE DEF q
    <3>3. (CHOOSE r \in appending' : r.cmd = c) = q
      BY <3>1, <3>2
    <3>4. QED
      BY <3>1, <3>2, <3>3 DEF Pending, ArmPending
  <2>3. \A b \in Arms : b # a => ArmPending(c, b)' = 0
    BY <2>1 DEF ArmPending
  <2>4. CapsFor(c)'
    <3>1. x \in Nat
      BY CostAssumption
    <3>2. QED
      BY <1>0, <2>1, <2>2, <2>3, <3>1, ReleaseCaps DEF CapsInv
  <2>5. ASSUME NEW d \in Commands, d # c
        PROVE  CapsFor(d)'
    <3>1. Pending(d) = 0 /\ Pending(d)' = 0
      BY <2>1, <2>5 DEF Pending
    <3>2. \A b \in Arms : ArmPending(d, b) = 0 /\ ArmPending(d, b)' = 0
      BY <2>1, <2>5 DEF ArmPending
    <3>3. QED
      BY <1>0, <2>1, <2>5, <3>1, <3>2, ReleaseOthers, CapsSame DEF CapsInv
  <2>6. QED
    BY <2>4, <2>5 DEF CapsInv
<1>6. ASSUME NEW c \in Commands, NEW a \in Arms, NEW w \in WorstCases, Reserve(c, a, w)
      PROVE  CapsInv'
  <2>1. /\ UNCHANGED <<batch, appending>> /\ Unlocked(c)
    BY <1>6 DEF Reserve
  <2>2. CASE UNCHANGED <<scope, reserved, call>>
    BY <1>0, <2>1, <2>2, CapsSame, PendingSame DEF CapsInv
  <2>3. CASE /\ ~Crosses(c, a, TotalsAfter(c, a), scope[c][a].reserved, reserved[c], w)
             /\ scope' = [scope EXCEPT ![c][a].reserved = @ + w]
             /\ reserved' = [reserved EXCEPT ![c] = @ + w]
    <3>1. /\ w \in Nat /\ batch[c] \in Nat /\ reserved[c] \in Nat
          /\ scope[c][a] \in [spent : Nat, reserved : Nat]
      BY <1>0, CostAssumption, CapNumbers
    <3>2. /\ batch[c] + reserved[c] + w <= BatchCap
          /\ scope[c][a].spent + scope[c][a].reserved + w <= RunCap
      BY <1>0, <2>3, <3>1, CapNumbers DEF Crosses, TotalsAfter
    <3>3. Pending(c)' = 0 /\ \A b \in Arms : ArmPending(c, b)' = 0
      BY <1>0, <2>1, UnlockedPending, PendingSame
    <3>4. /\ reserved'[c] = reserved[c] + w
          /\ \A b \in Arms : /\ scope'[c][b].spent = scope[c][b].spent
                             /\ scope'[c][b].reserved =
                                  IF b = a THEN scope[c][b].reserved + w ELSE scope[c][b].reserved
      <4>1. /\ scope \in [Commands -> [Arms -> [spent : Nat, reserved : Nat]]]
            /\ reserved \in [Commands -> Nat]
        BY <1>0, TypeFacts
      <4>2. QED
        BY <2>3, <4>1
    <3>5. CapsFor(c)'
      <4>1. CapsFor(c) /\ Pending(c) = 0 /\ \A b \in Arms : ArmPending(c, b) = 0
        BY <1>0, <2>1, UnlockedPending DEF CapsInv
      <4>2. batch'[c] + reserved'[c] + Pending(c)' <= BatchCap
        BY <2>1, <3>1, <3>2, <3>3, <3>4
      <4>3. ASSUME NEW b \in Arms
            PROVE  scope'[c][b].spent + scope'[c][b].reserved + ArmPending(c, b)' <= RunCap
        <5>1. scope[c][b] \in [spent : Nat, reserved : Nat]
          BY <1>0, CapNumbers
        <5>2. CASE b = a
          BY <3>1, <3>2, <3>3, <3>4, <5>2
        <5>3. CASE b # a
          BY <3>3, <3>4, <4>1, <5>1, <5>3 DEF CapsFor
        <5>4. QED
          BY <5>2, <5>3
      <4>4. QED
        BY <4>2, <4>3 DEF CapsFor
    <3>6. ASSUME NEW d \in Commands, d # c
          PROVE  CapsFor(d)'
      <4>1. scope'[d] = scope[d] /\ reserved'[d] = reserved[d]
        BY <1>0, <2>3, <3>6, TypeFacts
      <4>2. QED
        BY <1>0, <2>1, <4>1, CapsSame, PendingSame DEF CapsInv
    <3>7. QED
      BY <3>5, <3>6 DEF CapsInv
  <2>4. QED
    BY <1>6, <2>2, <2>3 DEF Reserve
<1>7. ASSUME SettleEnd
      PROVE  CapsInv'
  <2>1. PICK r \in appending : SettleEnd!(r)
    BY <1>7 DEF SettleEnd
  <2>2. /\ r.cmd \in Commands /\ r.arm \in Arms /\ r.cost \in Nat
        /\ \A q \in appending : q = r
    BY <1>0, TypeFacts
  <2>3. /\ scope' = [scope EXCEPT ![r.cmd][r.arm].spent = @ + r.cost]
        /\ batch' = [batch EXCEPT ![r.cmd] = @ + r.cost]
        /\ appending' = {} /\ UNCHANGED reserved
    BY <2>1
  <2>4. ASSUME NEW d \in Commands
        PROVE  CapsFor(d)'
    <3>1. Pending(d)' = 0 /\ \A b \in Arms : ArmPending(d, b)' = 0
      BY <2>3 DEF Pending, ArmPending
    <3>2. CapsFor(d)
      BY <1>0 DEF CapsInv
    <3>3. CASE d = r.cmd
      <4>1. Pending(d) = r.cost /\ ArmPending(d, r.arm) = r.cost
        BY <1>0, <3>3, PendingFacts DEF ArmPending
      <4>2. batch'[d] = batch[d] + r.cost /\ reserved'[d] = reserved[d]
        BY <1>0, <2>2, <2>3, <3>3, TypeFacts
      <4>3. \A b \in Arms : /\ scope'[d][b].reserved = scope[d][b].reserved
                           /\ scope'[d][b].spent = IF b = r.arm THEN scope[d][b].spent + r.cost
                                                   ELSE scope[d][b].spent
        <5>1. scope \in [Commands -> [Arms -> [spent : Nat, reserved : Nat]]]
          BY <1>0, TypeFacts
        <5>2. QED
          BY <2>2, <2>3, <3>3, <5>1
      <4>4. batch'[d] + reserved'[d] + Pending(d)' <= BatchCap
        BY <1>0, <2>2, <3>1, <3>2, <4>1, <4>2, CapNumbers DEF CapsFor
      <4>5. ASSUME NEW b \in Arms
            PROVE  scope'[d][b].spent + scope'[d][b].reserved + ArmPending(d, b)' <= RunCap
        <5>1. /\ scope[d][b] \in [spent : Nat, reserved : Nat] /\ ArmPending(d, b) \in Nat
              /\ RunCap \in Nat
              /\ scope[d][b].spent + scope[d][b].reserved + ArmPending(d, b) <= RunCap
          BY <1>0, <3>2, CapNumbers DEF CapsFor
        <5>2. CASE b = r.arm
          BY <2>2, <3>1, <4>1, <4>3, <5>1, <5>2
        <5>3. CASE b # r.arm
          BY <3>1, <4>3, <5>1, <5>3
        <5>4. QED
          BY <5>2, <5>3
      <4>6. QED
        BY <4>4, <4>5 DEF CapsFor
    <3>4. CASE d # r.cmd
      <4>1. batch'[d] = batch[d] /\ scope'[d] = scope[d] /\ reserved'[d] = reserved[d]
        BY <1>0, <2>2, <2>3, <3>4, TypeFacts
      <4>2. Pending(d) = 0 /\ \A b \in Arms : ArmPending(d, b) = 0
        BY <2>2, <3>4 DEF Pending, ArmPending
      <4>3. QED
        BY <3>1, <3>2, <4>1, <4>2, CapsSame
    <3>5. QED
      BY <3>3, <3>4
  <2>5. QED
    BY <2>4 DEF CapsInv
<1>8. ASSUME NEW x \in OpeningAmounts, RecordOpeningBalance(x)
      PROVE  CapsInv'
  BY <1>0, <1>8, CapsSame, PendingSame DEF RecordOpeningBalance, totals, CapsInv
<1>9. CASE UNCHANGED vars
  BY <1>0, <1>9, CapsSame, PendingSame DEF vars, CapsInv
<1>10. QED
  BY <1>0, <1>1, <1>2, <1>3, <1>4, <1>5, <1>6, <1>7, <1>8, <1>9 DEF Next

\* If no call costs more than its worst case, concurrent arms of one command
\* never pass its batch cap, nor a run its own cap, even counting every call
\* in flight at its worst case.
THEOREM CapsCorrect == Spec => []CapsHoldWithinCommand
<1>1. Spec => []TypeInv
  BY TypeInit, TypeNext, PTL DEF Spec
<1>2. Spec => []CallInv
  BY <1>1, CallInit, CallNext, PTL DEF Spec
<1>3. Spec => []HeldIsWhatOpenCallsHold
  BY HeldCorrect
<1>4. CASE EstimatesHold
  <2>1. /\ TypeInv /\ TypeInv' /\ CallInv /\ HeldIsWhatOpenCallsHold /\ CapsInv
        /\ [Next]_vars
        => CapsInv'
    BY <1>4, CapsNext
  <2>2. Spec => []CapsInv
    BY <1>1, <1>2, <1>3, <2>1, CapsInit, PTL DEF Spec
  <2>3. TypeInv /\ CapsInv => CapsHoldWithinCommand
    BY CapNumbers DEF CapsInv, CapsFor, CapsHoldWithinCommand
  <2>4. QED
    BY <1>1, <2>2, <2>3, PTL
<1>5. CASE ~EstimatesHold
  <2>1. CapsHoldWithinCommand
    BY <1>5 DEF CapsHoldWithinCommand
  <2>2. QED
    BY <2>1, PTL
<1>6. QED
  BY <1>4, <1>5
-----------------------------------------------------------------------------
(* The batch cap of a command as a budget.                                 *)

\* What a command has spent against its batch cap: BatchBudget's spent.
Spent(c) == batch[c] + Pending(c)

\* A step of CapBudget for command c, one disjunct per action, or a stutter.
Holds(c) ==
  \E w \in 0..BatchCap : /\ Spent(c) + reserved[c] + w <= BatchCap
                         /\ reserved'[c] = reserved[c] + w
                         /\ Spent(c)' = Spent(c)
Settles(c) ==
  \E w \in 0..reserved[c] : \E x \in 0..w :
    reserved'[c] = reserved[c] - w /\ Spent(c)' = Spent(c) + x
Resets(c) == Spent(c)' = 0 /\ reserved'[c] = 0
Stutters(c) == Spent(c)' = Spent(c) /\ reserved'[c] = reserved[c]
BudgetStep(c) == Holds(c) \/ Settles(c) \/ Resets(c) \/ Stutters(c)

\* A step that leaves the command's numbers and the append alone.
LEMMA BudgetUntouched ==
  ASSUME NEW c \in Commands, appending' = appending,
         batch'[c] = batch[c], reserved'[c] = reserved[c]
  PROVE  BudgetStep(c)
BY PendingSame DEF BudgetStep, Stutters, Spent

\* reserve is a Hold of the worst case when no cap is crossed.
LEMMA ReserveHolds ==
  ASSUME TypeInv, NEW c \in Commands, NEW a \in Arms, NEW w \in WorstCases, Reserve(c, a, w)
  PROVE  BudgetStep(c)
<1>1. UNCHANGED <<batch, appending>> /\ Unlocked(c)
  BY DEF Reserve
<1>2. CASE reserved' = reserved
  BY <1>1, <1>2, BudgetUntouched
<1>3. CASE /\ ~Crosses(c, a, TotalsAfter(c, a), scope[c][a].reserved, reserved[c], w)
           /\ reserved' = [reserved EXCEPT ![c] = @ + w]
  <2>1. w \in Nat /\ batch[c] \in Nat /\ reserved[c] \in Nat /\ BatchCap \in Nat
    BY CapNumbers, CostAssumption
  <2>2. Pending(c) = 0 /\ Pending(c)' = 0
    BY <1>1, UnlockedPending, PendingSame
  <2>3. batch[c] + reserved[c] + w <= BatchCap
    BY <1>3, <2>1 DEF Crosses, TotalsAfter
  <2>4. reserved'[c] = reserved[c] + w
    BY <1>3, TypeFacts
  <2>5. Spent(c) = batch[c] /\ Spent(c)' = batch[c]
    BY <1>1, <2>1, <2>2 DEF Spent
  <2>6. w \in 0..BatchCap
    BY <2>1, <2>3
  <2>7. Holds(c)
    BY <2>3, <2>4, <2>5, <2>6 DEF Holds
  <2>8. QED
    BY <2>7 DEF BudgetStep
<1>4. QED
  BY <1>2, <1>3 DEF Reserve

\* release gives the whole hold back and spends nothing.
LEMMA ReleaseSettles ==
  ASSUME TypeInv, TypeInv', HeldIsWhatOpenCallsHold,
         NEW c \in Commands, NEW a \in Arms, Release(c, a)
  PROVE  BudgetStep(c)
<1>1. /\ ReleaseLocked(c, a) /\ call[c][a].open
      /\ UNCHANGED <<batch, appending>>
  BY DEF Release, totals
<1>2. /\ reserved' = [reserved EXCEPT ![c] = @ - call[c][a].amount]
      /\ call[c][a].amount <= reserved[c]
  BY <1>1, ReleaseHeld
<1>3. call[c][a].amount \in Nat /\ reserved \in [Commands -> Nat] /\ Spent(c) \in Nat
  BY CapNumbers, TypeFacts DEF Spent
<1>4. Spent(c)' = Spent(c) + 0
  BY <1>1, <1>3, PendingSame DEF Spent
<1>5. reserved'[c] = reserved[c] - call[c][a].amount
  BY <1>2, <1>3
<1>6. call[c][a].amount \in 0..reserved[c] /\ 0 \in 0..call[c][a].amount
  BY <1>2, <1>3
<1>7. Settles(c)
  BY <1>4, <1>5, <1>6 DEF Settles
<1>8. QED
  BY <1>7 DEF BudgetStep

\* settle gives the hold back and spends what the call cost, which is pending
\* until record has added it to the totals.
LEMMA SettleSettles ==
  ASSUME EstimatesHold, TypeInv, TypeInv', HeldIsWhatOpenCallsHold,
         NEW c \in Commands, NEW a \in Arms, NEW x \in ActualCosts, SettleBegin(c, a, x)
  PROVE  BudgetStep(c)
<1>1. /\ ReleaseLocked(c, a) /\ call[c][a].open /\ UNCHANGED batch
      /\ appending = {} /\ x <= call[c][a].amount
      /\ appending' = {[cmd |-> c, arm |-> a, cost |-> x]}
  BY DEF SettleBegin
<1>2. /\ reserved' = [reserved EXCEPT ![c] = @ - call[c][a].amount]
      /\ call[c][a].amount <= reserved[c]
  BY <1>1, ReleaseHeld
<1>3. /\ call[c][a].amount \in Nat /\ reserved \in [Commands -> Nat] /\ batch[c] \in Nat
      /\ x \in Nat
  BY CapNumbers, TypeFacts, CostAssumption
<1>4. Pending(c) = 0
  BY <1>1 DEF Pending
<1>5. Pending(c)' = x
  <2> DEFINE q == [cmd |-> c, arm |-> a, cost |-> x]
  <2>1. q.cmd = c /\ q.cost = x /\ appending' = {q}
    BY <1>1
  <2> HIDE DEF q
  <2>2. (CHOOSE r \in appending' : r.cmd = c) = q
    BY <2>1
  <2>3. QED
    BY <2>1, <2>2 DEF Pending
<1>6. Spent(c)' = Spent(c) + x
  BY <1>1, <1>3, <1>4, <1>5 DEF Spent
<1>7. reserved'[c] = reserved[c] - call[c][a].amount
  BY <1>2, <1>3
<1>8. call[c][a].amount \in 0..reserved[c] /\ x \in 0..call[c][a].amount
  BY <1>1, <1>2, <1>3
<1>9. Settles(c)
  BY <1>6, <1>7, <1>8 DEF Settles
<1>10. QED
  BY <1>9 DEF BudgetStep

\* The rest of record moves what is pending to the total.
LEMMA RecordStutters ==
  ASSUME TypeInv, SettleEnd, NEW c \in Commands
  PROVE  BudgetStep(c)
<1>1. PICK r \in appending : SettleEnd!(r)
  BY DEF SettleEnd
<1>2. /\ r.cmd \in Commands /\ r.cost \in Nat /\ \A q \in appending : q = r
  BY TypeFacts
<1>3. /\ batch' = [batch EXCEPT ![r.cmd] = @ + r.cost]
      /\ appending' = {} /\ UNCHANGED reserved
  BY <1>1
<1>4. batch \in [Commands -> Nat] /\ Pending(c)' = 0
  BY <1>3, TypeFacts DEF Pending
<1>5. CASE c = r.cmd
  <2>1. Pending(c) = r.cost
    BY <1>5, PendingFacts
  <2>2. Spent(c)' = Spent(c)
    BY <1>2, <1>3, <1>4, <1>5, <2>1 DEF Spent
  <2>3. QED
    BY <1>3, <2>2 DEF BudgetStep, Stutters
<1>6. CASE c # r.cmd
  <2>1. Pending(c) = 0
    BY <1>2, <1>6, PendingFacts
  <2>2. Spent(c)' = Spent(c)
    BY <1>2, <1>3, <1>4, <1>6, <2>1 DEF Spent
  <2>3. QED
    BY <1>3, <2>2 DEF BudgetStep, Stutters
<1>7. QED
  BY <1>5, <1>6

\* A command that ends has its budget reset, and no other.
LEMMA StopResets ==
  ASSUME TypeInv, NEW c \in Commands, NEW d \in Commands, Stop(d)
  PROVE  BudgetStep(c)
<1>1. /\ batch' = [batch EXCEPT ![d] = 0] /\ reserved' = [reserved EXCEPT ![d] = 0]
      /\ appending' = {r \in appending : r.cmd # d}
  BY DEF Stop
<1>2. batch \in [Commands -> Nat] /\ reserved \in [Commands -> Nat]
  BY TypeFacts
<1>3. CASE c = d
  <2>1. Pending(c)' = 0
    BY <1>1, <1>3 DEF Pending
  <2>2. Resets(c)
    BY <1>1, <1>2, <1>3, <2>1 DEF Resets, Spent
  <2>3. QED
    BY <2>2 DEF BudgetStep
<1>4. CASE c # d
  <2>1. batch'[c] = batch[c] /\ reserved'[c] = reserved[c]
    BY <1>1, <1>2, <1>4
  <2>2. Pending(c)' = Pending(c)
    <3>1. CASE \A r \in appending : r.cmd # c
      BY <1>1, <3>1 DEF Pending
    <3>2. CASE \E r \in appending : r.cmd = c
      <4>1. PICK r \in appending : r.cmd = c
        BY <3>2
      <4>2. appending' = appending
        BY <1>1, <1>4, <4>1, TypeFacts
      <4>3. QED
        BY <4>2, PendingSame
    <3>3. QED
      BY <3>1, <3>2
  <2>3. QED
    BY <2>1, <2>2 DEF BudgetStep, Stutters, Spent
<1>5. QED
  BY <1>3, <1>4

\* Every step of the commands is a step of each command's budget.
LEMMA BudgetNext ==
  ASSUME EstimatesHold, TypeInv, TypeInv', HeldIsWhatOpenCallsHold, [Next]_vars,
         NEW c \in Commands
  PROVE  BudgetStep(c)
<1>1. ASSUME NEW d \in Commands, Start(d) \/ Refresh(d)
      PROVE  BudgetStep(c)
  BY <1>1, BudgetUntouched DEF Start, Refresh
<1>2. ASSUME NEW d \in Commands, Stop(d)
      PROVE  BudgetStep(c)
  BY <1>2, StopResets
<1>3. ASSUME NEW d \in Commands, NEW a \in Arms, NewScope(d, a)
      PROVE  BudgetStep(c)
  BY <1>3, BudgetUntouched DEF NewScope, totals
<1>4. ASSUME NEW d \in Commands, NEW a \in Arms, Release(d, a)
      PROVE  BudgetStep(c)
  <2>1. CASE d = c
    BY <1>4, <2>1, ReleaseSettles
  <2>2. CASE d # c
    <3>1. ReleaseLocked(d, a) /\ UNCHANGED <<batch, appending>>
      BY <1>4 DEF Release, totals
    <3>2. QED
      BY <2>2, <3>1, ReleaseOthers, BudgetUntouched
  <2>3. QED
    BY <2>1, <2>2
<1>5. ASSUME NEW d \in Commands, NEW a \in Arms, NEW w \in WorstCases, Reserve(d, a, w)
      PROVE  BudgetStep(c)
  <2>1. CASE d = c
    BY <1>5, <2>1, ReserveHolds
  <2>2. CASE d # c
    <3>1. UNCHANGED <<batch, appending>>
      BY <1>5 DEF Reserve
    <3>2. reserved'[c] = reserved[c]
      BY <1>5, <2>2, TypeFacts DEF Reserve
    <3>3. QED
      BY <3>1, <3>2, BudgetUntouched
  <2>3. QED
    BY <2>1, <2>2
<1>6. ASSUME NEW d \in Commands, NEW a \in Arms, NEW x \in ActualCosts, SettleBegin(d, a, x)
      PROVE  BudgetStep(c)
  <2>1. CASE d = c
    BY <1>6, <2>1, SettleSettles
  <2>2. CASE d # c
    <3>1. /\ ReleaseLocked(d, a) /\ UNCHANGED batch /\ appending = {}
          /\ appending' = {[cmd |-> d, arm |-> a, cost |-> x]}
      BY <1>6 DEF SettleBegin
    <3>2. Pending(c) = 0 /\ Pending(c)' = 0
      BY <2>2, <3>1 DEF Pending
    <3>3. reserved'[c] = reserved[c]
      BY <2>2, <3>1, ReleaseOthers
    <3>4. QED
      BY <3>1, <3>2, <3>3 DEF BudgetStep, Stutters, Spent
  <2>3. QED
    BY <2>1, <2>2
<1>7. ASSUME SettleEnd
      PROVE  BudgetStep(c)
  BY <1>7, RecordStutters
<1>8. ASSUME NEW x \in OpeningAmounts, RecordOpeningBalance(x)
      PROVE  BudgetStep(c)
  BY <1>8, BudgetUntouched DEF RecordOpeningBalance, totals
<1>9. CASE UNCHANGED vars
  BY <1>9, BudgetUntouched DEF vars
<1>10. QED
  BY <1>1, <1>2, <1>3, <1>4, <1>5, <1>6, <1>7, <1>8, <1>9 DEF Next

\* If no call costs more than its worst case, the batch cap of a command is a
\* budget: reserve holds what a call may cost while there is room for it,
\* release and settle give it back and spend at most that much, and nothing
\* else but a new start of the command touches it, whatever its arms and the
\* other commands interleave.
THEOREM BatchCapIsBudget ==
  ASSUME EstimatesHold
  PROVE  Spec => BatchCapIsABudget
<1>1. 1 \in Commands
  BY CostAssumption DEF Commands
<1>2. Init => BatchBudget!Init
  BY <1>1 DEF Init, BatchBudget!Init, Pending
<1>3. /\ TypeInv /\ TypeInv' /\ HeldIsWhatOpenCallsHold /\ [Next]_vars
      => [BatchBudget!Next]_<<batch[1] + Pending(1), reserved[1]>>
  <2> SUFFICES ASSUME TypeInv, TypeInv', HeldIsWhatOpenCallsHold, [Next]_vars
               PROVE  [BatchBudget!Next]_<<batch[1] + Pending(1), reserved[1]>>
    OBVIOUS
  <2>1. BudgetStep(1)
    BY <1>1, BudgetNext
  <2>2. Holds(1) => \E w \in 0..BatchCap : BatchBudget!Hold(w)
    BY DEF Holds, Spent, BatchBudget!Hold
  <2>3. Settles(1) => \E w \in 0..reserved[1] : \E x \in 0..w : BatchBudget!Settle(w, x)
    <3>1. SUFFICES ASSUME NEW w \in 0..reserved[1], NEW x \in 0..w,
                          reserved'[1] = reserved[1] - w, Spent(1)' = Spent(1) + x
                   PROVE  BatchBudget!Settle(w, x)
      BY DEF Settles
    <3>2. reserved[1] \in Nat
      BY <1>1, TypeFacts
    <3>3. QED
      BY <3>1, <3>2 DEF Spent, BatchBudget!Settle
  <2>4. Resets(1) => BatchBudget!Reset
    BY DEF Resets, Spent, BatchBudget!Reset
  <2>5. QED
    BY <2>1, <2>2, <2>3, <2>4 DEF BudgetStep, Stutters, Spent, BatchBudget!Next
<1>4. Spec => []TypeInv
  BY TypeInit, TypeNext, PTL DEF Spec
<1>5. Spec => []HeldIsWhatOpenCallsHold
  BY HeldCorrect
<1>6. Spec => BatchBudget!Spec
  BY <1>2, <1>3, <1>4, <1>5, PTL DEF Spec, BatchBudget!Spec, BatchBudget!budgetVars
<1>7. QED
  BY <1>6 DEF BatchCapIsABudget

-----------------------------------------------------------------------------
(* The build cap across commands.                                          *)

\* What the other commands may have in flight.
Others == (NCommands - 1) * (NArms * MaxWorst)
Flights == [c \in Commands |-> InFlight(c)]

LEMMA OthersNat == Others \in Nat
<1>1. NCommands - 1 \in Nat /\ NArms \in Nat /\ MaxWorst \in Nat
  BY CostAssumption
<1>2. \A m, n \in Nat : m * n \in Nat
  OBVIOUS
<1>3. QED
  BY <1>1, <1>2 DEF Others

LEMMA FlightsNat ==
  ASSUME TypeInv
  PROVE  /\ \A c \in Commands : InFlight(c) \in Nat /\ Flights[c] = InFlight(c)
         /\ AllInFlight \in Nat /\ AllInFlight = SumTo(Flights, NCommands)
<1>1. \A c \in Commands : InFlight(c) \in Nat /\ Flights[c] = InFlight(c)
  BY CapNumbers DEF InFlight, Flights
<1>2. AllInFlight = SumTo(Flights, NCommands)
  BY DEF AllInFlight, Flights
<1>3. NCommands \in Nat /\ \A i \in 1..NCommands : Flights[i] \in Nat
  BY <1>1, CostAssumption DEF Commands
<1>4. QED
  BY <1>1, <1>2, <1>3, SumToNat

\* The same after a step.
LEMMA FlightsNatAfter ==
  ASSUME TypeInv'
  PROVE  /\ \A c \in Commands : /\ build'[c] \in Nat /\ Pending(c)' \in Nat
                               /\ InFlight(c)' \in Nat /\ Flights'[c] = InFlight(c)'
         /\ AllInFlight' \in Nat /\ AllInFlight' = SumTo(Flights', NCommands)
<1>1. /\ build' \in [Commands -> Nat] /\ reserved' \in [Commands -> Nat]
      /\ \A r \in appending' : r.cost \in Nat
  BY DEF TypeInv, TypeOK
<1>2. ASSUME NEW c \in Commands
      PROVE  Pending(c)' \in Nat
  <2>1. CASE \E r \in appending' : r.cmd = c
    <3> DEFINE q == CHOOSE r \in appending' : r.cmd = c
    <3>1. q \in appending'
      BY <2>1
    <3> HIDE DEF q
    <3>2. q.cost \in Nat
      BY <1>1, <3>1
    <3>3. QED
      BY <2>1, <3>2 DEF Pending, q
  <2>2. CASE \A r \in appending' : r.cmd # c
    BY <2>2 DEF Pending
  <2>3. QED
    BY <2>1, <2>2
<1>3. \A c \in Commands : InFlight(c)' \in Nat
  BY <1>1, <1>2 DEF InFlight
<1>4. \A c \in Commands : Flights'[c] = InFlight(c)'
  BY DEF Flights
<1>5. AllInFlight' = SumTo(Flights', NCommands)
  BY DEF AllInFlight, Flights
<1>6. NCommands \in Nat /\ \A i \in 1..NCommands : Flights'[i] \in Nat
  BY <1>3, <1>4, CostAssumption DEF Commands
<1>7. SumTo(Flights', NCommands) \in Nat
  BY <1>6, SumToNat
<1>8. QED
  BY <1>1, <1>2, <1>3, <1>4, <1>5, <1>7

\* The calls of one command in flight, the one being recorded included, are no
\* more than its arms' worst cases.
LEMMA FlightAtMost ==
  ASSUME TypeInv, CallInv, HeldIsWhatOpenCallsHold, EstimatesHold, NEW c \in Commands
  PROVE  InFlight(c) <= NArms * MaxWorst
<1> DEFINE f == OpenAmounts(c)
<1>1. NArms \in Nat /\ MaxWorst \in Nat /\ Arms = 1..NArms
  BY CostAssumption DEF Arms
<1>2. \A a \in 1..NArms : f[a] \in Nat /\ f[a] <= MaxWorst
  <2>1. \A a \in Arms : call[c][a].amount <= MaxWorst
    BY DEF CallInv
  <2>2. QED
    BY <1>1, <2>1, OpenAmountsNat
<1>3. reserved[c] = SumTo(f, NArms)
  BY DEF HeldIsWhatOpenCallsHold
<1> HIDE DEF f
<1>4. CASE \A r \in appending : r.cmd # c
  <2>1. Pending(c) = 0 /\ reserved[c] \in Nat
    BY <1>4, PendingFacts, TypeFacts
  <2>2. SumTo(f, NArms) <= NArms * MaxWorst
    BY <1>1, <1>2, SumToAtMost
  <2>3. QED
    BY <1>3, <2>1, <2>2 DEF InFlight
<1>5. ASSUME NEW r \in appending, r.cmd = c
      PROVE  InFlight(c) <= NArms * MaxWorst
  <2>1. r.arm \in 1..NArms /\ r.cost \in Nat /\ Pending(c) = r.cost
    BY <1>1, <1>5, PendingFacts, TypeFacts
  <2>2. f[r.arm] = 0 /\ r.cost <= MaxWorst
    <3>1. /\ ~call[c][r.arm].open /\ r.cost <= call[c][r.arm].amount
          /\ call[c][r.arm].amount <= MaxWorst
      BY <1>1, <1>5, <2>1 DEF CallInv
    <3>2. call[c][r.arm].amount \in Nat
      <4>1. r.arm \in Arms
        BY <1>1, <2>1
      <4>2. QED
        BY <4>1, TypeFacts
    <3>3. r.cost <= MaxWorst
      BY <1>1, <2>1, <3>1, <3>2
    <3>4. QED
      BY <1>1, <2>1, <3>1, <3>3, OpenAmountsNat DEF f
  <2> DEFINE g == [a \in 1..NArms |-> IF a = r.arm THEN r.cost ELSE f[a]]
  <2>3. /\ \A a \in 1..NArms : g[a] = IF a = r.arm THEN r.cost ELSE f[a]
        /\ \A a \in 1..NArms : g[a] \in Nat /\ g[a] <= MaxWorst
    BY <1>2, <2>1, <2>2
  <2> HIDE DEF g
  <2>4. SumTo(g, NArms) = SumTo(f, NArms) + r.cost - f[r.arm]
    <3>1. r.cost \in Int /\ \A a \in 1..NArms : f[a] \in Int
      BY <1>2, <2>1
    <3>2. QED
      BY <1>1, <2>1, <2>3, <3>1, SumToExcept
  <2>5. SumTo(g, NArms) <= NArms * MaxWorst
    BY <1>1, <2>3, SumToAtMost
  <2>6. SumTo(f, NArms) \in Nat
    BY <1>1, <1>2, SumToNat
  <2>7. QED
    BY <1>3, <2>1, <2>2, <2>4, <2>5, <2>6 DEF InFlight
<1>6. QED
  BY <1>4, <1>5

\* All that is in flight is what one command has, and what the others may have.
LEMMA OthersInFlight ==
  ASSUME TypeInv, CallInv, HeldIsWhatOpenCallsHold, EstimatesHold, NEW c \in Commands
  PROVE  AllInFlight <= InFlight(c) + Others
<1> DEFINE k == NArms * MaxWorst
           g == [d \in 1..NCommands |-> IF d = c THEN k ELSE Flights[d]]
<1>1. /\ NCommands \in Nat /\ c \in 1..NCommands /\ Commands = 1..NCommands
      /\ NArms \in Nat /\ MaxWorst \in Nat
  BY CostAssumption DEF Commands
<1>2. k \in Nat
  <2>1. \A m, n \in Nat : m * n \in Nat
    OBVIOUS
  <2>2. QED
    BY <1>1, <2>1
<1>3. \A d \in 1..NCommands : Flights[d] \in Nat /\ Flights[d] <= k
  BY <1>1, FlightsNat, FlightAtMost
<1>4. Others = (NCommands - 1) * k
  BY DEF Others
<1> HIDE DEF k
<1>5. /\ \A d \in 1..NCommands : g[d] = IF d = c THEN k ELSE Flights[d]
      /\ \A d \in 1..NCommands : g[d] \in Nat /\ g[d] <= k
  BY <1>2, <1>3
<1> HIDE DEF g
<1>6. SumTo(g, NCommands) = SumTo(Flights, NCommands) + k - Flights[c]
  <2>1. k \in Int /\ \A d \in 1..NCommands : Flights[d] \in Int
    BY <1>2, <1>3
  <2>2. QED
    BY <1>1, <1>5, <2>1, SumToExcept
<1>7. SumTo(g, NCommands) <= NCommands * k
  BY <1>1, <1>2, <1>5, SumToAtMost
<1>8. /\ SumTo(Flights, NCommands) = AllInFlight /\ Flights[c] = InFlight(c)
      /\ AllInFlight \in Nat /\ InFlight(c) \in Nat
  BY FlightsNat
<1>9. AllInFlight + k - InFlight(c) <= NCommands * k
  BY <1>6, <1>7, <1>8
<1>10. (NCommands - 1) * k = NCommands * k - k /\ NCommands * k \in Int
  BY <1>1, <1>2
<1> DEFINE m == NCommands * k
<1> HIDE DEF m
<1>11. AllInFlight + k - InFlight(c) <= m /\ Others = m - k /\ m \in Int
  BY <1>4, <1>9, <1>10 DEF m
<1>12. QED
  BY <1>2, <1>8, <1>11

\* A step of one command changes what is in flight by what it changes of its own.
LEMMA FlightsChange ==
  ASSUME TypeInv, TypeInv', NEW c \in Commands,
         \A d \in Commands : d # c => InFlight(d)' = InFlight(d)
  PROVE  AllInFlight' = AllInFlight + InFlight(c)' - InFlight(c)
<1>1. NCommands \in Nat /\ c \in 1..NCommands /\ Commands = 1..NCommands
  BY CostAssumption DEF Commands
<1>2. /\ AllInFlight' = SumTo(Flights', NCommands) /\ AllInFlight = SumTo(Flights, NCommands)
      /\ \A d \in Commands : InFlight(d) \in Nat /\ Flights[d] = InFlight(d)
  BY FlightsNat DEF AllInFlight, Flights
<1>3. \A d \in Commands : InFlight(d)' \in Nat /\ Flights'[d] = InFlight(d)'
  BY FlightsNatAfter
<1> DEFINE v == InFlight(c)'
           f == Flights
           g == Flights'
<1>4. /\ \A d \in 1..NCommands : f[d] \in Int /\ g[d] = IF d = c THEN v ELSE f[d]
      /\ v \in Int /\ f[c] = InFlight(c)
  BY <1>1, <1>2, <1>3
<1> HIDE DEF v, f, g
<1>5. SumTo(g, NCommands) = SumTo(f, NCommands) + v - f[c]
  BY <1>1, <1>4, SumToExcept
<1>6. QED
  BY <1>2, <1>4, <1>5 DEF v, f, g

LEMMA FlightsSame ==
  ASSUME \A d \in Commands : InFlight(d)' = InFlight(d)
  PROVE  AllInFlight' = AllInFlight
BY DEF AllInFlight

\* Calls that are only given back or recorded leave room.
LEMMA FlightsShrink ==
  ASSUME TypeInv, TypeInv', NEW c \in Commands, InFlight(c)' <= InFlight(c),
         \A d \in Commands : d # c => InFlight(d)' = InFlight(d)
  PROVE  AllInFlight' <= AllInFlight
<1>1. /\ AllInFlight' = AllInFlight + InFlight(c)' - InFlight(c)
      /\ AllInFlight \in Nat /\ InFlight(c) \in Nat
  BY FlightsChange, FlightsNat
<1>2. InFlight(c)' \in Nat
  BY FlightsNatAfter
<1>3. QED
  BY <1>1, <1>2

-----------------------------------------------------------------------------
(* The ledger's total and its opening balance.                             *)

LEMMA LedgerNumbers ==
  ASSUME TypeInv
  PROVE  /\ LedgerTotal \in Nat /\ Opened \in Nat
         /\ \A i \in 1..Len(ledger) : ledger[i].opening => ledger[i].cost <= Opened
<1>1. /\ ledger \in Seq(Entry) /\ Len(ledger) \in Nat
      /\ \A i \in 1..Len(ledger) : ledger[i] \in Entry
  BY TypeFacts
<1>2. \A i \in 1..Len(ledger) : ledger[i].cost \in Nat
  BY <1>1 DEF Entry
<1>3. \A i \in 1..Len(ledger) : BuildPart(ledger)[i] \in Nat /\ OpeningPart(ledger)[i] \in Nat
  BY <1>1, <1>2 DEF BuildPart, OpeningPart
<1>4. LedgerTotal \in Nat
  BY <1>1, <1>3, SumToNat DEF LedgerTotal
<1>5. Opened \in Nat /\ \A i \in 1..Len(ledger) : OpeningPart(ledger)[i] <= Opened
  BY <1>1, <1>3, SumToNat DEF Opened
<1>6. \A i \in 1..Len(ledger) : ledger[i].opening => OpeningPart(ledger)[i] = ledger[i].cost
  BY <1>1 DEF OpeningPart
<1>7. QED
  BY <1>4, <1>5, <1>6

LEMMA LedgerAppended ==
  ASSUME TypeInv, NEW e \in Entry, ledger' = Append(ledger, e)
  PROVE  /\ LedgerTotal' = LedgerTotal + e.cost
         /\ Opened' = Opened + (IF e.opening THEN e.cost ELSE 0)
<1> DEFINE n == Len(ledger)
<1>1. ledger \in Seq(Entry) /\ n \in Nat /\ Len(ledger') = n + 1
  BY TypeFacts
<1>2. \A f : SumTo(f, n + 1) = SumTo(f, n) + f[n + 1]
  BY <1>1, SumToUnfold
<1>3. /\ BuildPart(ledger')[n + 1] = e.cost
      /\ OpeningPart(ledger')[n + 1] = IF e.opening THEN e.cost ELSE 0
  BY <1>1 DEF BuildPart, OpeningPart
<1>4. /\ \A i \in 1..n : BuildPart(ledger')[i] = BuildPart(ledger)[i]
      /\ \A i \in 1..n : OpeningPart(ledger')[i] = OpeningPart(ledger)[i]
  BY <1>1 DEF BuildPart, OpeningPart
<1>5. /\ SumTo(BuildPart(ledger'), n) = SumTo(BuildPart(ledger), n)
      /\ SumTo(OpeningPart(ledger'), n) = SumTo(OpeningPart(ledger), n)
  BY <1>1, <1>4, SumToAgree
<1>6. LedgerTotal' = SumTo(BuildPart(ledger'), n + 1) /\ Opened' = SumTo(OpeningPart(ledger'), n + 1)
  BY <1>1 DEF LedgerTotal, Opened
<1>7. QED
  BY <1>2, <1>3, <1>5, <1>6 DEF LedgerTotal, Opened

\* A command that has read the ledger knows of everything but an opening balance.
LEMMA ReadKnowsAll ==
  ASSUME TypeInv, TypeInv', TotalsInv, NEW c \in Commands, ReadNew(c), ledger' = ledger
  PROVE  LedgerTotal <= build'[c] + Opened
<1>1. TotalsFor(c)' /\ offset'[c] = Len(ledger)
  BY ReadNewTotals DEF TotalsInv
<1>2. BuildPart(ledger)' = BuildPart(ledger)
  BY DEF BuildPart
<1>3. \/ build'[c] = LedgerTotal
      \/ \E i \in 1..Len(ledger) : ledger[i].opening /\ build'[c] + ledger[i].cost = LedgerTotal
  BY <1>1, <1>2 DEF TotalsFor, BuildAgrees, LedgerTotal
<1>4. build'[c] \in Nat
  BY FlightsNatAfter
<1>5. CASE build'[c] = LedgerTotal
  BY <1>4, <1>5, LedgerNumbers
<1>6. ASSUME NEW i \in 1..Len(ledger), ledger[i].opening, build'[c] + ledger[i].cost = LedgerTotal
      PROVE  LedgerTotal <= build'[c] + Opened
  <2>1. ledger[i].cost \in Nat
    <3>1. ledger[i] \in Entry
      BY TypeFacts
    <3>2. QED
      BY <3>1 DEF Entry
  <2>2. QED
    BY <1>4, <1>6, <2>1, LedgerNumbers
<1>7. QED
  BY <1>3, <1>5, <1>6

OvershootInv == LedgerTotal + AllInFlight <= BuildCap + Opened + Others

LEMMA OvershootInit == Init => OvershootInv
<1> SUFFICES ASSUME Init PROVE OvershootInv
  OBVIOUS
<1>1. LedgerTotal = 0 /\ Opened = 0
  BY SumToUnfold DEF Init, LedgerTotal, Opened
<1>2. \A c \in Commands : InFlight(c) = 0
  BY DEF Init, InFlight, Pending
<1>3. AllInFlight = 0
  BY <1>2, SumToZero, CostAssumption DEF AllInFlight, Commands
<1>4. QED
  BY <1>1, <1>3, OthersNat, CostAssumption DEF OvershootInv

\* Steps that spend nothing and hold no more.
LEMMA OvershootKept ==
  ASSUME TypeInv, TypeInv', OvershootInv, ledger' = ledger, AllInFlight' <= AllInFlight
  PROVE  OvershootInv'
<1>1. LedgerTotal' = LedgerTotal /\ Opened' = Opened
  BY DEF LedgerTotal, Opened, BuildPart, OpeningPart
<1>2. /\ LedgerTotal \in Nat /\ Opened \in Nat /\ AllInFlight \in Nat /\ Others \in Nat
      /\ BuildCap \in Nat
  BY LedgerNumbers, FlightsNat, OthersNat, CostAssumption
<1>3. AllInFlight' \in Nat
  BY FlightsNatAfter
<1>4. LedgerTotal + AllInFlight' <= BuildCap + Opened + Others
  <2> DEFINE now == AllInFlight
             then == AllInFlight'
             most == BuildCap + Opened + Others
  <2>1. /\ LedgerTotal + now <= most /\ then <= now
        /\ LedgerTotal \in Nat /\ now \in Nat /\ then \in Nat /\ most \in Nat
    BY <1>2, <1>3 DEF OvershootInv
  <2> HIDE DEF now, then, most
  <2>2. LedgerTotal + then <= most
    BY <2>1
  <2>3. QED
    BY <2>2 DEF then, most
<1>5. QED
  BY <1>1, <1>4 DEF OvershootInv, Others

LEMMA OvershootNext ==
  ASSUME EstimatesHold
  PROVE  /\ TypeInv /\ TypeInv' /\ CallInv /\ HeldIsWhatOpenCallsHold /\ TotalsInv
         /\ OvershootInv /\ [Next]_vars
         => OvershootInv'
<1>0. SUFFICES ASSUME TypeInv, TypeInv', CallInv, HeldIsWhatOpenCallsHold, TotalsInv,
                      OvershootInv, [Next]_vars
               PROVE  OvershootInv'
  OBVIOUS
<1> USE <1>0
<1>a. /\ LedgerTotal \in Nat /\ Opened \in Nat /\ AllInFlight \in Nat /\ Others \in Nat
      /\ BuildCap \in Nat
  BY LedgerNumbers, FlightsNat, OthersNat, CostAssumption
\* Steps that leave the ledger, the calls and the append alone.
<1>b. ASSUME ledger' = ledger, UNCHANGED <<reserved, appending>>
      PROVE  OvershootInv'
  <2>1. \A d \in Commands : InFlight(d)' = InFlight(d)
    BY <1>b, PendingSame DEF InFlight
  <2>2. AllInFlight' = AllInFlight
    BY <2>1, FlightsSame
  <2>3. QED
    BY <1>a, <1>b, <2>2, OvershootKept
<1>1. ASSUME NEW c \in Commands, Start(c) \/ Refresh(c)
      PROVE  OvershootInv'
  BY <1>1, <1>b DEF Start, Refresh
<1>2. ASSUME NEW c \in Commands, Stop(c)
      PROVE  OvershootInv'
  <2>1. /\ reserved' = [reserved EXCEPT ![c] = 0] /\ ledger' = ledger
        /\ appending' = {r \in appending : r.cmd # c}
    BY <1>2 DEF Stop
  <2>2. InFlight(c)' = 0 /\ InFlight(c) \in Nat
    <3>1. Pending(c)' = 0 /\ reserved'[c] = 0
      BY <2>1, TypeFacts DEF Pending
    <3>2. QED
      BY <3>1, FlightsNat DEF InFlight
  <2>3. ASSUME NEW d \in Commands, d # c
        PROVE  InFlight(d)' = InFlight(d)
    <3>1. reserved'[d] = reserved[d]
      BY <2>1, <2>3, TypeFacts
    <3>2. Pending(d)' = Pending(d)
      <4>1. CASE \A r \in appending : r.cmd # d
        BY <2>1, <4>1, PendingFacts DEF Pending
      <4>2. CASE \E r \in appending : r.cmd = d
        <5>1. PICK r \in appending : r.cmd = d
          BY <4>2
        <5>2. appending = {r}
          BY TypeFacts
        <5>3. appending' = appending
          BY <2>1, <2>3, <5>1, <5>2
        <5>4. QED
          BY <5>3, PendingSame
      <4>3. QED
        BY <4>1, <4>2
    <3>3. QED
      BY <3>1, <3>2 DEF InFlight
  <2>4. InFlight(c)' <= InFlight(c)
    BY <2>2
  <2>5. AllInFlight' <= AllInFlight
    BY <2>3, <2>4, FlightsShrink
  <2>6. QED
    BY <2>1, <2>5, OvershootKept
<1>3. ASSUME NEW c \in Commands, NEW a \in Arms, NewScope(c, a)
      PROVE  OvershootInv'
  BY <1>3, <1>b DEF NewScope
\* A call is given back, and at most what it held is left to append.
<1>4. ASSUME NEW c \in Commands, NEW a \in Arms, ReleaseLocked(c, a), call[c][a].open,
             Unlocked(c), ledger' = ledger, Pending(c)' <= call[c][a].amount,
             \A d \in Commands : d # c => Pending(d)' = Pending(d)
      PROVE  OvershootInv'
  <2>1. reserved' = [reserved EXCEPT ![c] = @ - call[c][a].amount]
    BY <1>4, ReleaseHeld
  <2>2. Pending(c) = 0
    BY <1>4, UnlockedPending
  <2>3. Pending(c)' \in Nat /\ reserved[c] \in Nat /\ call[c][a].amount \in Nat
    <3>1. Pending(c)' \in Nat
      BY FlightsNatAfter
    <3>2. QED
      BY <3>1, TypeFacts
  <2>4. reserved'[c] = reserved[c] - call[c][a].amount
    BY <2>1, TypeFacts
  <2>5. InFlight(c)' <= InFlight(c)
    BY <1>4, <2>2, <2>3, <2>4 DEF InFlight
  <2>6. \A d \in Commands : d # c => InFlight(d)' = InFlight(d)
    BY <1>4, ReleaseOthers DEF InFlight
  <2>7. AllInFlight' <= AllInFlight
    BY <2>5, <2>6, FlightsShrink
  <2>8. QED
    BY <1>4, <2>7, OvershootKept
<1>5. ASSUME NEW c \in Commands, NEW a \in Arms, Release(c, a)
      PROVE  OvershootInv'
  <2>1. /\ ReleaseLocked(c, a) /\ call[c][a].open /\ ledger' = ledger /\ appending' = appending
        /\ Unlocked(c)
    BY <1>5 DEF Release
  <2>2. Pending(c)' = 0 /\ call[c][a].amount \in Nat
    BY <2>1, PendingSame, UnlockedPending, TypeFacts
  <2>3. Pending(c)' <= call[c][a].amount
    BY <2>2
  <2>4. QED
    BY <1>4, <2>1, <2>3, PendingSame
<1>6. ASSUME NEW c \in Commands, NEW a \in Arms, NEW x \in ActualCosts, SettleBegin(c, a, x)
      PROVE  OvershootInv'
  <2>1. /\ ReleaseLocked(c, a) /\ call[c][a].open /\ ledger' = ledger
        /\ Unlocked(c) /\ appending = {} /\ x <= call[c][a].amount
        /\ appending' = {[cmd |-> c, arm |-> a, cost |-> x]}
    BY <1>6, EstimatesHold DEF SettleBegin
  <2>2. Pending(c)' = x
    <3> DEFINE q == [cmd |-> c, arm |-> a, cost |-> x]
    <3>1. q.cmd = c /\ q.cost = x /\ appending' = {q}
      BY <2>1
    <3> HIDE DEF q
    <3>2. (CHOOSE r \in appending' : r.cmd = c) = q
      BY <3>1
    <3>3. QED
      BY <3>1, <3>2 DEF Pending
  <2>3. \A d \in Commands : d # c => Pending(d)' = Pending(d)
    BY <2>1 DEF Pending
  <2>4. QED
    BY <1>4, <2>1, <2>2, <2>3
<1>7. ASSUME NEW c \in Commands, NEW a \in Arms, NEW w \in WorstCases, Reserve(c, a, w)
      PROVE  OvershootInv'
  <2>1. ReadNew(c) /\ ledger' = ledger /\ appending' = appending /\ Unlocked(c)
    BY <1>7 DEF Reserve
  <2>2. CASE reserved' = reserved
    BY <1>b, <2>1, <2>2
  <2>3. CASE /\ ~Crosses(c, a, TotalsAfter(c, a), scope[c][a].reserved, reserved[c], w)
             /\ reserved' = [reserved EXCEPT ![c] = @ + w]
    <3>1. w \in Nat /\ reserved[c] \in Nat /\ Pending(c) = 0 /\ Pending(c)' = 0
      BY <2>1, UnlockedPending, PendingSame, CapNumbers, CostAssumption
    <3>2. build'[c] \in Nat
      BY FlightsNatAfter
    <3>3. build'[c] + reserved[c] + w <= BuildCap
      BY <1>a, <2>3, <3>1, <3>2 DEF Crosses, TotalsAfter
    <3>4. reserved'[c] = reserved[c] + w /\ \A d \in Commands : d # c => reserved'[d] = reserved[d]
      BY <2>3, TypeFacts
    <3>5. InFlight(c) = reserved[c] /\ InFlight(c)' = reserved[c] + w
      BY <3>1, <3>4 DEF InFlight
    <3>6. \A d \in Commands : d # c => InFlight(d)' = InFlight(d)
      BY <2>1, <3>4, PendingSame DEF InFlight
    <3>7. AllInFlight' = AllInFlight + w
      <4>1. AllInFlight' = AllInFlight + InFlight(c)' - InFlight(c)
        BY <3>6, FlightsChange
      <4>2. QED
        BY <1>a, <3>1, <3>5, <4>1
    <3>8. AllInFlight <= reserved[c] + Others
      BY <3>5, OthersInFlight
    <3>9. LedgerTotal <= build'[c] + Opened
      BY <2>1, ReadKnowsAll
    <3>10. LedgerTotal + AllInFlight' <= BuildCap + Opened + Others
      BY <1>a, <3>1, <3>2, <3>3, <3>7, <3>8, <3>9
    <3>11. LedgerTotal' = LedgerTotal /\ Opened' = Opened
      BY <2>1 DEF LedgerTotal, Opened, BuildPart, OpeningPart
    <3>12. QED
      BY <3>10, <3>11 DEF OvershootInv, Others
  <2>4. QED
    BY <1>7, <2>2, <2>3 DEF Reserve
<1>8. ASSUME SettleEnd
      PROVE  OvershootInv'
  <2>1. PICK r \in appending : SettleEnd!(r)
    BY <1>8 DEF SettleEnd
  <2> DEFINE c == r.cmd
             e == [session |-> SessionOf[c], experiment |-> IsExperiment[c],
                   opening |-> FALSE, cost |-> r.cost]
  <2>2. /\ c \in Commands /\ r.cost \in Nat /\ \A q \in appending : q = r
    BY TypeFacts
  <2>3. e \in Entry /\ e.cost = r.cost /\ ~e.opening
    BY <2>2, CostAssumption DEF Entry
  <2>4. ledger' = Append(ledger, e) /\ appending' = {} /\ reserved' = reserved
    BY <2>1
  <2>5. InFlight(c) = reserved[c] + r.cost /\ InFlight(c)' = reserved[c] /\ reserved[c] \in Nat
    BY <2>2, <2>4, PendingFacts, TypeFacts DEF InFlight, Pending
  <2>6. \A d \in Commands : d # c => InFlight(d)' = InFlight(d)
    BY <2>2, <2>4 DEF InFlight, Pending
  <2> HIDE DEF e, c
  <2>7. LedgerTotal' = LedgerTotal + r.cost /\ Opened' = Opened
    BY <1>a, <2>3, <2>4, LedgerAppended
  <2>8. AllInFlight' = AllInFlight - r.cost
    <3>1. AllInFlight' = AllInFlight + InFlight(c)' - InFlight(c)
      BY <2>2, <2>6, FlightsChange
    <3>2. QED
      BY <1>a, <2>2, <2>5, <3>1
  <2>9. LedgerTotal' + AllInFlight' = LedgerTotal + AllInFlight
    BY <1>a, <2>2, <2>7, <2>8
  <2>10. QED
    BY <2>7, <2>9 DEF OvershootInv, Others
<1>9. ASSUME NEW x \in OpeningAmounts, RecordOpeningBalance(x)
      PROVE  OvershootInv'
  <2> DEFINE e == [session |-> NoSession, experiment |-> FALSE, opening |-> TRUE, cost |-> x]
  <2>1. x \in Nat /\ e \in Entry /\ e.cost = x /\ e.opening
    BY CostAssumption DEF Entry
  <2>2. ledger' = Append(ledger, e) /\ UNCHANGED <<reserved, appending>>
    BY <1>9 DEF RecordOpeningBalance
  <2> HIDE DEF e
  <2>3. LedgerTotal' = LedgerTotal + x /\ Opened' = Opened + x
    BY <2>1, <2>2, LedgerAppended
  <2>4. \A d \in Commands : InFlight(d)' = InFlight(d)
    BY <2>2, PendingSame DEF InFlight
  <2>5. AllInFlight' = AllInFlight
    BY <2>4, FlightsSame
  <2>6. LedgerTotal' + AllInFlight' <= BuildCap + Opened' + Others
    BY <1>a, <2>1, <2>3, <2>5 DEF OvershootInv
  <2>7. QED
    BY <2>6 DEF OvershootInv, Others
<1>10. CASE UNCHANGED vars
  BY <1>10, <1>b DEF vars
<1>11. QED
  BY <1>1, <1>2, <1>3, <1>5, <1>6, <1>7, <1>8, <1>9, <1>10 DEF Next

\* If no call costs more than its worst case, the build cap is passed by no
\* more than what the other commands had in flight and the opening balance, for
\* any number of commands and arms.
THEOREM OvershootCorrect == Spec => []BuildOvershootBounded
<1>1. Spec => []TypeInv
  BY TypeInit, TypeNext, PTL DEF Spec
<1>2. Spec => []CallInv
  BY <1>1, CallInit, CallNext, PTL DEF Spec
<1>3. Spec => []HeldIsWhatOpenCallsHold
  BY HeldCorrect
<1>4. Spec => []TotalsInv
  BY <1>1, <1>2, TotalsInit, TotalsNext, PTL DEF Spec
<1>5. CASE EstimatesHold
  <2>1. /\ TypeInv /\ TypeInv' /\ CallInv /\ HeldIsWhatOpenCallsHold /\ TotalsInv
        /\ OvershootInv /\ [Next]_vars
        => OvershootInv'
    BY <1>5, OvershootNext
  <2>2. Spec => []OvershootInv
    BY <1>1, <1>2, <1>3, <1>4, <2>1, OvershootInit, PTL DEF Spec
  <2>3. OvershootInv => BuildOvershootBounded
    BY DEF OvershootInv, Others, BuildOvershootBounded
  <2>4. QED
    BY <2>2, <2>3, PTL
<1>6. CASE ~EstimatesHold
  <2>1. BuildOvershootBounded
    BY <1>6 DEF BuildOvershootBounded
  <2>2. QED
    BY <2>1, PTL
<1>7. QED
  BY <1>5, <1>6
-----------------------------------------------------------------------------
(* A command that has the ledger to itself.                                *)

\* What the ledger holds against each cap that commands share.
ExperimentTotal == SumTo(ExperimentPart(ledger), Len(ledger))
SessionTotal == SumTo(SessionPart(ledger, 1), Len(ledger))

\* What is recorded and what is in flight fits every cap that applies.
AloneInv ==
  /\ \A i \in DOMAIN ledger : ~ledger[i].opening
  /\ LedgerTotal + InFlight(1) <= BuildCap
  /\ IsExperiment[1] => ExperimentTotal + InFlight(1) <= ExperimentCap
  /\ ~IsExperiment[1] => SessionTotal + InFlight(1) <= SessionCap

LEMMA AloneNumbers ==
  ASSUME TypeInv, 1 \in Commands
  PROVE  /\ LedgerTotal \in Nat /\ ExperimentTotal \in Nat /\ SessionTotal \in Nat
         /\ InFlight(1) \in Nat /\ Pending(1) \in Nat /\ reserved[1] \in Nat
         /\ BuildCap \in Nat /\ ExperimentCap \in Nat /\ SessionCap \in Nat
<1>1. ledger \in Seq(Entry) /\ Len(ledger) \in Nat
  BY TypeFacts
<1>2. ExperimentTotal \in Nat /\ SessionTotal \in Nat
  BY <1>1, PartsAreNat, SumToNat DEF ExperimentTotal, SessionTotal
<1>3. QED
  BY <1>2, LedgerNumbers, CapNumbers, CostAssumption DEF InFlight

LEMMA AloneInit == ASSUME 1 \in Commands PROVE Init => AloneInv
<1> SUFFICES ASSUME Init PROVE AloneInv
  OBVIOUS
<1>1. LedgerTotal = 0 /\ ExperimentTotal = 0 /\ SessionTotal = 0
  BY SumToUnfold DEF Init, LedgerTotal, ExperimentTotal, SessionTotal
<1>2. InFlight(1) = 0 /\ ledger = <<>>
  BY DEF Init, InFlight, Pending
<1>3. BuildCap \in Nat /\ ExperimentCap \in Nat /\ SessionCap \in Nat
  BY CostAssumption
<1>4. QED
  BY <1>1, <1>2, <1>3 DEF AloneInv

\* Steps that record nothing and hold no more.
LEMMA AloneKept ==
  ASSUME TypeInv, TypeInv', 1 \in Commands, AloneInv, ledger' = ledger,
         InFlight(1)' <= InFlight(1)
  PROVE  AloneInv'
<1>1. /\ LedgerTotal' = LedgerTotal /\ ExperimentTotal' = ExperimentTotal
      /\ SessionTotal' = SessionTotal
  BY DEF LedgerTotal, ExperimentTotal, SessionTotal, BuildPart, ExperimentPart, SessionPart
<1>2. InFlight(1)' \in Nat
  <2>1. Pending(1)' \in Nat
    BY FlightsNatAfter
  <2>2. reserved'[1] \in Nat
    BY DEF TypeInv, TypeOK
  <2>3. QED
    BY <2>1, <2>2 DEF InFlight
<1>3. QED
  BY <1>1, <1>2, AloneNumbers DEF AloneInv

\* A command that has read the ledger knows all of it.
LEMMA AloneKnowsAll ==
  ASSUME TypeInv, TypeInv', TotalsInv, AloneInv, 1 \in Commands, ReadNew(1), ledger' = ledger
  PROVE  /\ build'[1] = LedgerTotal /\ experiment'[1] = ExperimentTotal
         /\ session'[1] = SessionTotal
<1>1. TotalsFor(1)' /\ offset'[1] = Len(ledger)
  BY ReadNewTotals DEF TotalsInv
<1>2. /\ BuildPart(ledger)' = BuildPart(ledger) /\ ExperimentPart(ledger)' = ExperimentPart(ledger)
      /\ SessionPart(ledger, 1)' = SessionPart(ledger, 1)
  BY DEF BuildPart, ExperimentPart, SessionPart
<1>3. \A i \in 1..offset'[1] : ~ledger[i].opening
  BY <1>1, TypeFacts DEF AloneInv
<1>4. QED
  BY <1>1, <1>2, <1>3 DEF TotalsFor, BuildAgrees, LedgerTotal, ExperimentTotal, SessionTotal

LEMMA AloneReserve ==
  ASSUME TypeInv, TypeInv', TotalsInv, AloneInv, 1 \in Commands,
         NEW a \in Arms, NEW w \in WorstCases, Reserve(1, a, w)
  PROVE  AloneInv'
<1>1. ReadNew(1) /\ ledger' = ledger /\ UNCHANGED appending /\ Unlocked(1)
  BY DEF Reserve
<1>2. CASE reserved' = reserved
  <2>1. InFlight(1)' = InFlight(1)
    BY <1>1, <1>2, PendingSame DEF InFlight
  <2>2. QED
    BY <1>1, <2>1, AloneNumbers, AloneKept
<1>3. CASE /\ ~Crosses(1, a, TotalsAfter(1, a), scope[1][a].reserved, reserved[1], w)
           /\ reserved' = [reserved EXCEPT ![1] = @ + w]
  <2>1. /\ build'[1] = LedgerTotal /\ experiment'[1] = ExperimentTotal
        /\ session'[1] = SessionTotal
    BY <1>1, AloneKnowsAll
  <2>2. Pending(1) = 0 /\ Pending(1)' = 0 /\ w \in Nat
    BY <1>1, UnlockedPending, PendingSame, CostAssumption
  <2>3. reserved'[1] = reserved[1] + w
    BY <1>3, TypeFacts
  <2>4. InFlight(1)' = reserved[1] + w
    BY <2>2, <2>3, AloneNumbers DEF InFlight
  <2>5. /\ ~(LedgerTotal + reserved[1] + w > BuildCap)
        /\ IsExperiment[1] => ~(ExperimentTotal + reserved[1] + w > ExperimentCap)
        /\ ~IsExperiment[1] => ~(SessionTotal + reserved[1] + w > SessionCap)
    BY <1>3, <2>1 DEF Crosses, TotalsAfter
  <2>6. /\ LedgerTotal' = LedgerTotal /\ ExperimentTotal' = ExperimentTotal
        /\ SessionTotal' = SessionTotal
    BY <1>1 DEF LedgerTotal, ExperimentTotal, SessionTotal, BuildPart, ExperimentPart, SessionPart
  <2>7. QED
    BY <1>1, <2>2, <2>4, <2>5, <2>6, AloneNumbers DEF AloneInv
<1>4. QED
  BY <1>2, <1>3 DEF Reserve

\* What record adds to the ledger is no longer in flight.
LEMMA AloneRecords ==
  ASSUME TypeInv, TypeInv', AloneInv, NCommands = 1, SettleEnd
  PROVE  AloneInv'
<1>1. PICK r \in appending : SettleEnd!(r)
  BY DEF SettleEnd
<1>2. r.cmd \in Commands /\ r.cost \in Nat /\ r.cmd = 1
  BY TypeFacts DEF Commands
<1> DEFINE e == [session |-> SessionOf[1], experiment |-> IsExperiment[1],
                 opening |-> FALSE, cost |-> r.cost]
<1>3. ledger' = Append(ledger, e) /\ appending' = {} /\ reserved' = reserved
  BY <1>1, <1>2
<1>4. e \in Entry /\ e.cost = r.cost /\ ~e.opening /\ e.experiment = IsExperiment[1]
      /\ e.session = SessionOf[1]
  BY <1>2, CostAssumption DEF Entry
<1> HIDE DEF e
<1>5. ledger \in Seq(Entry) /\ Len(ledger') = Len(ledger) + 1 /\ Len(ledger) \in Nat
  BY <1>3, <1>4, TypeFacts, LedgerGrows
<1>6. /\ LedgerTotal' = LedgerTotal + r.cost
      /\ ExperimentTotal' = ExperimentTotal + (IF IsExperiment[1] THEN r.cost ELSE 0)
      /\ SessionTotal' = SessionTotal + (IF IsExperiment[1] THEN 0 ELSE r.cost)
  <2>1. 1 \in Commands
    BY <1>2
  <2>2. /\ SumTo(BuildPart(Append(ledger, e)), Len(ledger) + 1)
             = SumTo(BuildPart(ledger), Len(ledger)) + e.cost
        /\ SumTo(ExperimentPart(Append(ledger, e)), Len(ledger) + 1)
             = SumTo(ExperimentPart(ledger), Len(ledger)) + (IF e.experiment THEN e.cost ELSE 0)
        /\ SumTo(SessionPart(Append(ledger, e), 1), Len(ledger) + 1)
             = SumTo(SessionPart(ledger, 1), Len(ledger))
               + (IF ~e.experiment /\ e.session = SessionOf[1] THEN e.cost ELSE 0)
    BY <1>4, <1>5, <2>1, SumsOfAppend
  <2>3. QED
    BY <1>3, <1>4, <1>5, <2>2 DEF LedgerTotal, ExperimentTotal, SessionTotal
<1>7. InFlight(1) = reserved[1] + r.cost /\ InFlight(1)' = reserved[1]
  <2>1. Pending(1) = r.cost /\ Pending(1)' = 0 /\ reserved[1] \in Nat
    BY <1>2, <1>3, PendingFacts, AloneNumbers DEF Pending
  <2>2. QED
    BY <1>3, <2>1 DEF InFlight
<1>8. \A i \in DOMAIN ledger' : ~ledger'[i].opening
  BY <1>3, <1>4, <1>5 DEF AloneInv
<1>9. QED
  BY <1>2, <1>6, <1>7, <1>8, AloneNumbers DEF AloneInv

LEMMA AloneNext ==
  ASSUME EstimatesHold, NCommands = 1, OpeningAmounts = {}
  PROVE  /\ TypeInv /\ TypeInv' /\ HeldIsWhatOpenCallsHold /\ TotalsInv
         /\ AloneInv /\ [Next]_vars
         => AloneInv'
<1>0. SUFFICES ASSUME TypeInv, TypeInv', HeldIsWhatOpenCallsHold, TotalsInv,
                      AloneInv, [Next]_vars
               PROVE  AloneInv'
  OBVIOUS
<1> USE <1>0
<1>c. 1 \in Commands /\ \A c \in Commands : c = 1
  BY DEF Commands
\* Steps that leave the ledger, the holds and the append alone.
<1>s. ASSUME UNCHANGED <<ledger, reserved, appending>>
      PROVE  AloneInv'
  <2>1. InFlight(1)' = InFlight(1)
    BY <1>s, <1>c, PendingSame DEF InFlight
  <2>2. QED
    BY <1>s, <1>c, <2>1, AloneNumbers, AloneKept
<1>1. ASSUME NEW c \in Commands, Start(c) \/ Refresh(c)
      PROVE  AloneInv'
  BY <1>1, <1>s DEF Start, Refresh
<1>2. ASSUME NEW c \in Commands, Stop(c)
      PROVE  AloneInv'
  <2>1. /\ c = 1 /\ reserved' = [reserved EXCEPT ![c] = 0] /\ ledger' = ledger
        /\ appending' = {r \in appending : r.cmd # c}
    BY <1>2, <1>c DEF Stop
  <2>2. Pending(1)' = 0 /\ reserved'[1] = 0
    BY <2>1, <1>c, TypeFacts DEF Pending
  <2>3. InFlight(1)' <= InFlight(1)
    BY <2>2, <1>c, AloneNumbers DEF InFlight
  <2>4. QED
    BY <1>c, <2>1, <2>3, AloneKept
<1>3. ASSUME NEW c \in Commands, NEW a \in Arms, NewScope(c, a)
      PROVE  AloneInv'
  BY <1>3, <1>s DEF NewScope
<1>4. ASSUME NEW c \in Commands, NEW a \in Arms, Release(c, a)
      PROVE  AloneInv'
  <2>1. /\ c = 1 /\ ReleaseLocked(c, a) /\ call[c][a].open /\ UNCHANGED <<ledger, appending>>
    BY <1>4, <1>c DEF Release
  <2>2. reserved' = [reserved EXCEPT ![c] = @ - call[c][a].amount] /\ call[c][a].amount \in Nat
    BY <2>1, ReleaseHeld, TypeFacts
  <2>3. reserved'[1] <= reserved[1]
    BY <1>c, <2>1, <2>2, TypeFacts, AloneNumbers
  <2>4. Pending(1)' = Pending(1) /\ reserved'[1] \in Nat
    BY <1>c, <2>1, PendingSame DEF TypeInv, TypeOK
  <2>5. InFlight(1)' <= InFlight(1)
    BY <1>c, <2>3, <2>4, AloneNumbers DEF InFlight
  <2>6. QED
    BY <1>c, <2>1, <2>5, AloneKept
<1>5. ASSUME NEW c \in Commands, NEW a \in Arms, NEW w \in WorstCases, Reserve(c, a, w)
      PROVE  AloneInv'
  BY <1>5, <1>c, AloneReserve
<1>6. ASSUME NEW c \in Commands, NEW a \in Arms, NEW x \in ActualCosts, SettleBegin(c, a, x)
      PROVE  AloneInv'
  <2>1. c = 1 /\ ledger' = ledger /\ batch' = batch
    BY <1>6, <1>c DEF SettleBegin
  <2>2. reserved[1] \in Nat
    BY <1>c, CapNumbers
  <2>3. /\ ReleaseLocked(c, a) /\ call[c][a].open /\ x <= call[c][a].amount
        /\ appending = {} /\ appending' = {[cmd |-> c, arm |-> a, cost |-> x]}
    BY <1>6 DEF SettleBegin
  <2>4. /\ reserved' = [reserved EXCEPT ![c] = @ - call[c][a].amount]
        /\ call[c][a].amount \in Nat /\ x \in Nat
    BY <2>3, ReleaseHeld, TypeFacts, CostAssumption
  <2>5. reserved'[1] = reserved[1] - call[1][a].amount
    BY <1>c, <2>1, <2>4, TypeFacts
  <2>6. Pending(1) = 0 /\ Pending(1)' = x
    <3> DEFINE q == [cmd |-> c, arm |-> a, cost |-> x]
    <3>1. q.cmd = 1 /\ q.cost = x /\ appending' = {q}
      BY <2>1, <2>3
    <3> HIDE DEF q
    <3>2. (CHOOSE r \in appending' : r.cmd = 1) = q
      BY <3>1
    <3>3. QED
      BY <2>3, <3>1, <3>2 DEF Pending
  <2>7. InFlight(1)' <= InFlight(1)
    BY <2>1, <2>2, <2>3, <2>4, <2>5, <2>6 DEF InFlight
  <2>8. QED
    BY <1>c, <2>1, <2>7, AloneKept
<1>7. ASSUME SettleEnd
      PROVE  AloneInv'
  BY <1>7, AloneRecords
<1>8. CASE UNCHANGED vars
  BY <1>8, <1>s DEF vars
<1>9. QED
  BY <1>1, <1>2, <1>3, <1>4, <1>5, <1>6, <1>7, <1>8 DEF Next

\* settle never raises for a call that fits its caps.
LEMMA AlonePays ==
  ASSUME EstimatesHold, NCommands = 1, OpeningAmounts = {}, TypeInv, TypeInv', TotalsInv, TotalsInv',
         CapsInv', AloneInv, AloneInv', [Next]_vars
  PROVE  ~PaidCallRaises
<1> SUFFICES ASSUME Len(ledger') > Len(ledger), NEW q \in appending, raised'[q.cmd][q.arm]
             PROVE  FALSE
  BY DEF PaidCallRaises
<1>1. SettleEnd
  <2>1. ledger' # ledger
    BY TypeFacts
  <2>2. QED
    BY <2>1 DEF Next, vars, Start, Refresh, Stop, NewScope, Release, Reserve, SettleBegin
<1>2. PICK r \in appending : SettleEnd!(r)
  BY <1>1 DEF SettleEnd
<1>3. r.cmd \in Commands /\ r.arm \in Arms /\ r.cost \in Nat /\ r.cmd = 1 /\ q = r /\ 1 \in Commands
  BY TypeFacts DEF Commands
<1> DEFINE a == r.arm
           t == [spent |-> scope[1][a].spent + r.cost, batch |-> batch[1] + r.cost,
                 build |-> build'[1], experiment |-> experiment'[1], session |-> session'[1]]
<1>4. raised' = [raised EXCEPT ![1][a] = Crosses(1, a, t, 0, 0, 0)]
  BY <1>2, <1>3
<1>5. /\ scope' = [scope EXCEPT ![1][a].spent = @ + r.cost]
      /\ batch' = [batch EXCEPT ![1] = @ + r.cost]
      /\ appending' = {}
  BY <1>2, <1>3
<1>6. Crosses(1, a, t, 0, 0, 0)
  BY <1>3, <1>4, TypeFacts
<1>7. t.spent = scope'[1][a].spent /\ t.batch = batch'[1]
  <2>1. scope \in [Commands -> [Arms -> [spent : Nat, reserved : Nat]]] /\ batch \in [Commands -> Nat]
    BY TypeFacts
  <2>2. QED
    BY <1>3, <1>5, <2>1
<1>8. /\ scope'[1][a].spent \in Nat /\ scope'[1][a].reserved \in Nat
      /\ batch'[1] \in Nat /\ reserved'[1] \in Nat
      /\ build'[1] \in Nat /\ experiment'[1] \in Nat /\ session'[1] \in Nat
  <2>1. /\ scope' \in [Commands -> [Arms -> [spent : Nat, reserved : Nat]]]
        /\ batch' \in [Commands -> Nat] /\ reserved' \in [Commands -> Nat]
        /\ build' \in [Commands -> Nat] /\ experiment' \in [Commands -> Nat]
        /\ session' \in [Commands -> Nat]
    BY DEF TypeInv, TypeOK
  <2>2. scope'[1][a] \in [spent : Nat, reserved : Nat]
    BY <1>3, <2>1
  <2>3. QED
    BY <1>3, <2>1, <2>2
<1>9. Pending(1)' = 0 /\ ArmPending(1, a)' = 0
  BY <1>5 DEF Pending, ArmPending
<1>10. t.spent <= RunCap /\ t.batch <= BatchCap
  <2>1. CapsFor(1)'
    BY <1>3 DEF CapsInv
  <2>2. /\ batch'[1] + reserved'[1] + 0 <= BatchCap
        /\ scope'[1][a].spent + scope'[1][a].reserved + 0 <= RunCap
    BY <1>3, <1>9, <2>1 DEF CapsFor
  <2>3. RunCap \in Nat /\ BatchCap \in Nat
    BY CostAssumption
  <2>4. t.spent <= RunCap
    BY <1>7, <1>8, <2>2, <2>3, SMTT(30)
  <2>5. t.batch <= BatchCap
    BY <1>7, <1>8, <2>2, <2>3, SMTT(30)
  <2>6. QED
    BY <2>4, <2>5
<1>11. InFlight(1)' = reserved'[1]
  BY <1>8, <1>9 DEF InFlight
<1>12. /\ build'[1] <= LedgerTotal' /\ LedgerTotal' \in Nat
       /\ experiment'[1] <= ExperimentTotal' /\ ExperimentTotal' \in Nat
       /\ session'[1] <= SessionTotal' /\ SessionTotal' \in Nat
  <2> DEFINE L == ledger'
             n == Len(L)
             k == offset'[1]
  <2>1. L \in Seq(Entry) /\ k \in 0..n /\ n \in Nat
    BY <1>3 DEF TypeInv, TypeOK, OffsetInLedger
  <2>2. \A i \in 1..n : /\ BuildPart(L)[i] \in Nat /\ ExperimentPart(L)[i] \in Nat
                        /\ SessionPart(L, 1)[i] \in Nat
    BY <1>3, <2>1, PartsAreNat
  <2>3. /\ SumTo(BuildPart(L), k) <= SumTo(BuildPart(L), n) /\ SumTo(BuildPart(L), n) \in Nat
        /\ SumTo(ExperimentPart(L), k) <= SumTo(ExperimentPart(L), n)
        /\ SumTo(ExperimentPart(L), n) \in Nat
        /\ SumTo(SessionPart(L, 1), k) <= SumTo(SessionPart(L, 1), n)
        /\ SumTo(SessionPart(L, 1), n) \in Nat
    BY <2>1, <2>2, SumToMonotonic, SumToNat
  <2>4. build'[1] = SumTo(BuildPart(L), k)
    <3>1. BuildAgrees(1)'
      BY <1>3 DEF TotalsInv, TotalsFor
    <3>2. \A i \in 1..k : ~L[i].opening
      BY <2>1 DEF AloneInv
    <3>3. QED
      BY <3>1, <3>2 DEF BuildAgrees
  <2>5. experiment'[1] = SumTo(ExperimentPart(L), k) /\ session'[1] = SumTo(SessionPart(L, 1), k)
    BY <1>3 DEF TotalsInv, TotalsFor
  <2>6. QED
    BY <2>3, <2>4, <2>5 DEF LedgerTotal, ExperimentTotal, SessionTotal
<1>13. /\ build'[1] <= BuildCap
       /\ IsExperiment[1] => experiment'[1] <= ExperimentCap
       /\ ~IsExperiment[1] => session'[1] <= SessionCap
  <2>1. BuildCap \in Nat /\ ExperimentCap \in Nat /\ SessionCap \in Nat
    BY CostAssumption
  <2>2. /\ LedgerTotal' + reserved'[1] <= BuildCap
        /\ IsExperiment[1] => ExperimentTotal' + reserved'[1] <= ExperimentCap
        /\ ~IsExperiment[1] => SessionTotal' + reserved'[1] <= SessionCap
    BY <1>11 DEF AloneInv
  <2>3. QED
    BY <1>8, <1>12, <2>1, <2>2
<1>14. t.build = build'[1] /\ t.experiment = experiment'[1] /\ t.session = session'[1]
       /\ t.spent \in Nat /\ t.batch \in Nat
  BY <1>7, <1>8
<1> HIDE DEF t, a
<1>15. QED
  BY <1>6, <1>8, <1>10, <1>13, <1>14, CostAssumption DEF Crosses

\* A command that has the ledger to itself is never told of a cap by a call it
\* has paid for: when no call costs more than its worst case, every cap stops
\* a call in reserve, before it is made (settle and record).
THEOREM PaidCallsReturn ==
  ASSUME EstimatesHold, NCommands = 1, OpeningAmounts = {}
  PROVE  Spec => [][~PaidCallRaises]_vars
<1>1. Spec => []TypeInv
  BY TypeInit, TypeNext, PTL DEF Spec
<1>2. Spec => []CallInv
  BY <1>1, CallInit, CallNext, PTL DEF Spec
<1>3. Spec => []HeldIsWhatOpenCallsHold
  BY HeldCorrect
<1>4. Spec => []TotalsInv
  BY <1>1, <1>2, TotalsInit, TotalsNext, PTL DEF Spec
<1>5. Spec => []CapsInv
  BY <1>1, <1>2, <1>3, CapsInit, CapsNext, PTL DEF Spec
<1>6. Spec => []AloneInv
  <2>1. 1 \in Commands
    BY DEF Commands
  <2>2. QED
    BY <1>1, <1>3, <1>4, <2>1, AloneInit, AloneNext, PTL DEF Spec
<1>7. /\ TypeInv /\ TypeInv' /\ TotalsInv /\ TotalsInv' /\ CapsInv' /\ AloneInv /\ AloneInv'
      /\ [Next]_vars
      => [~PaidCallRaises]_vars
  BY AlonePays
<1>8. QED
  BY <1>1, <1>4, <1>5, <1>6, <1>7, PTL DEF Spec
=============================================================================
