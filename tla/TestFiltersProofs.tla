------------------------- MODULE TestFiltersProofs -------------------------
(***************************************************************************)
(* The filters for any tests, workspaces, caps and number of workers: a    *)
(* kept test earned it, test generation counts each test once, and the     *)
(* layer takes out of the suite what it discards and nothing else.  The    *)
(* invariant FilterInv ties every result to its filter's verdict, and a    *)
(* test's stage to its results, wherever the workers are.                  *)
(***************************************************************************)
EXTENDS TestFilters, FiniteSetTheorems, SequenceTheorems, TLAPS

(* ---- Sequences of tests ---------------------------------------------------- *)

\* No id is in the sequence twice, unless the workspace defines it twice.
Apart(ids) == \A i, j \in DOMAIN ids : ids[i] = ids[j] => i = j \/ Twice(ids[i])

\* The k-th smallest member of a finite set of numbers is the one with k
\* members up to it: there is exactly one for every k.
LEMMA NthMember ==
  ASSUME NEW n \in Nat, NEW P \in SUBSET (1..n)
  PROVE  /\ IsFiniteSet(P) /\ Cardinality(P) \in Nat
         /\ \A k \in 1..Cardinality(P) : \E i \in P : Cardinality({j \in P : j <= i}) = k
         /\ \A i \in P : Cardinality({j \in P : j <= i}) \in 1..Cardinality(P)
         /\ \A a, b \in P : Cardinality({j \in P : j <= a}) = Cardinality({j \in P : j <= b}) => a = b
<1> DEFINE Up(i) == {j \in P : j <= i}
           rank == [i \in P |-> Cardinality(Up(i))]
<1>1. IsFiniteSet(P) /\ Cardinality(P) \in Nat
  <2>1. IsFiniteSet(1..n)
    BY FS_Interval
  <2> QED BY <2>1, FS_Subset, FS_CardinalityType
<1>2. \A i \in P : /\ IsFiniteSet(Up(i)) /\ Up(i) \subseteq P /\ i \in Up(i)
                   /\ Cardinality(Up(i)) \in 1..Cardinality(P)
  <2> TAKE i \in P
  <2>1. i \in Up(i) /\ Up(i) \subseteq P
    OBVIOUS
  <2>2. IsFiniteSet(Up(i)) /\ Cardinality(Up(i)) \in Nat /\ Cardinality(Up(i)) <= Cardinality(P)
    BY <1>1, <2>1, FS_Subset, FS_CardinalityType
  <2>3. Cardinality(Up(i)) # 0
    BY <2>1, <2>2, FS_EmptySet
  <2> QED BY <1>1, <2>1, <2>2, <2>3
<1>3. \A i, j \in P : i < j => Cardinality(Up(i)) # Cardinality(Up(j))
  <2> TAKE i, j \in P
  <2> HAVE i < j
  <2>1. \A x \in P : x \in Int
    OBVIOUS
  <2>2. Up(i) \subseteq Up(j)
    <3> SUFFICES ASSUME NEW x \in Up(i) PROVE x \in Up(j)
      OBVIOUS
    <3>1. x \in P /\ x <= i
      OBVIOUS
    <3> QED BY <2>1, <3>1
  <2>3. j \in Up(j) /\ j \notin Up(i)
    <3>1. ~(j <= i) /\ j <= j
      BY <2>1
    <3> QED BY <3>1
  <2> QED BY <1>2, <2>2, <2>3, FS_Subset
<1>4. rank \in [P -> 1..Cardinality(P)]
  BY <1>2
<1>5. \A i, j \in P : rank[i] = rank[j] => i = j
  <2> TAKE i, j \in P
  <2>1. i \in Int /\ j \in Int
    OBVIOUS
  <2> QED BY <1>3, <2>1
<1>6. rank \in Injection(P, 1..Cardinality(P))
  BY <1>4, <1>5 DEF Injection, IsInjective
<1>7. IsFiniteSet(1..Cardinality(P)) /\ Cardinality(1..Cardinality(P)) = Cardinality(P)
  BY <1>1, FS_Interval
<1>8. rank \in Surjection(P, 1..Cardinality(P))
  BY <1>6, <1>7, FS_Injection
<1>9. \A k \in 1..Cardinality(P) : \E i \in P : rank[i] = k
  BY <1>8 DEF Surjection
<1> QED BY <1>1, <1>2, <1>5, <1>9

\* Select keeps exactly the members that are in the set, each as often as it
\* was there and in the same order.
LEMMA SelectFacts ==
  ASSUME NEW T, NEW s \in Seq(T), NEW S
  PROVE  /\ Select(s, S) \in Seq(T)
         /\ Range(Select(s, S)) = Range(s) \cap S
         /\ IsInjective(s) => IsInjective(Select(s, S))
<1> DEFINE at == {i \in DOMAIN s : s[i] \in S}
           N == Cardinality(at)
           nth(k) == CHOOSE i \in at : Cardinality({j \in at : j <= i}) = k
           q == [k \in 1..N |-> s[nth(k)]]
<1>1. Len(s) \in Nat /\ at \in SUBSET (1..Len(s)) /\ DOMAIN s = 1..Len(s)
  OBVIOUS
<1>2. /\ N \in Nat
      /\ \A k \in 1..N : \E i \in at : Cardinality({j \in at : j <= i}) = k
      /\ \A i \in at : Cardinality({j \in at : j <= i}) \in 1..N
      /\ \A a, b \in at : Cardinality({j \in at : j <= a}) = Cardinality({j \in at : j <= b}) => a = b
  BY <1>1, NthMember
<1>3. \A k \in 1..N : nth(k) \in at /\ Cardinality({j \in at : j <= nth(k)}) = k
  BY <1>2
<1>4. Select(s, S) = q
  BY DEF Select
<1>5. \A k \in 1..N : q[k] = s[nth(k)]
  OBVIOUS
<1>6. \A k \in 1..N : q[k] \in T /\ q[k] \in Range(s) \cap S
  <2>1. \A i \in at : s[i] \in T /\ s[i] \in Range(s) \cap S
    BY DEF Range
  <2> HIDE DEF nth, at
  <2> QED BY <1>3, <1>5, <2>1
<1>7. q \in Seq(T) /\ DOMAIN q = 1..N
  <2>1. q \in [1..N -> T]
    BY <1>6
  <2> HIDE DEF q, N
  <2> QED BY <1>2, <2>1
<1>8. ASSUME NEW x \in Range(s) \cap S
      PROVE  x \in Range(q)
  <2>1. PICK i \in at : s[i] = x
    BY DEF Range
  <2> DEFINE k == Cardinality({j \in at : j <= i})
  <2>2. k \in 1..N
    BY <1>2
  <2>3. nth(k) \in at /\ Cardinality({j \in at : j <= nth(k)}) = k
    BY <1>3, <2>2
  <2>4. nth(k) = i
    <3> HIDE DEF nth, at
    <3> QED BY <1>2, <2>1, <2>3
  <2> QED BY <1>5, <1>7, <2>1, <2>2, <2>4 DEF Range
<1>9. Range(q) = Range(s) \cap S
  <2> HIDE DEF q, N
  <2>1. Range(q) \subseteq Range(s) \cap S
    BY <1>6, <1>7 DEF Range
  <2>2. Range(s) \cap S \subseteq Range(q)
    BY <1>8
  <2> QED BY <2>1, <2>2
<1>10. ASSUME IsInjective(s), NEW i \in DOMAIN q, NEW j \in DOMAIN q, q[i] = q[j]
       PROVE  i = j
  <2>1. i \in 1..N /\ j \in 1..N
    BY <1>7, <1>10
  <2>2. nth(i) \in DOMAIN s /\ nth(j) \in DOMAIN s
    BY <1>3, <2>1
  <2>3. s[nth(i)] = s[nth(j)]
    BY <1>5, <1>10, <2>1
  <2>4. nth(i) = nth(j)
    BY <1>10, <2>2, <2>3 DEF IsInjective
  <2> HIDE DEF nth, at
  <2> QED BY <1>3, <2>1, <2>4
<1> HIDE DEF q
<1> QED BY <1>4, <1>7, <1>9, <1>10 DEF IsInjective

LEMMA ConcatFacts ==
  ASSUME NEW T, NEW a \in Seq(T), NEW b \in Seq(T)
  PROVE  /\ a \o b \in Seq(T) /\ Len(a \o b) = Len(a) + Len(b)
         /\ Range(a \o b) = Range(a) \cup Range(b)
         /\ Apart(a) /\ Apart(b) /\ (\A id \in Range(a) \cap Range(b) : Twice(id)) => Apart(a \o b)
<1> DEFINE c == a \o b
<1>1. /\ c \in Seq(T) /\ Len(c) = Len(a) + Len(b) /\ Len(a) \in Nat /\ Len(b) \in Nat
      /\ DOMAIN c = 1..Len(c) /\ DOMAIN a = 1..Len(a) /\ DOMAIN b = 1..Len(b)
  OBVIOUS
<1>2. \A i \in DOMAIN c : \/ i \in DOMAIN a /\ c[i] = a[i]
                          \/ i - Len(a) \in DOMAIN b /\ c[i] = b[i - Len(a)] /\ i \notin DOMAIN a
  OBVIOUS
<1>3. \A i \in DOMAIN a : i \in DOMAIN c /\ c[i] = a[i]
  OBVIOUS
<1>4. \A i \in DOMAIN b : i + Len(a) \in DOMAIN c /\ c[i + Len(a)] = b[i]
  OBVIOUS
<1>5. \A i \in DOMAIN c : i \in Int
  OBVIOUS
<1> HIDE DEF c
<1>6. Range(c) = Range(a) \cup Range(b)
  BY <1>2, <1>3, <1>4 DEF Range
<1>7. ASSUME Apart(a), Apart(b), \A id \in Range(a) \cap Range(b) : Twice(id),
             NEW i \in DOMAIN c, NEW j \in DOMAIN c, c[i] = c[j], ~Twice(c[i])
      PROVE  i = j
  <2>1. ~(i \in DOMAIN a /\ j \notin DOMAIN a) /\ ~(j \in DOMAIN a /\ i \notin DOMAIN a)
    BY <1>2, <1>7 DEF Range
  <2>2. CASE i \in DOMAIN a /\ j \in DOMAIN a
    BY <1>3, <1>7, <2>2 DEF Apart
  <2>3. CASE i \notin DOMAIN a /\ j \notin DOMAIN a
    <3>1. i - Len(a) = j - Len(a)
      BY <1>2, <1>7, <2>3 DEF Apart
    <3> QED BY <1>1, <1>5, <3>1
  <2> QED BY <2>1, <2>2, <2>3
<1>8. Apart(a) /\ Apart(b) /\ (\A id \in Range(a) \cap Range(b) : Twice(id)) => Apart(c)
  BY <1>7 DEF Apart
<1> QED BY <1>1, <1>6, <1>8 DEF c

\* The first r members of a sequence and the others.
LEMMA SplitFacts ==
  ASSUME NEW T, NEW s \in Seq(T), NEW r \in 0..Len(s)
  PROVE  LET a == SubSeq(s, 1, r)
             b == SubSeq(s, r + 1, Len(s))
         IN  /\ a \in Seq(T) /\ b \in Seq(T) /\ Len(a) = r
             /\ Range(s) = Range(a) \cup Range(b)
             /\ IsInjective(s) => IsInjective(a) /\ IsInjective(b) /\ Range(a) \cap Range(b) = {}
<1> DEFINE a == SubSeq(s, 1, r)
           b == SubSeq(s, r + 1, Len(s))
<1>1. /\ Len(s) \in Nat /\ r \in Nat /\ r <= Len(s) /\ DOMAIN s = 1..Len(s)
  OBVIOUS
<1>2. /\ a \in Seq(T) /\ Len(a) = r /\ DOMAIN a = 1..r
      /\ \A i \in 1..r : a[i] = s[i]
  BY <1>1
<1>3. /\ b \in Seq(T) /\ Len(b) = Len(s) - r /\ DOMAIN b = 1..(Len(s) - r)
      /\ \A i \in 1..(Len(s) - r) : b[i] = s[r + i]
  <2>1. r + 1 \in 1..(Len(s) + 1) /\ Len(s) \in ((r + 1) - 1)..Len(s)
    BY <1>1
  <2>2. /\ b \in Seq(T) /\ Len(b) = Len(s) - (r + 1) + 1
        /\ \A i \in 1..(Len(s) - (r + 1) + 1) : b[i] = s[(r + 1) + i - 1]
    BY <2>1, SubSeqProperties
  <2>3. Len(s) - (r + 1) + 1 = Len(s) - r /\ \A i \in Int : (r + 1) + i - 1 = r + i
    BY <1>1
  <2> HIDE DEF b
  <2> QED BY <2>2, <2>3
<1> HIDE DEF a, b
<1>4. Range(s) = Range(a) \cup Range(b)
  <2>1. ASSUME NEW x \in Range(s) PROVE x \in Range(a) \cup Range(b)
    <3>1. PICK i \in 1..Len(s) : x = s[i]
      BY <1>1 DEF Range
    <3>2. CASE i <= r
      <4>1. i \in 1..r
        BY <1>1, <3>2
      <4> QED BY <1>2, <3>1, <4>1 DEF Range
    <3>3. CASE i > r
      <4>1. i - r \in 1..(Len(s) - r) /\ r + (i - r) = i
        BY <1>1, <3>3
      <4> QED BY <1>3, <3>1, <4>1 DEF Range
    <3> QED BY <1>1, <3>2, <3>3
  <2>2. ASSUME NEW x \in Range(a) PROVE x \in Range(s)
    BY <1>1, <1>2 DEF Range
  <2>3. ASSUME NEW x \in Range(b) PROVE x \in Range(s)
    <3>1. PICK i \in 1..(Len(s) - r) : x = s[r + i]
      BY <1>3 DEF Range
    <3>2. r + i \in 1..Len(s)
      BY <1>1
    <3> QED BY <1>1, <3>1, <3>2 DEF Range
  <2> QED BY <2>1, <2>2, <2>3
<1>5. ASSUME IsInjective(s)
      PROVE  IsInjective(a) /\ IsInjective(b) /\ Range(a) \cap Range(b) = {}
  <2>1. \A i \in 1..r : i \in DOMAIN s
    BY <1>1
  <2>2. \A i \in 1..(Len(s) - r) : r + i \in DOMAIN s
    BY <1>1
  <2>3. IsInjective(a)
    BY <1>2, <1>5, <2>1 DEF IsInjective
  <2>4. IsInjective(b)
    <3> SUFFICES ASSUME NEW i \in 1..(Len(s) - r), NEW j \in 1..(Len(s) - r), b[i] = b[j]
                 PROVE  i = j
      BY <1>3 DEF IsInjective
    <3>1. r + i = r + j
      BY <1>3, <1>5, <2>2 DEF IsInjective
    <3> QED BY <1>1, <3>1
  <2>5. ASSUME NEW x \in Range(a), x \in Range(b)
        PROVE  FALSE
    <3>1. PICK i \in 1..r : x = s[i]
      BY <1>2 DEF Range
    <3>2. PICK j \in 1..(Len(s) - r) : x = s[r + j]
      BY <1>3, <2>5 DEF Range
    <3>3. i = r + j
      BY <1>5, <2>1, <2>2, <3>1, <3>2 DEF IsInjective
    <3> QED BY <1>1, <3>3
  <2> QED BY <2>3, <2>4, <2>5
<1> QED BY <1>2, <1>3, <1>4, <1>5 DEF a, b

\* The ids of different tests of the workspace.
LEMMA IdsFacts ==
  ASSUME NEW s \in Seq(InWorkspace), IsInjective(s)
  PROVE  LET ids == [i \in DOMAIN s |-> s[i].id]
         IN  /\ ids \in Seq(Ids(InWorkspace)) /\ Len(ids) = Len(s)
             /\ Range(ids) = Ids(Range(s)) /\ Apart(ids)
<1> DEFINE ids == [i \in DOMAIN s |-> s[i].id]
<1>1. Len(s) \in Nat /\ DOMAIN s = 1..Len(s) /\ \A i \in DOMAIN s : s[i] \in InWorkspace
  OBVIOUS
<1>2. ids \in [1..Len(s) -> Ids(InWorkspace)]
  BY <1>1 DEF Ids
<1>3. Range(ids) = Ids(Range(s))
  BY DEF Range, Ids
<1>4. Apart(ids)
  <2> SUFFICES ASSUME NEW i \in DOMAIN s, NEW j \in DOMAIN s, s[i].id = s[j].id, i # j
               PROVE  Twice(s[i].id)
    BY DEF Apart
  <2>1. s[i] # s[j] /\ s[i] \in InWorkspace /\ s[j] \in InWorkspace
    BY <1>1 DEF IsInjective
  <2> QED BY <2>1 DEF Twice
<1> HIDE DEF ids
<1>5. ids \in Seq(Ids(InWorkspace)) /\ Len(ids) = Len(s)
  BY <1>1, <1>2
<1> QED BY <1>3, <1>4, <1>5 DEF ids

(* ---- The tests of the workspace ---------------------------------------------- *)

\* The tests that run of those in the workspace when the agent's phase was over.
Running == Live(InWorkspace)

\* What the assumption says of the workspace at hand.
LEMMA WorkspaceFacts ==
  ASSUME workspace \in Workspaces
  PROVE  /\ workspace \in Seq(InWorkspace) /\ IsInjective(workspace)
         /\ \A t, u \in InWorkspace : /\ t.id = u.id => t.file = u.file
                                      /\ t.file = u.file => t.visible = u.visible
                                      /\ t.file = u.file /\ t # u /\ ~t.parses => u.id # t.id
BY TestAssumption DEF InWorkspace

\* Only one test of a name runs.
LEMMA OneRuns ==
  ASSUME workspace \in Workspaces, NEW t \in Running, NEW u \in Running, t.id = u.id
  PROVE  t = u
<1>1. t \in InWorkspace /\ u \in InWorkspace /\ ~Later(u, t) /\ ~Later(t, u)
  BY DEF Running, Live
<1>2. workspace \in Seq(InWorkspace)
  BY WorkspaceFacts
<1>3. PICK i \in DOMAIN workspace : workspace[i] = t
  BY <1>1 DEF InWorkspace, Range
<1>4. PICK j \in DOMAIN workspace : workspace[j] = u
  BY <1>1 DEF InWorkspace, Range
<1>5. i \in Nat /\ j \in Nat
  BY <1>2
<1>6. ~(i < j) /\ ~(j < i)
  BY <1>1, <1>3, <1>4 DEF Later
<1> QED BY <1>3, <1>4, <1>5, <1>6

\* Every name has a first definition, and a last one, which runs.
LEMMA FirstAndLast ==
  ASSUME workspace \in Workspaces, NEW t \in InWorkspace
  PROVE  /\ \E u \in Running : u.id = t.id
         /\ \E u \in InWorkspace : u.id = t.id /\ ~\E v \in InWorkspace : v.id = u.id /\ Later(u, v)
<1> DEFINE P == {i \in DOMAIN workspace : workspace[i].id = t.id}
           Up(i) == {j \in P : j <= i}
           N == Cardinality(P)
<1>1. /\ workspace \in Seq(InWorkspace) /\ IsInjective(workspace) /\ Len(workspace) \in Nat
      /\ P \in SUBSET (1..Len(workspace)) /\ DOMAIN workspace = 1..Len(workspace)
  BY WorkspaceFacts
<1>2. PICK k \in P : workspace[k] = t
  BY DEF InWorkspace, Range
<1>3. /\ IsFiniteSet(P) /\ N \in Nat
      /\ \A n \in 1..N : \E i \in P : Cardinality(Up(i)) = n
      /\ \A i \in P : Cardinality(Up(i)) \in 1..N
      /\ \A a, b \in P : Cardinality(Up(a)) = Cardinality(Up(b)) => a = b
  BY <1>1, NthMember
<1>4. 1 \in 1..N /\ N \in 1..N
  <2>1. Cardinality(Up(k)) \in 1..N /\ N \in Nat
    BY <1>3
  <2> HIDE DEF N, Up
  <2>2. N >= 1
    BY <2>1
  <2> QED BY <2>1, <2>2
<1>5. PICK a \in P : Cardinality(Up(a)) = 1
  BY <1>3, <1>4
<1>6. PICK z \in P : Cardinality(Up(z)) = N
  BY <1>3, <1>4
<1>7. \A i \in P : i \in Nat /\ i \in DOMAIN workspace /\ workspace[i] \in InWorkspace /\ workspace[i].id = t.id
  BY <1>1 DEF InWorkspace, Range
<1>8. \A i \in P : i <= z
  <2>1. Up(z) \subseteq P
    OBVIOUS
  <2>2. Up(z) = P
    BY <1>3, <1>6, <2>1, FS_Subset
  <2> QED BY <2>2
<1>9. \A i \in P : a <= i
  <2> SUFFICES ASSUME NEW i \in P, ~(a <= i) PROVE FALSE
    OBVIOUS
  <2>1. i < a /\ a \in Nat /\ i \in Nat
    BY <1>7
  <2>2. Up(i) \subseteq Up(a) /\ IsFiniteSet(Up(a)) /\ Up(a) \subseteq P
    <3>1. \A x \in Up(i) : x \in P /\ x \in Nat /\ x <= i
      BY <1>7
    <3>2. \A x \in Up(i) : x <= a
      BY <2>1, <3>1
    <3> QED BY <1>3, <3>1, <3>2, FS_Subset
  <2>3. a \in Up(a) /\ a \notin Up(i)
    BY <2>1
  <2>4. Cardinality(Up(i)) \in 1..N /\ Cardinality(Up(i)) <= Cardinality(Up(a))
    BY <1>3, <2>2, FS_Subset
  <2>5. Cardinality(Up(i)) = Cardinality(Up(a))
    BY <1>3, <1>5, <2>4
  <2> QED BY <1>3, <2>1, <2>5
<1> HIDE DEF Up, N
\* A definition that comes later is at a later place.
<1>10. ASSUME NEW x \in InWorkspace, NEW y \in InWorkspace, Later(x, y), x.id = t.id, y.id = t.id
       PROVE  \E i, j \in P : workspace[i] = y /\ workspace[j] = x /\ i < j
  BY <1>10 DEF Later
<1>11. workspace[z] \in Running
  <2> SUFFICES ASSUME NEW x \in InWorkspace, x.id = workspace[z].id, Later(x, workspace[z]) PROVE FALSE
    BY <1>7 DEF Running, Live
  <2>1. PICK i, j \in P : workspace[i] = workspace[z] /\ workspace[j] = x /\ i < j
    BY <1>7, <1>10
  <2>2. i = z
    BY <1>1, <1>7, <2>1 DEF IsInjective
  <2> QED BY <1>7, <1>8, <2>1, <2>2
<1>12. ~\E v \in InWorkspace : v.id = workspace[a].id /\ Later(workspace[a], v)
  <2> SUFFICES ASSUME NEW v \in InWorkspace, v.id = workspace[a].id, Later(workspace[a], v) PROVE FALSE
    OBVIOUS
  <2>1. PICK i, j \in P : workspace[i] = v /\ workspace[j] = workspace[a] /\ i < j
    BY <1>7, <1>10
  <2>2. j = a
    BY <1>1, <1>7, <2>1 DEF IsInjective
  <2> QED BY <1>7, <1>9, <2>1, <2>2
<1> QED BY <1>7, <1>11, <1>12

\* Two first definitions of one name are the same.
LEMMA OneFirst ==
  ASSUME workspace \in Workspaces, NEW t \in InWorkspace, NEW u \in InWorkspace, t.id = u.id,
         ~\E v \in InWorkspace : v.id = t.id /\ Later(t, v),
         ~\E v \in InWorkspace : v.id = u.id /\ Later(u, v)
  PROVE  t = u
<1>1. workspace \in Seq(InWorkspace) /\ ~Later(t, u) /\ ~Later(u, t)
  BY WorkspaceFacts
<1>2. PICK i \in DOMAIN workspace : workspace[i] = t
  BY DEF InWorkspace, Range
<1>3. PICK j \in DOMAIN workspace : workspace[j] = u
  BY DEF InWorkspace, Range
<1>4. i \in Nat /\ j \in Nat
  BY <1>1
<1>5. ~(i < j) /\ ~(j < i)
  BY <1>1, <1>2, <1>3 DEF Later
<1> QED BY <1>2, <1>3, <1>4, <1>5

(* ---- The inductive invariant ------------------------------------------------ *)

Places == {"phase end", "layer filters", "collect", "testgen filters", "done", "raised"}

\* A mutant of the filter set that none of the baseline's tests fails on.
Survivor(m) == m.set = "filter" /\ m.matches = 1 /\ \A o \in Before : m.id \notin o.kills

\* What it takes to pass a filter, whenever it is evaluated.
Fixed(n, t) ==
  CASE n = 1 -> t.file \notin Unparsed /\ t.collects
    [] n = 2 -> "pass" \in t.outcomes
    [] n = 3 -> \/ t.lines \ Covered(Before) # {}
                \/ \E m \in Mutants : Survivor(m) /\ RunMutant(m, {t}) = "killed"
    [] n = 4 -> t.asserts /\ (mode # "ab" => ~t.mocks)
    [] n = 5 -> ~(t.edits /\ t.collects)

Result(id, n, passed) == [id |-> id, filter |-> n, passed |-> passed]
Complete(id) == \A n \in Filters : Result(id, n, TRUE) \in results

InputInv ==
  /\ mode \in {"ab", "testgen", "testgen verify"} /\ workspace \in Workspaces /\ place \in Places
  /\ cap \in Int /\ (mode # "ab" => cap = -1) /\ suite \subseteq InWorkspace
  /\ mode = "ab" => place \in {"phase end", "layer filters", "done", "raised"}

\* The context knows the lines of the baseline, and holds only mutants that no
\* test of it fails on; in an A/B from the moment it is measured.
ContextInv ==
  mode # "ab" \/ place = "layer filters" =>
    /\ Covered(Before) \subseteq ctx.lines
    /\ \A m \in ctx.survivors : m \in Mutants /\ Survivor(m)

\* A test has passed the filters before its next one, and was discarded when
\* it has none; once it ran, what runs by its name has changed what it changes.
\* No definition of that name has been removed.
StageInv ==
  /\ stage \in [DOMAIN stage -> 0..6] /\ DOMAIN stage \subseteq InWorkspace
  /\ Range(queue) \subseteq InWorkspace
  /\ ~InPlace => DOMAIN stage = {}
  /\ \A t \in DOMAIN stage :
       /\ stage[t] = 0 => t.id \in Discarded
       /\ \A n \in Filters : n < stage[t] => Result(t.id, n, TRUE) \in results
       /\ stage[t] > 2 => \A u \in Running : u.id = t.id /\ u.edits /\ u.collects => touched
       /\ \A u \in InWorkspace : u.id = t.id => u \in suite

ResultsInv ==
  /\ \A r \in results : /\ r = Result(r.id, r.filter, r.passed)
                        /\ r.filter \in Filters /\ r.passed \in BOOLEAN /\ r.id \in Ids(InWorkspace)
  /\ \A t \in Running : \A n \in Filters : Result(t.id, n, TRUE) \in results => Fixed(n, t)

\* The workspace has lost only what a filter, the cap or a syntax error took.
LayerInv ==
  mode = "ab" =>
    /\ place = "phase end" => suite = InWorkspace /\ kept = {} /\ results = {}
    /\ place = "layer filters" => /\ suite = InWorkspace \ (Broken \cup Over) /\ kept = {}
                                  /\ DOMAIN stage = Range(Within)
    /\ SuiteAfterLayer
    /\ \A id \in kept : Complete(id)

ListInv ==
  /\ evaluated \in Seq(Ids(InWorkspace)) /\ notEvaluated \in Seq(Ids(InWorkspace))
  /\ Apart(evaluated) /\ Apart(notEvaluated)
  /\ \A id \in Range(evaluated) \cap Range(notEvaluated) : Twice(id)
  /\ Len(evaluated) <= MaxTests

TestgenInv ==
  mode # "ab" =>
    /\ \A t \in InWorkspace : t \notin suite => t.id \in Discarded \/ t.file \in Unparsed
    /\ \A r \in results : r.id \in Range(evaluated)
    /\ \A t \in DOMAIN stage : t.id \in Range(evaluated)
    /\ \A id \in Range(evaluated) : id \in Ids(DOMAIN stage) \/ id \in Discarded \/ Complete(id)
    /\ place \in {"testgen filters", "done"} =>
         \A t \in InWorkspace \ Old :
           t.file \notin Unparsed => t.id \in Range(evaluated) \cup Range(notEvaluated)
    /\ place = "done" => /\ kept = KeptTests /\ kept \subseteq written
                         /\ written \cap Discarded = {}

FilterInv == InputInv /\ ContextInv /\ StageInv /\ ResultsInv /\ LayerInv /\ ListInv /\ TestgenInv

\* What the layer looks at, and what it does not: a dictionary of names holds
\* the tests that run, each once.
LEMMA CandidateFacts ==
  ASSUME InputInv
  PROVE  /\ Range(Candidates) = New /\ New \subseteq Running \ Old
         /\ Within \in Seq(New) /\ IsInjective(Within)
         /\ Range(Within) \subseteq New
         /\ mode # "ab" => Over = {}
<1> DEFINE firsts == {t \in InWorkspace : ~\E u \in InWorkspace : u.id = t.id /\ Later(t, u)}
           wanted == {t \in firsts : t.id \in Ids(New)}
           names == Select(workspace, wanted)
<1>1. /\ workspace \in Workspaces /\ workspace \in Seq(InWorkspace) /\ IsInjective(workspace)
      /\ cap \in Int /\ (mode # "ab" => cap = -1)
  BY WorkspaceFacts DEF InputInv
<1>2. names \in Seq(InWorkspace) /\ Range(names) = wanted /\ IsInjective(names)
  BY <1>1, SelectFacts DEF InWorkspace
<1>3. Candidates = [i \in DOMAIN names |-> LiveOf(names[i])]
  BY DEF Candidates
<1>4. New \subseteq Running \ Old
  BY DEF New, Running
<1>5. ASSUME NEW t \in wanted
      PROVE  LiveOf(t) \in New /\ LiveOf(t).id = t.id
  <2>1. PICK n \in New : n.id = t.id
    BY <1>5 DEF Ids
  <2>2. LiveOf(t) \in Running /\ LiveOf(t).id = t.id
    BY <1>4, <2>1 DEF LiveOf, Running
  <2>3. LiveOf(t) = n
    BY <1>1, <1>4, <2>1, <2>2, OneRuns
  <2> QED BY <2>1, <2>2, <2>3
<1>6. ASSUME NEW n \in New
      PROVE  \E t \in wanted : LiveOf(t) = n
  <2>1. PICK t \in InWorkspace : t.id = n.id /\ ~\E u \in InWorkspace : u.id = t.id /\ Later(t, u)
    <3>1. n \in InWorkspace
      BY DEF New, Live
    <3> QED BY <1>1, <3>1, FirstAndLast
  <2>2. t \in wanted
    BY <2>1 DEF Ids
  <2>3. LiveOf(t) \in New /\ LiveOf(t).id = n.id
    BY <1>5, <2>1, <2>2
  <2>4. LiveOf(t) = n
    BY <1>1, <1>4, <2>3, OneRuns
  <2> QED BY <2>2, <2>4
<1>7. \A t, u \in wanted : LiveOf(t) = LiveOf(u) => t = u
  <2> TAKE t, u \in wanted
  <2> HAVE LiveOf(t) = LiveOf(u)
  <2>1. t.id = u.id
    BY <1>5
  <2> QED BY <1>1, <2>1, OneFirst
<1> HIDE DEF wanted, names
<1>8. \A i \in DOMAIN names : names[i] \in wanted
  BY <1>2 DEF Range
<1>9. Range(Candidates) = New
  <2>1. ASSUME NEW n \in New PROVE n \in Range(Candidates)
    <3>1. PICK i \in DOMAIN names : LiveOf(names[i]) = n
      BY <1>2, <1>6 DEF Range
    <3> QED BY <1>3, <3>1 DEF Range
  <2>2. \A i \in DOMAIN names : Candidates[i] \in New
    BY <1>3, <1>5, <1>8
  <2> QED BY <1>3, <2>1, <2>2 DEF Range
<1>10. IsInjective(Candidates)
  BY <1>2, <1>3, <1>7, <1>8 DEF IsInjective
<1>11. Candidates \in Seq(New)
  <2>1. DOMAIN names = 1..Len(names) /\ Len(names) \in Nat
    BY <1>2
  <2>2. Candidates \in [1..Len(names) -> New]
    BY <1>3, <1>5, <1>8, <2>1
  <2> QED BY <2>1, <2>2
<1>12. CASE cap < 0
  BY <1>1, <1>4, <1>9, <1>10, <1>11, <1>12 DEF Within, Over
<1>13. CASE ~(cap < 0)
  <2> DEFINE r == IF cap < Len(Candidates) THEN cap ELSE Len(Candidates)
  <2>1. r \in 0..Len(Candidates)
    BY <1>1, <1>11, <1>13
  <2>2. Within = SubSeq(Candidates, 1, r)
    BY <1>13 DEF Within
  <2> HIDE DEF r
  <2>3. Within \in Seq(New) /\ IsInjective(Within) /\ Range(Within) \subseteq Range(Candidates)
    BY <1>10, <1>11, <2>1, <2>2, SplitFacts
  <2>4. mode = "ab"
    BY <1>1, <1>13
  <2> QED BY <1>4, <1>9, <2>3, <2>4
<1> QED BY <1>12, <1>13

LEMMA SeqOfSubset ==
  ASSUME NEW S, NEW T, S \subseteq T, NEW s \in Seq(S)
  PROVE  s \in Seq(T)
OBVIOUS

LEMMA CollectedFacts ==
  ASSUME InputInv
  PROVE  /\ Collected \in Seq(InWorkspace) /\ IsInjective(Collected)
         /\ \A t \in Range(Collected) : t \in suite /\ (t.file \in Unparsed => ~t.parses)
         /\ \A t \in InWorkspace \ Old : t \in suite /\ t.file \notin Unparsed => t \in Range(Collected)
<1> DEFINE S == {t \in suite : t.file \in ChangedFiles /\ (t.file \in Unparsed => ~t.parses)}
<1>1. workspace \in Seq(InWorkspace) /\ IsInjective(workspace)
  BY WorkspaceFacts DEF InputInv
<1>2. Collected \in Seq(InWorkspace) /\ Range(Collected) = InWorkspace \cap S /\ IsInjective(Collected)
  BY <1>1, SelectFacts DEF Collected, InWorkspace
<1>3. \A t \in InWorkspace \ Old : t.file \in ChangedFiles
  BY DEF ChangedFiles, Files
<1> QED BY <1>2, <1>3

\* FilterRun.evaluate: it takes the tests it has not seen, as many as it has
\* room for, and lists the others.
LEMMA FilterRunFacts ==
  ASSUME ListInv, NEW cands \in Seq(InWorkspace), IsInjective(cands), FilterRun(cands),
         workspace' = workspace
  PROVE  /\ ListInv'
         /\ \A c \in Range(cands) : c.id \in Range(evaluated') \cup Range(notEvaluated')
         /\ Range(evaluated) \subseteq Range(evaluated')
         /\ Range(notEvaluated) \subseteq Range(notEvaluated')
         /\ \E N \in SUBSET Range(cands) :
              /\ stage' = [t \in N |-> 1] /\ Range(evaluated') = Range(evaluated) \cup Ids(N)
              /\ Range(queue') = N
              /\ \A t \in N : t.id \notin Range(evaluated)
<1> DEFINE new == Unseen(cands)
           room == IF MaxTests > Len(evaluated) THEN MaxTests - Len(evaluated) ELSE 0
           r == IF room < Len(new) THEN room ELSE Len(new)
           now == SubSeq(new, 1, r)
           later == SubSeq(new, Len(now) + 1, Len(new))
           idsNow == [i \in DOMAIN now |-> now[i].id]
           idsLater == [i \in DOMAIN later |-> later[i].id]
           Fresh == {t \in Range(cands) : t.id \notin Range(evaluated) \cup Range(notEvaluated)}
<1>1. /\ evaluated \in Seq(Ids(InWorkspace)) /\ notEvaluated \in Seq(Ids(InWorkspace))
      /\ Apart(evaluated) /\ Apart(notEvaluated)
      /\ \A id \in Range(evaluated) \cap Range(notEvaluated) : Twice(id)
      /\ Len(evaluated) <= MaxTests /\ Len(evaluated) \in Nat /\ MaxTests \in Nat
  BY FilterConstants DEF ListInv
<1>2. /\ evaluated' = evaluated \o idsNow
      /\ notEvaluated' = notEvaluated \o idsLater
      /\ stage' = [t \in Range(now) |-> 1] /\ queue' = now
  BY DEF FilterRun, Begin
<1>3. new \in Seq(InWorkspace) /\ Range(new) = Range(cands) \cap Fresh /\ IsInjective(new)
  BY SelectFacts DEF Unseen
<1> HIDE DEF new
<1>4. Len(new) \in Nat /\ r \in 0..Len(new) /\ r <= MaxTests - Len(evaluated)
  BY <1>1, <1>3
<1> HIDE DEF r
<1>5. /\ now \in Seq(InWorkspace) /\ later \in Seq(InWorkspace) /\ Len(now) = r
      /\ Range(new) = Range(now) \cup Range(later)
      /\ IsInjective(now) /\ IsInjective(later) /\ Range(now) \cap Range(later) = {}
  <2>1. now \in Seq(InWorkspace) /\ Len(now) = r
    BY <1>3, <1>4, SplitFacts
  <2>2. later = SubSeq(new, r + 1, Len(new))
    BY <2>1
  <2> HIDE DEF later
  <2> QED BY <1>3, <1>4, <2>1, <2>2, SplitFacts
<1> HIDE DEF now, later
<1>6. /\ idsNow \in Seq(Ids(InWorkspace)) /\ Len(idsNow) = r
      /\ Range(idsNow) = Ids(Range(now)) /\ Apart(idsNow)
  BY <1>5, IdsFacts
<1>7. /\ idsLater \in Seq(Ids(InWorkspace))
      /\ Range(idsLater) = Ids(Range(later)) /\ Apart(idsLater)
  BY <1>5, IdsFacts
<1> HIDE DEF idsNow, idsLater
<1>8. /\ Range(evaluated) \cap Range(idsNow) = {} /\ Range(notEvaluated) \cap Range(idsLater) = {}
      /\ Range(evaluated) \cap Range(idsLater) = {} /\ Range(notEvaluated) \cap Range(idsNow) = {}
  <2>1. \A x \in Range(now) \cup Range(later) : x.id \notin Range(evaluated) \cup Range(notEvaluated)
    BY <1>3, <1>5
  <2> QED BY <1>6, <1>7, <2>1 DEF Ids
\* A name in both halves has two definitions.
<1>9. ASSUME NEW id \in Range(idsNow) \cap Range(idsLater)
      PROVE  Twice(id)
  <2>1. PICK t \in Range(now), u \in Range(later) : t.id = id /\ u.id = id
    BY <1>6, <1>7 DEF Ids
  <2>2. t # u /\ t \in InWorkspace /\ u \in InWorkspace
    <3>1. \A i \in DOMAIN cands : cands[i] \in InWorkspace
      OBVIOUS
    <3>2. Range(cands) \subseteq InWorkspace
      BY <3>1 DEF Range
    <3>3. t \in Range(new) /\ u \in Range(new)
      BY <1>5
    <3>4. t # u
      BY <1>5
    <3> QED BY <1>3, <3>2, <3>3, <3>4
  <2> QED BY <2>1, <2>2 DEF Twice
<1>10. /\ evaluated' \in Seq(Ids(InWorkspace)) /\ Len(evaluated') = Len(evaluated) + r
       /\ Range(evaluated') = Range(evaluated) \cup Range(idsNow) /\ Apart(evaluated \o idsNow)
  <2>1. Len(evaluated \o idsNow) = Len(evaluated) + Len(idsNow)
    BY <1>1, <1>6, ConcatFacts
  <2> QED BY <1>1, <1>2, <1>6, <1>8, <2>1, ConcatFacts
<1>11. /\ notEvaluated' \in Seq(Ids(InWorkspace))
       /\ Range(notEvaluated') = Range(notEvaluated) \cup Range(idsLater)
       /\ Apart(notEvaluated \o idsLater)
  BY <1>1, <1>2, <1>7, <1>8, ConcatFacts
<1>12. \A id \in Range(evaluated') \cap Range(notEvaluated') : Twice(id)
  BY <1>1, <1>8, <1>9, <1>10, <1>11
<1>13. Len(evaluated') <= MaxTests
  BY <1>1, <1>4, <1>10
<1>14. ListInv'
  <2>1. InWorkspace' = InWorkspace /\ \A id : Twice(id)' = Twice(id)
    BY DEF InWorkspace, Twice
  <2>2. Apart(evaluated)' /\ Apart(notEvaluated)'
    BY <1>2, <1>10, <1>11, <2>1 DEF Apart
  <2> QED BY <1>10, <1>11, <1>12, <1>13, <2>1, <2>2 DEF ListInv
<1>15. \A c \in Range(cands) : c.id \in Range(evaluated') \cup Range(notEvaluated')
  <2> TAKE c \in Range(cands)
  <2>1. CASE c \in Fresh
    <3>1. c \in Range(now) \cup Range(later)
      BY <1>3, <1>5, <2>1
    <3> QED BY <1>6, <1>7, <1>10, <1>11, <3>1 DEF Ids
  <2>2. CASE c \notin Fresh
    BY <1>10, <1>11, <2>2
  <2> QED BY <2>1, <2>2
<1>16. /\ Range(now) \in SUBSET Range(cands)
       /\ \A t \in Range(now) : t.id \notin Range(evaluated)
  BY <1>3, <1>5
<1> QED BY <1>2, <1>6, <1>10, <1>11, <1>14, <1>15, <1>16

LEMMA InitInv == ASSUME Init PROVE FilterInv
<1>1. workspace \in Workspaces /\ suite = InWorkspace
  BY DEF Init
<1>2. InputInv
  <2>1. mode \in {"ab", "testgen", "testgen verify"}
    BY DEF Init
  <2>2. cap \in Int /\ (mode # "ab" => cap = -1)
    <3>1. cap \in IF mode = "ab" THEN Caps ELSE {-1}
      BY DEF Init
    <3>2. CASE mode = "ab"
      BY <3>1, <3>2, FilterConstants
    <3>3. CASE mode # "ab"
      BY <3>1, <3>3
    <3> QED BY <3>2, <3>3
  <2>3. place \in {"collect", "phase end"} /\ (mode = "ab" => place = "phase end")
    BY DEF Init
  <2> QED BY <1>1, <2>1, <2>2, <2>3 DEF InputInv, Places
<1>3. ContextInv
  <2> SUFFICES ASSUME mode # "ab" PROVE ContextInv
    BY DEF ContextInv, Init
  <2>1. Before = given /\ ctx = Context(given, Mutants)
    BY DEF Before, Init
  <2>2. Covered(Before) \subseteq ctx.lines
    BY <2>1 DEF Context
  <2>3. ASSUME NEW m \in ctx.survivors
        PROVE  m \in Mutants /\ Survivor(m)
    <3>1. m \in Mutants /\ m.set = "filter" /\ RunMutant(m, Before) = "survived"
      BY <2>1, <2>3 DEF Context
    <3> QED BY <3>1 DEF RunMutant, Survivor
  <2> QED BY <2>2, <2>3 DEF ContextInv
<1>4. StageInv
  <2>1. stage = <<>> /\ queue = <<>>
    BY DEF Init, Idle
  <2>2. DOMAIN <<>> = {} /\ Range(<<>>) = {}
    BY DEF Range
  <2> QED BY <2>1, <2>2 DEF StageInv
<1>5. ResultsInv
  BY DEF Init, ResultsInv
<1>6. LayerInv
  BY <1>1 DEF Init, LayerInv, SuiteAfterLayer
<1>7. ListInv
  <2>1. evaluated = <<>> /\ notEvaluated = <<>>
    BY DEF Init
  <2> QED BY <2>1, FilterConstants DEF ListInv, Apart, Range
<1>8. TestgenInv
  <2>1. evaluated = <<>> /\ stage = <<>> /\ results = {} /\ place \in {"collect", "phase end"}
    BY DEF Init, Idle
  <2>2. DOMAIN <<>> = {}
    OBVIOUS
  <2>3. Range(evaluated) = {}
    BY <2>1, <2>2 DEF Range
  <2> QED BY <1>1, <2>1, <2>2, <2>3 DEF TestgenInv
<1> QED BY <1>2, <1>3, <1>4, <1>5, <1>6, <1>7, <1>8 DEF FilterInv

\* Results are only added: what is discarded, or complete, stays so.
LEMMA ResultsGrow ==
  ASSUME results \subseteq results'
  PROVE  /\ Discarded \subseteq Discarded'
         /\ \A id : Complete(id) => Complete(id)'
BY DEF Discarded, Complete

\* A test is kept when it is complete and not discarded.
LEMMA KeptIff ==
  ASSUME NEW id
  PROVE  id \in KeptTests <=> Complete(id) /\ id \notin Discarded
<1>1. ASSUME Complete(id), id \notin Discarded PROVE id \in KeptTests
  <2>1. Result(id, 1, TRUE) \in results /\ Result(id, 1, TRUE).id = id
    BY <1>1 DEF Complete, Filters, Result
  <2>2. \A n \in Filters : [id |-> id, filter |-> n, passed |-> TRUE] \in results
    BY <1>1 DEF Complete, Result
  <2> QED BY <1>1, <2>1, <2>2 DEF KeptTests
<1>2. ASSUME id \in KeptTests PROVE Complete(id) /\ id \notin Discarded
  BY <1>2 DEF KeptTests, Complete, Result
<1> QED BY <1>1, <1>2

\* The pool works on nothing else than tests whose next filter is one of five.
LEMMA InWork ==
  ASSUME StageInv, NEW t \in Working \cup Next1
  PROVE  t \in DOMAIN stage /\ stage[t] \in Filters
<1>1. Waiting \subseteq {u \in DOMAIN stage : stage[u] = 1}
  BY DEF Waiting
<1>2. Next1 \subseteq Waiting
  BY DEF Next1
<1>3. Working \subseteq {u \in DOMAIN stage : stage[u] \in 1..5}
  BY DEF Working, FilterCount
<1> QED BY <1>1, <1>2, <1>3 DEF Filters

\* Once nothing waits and nothing is worked on, every test is discarded or
\* complete.
LEMMA ThroughMeans ==
  ASSUME StageInv, Through, NEW t \in DOMAIN stage
  PROVE  t.id \in Discarded \/ Complete(t.id)
<1>1. stage[t] \in 0..6 /\ stage[t] \notin 2..5 /\ stage[t] # 1
  BY DEF StageInv, Through, Working, Waiting, FilterCount
<1>2. stage[t] = 0 \/ stage[t] = 6
  BY <1>1
<1>3. CASE stage[t] = 0
  BY <1>3 DEF StageInv
<1>4. CASE stage[t] = 6
  <2>1. \A n \in Filters : n < 6
    BY DEF Filters
  <2> QED BY <1>4, <2>1 DEF StageInv, Complete
<1> QED BY <1>2, <1>3, <1>4

\* What runs by the name of a test that is being filtered is what runs by that
\* name in the whole workspace.
LEMMA RunByMeans ==
  ASSUME InputInv, StageInv, NEW t \in DOMAIN stage
  PROVE  RunBy(t.id) = {u \in Running : u.id = t.id}
<1>1. /\ suite \subseteq InWorkspace
      /\ \A u \in InWorkspace : u.id = t.id => u \in suite
  BY DEF InputInv, StageInv
<1> QED BY <1>1 DEF RunBy, Running, Live

LEMMA FixedIs ==
  ASSUME NEW t
  PROVE  /\ Fixed(1, t) = (t.file \notin Unparsed /\ t.collects)
         /\ Fixed(2, t) = ("pass" \in t.outcomes)
         /\ Fixed(3, t) = \/ t.lines \ Covered(Before) # {}
                          \/ \E m \in Mutants : Survivor(m) /\ RunMutant(m, {t}) = "killed"
         /\ Fixed(4, t) = (t.asserts /\ (mode # "ab" => ~t.mocks))
         /\ Fixed(5, t) = ~(t.edits /\ t.collects)
BY DEF Fixed

\* A test that passes a filter has what the filter asks for, for good.
LEMMA PassedMeans ==
  ASSUME InputInv, ContextInv, StageInv, InPlace, NEW t \in DOMAIN stage, stage[t] \in Filters,
         NEW u \in Running, u.id = t.id, Passes(stage[t], u)
  PROVE  Fixed(stage[t], u)
<1> stage[t] \in {1, 2, 3, 4, 5}
  BY DEF Filters
<1>1. CASE stage[t] = 1
  BY <1>1 DEF Passes, Fixed, ImportsAndRuns
<1>2. CASE stage[t] = 2
  BY <1>2 DEF Passes, Fixed, PassesFiveRuns
<1>3. CASE stage[t] = 3
  <2>1. AddsCoverageOrKillsMutant(u)
    BY <1>3 DEF Passes
  <2>2. /\ Covered(Before) \subseteq ctx.lines
        /\ \A m \in ctx.survivors : m \in Mutants /\ Survivor(m)
    BY DEF ContextInv, InputInv, InPlace
  <2>3. \/ u.lines \ Covered(Before) # {}
        \/ \E m \in Mutants : Survivor(m) /\ RunMutant(m, {u}) = "killed"
    BY <2>1, <2>2 DEF AddsCoverageOrKillsMutant
  <2>4. Fixed(3, u)
    BY <2>3, FixedIs
  <2> QED BY <1>3, <2>4
<1>4. CASE stage[t] = 4
  BY <1>4 DEF Passes, Fixed, RealAssertionsNoMocking
<1>5. CASE stage[t] = 5
  <2>1. ~touched /\ stage[t] > 2
    BY <1>5 DEF Passes, NoSourceChange
  <2>2. ~(u.edits /\ u.collects)
    BY <2>1 DEF StageInv
  <2>3. Fixed(5, u)
    BY <2>2, FixedIs
  <2> QED BY <1>5, <2>3
<1> QED BY <1>1, <1>2, <1>3, <1>4, <1>5

\* What depends on the workspace and the settings alone.
LEMMA SameInputs ==
  ASSUME UNCHANGED phase
  PROVE  /\ mode' = mode /\ given' = given /\ workspace' = workspace /\ edited' = edited /\ cap' = cap
         /\ InWorkspace' = InWorkspace /\ Before' = Before /\ Unparsed' = Unparsed
         /\ Running' = Running
         /\ \A n, t : Fixed(n, t)' = Fixed(n, t)
         /\ \A m : Survivor(m)' = Survivor(m)
         /\ \A id : Twice(id)' = Twice(id)
         /\ Broken' = Broken /\ New' = New /\ Within' = Within /\ Over' = Over
<1>1. mode' = mode /\ given' = given /\ workspace' = workspace /\ edited' = edited /\ cap' = cap
  BY DEF phase
<1>2. InWorkspace' = InWorkspace /\ Live(InWorkspace)' = Live(InWorkspace)
  BY <1>1 DEF InWorkspace, Live, Later
<1>3. Before' = Before /\ Unparsed' = Unparsed /\ Running' = Running
  BY <1>1, <1>2 DEF Before, Unparsed, Files, Running
<1>4. \A m : Survivor(m)' = Survivor(m)
  BY <1>3 DEF Survivor
<1>5. \A n, t : Fixed(n, t)' = Fixed(n, t)
  BY <1>1, <1>3, <1>4 DEF Fixed
<1>6. \A id : Twice(id)' = Twice(id)
  BY <1>2 DEF Twice
<1>7. Broken' = Broken /\ New' = New
  BY <1>2, <1>3 DEF Broken, New
<1>8. Candidates' = Candidates
  BY <1>1, <1>2, <1>7 DEF Candidates, LiveOf, Later, Live
<1>9. Within' = Within
  BY <1>1, <1>8 DEF Within
<1>10. Over' = Over
  BY <1>8, <1>9 DEF Over
<1> QED BY <1>1, <1>2, <1>3, <1>4, <1>5, <1>6, <1>7, <1>9, <1>10

LEMMA EvaluateInv ==
  ASSUME FilterInv, NEW t \in DOMAIN stage, Evaluate(t)
  PROVE  FilterInv'
<1>1. /\ InputInv /\ ContextInv /\ StageInv /\ ResultsInv /\ LayerInv /\ ListInv /\ TestgenInv
  BY DEF FilterInv
<1>2. /\ UNCHANGED <<phase, place, suite, ctx, queue, evaluated, notEvaluated, kept, written>>
      /\ InPlace /\ stage[t] \in Filters /\ t \in InWorkspace
      /\ touched' = (touched \/ \E u \in RunBy(t.id) : u.edits /\ u.collects /\ Runs(stage[t]))
  BY <1>1, InWork DEF Evaluate, StageInv
<1>3. PICK passed \in BOOLEAN :
        /\ passed => \E u \in RunBy(t.id) : Passes(stage[t], u)
        /\ results' = results \cup {Result(t.id, stage[t], passed)}
        /\ stage' = [stage EXCEPT ![t] = IF passed THEN @ + 1 ELSE 0]
  BY DEF Evaluate, Result
<1>4. /\ mode' = mode /\ workspace' = workspace /\ cap' = cap
      /\ InWorkspace' = InWorkspace /\ Before' = Before /\ Unparsed' = Unparsed /\ Running' = Running
      /\ \A n, u : Fixed(n, u)' = Fixed(n, u)
      /\ \A m : Survivor(m)' = Survivor(m)
      /\ \A id : Twice(id)' = Twice(id)
      /\ Broken' = Broken /\ Within' = Within /\ Over' = Over
  BY <1>2, SameInputs
<1>5. /\ results \subseteq results' /\ Discarded \subseteq Discarded'
      /\ \A id : Complete(id) => Complete(id)'
  BY <1>3, ResultsGrow
<1>6. InPlace' = InPlace
  BY <1>2 DEF InPlace
<1>7. /\ stage \in [DOMAIN stage -> 0..6] /\ DOMAIN stage' = DOMAIN stage
      /\ \A u \in DOMAIN stage : u # t => stage'[u] = stage[u]
      /\ stage'[t] = IF passed THEN stage[t] + 1 ELSE 0
      /\ stage' \in [DOMAIN stage -> 0..6]
  <2>1. stage \in [DOMAIN stage -> 0..6]
    BY <1>1 DEF StageInv
  <2>2. (IF passed THEN stage[t] + 1 ELSE 0) \in 0..6
    BY <1>2 DEF Filters
  <2> QED BY <1>3, <2>1, <2>2
<1>8. RunBy(t.id) = {u \in Running : u.id = t.id}
  BY <1>1, RunByMeans
<1>9. InputInv'
  BY <1>1, <1>2, <1>4 DEF InputInv
<1>10. ContextInv'
  BY <1>1, <1>2, <1>4 DEF ContextInv, Covered
<1>11. StageInv'
  <2>1. ASSUME NEW u \in DOMAIN stage
        PROVE  /\ stage'[u] = 0 => u.id \in Discarded'
               /\ \A n \in Filters : n < stage'[u] => Result(u.id, n, TRUE) \in results'
               /\ stage'[u] > 2 => \A v \in Running : v.id = u.id /\ v.edits /\ v.collects => touched'
    <3>1. CASE u # t
      <4>1. stage'[u] = stage[u]
        BY <1>7, <3>1
      <4>2. stage[u] = 0 => u.id \in Discarded'
        BY <1>1, <1>5 DEF StageInv
      <4>3. \A n \in Filters : n < stage[u] => Result(u.id, n, TRUE) \in results'
        BY <1>1, <1>5 DEF StageInv
      <4>4. stage[u] > 2 => \A v \in Running : v.id = u.id /\ v.edits /\ v.collects => touched'
        BY <1>1, <1>2 DEF StageInv
      <4> QED BY <4>1, <4>2, <4>3, <4>4, Zenon
    <3>2. CASE u = t /\ passed
      <4>1. stage'[t] = stage[t] + 1 /\ stage[t] \in 1..5
        BY <1>2, <1>7, <3>2 DEF Filters
      <4>2. ASSUME NEW n \in Filters, n < stage'[t] PROVE Result(t.id, n, TRUE) \in results'
        <5>1. n < stage[t] \/ n = stage[t]
          BY <4>1, <4>2 DEF Filters
        <5>2. CASE n < stage[t]
          BY <1>1, <1>5, <5>2 DEF StageInv
        <5>3. CASE n = stage[t]
          <6>1. passed = TRUE
            BY <3>2
          <6> QED BY <1>3, <5>3, <6>1
        <5> QED BY <5>1, <5>2, <5>3
      <4>3. ASSUME stage'[t] > 2, NEW v \in Running, v.id = t.id, v.edits, v.collects
            PROVE  touched'
        <5>1. stage[t] = 2 \/ stage[t] > 2
          BY <4>1, <4>3
        <5>2. CASE stage[t] = 2
          <6>1. v \in RunBy(t.id) /\ Runs(stage[t])
            BY <1>8, <4>3, <5>2 DEF Runs
          <6> QED BY <1>2, <4>3, <6>1
        <5>3. CASE stage[t] > 2
          BY <1>1, <1>2, <4>3, <5>3 DEF StageInv
        <5> QED BY <5>1, <5>2, <5>3
      <4>4. stage'[t] # 0
        BY <4>1
      <4> QED BY <3>2, <4>2, <4>3, <4>4
    <3>3. CASE u = t /\ ~passed
      <4>1. stage'[t] = 0 /\ passed = FALSE
        BY <1>7, <3>3
      <4>2. Result(t.id, stage[t], FALSE) \in results'
        BY <1>3, <4>1
      <4>3. t.id \in Discarded'
        BY <4>2 DEF Discarded, Result
      <4>4. ~(0 > 2) /\ \A n \in Filters : ~(n < 0)
        BY DEF Filters
      <4>5. stage'[u] = 0 /\ u.id \in Discarded'
        BY <3>3, <4>1, <4>3
      <4> QED BY <4>4, <4>5, Zenon
    <3> QED BY <3>1, <3>2, <3>3
  <2>2. \A u \in DOMAIN stage : \A v \in InWorkspace : v.id = u.id => v \in suite'
    BY <1>1, <1>2 DEF StageInv
  <2>3. DOMAIN stage \subseteq InWorkspace /\ Range(queue') \subseteq InWorkspace
    BY <1>1, <1>2 DEF StageInv
  <2> QED BY <1>2, <1>4, <1>6, <1>7, <2>1, <2>2, <2>3 DEF StageInv
<1>12. ResultsInv'
  <2>1. ASSUME NEW r \in results'
        PROVE  /\ r = Result(r.id, r.filter, r.passed)
               /\ r.filter \in Filters /\ r.passed \in BOOLEAN /\ r.id \in Ids(InWorkspace)
    <3>1. CASE r \in results
      BY <1>1, <3>1 DEF ResultsInv
    <3>2. CASE r = Result(t.id, stage[t], passed)
      BY <1>2, <3>2 DEF Result, Ids
    <3> QED BY <1>3, <3>1, <3>2
  <2>2. ASSUME NEW u \in Running, NEW n \in Filters, Result(u.id, n, TRUE) \in results'
        PROVE  Fixed(n, u)
    <3>1. CASE Result(u.id, n, TRUE) \in results
      BY <1>1, <3>1 DEF ResultsInv
    <3>2. CASE Result(u.id, n, TRUE) = Result(t.id, stage[t], passed)
      <4>1. u.id = t.id /\ n = stage[t] /\ passed
        BY <3>2 DEF Result
      <4>2. PICK v \in Running : v.id = t.id /\ Passes(stage[t], v)
        BY <1>3, <1>8, <4>1
      <4>3. v = u
        BY <1>1, <4>1, <4>2, OneRuns DEF InputInv
      <4> QED BY <1>1, <1>2, <4>1, <4>2, <4>3, PassedMeans
    <3> QED BY <1>3, <2>2, <3>1, <3>2
  <2> QED BY <1>4, <2>1, <2>2 DEF ResultsInv
<1>13. LayerInv'
  <2>1. place = "layer filters" \/ place = "testgen filters"
    BY <1>2 DEF InPlace
  <2>2. SuiteAfterLayer'
    BY <1>2, <2>1 DEF SuiteAfterLayer
  <2> QED BY <1>1, <1>2, <1>4, <1>5, <1>7, <2>1, <2>2 DEF LayerInv
<1>14. ListInv'
  <2>1. Apart(evaluated)' /\ Apart(notEvaluated)'
    BY <1>1, <1>2, <1>4 DEF ListInv, Apart
  <2> QED BY <1>1, <1>2, <1>4, <2>1 DEF ListInv
<1>15. TestgenInv'
  <2> SUFFICES ASSUME mode # "ab" PROVE TestgenInv'
    BY <1>4 DEF TestgenInv
  <2>1. place # "done"
    BY <1>2 DEF InPlace
  <2>2. \A r \in results' : r.id \in Range(evaluated)
    <3>1. t.id \in Range(evaluated) /\ \A r \in results : r.id \in Range(evaluated)
      BY <1>1 DEF TestgenInv
    <3>2. Result(t.id, stage[t], passed).id = t.id
      BY DEF Result
    <3> QED BY <1>3, <3>1, <3>2
  <2> QED BY <1>1, <1>2, <1>4, <1>5, <1>7, <2>1, <2>2 DEF TestgenInv
<1> QED BY <1>9, <1>10, <1>11, <1>12, <1>13, <1>14, <1>15 DEF FilterInv

\* Tests that begin have passed nothing yet, and owe nothing.
LEMMA BegunInv ==
  ASSUME NEW N, N \subseteq InWorkspace, InWorkspace' = InWorkspace, stage' = [t \in N |-> 1],
         Range(queue') = N, \A t \in N : \A u \in InWorkspace : u.id = t.id => u \in suite', InPlace'
  PROVE  StageInv' /\ DOMAIN stage' = N
<1>1. DOMAIN stage' = N /\ \A t \in N : stage'[t] = 1
  OBVIOUS
<1>2. stage' \in [N -> 0..6]
  OBVIOUS
<1>3. \A n \in Filters : ~(n < 1)
  BY DEF Filters
<1>4. 1 # 0 /\ ~(1 > 2)
  OBVIOUS
<1>5. \A t \in N : /\ stage'[t] # 0 /\ ~(stage'[t] > 2)
                   /\ \A n \in Filters : ~(n < stage'[t])
  BY <1>1, <1>3, <1>4, Zenon
<1> HIDE DEF Filters
<1> QED BY <1>1, <1>2, <1>5 DEF StageInv

\* No test is being filtered.
LEMMA IdleInv ==
  ASSUME queue' = Idle, stage' = Idle
  PROVE  StageInv' /\ DOMAIN stage' = {}
<1>1. DOMAIN <<>> = {} /\ Range(<<>>) = {}
  BY DEF Range
<1>2. DOMAIN stage' = {} /\ stage' \in [DOMAIN stage' -> 0..6] /\ Range(queue') = {}
  BY <1>1 DEF Idle
<1> QED BY <1>2 DEF StageInv

\* FilterRun keeps the books of testgen: what it takes, it lists.
LEMMA BooksInv ==
  ASSUME TestgenInv, ListInv, mode # "ab", UNCHANGED phase, results' = results,
         DOMAIN stage = {}, NEW cands \in Seq(InWorkspace), IsInjective(cands), FilterRun(cands)
  PROVE  /\ ListInv'
         /\ \E N \in SUBSET Range(cands) : /\ stage' = [t \in N |-> 1] /\ Range(queue') = N
                                           /\ \A t \in N : t.id \notin Range(evaluated)
         /\ \A r \in results' : r.id \in Range(evaluated')
         /\ \A t \in DOMAIN stage' : t.id \in Range(evaluated')
         /\ \A id \in Range(evaluated') :
              id \in Ids(DOMAIN stage') \/ id \in Discarded' \/ Complete(id)'
         /\ \A c \in Range(cands) : c.id \in Range(evaluated') \cup Range(notEvaluated')
<1>1. /\ ListInv'
      /\ \A c \in Range(cands) : c.id \in Range(evaluated') \cup Range(notEvaluated')
      /\ Range(evaluated) \subseteq Range(evaluated')
      /\ \E N \in SUBSET Range(cands) :
           /\ stage' = [t \in N |-> 1] /\ Range(evaluated') = Range(evaluated) \cup Ids(N)
           /\ Range(queue') = N /\ \A t \in N : t.id \notin Range(evaluated)
  BY FilterRunFacts, SameInputs
<1>2. PICK N \in SUBSET Range(cands) :
        /\ stage' = [t \in N |-> 1] /\ Range(evaluated') = Range(evaluated) \cup Ids(N)
        /\ Range(queue') = N /\ \A t \in N : t.id \notin Range(evaluated)
  BY <1>1
<1>3. DOMAIN stage' = N
  BY <1>2
<1>4. Discarded' = Discarded /\ \A id : Complete(id)' = Complete(id)
  BY DEF Discarded, Complete
<1>5. \A r \in results' : r.id \in Range(evaluated')
  BY <1>1 DEF TestgenInv
<1>6. \A t \in DOMAIN stage' : t.id \in Range(evaluated')
  BY <1>2, <1>3 DEF Ids
<1>7. ASSUME NEW id \in Range(evaluated')
      PROVE  id \in Ids(DOMAIN stage') \/ id \in Discarded' \/ Complete(id)'
  <2>1. CASE id \in Ids(N)
    BY <1>3, <2>1
  <2>2. CASE id \in Range(evaluated)
    <3>1. Ids(DOMAIN stage) = {}
      BY DEF Ids
    <3> QED BY <1>4, <2>2, <3>1 DEF TestgenInv
  <2> QED BY <1>2, <2>1, <2>2
<1> QED BY <1>1, <1>2, <1>5, <1>6, <1>7

\* Before the filters, no old test of a file that parses is removed, and no test to be filtered.
LEMMA RemainingFacts ==
  ASSUME InputInv, suite = InWorkspace
  PROVE  /\ Remaining = InWorkspace \ (Broken \cup Over)
         /\ \A t \in InWorkspace : t \notin New => (t \in Remaining <=> t \notin Broken)
         /\ \A t \in Range(Within) : \A u \in InWorkspace : u.id = t.id => u \in Remaining
<1>1. /\ Range(Candidates) = New /\ New \subseteq Running \ Old /\ Range(Within) \subseteq New
  BY CandidateFacts
<1>2. Over \subseteq New /\ Over \cap Range(Within) = {}
  BY <1>1 DEF Over
<1>3. ASSUME NEW t \in Range(Within), NEW u \in InWorkspace, u.id = t.id
      PROVE  u \in Remaining
  <2>1. t \in New /\ t \in InWorkspace /\ workspace \in Workspaces
    BY <1>1 DEF New, Live, InputInv
  <2>2. u \notin Broken
    <3>1. u.file = t.file /\ t.file \notin Unparsed
      BY <1>3, <2>1, WorkspaceFacts DEF New
    <3> QED BY <3>1 DEF Broken
  <2>3. u \notin Over
    <3> SUFFICES ASSUME u \in Over PROVE FALSE
      OBVIOUS
    <3>1. u \in Running /\ t \in Running
      BY <1>1, <1>2, <2>1
    <3>2. u = t
      BY <1>3, <2>1, <3>1, OneRuns
    <3> QED BY <1>2, <3>2
  <2> QED BY <2>2, <2>3 DEF Remaining
<1> QED BY <1>2, <1>3 DEF Remaining

\* What the layer leaves before the filters, when nothing is kept yet.
LEMMA SuiteBefore ==
  ASSUME InputInv, suite = InWorkspace, suite' = Remaining, UNCHANGED phase,
         \/ place' = "raised"
         \/ Range(Within) = {} /\ kept' = {}
  PROVE  SuiteAfterLayer'
<1>1. /\ InWorkspace' = InWorkspace /\ Running' = Running /\ Broken' = Broken
  BY SameInputs
<1>2. Range(Candidates) = New /\ \A t \in InWorkspace : t \notin New => (t \in Remaining <=> t \notin Broken)
  BY CandidateFacts, RemainingFacts
<1>3. ASSUME NEW t \in InWorkspace
      PROVE  IF t \in Broken THEN t \notin suite'
             ELSE IF t \in Old \/ t \notin Running \/ ~t.visible THEN t \in suite'
             ELSE place' = "done" => (t \in suite') = (t.id \in kept')
  <2>1. CASE t \in Broken
    BY <2>1 DEF Remaining
  <2>2. CASE t \notin Broken /\ (t \in Old \/ t \notin Running \/ ~t.visible)
    <3>1. t \notin New
      BY <2>2 DEF New, Running
    <3> QED BY <1>2, <2>2, <3>1
  <2>3. CASE t \notin Broken /\ ~(t \in Old \/ t \notin Running \/ ~t.visible) /\ place' = "done"
    <3>1. t \in New
      BY <2>3 DEF New, Running, Broken
    <3>2. t \in Over
      BY <1>2, <2>3, <3>1 DEF Over
    <3> QED BY <2>3, <3>2 DEF Remaining
  <2> QED BY <2>1, <2>2, <2>3
<1> QED BY <1>1, <1>3 DEF SuiteAfterLayer, Running

LEMMA PhaseEndInv ==
  ASSUME FilterInv, PhaseEnd
  PROVE  FilterInv'
<1>1. /\ InputInv /\ ContextInv /\ StageInv /\ ResultsInv /\ LayerInv /\ ListInv /\ TestgenInv
  BY DEF FilterInv
<1>2. /\ place = "phase end" /\ suite' = Remaining
      /\ UNCHANGED <<phase, results, kept, written>>
      /\ NothingToFilter \/ FilterForTestgen \/ FilterInAB \/ SetupFails
  BY DEF PhaseEnd
<1>3. /\ mode' = mode /\ workspace' = workspace /\ cap' = cap
      /\ InWorkspace' = InWorkspace /\ Before' = Before /\ Unparsed' = Unparsed /\ Running' = Running
      /\ \A n, u : Fixed(n, u)' = Fixed(n, u)
      /\ \A m : Survivor(m)' = Survivor(m)
      /\ \A id : Twice(id)' = Twice(id)
      /\ Broken' = Broken /\ Within' = Within /\ Over' = Over
  BY <1>2, SameInputs
<1>4. Discarded' = Discarded /\ \A id : Complete(id)' = Complete(id)
  BY <1>2 DEF Discarded, Complete
<1>5. DOMAIN stage = {}
  BY <1>1, <1>2 DEF StageInv, InPlace
<1>6. /\ New \subseteq Running \ Old /\ Within \in Seq(New) /\ IsInjective(Within)
      /\ Range(Within) \subseteq New /\ (mode # "ab" => Over = {})
  BY <1>1, CandidateFacts
<1>7. New \subseteq InWorkspace /\ Range(Within) \subseteq InWorkspace /\ Within \in Seq(InWorkspace)
  <2>1. New \subseteq InWorkspace
    BY DEF New, Live
  <2> QED BY <1>6, <2>1, SeqOfSubset
<1>8. ResultsInv'
  BY <1>1, <1>2, <1>3 DEF ResultsInv
<1>9. suite' \subseteq InWorkspace
  BY <1>1, <1>2 DEF InputInv, Remaining
<1>10. mode # "ab" => \A t \in InWorkspace : t \notin suite' => t.id \in Discarded \/ t.file \in Unparsed
  BY <1>1, <1>2, <1>6 DEF TestgenInv, Remaining, Broken
<1>11. Apart(evaluated) /\ Apart(notEvaluated)
  BY <1>1 DEF ListInv
<1>12. ASSUME UNCHANGED <<evaluated, notEvaluated>>
       PROVE  ListInv'
  <2>1. Apart(evaluated)' /\ Apart(notEvaluated)'
    BY <1>3, <1>11, <1>12 DEF Apart
  <2> QED BY <1>1, <1>3, <1>12, <2>1 DEF ListInv
<1>13. ASSUME UNCHANGED <<queue, stage>>
       PROVE  StageInv' /\ DOMAIN stage' = {}
  <2>1. stage' = stage /\ queue' = queue /\ DOMAIN stage' = {}
    BY <1>5, <1>13
  <2>2. stage' \in [DOMAIN stage' -> 0..6] /\ Range(queue') \subseteq InWorkspace
    BY <1>1, <2>1 DEF StageInv
  <2> QED BY <1>3, <2>1, <2>2 DEF StageInv
<1>14. CASE NothingToFilter
  <2>1. /\ place' = IF mode = "ab" THEN "done" ELSE "collect"
        /\ Range(Within) = {}
        /\ UNCHANGED <<touched, ctx, queue, stage, evaluated, notEvaluated>>
    BY <1>14 DEF NothingToFilter
  <2>2. InputInv'
    BY <1>1, <1>2, <1>3, <1>9, <2>1 DEF InputInv, Places
  <2>3. ContextInv'
    BY <1>1, <1>2, <1>3, <2>1 DEF ContextInv, Covered
  <2>4. StageInv' /\ ListInv' /\ DOMAIN stage' = {}
    BY <1>12, <1>13, <2>1
  <2>5. TestgenInv'
    <3> SUFFICES ASSUME mode # "ab" PROVE TestgenInv'
      BY <1>3 DEF TestgenInv
    <3>1. place' = "collect"
      BY <2>1
    <3> QED BY <1>1, <1>2, <1>3, <1>4, <1>10, <2>1, <3>1 DEF TestgenInv
  <2>6. LayerInv'
    <3> SUFFICES ASSUME mode = "ab" PROVE LayerInv'
      BY <1>3 DEF LayerInv
    <3>1. place' = "done" /\ kept' = {} /\ suite = InWorkspace
      BY <1>1, <1>2, <2>1 DEF LayerInv
    <3>2. SuiteAfterLayer'
      BY <1>1, <1>2, <2>1, <3>1, SuiteBefore
    <3> QED BY <3>1, <3>2 DEF LayerInv
  <2> QED BY <1>8, <2>2, <2>3, <2>4, <2>5, <2>6 DEF FilterInv
<1>15. CASE FilterForTestgen
  <2>1. /\ FilterRun(Within) /\ place' = "layer filters" /\ mode # "ab" /\ UNCHANGED <<touched, ctx>>
    BY <1>15 DEF FilterForTestgen
  <2>2. /\ ListInv'
        /\ \E N \in SUBSET Range(Within) : /\ stage' = [t \in N |-> 1] /\ Range(queue') = N
                                           /\ \A t \in N : t.id \notin Range(evaluated)
        /\ \A r \in results' : r.id \in Range(evaluated')
        /\ \A t \in DOMAIN stage' : t.id \in Range(evaluated')
        /\ \A id \in Range(evaluated') :
             id \in Ids(DOMAIN stage') \/ id \in Discarded' \/ Complete(id)'
    BY <1>1, <1>2, <1>5, <1>6, <1>7, <2>1, BooksInv
  <2>3. InputInv'
    BY <1>1, <1>2, <1>3, <1>9, <2>1 DEF InputInv, Places
  <2>4. ContextInv'
    BY <1>1, <1>3, <2>1 DEF ContextInv, Covered
  <2>5. PICK N \in SUBSET Range(Within) : /\ stage' = [t \in N |-> 1] /\ Range(queue') = N
                                          /\ \A t \in N : t.id \notin Range(evaluated)
    BY <2>2
  <2>6. ASSUME NEW t \in N, NEW u \in InWorkspace, u.id = t.id
        PROVE  u \in suite'
    <3>1. t \in New /\ t \in InWorkspace /\ u.file = t.file
      BY <1>1, <1>6, <1>7, <2>5, <2>6, WorkspaceFacts DEF InputInv
    <3>2. t.file \notin Unparsed
      BY <3>1 DEF New
    <3>3. u.id \notin Discarded
      BY <1>1, <2>1, <2>5, <2>6 DEF TestgenInv, Discarded
    <3> QED BY <1>10, <2>1, <3>1, <3>2, <3>3
  <2>7. StageInv'
    <3>1. InPlace' /\ N \subseteq InWorkspace
      BY <1>7, <2>1 DEF InPlace
    <3> QED BY <1>3, <2>5, <2>6, <3>1, BegunInv
  <2>8. TestgenInv'
    BY <1>2, <1>3, <1>4, <1>10, <2>1, <2>2 DEF TestgenInv
  <2>9. LayerInv'
    BY <1>3, <2>1 DEF LayerInv
  <2> QED BY <1>8, <2>2, <2>3, <2>4, <2>7, <2>8, <2>9 DEF FilterInv
<1>16. CASE FilterInAB
  <2>1. /\ ctx' = Context(NowInThem, {}) /\ mode = "ab" /\ DeletedHere = {}
        /\ Begin(Within) /\ place' = "layer filters"
        /\ UNCHANGED <<evaluated, notEvaluated>>
    BY <1>16 DEF FilterInAB
  <2>2. suite = InWorkspace /\ kept = {} /\ results = {}
    BY <1>1, <1>2, <2>1 DEF LayerInv
  <2>3. InputInv'
    BY <1>1, <1>2, <1>3, <1>9, <2>1 DEF InputInv, Places
  <2>4. /\ Remaining = InWorkspace \ (Broken \cup Over)
        /\ \A t \in InWorkspace : t \notin New => (t \in Remaining <=> t \notin Broken)
        /\ \A t \in Range(Within) : \A u \in InWorkspace : u.id = t.id => u \in Remaining
    BY <1>1, <2>2, RemainingFacts
  <2>5. ContextInv'
    <3>1. ASSUME NEW t \in Before PROVE t \in NowInThem
      <4>1. t \in Running /\ t \in Old /\ t.visible /\ t \in InWorkspace
        BY <2>1 DEF Before, Running, Live
      <4>2. t.file \in ExistingFiles /\ t.file \in Files(InWorkspace)
        BY <4>1 DEF ExistingFiles, Files
      <4>3. t.file \in Files(Remaining)
        BY <2>1, <4>2 DEF DeletedHere, Emptied
      <4>4. PICK u \in Remaining : u.file = t.file
        BY <4>3 DEF Files
      <4>5. u \in InWorkspace /\ u \notin Broken
        BY <2>4, <4>4
      <4>6. u.visible
        BY <1>1, <4>1, <4>4, <4>5, WorkspaceFacts DEF InputInv
      <4>7. t \in Remaining
        BY <1>6, <2>4, <4>1, <4>4, <4>5, <4>6 DEF Broken
      <4>8. ~\E v \in Remaining : v.id = t.id /\ Later(v, t)
        BY <2>4, <4>1 DEF Running, Live
      <4> QED BY <4>2, <4>7, <4>8 DEF NowInThem, Live
    <3>2. ctx'.lines = Covered(NowInThem) /\ ctx'.survivors = {}
      BY <2>1 DEF Context
    <3>3. Covered(Before) \subseteq Covered(NowInThem)
      BY <3>1 DEF Covered
    <3>4. Covered(Before)' = Covered(Before)
      BY <1>3 DEF Covered
    <3> QED BY <3>2, <3>3, <3>4 DEF ContextInv
  <2>6. StageInv' /\ DOMAIN stage' = Range(Within)
    <3>1. InPlace' /\ stage' = [t \in Range(Within) |-> 1] /\ queue' = Within
      BY <2>1 DEF InPlace, Begin
    <3> QED BY <1>2, <1>3, <1>7, <2>4, <3>1, BegunInv
  <2>7. LayerInv'
    <3>1. SuiteAfterLayer'
      BY <2>1 DEF SuiteAfterLayer
    <3> QED BY <1>2, <1>3, <1>4, <2>1, <2>2, <2>4, <2>6, <3>1 DEF LayerInv
  <2>8. TestgenInv' /\ ListInv'
    BY <1>3, <1>12, <2>1 DEF TestgenInv
  <2> QED BY <1>8, <2>3, <2>5, <2>6, <2>7, <2>8 DEF FilterInv
<1>17. CASE SetupFails
  <2>1. /\ place' = "raised" /\ mode = "ab"
        /\ UNCHANGED <<touched, ctx, queue, stage, evaluated, notEvaluated>>
    BY <1>17 DEF SetupFails
  <2>2. InputInv'
    BY <1>1, <1>2, <1>3, <1>9, <2>1 DEF InputInv, Places
  <2>3. ContextInv'
    BY <1>3, <2>1 DEF ContextInv
  <2>4. StageInv' /\ ListInv'
    BY <1>12, <1>13, <2>1
  <2>5. LayerInv'
    <3>1. kept' = {} /\ suite = InWorkspace
      BY <1>1, <1>2, <2>1 DEF LayerInv
    <3>2. SuiteAfterLayer'
      BY <1>1, <1>2, <2>1, <3>1, SuiteBefore
    <3> QED BY <2>1, <3>1, <3>2 DEF LayerInv
  <2>6. TestgenInv'
    BY <1>3, <2>1 DEF TestgenInv
  <2> QED BY <1>8, <2>2, <2>3, <2>4, <2>5, <2>6 DEF FilterInv
<1> QED BY <1>2, <1>14, <1>15, <1>16, <1>17

LEMMA KeepInv ==
  ASSUME FilterInv, Keep
  PROVE  FilterInv'
<1> DEFINE out == {t \in Range(Within) : t.id \in Discarded}
<1>1. /\ InputInv /\ ContextInv /\ StageInv /\ ResultsInv /\ LayerInv /\ ListInv /\ TestgenInv
  BY DEF FilterInv
<1>2. /\ place = "layer filters" /\ Through /\ queue' = Idle /\ stage' = Idle
      /\ suite' = suite \ out /\ kept' = Ids(Range(Within) \ out)
      /\ place' = IF mode = "ab" THEN "done" ELSE "collect"
      /\ UNCHANGED <<phase, touched, ctx, results, evaluated, notEvaluated, written>>
  BY DEF Keep
<1>3. /\ mode' = mode /\ workspace' = workspace /\ cap' = cap
      /\ InWorkspace' = InWorkspace /\ Before' = Before /\ Unparsed' = Unparsed /\ Running' = Running
      /\ \A n, u : Fixed(n, u)' = Fixed(n, u)
      /\ \A m : Survivor(m)' = Survivor(m)
      /\ \A id : Twice(id)' = Twice(id)
      /\ Broken' = Broken /\ Within' = Within /\ Over' = Over
  BY <1>2, SameInputs
<1>4. Discarded' = Discarded /\ \A id : Complete(id)' = Complete(id)
  BY <1>2 DEF Discarded, Complete
<1>5. /\ Range(Candidates) = New /\ New \subseteq Running \ Old /\ Range(Within) \subseteq New
  BY <1>1, CandidateFacts
<1>6. InputInv'
  BY <1>1, <1>2, <1>3 DEF InputInv, Places
<1>7. ContextInv'
  BY <1>1, <1>2, <1>3 DEF ContextInv, Covered
<1>8. ResultsInv'
  BY <1>1, <1>2, <1>3 DEF ResultsInv
<1>9. ListInv'
  <2>1. Apart(evaluated)' /\ Apart(notEvaluated)'
    BY <1>1, <1>2, <1>3 DEF ListInv, Apart
  <2> QED BY <1>1, <1>2, <1>3, <2>1 DEF ListInv
<1>10. StageInv' /\ DOMAIN stage' = {}
  BY <1>2, IdleInv
<1>11. TestgenInv'
  <2> SUFFICES ASSUME mode # "ab" PROVE TestgenInv'
    BY <1>3 DEF TestgenInv
  <2>1. place' = "collect"
    BY <1>2
  <2>2. \A t \in InWorkspace : t \notin suite' => t.id \in Discarded \/ t.file \in Unparsed
    BY <1>1, <1>2 DEF TestgenInv
  <2>3. \A id \in Range(evaluated) : id \in Discarded \/ Complete(id)
    <3>1. \A id \in Ids(DOMAIN stage) : id \in Discarded \/ Complete(id)
      BY <1>1, <1>2, ThroughMeans DEF Ids
    <3> QED BY <1>1, <3>1 DEF TestgenInv
  <2>4. \A r \in results' : r.id \in Range(evaluated')
    BY <1>1, <1>2 DEF TestgenInv
  <2> QED BY <1>2, <1>3, <1>4, <1>10, <2>1, <2>2, <2>3, <2>4 DEF TestgenInv
<1>12. LayerInv'
  <2> SUFFICES ASSUME mode = "ab" PROVE LayerInv'
    BY <1>3 DEF LayerInv
  <2>1. suite = InWorkspace \ (Broken \cup Over) /\ DOMAIN stage = Range(Within) /\ place' = "done"
    BY <1>1, <1>2 DEF LayerInv
  <2>2. \A id \in kept' : Complete(id)
    <3>1. \A t \in Range(Within) \ out : Complete(t.id)
      BY <1>1, <1>2, <2>1, ThroughMeans
    <3> QED BY <1>2, <3>1 DEF Ids
  <2>3. ASSUME NEW t \in InWorkspace
        PROVE  IF t \in Broken THEN t \notin suite'
               ELSE IF t \in Old \/ t \notin Running \/ ~t.visible THEN t \in suite'
               ELSE (t \in suite') = (t.id \in kept')
    <3> HIDE DEF out
    <3>1. t \in suite' <=> t \notin Broken /\ t \notin Over /\ t \notin out
      BY <1>2, <2>1
    <3>2. out \subseteq Range(Within) /\ Over = New \ Range(Within)
      BY <1>5 DEF out, Over
    <3>3. CASE t \in Broken
      BY <3>1, <3>3
    <3>4. CASE t \notin Broken /\ (t \in Old \/ t \notin Running \/ ~t.visible)
      <4>1. t \notin New
        BY <3>4 DEF New, Running
      <4> QED BY <1>5, <3>1, <3>2, <3>4, <4>1
    <3>5. CASE t \notin Broken /\ ~(t \in Old \/ t \notin Running \/ ~t.visible)
      <4>1. t \in New /\ t \in Running
        BY <3>5 DEF New, Running, Broken
      <4>2. t.id \in kept' <=> t \in Range(Within) /\ t \notin out
        <5>1. ASSUME t.id \in kept' PROVE t \in Range(Within) /\ t \notin out
          <6>1. PICK w \in Range(Within) \ out : w.id = t.id
            BY <1>2, <5>1 DEF Ids
          <6>2. w = t
            BY <1>1, <1>5, <4>1, <6>1, OneRuns DEF InputInv
          <6> QED BY <6>1, <6>2
        <5>2. ASSUME t \in Range(Within), t \notin out PROVE t.id \in kept'
          BY <1>2, <5>2 DEF Ids
        <5> QED BY <5>1, <5>2
      <4>3. t \in suite' <=> t.id \in kept'
        BY <3>1, <3>2, <3>5, <4>1, <4>2
      <4> QED BY <3>5, <4>3
    <3> QED BY <3>3, <3>4, <3>5
  <2>4. SuiteAfterLayer'
    BY <1>3, <2>3 DEF SuiteAfterLayer, Running
  <2> QED BY <1>4, <2>1, <2>2, <2>4 DEF LayerInv
<1> QED BY <1>6, <1>7, <1>8, <1>9, <1>10, <1>11, <1>12 DEF FilterInv

LEMMA CollectInv ==
  ASSUME FilterInv, Collect
  PROVE  FilterInv'
<1>1. /\ InputInv /\ ContextInv /\ StageInv /\ ResultsInv /\ LayerInv /\ ListInv /\ TestgenInv
  BY DEF FilterInv
<1>2. /\ place = "collect" /\ FilterRun(Collected) /\ place' = "testgen filters"
      /\ UNCHANGED <<phase, suite, touched, ctx, results, kept, written>>
  BY DEF Collect
<1>3. /\ mode' = mode /\ workspace' = workspace /\ cap' = cap
      /\ InWorkspace' = InWorkspace /\ Before' = Before /\ Unparsed' = Unparsed /\ Running' = Running
      /\ \A n, u : Fixed(n, u)' = Fixed(n, u)
      /\ \A m : Survivor(m)' = Survivor(m)
  BY <1>2, SameInputs
<1>4. Discarded' = Discarded /\ \A id : Complete(id)' = Complete(id)
  BY <1>2 DEF Discarded, Complete
<1>5. mode # "ab" /\ DOMAIN stage = {}
  BY <1>1, <1>2 DEF InputInv, StageInv, InPlace
<1>6. /\ Collected \in Seq(InWorkspace) /\ IsInjective(Collected)
      /\ \A t \in Range(Collected) : t \in suite /\ (t.file \in Unparsed => ~t.parses)
      /\ \A t \in InWorkspace \ Old : t \in suite /\ t.file \notin Unparsed => t \in Range(Collected)
  BY <1>1, CollectedFacts
<1>7. /\ ListInv'
      /\ \E N \in SUBSET Range(Collected) : /\ stage' = [t \in N |-> 1] /\ Range(queue') = N
                                            /\ \A t \in N : t.id \notin Range(evaluated)
      /\ \A r \in results' : r.id \in Range(evaluated')
      /\ \A t \in DOMAIN stage' : t.id \in Range(evaluated')
      /\ \A id \in Range(evaluated') :
           id \in Ids(DOMAIN stage') \/ id \in Discarded' \/ Complete(id)'
      /\ \A c \in Range(Collected) : c.id \in Range(evaluated') \cup Range(notEvaluated')
  BY <1>1, <1>2, <1>5, <1>6, BooksInv
<1>8. InputInv'
  BY <1>1, <1>2, <1>3, <1>5 DEF InputInv, Places
<1>9. ContextInv' /\ ResultsInv'
  BY <1>1, <1>2, <1>3, <1>5 DEF ContextInv, ResultsInv, Covered
<1>10. PICK N \in SUBSET Range(Collected) : /\ stage' = [t \in N |-> 1] /\ Range(queue') = N
                                            /\ \A t \in N : t.id \notin Range(evaluated)
  BY <1>7
<1>11. N \subseteq InWorkspace /\ N \subseteq suite
  BY <1>1, <1>6 DEF InputInv
<1>12. ASSUME NEW t \in N, NEW u \in InWorkspace, u.id = t.id
       PROVE  u \in suite'
  <2> SUFFICES ASSUME u \notin suite PROVE FALSE
    BY <1>2
  <2>1. u.id \notin Discarded
    BY <1>1, <1>5, <1>10, <1>12 DEF TestgenInv, Discarded
  <2>2. u.file \in Unparsed
    BY <1>1, <1>5, <2>1 DEF TestgenInv
  <2>3. t \in InWorkspace /\ u # t /\ workspace \in Workspaces
    BY <1>1, <1>11 DEF InputInv
  <2>4. u.file = t.file
    BY <1>12, <2>3, WorkspaceFacts
  <2>5. ~t.parses
    BY <1>6, <1>10, <2>2, <2>4
  <2> QED BY <1>12, <2>3, <2>4, <2>5, WorkspaceFacts
<1>13. StageInv'
  <2>1. InPlace'
    BY <1>2 DEF InPlace
  <2> QED BY <1>3, <1>10, <1>11, <1>12, <2>1, BegunInv
<1>14. LayerInv'
  BY <1>3, <1>5 DEF LayerInv
<1>15. ASSUME NEW t \in InWorkspace \ Old, t.file \notin Unparsed
       PROVE  t.id \in Range(evaluated') \cup Range(notEvaluated')
  <2>1. CASE t \in suite
    BY <1>6, <1>7, <1>15, <2>1
  <2>2. CASE t \notin suite
    <3>1. t.id \in Discarded
      BY <1>1, <1>5, <1>15, <2>2 DEF TestgenInv
    <3>2. \E r \in results : r.id = t.id
      BY <3>1 DEF Discarded
    <3> QED BY <1>2, <1>7, <3>2
  <2> QED BY <2>1, <2>2
<1>16. TestgenInv'
  <2>1. \A t \in InWorkspace : t \notin suite' => t.id \in Discarded \/ t.file \in Unparsed
    BY <1>1, <1>2, <1>5 DEF TestgenInv
  <2> QED BY <1>2, <1>3, <1>4, <1>7, <1>15, <2>1 DEF TestgenInv
<1> QED BY <1>7, <1>8, <1>9, <1>13, <1>14, <1>16 DEF FilterInv

LEMMA WriteOutputsInv ==
  ASSUME FilterInv, WriteOutputs
  PROVE  FilterInv'
<1> DEFINE files == Files({x \in suite : x.id \in KeptTests})
           removed == {r.id : r \in results} \ KeptTests
<1>1. /\ InputInv /\ ContextInv /\ StageInv /\ ResultsInv /\ LayerInv /\ ListInv /\ TestgenInv
  BY DEF FilterInv
<1>2. /\ place = "testgen filters" /\ Through /\ kept' = KeptTests
      /\ written' = Ids({x \in suite : x.file \in files /\ x.id \notin removed})
      /\ queue' = Idle /\ stage' = Idle /\ place' = "done"
      /\ UNCHANGED <<phase, suite, touched, ctx, results, evaluated, notEvaluated>>
  BY DEF WriteOutputs
<1>3. /\ mode' = mode /\ workspace' = workspace /\ cap' = cap
      /\ InWorkspace' = InWorkspace /\ Before' = Before /\ Unparsed' = Unparsed /\ Running' = Running
      /\ \A n, u : Fixed(n, u)' = Fixed(n, u)
      /\ \A m : Survivor(m)' = Survivor(m)
      /\ \A id : Twice(id)' = Twice(id)
  BY <1>2, SameInputs
<1>4. Discarded' = Discarded /\ KeptTests' = KeptTests /\ \A id : Complete(id)' = Complete(id)
  BY <1>2 DEF Discarded, KeptTests, Complete
<1>5. mode # "ab"
  BY <1>1, <1>2 DEF InputInv
<1>6. InputInv'
  BY <1>1, <1>2, <1>3, <1>5 DEF InputInv, Places
<1>7. ContextInv' /\ ResultsInv'
  BY <1>1, <1>2, <1>3, <1>5 DEF ContextInv, ResultsInv, Covered
<1>8. ListInv'
  <2>1. Apart(evaluated)' /\ Apart(notEvaluated)'
    BY <1>1, <1>2, <1>3 DEF ListInv, Apart
  <2> QED BY <1>1, <1>2, <1>3, <2>1 DEF ListInv
<1>9. StageInv' /\ DOMAIN stage' = {}
  BY <1>2, IdleInv
<1>10. LayerInv'
  BY <1>3, <1>5 DEF LayerInv
<1>11. ASSUME NEW id \in KeptTests
       PROVE  id \in written'
  <2>1. Complete(id) /\ id \notin Discarded
    BY <1>11, KeptIff
  <2>2. Result(id, 1, TRUE) \in results /\ Result(id, 1, TRUE).id = id
    BY <2>1 DEF Complete, Filters, Result
  <2>3. PICK t \in InWorkspace : t.id = id
    BY <1>1, <2>2 DEF ResultsInv, Ids
  <2>4. PICK u \in Running : u.id = id
    BY <1>1, <2>3, FirstAndLast DEF InputInv
  <2>5. Fixed(1, u)
    <3>1. 1 \in Filters
      BY DEF Filters
    <3>2. Result(u.id, 1, TRUE) \in results
      BY <2>2, <2>4 DEF Result
    <3> QED BY <1>1, <3>1, <3>2 DEF ResultsInv
  <2>6. u.file \notin Unparsed /\ u \in InWorkspace
    BY <2>5, FixedIs DEF Running, Live
  <2>7. u \in suite
    BY <1>1, <1>5, <2>1, <2>4, <2>6 DEF TestgenInv
  <2> QED BY <1>2, <1>11, <2>4, <2>7 DEF Files, Ids
<1>12. written' \cap Discarded = {}
  <2>1. \A id \in Discarded : id \in removed
    BY KeptIff DEF Discarded
  <2> HIDE DEF files, removed
  <2> QED BY <1>2, <2>1 DEF Ids
<1>13. TestgenInv'
  <2>1. \A id \in Range(evaluated) : id \in Discarded \/ Complete(id)
    <3>1. \A id \in Ids(DOMAIN stage) : id \in Discarded \/ Complete(id)
      BY <1>1, <1>2, ThroughMeans DEF Ids
    <3> QED BY <1>1, <1>5, <3>1 DEF TestgenInv
  <2>2. /\ \A t \in InWorkspace : t \notin suite' => t.id \in Discarded \/ t.file \in Unparsed
        /\ \A r \in results' : r.id \in Range(evaluated)
        /\ \A t \in InWorkspace \ Old :
             t.file \notin Unparsed => t.id \in Range(evaluated) \cup Range(notEvaluated)
    BY <1>1, <1>2, <1>5 DEF TestgenInv
  <2>3. kept' = KeptTests' /\ kept' \subseteq written' /\ written' \cap Discarded' = {}
    BY <1>2, <1>4, <1>11, <1>12
  <2> QED BY <1>2, <1>3, <1>4, <1>9, <2>1, <2>2, <2>3 DEF TestgenInv
<1> QED BY <1>6, <1>7, <1>8, <1>9, <1>10, <1>13 DEF FilterInv

LEMMA StutterInv ==
  ASSUME FilterInv, UNCHANGED vars
  PROVE  FilterInv'
<1>1. UNCHANGED <<phase, place, suite, touched, ctx, queue, stage, results, evaluated, notEvaluated,
                  kept, written>>
  BY DEF vars
<1>2. /\ mode' = mode /\ workspace' = workspace /\ cap' = cap
      /\ InWorkspace' = InWorkspace /\ Before' = Before /\ Unparsed' = Unparsed /\ Running' = Running
      /\ \A n, u : Fixed(n, u)' = Fixed(n, u)
      /\ \A m : Survivor(m)' = Survivor(m)
      /\ \A id : Twice(id)' = Twice(id)
      /\ Broken' = Broken /\ Within' = Within /\ Over' = Over
  BY <1>1, SameInputs
<1>3. /\ Discarded' = Discarded /\ KeptTests' = KeptTests /\ \A id : Complete(id)' = Complete(id)
      /\ InPlace' = InPlace
  BY <1>1 DEF Discarded, KeptTests, Complete, InPlace
<1>4. SuiteAfterLayer' = SuiteAfterLayer
  BY <1>1, <1>2 DEF SuiteAfterLayer, Running
<1>5. InputInv' /\ ResultsInv'
  BY <1>1, <1>2 DEF FilterInv, InputInv, ResultsInv
<1>6. ContextInv'
  BY <1>1, <1>2 DEF FilterInv, ContextInv, Covered
<1>7. ListInv'
  <2>1. Apart(evaluated)' /\ Apart(notEvaluated)'
    BY <1>1, <1>2 DEF FilterInv, ListInv, Apart
  <2> QED BY <1>1, <1>2, <2>1 DEF FilterInv, ListInv
<1>8. StageInv'
  BY <1>1, <1>2, <1>3 DEF FilterInv, StageInv
<1>9. LayerInv' /\ TestgenInv'
  BY <1>1, <1>2, <1>3, <1>4 DEF FilterInv, LayerInv, TestgenInv
<1> QED BY <1>5, <1>6, <1>7, <1>8, <1>9 DEF FilterInv

\* Every reachable state of the filters satisfies the invariant, whatever
\* tests the agent wrote and however the pool interleaves them.
THEOREM FiltersInvariant == Spec => []FilterInv
<1>1. Init => FilterInv
  BY InitInv
<1>2. FilterInv /\ [Next]_vars => FilterInv'
  <2> SUFFICES ASSUME FilterInv, [Next]_vars PROVE FilterInv'
    OBVIOUS
  <2>1. CASE PhaseEnd
    BY <2>1, PhaseEndInv
  <2>2. CASE Keep
    BY <2>2, KeepInv
  <2>3. CASE Collect
    BY <2>3, CollectInv
  <2>4. CASE WriteOutputs
    BY <2>4, WriteOutputsInv
  <2>5. ASSUME NEW t \in DOMAIN stage, Evaluate(t) PROVE FilterInv'
    BY <2>5, EvaluateInv
  <2>6. CASE UNCHANGED vars
    BY <2>6, StutterInv
  <2> QED BY <2>1, <2>2, <2>3, <2>4, <2>5, <2>6 DEF Next
<1> QED BY <1>1, <1>2, PTL DEF Spec

\* A test that is kept earned it: it ran and passed, it asserts, it changes no
\* source, and it covers a line or kills a mutant that the baseline's tests do
\* not (P/filters/pipeline.py:36, run_pipeline).
THEOREM KeptEarned == Spec => []KeptTestsEarned
<1>1. FilterInv => KeptTestsEarned
  <2> SUFFICES ASSUME FilterInv, place = "done", NEW t \in Live(InWorkspace), t.id \in Reported
               PROVE  Earned(t)
    BY DEF KeptTestsEarned
  <2>1. Complete(t.id)
    <3>1. CASE mode = "ab"
      BY <3>1 DEF Reported, FilterInv, LayerInv
    <3>2. CASE mode # "ab"
      BY <3>2, KeptIff DEF Reported
    <3> QED BY <3>1, <3>2
  <2>2. \A n \in Filters : Fixed(n, t)
    BY <2>1 DEF FilterInv, ResultsInv, Complete, Running
  <2>3. Fixed(1, t) /\ Fixed(2, t) /\ Fixed(3, t) /\ Fixed(4, t) /\ Fixed(5, t)
    BY <2>2 DEF Filters
  <2>4. /\ t.file \notin Unparsed /\ t.collects /\ "pass" \in t.outcomes /\ t.asserts
        /\ (mode # "ab" => ~t.mocks) /\ ~(t.edits /\ t.collects)
        /\ \/ t.lines \ Covered(Before) # {}
           \/ \E m \in Mutants : Survivor(m) /\ RunMutant(m, {t}) = "killed"
    BY <2>3, FixedIs
  <2>5. ASSUME NEW m \in Mutants, Survivor(m), RunMutant(m, {t}) = "killed"
        PROVE  m.set = "filter" /\ m.id \in t.kills /\ \A o \in Before : m.id \notin o.kills
    <3>1. t.outcomes # {"fail"} /\ t.parses
      BY <2>4 DEF Unparsed, Files, Live
    <3> QED BY <2>4, <2>5, <3>1 DEF RunMutant, Survivor
  <2> QED BY <2>4, <2>5 DEF Earned
<1> QED BY <1>1, FiltersInvariant, PTL

\* Testgen counts every test once, unless the workspace defines it twice, and
\* evaluates no more than its maximum, and writes the tests it kept and none
\* that it discarded (P/testgen/run.py:248, FilterRun.evaluate).
THEOREM TestsCountedOnce == Spec => []CountedOnce
<1>1. FilterInv => CountedOnce
  <2> SUFFICES ASSUME FilterInv, place = "done", mode # "ab" PROVE CountedOnce
    BY DEF CountedOnce
  <2> DEFINE listed == evaluated \o notEvaluated
  <2>1. ListInv /\ TestgenInv /\ StageInv
    BY DEF FilterInv
  <2>2. Apart(listed) /\ Range(listed) = Range(evaluated) \cup Range(notEvaluated)
    BY <2>1, ConcatFacts DEF ListInv
  <2>3. Ids(DOMAIN stage) = {}
    BY <2>1 DEF StageInv, InPlace, Ids
  <2>4. \A id \in Range(evaluated) : (id \in KeptTests) # (id \in Discarded)
    BY <2>1, <2>3, KeptIff DEF TestgenInv
  <2> HIDE DEF listed
  <2>5. /\ \A t \in InWorkspace \ Old : t.file \notin Unparsed => t.id \in Range(listed)
        /\ kept \subseteq written /\ written \cap Discarded = {}
    BY <2>1, <2>2 DEF TestgenInv
  <2>6. Len(evaluated) <= MaxTests
    BY <2>1 DEF ListInv
  <2> QED BY <2>2, <2>4, <2>5, <2>6 DEF CountedOnce, Apart, listed
<1> QED BY <1>1, FiltersInvariant, PTL

\* The layer removes what it discards and the files it cannot parse, and every
\* other test stays, also when its hook raises (P/harness/verify/layer.py:294,
\* on_phase_end).
THEOREM SuiteKept == Spec => []SuiteAfterLayer
<1>1. FilterInv => SuiteAfterLayer
  BY DEF FilterInv, LayerInv, SuiteAfterLayer
<1> QED BY <1>1, FiltersInvariant, PTL

=============================================================================
