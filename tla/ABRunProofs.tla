----------------------------- MODULE ABRunProofs ----------------------------
(***************************************************************************)
(* ABRun's types and lock, that both arms are judged with one baseline,    *)
(* that a verdict keeps its primary verdict, and that no container         *)
(* outlives run_ab: for any arms, and any removals that may fail.          *)
(***************************************************************************)
EXTENDS ABRun, TLAPS

\* How far the caller, the baseline's thread and the arms have come.
Progress ==
  /\ at[Thread] \in Computing \cup {"want", "over"}
  /\ \A a \in Arms : at[a] # "over"
  /\ main \in {"open", "refused", "previews"} => \A a \in Arms : at[a] = "waiting"
  /\ main \in {"stop", "write", "returned", "raised"} => \A a \in Arms : at[a] \in Finished
  /\ main \in {"write", "returned", "raised"} => at[Thread] = "over" /\ toStop = {}

\* The containers that run, but for those whose removal has failed.
Held == live \ lost

\* Each is one that its thread, or the caller, has yet to remove.
Accounted ==
  \A w \in Workers :
    /\ Box("arm", w) \in Held => at[w] \in {"agent", "stop", "stopRaising"}
    /\ Box("referee", w) \in Held => at[w] \in Closing \cup {"first", "second"}
    /\ Box("baseline", w) \in Held => at[w] = "compute"
    /\ Box("preview", w) \in Held => main \in {"arms", "stop"} /\ w \in toStop \cap previewing

\* Nobody computes a baseline that is known; arms are judged with the known one.
Known ==
  /\ \A w \in Workers : at[w] \in {"export", "compute"} => baseline = Nobody
  /\ \A a \in Arms : used[a] # Nobody => used[a] = baseline

BeforeFirst == Computing \cup
  {"waiting", "setup", "agent", "stop", "stopRaising", "ended", "want", "judge", "first"}

\* What an arm has been told so far, by where its judging is.
Told ==
  \A a \in Arms :
    /\ primary[a] = <<>> \/ Len(primary[a]) = 1
    /\ at[a] \in BeforeFirst => primary[a] = <<>>
    /\ at[a] \in {"second", "close", "record"} =>
         primary[a] = <<IF passes[a] THEN "pass" ELSE "fail">>
    /\ verdict[a] # "unsent" => Len(primary[a]) = 1 /\ at[a] \in {"judged", "raised"}
    /\ verdict[a] = "pass" => primary[a] = <<"pass">>

IInv == TypeOK /\ Progress /\ Accounted /\ Known /\ Told

-----------------------------------------------------------------------------
Kinds == {"arm", "referee", "baseline", "preview"}

\* Boxes of other kinds or of other workers are other boxes.
LEMMA BoxesDiffer ==
  \A j, k \in Kinds, v, w \in Workers : Box(j, v) = Box(k, w) => j = k /\ v = w
  BY DEF Box

LEMMA BoxesTypes == \A k \in Kinds, w \in Workers : Box(k, w) \in Boxes
  BY DEF Box, Boxes, Kinds

\* What a start adds, whether it succeeds or not.
LEMMA BoxesStart ==
  ASSUME TypeOK, NEW k \in Kinds, NEW w \in Workers
  PROVE  /\ Starts(Box(k, w)) => /\ live' \in SUBSET Boxes /\ lost' \in SUBSET Boxes
                                 /\ Held' \subseteq Held \cup {Box(k, w)}
         /\ StartFails(Box(k, w)) => /\ live' \in SUBSET Boxes /\ lost' \in SUBSET Boxes
                                     /\ Held' \subseteq Held
  BY BoxesTypes DEF TypeOK, Starts, StartFails, Held, containers

\* After a stop the container is removed, or its removal has failed.
LEMMA BoxesStop ==
  ASSUME TypeOK, NEW k \in Kinds, NEW w \in Workers,
         Removes(Box(k, w)) \/ RemovalFails(Box(k, w))
  PROVE  /\ live' \in SUBSET Boxes /\ lost' \in SUBSET Boxes
         /\ Held' \subseteq Held \ {Box(k, w)}
  BY BoxesTypes DEF TypeOK, Removes, RemovalFails, Held

LEMMA BoxesKept == UNCHANGED <<live, lost>> => Held' = Held
  BY DEF Held

\* announce sends its event only if none was sent.
LEMMA AnnouncedFacts ==
  ASSUME TypeOK, NEW a \in Arms, NEW p \in {"pass", "fail"}
  PROVE  /\ Announced(a, p) \in Seq({"pass", "fail"})
         /\ primary[a] = <<>> \/ Len(primary[a]) = 1 => Len(Announced(a, p)) = 1
         /\ primary[a] = <<>> => Announced(a, p) = <<p>>
         /\ primary[a] # <<>> => Announced(a, p) = primary[a]
<1>1. primary[a] \in Seq({"pass", "fail"})
  BY DEF TypeOK
<1>2. CASE primary[a] = <<>>
  <2>1. Announced(a, p) = <<p>>
    BY <1>2 DEF Announced
  <2>2. <<p>> \in Seq({"pass", "fail"}) /\ Len(<<p>>) = 1
    OBVIOUS
  <2> QED BY <1>2, <2>1, <2>2
<1>3. CASE primary[a] # <<>>
  <2>1. Announced(a, p) = primary[a]
    BY <1>3 DEF Announced
  <2> QED BY <1>1, <1>3, <2>1
<1> QED
  BY <1>2, <1>3

-----------------------------------------------------------------------------
LEMMA InitIInv == Init => IInv
<1> SUFFICES ASSUME Init PROVE IInv
  OBVIOUS
<1> USE ABAssumption DEF Init, Workers
<1>1. TypeOK
  <2>1. /\ at \in [Workers -> Places] /\ live \in SUBSET Boxes /\ lost \in SUBSET Boxes
        /\ holder \in Workers \cup {Nobody} /\ baseline \in Workers \cup {Nobody, "cached", "none"}
    BY DEF Places
  <2>2. \A w \in Workers : at[w] \in Computing <=> holder = w
    <3>1. \A w \in Workers : at[w] \notin Computing /\ holder # w
      BY DEF Computing
    <3> QED BY <3>1
  <2>3. /\ used \in [Arms -> Workers \cup {Nobody, "cached", "none"}]
        /\ passes \in [Arms -> BOOLEAN]
        /\ primary \in [Arms -> Seq({"pass", "fail"})]
        /\ verdict \in [Arms -> {"unsent", "pass", "fail"}]
    BY DEF Init
  <2> QED BY <2>1, <2>2, <2>3 DEF TypeOK
<1>2. Progress /\ Accounted /\ Known
  BY DEF Progress, Accounted, Known, Held
<1>3. Told
  <2>1. \A a \in Arms : /\ at[a] = "waiting" /\ primary[a] = <<>> /\ verdict[a] = "unsent"
    BY DEF Init
  <2> QED BY <2>1 DEF Told
<1> QED
  BY <1>1, <1>2, <1>3 DEF IInv

\* Every action keeps the invariant.
LEMMA NextIInv == IInv /\ [Next]_vars => IInv'
<1> SUFFICES ASSUME IInv, [Next]_vars PROVE IInv'
  OBVIOUS
<1> USE ABAssumption DEF Workers, IInv, Places, Computing, Closing, Finished, BeforeFirst, Kinds,
        baselines, judgement, previews, containers
<1>1. CASE OpenLog
  <2>1. TypeOK'
    BY <1>1 DEF OpenLog, TypeOK
  <2>2. Progress'
    BY <1>1 DEF OpenLog, TypeOK, Progress
  <2>3. Accounted'
    BY <1>1, BoxesKept DEF OpenLog, TypeOK, Progress, Accounted
  <2>4. Known'
    BY <1>1 DEF OpenLog, TypeOK, Known
  <2>5. Told'
    BY <1>1 DEF OpenLog, TypeOK, Progress, Told
  <2> QED BY <2>1, <2>2, <2>3, <2>4, <2>5
<1>2. CASE StartPreviews
  <2>1. TypeOK'
    <3>1. at' \in [Workers -> Places]
      BY <1>2 DEF StartPreviews, TypeOK
    <3>2. \A v \in Workers : at'[v] \in Computing <=> holder' = v
      <4>1. at'[Thread] = at[Thread] /\ \A a \in Arms : at'[a] = "setup" /\ at[a] = "waiting"
        BY <1>2 DEF StartPreviews, TypeOK, Progress
      <4> QED BY <1>2, <4>1 DEF StartPreviews, TypeOK
    <3>3. live' \in SUBSET Boxes /\ lost' \in SUBSET Boxes
      BY <1>2 DEF StartPreviews, TypeOK, Boxes
    <3> QED
      BY <1>2, <3>1, <3>2, <3>3 DEF StartPreviews, TypeOK
  <2>2. Progress'
    BY <1>2 DEF StartPreviews, TypeOK, Progress
  <2>3. Accounted'
    <3>1. PICK some \in SUBSET Arms, left \in SUBSET Arms :
            /\ left \cap some = {} /\ toStop' = some /\ previewing' = some
            /\ live' = live \cup ({"preview"} \X (some \cup left))
            /\ lost' = lost \cup ({"preview"} \X left)
      BY <1>2 DEF StartPreviews
    <3>2. \A j \in Kinds, v \in Workers :
            Box(j, v) \in Held' => Box(j, v) \in Held \/ (j = "preview" /\ v \in some)
      BY <3>1 DEF Held, Box
    <3>3. \A v \in Workers, j \in {"arm", "referee", "preview"} : Box(j, v) \notin Held
      BY <1>2 DEF StartPreviews, Progress, Accounted
    <3>4. at'[Thread] = at[Thread]
      BY <1>2 DEF StartPreviews
    <3>5. \A v \in Workers : Box("baseline", v) \in Held => v = Thread
      BY <1>2 DEF StartPreviews, Progress, Accounted
    <3> QED
      BY <1>2, <3>1, <3>2, <3>3, <3>4, <3>5 DEF StartPreviews, Accounted
  <2>4. Known'
    BY <1>2 DEF StartPreviews, TypeOK, Known
  <2>5. Told'
    BY <1>2 DEF StartPreviews, TypeOK, Progress, Told
  <2> QED BY <2>1, <2>2, <2>3, <2>4, <2>5
<1>3. CASE JoinArms
  <2>1. TypeOK'
    BY <1>3 DEF JoinArms, TypeOK
  <2>2. Progress'
    BY <1>3 DEF JoinArms, TypeOK, Progress
  <2>3. Accounted'
    BY <1>3, BoxesKept DEF JoinArms, TypeOK, Progress, Accounted
  <2>4. Known'
    BY <1>3 DEF JoinArms, TypeOK, Known
  <2>5. Told'
    BY <1>3 DEF JoinArms, TypeOK, Progress, Told
  <2> QED BY <2>1, <2>2, <2>3, <2>4, <2>5
<1>4. CASE JoinThread
  <2>1. TypeOK'
    BY <1>4 DEF JoinThread, TypeOK
  <2>2. Progress'
    BY <1>4 DEF JoinThread, TypeOK, Progress
  <2>3. Accounted'
    BY <1>4, BoxesKept DEF JoinThread, TypeOK, Progress, Accounted
  <2>4. Known'
    BY <1>4 DEF JoinThread, TypeOK, Known
  <2>5. Told'
    BY <1>4 DEF JoinThread, TypeOK, Progress, Told
  <2> QED BY <2>1, <2>2, <2>3, <2>4, <2>5
<1>5. CASE WriteRecord
  <2>1. TypeOK'
    BY <1>5 DEF WriteRecord, TypeOK
  <2>2. Progress'
    BY <1>5 DEF WriteRecord, TypeOK, Progress
  <2>3. Accounted'
    BY <1>5, BoxesKept DEF WriteRecord, TypeOK, Progress, Accounted
  <2>4. Known'
    BY <1>5 DEF WriteRecord, TypeOK, Known
  <2>5. Told'
    BY <1>5 DEF WriteRecord, TypeOK, Progress, Told
  <2> QED BY <2>1, <2>2, <2>3, <2>4, <2>5
<1>6. ASSUME NEW a \in Arms, StopPreview(a) PROVE IInv'
  <2>0. /\ live' \in SUBSET Boxes /\ lost' \in SUBSET Boxes
        /\ Held' \subseteq Held
        /\ a \in previewing => Held' \subseteq Held \ {Box("preview", a)}
    BY <1>6, BoxesStop, BoxesKept DEF StopPreview, TypeOK
  <2>9. \A j \in Kinds, v \in Workers : Box(j, v) \in Held' =>
          Box(j, v) \in Held /\ ~(j = "preview" /\ v = a /\ a \in previewing)
    BY <2>0
  <2>1. TypeOK'
    BY <1>6, <2>0 DEF StopPreview, TypeOK
  <2>2. Progress'
    BY <1>6 DEF StopPreview, TypeOK, Progress
  <2>3. Accounted'
    <3> SUFFICES ASSUME NEW v \in Workers
        PROVE  /\ Box("arm", v) \in Held' => at'[v] \in {"agent", "stop", "stopRaising"}
               /\ Box("referee", v) \in Held' => at'[v] \in Closing \cup {"first", "second"}
               /\ Box("baseline", v) \in Held' => at'[v] = "compute"
               /\ Box("preview", v) \in Held' => main' \in {"arms", "stop"} /\ v \in (toStop \cap previewing)'
      BY DEF Accounted
    <3>1. v # a => at'[v] = at[v]
      BY <1>6 DEF StopPreview, TypeOK
    <3> QED
      BY <1>6, <2>9, <3>1 DEF StopPreview, TypeOK, Progress, Accounted
  <2>4. Known'
    BY <1>6 DEF StopPreview, TypeOK, Known
  <2>5. Told'
    BY <1>6 DEF StopPreview, TypeOK, Progress, Told
  <2> QED BY <2>1, <2>2, <2>3, <2>4, <2>5
<1>7. ASSUME NEW w \in Workers, GetBaseline(w) PROVE IInv'
  <2>1. TypeOK'
    BY <1>7 DEF GetBaseline, Goto, Return, TypeOK
  <2>2. Progress'
    BY <1>7 DEF GetBaseline, Goto, Return, TypeOK, Progress
  <2>3. Accounted'
    BY <1>7, BoxesKept DEF GetBaseline, Goto, Return, TypeOK, Progress, Accounted
  <2>4. Known'
    BY <1>7 DEF GetBaseline, Goto, Return, TypeOK, Known
  <2>5. Told'
    BY <1>7 DEF GetBaseline, Goto, Return, TypeOK, Progress, Told
  <2> QED BY <2>1, <2>2, <2>3, <2>4, <2>5
<1>8. ASSUME NEW w \in Workers, StartBaseline(w) PROVE IInv'
  <2>0. /\ live' \in SUBSET Boxes /\ lost' \in SUBSET Boxes
        /\ Held' \subseteq Held \cup {Box("baseline", w)}
        /\ at'[w] # "compute" => Held' \subseteq Held
    BY <1>8, BoxesStart, BoxesKept DEF StartBaseline, Goto, Return, Raise, TypeOK
  <2>9. \A j \in Kinds, v \in Workers : Box(j, v) \in Held' =>
          Box(j, v) \in Held \/ (j = "baseline" /\ v = w /\ at'[w] = "compute")
    <3> SUFFICES ASSUME NEW j \in Kinds, NEW v \in Workers, Box(j, v) \in Held',
                        Box(j, v) \notin Held
        PROVE j = "baseline" /\ v = w /\ at'[w] = "compute"
      OBVIOUS
    <3>1. at'[w] = "compute" /\ Box(j, v) = Box("baseline", w)
      BY <2>0
    <3>2. "baseline" \in Kinds /\ w \in Workers
      OBVIOUS
    <3> QED
      BY <3>1, <3>2, BoxesDiffer
  <2>1. TypeOK'
    <3>1. at' \in [Workers -> Places]
      BY <1>8 DEF StartBaseline, Goto, Return, Raise, TypeOK
    <3>2. \A v \in Workers : at'[v] \in Computing <=> holder' = v
      BY <1>8 DEF StartBaseline, Goto, Return, Raise, TypeOK
    <3>3. used' \in [Arms -> Workers \cup {Nobody, "cached", "none"}]
      BY <1>8 DEF StartBaseline, Goto, Return, Raise, TypeOK
    <3>4. primary' \in [Arms -> Seq({"pass", "fail"})]
      BY <1>8 DEF StartBaseline, Goto, Return, Raise, TypeOK
    <3>5. passes' \in [Arms -> BOOLEAN] /\ verdict' \in [Arms -> {"unsent", "pass", "fail"}]
      BY <1>8 DEF StartBaseline, Goto, Return, Raise, TypeOK
    <3>6. /\ main' \in {"open", "refused", "previews", "arms", "stop", "write", "returned", "raised"}
          /\ failing' \in BOOLEAN
          /\ holder' \in Workers \cup {Nobody}
          /\ baseline' \in Workers \cup {Nobody, "cached", "none"}
          /\ previewing' \in SUBSET Arms /\ toStop' \in SUBSET Arms
      BY <1>8 DEF StartBaseline, Goto, Return, Raise, TypeOK
    <3>7. live' \in SUBSET Boxes /\ lost' \in SUBSET Boxes
      BY <2>0
    <3> QED
      BY <3>1, <3>2, <3>3, <3>4, <3>5, <3>6, <3>7 DEF TypeOK
  <2>2. Progress'
    BY <1>8, ZenonT(90) DEF StartBaseline, Goto, Return, Raise, TypeOK, Progress
  <2>3. Accounted'
    <3> SUFFICES ASSUME NEW v \in Workers
        PROVE  /\ Box("arm", v) \in Held' => at'[v] \in {"agent", "stop", "stopRaising"}
               /\ Box("referee", v) \in Held' => at'[v] \in Closing \cup {"first", "second"}
               /\ Box("baseline", v) \in Held' => at'[v] = "compute"
               /\ Box("preview", v) \in Held' => main' \in {"arms", "stop"} /\ v \in (toStop \cap previewing)'
      BY DEF Accounted
    <3>1. v # w => at'[v] = at[v]
      BY <1>8 DEF StartBaseline, Goto, Return, Raise, TypeOK
    <3> QED
      BY <1>8, <2>9, <3>1 DEF StartBaseline, Goto, Return, Raise, TypeOK, Progress, Accounted
  <2>4. Known'
    <3>1. baseline = Nobody /\ \A a \in Arms : used[a] = Nobody
      BY <1>8 DEF StartBaseline, TypeOK, Known
    <3>2. \A v \in Workers : v # w => at[v] \notin {"export", "compute"} /\ at'[v] = at[v]
      BY <1>8 DEF StartBaseline, Goto, Return, Raise, TypeOK
    <3>3. baseline' # Nobody => at'[w] \notin {"export", "compute"}
      <4>1. CASE Starts(Box("baseline", w)) /\ UNCHANGED baselines
        BY <4>1, <3>1
      <4>2. CASE Return(w) \/ Raise(w)
        BY <4>2 DEF Goto, Return, Raise, TypeOK
      <4> QED
        BY <1>8, <4>1, <4>2 DEF StartBaseline
    <3> QED
      BY <1>8, <3>1, <3>2, <3>3 DEF StartBaseline, Known
  <2>5. Told'
    BY <1>8 DEF StartBaseline, Goto, Return, Raise, TypeOK, Progress, Told
  <2> QED BY <2>1, <2>2, <2>3, <2>4, <2>5
<1>9. ASSUME NEW w \in Workers, ComputeBaseline(w) PROVE IInv'
  <2>0. /\ live' \in SUBSET Boxes /\ lost' \in SUBSET Boxes
        /\ Held' \subseteq Held \ {Box("baseline", w)}
    BY <1>9, BoxesStop, BoxesKept DEF ComputeBaseline, Goto, Return, Raise, TypeOK
  <2>9. \A j \in Kinds, v \in Workers : Box(j, v) \in Held' =>
          Box(j, v) \in Held /\ ~(j = "baseline" /\ v = w)
    BY <2>0
  <2>1. TypeOK'
    <3>1. at' \in [Workers -> Places]
      BY <1>9 DEF ComputeBaseline, Goto, Return, Raise, TypeOK
    <3>2. \A v \in Workers : at'[v] \in Computing <=> holder' = v
      BY <1>9 DEF ComputeBaseline, Goto, Return, Raise, TypeOK
    <3>3. used' \in [Arms -> Workers \cup {Nobody, "cached", "none"}]
      BY <1>9 DEF ComputeBaseline, Goto, Return, Raise, TypeOK
    <3>4. primary' \in [Arms -> Seq({"pass", "fail"})]
      BY <1>9 DEF ComputeBaseline, Goto, Return, Raise, TypeOK
    <3>5. passes' \in [Arms -> BOOLEAN] /\ verdict' \in [Arms -> {"unsent", "pass", "fail"}]
      BY <1>9 DEF ComputeBaseline, Goto, Return, Raise, TypeOK
    <3>6. /\ main' \in {"open", "refused", "previews", "arms", "stop", "write", "returned", "raised"}
          /\ failing' \in BOOLEAN
          /\ holder' \in Workers \cup {Nobody}
          /\ baseline' \in Workers \cup {Nobody, "cached", "none"}
          /\ previewing' \in SUBSET Arms /\ toStop' \in SUBSET Arms
      BY <1>9 DEF ComputeBaseline, Goto, Return, Raise, TypeOK
    <3>7. live' \in SUBSET Boxes /\ lost' \in SUBSET Boxes
      BY <2>0
    <3> QED
      BY <3>1, <3>2, <3>3, <3>4, <3>5, <3>6, <3>7 DEF TypeOK
  <2>2. Progress'
    BY <1>9, ZenonT(90) DEF ComputeBaseline, Goto, Return, Raise, TypeOK, Progress
  <2>3. Accounted'
    <3> SUFFICES ASSUME NEW v \in Workers
        PROVE  /\ Box("arm", v) \in Held' => at'[v] \in {"agent", "stop", "stopRaising"}
               /\ Box("referee", v) \in Held' => at'[v] \in Closing \cup {"first", "second"}
               /\ Box("baseline", v) \in Held' => at'[v] = "compute"
               /\ Box("preview", v) \in Held' => main' \in {"arms", "stop"} /\ v \in (toStop \cap previewing)'
      BY DEF Accounted
    <3>1. v # w => at'[v] = at[v]
      BY <1>9 DEF ComputeBaseline, Goto, Return, Raise, TypeOK
    <3> QED
      BY <1>9, <2>9, <3>1 DEF ComputeBaseline, Goto, Return, Raise, TypeOK, Progress, Accounted
  <2>4. Known'
    BY <1>9 DEF ComputeBaseline, Goto, Return, Raise, TypeOK, Known
  <2>5. Told'
    BY <1>9 DEF ComputeBaseline, Goto, Return, Raise, TypeOK, Progress, Told
  <2> QED BY <2>1, <2>2, <2>3, <2>4, <2>5
<1>10. ASSUME NEW w \in Workers, SaveBaseline(w) PROVE IInv'
  <2>1. TypeOK'
    BY <1>10 DEF SaveBaseline, Goto, Return, Raise, TypeOK
  <2>2. Progress'
    BY <1>10 DEF SaveBaseline, Goto, Return, Raise, TypeOK, Progress
  <2>3. Accounted'
    BY <1>10, BoxesKept DEF SaveBaseline, Goto, Return, Raise, TypeOK, Progress, Accounted
  <2>4. Known'
    BY <1>10 DEF SaveBaseline, Goto, Return, Raise, TypeOK, Known
  <2>5. Told'
    BY <1>10 DEF SaveBaseline, Goto, Return, Raise, TypeOK, Progress, Told
  <2> QED BY <2>1, <2>2, <2>3, <2>4, <2>5
<1>11. ASSUME NEW a \in Arms, Setup(a) PROVE IInv'
  <2>0. /\ live' \in SUBSET Boxes /\ lost' \in SUBSET Boxes
        /\ Held' \subseteq Held \cup {Box("arm", a)}
        /\ at'[a] # "agent" => Held' \subseteq Held
    BY <1>11, BoxesStart, BoxesKept DEF Setup, Goto, TypeOK
  <2>9. \A j \in Kinds, v \in Workers : Box(j, v) \in Held' =>
          Box(j, v) \in Held \/ (j = "arm" /\ v = a /\ at'[a] = "agent")
    <3> SUFFICES ASSUME NEW j \in Kinds, NEW v \in Workers, Box(j, v) \in Held',
                        Box(j, v) \notin Held
        PROVE j = "arm" /\ v = a /\ at'[a] = "agent"
      OBVIOUS
    <3>1. at'[a] = "agent" /\ Box(j, v) = Box("arm", a)
      BY <2>0
    <3>2. "arm" \in Kinds /\ a \in Workers
      OBVIOUS
    <3> QED
      BY <3>1, <3>2, BoxesDiffer
  <2>1. TypeOK'
    <3>1. at' \in [Workers -> Places]
      BY <1>11 DEF Setup, Goto, TypeOK
    <3>2. \A v \in Workers : at'[v] \in Computing <=> holder' = v
      BY <1>11 DEF Setup, Goto, TypeOK
    <3>3. used' \in [Arms -> Workers \cup {Nobody, "cached", "none"}]
      BY <1>11 DEF Setup, Goto, TypeOK
    <3>4. primary' \in [Arms -> Seq({"pass", "fail"})]
      BY <1>11 DEF Setup, Goto, TypeOK
    <3>5. passes' \in [Arms -> BOOLEAN] /\ verdict' \in [Arms -> {"unsent", "pass", "fail"}]
      BY <1>11 DEF Setup, Goto, TypeOK
    <3>6. /\ main' \in {"open", "refused", "previews", "arms", "stop", "write", "returned", "raised"}
          /\ failing' \in BOOLEAN
          /\ holder' \in Workers \cup {Nobody}
          /\ baseline' \in Workers \cup {Nobody, "cached", "none"}
          /\ previewing' \in SUBSET Arms /\ toStop' \in SUBSET Arms
      BY <1>11 DEF Setup, Goto, TypeOK
    <3>7. live' \in SUBSET Boxes /\ lost' \in SUBSET Boxes
      BY <2>0
    <3> QED
      BY <3>1, <3>2, <3>3, <3>4, <3>5, <3>6, <3>7 DEF TypeOK
  <2>2. Progress'
    BY <1>11 DEF Setup, Goto, TypeOK, Progress
  <2>3. Accounted'
    <3> SUFFICES ASSUME NEW v \in Workers
        PROVE  /\ Box("arm", v) \in Held' => at'[v] \in {"agent", "stop", "stopRaising"}
               /\ Box("referee", v) \in Held' => at'[v] \in Closing \cup {"first", "second"}
               /\ Box("baseline", v) \in Held' => at'[v] = "compute"
               /\ Box("preview", v) \in Held' => main' \in {"arms", "stop"} /\ v \in (toStop \cap previewing)'
      BY DEF Accounted
    <3>1. v # a => at'[v] = at[v]
      BY <1>11 DEF Setup, Goto, TypeOK
    <3> QED
      BY <1>11, <2>9, <3>1 DEF Setup, Goto, TypeOK, Progress, Accounted
  <2>4. Known'
    BY <1>11 DEF Setup, Goto, TypeOK, Known
  <2>5. Told'
    BY <1>11 DEF Setup, Goto, TypeOK, Progress, Told
  <2> QED BY <2>1, <2>2, <2>3, <2>4, <2>5
<1>12. ASSUME NEW a \in Arms, RunAgent(a) PROVE IInv'
  <2>1. TypeOK'
    BY <1>12 DEF RunAgent, Goto, TypeOK
  <2>2. Progress'
    BY <1>12 DEF RunAgent, Goto, TypeOK, Progress
  <2>3. Accounted'
    BY <1>12, BoxesKept DEF RunAgent, Goto, TypeOK, Progress, Accounted
  <2>4. Known'
    BY <1>12 DEF RunAgent, Goto, TypeOK, Known
  <2>5. Told'
    BY <1>12 DEF RunAgent, Goto, TypeOK, Progress, Told
  <2> QED BY <2>1, <2>2, <2>3, <2>4, <2>5
<1>13. ASSUME NEW a \in Arms, StopArm(a) PROVE IInv'
  <2>0. /\ live' \in SUBSET Boxes /\ lost' \in SUBSET Boxes
        /\ Held' \subseteq Held \ {Box("arm", a)}
    BY <1>13, BoxesStop, BoxesKept DEF StopArm, Goto, TypeOK
  <2>9. \A j \in Kinds, v \in Workers : Box(j, v) \in Held' =>
          Box(j, v) \in Held /\ ~(j = "arm" /\ v = a)
    BY <2>0
  <2>1. TypeOK'
    BY <1>13, <2>0 DEF StopArm, Goto, TypeOK
  <2>2. Progress'
    BY <1>13 DEF StopArm, Goto, TypeOK, Progress
  <2>3. Accounted'
    <3> SUFFICES ASSUME NEW v \in Workers
        PROVE  /\ Box("arm", v) \in Held' => at'[v] \in {"agent", "stop", "stopRaising"}
               /\ Box("referee", v) \in Held' => at'[v] \in Closing \cup {"first", "second"}
               /\ Box("baseline", v) \in Held' => at'[v] = "compute"
               /\ Box("preview", v) \in Held' => main' \in {"arms", "stop"} /\ v \in (toStop \cap previewing)'
      BY DEF Accounted
    <3>1. v # a => at'[v] = at[v]
      BY <1>13 DEF StopArm, Goto, TypeOK
    <3> QED
      BY <1>13, <2>9, <3>1 DEF StopArm, Goto, TypeOK, Progress, Accounted
  <2>4. Known'
    BY <1>13 DEF StopArm, Goto, TypeOK, Known
  <2>5. Told'
    BY <1>13 DEF StopArm, Goto, TypeOK, Progress, Told
  <2> QED BY <2>1, <2>2, <2>3, <2>4, <2>5
<1>14. ASSUME NEW a \in Arms, JoinBaseline(a) PROVE IInv'
  <2>1. TypeOK'
    BY <1>14 DEF JoinBaseline, Goto, TypeOK
  <2>2. Progress'
    BY <1>14 DEF JoinBaseline, Goto, TypeOK, Progress
  <2>3. Accounted'
    BY <1>14, BoxesKept DEF JoinBaseline, Goto, TypeOK, Progress, Accounted
  <2>4. Known'
    BY <1>14 DEF JoinBaseline, Goto, TypeOK, Known
  <2>5. Told'
    BY <1>14 DEF JoinBaseline, Goto, TypeOK, Progress, Told
  <2> QED BY <2>1, <2>2, <2>3, <2>4, <2>5
<1>15. ASSUME NEW a \in Arms, Judge(a) PROVE IInv'
  <2>0. /\ live' \in SUBSET Boxes /\ lost' \in SUBSET Boxes
        /\ Held' \subseteq Held \cup {Box("referee", a)}
        /\ at'[a] # "first" => Held' \subseteq Held
    BY <1>15, BoxesStart, BoxesKept DEF Judge, Goto, TypeOK
  <2>9. \A j \in Kinds, v \in Workers : Box(j, v) \in Held' =>
          Box(j, v) \in Held \/ (j = "referee" /\ v = a /\ at'[a] = "first")
    <3> SUFFICES ASSUME NEW j \in Kinds, NEW v \in Workers, Box(j, v) \in Held',
                        Box(j, v) \notin Held
        PROVE j = "referee" /\ v = a /\ at'[a] = "first"
      OBVIOUS
    <3>1. at'[a] = "first" /\ Box(j, v) = Box("referee", a)
      BY <2>0
    <3>2. "referee" \in Kinds /\ a \in Workers
      OBVIOUS
    <3> QED
      BY <3>1, <3>2, BoxesDiffer
  <2>1. TypeOK'
    <3>1. at' \in [Workers -> Places]
      BY <1>15 DEF Judge, Goto, TypeOK
    <3>2. \A v \in Workers : at'[v] \in Computing <=> holder' = v
      BY <1>15 DEF Judge, Goto, TypeOK
    <3>3. used' \in [Arms -> Workers \cup {Nobody, "cached", "none"}]
      BY <1>15 DEF Judge, Goto, TypeOK
    <3>4. primary' \in [Arms -> Seq({"pass", "fail"})]
      BY <1>15 DEF Judge, Goto, TypeOK
    <3>5. passes' \in [Arms -> BOOLEAN] /\ verdict' \in [Arms -> {"unsent", "pass", "fail"}]
      BY <1>15 DEF Judge, Goto, TypeOK
    <3>6. /\ main' \in {"open", "refused", "previews", "arms", "stop", "write", "returned", "raised"}
          /\ failing' \in BOOLEAN
          /\ holder' \in Workers \cup {Nobody}
          /\ baseline' \in Workers \cup {Nobody, "cached", "none"}
          /\ previewing' \in SUBSET Arms /\ toStop' \in SUBSET Arms
      BY <1>15 DEF Judge, Goto, TypeOK
    <3>7. live' \in SUBSET Boxes /\ lost' \in SUBSET Boxes
      BY <2>0
    <3> QED
      BY <3>1, <3>2, <3>3, <3>4, <3>5, <3>6, <3>7 DEF TypeOK
  <2>2. Progress'
    BY <1>15 DEF Judge, Goto, TypeOK, Progress
  <2>3. Accounted'
    <3> SUFFICES ASSUME NEW v \in Workers
        PROVE  /\ Box("arm", v) \in Held' => at'[v] \in {"agent", "stop", "stopRaising"}
               /\ Box("referee", v) \in Held' => at'[v] \in Closing \cup {"first", "second"}
               /\ Box("baseline", v) \in Held' => at'[v] = "compute"
               /\ Box("preview", v) \in Held' => main' \in {"arms", "stop"} /\ v \in (toStop \cap previewing)'
      BY DEF Accounted
    <3>1. v # a => at'[v] = at[v]
      BY <1>15 DEF Judge, Goto, TypeOK
    <3> QED
      BY <1>15, <2>9, <3>1 DEF Judge, Goto, TypeOK, Progress, Accounted
  <2>4. Known'
    BY <1>15 DEF Judge, Goto, TypeOK, Known
  <2>5. Told'
    BY <1>15 DEF Judge, Goto, TypeOK, Progress, Told
  <2> QED BY <2>1, <2>2, <2>3, <2>4, <2>5
<1>16. ASSUME NEW a \in Arms, FirstStage(a) PROVE IInv'
  <2>1. TypeOK'
    <3>1. at' \in [Workers -> Places]
      BY <1>16, ZenonT(90) DEF FirstStage, Goto, Announce, TypeOK
    <3>2. \A v \in Workers : at'[v] \in Computing <=> holder' = v
      BY <1>16 DEF FirstStage, Goto, Announce, TypeOK
    <3>3. used' \in [Arms -> Workers \cup {Nobody, "cached", "none"}]
      BY <1>16 DEF FirstStage, Goto, Announce, TypeOK
    <3>4. primary' \in [Arms -> Seq({"pass", "fail"})]
      BY <1>16, AnnouncedFacts DEF FirstStage, Goto, Announce, TypeOK
    <3>5. passes' \in [Arms -> BOOLEAN] /\ verdict' \in [Arms -> {"unsent", "pass", "fail"}]
      <4>1. \E p \in BOOLEAN : passes' = passes \/ passes' = [passes EXCEPT ![a] = p]
        BY <1>16 DEF FirstStage
      <4>2. verdict' = verdict
        BY <1>16 DEF FirstStage
      <4> QED
        BY <4>1, <4>2 DEF TypeOK
    <3>6. /\ main' \in {"open", "refused", "previews", "arms", "stop", "write", "returned", "raised"}
          /\ failing' \in BOOLEAN
          /\ holder' \in Workers \cup {Nobody}
          /\ baseline' \in Workers \cup {Nobody, "cached", "none"}
          /\ previewing' \in SUBSET Arms /\ toStop' \in SUBSET Arms
      BY <1>16 DEF FirstStage, Goto, Announce, TypeOK
    <3>7. live' \in SUBSET Boxes /\ lost' \in SUBSET Boxes
      BY <1>16 DEF FirstStage, TypeOK
    <3> QED
      BY <3>1, <3>2, <3>3, <3>4, <3>5, <3>6, <3>7 DEF TypeOK
  <2>2. Progress'
    BY <1>16 DEF FirstStage, Goto, Announce, TypeOK, Progress
  <2>3. Accounted'
    BY <1>16, BoxesKept DEF FirstStage, Goto, Announce, TypeOK, Progress, Accounted
  <2>4. Known'
    BY <1>16 DEF FirstStage, Goto, Announce, TypeOK, Known
  <2>5. Told'
    <3>1. primary[a] = <<>> /\ verdict[a] = "unsent"
      BY <1>16 DEF FirstStage, Told
    <3>2. \A b \in Arms : b # a => /\ primary'[b] = primary[b] /\ at'[b] = at[b]
                                  /\ passes'[b] = passes[b]
      BY <1>16 DEF FirstStage, Goto, Announce, TypeOK
    <3>3. verdict' = verdict
      BY <1>16 DEF FirstStage
    <3>4. Len(<<"pass">>) = 1 /\ Len(<<"fail">>) = 1
      OBVIOUS
    <3>5. \/ at'[a] = "second" /\ passes'[a] = TRUE /\ primary'[a] = <<"pass">>
          \/ at'[a] = "second" /\ passes'[a] = FALSE /\ primary'[a] = <<"fail">>
          \/ at'[a] = "closeFailed" /\ primary'[a] = <<"fail">>
          \/ at'[a] = "closeRaising" /\ primary'[a] = <<>>
      <4>1. CASE \E p \in BOOLEAN : /\ passes' = [passes EXCEPT ![a] = p]
                           /\ Announce(a, IF p THEN "pass" ELSE "fail")
                           /\ Goto(a, "second")
        BY <4>1, <3>1, AnnouncedFacts DEF Goto, Announce, TypeOK
      <4>2. CASE Announce(a, "fail") /\ Goto(a, "closeFailed")
        BY <4>2, <3>1, AnnouncedFacts DEF Goto, Announce, TypeOK
      <4>3. CASE Goto(a, "closeRaising") /\ UNCHANGED primary
        BY <4>3, <3>1 DEF Goto, TypeOK
      <4> QED
        BY <1>16, <4>1, <4>2, <4>3 DEF FirstStage
    <3> SUFFICES ASSUME NEW b \in Arms
        PROVE  /\ primary'[b] = <<>> \/ Len(primary'[b]) = 1
               /\ at'[b] \in BeforeFirst => primary'[b] = <<>>
               /\ at'[b] \in {"second", "close", "record"} =>
                    primary'[b] = <<IF passes'[b] THEN "pass" ELSE "fail">>
               /\ verdict'[b] # "unsent" => Len(primary'[b]) = 1 /\ at'[b] \in {"judged", "raised"}
               /\ verdict'[b] = "pass" => primary'[b] = <<"pass">>
      BY DEF Told
    <3>6. CASE b # a
      BY <3>2, <3>3, <3>6 DEF Told
    <3>7. CASE b = a
      <4>1. CASE at'[a] = "second" /\ passes'[a] = TRUE /\ primary'[a] = <<"pass">>
        BY <3>1, <3>3, <3>4, <3>7, <4>1
      <4>2. CASE at'[a] = "second" /\ passes'[a] = FALSE /\ primary'[a] = <<"fail">>
        BY <3>1, <3>3, <3>4, <3>7, <4>2
      <4>3. CASE at'[a] = "closeFailed" /\ primary'[a] = <<"fail">>
        BY <3>1, <3>3, <3>4, <3>7, <4>3
      <4>4. CASE at'[a] = "closeRaising" /\ primary'[a] = <<>>
        <5>1. Len(primary'[a]) = 0
          BY <4>4
        <5> QED
          BY <3>1, <3>3, <3>7, <4>4, <5>1
      <4> QED
        BY <3>5, <4>1, <4>2, <4>3, <4>4
    <3> QED
      BY <3>6, <3>7
  <2> QED BY <2>1, <2>2, <2>3, <2>4, <2>5
<1>17. ASSUME NEW a \in Arms, SecondStage(a) PROVE IInv'
  <2>1. TypeOK'
    BY <1>17 DEF SecondStage, Goto, TypeOK
  <2>2. Progress'
    BY <1>17 DEF SecondStage, Goto, TypeOK, Progress
  <2>3. Accounted'
    BY <1>17, BoxesKept DEF SecondStage, Goto, TypeOK, Progress, Accounted
  <2>4. Known'
    BY <1>17 DEF SecondStage, Goto, TypeOK, Known
  <2>5. Told'
    BY <1>17 DEF SecondStage, Goto, TypeOK, Progress, Told
  <2> QED BY <2>1, <2>2, <2>3, <2>4, <2>5
<1>18. ASSUME NEW a \in Arms, CloseReferee(a) PROVE IInv'
  <2>0. /\ live' \in SUBSET Boxes /\ lost' \in SUBSET Boxes
        /\ Held' \subseteq Held \ {Box("referee", a)}
    BY <1>18, BoxesStop, BoxesKept DEF CloseReferee, Goto, AfterClose, TypeOK
  <2>9. \A j \in Kinds, v \in Workers : Box(j, v) \in Held' =>
          Box(j, v) \in Held /\ ~(j = "referee" /\ v = a)
    BY <2>0
  <2>1. TypeOK'
    BY <1>18, <2>0 DEF CloseReferee, Goto, AfterClose, TypeOK
  <2>2. Progress'
    BY <1>18 DEF CloseReferee, Goto, AfterClose, TypeOK, Progress
  <2>3. Accounted'
    <3> SUFFICES ASSUME NEW v \in Workers
        PROVE  /\ Box("arm", v) \in Held' => at'[v] \in {"agent", "stop", "stopRaising"}
               /\ Box("referee", v) \in Held' => at'[v] \in Closing \cup {"first", "second"}
               /\ Box("baseline", v) \in Held' => at'[v] = "compute"
               /\ Box("preview", v) \in Held' => main' \in {"arms", "stop"} /\ v \in (toStop \cap previewing)'
      BY DEF Accounted
    <3>1. v # a => at'[v] = at[v]
      BY <1>18 DEF CloseReferee, Goto, AfterClose, TypeOK
    <3> QED
      BY <1>18, <2>9, <3>1 DEF CloseReferee, Goto, AfterClose, TypeOK, Progress, Accounted
  <2>4. Known'
    BY <1>18 DEF CloseReferee, Goto, AfterClose, TypeOK, Known
  <2>5. Told'
    BY <1>18 DEF CloseReferee, Goto, AfterClose, TypeOK, Progress, Told
  <2> QED BY <2>1, <2>2, <2>3, <2>4, <2>5
<1>19. ASSUME NEW a \in Arms, Record(a) PROVE IInv'
  <2>1. TypeOK'
    <3>1. at' \in [Workers -> Places]
      BY <1>19 DEF Record, Goto, Announce, TypeOK
    <3>2. \A v \in Workers : at'[v] \in Computing <=> holder' = v
      BY <1>19 DEF Record, Goto, Announce, TypeOK
    <3>3. used' \in [Arms -> Workers \cup {Nobody, "cached", "none"}]
      BY <1>19 DEF Record, Goto, Announce, TypeOK
    <3>4. primary' \in [Arms -> Seq({"pass", "fail"})]
      BY <1>19, AnnouncedFacts DEF Record, Goto, Announce, TypeOK
    <3>5. passes' \in [Arms -> BOOLEAN] /\ verdict' \in [Arms -> {"unsent", "pass", "fail"}]
      BY <1>19 DEF Record, Goto, Announce, TypeOK
    <3>6. /\ main' \in {"open", "refused", "previews", "arms", "stop", "write", "returned", "raised"}
          /\ failing' \in BOOLEAN
          /\ holder' \in Workers \cup {Nobody}
          /\ baseline' \in Workers \cup {Nobody, "cached", "none"}
          /\ previewing' \in SUBSET Arms /\ toStop' \in SUBSET Arms
      BY <1>19 DEF Record, Goto, Announce, TypeOK
    <3>7. live' \in SUBSET Boxes /\ lost' \in SUBSET Boxes
      BY <1>19 DEF Record, TypeOK
    <3> QED
      BY <3>1, <3>2, <3>3, <3>4, <3>5, <3>6, <3>7 DEF TypeOK
  <2>2. Progress'
    BY <1>19 DEF Record, Goto, Announce, TypeOK, Progress
  <2>3. Accounted'
    BY <1>19, BoxesKept DEF Record, Goto, Announce, TypeOK, Progress, Accounted
  <2>4. Known'
    BY <1>19 DEF Record, Goto, Announce, TypeOK, Known
  <2>5. Told'
    <3>1. /\ verdict[a] = "unsent" /\ (primary[a] = <<>> \/ Len(primary[a]) = 1)
          /\ at[a] = "record" => primary[a] = <<IF passes[a] THEN "pass" ELSE "fail">>
      BY <1>19 DEF Record, Told
    <3>2. \A b \in Arms : b # a => /\ primary'[b] = primary[b] /\ at'[b] = at[b]
                                  /\ verdict'[b] = verdict[b]
      BY <1>19 DEF Record, Goto, Announce, TypeOK
    <3>3. passes' = passes
      BY <1>19 DEF Record
    <3>4. Len(primary'[a]) = 1 /\ (at[a] = "record" => primary'[a] = primary[a])
      BY <1>19, <3>1, AnnouncedFacts DEF Record, Announce, TypeOK
    <3>5. /\ at'[a] \in {"judged", "raised"}
          /\ verdict'[a] = "pass" => at[a] = "record" /\ passes[a]
      BY <1>19, <3>1 DEF Record, Goto, TypeOK
    <3> SUFFICES ASSUME NEW b \in Arms
        PROVE  /\ primary'[b] = <<>> \/ Len(primary'[b]) = 1
               /\ at'[b] \in BeforeFirst => primary'[b] = <<>>
               /\ at'[b] \in {"second", "close", "record"} =>
                    primary'[b] = <<IF passes'[b] THEN "pass" ELSE "fail">>
               /\ verdict'[b] # "unsent" => Len(primary'[b]) = 1 /\ at'[b] \in {"judged", "raised"}
               /\ verdict'[b] = "pass" => primary'[b] = <<"pass">>
      BY DEF Told
    <3>6. CASE b # a
      BY <3>2, <3>3, <3>6 DEF Told
    <3>7. CASE b = a
      <4>1. verdict'[a] = "pass" => primary'[a] = <<"pass">>
        BY <3>1, <3>4, <3>5
      <4> QED
        BY <3>4, <3>5, <3>7, <4>1
    <3> QED
      BY <3>6, <3>7
  <2> QED BY <2>1, <2>2, <2>3, <2>4, <2>5
<1>20. ASSUME NEW a \in Arms, EndPreview(a) PROVE IInv'
  <2>0. /\ live' \in SUBSET Boxes /\ lost' \in SUBSET Boxes
        /\ Held' \subseteq Held \ {Box("preview", a)}
    BY <1>20, BoxesStop, BoxesKept DEF EndPreview, TypeOK
  <2>9. \A j \in Kinds, v \in Workers : Box(j, v) \in Held' =>
          Box(j, v) \in Held /\ ~(j = "preview" /\ v = a)
    BY <2>0
  <2>1. TypeOK'
    BY <1>20, <2>0 DEF EndPreview, TypeOK
  <2>2. Progress'
    BY <1>20 DEF EndPreview, TypeOK, Progress
  <2>3. Accounted'
    <3> SUFFICES ASSUME NEW v \in Workers
        PROVE  /\ Box("arm", v) \in Held' => at'[v] \in {"agent", "stop", "stopRaising"}
               /\ Box("referee", v) \in Held' => at'[v] \in Closing \cup {"first", "second"}
               /\ Box("baseline", v) \in Held' => at'[v] = "compute"
               /\ Box("preview", v) \in Held' => main' \in {"arms", "stop"} /\ v \in (toStop \cap previewing)'
      BY DEF Accounted
    <3>1. v # a => at'[v] = at[v]
      BY <1>20 DEF EndPreview, TypeOK
    <3> QED
      BY <1>20, <2>9, <3>1 DEF EndPreview, TypeOK, Progress, Accounted
  <2>4. Known'
    BY <1>20 DEF EndPreview, TypeOK, Known
  <2>5. Told'
    BY <1>20 DEF EndPreview, TypeOK, Progress, Told
  <2> QED BY <2>1, <2>2, <2>3, <2>4, <2>5
<1>21. CASE UNCHANGED vars
  BY <1>21 DEF vars, Held, TypeOK, Progress, Accounted, Known, Told, IInv
<1> QED
  BY <1>1, <1>2, <1>3, <1>4, <1>5, <1>6, <1>7, <1>8, <1>9, <1>10, <1>11, <1>12, <1>13, <1>14, <1>15, <1>16, <1>17, <1>18, <1>19, <1>20, <1>21
     DEF Next, Caller, GetsBaseline, RunsArm, Judges

LEMMA IInvCorrect == Spec => []IInv
  BY InitIInv, NextIInv, PTL DEF Spec

\* Types, and _baseline_lock is held exactly while a worker computes the baseline.
THEOREM TypeCorrect == Spec => []TypeOK
<1>1. IInv => TypeOK
  BY DEF IInv
<1> QED
  BY <1>1, IInvCorrect, PTL

\* Whoever computes the baseline, and whatever fails before, the arms are judged
\* with the same one (Referee.baseline).
THEOREM BaselineCorrect == Spec => []SameBaseline
<1>1. IInv => SameBaseline
  BY DEF IInv, Known, SameBaseline
<1> QED
  BY <1>1, IInvCorrect, PTL

\* A verdict follows exactly one primary verdict and only ever takes it back
\* (announce, _judge_build).
THEOREM VerdictCorrect == Spec => []VerdictKeepsPrimary
<1>1. IInv => VerdictKeepsPrimary
  <2> SUFFICES ASSUME IInv, NEW a \in Arms
      PROVE  /\ Len(primary[a]) <= 1
             /\ verdict[a] # "unsent" => Len(primary[a]) = 1
             /\ verdict[a] = "pass" => primary[a] = <<"pass">>
    BY DEF VerdictKeepsPrimary
  <2>1. /\ primary[a] = <<>> \/ Len(primary[a]) = 1
        /\ verdict[a] # "unsent" => Len(primary[a]) = 1
        /\ verdict[a] = "pass" => primary[a] = <<"pass">>
    BY DEF IInv, Told
  <2>2. Len(primary[a]) \in {0, 1}
    BY <2>1
  <2>3. \A n \in {0, 1} : n <= 1
    OBVIOUS
  <2> QED
    BY <2>1, <2>2, <2>3
<1> QED
  BY <1>1, IInvCorrect, PTL

\* run_ab leaves no container behind but those that could not be removed
\* (_joined, join_or_stop, the finally blocks).
THEOREM ContainersCorrect == Spec => []NoContainerOutlivesRun
<1>1. IInv => NoContainerOutlivesRun
  <2> SUFFICES ASSUME IInv, main \in {"returned", "raised"}, NEW b \in Held PROVE FALSE
    BY DEF NoContainerOutlivesRun, Held
  <2>1. PICK k \in Kinds, w \in Workers : b = Box(k, w)
    BY DEF IInv, TypeOK, Held, Boxes, Box, Kinds
  <2>2. at[w] \in Finished \cup {"over"} /\ toStop = {}
    BY DEF IInv, Progress, Workers
  <2>3. Box(k, w) \in Held
    BY <2>1
  <2> QED
    BY <2>2, <2>3 DEF IInv, Accounted, Kinds, Finished, Closing
<1> QED
  BY <1>1, IInvCorrect, PTL
=============================================================================
