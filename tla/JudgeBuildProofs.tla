-------------------------- MODULE JudgeBuildProofs --------------------------
(***************************************************************************)
(* For any builds, measures and mutants: judging the primary measure's     *)
(* checks first never changes a score, and the scores of R1, R2, R4 and R5 *)
(* tell the truth about the build.                                         *)
(***************************************************************************)
EXTENDS JudgeBuild, FiniteSetTheorems, SequenceTheorems, WellFoundedInduction, TLAPS

(* ---- What a field of the score reads --------------------------------------- *)

\* Two sets of results that say the same of a check.
SameOn(c, f, g) == (c \in DOMAIN f <=> c \in DOMAIN g) /\ (c \in DOMAIN f => f[c] = g[c])

\* What a field reads of a check, it reads of two such sets alike.
LEMMA CountsAgree ==
  ASSUME NEW c, NEW f, NEW g, SameOn(c, f, g)
  PROVE  /\ New(f, c) = New(g, c) /\ Ok(f, c) = Ok(g, c) /\ Passed(f, c) = Passed(g, c)
         /\ \A d : Total(f, c, d) = Total(g, c, d)
         /\ c = "r1_tenant" => Leaks(f) = Leaks(g)
BY DEF SameOn, New, Ok, Passed, Total, Leaks, Failing

\* A field is a function of the results of its sources: FieldSources names
\* every check that the field's value comes from.
LEMMA FieldDepends ==
  ASSUME NEW n \in DOMAIN FieldSources, NEW f, NEW g, NEW k, NEW l,
         \A c \in FieldSources[n] : c # MutantsSource => SameOn(c, f, g),
         MutantsSource \in FieldSources[n] => k = l
  PROVE  ScoreFields(f, k)[n] = ScoreFields(g, l)[n]
<1>1. CASE n = "r1_new_violations"
  <2>1. FieldSources[n] = {"r1_tenant"} /\ "r1_tenant" # MutantsSource
    BY <1>1 DEF FieldSources, MutantsSource
  <2> QED BY <1>1, <2>1, CountsAgree DEF ScoreFields
<1>2. CASE n = "r1_leaks"
  <2>1. FieldSources[n] = {"r1_tenant"} /\ "r1_tenant" # MutantsSource
    BY <1>2 DEF FieldSources, MutantsSource
  <2> QED BY <1>2, <2>1, CountsAgree DEF ScoreFields
<1>3. CASE n = "r2_new_violations"
  <2>1. FieldSources[n] = {"r2_roles"} /\ "r2_roles" # MutantsSource
    BY <1>3 DEF FieldSources, MutantsSource
  <2> QED BY <1>3, <2>1, CountsAgree DEF ScoreFields
<1>4. CASE n = "r3_new_failures"
  <2>1. FieldSources[n] = {"r3_conventions"} /\ "r3_conventions" # MutantsSource
    BY <1>4 DEF FieldSources, MutantsSource
  <2> QED BY <1>4, <2>1, CountsAgree DEF ScoreFields
<1>5. CASE n = "r4_duplicates"
  <2>1. FieldSources[n] = {"r4_idempotency"} /\ "r4_idempotency" # MutantsSource
    BY <1>5 DEF FieldSources, MutantsSource
  <2> QED BY <1>5, <2>1, CountsAgree DEF ScoreFields
<1>6. CASE n = "r5_audit_missing"
  <2>1. FieldSources[n] = {"r5_audit"} /\ "r5_audit" # MutantsSource
    BY <1>6 DEF FieldSources, MutantsSource
  <2> QED BY <1>6, <2>1, CountsAgree DEF ScoreFields
<1>7. CASE n = "r6_ok"
  <2>1. FieldSources[n] = {"r6_layering"} /\ "r6_layering" # MutantsSource
    BY <1>7 DEF FieldSources, MutantsSource
  <2> QED BY <1>7, <2>1, CountsAgree DEF ScoreFields
<1>8. CASE n = "r7_ok"
  <2>1. FieldSources[n] = {"r7_migrations"} /\ "r7_migrations" # MutantsSource
    BY <1>8 DEF FieldSources, MutantsSource
  <2> QED BY <1>8, <2>1, CountsAgree DEF ScoreFields
<1>9. CASE n = "regression_passed"
  <2>1. FieldSources[n] = {"regression"} /\ "regression" # MutantsSource
    BY <1>9 DEF FieldSources, MutantsSource
  <2> QED BY <1>9, <2>1, CountsAgree DEF ScoreFields
<1>10. CASE n = "regression_total"
  <2>1. FieldSources[n] = {"regression"} /\ "regression" # MutantsSource
    BY <1>10 DEF FieldSources, MutantsSource
  <2> QED BY <1>10, <2>1, CountsAgree DEF ScoreFields
<1>11. CASE n = "hidden_passed"
  <2>1. FieldSources[n] = {"hidden_tests"} /\ "hidden_tests" # MutantsSource
    BY <1>11 DEF FieldSources, MutantsSource
  <2> QED BY <1>11, <2>1, CountsAgree DEF ScoreFields
<1>12. CASE n = "hidden_total"
  <2>1. FieldSources[n] = {"hidden_tests"} /\ "hidden_tests" # MutantsSource
    BY <1>12 DEF FieldSources, MutantsSource
  <2> QED BY <1>12, <2>1, CountsAgree DEF ScoreFields
<1>13. CASE n = "flaky_tests"
  <2>1. FieldSources[n] = {"flakiness"} /\ "flakiness" # MutantsSource
    BY <1>13 DEF FieldSources, MutantsSource
  <2> QED BY <1>13, <2>1, CountsAgree DEF ScoreFields
<1>14. CASE n = "continuity_failure"
  <2>1. FieldSources[n] = {"continuity"} /\ "continuity" # MutantsSource
    BY <1>14 DEF FieldSources, MutantsSource
  <2> QED BY <1>14, <2>1, CountsAgree DEF ScoreFields, SameOn
<1>15. CASE n = "board_ok"
  <2>1. FieldSources[n] = {"board"} /\ "board" # MutantsSource
    BY <1>15 DEF FieldSources, MutantsSource
  <2> QED BY <1>15, <2>1, CountsAgree DEF ScoreFields
<1>16. CASE n \in {"mutants_killed", "mutants_total"}
  <2>1. FieldSources[n] = {MutantsSource}
    BY <1>16 DEF FieldSources
  <2> QED BY <1>16, <2>1 DEF ScoreFields
<1>17. CASE n \in {"shipped_tests", "out_of_scope_files", "test_phase_source_edits"}
  BY <1>17 DEF ScoreFields
<1>18. n \in {"r1_new_violations", "r1_leaks", "r2_new_violations", "r3_new_failures", "r4_duplicates",
              "r5_audit_missing", "r6_ok", "r7_ok", "regression_passed", "regression_total",
              "hidden_passed", "hidden_total", "flaky_tests", "continuity_failure", "board_ok",
              "mutants_killed", "mutants_total", "shipped_tests", "out_of_scope_files",
              "test_phase_source_edits"}
  BY DEF FieldSources
<1> QED BY <1>1, <1>2, <1>3, <1>4, <1>5, <1>6, <1>7, <1>8, <1>9, <1>10, <1>11, <1>12, <1>13, <1>14,
           <1>15, <1>16, <1>17, <1>18

\* Two scores that agree on what a measure reads give the same verdict.
LEMMA VerdictsAgree ==
  ASSUME NEW m, NEW f, NEW g, \A n \in PrimaryFields(m) : f[n] = g[n]
  PROVE  /\ EvaluatePrimary(m, f) = EvaluatePrimary(m, g)
         /\ PrimaryValues(m, f) = PrimaryValues(m, g)
<1>1. /\ \A n \in m.terms : f[n] = g[n]
      /\ \A n \in m.counts : f[n] = g[n] /\ f[Totals[n]] = g[Totals[n]]
  BY DEF PrimaryFields
<1>2. EvaluatePrimary(m, f) => EvaluatePrimary(m, g)
  BY <1>1 DEF EvaluatePrimary
<1>3. EvaluatePrimary(m, g) => EvaluatePrimary(m, f)
  BY <1>1 DEF EvaluatePrimary
<1>4. EvaluatePrimary(m, f) \in BOOLEAN /\ EvaluatePrimary(m, g) \in BOOLEAN
  BY DEF EvaluatePrimary
<1>5. PrimaryValues(m, f) = PrimaryValues(m, g)
  BY <1>1 DEF PrimaryValues
<1> QED BY <1>2, <1>3, <1>4, <1>5

(* ---- The two stages --------------------------------------------------------- *)

ResultsOf(checks) == RunChecks(checks, Build, Params(Build), base)
Outcomes == MutantOutcomes(Build)
FirstKilled == IF FirstStage.mutants THEN Outcomes ELSE Nothing
FirstRecord == MakeRecord(ResultsOf(FirstStage.checks), FirstKilled, FALSE)
WholeRecord == MakeRecord(ResultsOf(Checks), Outcomes, FALSE)

\* What has run at each place of judge, while nothing failed.
Progress ==
  /\ place \in {"baseline", "apply", "start", "inputs", "first"} =>
       results = Nothing /\ killed = Nothing /\ told = Untold
  /\ place \in {"baseline", "apply", "start", "inputs"} => error = FALSE
  /\ place \in {"mutants first", "announce"} =>
       /\ told = Untold /\ (~error => results = ResultsOf(FirstStage.checks))
       /\ killed = IF place = "announce" THEN FirstKilled ELSE Nothing
  /\ place = "mutants first" => FirstStage.mutants
  /\ place = "second" =>
       /\ killed = FirstKilled
       /\ ~error => results = ResultsOf(FirstStage.checks) /\ told = FirstRecord
  /\ place = "mutants second" /\ ~error => results = ResultsOf(Checks) /\ told = FirstRecord
  /\ place \in {"leave", "announce late"} /\ ~error =>
       results = ResultsOf(Checks) /\ killed = Outcomes /\ told = FirstRecord
  /\ place = "done" /\ ~error => record = WholeRecord /\ told = FirstRecord
JudgePlaces == {"baseline", "apply", "start", "inputs", "first", "mutants first", "announce", "second",
                "mutants second", "leave", "announce late", "done"}
JudgeInv == place \in JudgePlaces /\ error \in BOOLEAN /\ Progress

\* The first stage runs checks of the referee's only.
LEMMA StageChecks == FirstStage.checks \subseteq Checks
BY DEF FirstStage, PrimaryStage

\* The results of two calls of the check runner are those of one.
LEMMA CallsJoin ==
  ASSUME NEW A, NEW B
  PROVE  /\ Joined(ResultsOf(A), Nothing) = ResultsOf(A)
         /\ Joined(ResultsOf(A), ResultsOf(B)) = ResultsOf(A \cup B)
         /\ ResultsOf({}) = Nothing
<1>1. /\ DOMAIN ResultsOf(A) = A /\ DOMAIN ResultsOf(B) = B /\ DOMAIN ResultsOf(A \cup B) = A \cup B
      /\ \A c \in A : ResultsOf(A)[c] = ResultsOf(A \cup B)[c]
      /\ \A c \in B : ResultsOf(B)[c] = ResultsOf(A \cup B)[c]
  BY DEF ResultsOf, RunChecks
<1>2. Joined(ResultsOf(A), Nothing) = ResultsOf(A)
  BY DEF ResultsOf, RunChecks, Nothing, Joined
<1>3. Joined(ResultsOf(A), ResultsOf(B)) = ResultsOf(A \cup B)
  BY DEF ResultsOf, RunChecks, Joined
<1>4. ResultsOf({}) = Nothing
  BY DEF ResultsOf, RunChecks, Nothing
<1> QED BY <1>2, <1>3, <1>4

\* A record is never taken for no record.
LEMMA ToldSomething == \A f, k, e : MakeRecord(f, k, e) # Untold
<1> TAKE f, k, e
<1>1. DOMAIN MakeRecord(f, k, e) = {"fields", "primary", "passed", "accepts"}
  BY DEF MakeRecord
<1>2. DOMAIN Untold = {"passed"}
  BY DEF Untold
<1> QED BY <1>1, <1>2

\* The verdict that is sent first is the one of the whole record: the first
\* stage holds every source of the fields that the measure reads.
LEMMA StagesAgree ==
  /\ FirstRecord.passed = WholeRecord.passed
  /\ FirstRecord.primary = WholeRecord.primary
<1> DEFINE f == ResultsOf(FirstStage.checks)
           g == ResultsOf(Checks)
           F == ScoreFields(f, FirstKilled)
           G == ScoreFields(g, Outcomes)
<1>1. /\ FirstRecord.passed = (EvaluatePrimary(measure, F) /\ ~FALSE)
      /\ FirstRecord.primary = PrimaryValues(measure, F)
      /\ WholeRecord.passed = (EvaluatePrimary(measure, G) /\ ~FALSE)
      /\ WholeRecord.primary = PrimaryValues(measure, G)
  BY DEF FirstRecord, WholeRecord, MakeRecord
<1>2. CASE FirstStage = [checks |-> Checks, mutants |-> TRUE]
  BY <1>1, <1>2 DEF FirstKilled
<1>3. CASE /\ PrimaryFields(measure) \subseteq DOMAIN FieldSources
           /\ FirstStage = [checks |-> Checks \cap Sources(measure),
                            mutants |-> MutantsSource \in Sources(measure)]
  <2>1. ASSUME NEW n \in PrimaryFields(measure) PROVE F[n] = G[n]
    <3>1. n \in DOMAIN FieldSources /\ FieldSources[n] \subseteq Sources(measure)
      BY <1>3 DEF Sources
    <3>2. ASSUME NEW c \in FieldSources[n], c # MutantsSource PROVE SameOn(c, f, g)
      <4>1. DOMAIN f = Checks \cap Sources(measure) /\ DOMAIN g = Checks
        BY <1>3 DEF ResultsOf, RunChecks
      <4>2. c \in DOMAIN f <=> c \in DOMAIN g
        BY <3>1, <4>1
      <4>3. \A d \in DOMAIN f : f[d] = g[d]
        BY <1>3, <4>1 DEF ResultsOf, RunChecks
      <4>4. CASE c \in DOMAIN f
        BY <4>2, <4>3, <4>4 DEF SameOn
      <4> QED BY <4>2, <4>4 DEF SameOn
    <3>3. MutantsSource \in FieldSources[n] => FirstKilled = Outcomes
      BY <1>3, <3>1 DEF FirstKilled
    <3> HIDE DEF f, g
    <3> QED BY <3>1, <3>2, <3>3, FieldDepends
  <2> HIDE DEF F, G
  <2> QED BY <1>1, <2>1, VerdictsAgree
<1> QED BY <1>2, <1>3 DEF FirstStage, PrimaryStage

(* ---- judge, step by step ------------------------------------------------------ *)

\* The record is a function of the measure and the fields.
LEMMA SameRecord ==
  ASSUME UNCHANGED measure, NEW f, NEW k, NEW e,
         ScoreFields(f, k)' = ScoreFields(f, k)
  PROVE  MakeRecord(f, k, e)' = MakeRecord(f, k, e)
<1>1. EvaluatePrimary(measure, ScoreFields(f, k))' = EvaluatePrimary(measure, ScoreFields(f, k))
  BY DEF EvaluatePrimary
<1>2. PrimaryValues(measure, ScoreFields(f, k))' = PrimaryValues(measure, ScoreFields(f, k))
  BY DEF PrimaryValues
<1> QED BY <1>1, <1>2, Zenon DEF MakeRecord

\* The build and the measure stay, and after the baseline so do the results
\* of any checks.
LEMMA SameWork ==
  ASSUME UNCHANGED <<work, measure, early>>
  PROVE  /\ FirstStage' = FirstStage /\ Outcomes' = Outcomes /\ FirstKilled' = FirstKilled
         /\ Build' = Build
         /\ \A f, k, e : MakeRecord(f, k, e)' = MakeRecord(f, k, e)
         /\ base' = base => /\ \A C : ResultsOf(C)' = ResultsOf(C)
                            /\ FirstRecord' = FirstRecord /\ WholeRecord' = WholeRecord
<1>1. /\ Build' = Build /\ FirstStage' = FirstStage /\ Outcomes' = Outcomes
  BY DEF Build, FirstStage, Outcomes
<1>2. FirstKilled' = FirstKilled
  BY <1>1 DEF FirstKilled
<1>3. \A f, k : ScoreFields(f, k)' = ScoreFields(f, k)
  BY <1>1 DEF ScoreFields
<1>4. \A f, k, e : MakeRecord(f, k, e)' = MakeRecord(f, k, e)
  <2> TAKE f, k, e
  <2> QED BY <1>3, SameRecord
<1>5. ASSUME base' = base, NEW C
      PROVE  ResultsOf(C)' = ResultsOf(C)
  BY <1>1, <1>5 DEF ResultsOf
<1>6. ASSUME base' = base
      PROVE  FirstRecord' = FirstRecord /\ WholeRecord' = WholeRecord
  BY <1>1, <1>2, <1>4, <1>6 DEF FirstRecord, WholeRecord, ResultsOf
<1> QED BY <1>1, <1>2, <1>4, <1>5, <1>6

\* The first call of the runner, with the second call still to come.
LEMMA RunFirstInv ==
  ASSUME JudgeInv, RunFirst
  PROVE  JudgeInv'
<1>1. /\ place = "first" /\ error \in BOOLEAN
      /\ results = Nothing /\ killed = Nothing /\ told = Untold
      /\ place' = IF FirstStage.mutants THEN "mutants first" ELSE "announce"
      /\ UNCHANGED <<work, measure, early, base, killed, told, record>>
  BY DEF RunFirst, CallRunner, JudgeInv, Progress
<1>2. /\ FirstStage' = FirstStage /\ FirstKilled' = FirstKilled
      /\ \A C : ResultsOf(C)' = ResultsOf(C)
  BY <1>1, SameWork
<1>3. error' \in BOOLEAN /\ (~error' => results' = ResultsOf(FirstStage.checks))
  <2>1. CASE FirstStage.checks = {} \/ error
    BY <1>1, <2>1, CallsJoin DEF RunFirst, CallRunner
  <2>2. CASE ~(FirstStage.checks = {} \/ error)
    <3>1. \/ error' = TRUE
          \/ results' = Joined(ResultsOf(FirstStage.checks), results) /\ error' = error
      BY <2>2 DEF RunFirst, CallRunner, ResultsOf
    <3> QED BY <1>1, <3>1, CallsJoin
  <2> QED BY <2>1, <2>2
<1>4. CASE FirstStage.mutants
  <2>1. place' = "mutants first"
    BY <1>1, <1>4
  <2> QED BY <1>1, <1>2, <1>3, <1>4, <2>1 DEF JudgeInv, JudgePlaces, Progress
<1>5. CASE ~FirstStage.mutants
  <2>1. place' = "announce" /\ FirstKilled' = Nothing
    BY <1>1, <1>2, <1>5 DEF FirstKilled
  <2> QED BY <1>1, <1>2, <1>3, <2>1 DEF JudgeInv, JudgePlaces, Progress
<1> QED BY <1>4, <1>5

\* The second call gives what the first left out.
LEMMA RunSecondInv ==
  ASSUME JudgeInv, RunSecond
  PROVE  JudgeInv'
<1>1. /\ place = "second" /\ error \in BOOLEAN /\ killed = FirstKilled
      /\ ~error => results = ResultsOf(FirstStage.checks) /\ told = FirstRecord
      /\ place' = IF FirstStage.mutants THEN "leave" ELSE "mutants second"
      /\ UNCHANGED <<work, measure, early, base, killed, told, record>>
  BY DEF RunSecond, CallRunner, JudgeInv, Progress
<1>2. /\ FirstStage' = FirstStage /\ Outcomes' = Outcomes /\ FirstRecord' = FirstRecord
      /\ \A C : ResultsOf(C)' = ResultsOf(C)
  BY <1>1, SameWork
<1>3. /\ error' \in BOOLEAN
      /\ ~error' => ~error /\ results' = ResultsOf(Checks)
  <2> DEFINE rest == Checks \ FirstStage.checks
  <2>1. rest \cup FirstStage.checks = Checks /\ (rest = {} => FirstStage.checks = Checks)
    BY StageChecks
  <2>2. CASE rest = {} \/ error
    <3>1. UNCHANGED <<results, error>>
      BY <2>2 DEF RunSecond, CallRunner
    <3> QED BY <1>1, <2>1, <2>2, <3>1
  <2>3. CASE ~(rest = {} \/ error)
    <3>1. \/ error' = TRUE
          \/ results' = Joined(ResultsOf(rest), results) /\ error' = error
      BY <2>3 DEF RunSecond, CallRunner, ResultsOf
    <3> HIDE DEF rest
    <3>2. Joined(ResultsOf(rest), ResultsOf(FirstStage.checks)) = ResultsOf(rest \cup FirstStage.checks)
      BY CallsJoin
    <3> QED BY <1>1, <2>1, <3>1, <3>2
  <2> QED BY <2>2, <2>3
<1>4. CASE FirstStage.mutants
  <2>1. place' = "leave" /\ FirstKilled = Outcomes
    BY <1>1, <1>4 DEF FirstKilled
  <2> QED BY <1>1, <1>2, <1>3, <2>1 DEF JudgeInv, JudgePlaces, Progress
<1>5. CASE ~FirstStage.mutants
  <2>1. place' = "mutants second"
    BY <1>1, <1>5
  <2> QED BY <1>1, <1>2, <1>3, <2>1 DEF JudgeInv, JudgePlaces, Progress
<1> QED BY <1>4, <1>5

\* The mutants run once, before the announcement or after it.
LEMMA RunMutantsInv ==
  ASSUME JudgeInv, RunMutants
  PROVE  JudgeInv'
<1>1. /\ place \in {"mutants first", "mutants second"} /\ killed' = Outcomes /\ error \in BOOLEAN
      /\ place' = IF place = "mutants first" THEN "announce" ELSE "leave"
      /\ UNCHANGED <<work, measure, early, base, results, error, told, record>>
  BY DEF RunMutants, Outcomes, JudgeInv
<1>2. /\ FirstStage' = FirstStage /\ Outcomes' = Outcomes /\ FirstRecord' = FirstRecord
      /\ FirstKilled' = FirstKilled /\ \A C : ResultsOf(C)' = ResultsOf(C)
  BY <1>1, SameWork
<1>3. CASE place = "mutants first"
  <2>1. /\ FirstKilled = Outcomes /\ told = Untold /\ place' = "announce"
        /\ ~error => results = ResultsOf(FirstStage.checks)
    BY <1>1, <1>3 DEF JudgeInv, Progress, FirstKilled
  <2> QED BY <1>1, <1>2, <2>1 DEF JudgeInv, JudgePlaces, Progress
<1>4. CASE place = "mutants second"
  <2>1. place' = "leave" /\ (~error => results = ResultsOf(Checks) /\ told = FirstRecord)
    BY <1>1, <1>4 DEF JudgeInv, Progress
  <2> QED BY <1>1, <1>2, <2>1 DEF JudgeInv, JudgePlaces, Progress
<1> QED BY <1>1, <1>3, <1>4

\* What is announced is the record of the first stage.
LEMMA AnnounceInv ==
  ASSUME JudgeInv, Announce
  PROVE  JudgeInv'
<1>1. /\ place = "announce" /\ place' = "second" /\ error \in BOOLEAN
      /\ told' = MakeRecord(IF error THEN Nothing ELSE results, killed, error)
      /\ killed = FirstKilled /\ (~error => results = ResultsOf(FirstStage.checks))
      /\ UNCHANGED <<work, measure, early, base, results, killed, error, record>>
  BY DEF Announce, JudgeInv, Progress
<1>2. /\ FirstStage' = FirstStage /\ FirstRecord' = FirstRecord
      /\ FirstKilled' = FirstKilled /\ \A C : ResultsOf(C)' = ResultsOf(C)
  BY <1>1, SameWork
<1>3. ~error => told' = FirstRecord
  <2> SUFFICES ASSUME ~error PROVE told' = FirstRecord
    OBVIOUS
  <2>1. error = FALSE
    BY <1>1
  <2> QED BY <1>1, <2>1 DEF FirstRecord
<1> QED BY <1>1, <1>2, <1>3 DEF JudgeInv, JudgePlaces, Progress

\* The record is that of all the checks.
LEMMA DecideInv ==
  ASSUME JudgeInv, Decide
  PROVE  JudgeInv'
<1>1. /\ place = "announce late" /\ place' = "done" /\ error \in BOOLEAN
      /\ told' = IF told = Untold THEN MakeRecord(Nothing, Nothing, error) ELSE told
      /\ record' = MakeRecord(results, killed, error)
      /\ ~error => results = ResultsOf(Checks) /\ killed = Outcomes /\ told = FirstRecord
      /\ UNCHANGED <<work, measure, early, base, results, killed, error>>
  BY DEF Decide, JudgeInv, Progress
<1>2. FirstRecord' = FirstRecord /\ WholeRecord' = WholeRecord
  BY <1>1, SameWork
<1>3. ~error => told' = FirstRecord /\ record' = WholeRecord
  <2> SUFFICES ASSUME ~error PROVE told' = FirstRecord /\ record' = WholeRecord
    OBVIOUS
  <2>1. error = FALSE /\ told # Untold
    BY <1>1, ToldSomething DEF FirstRecord
  <2> QED BY <1>1, <2>1 DEF WholeRecord
<1> QED BY <1>1, <1>2, <1>3 DEF JudgeInv, JudgePlaces, Progress

\* The steps before the checks, and the one that leaves the container.
LEMMA OtherStepsInv ==
  ASSUME JudgeInv, BaselineReady \/ ApplyDiff \/ Start \/ WriteInputs \/ Leave \/ UNCHANGED vars
  PROVE  JudgeInv'
<1> USE DEF JudgeInv, JudgePlaces, Progress
<1>1. CASE BaselineReady
  BY <1>1 DEF BaselineReady
<1>2. CASE ApplyDiff
  BY <1>2 DEF ApplyDiff, MayFail
<1>3. CASE Start
  BY <1>3 DEF Start, MayFail
<1>4. CASE WriteInputs
  BY <1>4 DEF WriteInputs
<1>5. CASE Leave
  <2>1. /\ place = "leave" /\ place' = "announce late" /\ error \in BOOLEAN
        /\ results' = IF error THEN Nothing ELSE results
        /\ UNCHANGED <<work, measure, early, base, killed, error, told, record>>
    BY <1>5 DEF Leave
  <2>2. Outcomes' = Outcomes /\ FirstRecord' = FirstRecord /\ \A C : ResultsOf(C)' = ResultsOf(C)
    BY <2>1, SameWork
  <2> QED BY <2>1, <2>2
<1>6. CASE UNCHANGED vars
  <2>1. UNCHANGED <<work, measure, early, base, place, results, killed, error, told, record>>
    BY <1>6 DEF vars
  <2>2. /\ FirstStage' = FirstStage /\ Outcomes' = Outcomes /\ FirstKilled' = FirstKilled
        /\ FirstRecord' = FirstRecord /\ WholeRecord' = WholeRecord
        /\ \A C : ResultsOf(C)' = ResultsOf(C)
    BY <2>1, SameWork
  <2> QED BY <2>1, <2>2
<1> QED BY <1>1, <1>2, <1>3, <1>4, <1>5, <1>6

\* What judge has done at each of its places, whatever fails on the way.
THEOREM JudgeProgress == Spec => []JudgeInv
<1>1. Init => JudgeInv
  BY DEF Init, JudgeInv, JudgePlaces, Progress
<1>2. JudgeInv /\ [Next]_vars => JudgeInv'
  BY RunFirstInv, RunSecondInv, RunMutantsInv, AnnounceInv, DecideInv, OtherStepsInv DEF Next
<1> QED BY <1>1, <1>2, PTL DEF Spec

\* The record of a build that could be judged is the one that a single pass
\* over all checks gives, and the verdict sent before the rest ran is the
\* record's (P/ab/referee.py:9, Referee.judge).
THEOREM OrderIrrelevant == Spec => []OrderNeverChangesScore
<1>1. JudgeInv => OrderNeverChangesScore
  <2> SUFFICES ASSUME JudgeInv, place = "done", ~error PROVE OrderNeverChangesScore
    BY DEF OrderNeverChangesScore
  <2>1. record = WholeRecord /\ told = FirstRecord
    BY DEF JudgeInv, Progress
  <2> QED BY <2>1, StagesAgree DEF OrderNeverChangesScore, WholeRecord, ResultsOf, Outcomes
<1> QED BY <1>1, JudgeProgress, PTL

(* ---- Recursive functions ------------------------------------------------------ *)

\* A non-empty set of naturals has a least element.
LEMMA NatSetMin ==
  ASSUME NEW T \in SUBSET Nat, T # {}
  PROVE  \E m \in T : \A k \in T : m <= k
<1>1. PICK m \in T : \A k \in T : <<k, m>> \notin OpToRel(<, Nat)
  BY NatLessThanWellFounded, WFMin
<1>2. ASSUME NEW k \in T PROVE m <= k
  <2>1. ~(k < m)
    BY <1>1, <1>2 DEF OpToRel
  <2>2. k \in Nat /\ m \in Nat
    OBVIOUS
  <2> QED BY <2>1, <2>2
<1> QED BY <1>2

\* Induction, for the members of a set.
LEMMA NatSetInduction ==
  ASSUME NEW S, 0 \in S, \A n \in Nat : n \in S => n + 1 \in S
  PROVE  \A n \in Nat : n \in S
<1> DEFINE T == {n \in Nat : n \notin S}
<1>1. SUFFICES ASSUME T # {} PROVE FALSE
  OBVIOUS
<1>2. T \in SUBSET Nat
  OBVIOUS
<1>3. PICK m \in T : \A k \in T : m <= k
  <2> HIDE DEF T
  <2> QED BY <1>1, <1>2, NatSetMin
<1>4. m # 0 /\ m - 1 \in Nat
  BY <1>3
<1> QED BY <1>3, <1>4

\* The first n values of the function that starts with x and goes on with F.
Begins(g, n, x, F) ==
  g[0] = x /\ \A k \in Nat : k < n => g[k + 1] = F[<<k + 1, g[k]>>]

\* Two such beginnings agree as far as both go.
LEMMA BeginsAgree ==
  ASSUME NEW x, NEW F, NEW n \in Nat, NEW m \in Nat, NEW g, NEW h,
         Begins(g, n, x, F), Begins(h, m, x, F)
  PROVE  \A k \in Nat : k <= n /\ k <= m => g[k] = h[k]
<1> DEFINE S == {k \in Nat : k <= n /\ k <= m => g[k] = h[k]}
<1>1. 0 \in S
  BY DEF Begins
<1>2. ASSUME NEW k \in Nat, k \in S PROVE k + 1 \in S
  <2> SUFFICES ASSUME k + 1 <= n, k + 1 <= m PROVE g[k + 1] = h[k + 1]
    OBVIOUS
  <2>1. g[k] = h[k] /\ k < n /\ k < m
    BY <1>2
  <2> QED BY <2>1 DEF Begins
<1>3. \A k \in Nat : k \in S
  <2> HIDE DEF S
  <2> QED BY <1>1, <1>2, NatSetInduction
<1> QED BY <1>3

\* A value and a function give a recursive function.
Recurs(f, x, F) == f = [k \in Nat |-> IF k = 0 THEN x ELSE F[<<k, f[k - 1]>>]]
\* There is such a function on the numbers.
LEMMA Recursion ==
  ASSUME NEW V, NEW x \in V, NEW F \in [Nat \X V -> V]
  PROVE  \E f \in [Nat -> V] : Recurs(f, x, F)
<1> DEFINE Some(n) == \E g \in [Nat -> V] : Begins(g, n, x, F)
           S == {n \in Nat : Some(n)}
<1>1. 0 \in S
  <2> DEFINE g == [k \in Nat |-> x]
  <2>1. g \in [Nat -> V] /\ Begins(g, 0, x, F)
    BY DEF Begins
  <2> QED BY <2>1
<1>2. ASSUME NEW n \in Nat, n \in S PROVE n + 1 \in S
  <2>1. PICK g \in [Nat -> V] : Begins(g, n, x, F)
    BY <1>2
  <2> DEFINE next == F[<<n + 1, g[n]>>]
             h == [k \in Nat |-> IF k = n + 1 THEN next ELSE g[k]]
  <2>2. next \in V
    <3>1. g[n] \in V /\ n + 1 \in Nat
      OBVIOUS
    <3> QED BY <3>1
  <2>3. h \in [Nat -> V]
    <3> HIDE DEF next
    <3> QED BY <2>2
  <2>4. h[0] = x
    BY <2>1 DEF Begins
  <2>5. ASSUME NEW k \in Nat, k < n + 1 PROVE h[k + 1] = F[<<k + 1, h[k]>>]
    <3>1. h[k] = g[k]
      BY <2>5
    <3>2. CASE k = n
      <4>1. h[n + 1] = next
        OBVIOUS
      <4> QED BY <3>1, <3>2, <4>1
    <3>3. CASE k # n
      <4>1. k < n /\ k + 1 # n + 1 /\ k + 1 \in Nat
        BY <2>5, <3>3
      <4>2. h[k + 1] = g[k + 1]
        BY <4>1
      <4>3. g[k + 1] = F[<<k + 1, g[k]>>]
        BY <2>1, <4>1 DEF Begins
      <4> HIDE DEF h
      <4> QED BY <3>1, <4>2, <4>3
    <3> QED BY <3>2, <3>3
  <2>6. Begins(h, n + 1, x, F)
    <3> HIDE DEF h
    <3> QED BY <2>4, <2>5 DEF Begins
  <2> QED BY <2>3, <2>6
<1>3. \A n \in Nat : Some(n)
  <2>1. \A n \in Nat : n \in S
    <3> HIDE DEF S
    <3> QED BY <1>1, <1>2, NatSetInduction
  <2> HIDE DEF Some
  <2> QED BY <2>1
<1> DEFINE part(n) == CHOOSE g \in [Nat -> V] : Begins(g, n, x, F)
           f == [n \in Nat |-> part(n)[n]]
<1>4. \A n \in Nat : part(n) \in [Nat -> V] /\ Begins(part(n), n, x, F)
  BY <1>3
<1>5. f \in [Nat -> V]
  BY <1>4
<1>6. f[0] = x
  BY <1>4 DEF Begins
<1>7. ASSUME NEW n \in Nat PROVE f[n + 1] = F[<<n + 1, f[n]>>]
  <2>1. Begins(part(n), n, x, F) /\ Begins(part(n + 1), n + 1, x, F)
    BY <1>4
  <2> HIDE DEF part
  <2>2. part(n + 1)[n] = part(n)[n]
    BY <2>1, BeginsAgree
  <2>3. part(n + 1)[n + 1] = F[<<n + 1, part(n + 1)[n]>>]
    BY <2>1 DEF Begins
  <2> QED BY <2>2, <2>3
<1>8. Recurs(f, x, F)
  <2> HIDE DEF f
  <2>1. ASSUME NEW k \in Nat PROVE f[k] = IF k = 0 THEN x ELSE F[<<k, f[k - 1]>>]
    <3>1. CASE k = 0
      BY <1>6, <3>1
    <3>2. CASE k # 0
      <4>1. k - 1 \in Nat /\ (k - 1) + 1 = k
        BY <3>2
      <4>2. f[(k - 1) + 1] = F[<<(k - 1) + 1, f[k - 1]>>]
        BY <1>7, <4>1
      <4> QED BY <3>2, <4>1, <4>2
    <3> QED BY <3>1, <3>2
  <2> QED BY <1>5, <2>1 DEF Recurs
<1> HIDE DEF f
<1> QED BY <1>5, <1>8

(* ---- What the requests of a check take away ------------------------------------- *)

\* The recursive function of Gone, one request at a time.
LEMMA GoneUnfold ==
  ASSUME NEW b, NEW R
  PROVE  /\ Gone(b, R, 0) = {}
         /\ \A n \in Nat : Gone(b, R, n + 1) = Gone(b, R, n)
                             \cup Taken(R[n + 1], Status(b, R[n + 1], Gone(b, R, n)))
<1> DEFINE object(k) == <<OrgOf(R[k], R[k].e.last), R[k].e.last>>
           V == SUBSET {object(k) : k \in Nat}
           step(k, before) == before \cup Taken(R[k], Status(b, R[k], before))
           F == [q \in Nat \X V |-> step(q[1], q[2])]
           IsGone(f) == f = [k \in Nat |-> IF k = 0 THEN {} ELSE step(k, f[k - 1])]
           gone == CHOOSE f : IsGone(f)
<1>1. \A k \in Nat, before \in V : step(k, before) \in V
  BY DEF Taken
<1>2. F \in [Nat \X V -> V]
  <2> HIDE DEF step, V
  <2> QED BY <1>1
<1>3. {} \in V
  OBVIOUS
<1>4. PICK f \in [Nat -> V] : Recurs(f, {}, F)
  <2> HIDE DEF V, F
  <2> QED BY <1>2, <1>3, Recursion
<1>5. IsGone(f)
  <2> HIDE DEF step, V
  <2>1. ASSUME NEW k \in Nat, k # 0 PROVE F[<<k, f[k - 1]>>] = step(k, f[k - 1])
    <3>1. k - 1 \in Nat
      BY <2>1
    <3>2. <<k, f[k - 1]>> \in Nat \X V
      BY <1>4, <3>1
    <3> QED BY <3>2
  <2> HIDE DEF F
  <2> QED BY <1>4, <2>1, Zenon DEF Recurs
<1>6. IsGone(gone)
  <2> HIDE DEF IsGone
  <2> QED BY <1>5
<1>7. \A n : Gone(b, R, n) = gone[n]
  BY DEF Gone
<1> HIDE DEF gone
<1>8. gone[0] = {} /\ \A n \in Nat : gone[n + 1] = step(n + 1, gone[n])
  <2> HIDE DEF step
  <2>1. ASSUME NEW n \in Nat PROVE gone[n + 1] = step(n + 1, gone[n])
    <3>1. n + 1 \in Nat /\ n + 1 # 0 /\ (n + 1) - 1 = n
      OBVIOUS
    <3> QED BY <1>6, <3>1
  <2> QED BY <1>6, <2>1
<1> QED BY <1>7, <1>8

\* What is gone has been deleted, by a request whose answer was a success.
LEMMA GoneByDelete ==
  ASSUME NEW b, NEW R
  PROVE  \A n \in Nat : \A g \in Gone(b, R, n) :
           \E j \in 1..n : /\ R[j].e.method = "DELETE" /\ g = <<OrgOf(R[j], R[j].e.last), R[j].e.last>>
                           /\ Status(b, R[j], Gone(b, R, j - 1)) = OK
<1> DEFINE deletes(j, g) == /\ R[j].e.method = "DELETE"
                            /\ g = <<OrgOf(R[j], R[j].e.last), R[j].e.last>>
                            /\ Status(b, R[j], Gone(b, R, j - 1)) = OK
           S == {n \in Nat : \A g \in Gone(b, R, n) : \E j \in 1..n : deletes(j, g)}
<1>1. 0 \in S
  BY GoneUnfold
<1>2. ASSUME NEW n \in Nat, n \in S PROVE n + 1 \in S
  <2> SUFFICES ASSUME NEW g \in Gone(b, R, n + 1) PROVE \E j \in 1..(n + 1) : deletes(j, g)
    OBVIOUS
  <2>1. CASE g \in Gone(b, R, n)
    <3>1. PICK j \in 1..n : deletes(j, g)
      BY <1>2, <2>1
    <3>2. j \in 1..(n + 1)
      OBVIOUS
    <3> HIDE DEF deletes
    <3> QED BY <3>1, <3>2
  <2>2. CASE g \in Taken(R[n + 1], Status(b, R[n + 1], Gone(b, R, n)))
    <3>1. (n + 1) - 1 = n /\ n + 1 \in 1..(n + 1)
      OBVIOUS
    <3>2. deletes(n + 1, g)
      BY <2>2, <3>1 DEF Taken
    <3> HIDE DEF deletes
    <3> QED BY <3>1, <3>2
  <2>3. Gone(b, R, n + 1) = Gone(b, R, n) \cup Taken(R[n + 1], Status(b, R[n + 1], Gone(b, R, n)))
    BY GoneUnfold
  <2>4. g \in Gone(b, R, n) \/ g \in Taken(R[n + 1], Status(b, R[n + 1], Gone(b, R, n)))
    BY <2>3
  <2> QED BY <2>1, <2>2, <2>4, Zenon
<1>3. \A n \in Nat : n \in S
  <2> HIDE DEF S
  <2> QED BY <1>1, <1>2, NatSetInduction
<1> HIDE DEF deletes
<1>4. \A n \in Nat : \A g \in Gone(b, R, n) : \E j \in 1..n : deletes(j, g)
  BY <1>3
<1> QED BY <1>4 DEF deletes

(* ---- The order of the probes ------------------------------------------------------ *)

\* Where an endpoint comes among those that were discovered.
PlaceOf(b, e) == 1 + Cardinality({f \in Discovered(b) : Before(f, e)})

\* Before is a strict total order of the endpoints.
LEMMA BeforeOrders ==
  ASSUME NEW e \in Endpoints, NEW f \in Endpoints
  PROVE  /\ ~Before(e, e)
         /\ Before(e, f) \/ Before(f, e) \/ e = f
         /\ \A g \in Endpoints : Before(e, f) /\ Before(f, g) => Before(e, g)
         /\ e.method = "DELETE" /\ ~Before(f, e) => f.method = "DELETE" /\ e.depth >= f.depth
<1> DEFINE depth(x) == IF x.method = "DELETE" THEN x.depth ELSE 0
           rank(x) == MethodOrder[x.method]
<1>1. \A x \in Endpoints : x.method \in {"GET", "POST", "PUT", "PATCH", "DELETE"} /\ x.path \in Nat /\ x.depth \in Nat
  BY EndpointAssumption DEF MethodOrder
<1>2. \A x \in Endpoints : rank(x) \in 0..4 /\ depth(x) \in Nat /\ x.path \in Nat
  BY <1>1 DEF MethodOrder
<1>3. \A x, y \in Endpoints : rank(x) = rank(y) => x.method = y.method
  BY <1>1 DEF MethodOrder
<1>4. \A x, y \in Endpoints : x.method = y.method /\ x.path = y.path => x = y
  BY EndpointAssumption
<1>5. \A x, y : Before(x, y) <=> \/ rank(x) < rank(y)
                                 \/ /\ x.method = y.method
                                    /\ \/ depth(x) > depth(y)
                                       \/ depth(x) = depth(y) /\ x.path < y.path
  BY DEF Before
<1>6. e.method = "DELETE" /\ ~Before(f, e) => f.method = "DELETE" /\ e.depth >= f.depth
  <2> SUFFICES ASSUME e.method = "DELETE", ~Before(f, e) PROVE f.method = "DELETE" /\ e.depth >= f.depth
    OBVIOUS
  <2>0. e.method = "DELETE" /\ ~Before(f, e)
    OBVIOUS
  <2>1. ~(rank(f) < 4)
    BY <1>5, <2>0 DEF MethodOrder
  <2>2. f.method = "DELETE"
    BY <1>1, <2>1 DEF MethodOrder
  <2>3. ~(depth(f) > depth(e))
    BY <1>5, <2>0, <2>2
  <2> QED BY <1>1, <2>0, <2>2, <2>3
<1> HIDE DEF rank, depth
<1>7. ~Before(e, e)
  BY <1>2, <1>5
<1>8. Before(e, f) \/ Before(f, e) \/ e = f
  <2>1. CASE rank(e) = rank(f)
    BY <1>2, <1>3, <1>4, <1>5, <2>1
  <2>2. CASE rank(e) # rank(f)
    BY <1>2, <1>5, <2>2
  <2> QED BY <2>1, <2>2
<1>9. ASSUME NEW g \in Endpoints, Before(e, f), Before(f, g) PROVE Before(e, g)
  <2>1. \A x, y \in Endpoints : x.method = y.method => rank(x) = rank(y)
    BY DEF rank
  <2>2. /\ rank(e) \in 0..4 /\ rank(f) \in 0..4 /\ rank(g) \in 0..4
        /\ depth(e) \in Nat /\ depth(f) \in Nat /\ depth(g) \in Nat
        /\ e.path \in Nat /\ f.path \in Nat /\ g.path \in Nat
    BY <1>2
  <2>3. CASE rank(e) < rank(f) \/ rank(f) < rank(g)
    <3>1. rank(e) <= rank(f) /\ rank(f) <= rank(g)
      BY <1>5, <1>9, <2>1, <2>2
    <3>2. rank(e) < rank(g)
      BY <2>2, <2>3, <3>1
    <3> QED BY <1>5, <3>2
  <2>4. CASE ~(rank(e) < rank(f) \/ rank(f) < rank(g))
    <3>1. /\ e.method = f.method /\ f.method = g.method
          /\ depth(e) > depth(f) \/ (depth(e) = depth(f) /\ e.path < f.path)
          /\ depth(f) > depth(g) \/ (depth(f) = depth(g) /\ f.path < g.path)
      BY <1>5, <1>9, <2>4
    <3>2. depth(e) > depth(g) \/ (depth(e) = depth(g) /\ e.path < g.path)
      BY <2>2, <3>1
    <3> QED BY <1>5, <3>1, <3>2
  <2> QED BY <2>3, <2>4
<1> QED BY <1>6, <1>7, <1>8, <1>9

\* Places count from one to the number of endpoints, each taken once, and
\* Ordered has the endpoint of each.
LEMMA OrderedPlaces ==
  ASSUME NEW b, DOMAIN b.ops \subseteq Endpoints
  PROVE  LET D == Discovered(b)
             N == Cardinality(D)
         IN  /\ D \subseteq Endpoints /\ IsFiniteSet(D) /\ N \in Nat
             /\ \A e \in D : PlaceOf(b, e) \in 1..N
             /\ \A e, f \in D : Before(e, f) => PlaceOf(b, e) < PlaceOf(b, f)
             /\ \A k \in 1..N : Ordered(b)[k] \in D /\ PlaceOf(b, Ordered(b)[k]) = k
<1> DEFINE D == Discovered(b)
           N == Cardinality(D)
           ahead(e) == {f \in D : Before(f, e)}
           spot == [e \in D |-> 1 + Cardinality(ahead(e))]
<1>1. D \subseteq Endpoints /\ IsFiniteSet(D) /\ N \in Nat
  <2>1. D \subseteq Endpoints
    BY DEF Discovered
  <2> QED BY <2>1, EndpointAssumption, FS_Subset, FS_CardinalityType
<1> HIDE DEF D
<1>2. \A e \in D : /\ IsFiniteSet(ahead(e)) /\ Cardinality(ahead(e)) \in Nat /\ Cardinality(ahead(e)) < N
  <2> TAKE e \in D
  <2>1. e \notin ahead(e) /\ ahead(e) \subseteq D
    BY <1>1, BeforeOrders
  <2> HIDE DEF ahead
  <2> QED BY <1>1, <2>1, FS_Subset, FS_CardinalityType
<1>3. \A e \in D : spot[e] \in 1..N
  <2> TAKE e \in D
  <2> DEFINE c == Cardinality(ahead(e))
  <2>1. c \in Nat /\ c < N
    BY <1>2
  <2>2. spot[e] = 1 + c
    OBVIOUS
  <2> HIDE DEF c, spot
  <2> QED BY <1>1, <2>1, <2>2
<1>4. \A e, f \in D : Before(e, f) => spot[e] < spot[f]
  <2> TAKE e, f \in D
  <2> HAVE Before(e, f)
  <2>1. ahead(e) \subseteq ahead(f)
    BY <1>1, BeforeOrders
  <2>2. e \in ahead(f) /\ e \notin ahead(e)
    BY <1>1, BeforeOrders
  <2>3. Cardinality(ahead(e)) < Cardinality(ahead(f))
    <3> HIDE DEF ahead
    <3> QED BY <1>2, <2>1, <2>2, FS_Subset, FS_CardinalityType
  <2>4. spot[e] = 1 + Cardinality(ahead(e)) /\ spot[f] = 1 + Cardinality(ahead(f))
    OBVIOUS
  <2> HIDE DEF ahead, spot
  <2> QED BY <1>2, <2>3, <2>4
<1>5. spot \in [D -> 1..N]
  BY <1>3
<1>6. \A e, f \in D : spot[e] = spot[f] => e = f
  <2> TAKE e, f \in D
  <2>1. Before(e, f) \/ Before(f, e) \/ e = f
    BY <1>1, BeforeOrders
  <2>2. spot[e] \in Int /\ spot[f] \in Int
    BY <1>3
  <2> HIDE DEF spot
  <2> QED BY <1>4, <2>1, <2>2
<1>7. spot \in Injection(D, 1..N)
  <2> HIDE DEF spot
  <2> QED BY <1>5, <1>6 DEF Injection, IsInjective
<1>8. IsFiniteSet(1..N) /\ Cardinality(1..N) = N
  BY <1>1, FS_Interval
<1>9. spot \in Surjection(D, 1..N)
  <2> HIDE DEF spot
  <2> QED BY <1>1, <1>7, <1>8, FS_Injection
<1>10. \A k \in 1..N : \E e \in D : spot[e] = k
  <2> HIDE DEF spot
  <2> QED BY <1>9 DEF Surjection
<1>11. Ordered(b) = [k \in 1..N |-> CHOOSE e \in D : spot[e] = k]
  BY DEF Ordered, D
<1>12. \A k \in 1..N : Ordered(b)[k] \in D /\ spot[Ordered(b)[k]] = k
  <2> HIDE DEF spot
  <2> TAKE k \in 1..N
  <2>1. \E e \in D : spot[e] = k
    BY <1>10
  <2>2. Ordered(b)[k] = CHOOSE e \in D : spot[e] = k
    BY <1>11
  <2> QED BY <2>1, <2>2
<1>13. \A e \in D : spot[e] = PlaceOf(b, e)
  BY DEF PlaceOf, D
<1> HIDE DEF spot
<1> QED BY <1>1, <1>3, <1>4, <1>12, <1>13 DEF D

\* The recursive function of ForEach: the requests of the first endpoints.
Made(b, plan, made) ==
  made = [n \in 0..Cardinality(Discovered(b)) |->
            IF n = 0 THEN <<>> ELSE made[n - 1] \o plan[Ordered(b)[n]]]

\* What it has after each of them.
Makes(b, plan, T, made) ==
  LET N == Cardinality(Discovered(b)) IN
  /\ made \in [0..N -> Seq(T)] /\ made[0] = <<>> /\ ForEach(b, plan) = made[N]
  /\ \A n \in 1..N : made[n] = made[n - 1] \o plan[Ordered(b)[n]]

\* ForEach has the requests of all endpoints, added one endpoint at a time.
LEMMA ForEachUnfold ==
  ASSUME NEW b, DOMAIN b.ops \subseteq Endpoints,
         NEW T, NEW plan \in [Discovered(b) -> Seq(T)]
  PROVE  \E made : Makes(b, plan, T, made)
<1> DEFINE D == Discovered(b)
           N == Cardinality(D)
           V == Seq(T)
           F == [q \in Nat \X V |-> IF q[1] \in 1..N THEN q[2] \o plan[Ordered(b)[q[1]]] ELSE q[2]]
           made == CHOOSE f : Made(b, plan, f)
<1>1. N \in Nat /\ \A k \in 1..N : Ordered(b)[k] \in D
  BY OrderedPlaces
<1>2. F \in [Nat \X V -> V]
  <2>1. ASSUME NEW q \in Nat \X V
        PROVE  (IF q[1] \in 1..N THEN q[2] \o plan[Ordered(b)[q[1]]] ELSE q[2]) \in V
    <3> HIDE DEF N, D
    <3>1. q[2] \in Seq(T)
      OBVIOUS
    <3>2. CASE q[1] \in 1..N
      <4>1. plan[Ordered(b)[q[1]]] \in Seq(T)
        BY <1>1, <3>2 DEF D
      <4>2. q[2] \o plan[Ordered(b)[q[1]]] \in Seq(T)
        BY <3>1, <4>1, ConcatProperties
      <4> QED BY <3>2, <4>2
    <3>3. CASE q[1] \notin 1..N
      BY <3>1, <3>3
    <3> QED BY <3>2, <3>3
  <2> HIDE DEF V, N
  <2> QED BY <2>1
<1>3. <<>> \in V
  OBVIOUS
<1>4. PICK f \in [Nat -> V] : Recurs(f, <<>>, F)
  <2> HIDE DEF V, F
  <2> QED BY <1>2, <1>3, Recursion
<1> DEFINE g == [n \in 0..N |-> f[n]]
<1>5. \A n \in 1..N : f[n] = f[n - 1] \o plan[Ordered(b)[n]]
  <2> SUFFICES ASSUME NEW n \in 1..N PROVE f[n] = f[n - 1] \o plan[Ordered(b)[n]]
    OBVIOUS
  <2> HIDE DEF V
  <2>1. n \in Nat /\ n # 0 /\ n - 1 \in Nat
    BY <1>1
  <2>2. f[n] = F[<<n, f[n - 1]>>]
    <3> HIDE DEF F
    <3> QED BY <1>4, <2>1 DEF Recurs
  <2>3. <<n, f[n - 1]>> \in Nat \X V
    BY <2>1
  <2> QED BY <2>2, <2>3
<1>6. f[0] = <<>>
  <2> HIDE DEF F
  <2> QED BY <1>4 DEF Recurs
<1>7. Made(b, plan, g)
  <2> HIDE DEF F, V, N
  <2>1. ASSUME NEW n \in 0..N
        PROVE  g[n] = IF n = 0 THEN <<>> ELSE g[n - 1] \o plan[Ordered(b)[n]]
    <3>1. CASE n = 0
      BY <1>1, <1>6, <3>1
    <3>2. CASE n # 0
      <4>1. n \in 1..N /\ n - 1 \in 0..N
        BY <1>1, <3>2
      <4>2. g[n] = f[n] /\ g[n - 1] = f[n - 1]
        BY <4>1
      <4> HIDE DEF g
      <4> QED BY <1>5, <3>2, <4>1, <4>2
    <3> QED BY <3>1, <3>2
  <2>2. g = [n \in 0..N |-> g[n]]
    OBVIOUS
  <2> HIDE DEF g
  <2>3. g = [n \in 0..N |-> IF n = 0 THEN <<>> ELSE g[n - 1] \o plan[Ordered(b)[n]]]
    BY <2>1, <2>2, Zenon
  <2> QED BY <2>3 DEF Made, N, D
<1>8. Made(b, plan, made)
  <2> HIDE DEF g
  <2> QED BY <1>7
<1>9. ForEach(b, plan) = made[N]
  BY DEF ForEach, Made
<1> HIDE DEF made, F, g
<1>10. made[0] = <<>> /\ \A n \in 1..N : made[n] = made[n - 1] \o plan[Ordered(b)[n]]
  <2> HIDE DEF V
  <2>1. made = [n \in 0..N |-> IF n = 0 THEN <<>> ELSE made[n - 1] \o plan[Ordered(b)[n]]]
    BY <1>8 DEF Made
  <2> HIDE DEF N
  <2>2. 0 \in 0..N /\ \A n \in 1..N : n \in 0..N /\ n # 0
    BY <1>1
  <2> QED BY <2>1, <2>2
<1>11. made \in [0..N -> Seq(T)]
  <2>1. made = [n \in 0..N |-> made[n]]
    BY <1>8 DEF Made
  <2> DEFINE S == {n \in Nat : n <= N => made[n] \in Seq(T)}
  <2> HIDE DEF N, D
  <2>2. 0 \in S
    <3>1. made[0] \in Seq(T)
      BY <1>3, <1>10
    <3> QED BY <3>1
  <2>3. ASSUME NEW n \in Nat, n \in S PROVE n + 1 \in S
    <3> SUFFICES ASSUME n + 1 <= N PROVE made[n + 1] \in Seq(T)
      OBVIOUS
    <3>1. n + 1 \in 1..N /\ (n + 1) - 1 = n /\ n <= N
      BY <1>1
    <3>2. made[n + 1] = made[n] \o plan[Ordered(b)[n + 1]]
      BY <1>10, <3>1
    <3>3. made[n] \in Seq(T)
      BY <2>3, <3>1
    <3>4. plan[Ordered(b)[n + 1]] \in Seq(T)
      BY <1>1, <3>1 DEF D
    <3>5. made[n] \o plan[Ordered(b)[n + 1]] \in Seq(T)
      BY <3>3, <3>4, ConcatProperties
    <3> QED BY <3>2, <3>5
  <2>4. \A n \in Nat : n \in S
    <3> HIDE DEF S
    <3> QED BY <2>2, <2>3, NatSetInduction
  <2>5. \A n \in 0..N : made[n] \in Seq(T)
    BY <2>4, <1>1
  <2> QED BY <2>1, <2>5
<1>12. Makes(b, plan, T, made)
  <2> HIDE DEF N
  <2> QED BY <1>9, <1>10, <1>11 DEF Makes, N
<1> QED BY <1>12

\* The requests of a plan, in the order of their endpoints.
InOrder(b, plan, R) ==
  /\ \A i \in DOMAIN R : /\ R[i].e \in Discovered(b)
                         /\ \E m \in DOMAIN plan[R[i].e] : R[i] = plan[R[i].e][m]
  /\ \A e \in Discovered(b) : \A m \in DOMAIN plan[e] : \E i \in DOMAIN R : R[i] = plan[e][m]
  /\ \A i, j \in DOMAIN R : i < j => ~Before(R[j].e, R[i].e)

\* The same of the requests of the first n endpoints.
UpTo(b, plan, R, n) ==
  /\ \A i \in DOMAIN R : /\ R[i].e \in Discovered(b) /\ PlaceOf(b, R[i].e) <= n
                         /\ \E m \in DOMAIN plan[R[i].e] : R[i] = plan[R[i].e][m]
  /\ \A e \in Discovered(b) : PlaceOf(b, e) <= n =>
       \A m \in DOMAIN plan[e] : \E i \in DOMAIN R : R[i] = plan[e][m]
  /\ \A i, j \in DOMAIN R : i < j => PlaceOf(b, R[i].e) <= PlaceOf(b, R[j].e)

\* One endpoint more: its requests come after those of all endpoints before it.
LEMMA OneMore ==
  ASSUME NEW b, DOMAIN b.ops \subseteq Endpoints,
         NEW T, NEW plan \in [Discovered(b) -> Seq(T)],
         \A e \in Discovered(b) : \A m \in DOMAIN plan[e] : plan[e][m].e = e,
         NEW n \in Nat, NEW d \in Discovered(b), PlaceOf(b, d) = n + 1,
         \A e \in Discovered(b) : PlaceOf(b, e) = n + 1 => e = d,
         NEW R \in Seq(T), UpTo(b, plan, R, n)
  PROVE  UpTo(b, plan, R \o plan[d], n + 1)
<1> DEFINE P == plan[d]
           W == R \o P
           l == Len(R)
<1>1. P \in Seq(T) /\ Len(P) \in Nat /\ l \in Nat /\ DOMAIN P = 1..Len(P) /\ DOMAIN R = 1..l
  OBVIOUS
<1>2. /\ W \in Seq(T) /\ DOMAIN W = 1..(l + Len(P))
      /\ \A i \in 1..(l + Len(P)) : W[i] = IF i <= l THEN R[i] ELSE P[i - l]
  <2> HIDE DEF P
  <2> QED BY <1>1, ConcatProperties
<1>3. \A e \in Discovered(b) : PlaceOf(b, e) \in Int
  BY OrderedPlaces
<1> HIDE DEF W, l
<1>4. ASSUME NEW i \in DOMAIN W, i <= l
      PROVE  /\ W[i] = R[i] /\ i \in DOMAIN R
             /\ W[i].e \in Discovered(b) /\ PlaceOf(b, W[i].e) <= n
             /\ \E m \in DOMAIN plan[W[i].e] : W[i] = plan[W[i].e][m]
  <2>1. W[i] = R[i] /\ i \in DOMAIN R
    BY <1>1, <1>2, <1>4
  <2> QED BY <2>1 DEF UpTo
<1>5. ASSUME NEW i \in DOMAIN W, ~(i <= l)
      PROVE  /\ W[i].e = d /\ \E m \in DOMAIN plan[d] : W[i] = plan[d][m]
  <2>1. W[i] = P[i - l] /\ i - l \in DOMAIN P
    BY <1>1, <1>2, <1>5
  <2> QED BY <2>1
<1> HIDE DEF P
<1>6. ASSUME NEW i \in DOMAIN W
      PROVE  /\ W[i].e \in Discovered(b) /\ PlaceOf(b, W[i].e) <= n + 1
             /\ \E m \in DOMAIN plan[W[i].e] : W[i] = plan[W[i].e][m]
  <2>1. CASE i <= l
    BY <1>3, <1>4, <2>1
  <2>2. CASE ~(i <= l)
    BY <1>5, <2>2
  <2> QED BY <2>1, <2>2
<1>7. ASSUME NEW e \in Discovered(b), PlaceOf(b, e) <= n + 1, NEW m \in DOMAIN plan[e]
      PROVE  \E i \in DOMAIN W : W[i] = plan[e][m]
  <2>1. CASE e = d
    <3>1. m \in 1..Len(P) /\ plan[e][m] = P[m]
      BY <1>1, <1>7, <2>1 DEF P
    <3>2. l + m \in DOMAIN W /\ ~(l + m <= l) /\ (l + m) - l = m
      BY <1>1, <1>2, <3>1
    <3>3. W[l + m] = P[m]
      BY <1>2, <3>2
    <3> QED BY <3>1, <3>2, <3>3
  <2>2. CASE e # d
    <3>1. PlaceOf(b, e) <= n
      BY <1>3, <1>7, <2>2
    <3>2. PICK i \in DOMAIN R : R[i] = plan[e][m]
      BY <3>1, <1>7 DEF UpTo
    <3>3. i \in DOMAIN W /\ W[i] = R[i]
      BY <1>1, <1>2
    <3> QED BY <3>2, <3>3
  <2> QED BY <2>1, <2>2
<1>8. ASSUME NEW i \in DOMAIN W, NEW j \in DOMAIN W, i < j
      PROVE  PlaceOf(b, W[i].e) <= PlaceOf(b, W[j].e)
  <2>0. i \in Nat /\ j \in Nat
    BY <1>1, <1>2
  <2>1. CASE j <= l
    <3>1. i <= l
      BY <1>1, <1>8, <2>0, <2>1
    <3>2. W[i] = R[i] /\ i \in DOMAIN R /\ W[j] = R[j] /\ j \in DOMAIN R
      BY <1>4, <2>1, <3>1
    <3> QED BY <1>8, <3>2 DEF UpTo
  <2>2. CASE ~(j <= l)
    BY <1>5, <1>6, <2>2
  <2> QED BY <2>1, <2>2
<1>9. UpTo(b, plan, W, n + 1)
  BY <1>6, <1>7, <1>8 DEF UpTo
<1> QED BY <1>9 DEF W, P

\* ForEach sends the requests of every endpoint that was discovered, and of no
\* other, in the order that Before gives.
LEMMA ForEachOrder ==
  ASSUME NEW b, DOMAIN b.ops \subseteq Endpoints,
         NEW T, NEW plan \in [Discovered(b) -> Seq(T)],
         \A e \in Discovered(b) : \A m \in DOMAIN plan[e] : plan[e][m].e = e
  PROVE  ForEach(b, plan) \in Seq(T) /\ InOrder(b, plan, ForEach(b, plan))
<1> DEFINE D == Discovered(b)
           N == Cardinality(D)
<1>1. /\ D \subseteq Endpoints /\ N \in Nat
      /\ \A e \in D : PlaceOf(b, e) \in 1..N
      /\ \A e, f \in D : Before(e, f) => PlaceOf(b, e) < PlaceOf(b, f)
      /\ \A k \in 1..N : Ordered(b)[k] \in D /\ PlaceOf(b, Ordered(b)[k]) = k
  BY OrderedPlaces
<1>2. PICK made : Makes(b, plan, T, made)
  BY ForEachUnfold
<1>2a. /\ made \in [0..N -> Seq(T)] /\ made[0] = <<>> /\ ForEach(b, plan) = made[N]
       /\ \A n \in 1..N : made[n] = made[n - 1] \o plan[Ordered(b)[n]]
  BY <1>2 DEF Makes
<1> HIDE DEF N, D
<1>3. \A e, f \in D : PlaceOf(b, e) = PlaceOf(b, f) => e = f
  <2> TAKE e, f \in D
  <2>1. Before(e, f) \/ Before(f, e) \/ e = f
    BY <1>1, BeforeOrders
  <2>2. PlaceOf(b, e) \in Int /\ PlaceOf(b, f) \in Int
    BY <1>1
  <2> QED BY <1>1, <2>1, <2>2
<1> DEFINE S == {n \in Nat : n <= N => UpTo(b, plan, made[n], n)}
<1>4. 0 \in S
  <2>1. DOMAIN made[0] = {}
    <3>1. DOMAIN <<>> = {}
      OBVIOUS
    <3> QED BY <1>2a, <3>1
  <2>2. \A e \in D : ~(PlaceOf(b, e) <= 0)
    BY <1>1
  <2>3. UpTo(b, plan, made[0], 0)
    BY <2>1, <2>2 DEF UpTo, D
  <2> QED BY <2>3
<1>5. ASSUME NEW n \in Nat, n \in S PROVE n + 1 \in S
  <2> SUFFICES ASSUME n + 1 <= N PROVE UpTo(b, plan, made[n + 1], n + 1)
    OBVIOUS
  <2> DEFINE d == Ordered(b)[n + 1]
  <2>1. n + 1 \in 1..N /\ (n + 1) - 1 = n /\ n <= N /\ n \in 0..N
    BY <1>1
  <2>2. d \in D /\ PlaceOf(b, d) = n + 1 /\ \A e \in D : PlaceOf(b, e) = n + 1 => e = d
    BY <1>1, <1>3, <2>1
  <2>3. made[n + 1] = made[n] \o plan[d]
    BY <1>2a, <2>1
  <2>4. made[n] \in Seq(T) /\ UpTo(b, plan, made[n], n)
    BY <1>2a, <1>5, <2>1
  <2> HIDE DEF d
  <2>5. UpTo(b, plan, made[n] \o plan[d], n + 1)
    BY <2>2, <2>4, OneMore DEF D
  <2> QED BY <2>3, <2>5
<1>6. \A n \in Nat : n \in S
  <2> HIDE DEF S
  <2> QED BY <1>4, <1>5, NatSetInduction
<1>7. UpTo(b, plan, ForEach(b, plan), N)
  BY <1>1, <1>2a, <1>6
<1>8. ForEach(b, plan) \in Seq(T)
  BY <1>1, <1>2a
<1> DEFINE R == ForEach(b, plan)
<1> HIDE DEF R
<1>9. ASSUME NEW i \in DOMAIN R, NEW j \in DOMAIN R, i < j PROVE ~Before(R[j].e, R[i].e)
  <2>1. R[i].e \in D /\ R[j].e \in D /\ PlaceOf(b, R[i].e) <= PlaceOf(b, R[j].e)
    BY <1>7, <1>9 DEF UpTo, R, D
  <2>2. PlaceOf(b, R[i].e) \in Int /\ PlaceOf(b, R[j].e) \in Int
    BY <1>1, <2>1
  <2> QED BY <1>1, <2>1, <2>2
<1>10. \A e \in D : PlaceOf(b, e) <= N
  BY <1>1
<1>11. InOrder(b, plan, R)
  BY <1>7, <1>9, <1>10 DEF UpTo, InOrder, R, D
<1> QED BY <1>8, <1>11 DEF R

(* ---- What a check finds ------------------------------------------------------------- *)

\* What is assumed of a build.
IsBuild(b) ==
  /\ DOMAIN b.ops \subseteq Endpoints
  /\ \A e \in DOMAIN b.ops :
       LET o == b.ops[e] IN
       /\ o.authed \in BOOLEAN /\ o.guarded \in BOOLEAN /\ o.lists \in BOOLEAN /\ o.audits \in Nat
       /\ o.lists => e.method = "GET" /\ e.params = {} /\ e.body = {}
       /\ o.replay \in {"replays", "repeats", "differs"}
       /\ o.accepts \in BOOLEAN /\ o.creates \in BOOLEAN /\ o.says \subseteq {"answers", "documents"}
       /\ \A r \in DOMAIN o.refused : o.refused[r] \in {404, 409, 422}

\* The findings J of a rule, before exemptions, tell the truth about a build:
\* each that counts is of an endpoint that is at fault, and every endpoint that
\* breaks the rule, where a probe looks, has one.
Tells(rule, b, J) ==
  /\ IsFiniteSet(J)
  /\ \A f \in J : \E endpoint, severity, what, which :
                    f = Finding(LabelOf[rule], endpoint, severity, what, which)
  /\ \A f \in J : Counted(f) => \E e \in Discovered(b) : f.endpoint = e.name /\ Faulted(rule, b, e)
  /\ \A e \in Discovered(b) : ~KeepsRule(rule, b, e) /\ ~Unseen(rule, b, e) =>
       \E f \in J : f.endpoint = e.name /\ Counted(f)

\* What is made of the members of a finite set.
LEMMA MadeFinite ==
  ASSUME NEW I, IsFiniteSet(I), NEW made
  PROVE  IsFiniteSet({made[i] : i \in I})
<1> DEFINE J == {made[i] : i \in I}
           f == [i \in I |-> made[i]]
<1>1. f \in Surjection(I, J)
  BY DEF Surjection
<1> HIDE DEF f
<1>2. IsFiniteSet(J)
  <2> HIDE DEF J
  <2> QED BY <1>1, FS_Surjection
<1> QED BY <1>2

\* The indices of some requests, and what is made of them.
LEMMA FindingsFinite ==
  ASSUME NEW T, NEW R \in Seq(T), NEW I \in SUBSET DOMAIN R, NEW made
  PROVE  IsFiniteSet({made[i] : i \in I})
<1>1. IsFiniteSet(DOMAIN R)
  <2>1. DOMAIN R = 1..Len(R) /\ Len(R) \in Nat
    OBVIOUS
  <2> QED BY <2>1, FS_Interval
<1>2. IsFiniteSet(I)
  BY <1>1, FS_Subset
<1> QED BY <1>2, MadeFinite

\* Whether the data refuse a request, and how; never, where they refuse no
\* request of its kind.
Refused(b, p) == <<p.kind, p.one>> \in DOMAIN b.ops[p.e].refused
Refusal(b, p) == b.ops[p.e].refused[<<p.kind, p.one>>]
LEMMA NotRefused ==
  ASSUME NEW b, NEW e, NEW p, p.e = e, NEW kinds, p.kind \in kinds, ~Refuses(b.ops[e], kinds)
  PROVE  b.ops[e].accepts /\ ~Refused(b, p)
<1>1. <<p.kind, p.one>>[1] = p.kind
  OBVIOUS
<1> QED BY <1>1 DEF Refuses, Refused

\* Where an id of an endpoint's path is gone that no other delete of its depth
\* takes away, a request to the endpoint itself has succeeded before.
LEMMA GoneByItself ==
  ASSUME NEW b, IsBuild(b), NEW plan, NEW T, NEW R \in Seq(T), InOrder(b, plan, R),
         NEW i \in DOMAIN R, ~Orphaned(b, R[i].e),
         NEW org, NEW x \in R[i].e.params, <<org, x>> \in Gone(b, R, i - 1)
  PROVE  \E j \in DOMAIN R : j < i /\ R[j].e = R[i].e /\ Status(b, R[j], Gone(b, R, j - 1)) = OK
<1> DEFINE e == R[i].e
<1>1. i \in Nat /\ i # 0 /\ i - 1 \in Nat /\ DOMAIN R = 1..Len(R) /\ Len(R) \in Nat
  OBVIOUS
<1>2. PICK j \in 1..(i - 1) : /\ R[j].e.method = "DELETE"
                              /\ <<org, x>> = <<OrgOf(R[j], R[j].e.last), R[j].e.last>>
                              /\ Status(b, R[j], Gone(b, R, j - 1)) = OK
  BY <1>1, GoneByDelete
<1>3. j \in DOMAIN R /\ j < i
  BY <1>1
<1> DEFINE d == R[j].e
<1>4. d \in Discovered(b) /\ e \in Discovered(b) /\ ~Before(e, d)
  BY <1>3 DEF InOrder
<1>5. d \in Endpoints /\ e \in Endpoints
  BY <1>4 DEF Discovered, IsBuild
<1>6. d.method = "DELETE" /\ d.last \in e.params
  BY <1>2
<1> HIDE DEF d, e
<1>7. e.method = "DELETE" /\ d.depth >= e.depth
  BY <1>4, <1>5, <1>6, BeforeOrders
<1>8. d = e
  BY <1>4, <1>6, <1>7 DEF Orphaned, e
<1> QED BY <1>2, <1>3, <1>8 DEF d, e

\* The statuses of an answer, by name.
NotFound == 404
Invalid == 422
Unauthorized == 401
Forbidden == 403
Conflict == 409

(* R2 and R5: each write once, as a viewer and as an admin. *)

WriteOf(e, role) == Request(e, "write", As(role), "home", "", "home")

\* Each write has one request, and they are in order.
LEMMA WritesInOrder ==
  ASSUME NEW b, IsBuild(b), NEW role
  PROVE  LET R == Writes(b, role) IN
         /\ \E T : R \in Seq(T)
         /\ \A i \in DOMAIN R : /\ R[i].e \in Discovered(b) /\ IsWrite(R[i].e)
                                /\ R[i] = WriteOf(R[i].e, role)
         /\ \A e \in Discovered(b) : IsWrite(e) => \E i \in DOMAIN R : R[i] = WriteOf(e, role)
         /\ \E plan : InOrder(b, plan, R)
<1> DEFINE D == Discovered(b)
           T == {WriteOf(e, role) : e \in D}
           plan == [e \in D |-> IF IsWrite(e) THEN <<WriteOf(e, role)>> ELSE <<>>]
           R == Writes(b, role)
<1>1. R = ForEach(b, plan)
  BY DEF Writes, WriteOf
<1>2. \A e \in D : plan[e] \in Seq(T)
  <2> TAKE e \in D
  <2>1. WriteOf(e, role) \in T
    OBVIOUS
  <2>2. plan[e] = <<WriteOf(e, role)>> \/ plan[e] = <<>>
    OBVIOUS
  <2> DEFINE p == WriteOf(e, role)
  <2> HIDE DEF T, plan, p
  <2>3. <<p>> \in Seq(T) /\ <<>> \in Seq(T)
    BY <2>1 DEF p
  <2> QED BY <2>2, <2>3 DEF p
<1>3. plan \in [D -> Seq(T)]
  <2> HIDE DEF T
  <2> QED BY <1>2
<1>4. \A e \in D : \A m \in DOMAIN plan[e] : IsWrite(e) /\ plan[e][m] = WriteOf(e, role)
  <2> TAKE e \in D
  <2>1. CASE IsWrite(e)
    <3>1. plan[e] = <<WriteOf(e, role)>>
      BY <2>1
    <3> HIDE DEF plan
    <3> QED BY <2>1, <3>1
  <2>2. CASE ~IsWrite(e)
    <3>1. plan[e] = <<>> /\ DOMAIN <<>> = {}
      BY <2>2
    <3> HIDE DEF plan
    <3> QED BY <3>1
  <2> QED BY <2>1, <2>2
<1>5. \A e \in D : IsWrite(e) => 1 \in DOMAIN plan[e] /\ plan[e][1] = WriteOf(e, role)
  <2> TAKE e \in D
  <2> HAVE IsWrite(e)
  <2>1. plan[e] = <<WriteOf(e, role)>>
    OBVIOUS
  <2> HIDE DEF plan
  <2> QED BY <2>1
<1>6. \A e \in D : WriteOf(e, role).e = e
  BY DEF WriteOf, Request
<1> HIDE DEF plan, T
<1>7. R \in Seq(T) /\ InOrder(b, plan, R)
  <2>1. \A e \in D : \A m \in DOMAIN plan[e] : plan[e][m].e = e
    BY <1>4, <1>6
  <2> QED BY <1>1, <1>3, <2>1, ForEachOrder DEF IsBuild
<1> HIDE DEF R
<1>8. \A i \in DOMAIN R : R[i].e \in D /\ IsWrite(R[i].e) /\ R[i] = WriteOf(R[i].e, role)
  BY <1>4, <1>7 DEF InOrder
<1>9. \A e \in D : IsWrite(e) => \E i \in DOMAIN R : R[i] = WriteOf(e, role)
  BY <1>5, <1>7 DEF InOrder
<1> QED BY <1>7, <1>8, <1>9 DEF R

\* R2: a write that is not refused as a role is of an endpoint that no role
\* guards, whatever else it answers.
LEMMA RolesTold ==
  ASSUME NEW b, IsBuild(b)
  PROVE  \E J : Roles(b).findings = ApplyExemptions(J) /\ Tells("r2_roles", b, J)
<1> DEFINE D == Discovered(b)
           R == Writes(b, "viewer")
           a == Answers(b, R)
           made == [i \in DOMAIN R |-> Finding("R2", R[i].e.name, "violation", "status", "")]
           I == {i \in DOMAIN R : a[i].status # 403}
           J == {made[i] : i \in I}
<1>1. /\ \E T : R \in Seq(T)
      /\ \A i \in DOMAIN R : R[i].e \in D /\ IsWrite(R[i].e) /\ R[i] = WriteOf(R[i].e, "viewer")
      /\ \A e \in D : IsWrite(e) => \E i \in DOMAIN R : R[i] = WriteOf(e, "viewer")
  BY WritesInOrder
<1>2. Roles(b).findings = ApplyExemptions(J)
  <2>1. Roles(b).findings = ApplyExemptions({Finding("R2", R[i].e.name, "violation", "status", "") : i \in I})
    BY DEF Roles, Judged, Report
  <2>2. {Finding("R2", R[i].e.name, "violation", "status", "") : i \in I} = J
    OBVIOUS
  <2> QED BY <2>1, <2>2
<1>3. ASSUME NEW i \in DOMAIN R
      PROVE  a[i].status # 403 <=> ~KeepsRule("r2_roles", b, R[i].e)
  <2> DEFINE e == R[i].e
             gone == Gone(b, R, i - 1)
  <2>1. a[i].status = Status(b, WriteOf(e, "viewer"), gone)
    BY <1>1 DEF Answers, Answer
  <2>2. /\ e \in D /\ IsWrite(e) /\ b.ops[e].guarded \in BOOLEAN
        /\ \A r \in DOMAIN b.ops[e].refused : b.ops[e].refused[r] \in {404, 409, 422}
    BY <1>1 DEF IsBuild, Discovered
  <2> HIDE DEF e, gone, a, R
  <2>3. Status(b, WriteOf(e, "viewer"), gone) = 403 <=> b.ops[e].guarded
    <3> DEFINE p == WriteOf(e, "viewer")
    <3>1. p.by = [org |-> "home", role |-> "viewer"] /\ p.e = e /\ p.by # Nobody
      BY DEF WriteOf, Request, As, Nobody
    <3> HIDE DEF p
    <3>2. Refused(b, p) => Refusal(b, p) \in {404, 409, 422}
      <4> DEFINE key == <<p.kind, p.one>>
      <4>1. /\ Refused(b, p) <=> key \in DOMAIN b.ops[e].refused
            /\ Refusal(b, p) = b.ops[e].refused[key]
        BY <3>1 DEF Refused, Refusal
      <4> HIDE DEF key
      <4> QED BY <2>2, <4>1
    <3> DEFINE o == b.ops[e]
               strange(param, org) == p.by # Nobody /\ param \in o.scoped /\ org # p.by.org
               foreign == \E x \in e.params : strange(x, OrgOf(p, x)) \/ <<OrgOf(p, x), x>> \in gone
               alien == \E x \in e.body : strange(x, p.body)
               differs == p.again /\ o.replay = "differs"
    <3>3. Status(b, p, gone) =
            IF p.by = Nobody /\ o.authed THEN Unauthorized
            ELSE IF p.by.role = "viewer" /\ IsWrite(e) /\ o.guarded THEN Forbidden
            ELSE IF ~o.accepts THEN Invalid
            ELSE IF foreign THEN NotFound
            ELSE IF alien THEN Invalid
            ELSE IF Refused(b, p) THEN Refusal(b, p)
            ELSE IF differs THEN Conflict ELSE OK
      BY <3>1 DEF Status, NotFound, Invalid, Unauthorized, Forbidden, Conflict, Refused, Refusal
    <3>4. p.by # Nobody /\ p.by.role = "viewer" /\ IsWrite(e)
      BY <2>2, <3>1
    <3> HIDE DEF foreign, alien, differs, o
    <3>5. CASE o.guarded
      <4>1. Status(b, p, gone) = Forbidden
        BY <3>3, <3>4, <3>5, Zenon
      <4> QED BY <3>5, <4>1 DEF Forbidden, o, p
    <3>6. CASE ~o.guarded
      <4>1. Status(b, p, gone) = IF ~o.accepts THEN Invalid
                                 ELSE IF foreign THEN NotFound
                                 ELSE IF alien THEN Invalid
                                 ELSE IF Refused(b, p) THEN Refusal(b, p)
                                 ELSE IF differs THEN Conflict ELSE OK
        BY <3>3, <3>4, <3>6, Zenon
      <4>2. \/ Status(b, p, gone) \in {Invalid, NotFound, Conflict, OK}
            \/ Refused(b, p) /\ Status(b, p, gone) = Refusal(b, p)
        BY <4>1
      <4>3. Status(b, p, gone) # 403
        BY <3>2, <4>2 DEF Invalid, NotFound, Conflict, OK
      <4> QED BY <3>6, <4>3 DEF o, p
    <3> QED BY <3>5, <3>6
  <2>4. KeepsRule("r2_roles", b, e) <=> b.ops[e].guarded
    BY <2>2 DEF KeepsRule
  <2> QED BY <2>1, <2>3, <2>4 DEF e
<1>4. IsFiniteSet(J)
  <2>1. PICK T : R \in Seq(T)
    BY <1>1
  <2>2. I \in SUBSET DOMAIN R
    OBVIOUS
  <2> HIDE DEF made, R, I
  <2> QED BY <2>1, <2>2, FindingsFinite
<1>5. ASSUME NEW f \in J
      PROVE  /\ \E e \in D : f.endpoint = e.name /\ Faulted("r2_roles", b, e)
             /\ \E endpoint, severity, what, which :
                  f = Finding(LabelOf["r2_roles"], endpoint, severity, what, which) /\ Counted(f)
  <2>1. PICK i \in I : f = made[i]
    OBVIOUS
  <2>2. f = Finding("R2", R[i].e.name, "violation", "status", "")
    BY <2>1
  <2>3. f.endpoint = R[i].e.name /\ Counted(f) /\ LabelOf["r2_roles"] = "R2"
    BY <2>2 DEF Finding, Counted, LabelOf
  <2>4. i \in DOMAIN R /\ a[i].status # 403
    OBVIOUS
  <2> HIDE DEF made, R, a
  <2>5. R[i].e \in D /\ Faulted("r2_roles", b, R[i].e)
    BY <1>1, <1>3, <2>4 DEF Faulted
  <2> HIDE DEF D, I, J
  <2> QED BY <2>2, <2>3, <2>5
<1>6. ASSUME NEW e \in D, ~KeepsRule("r2_roles", b, e)
      PROVE  \E f \in J : f.endpoint = e.name
  <2>1. IsWrite(e)
    BY <1>6 DEF KeepsRule
  <2>2. PICK i \in DOMAIN R : R[i] = WriteOf(e, "viewer")
    BY <1>1, <2>1
  <2>3. R[i].e = e
    <3>1. WriteOf(e, "viewer").e = e
      BY DEF WriteOf, Request
    <3> QED BY <2>2, <3>1
  <2>4. i \in I
    BY <1>3, <1>6, <2>3
  <2>5. made[i].endpoint = e.name
    BY <2>3 DEF Finding
  <2> HIDE DEF made, I
  <2> QED BY <2>4, <2>5
<1> HIDE DEF J
<1>7. Tells("r2_roles", b, J)
  BY <1>4, <1>5, <1>6 DEF Tells
<1> QED BY <1>2, <1>7

\* A request of an admin with nothing but its own org's ids.
OwnIds(p) == p.by = As("admin") /\ p.ids = "home" /\ p.one = "" /\ p.body = "home"

\* An admin's request with the ids of its own org, of what is not gone, is
\* refused by the schema, the data, and a key that was seen.
LEMMA OwnIdsAnswer ==
  ASSUME NEW b, IsBuild(b), NEW e \in Discovered(b), NEW p, p.e = e, OwnIds(p), NEW gone,
         \A x \in e.params : <<"home", x>> \notin gone
  PROVE  Status(b, p, gone) =
           IF ~b.ops[e].accepts THEN Invalid
           ELSE IF Refused(b, p) THEN Refusal(b, p)
           ELSE IF p.again /\ b.ops[e].replay = "differs" THEN Conflict ELSE OK
<1>1. p.by.org = "home" /\ p.by.role = "admin" /\ p.by # Nobody
  <2>1. As("admin").org = "home" /\ As("admin").role = "admin"
    BY DEF As
  <2>2. Nobody.org = "none"
    BY DEF Nobody
  <2>3. As("admin") # Nobody
    BY <2>1, <2>2
  <2> QED BY <2>1, <2>3 DEF OwnIds
<1>2. \A x \in e.params : OrgOf(p, x) = "home"
  <2>1. "" \notin e.params
    BY EndpointAssumption DEF Discovered, IsBuild
  <2> QED BY <2>1 DEF OrgOf, OwnIds
<1> DEFINE o == b.ops[e]
           strange(param, org) == p.by # Nobody /\ param \in o.scoped /\ org # p.by.org
<1>3. ~(p.by = Nobody /\ o.authed) /\ ~(p.by.role = "viewer" /\ IsWrite(e) /\ o.guarded)
  BY <1>1
<1>4. ~\E x \in e.params : strange(x, OrgOf(p, x)) \/ <<OrgOf(p, x), x>> \in gone
  BY <1>1, <1>2
<1>5. ~\E x \in e.body : strange(x, p.body)
  BY <1>1 DEF OwnIds
<1>6. Status(b, p, gone) =
        IF p.by = Nobody /\ o.authed THEN Unauthorized
        ELSE IF p.by.role = "viewer" /\ IsWrite(e) /\ o.guarded THEN Forbidden
        ELSE IF ~o.accepts THEN Invalid
        ELSE IF \E x \in e.params : strange(x, OrgOf(p, x)) \/ <<OrgOf(p, x), x>> \in gone THEN NotFound
        ELSE IF \E x \in e.body : strange(x, p.body) THEN Invalid
        ELSE IF Refused(b, p) THEN Refusal(b, p)
        ELSE IF p.again /\ o.replay = "differs" THEN Conflict ELSE OK
  BY DEF Status, NotFound, Invalid, Unauthorized, Forbidden, Conflict, Refused, Refusal
<1> HIDE DEF strange, o
<1>7. Status(b, p, gone) =
        IF ~o.accepts THEN Invalid
        ELSE IF Refused(b, p) THEN Refusal(b, p)
        ELSE IF p.again /\ o.replay = "differs" THEN Conflict ELSE OK
  BY <1>3, <1>4, <1>5, <1>6, Zenon
<1> QED BY <1>7 DEF o

\* The first request to an endpoint among those of a check.
LEMMA FirstRequest ==
  ASSUME NEW T, NEW R \in Seq(T), NEW X \in SUBSET DOMAIN R, X # {}
  PROVE  \E i \in X : \A j \in DOMAIN R : j < i => j \notin X
<1>1. DOMAIN R \subseteq Nat
  OBVIOUS
<1>2. X \in SUBSET Nat
  BY <1>1
<1>3. PICK i \in X : \A k \in X : i <= k
  BY <1>2, NatSetMin
<1>4. \A j \in DOMAIN R : j < i => j \notin X
  <2> SUFFICES ASSUME NEW j \in X, j < i PROVE FALSE
    OBVIOUS
  <2> QED BY <1>2, <1>3
<1> QED BY <1>3, <1>4

\* R5: a write that succeeds has written one audit row, or its endpoint is at
\* fault; the first request to an endpoint that does not refuse it succeeds,
\* where no other delete has taken away what it names.
LEMMA AuditTold ==
  ASSUME NEW b, IsBuild(b)
  PROVE  \E J : Audit(b).findings = ApplyExemptions(J) /\ Tells("r5_audit", b, J)
<1> DEFINE D == Discovered(b)
           R == Writes(b, "admin")
           a == Answers(b, R)
           expected(i) == IF a[i].status = OK THEN 1 ELSE 0
           what(i) == IF a[i].audits < expected(i) THEN "missing" ELSE "extra"
           made == [i \in DOMAIN R |-> Finding("R5", R[i].e.name, "violation", what(i), "")]
           I == {i \in DOMAIN R : a[i].audits # expected(i)}
           J == {made[i] : i \in I}
<1>1. /\ \E T : R \in Seq(T)
      /\ \A i \in DOMAIN R : R[i].e \in D /\ IsWrite(R[i].e) /\ R[i] = WriteOf(R[i].e, "admin")
      /\ \A e \in D : IsWrite(e) => \E i \in DOMAIN R : R[i] = WriteOf(e, "admin")
      /\ \E plan : InOrder(b, plan, R)
  BY WritesInOrder
<1>2. Audit(b).findings = ApplyExemptions(J)
  <2>1. Audit(b).findings = ApplyExemptions({Finding("R5", R[i].e.name, "violation", what(i), "") : i \in I})
    BY DEF Audit, Judged, Report
  <2>2. {Finding("R5", R[i].e.name, "violation", what(i), "") : i \in I} = J
    OBVIOUS
  <2> QED BY <2>1, <2>2
<1>3. ASSUME NEW i \in DOMAIN R
      PROVE  /\ a[i].status = Status(b, R[i], Gone(b, R, i - 1))
             /\ a[i].audits = IF a[i].status = OK THEN b.ops[R[i].e].audits ELSE 0
             /\ b.ops[R[i].e].audits \in Nat
             /\ KeepsRule("r5_audit", b, R[i].e) <=> b.ops[R[i].e].audits = 1
  <2> DEFINE e == R[i].e
             gone == Gone(b, R, i - 1)
  <2>1. a[i] = Answer(b, R[i], gone)
    BY DEF Answers
  <2>2. e \in D /\ IsWrite(e) /\ b.ops[e].audits \in Nat
    BY <1>1 DEF IsBuild, Discovered
  <2> HIDE DEF gone, a, R
  <2>3. a[i].status = Status(b, R[i], gone) /\ a[i].audits = AuditRows(b, R[i], Status(b, R[i], gone))
    BY <2>1 DEF Answer
  <2>4. a[i].audits = IF a[i].status = OK THEN b.ops[e].audits ELSE 0
    BY <2>2, <2>3 DEF AuditRows
  <2>5. KeepsRule("r5_audit", b, e) <=> b.ops[e].audits = 1
    BY <2>2 DEF KeepsRule
  <2> QED BY <2>2, <2>3, <2>4, <2>5 DEF gone
<1>4. IsFiniteSet(J)
  <2>1. PICK T : R \in Seq(T)
    BY <1>1
  <2>2. I \in SUBSET DOMAIN R
    OBVIOUS
  <2> HIDE DEF made, R, I
  <2> QED BY <2>1, <2>2, FindingsFinite
<1>5. ASSUME NEW f \in J
      PROVE  /\ \E e \in D : f.endpoint = e.name /\ Faulted("r5_audit", b, e)
             /\ \E endpoint, severity, kind, which :
                  f = Finding(LabelOf["r5_audit"], endpoint, severity, kind, which) /\ Counted(f)
  <2>1. PICK i \in I : f = made[i]
    OBVIOUS
  <2>2. f = Finding("R5", R[i].e.name, "violation", what(i), "")
    BY <2>1
  <2>3. i \in DOMAIN R /\ a[i].audits # expected(i)
    OBVIOUS
  <2> HIDE DEF made, R, a, what
  <2>4. f.endpoint = R[i].e.name /\ Counted(f) /\ LabelOf["r5_audit"] = "R5"
    BY <2>2 DEF Finding, Counted, LabelOf
  <2>5. R[i].e \in D /\ Faulted("r5_audit", b, R[i].e)
    BY <1>1, <1>3, <2>3 DEF Faulted
  <2> QED BY <2>2, <2>4, <2>5
<1>6. ASSUME NEW e \in D, ~KeepsRule("r5_audit", b, e), ~Unseen("r5_audit", b, e)
      PROVE  \E f \in J : f.endpoint = e.name
  <2>1. IsWrite(e) /\ ~Orphaned(b, e) /\ ~Refuses(b.ops[e], {"write"})
    BY <1>6 DEF KeepsRule, Unseen
  <2> DEFINE X == {j \in DOMAIN R : R[j].e = e}
  <2>2. PICK T : R \in Seq(T)
    BY <1>1
  <2>3. X # {}
    <3>1. PICK j \in DOMAIN R : R[j] = WriteOf(e, "admin")
      BY <1>1, <2>1
    <3>2. WriteOf(e, "admin").e = e
      BY DEF WriteOf, Request
    <3> HIDE DEF R
    <3> QED BY <3>1, <3>2
  <2>4. PICK i \in X : \A j \in DOMAIN R : j < i => j \notin X
    <3>1. X \in SUBSET DOMAIN R
      OBVIOUS
    <3> HIDE DEF X, R
    <3> QED BY <2>2, <2>3, <3>1, FirstRequest
  <2> HIDE DEF R, a
  <2>5. i \in DOMAIN R /\ R[i].e = e /\ \A j \in DOMAIN R : j < i => R[j].e # e
    BY <2>4
  <2>6. PICK plan : InOrder(b, plan, R)
    BY <1>1
  <2>7. \A x \in e.params : <<"home", x>> \notin Gone(b, R, i - 1)
    BY <2>1, <2>2, <2>5, <2>6, GoneByItself
  <2>8. Status(b, R[i], Gone(b, R, i - 1)) = OK
    <3> DEFINE p == R[i]
    <3>1. p = WriteOf(e, "admin")
      BY <1>1, <2>5
    <3> HIDE DEF p
    <3>2. p.e = e /\ p.again = FALSE /\ p.kind = "write"
      BY <3>1 DEF WriteOf, Request
    <3>3. OwnIds(p)
      BY <3>1 DEF WriteOf, Request, OwnIds
    <3>4. b.ops[e].accepts /\ ~Refused(b, p)
      BY <2>1, <3>2, NotRefused
    <3>5. Status(b, p, Gone(b, R, i - 1)) =
            IF ~b.ops[e].accepts THEN Invalid
            ELSE IF Refused(b, p) THEN Refusal(b, p)
            ELSE IF p.again /\ b.ops[e].replay = "differs" THEN Conflict ELSE OK
      BY <2>7, <3>2, <3>3, OwnIdsAnswer
    <3> QED BY <3>2, <3>4, <3>5 DEF p
  <2>9. a[i].audits # 1 /\ a[i].status = OK
    BY <1>3, <1>6, <2>5, <2>8
  <2>10. i \in I
    BY <2>5, <2>9
  <2>11. made[i].endpoint = e.name
    BY <2>5 DEF Finding
  <2> HIDE DEF made, I
  <2> QED BY <2>10, <2>11
<1> HIDE DEF J
<1>7. Tells("r5_audit", b, J)
  BY <1>4, <1>5, <1>6 DEF Tells
<1> QED BY <1>2, <1>7

(* R4: each POST with a key, and the create endpoints again. *)

\* What the requests with a key ask for.
LEMMA KeyedFields ==
  ASSUME NEW e, NEW p, p = Keyed(e) \/ p = [Keyed(e) EXCEPT !.again = TRUE]
  PROVE  /\ p.e = e /\ p.kind = "keyed" /\ p.one = "" /\ OwnIds(p)
         /\ p = Keyed(e) => p.again = FALSE
         /\ p # Keyed(e) => p.again = TRUE
<1> DEFINE k == Keyed(e)
<1>1. /\ k.e = e /\ k.by = As("admin") /\ k.ids = "home" /\ k.one = "" /\ k.body = "home"
      /\ k.kind = "keyed" /\ k.again = FALSE
      /\ DOMAIN k = {"e", "kind", "by", "ids", "one", "body", "again"}
  BY DEF Keyed, Request
<1> HIDE DEF k
<1>2. p = k \/ p = [k EXCEPT !.again = TRUE]
  BY DEF k
<1>3. /\ p.e = e /\ p.by = As("admin") /\ p.ids = "home" /\ p.one = "" /\ p.body = "home"
      /\ p.kind = "keyed" /\ (p = k => p.again = FALSE) /\ (p # k => p.again = TRUE)
  BY <1>1, <1>2
<1> QED BY <1>3 DEF k, OwnIds

\* An endpoint that takes the first request with a key.
Takes(b, e) == b.ops[e].accepts /\ <<"keyed", "">> \notin DOMAIN b.ops[e].refused

\* What it answers to either.
LEMMA KeyedAnswer ==
  ASSUME NEW b, IsBuild(b), NEW e \in Discovered(b),
         NEW p, p = Keyed(e) \/ p = [Keyed(e) EXCEPT !.again = TRUE], NEW s, s = Status(b, p, {})
  PROVE  /\ ~Takes(b, e) => s # OK
         /\ Takes(b, e) => s = IF p.again /\ b.ops[e].replay = "differs" THEN Conflict ELSE OK
<1> DEFINE key == <<"keyed", "">>
           o == b.ops[e]
<1>1. \A r \in DOMAIN o.refused : o.refused[r] \in {404, 409, 422}
  BY DEF IsBuild, Discovered
<1>2. p.e = e /\ <<p.kind, p.one>> = key
  BY KeyedFields
<1>3. OwnIds(p)
  BY KeyedFields
<1>4. s = IF ~b.ops[e].accepts THEN Invalid
          ELSE IF Refused(b, p) THEN Refusal(b, p)
          ELSE IF p.again /\ b.ops[e].replay = "differs" THEN Conflict ELSE OK
  <2> HIDE DEF key, o
  <2>1. p.e = e /\ \A x \in e.params : <<"home", x>> \notin {}
    BY <1>2
  <2>2. Status(b, p, {}) = IF ~b.ops[e].accepts THEN Invalid
                           ELSE IF Refused(b, p) THEN Refusal(b, p)
                           ELSE IF p.again /\ b.ops[e].replay = "differs" THEN Conflict ELSE OK
    BY <1>3, <2>1, OwnIdsAnswer
  <2> QED BY <2>2
<1>5. (Takes(b, e) <=> o.accepts /\ key \notin DOMAIN o.refused)
  BY DEF Takes
<1>6. (Refused(b, p) <=> key \in DOMAIN o.refused) /\ Refusal(b, p) = o.refused[key]
  BY <1>2 DEF Refused, Refusal
<1> HIDE DEF key
<1>7. Refused(b, p) => Refusal(b, p) \in {404, 409, 422}
  BY <1>1, <1>6
<1>8. Takes(b, e) <=> b.ops[e].accepts /\ ~Refused(b, p)
  BY <1>5, <1>6
<1> HIDE DEF o
<1>9. CASE Takes(b, e)
  BY <1>4, <1>8, <1>9
<1>10. CASE ~Takes(b, e)
  <2>1. s = Invalid \/ s \in {404, 409, 422}
    BY <1>4, <1>7, <1>8, <1>10
  <2> QED BY <1>10, <2>1 DEF OK, Invalid
<1> QED BY <1>9, <1>10

LEMMA KeyedTold ==
  ASSUME NEW b, IsBuild(b), NEW e \in Discovered(b)
  PROVE  /\ FirstAnswer(b, e).status = OK <=> Takes(b, e)
         /\ Takes(b, e) => /\ SecondAnswer(b, e).status = OK <=> b.ops[e].replay # "differs"
                           /\ SecondAnswer(b, e).rows > 0 <=> b.ops[e].creates /\ b.ops[e].replay = "repeats"
<1> DEFINE p == Keyed(e)
           q == [Keyed(e) EXCEPT !.again = TRUE]
           s == Status(b, p, {})
           t == Status(b, q, {})
           replay == b.ops[e].replay
           creates == b.ops[e].creates
<1>1. /\ FirstAnswer(b, e).status = s
      /\ SecondAnswer(b, e).status = t /\ SecondAnswer(b, e).rows = RowsAdded(b, q, t)
  BY DEF FirstAnswer, SecondAnswer, Answer
<1>2. p.again = FALSE
  BY KeyedFields
<1>3. q.e = e /\ q.again = TRUE
  <2>1. p # q
    <3>1. q.again = TRUE
      BY DEF Keyed, Request
    <3> HIDE DEF p, q
    <3> QED BY <1>2, <3>1
  <2> QED BY <2>1, KeyedFields
<1>4. /\ ~Takes(b, e) => s # OK
      /\ Takes(b, e) => s = IF p.again /\ replay = "differs" THEN Conflict ELSE OK
  BY KeyedAnswer
<1>5. Takes(b, e) => t = IF q.again /\ replay = "differs" THEN Conflict ELSE OK
  BY KeyedAnswer
<1> HIDE DEF p, q, s, t
<1>6. RowsAdded(b, q, t) = IF t = OK /\ creates /\ ~(q.again /\ replay # "repeats") THEN 1 ELSE 0
  BY <1>3 DEF RowsAdded
<1> HIDE DEF replay, creates
<1>7. s = OK <=> Takes(b, e)
  BY <1>2, <1>4
<1>8. ASSUME Takes(b, e)
      PROVE  (t = OK <=> replay # "differs") /\ (RowsAdded(b, q, t) > 0 <=> creates /\ replay = "repeats")
  <2>1. t = IF replay = "differs" THEN Conflict ELSE OK
    BY <1>3, <1>5, <1>8
  <2>2. t = OK <=> replay # "differs"
    BY <2>1 DEF OK, Conflict
  <2>3. RowsAdded(b, q, t) > 0 <=> t = OK /\ creates /\ replay = "repeats"
    BY <1>3, <1>6
  <2> QED BY <2>2, <2>3
<1> QED BY <1>1, <1>7, <1>8 DEF replay, creates

\* R4: a create endpoint whose second request with a key makes rows, or is not
\* answered as the first where the endpoint takes keys, is at fault; one whose
\* first request is refused is reported and does not count.
LEMMA IdempotencyTold ==
  ASSUME NEW b, IsBuild(b)
  PROVE  \E J : Idempotency(b).findings = ApplyExemptions(J) /\ Tells("r4_idempotency", b, J)
<1> DEFINE D == Discovered(b)
           duplicate == [e \in D |-> Finding("R4", e.name, "violation", "duplicate", "")]
           mismatch == [e \in D |-> Finding("R4", e.name, "violation", "replay_mismatch", "")]
           untested == [e \in D |-> Finding("R4", e.name, "info", "untested", "")]
           Untested == Creates(b) \ Tested(b)
           J1 == {duplicate[e] : e \in Duplicates(b)}
           J2 == {mismatch[e] : e \in Mismatches(b)}
           J3 == {untested[e] : e \in Untested}
           J == J1 \cup J2 \cup J3
<1>1. Duplicates(b) \subseteq D /\ Mismatches(b) \subseteq D /\ Untested \subseteq D
  BY DEF Duplicates, Mismatches, Tested, Creates
<1>2. Idempotency(b).findings = ApplyExemptions(J)
  <2>1. /\ J1 = {Finding("R4", e.name, "violation", "duplicate", "") : e \in Duplicates(b)}
        /\ J2 = {Finding("R4", e.name, "violation", "replay_mismatch", "") : e \in Mismatches(b)}
        /\ J3 = {Finding("R4", e.name, "info", "untested", "") : e \in Creates(b) \ Tested(b)}
    BY <1>1
  <2> HIDE DEF J1, J2, J3
  <2> QED BY <2>1 DEF Idempotency, Report
<1>3. IsFiniteSet(J)
  <2>1. IsFiniteSet(D)
    <3>1. D \subseteq Endpoints /\ IsFiniteSet(Endpoints)
      BY EndpointAssumption DEF Discovered, IsBuild
    <3> QED BY <3>1, FS_Subset
  <2>2. IsFiniteSet(Duplicates(b)) /\ IsFiniteSet(Mismatches(b)) /\ IsFiniteSet(Untested)
    BY <1>1, <2>1, FS_Subset
  <2> HIDE DEF duplicate, mismatch, untested, Untested
  <2>3. IsFiniteSet(J1) /\ IsFiniteSet(J2) /\ IsFiniteSet(J3)
    BY <2>2, MadeFinite
  <2> HIDE DEF J1, J2, J3
  <2> QED BY <2>3, FS_Union
<1>4. ASSUME NEW e \in D
      PROVE  /\ FirstAnswer(b, e).status = OK <=> Takes(b, e)
             /\ Takes(b, e) => /\ SecondAnswer(b, e).status = OK <=> b.ops[e].replay # "differs"
                               /\ SecondAnswer(b, e).rows > 0
                                    <=> b.ops[e].creates /\ b.ops[e].replay = "repeats"
  BY KeyedTold
<1>5. ASSUME NEW e \in D
      PROVE  KeepsRule("r4_idempotency", b, e)
             <=> (e.method = "POST" =>
                    /\ b.ops[e].creates => b.ops[e].replay # "repeats"
                    /\ e.keyed /\ (b.ops[e].creates \/ b.ops[e].says # {}) => b.ops[e].replay # "differs")
  BY DEF KeepsRule
<1>6. ASSUME NEW e \in Duplicates(b) PROVE ~KeepsRule("r4_idempotency", b, e)
  <2>1. /\ e \in D /\ e.method = "POST" /\ FirstAnswer(b, e).status = OK
        /\ SecondAnswer(b, e).rows > 0
    BY DEF Duplicates, Tested, Creates
  <2> QED BY <1>4, <1>5, <2>1
<1>7. ASSUME NEW e \in Mismatches(b) PROVE ~KeepsRule("r4_idempotency", b, e)
  <2>1. /\ e \in D /\ e.method = "POST" /\ FirstAnswer(b, e).status = OK /\ b.ops[e].says # {}
        /\ e.keyed /\ SecondAnswer(b, e).status # OK
    BY DEF Mismatches, Tested, Creates
  <2> QED BY <1>4, <1>5, <2>1
<1>8. ASSUME NEW f \in J
      PROVE  /\ \E endpoint, severity, what, which :
                  f = Finding(LabelOf["r4_idempotency"], endpoint, severity, what, which)
             /\ Counted(f) => \E e \in D : f.endpoint = e.name /\ Faulted("r4_idempotency", b, e)
  <2>0. LabelOf["r4_idempotency"] = "R4"
    BY DEF LabelOf
  <2>1. CASE f \in J1
    <3>1. PICK e \in Duplicates(b) : f = duplicate[e]
      BY <2>1
    <3>2. f = Finding("R4", e.name, "violation", "duplicate", "") /\ e \in D
      BY <1>1, <3>1
    <3>3. f.endpoint = e.name
      BY <3>2 DEF Finding
    <3>4. Faulted("r4_idempotency", b, e)
      BY <1>6 DEF Faulted
    <3> QED BY <2>0, <3>2, <3>3, <3>4
  <2>2. CASE f \in J2
    <3>1. PICK e \in Mismatches(b) : f = mismatch[e]
      BY <2>2
    <3>2. f = Finding("R4", e.name, "violation", "replay_mismatch", "") /\ e \in D
      BY <1>1, <3>1
    <3>3. f.endpoint = e.name
      BY <3>2 DEF Finding
    <3>4. Faulted("r4_idempotency", b, e)
      BY <1>7 DEF Faulted
    <3> QED BY <2>0, <3>2, <3>3, <3>4
  <2>3. CASE f \in J3
    <3>1. PICK e \in Untested : f = untested[e]
      BY <2>3
    <3>2. f = Finding("R4", e.name, "info", "untested", "") /\ e \in D
      BY <1>1, <3>1
    <3>3. ~Counted(f)
      BY <3>2 DEF Finding, Counted
    <3> QED BY <2>0, <3>2, <3>3
  <2> QED BY <2>1, <2>2, <2>3
<1>9. ASSUME NEW e \in D, ~KeepsRule("r4_idempotency", b, e), ~Unseen("r4_idempotency", b, e)
      PROVE  \E f \in J : f.endpoint = e.name /\ Counted(f)
  <2>1. e.method = "POST" /\ b.ops[e].says # {} /\ ~Refuses(b.ops[e], {"keyed"})
    BY <1>5, <1>9 DEF Unseen
  <2>2. Takes(b, e)
    <3>1. <<"keyed", "">>[1] = "keyed"
      OBVIOUS
    <3> QED BY <2>1, <3>1 DEF Refuses, Takes
  <2>3. "documents" \in b.ops[e].says \/ "answers" \in b.ops[e].says
    <3>1. b.ops[e].says \subseteq {"answers", "documents"}
      BY DEF IsBuild, Discovered
    <3> QED BY <2>1, <3>1
  <2>4. e \in Tested(b)
    BY <1>4, <2>1, <2>2, <2>3 DEF Tested, Creates
  <2>5. CASE e \in Duplicates(b)
    <3>1. duplicate[e] \in J1 /\ duplicate[e] = Finding("R4", e.name, "violation", "duplicate", "")
      BY <2>5
    <3>2. duplicate[e].endpoint = e.name /\ Counted(duplicate[e])
      BY <3>1 DEF Finding, Counted
    <3> HIDE DEF J1, J2, J3, duplicate
    <3> QED BY <3>1, <3>2
  <2>6. CASE e \notin Duplicates(b)
    <3>0. ~(b.ops[e].creates /\ b.ops[e].replay = "repeats")
      BY <1>4, <2>2, <2>4, <2>6 DEF Duplicates
    <3>1. e.keyed /\ b.ops[e].replay = "differs"
      BY <1>5, <1>9, <3>0
    <3>2. e \in Mismatches(b)
      BY <1>4, <2>2, <2>4, <2>6, <3>1 DEF Mismatches
    <3>3. mismatch[e] \in J2 /\ mismatch[e] = Finding("R4", e.name, "violation", "replay_mismatch", "")
      BY <3>2
    <3>4. mismatch[e].endpoint = e.name /\ Counted(mismatch[e])
      BY <3>3 DEF Finding, Counted
    <3> HIDE DEF J1, J2, J3, mismatch
    <3> QED BY <3>3, <3>4
  <2> QED BY <2>5, <2>6
<1> HIDE DEF J
<1>10. Tells("r4_idempotency", b, J)
  BY <1>3, <1>8, <1>9 DEF Tells
<1> QED BY <1>2, <1>10

(* R1: the other org's ids, in the path, one at a time, and in the body; and no credentials. *)

ForeignPath(e) == Request(e, "foreign_path", As("admin"), "other", "", "other")
ForeignParam(e, x) == Request(e, "foreign_param", As("admin"), "home", x, "home")
NoPath(e) == Request(e, "no_path", As("admin"), "home", "", "other")
ForeignBody(e) == Request(e, "foreign_body", As("admin"), "home", "", "other")
Anonymous(e) == Request(e, "anonymous", Nobody, "other", "", "other")

\* The requests of PlanFor, as a set.
Probes(e) ==
  (IF e.params # {} THEN {ForeignPath(e)} ELSE {NoPath(e)})
  \cup (IF Cardinality(e.params) > 1 THEN {ForeignParam(e, x) : x \in e.params} ELSE {})
  \cup (IF e.body \ e.params # {} THEN {ForeignBody(e)} ELSE {})
  \cup {Anonymous(e)}

\* The members of one sequence after another.
LEMMA ConcatRange ==
  ASSUME NEW T, NEW s \in Seq(T), NEW t \in Seq(T)
  PROVE  s \o t \in Seq(T) /\ Range(s \o t) = Range(s) \cup Range(t)
<1> DEFINE c == s \o t
           l == Len(s)
           k == Len(t)
<1>1. /\ l \in Nat /\ k \in Nat /\ DOMAIN s = 1..l /\ DOMAIN t = 1..k
      /\ c \in Seq(T) /\ DOMAIN c = 1..(l + k)
  BY ConcatProperties
<1>2. \A i \in 1..(l + k) : c[i] = IF i <= l THEN s[i] ELSE t[i - l]
  BY ConcatProperties
<1> HIDE DEF c, l, k
<1>3. ASSUME NEW x \in Range(c) PROVE x \in Range(s) \cup Range(t)
  <2>1. PICK i \in 1..(l + k) : x = c[i]
    BY <1>1 DEF Range
  <2>2. CASE i <= l
    <3>1. i \in DOMAIN s /\ x = s[i]
      BY <1>1, <1>2, <2>1, <2>2
    <3> QED BY <3>1 DEF Range
  <2>3. CASE ~(i <= l)
    <3>1. i - l \in DOMAIN t /\ x = t[i - l]
      BY <1>1, <1>2, <2>1, <2>3
    <3> QED BY <3>1 DEF Range
  <2> QED BY <2>2, <2>3
<1>4. ASSUME NEW x \in Range(s) PROVE x \in Range(c)
  <2>1. PICK i \in 1..l : x = s[i]
    BY <1>1 DEF Range
  <2>2. i \in 1..(l + k) /\ c[i] = x
    BY <1>1, <1>2, <2>1
  <2> QED BY <1>1, <2>2 DEF Range
<1>5. ASSUME NEW x \in Range(t) PROVE x \in Range(c)
  <2>1. PICK i \in 1..k : x = t[i]
    BY <1>1 DEF Range
  <2>2. l + i \in 1..(l + k) /\ ~(l + i <= l) /\ (l + i) - l = i
    BY <1>1
  <2>3. c[l + i] = x
    BY <1>2, <2>1, <2>2
  <2> QED BY <1>1, <2>2, <2>3 DEF Range
<1> QED BY <1>1, <1>3, <1>4, <1>5 DEF c

\* A finite set in some order.
LEMMA SetInOrder ==
  ASSUME NEW S, IsFiniteSet(S)
  PROVE  SetToSeq(S) \in Seq(S) /\ Range(SetToSeq(S)) = S
<1> DEFINE N == Cardinality(S)
           f == SetToSeq(S)
<1>1. N \in Nat /\ ExistsBijection(1..N, S)
  BY FS_CardinalityType
<1>2. \E g \in [1..N -> S] : IsInjective(g)
  BY <1>1 DEF ExistsBijection, Bijection, Injection
<1>3. f \in [1..N -> S] /\ IsInjective(f)
  BY <1>2 DEF SetToSeq
<1>4. f \in Injection(1..N, S)
  BY <1>3 DEF Injection
<1>5. IsFiniteSet(1..N) /\ Cardinality(1..N) = N
  BY <1>1, FS_Interval
<1>6. f \in Surjection(1..N, S)
  BY <1>4, <1>5, FS_Injection
<1>7. Range(f) = S
  BY <1>3, <1>6 DEF Surjection, Range
<1>8. f \in Seq(S)
  BY <1>1, <1>3
<1> QED BY <1>7, <1>8

\* PlanFor sends those, and no other.
LEMMA PlanProbes ==
  ASSUME NEW e \in Endpoints
  PROVE  PlanFor(e) \in Seq(Probes(e)) /\ Range(PlanFor(e)) = Probes(e)
<1> DEFINE T == Probes(e)
           S == IF Cardinality(e.params) > 1 THEN e.params ELSE {}
           mixed == SetToSeq(S)
           s == [i \in DOMAIN mixed |-> ForeignParam(e, mixed[i])]
           path == (IF e.params # {} THEN <<ForeignPath(e)>> \o s ELSE <<NoPath(e)>>)
           body == IF e.body \ e.params # {} THEN <<ForeignBody(e)>> ELSE <<>>
<1>1. PlanFor(e) = (path \o body) \o <<Anonymous(e)>>
  BY DEF PlanFor, ForeignPath, ForeignParam, NoPath, ForeignBody, Anonymous
<1>2. IsFiniteSet(S)
  BY EndpointAssumption, FS_EmptySet
<1>3. mixed \in Seq(S) /\ Range(mixed) = S
  <2> HIDE DEF S
  <2> QED BY <1>2, SetInOrder
<1>4. \A x \in S : ForeignParam(e, x) \in T
  BY DEF Probes
<1>5. s \in Seq(T) /\ Range(s) = {ForeignParam(e, x) : x \in S}
  <2> HIDE DEF S, T, mixed
  <2>1. /\ Len(mixed) \in Nat /\ DOMAIN mixed = 1..Len(mixed)
        /\ \A i \in DOMAIN mixed : mixed[i] \in S
    BY <1>3
  <2>2. s \in [1..Len(mixed) -> T]
    BY <1>4, <2>1
  <2>3. s \in Seq(T)
    <3> HIDE DEF s
    <3> QED BY <2>1, <2>2
  <2>4. Range(s) = {ForeignParam(e, x) : x \in S}
    BY <1>3, <2>1 DEF Range
  <2> QED BY <2>3, <2>4
<1> HIDE DEF s, mixed
<1>6. path \in Seq(T) /\ Range(path) = (IF e.params # {} THEN {ForeignPath(e)} ELSE {NoPath(e)})
                                        \cup {ForeignParam(e, x) : x \in S}
  <2>1. CASE e.params # {}
    <3> DEFINE p == ForeignPath(e)
    <3>1. p \in T
      BY <2>1 DEF Probes
    <3> HIDE DEF p, T
    <3>2. <<p>> \in Seq(T) /\ Range(<<p>>) = {p}
      BY <3>1 DEF Range
    <3> DEFINE h == <<p>>
    <3>3. h \o s \in Seq(T) /\ Range(h \o s) = Range(h) \cup Range(s)
      <4>1. h \in Seq(T) /\ s \in Seq(T)
        BY <1>5, <3>2
      <4> HIDE DEF h
      <4> QED BY <4>1, ConcatRange
    <3>4. path = h \o s
      BY <2>1 DEF p
    <3> HIDE DEF h, path
    <3>5. Range(h) = {p}
      BY <3>2 DEF h
    <3> QED BY <1>5, <2>1, <3>3, <3>4, <3>5 DEF p
  <2>2. CASE e.params = {}
    <3> DEFINE p == NoPath(e)
    <3>1. p \in T
      BY <2>2 DEF Probes
    <3>2. S = {}
      BY <2>2
    <3> HIDE DEF p, T, S
    <3>3. <<p>> \in Seq(T) /\ Range(<<p>>) = {p}
      BY <3>1 DEF Range
    <3> QED BY <2>2, <3>2, <3>3 DEF p
  <2> QED BY <2>1, <2>2
<1>7. body \in Seq(T) /\ Range(body) = IF e.body \ e.params # {} THEN {ForeignBody(e)} ELSE {}
  <2>1. CASE e.body \ e.params # {}
    <3> DEFINE p == ForeignBody(e)
    <3>1. p \in T
      BY <2>1 DEF Probes
    <3> HIDE DEF p, T
    <3>2. <<p>> \in Seq(T) /\ Range(<<p>>) = {p}
      BY <3>1 DEF Range
    <3> QED BY <2>1, <3>2 DEF p
  <2>2. CASE e.body \ e.params = {}
    <3> HIDE DEF T
    <3>1. <<>> \in Seq(T) /\ DOMAIN <<>> = {}
      OBVIOUS
    <3>2. Range(<<>>) = {}
      BY <3>1 DEF Range
    <3> QED BY <2>2, <3>1, <3>2
  <2> QED BY <2>1, <2>2
<1>8. <<Anonymous(e)>> \in Seq(T) /\ Range(<<Anonymous(e)>>) = {Anonymous(e)}
  <2> DEFINE p == Anonymous(e)
  <2>1. p \in T
    BY DEF Probes
  <2> HIDE DEF p, T
  <2>2. <<p>> \in Seq(T) /\ Range(<<p>>) = {p}
    BY <2>1 DEF Range
  <2> QED BY <2>2 DEF p
<1> HIDE DEF path, body, T
<1>9. path \o body \in Seq(T) /\ Range(path \o body) = Range(path) \cup Range(body)
  BY <1>6, <1>7, ConcatRange
<1> DEFINE most == path \o body
           last == <<Anonymous(e)>>
<1>10. /\ (path \o body) \o <<Anonymous(e)>> \in Seq(T)
       /\ Range((path \o body) \o <<Anonymous(e)>>) = Range(path \o body) \cup {Anonymous(e)}
  <2>1. most \in Seq(T) /\ last \in Seq(T) /\ Range(last) = {Anonymous(e)}
    BY <1>8, <1>9
  <2> HIDE DEF most, last
  <2>2. most \o last \in Seq(T) /\ Range(most \o last) = Range(most) \cup {Anonymous(e)}
    BY <2>1, ConcatRange
  <2> QED BY <2>2 DEF most, last
<1> HIDE DEF most, last
<1>11. {ForeignParam(e, x) : x \in S}
         = IF Cardinality(e.params) > 1 THEN {ForeignParam(e, x) : x \in e.params} ELSE {}
  OBVIOUS
<1> HIDE DEF S
<1>12. Range(PlanFor(e)) = T
  BY <1>1, <1>6, <1>7, <1>9, <1>10, <1>11 DEF Probes, T
<1> QED BY <1>1, <1>10, <1>12 DEF T

\* A request of an admin, and one of nobody.
ByAdmin(p, e) == p.e = e /\ p.by = As("admin") /\ p.again = FALSE
ByNobody(p, e) == p.e = e /\ p.by = Nobody /\ p.again = FALSE

\* What is answered to an admin, and to nobody.
LEMMA AdminStatus ==
  ASSUME NEW b, NEW e, NEW p, ByAdmin(p, e), NEW gone
  PROVE  LET o == b.ops[e] IN
         Status(b, p, gone) =
           IF ~o.accepts THEN Invalid
           ELSE IF \E x \in e.params : (x \in o.scoped /\ OrgOf(p, x) # "home") \/ <<OrgOf(p, x), x>> \in gone
           THEN NotFound
           ELSE IF \E x \in e.body : x \in o.scoped /\ p.body # "home" THEN Invalid
           ELSE IF Refused(b, p) THEN Refusal(b, p) ELSE OK
<1> DEFINE o == b.ops[e]
           strange(param, org) == p.by # Nobody /\ param \in o.scoped /\ org # p.by.org
           foreign == \E x \in e.params : strange(x, OrgOf(p, x)) \/ <<OrgOf(p, x), x>> \in gone
           alien == \E x \in e.body : strange(x, p.body)
<1>0. p.e = e /\ p.by = As("admin") /\ p.again = FALSE
  BY DEF ByAdmin
<1>1. p.by.org = "home" /\ p.by.role = "admin" /\ p.by # Nobody
  <2>1. As("admin").org = "home" /\ As("admin").role = "admin"
    BY DEF As
  <2>2. Nobody.org = "none"
    BY DEF Nobody
  <2>3. As("admin") # Nobody
    BY <2>1, <2>2
  <2> QED BY <1>0, <2>1, <2>3
<1>2. ~(p.by = Nobody /\ o.authed) /\ ~(p.by.role = "viewer" /\ IsWrite(e) /\ o.guarded)
  BY <1>1
<1>3. foreign <=> \E x \in e.params : (x \in o.scoped /\ OrgOf(p, x) # "home") \/ <<OrgOf(p, x), x>> \in gone
  BY <1>1
<1>4. alien <=> \E x \in e.body : x \in o.scoped /\ p.body # "home"
  BY <1>1
<1>5. Status(b, p, gone) =
        IF p.by = Nobody /\ o.authed THEN Unauthorized
        ELSE IF p.by.role = "viewer" /\ IsWrite(e) /\ o.guarded THEN Forbidden
        ELSE IF ~o.accepts THEN Invalid
        ELSE IF foreign THEN NotFound
        ELSE IF alien THEN Invalid
        ELSE IF Refused(b, p) THEN Refusal(b, p)
        ELSE IF p.again /\ o.replay = "differs" THEN Conflict ELSE OK
  BY <1>0 DEF Status, NotFound, Invalid, Unauthorized, Forbidden, Conflict, Refused, Refusal
<1> HIDE DEF foreign, alien, o
<1>6. Status(b, p, gone) = IF ~o.accepts THEN Invalid ELSE IF foreign THEN NotFound
                           ELSE IF alien THEN Invalid ELSE IF Refused(b, p) THEN Refusal(b, p) ELSE OK
  BY <1>0, <1>2, <1>5, Zenon
<1> QED BY <1>3, <1>4, <1>6, Zenon DEF o

\* An id of the other org is refused where rows have to be the caller's.
Abroad(p, x) == OrgOf(p, x) # "home"

\* A request by an admin that names such an id does not succeed.
LEMMA AdminRefused ==
  ASSUME NEW b, NEW e, b.ops[e].accepts, NEW p, ByAdmin(p, e), NEW gone,
         NEW y \in e.params, y \in b.ops[e].scoped, Abroad(p, y)
  PROVE  Status(b, p, gone) = NotFound
<1> DEFINE foreign == \E x \in e.params : \/ x \in b.ops[e].scoped /\ OrgOf(p, x) # "home"
                                          \/ <<OrgOf(p, x), x>> \in gone
           alien == \E x \in e.body : x \in b.ops[e].scoped /\ p.body # "home"
<1>1. Status(b, p, gone) = IF ~b.ops[e].accepts THEN Invalid ELSE IF foreign THEN NotFound
                           ELSE IF alien THEN Invalid ELSE IF Refused(b, p) THEN Refusal(b, p) ELSE OK
  BY AdminStatus, Zenon
<1>2. foreign
  BY DEF Abroad
<1> HIDE DEF foreign, alien
<1> QED BY <1>1, <1>2

\* Nor does one with such an id in its body.
LEMMA BodyRefused ==
  ASSUME NEW b, NEW e, NEW p, ByAdmin(p, e), NEW gone,
         \E x \in e.body : x \in b.ops[e].scoped /\ p.body # "home"
  PROVE  Status(b, p, gone) \in {NotFound, Invalid}
<1> DEFINE foreign == \E x \in e.params : \/ x \in b.ops[e].scoped /\ OrgOf(p, x) # "home"
                                          \/ <<OrgOf(p, x), x>> \in gone
           alien == \E x \in e.body : x \in b.ops[e].scoped /\ p.body # "home"
<1>1. Status(b, p, gone) = IF ~b.ops[e].accepts THEN Invalid ELSE IF foreign THEN NotFound
                           ELSE IF alien THEN Invalid ELSE IF Refused(b, p) THEN Refusal(b, p) ELSE OK
  BY AdminStatus, Zenon
<1>2. alien
  OBVIOUS
<1> HIDE DEF foreign, alien
<1> QED BY <1>1, <1>2

\* Without credentials.
LEMMA NobodyStatus ==
  ASSUME NEW b, NEW e, NEW p, ByNobody(p, e), NEW gone
  PROVE  Status(b, p, gone) =
           IF b.ops[e].authed THEN Unauthorized
           ELSE IF ~b.ops[e].accepts THEN Invalid
           ELSE IF \E x \in e.params : <<OrgOf(p, x), x>> \in gone THEN NotFound
           ELSE IF Refused(b, p) THEN Refusal(b, p) ELSE OK
<1> DEFINE o == b.ops[e]
           strange(param, org) == p.by # Nobody /\ param \in o.scoped /\ org # p.by.org
           foreign == \E x \in e.params : strange(x, OrgOf(p, x)) \/ <<OrgOf(p, x), x>> \in gone
           alien == \E x \in e.body : strange(x, p.body)
<1>0. p.e = e /\ p.by = Nobody /\ p.again = FALSE
  BY DEF ByNobody
<1>1. p.by.role # "viewer"
  BY <1>0 DEF Nobody
<1>2. ~alien /\ (foreign <=> \E x \in e.params : <<OrgOf(p, x), x>> \in gone)
  BY <1>0
<1>3. Status(b, p, gone) =
        IF p.by = Nobody /\ o.authed THEN Unauthorized
        ELSE IF p.by.role = "viewer" /\ IsWrite(e) /\ o.guarded THEN Forbidden
        ELSE IF ~o.accepts THEN Invalid
        ELSE IF foreign THEN NotFound
        ELSE IF alien THEN Invalid
        ELSE IF Refused(b, p) THEN Refusal(b, p)
        ELSE IF p.again /\ o.replay = "differs" THEN Conflict ELSE OK
  BY <1>0 DEF Status, NotFound, Invalid, Unauthorized, Forbidden, Conflict, Refused, Refusal
<1> HIDE DEF foreign, alien, o
<1>4. Status(b, p, gone) = IF o.authed THEN Unauthorized ELSE IF ~o.accepts THEN Invalid
                           ELSE IF foreign THEN NotFound
                           ELSE IF Refused(b, p) THEN Refusal(b, p) ELSE OK
  BY <1>0, <1>1, <1>2, <1>3, Zenon
<1> QED BY <1>2, <1>4, Zenon DEF o

\* The requests of R1, each with what it asks for.
LEMMA ForeignPathFields ==
  ASSUME NEW e, NEW p, p = ForeignPath(e)
  PROVE  ByAdmin(p, e) /\ p.kind = "foreign_path" /\ p.ids = "other" /\ p.one = ""
BY DEF ForeignPath, ByAdmin, Request
LEMMA ForeignParamFields ==
  ASSUME NEW e, NEW x, NEW p, p = ForeignParam(e, x)
  PROVE  ByAdmin(p, e) /\ p.kind = "foreign_param" /\ p.ids = "home" /\ p.one = x /\ p.body = "home"
BY DEF ForeignParam, ByAdmin, Request
LEMMA NoPathFields ==
  ASSUME NEW e, NEW p, p = NoPath(e)
  PROVE  ByAdmin(p, e) /\ p.kind = "no_path"
BY DEF NoPath, ByAdmin, Request
LEMMA ForeignBodyFields ==
  ASSUME NEW e, NEW p, p = ForeignBody(e)
  PROVE  ByAdmin(p, e) /\ p.kind = "foreign_body" /\ p.ids = "home" /\ p.one = "" /\ p.body = "other"
BY DEF ForeignBody, ByAdmin, Request
LEMMA AnonymousFields ==
  ASSUME NEW e, NEW p, p = Anonymous(e)
  PROVE  ByNobody(p, e) /\ p.kind = "anonymous"
BY DEF Anonymous, ByNobody, Request

\* A request is one of the five kinds, and is made where its kind applies.
LEMMA ProbeKinds ==
  ASSUME NEW e, NEW p \in Probes(e)
  PROVE  \/ p = ForeignPath(e) /\ e.params # {}
         \/ \E x \in e.params : p = ForeignParam(e, x)
         \/ p = NoPath(e) /\ e.params = {}
         \/ p = ForeignBody(e) /\ e.body \ e.params # {}
         \/ p = Anonymous(e)
BY DEF Probes

\* A success is a fault wherever the path has ids.
LEMMA OkIsFault ==
  ASSUME NEW e, e.params # {}, NEW p \in Probes(e), NEW a, a.status = OK
  PROVE  R1Fault(p, a)
<1>1. p.kind \in {"foreign_path", "foreign_param", "foreign_body", "anonymous"}
  <2>1. CASE p = ForeignPath(e)
    BY <2>1, ForeignPathFields
  <2>2. CASE \E x \in e.params : p = ForeignParam(e, x)
    <3>1. PICK x \in e.params : p = ForeignParam(e, x)
      BY <2>2
    <3> QED BY <3>1, ForeignParamFields
  <2>3. CASE p = ForeignBody(e)
    BY <2>3, ForeignBodyFields
  <2>4. CASE p = Anonymous(e)
    BY <2>4, AnonymousFields
  <2> QED BY <2>1, <2>2, <2>3, <2>4, ProbeKinds
<1> QED BY <1>1 DEF R1Fault, OK

\* An endpoint that keeps the rule, and whose schema takes the requests that
\* name the other org's rows, is never found, whatever is gone.
LEMMA KeepsNoFault ==
  ASSUME NEW b, IsBuild(b), NEW e \in Discovered(b), ~Faulted("r1_tenant", b, e),
         NEW p \in Probes(e), NEW gone, NEW a, a = Answer(b, p, gone)
  PROVE  ~R1Fault(p, a)
<1> DEFINE o == b.ops[e]
<1>1. /\ o.authed /\ e.params \cup e.body \subseteq o.scoped /\ (e.params = {} => ~o.lists)
      /\ e.params # {} => o.accepts
  BY DEF Faulted, KeepsRule, Misread
<1>2. "" \notin e.params
  BY EndpointAssumption DEF Discovered, IsBuild
<1>3. a.status = Status(b, p, gone) /\ a.shown = Shown(b, p, Status(b, p, gone))
  BY DEF Answer
<1> HIDE DEF o
<1>4. CASE p = ForeignPath(e) /\ e.params # {}
  <2>1. ByAdmin(p, e)
    BY <1>4, ForeignPathFields
  <2>2. p.ids = "other" /\ p.one = ""
    BY <1>4, ForeignPathFields
  <2>3. p.kind = "foreign_path"
    BY <1>4, ForeignPathFields
  <2>4. PICK z \in e.params : z \in o.scoped /\ Abroad(p, z)
    BY <1>1, <1>2, <1>4, <2>2 DEF OrgOf, Abroad
  <2>5. Status(b, p, gone) = NotFound
    BY <1>1, <2>1, <2>4, AdminRefused DEF o
  <2> QED BY <1>3, <2>3, <2>5 DEF R1Fault, NotFound
<1>5. CASE \E x \in e.params : p = ForeignParam(e, x)
  <2>0. PICK y \in e.params : p = ForeignParam(e, y)
    BY <1>5
  <2>1. ByAdmin(p, e)
    BY <2>0, ForeignParamFields
  <2>2. p.one = y
    BY <2>0, ForeignParamFields
  <2>3. p.kind = "foreign_param"
    BY <2>0, ForeignParamFields
  <2>4. PICK z \in e.params : z \in o.scoped /\ Abroad(p, z)
    BY <1>1, <2>2 DEF OrgOf, Abroad
  <2>5. Status(b, p, gone) = NotFound
    BY <1>1, <2>1, <2>4, AdminRefused DEF o
  <2> QED BY <1>3, <2>3, <2>5 DEF R1Fault, NotFound
<1>6. CASE p = NoPath(e) /\ e.params = {}
  <2>1. p.e = e
    BY <1>6, NoPathFields DEF ByAdmin
  <2>2. p.kind = "no_path"
    BY <1>6, NoPathFields
  <2>3. a.shown = {}
    BY <1>1, <1>3, <1>6, <2>1 DEF Shown, o
  <2> QED BY <2>2, <2>3 DEF R1Fault, R1Leaked
<1>7. CASE p = ForeignBody(e) /\ e.body \ e.params # {}
  <2>1. ByAdmin(p, e)
    BY <1>7, ForeignBodyFields
  <2>2. p.body = "other"
    BY <1>7, ForeignBodyFields
  <2>3. p.kind = "foreign_body"
    BY <1>7, ForeignBodyFields
  <2>4. \E x \in e.body : x \in o.scoped /\ p.body # "home"
    BY <1>1, <1>7, <2>2
  <2>5. Status(b, p, gone) \in {NotFound, Invalid}
    BY <2>1, <2>4, BodyRefused DEF o
  <2> QED BY <1>3, <2>3, <2>5 DEF R1Fault, OK, NotFound, Invalid
<1>8. CASE p = Anonymous(e)
  <2>1. ByNobody(p, e)
    BY <1>8, AnonymousFields
  <2>2. p.kind = "anonymous"
    BY <1>8, AnonymousFields
  <2>3. Status(b, p, gone) = Unauthorized
    BY <1>1, <2>1, NobodyStatus DEF o
  <2> QED BY <1>3, <2>2, <2>3 DEF R1Fault, OK, Unauthorized
<1> QED BY <1>4, <1>5, <1>6, <1>7, <1>8, ProbeKinds

\* An admin's request that is not told "not found", as nothing it names is gone
\* and the data do not refuse it.
LEMMA AdminReaches ==
  ASSUME NEW b, NEW e, NEW p, ByAdmin(p, e), NEW gone, b.ops[e].accepts, ~Refused(b, p),
         \A x \in e.params : ~(x \in b.ops[e].scoped /\ Abroad(p, x)) /\ <<OrgOf(p, x), x>> \notin gone
  PROVE  /\ Status(b, p, gone) # NotFound
         /\ (\A x \in e.body : x \notin b.ops[e].scoped) => Status(b, p, gone) = OK
<1> DEFINE foreign == \E x \in e.params : \/ x \in b.ops[e].scoped /\ OrgOf(p, x) # "home"
                                          \/ <<OrgOf(p, x), x>> \in gone
           alien == \E x \in e.body : x \in b.ops[e].scoped /\ p.body # "home"
<1>1. Status(b, p, gone) = IF ~b.ops[e].accepts THEN Invalid ELSE IF foreign THEN NotFound
                           ELSE IF alien THEN Invalid ELSE IF Refused(b, p) THEN Refusal(b, p) ELSE OK
  BY AdminStatus, Zenon
<1>2. ~foreign
  BY DEF Abroad
<1>3. (\A x \in e.body : x \notin b.ops[e].scoped) => ~alien
  OBVIOUS
<1> HIDE DEF foreign, alien
<1> QED BY <1>1, <1>2, <1>3 DEF NotFound, Invalid, OK

\* Where the rule is broken and a probe looks, a probe finds it, as long as
\* nothing that the path names is gone.
Unmoved(e, gone) == \A org : \A x \in e.params : <<org, x>> \notin gone
Exposes(b, e, p) == \A gone : Unmoved(e, gone) => R1Fault(p, Answer(b, p, gone))

LEMMA BreaksFault ==
  ASSUME NEW b, IsBuild(b), NEW e \in Discovered(b),
         ~KeepsRule("r1_tenant", b, e), ~Unseen("r1_tenant", b, e)
  PROVE  \E p \in Probes(e) : Exposes(b, e, p)
<1> DEFINE o == b.ops[e]
<1>1. /\ o.authed \in BOOLEAN /\ o.lists \in BOOLEAN
      /\ o.lists => e.method = "GET" /\ e.params = {} /\ e.body = {}
      /\ "" \notin e.params /\ IsFiniteSet(e.params)
  <2>1. e \in Endpoints /\ e \in DOMAIN b.ops
    BY DEF Discovered, IsBuild
  <2>2. "" \notin e.params /\ IsFiniteSet(e.params)
    BY <2>1, EndpointAssumption
  <2>3. \A f \in DOMAIN b.ops : /\ b.ops[f].authed \in BOOLEAN /\ b.ops[f].lists \in BOOLEAN
                                /\ b.ops[f].lists => f.method = "GET" /\ f.params = {} /\ f.body = {}
    BY SMT DEF IsBuild
  <2> QED BY <2>1, <2>2, <2>3, Zenon
<1>2. \/ ~o.authed
      \/ \E x \in e.params : x \notin o.scoped
      \/ e.params \subseteq o.scoped /\ \E x \in e.body : x \notin o.scoped
      \/ e.params = {} /\ o.lists
  BY <1>1 DEF KeepsRule
<1>3. ~(e.body \ o.scoped # {} /\ e.body \cap o.scoped # {})
  BY DEF Unseen
<1>3a. ASSUME NEW p, p.e = e, p.kind \in R1Kinds PROVE o.accepts /\ ~Refused(b, p)
  <2>1. ~Refuses(o, R1Kinds)
    BY DEF Unseen
  <2> HIDE DEF o
  <2> QED BY <1>3a, <2>1, NotRefused DEF o
<1>4. ASSUME NEW p, NEW gone
      PROVE  LET a == Answer(b, p, gone) IN
             a.status = Status(b, p, gone) /\ a.shown = Shown(b, p, Status(b, p, gone))
  BY DEF Answer
<1> HIDE DEF o
<1>5. CASE ~o.authed
  <2> DEFINE p == Anonymous(e)
  <2>1. ByNobody(p, e) /\ p.kind = "anonymous" /\ p \in Probes(e)
    BY AnonymousFields DEF Probes
  <2> HIDE DEF p
  <2>0. o.accepts /\ ~Refused(b, p)
    BY <1>3a, <2>1 DEF ByNobody, R1Kinds
  <2>2. ASSUME NEW gone, Unmoved(e, gone) PROVE R1Fault(p, Answer(b, p, gone))
    <3>1. ~\E x \in e.params : <<OrgOf(p, x), x>> \in gone
      BY <2>2 DEF Unmoved
    <3>2. Status(b, p, gone) = OK
      BY <1>5, <2>0, <2>1, <3>1, NobodyStatus, Zenon DEF o
    <3> QED BY <1>4, <2>1, <3>2 DEF R1Fault
  <2> QED BY <2>1, <2>2 DEF Exposes
<1>6. CASE \E x \in e.params : x \notin o.scoped
  <2>1. PICK y \in e.params : y \notin o.scoped
    BY <1>6
  <2>2. CASE Cardinality(e.params) > 1
    <3> DEFINE p == ForeignParam(e, y)
    <3>1. ByAdmin(p, e) /\ p.kind = "foreign_param" /\ p.ids = "home" /\ p.one = y
      BY ForeignParamFields
    <3>2. p \in Probes(e)
      BY <2>2 DEF Probes
    <3> HIDE DEF p
    <3>2a. o.accepts /\ ~Refused(b, p)
      BY <1>3a, <3>1 DEF ByAdmin, R1Kinds
    <3>3. ASSUME NEW gone, Unmoved(e, gone) PROVE R1Fault(p, Answer(b, p, gone))
      <4>1. \A x \in e.params : ~(x \in o.scoped /\ Abroad(p, x)) /\ <<OrgOf(p, x), x>> \notin gone
        BY <2>1, <3>1, <3>3 DEF Unmoved, Abroad, OrgOf
      <4>2. Status(b, p, gone) # NotFound
        BY <3>1, <3>2a, <4>1, AdminReaches DEF o
      <4> QED BY <1>4, <3>1, <4>2 DEF R1Fault, NotFound
    <3> QED BY <3>2, <3>3 DEF Exposes
  <2>3. CASE ~(Cardinality(e.params) > 1)
    <3> DEFINE p == ForeignPath(e)
    <3>1. ByAdmin(p, e) /\ p.kind = "foreign_path"
      BY ForeignPathFields
    <3>2. p \in Probes(e)
      BY <2>1 DEF Probes
    <3> HIDE DEF p
    <3>2a. o.accepts /\ ~Refused(b, p)
      BY <1>3a, <3>1 DEF ByAdmin, R1Kinds
    <3>3. \A x \in e.params : x = y
      <4>1. Cardinality(e.params) \in Nat /\ Cardinality(e.params) # 0
        BY <1>1, <2>1, FS_CardinalityType, FS_EmptySet
      <4>2. Cardinality(e.params) = 1
        BY <2>3, <4>1
      <4>3. \E z : e.params = {z}
        BY <1>1, <4>2, FS_Singleton
      <4> QED BY <2>1, <4>3
    <3>4. ASSUME NEW gone, Unmoved(e, gone) PROVE R1Fault(p, Answer(b, p, gone))
      <4>1. \A x \in e.params : ~(x \in o.scoped /\ Abroad(p, x)) /\ <<OrgOf(p, x), x>> \notin gone
        BY <2>1, <3>3, <3>4 DEF Unmoved
      <4>2. Status(b, p, gone) # NotFound
        BY <3>1, <3>2a, <4>1, AdminReaches DEF o
      <4> QED BY <1>4, <3>1, <4>2 DEF R1Fault, NotFound
    <3> QED BY <3>2, <3>4 DEF Exposes
  <2> QED BY <2>2, <2>3
<1>7. CASE e.params \subseteq o.scoped /\ \E x \in e.body : x \notin o.scoped
  <2> DEFINE p == ForeignBody(e)
  <2>1. ByAdmin(p, e) /\ p.kind = "foreign_body" /\ p.ids = "home" /\ p.one = ""
    BY ForeignBodyFields
  <2>1a. o.accepts /\ ~Refused(b, p)
    <3> HIDE DEF p
    <3> QED BY <1>3a, <2>1 DEF ByAdmin, R1Kinds
  <2>2. p \in Probes(e)
    <3>1. e.body \ e.params # {}
      BY <1>7
    <3> QED BY <3>1 DEF Probes
  <2>3. \A x \in e.body : x \notin o.scoped
    BY <1>3, <1>7
  <2> HIDE DEF p
  <2>4. ASSUME NEW gone, Unmoved(e, gone) PROVE R1Fault(p, Answer(b, p, gone))
    <3>1. \A x \in e.params : ~(x \in o.scoped /\ Abroad(p, x)) /\ <<OrgOf(p, x), x>> \notin gone
      BY <1>1, <2>1, <2>4 DEF Unmoved, Abroad, OrgOf
    <3>2. Status(b, p, gone) = OK
      BY <2>1, <2>1a, <2>3, <3>1, AdminReaches DEF o
    <3> QED BY <1>4, <2>1, <3>2 DEF R1Fault
  <2> QED BY <2>2, <2>4 DEF Exposes
<1>8. CASE e.params = {} /\ o.lists
  <2> DEFINE p == NoPath(e)
  <2>1. ByAdmin(p, e) /\ p.kind = "no_path"
    BY NoPathFields
  <2>1a. o.accepts /\ ~Refused(b, p)
    <3> HIDE DEF p
    <3> QED BY <1>3a, <2>1 DEF ByAdmin, R1Kinds
  <2>2. p \in Probes(e)
    BY <1>8 DEF Probes
  <2> HIDE DEF p
  <2>3. e.method = "GET" /\ e.body = {} /\ p.e = e
    BY <1>1, <1>8, <2>1 DEF ByAdmin
  <2>4. ASSUME NEW gone, Unmoved(e, gone) PROVE R1Fault(p, Answer(b, p, gone))
    <3>1. \A x \in e.params : ~(x \in o.scoped /\ Abroad(p, x)) /\ <<OrgOf(p, x), x>> \notin gone
      BY <1>8
    <3>2. Status(b, p, gone) = OK
      <4>1. \A x \in e.body : x \notin o.scoped
        BY <2>3
      <4> QED BY <2>1, <2>1a, <3>1, <4>1, AdminReaches DEF o
    <3>3. "other" \in Shown(b, p, OK)
      BY <1>8, <2>3 DEF Shown, Orgs, o
    <3>4. R1Leaked(p, Answer(b, p, gone))
      BY <1>4, <3>2, <3>3 DEF R1Leaked
    <3> QED BY <2>1, <3>4 DEF R1Fault
  <2> QED BY <2>2, <2>4 DEF Exposes
<1> QED BY <1>2, <1>5, <1>6, <1>7, <1>8

\* The probes of an endpoint are sent to it.
LEMMA ProbeOfEndpoint ==
  ASSUME NEW e, NEW p \in Probes(e)
  PROVE  p.e = e
<1>1. ByAdmin(p, e) \/ ByNobody(p, e)
  <2>1. CASE p = ForeignPath(e)
    BY <2>1, ForeignPathFields
  <2>2. CASE \E x \in e.params : p = ForeignParam(e, x)
    <3>1. PICK x \in e.params : p = ForeignParam(e, x)
      BY <2>2
    <3> QED BY <3>1, ForeignParamFields
  <2>3. CASE p = NoPath(e)
    BY <2>3, NoPathFields
  <2>4. CASE p = ForeignBody(e)
    BY <2>4, ForeignBodyFields
  <2>5. CASE p = Anonymous(e)
    BY <2>5, AnonymousFields
  <2> QED BY <2>1, <2>2, <2>3, <2>4, <2>5, ProbeKinds
<1> QED BY <1>1 DEF ByAdmin, ByNobody

\* Every endpoint has all its probes, in the order of the endpoints.
LEMMA R1InOrder ==
  ASSUME NEW b, IsBuild(b)
  PROVE  LET R == R1Plan(b) IN
         /\ \E T : R \in Seq(T)
         /\ \A i \in DOMAIN R : R[i].e \in Discovered(b) /\ R[i] \in Probes(R[i].e)
         /\ \A e \in Discovered(b) : \A p \in Probes(e) : \E i \in DOMAIN R : R[i] = p
         /\ \E plan : InOrder(b, plan, R)
<1> DEFINE D == Discovered(b)
           T == UNION {Probes(e) : e \in D}
           plan == [e \in D |-> PlanFor(e)]
           R == R1Plan(b)
<1>1. R = ForEach(b, plan)
  BY DEF R1Plan
<1>2. ASSUME NEW e \in D
      PROVE  /\ plan[e] \in Seq(T)
             /\ \A m \in DOMAIN plan[e] : plan[e][m] \in Probes(e)
             /\ \A p \in Probes(e) : \E m \in DOMAIN plan[e] : plan[e][m] = p
  <2> DEFINE s == PlanFor(e)
  <2>1. s \in Seq(Probes(e)) /\ Range(s) = Probes(e)
    <3>1. e \in Endpoints
      BY DEF Discovered, IsBuild
    <3> QED BY <3>1, PlanProbes
  <2>2. Probes(e) \subseteq T
    OBVIOUS
  <2>3. plan[e] = s
    OBVIOUS
  <2> HIDE DEF s, T, plan
  <2>4. s \in [1..Len(s) -> T] /\ Len(s) \in Nat
    BY <2>1, <2>2
  <2>5. s \in Seq(T)
    BY <2>4
  <2>6. /\ \A m \in DOMAIN s : s[m] \in Probes(e)
        /\ \A p \in Probes(e) : \E m \in DOMAIN s : s[m] = p
    BY <2>1 DEF Range
  <2> QED BY <2>3, <2>5, <2>6
<1>3. plan \in [D -> Seq(T)]
  <2>1. \A e \in D : PlanFor(e) \in Seq(T)
    BY <1>2
  <2> HIDE DEF T
  <2> QED BY <2>1
<1>4. \A e : \A p \in Probes(e) : p.e = e
  BY ProbeOfEndpoint
<1> HIDE DEF plan, T, R
<1>5. R \in Seq(T) /\ InOrder(b, plan, R)
  <2>1. \A e \in D : \A m \in DOMAIN plan[e] : plan[e][m].e = e
    BY <1>2, <1>4
  <2> QED BY <1>1, <1>3, <2>1, ForEachOrder DEF IsBuild
<1>6. \A i \in DOMAIN R : R[i].e \in D /\ R[i] \in Probes(R[i].e)
  BY <1>2, <1>5 DEF InOrder
<1>7. \A e \in D : \A p \in Probes(e) : \E i \in DOMAIN R : R[i] = p
  <2> SUFFICES ASSUME NEW e \in D, NEW p \in Probes(e) PROVE \E i \in DOMAIN R : R[i] = p
    OBVIOUS
  <2>1. PICK m \in DOMAIN plan[e] : plan[e][m] = p
    BY <1>2
  <2> QED BY <1>5, <2>1 DEF InOrder
<1> QED BY <1>5, <1>6, <1>7 DEF R

\* R1: an endpoint without a fault is never found; one that breaks the rule is,
\* for while none of its probes is a fault no request to it has succeeded, so
\* that it has not taken away what its own path names.
LEMMA IsolationTold ==
  ASSUME NEW b, IsBuild(b)
  PROVE  \E J : TenantIsolation(b).findings = ApplyExemptions(J) /\ Tells("r1_tenant", b, J)
<1> DEFINE D == Discovered(b)
           R == R1Plan(b)
           a == Answers(b, R)
           made == [i \in DOMAIN R |-> R1Finding(R[i], a[i])]
           I == {i \in DOMAIN R : R1Fault(R[i], a[i])}
           J == {made[i] : i \in I}
<1>1. /\ \E T : R \in Seq(T)
      /\ \A i \in DOMAIN R : R[i].e \in D /\ R[i] \in Probes(R[i].e)
      /\ \A e \in D : \A p \in Probes(e) : \E i \in DOMAIN R : R[i] = p
      /\ \E plan : InOrder(b, plan, R)
  BY R1InOrder
<1>2. TenantIsolation(b).findings = ApplyExemptions(J)
  <2>1. TenantIsolation(b).findings = ApplyExemptions({R1Finding(R[i], a[i]) : i \in I})
    BY DEF TenantIsolation, Judged, Report
  <2>2. {R1Finding(R[i], a[i]) : i \in I} = J
    OBVIOUS
  <2> QED BY <2>1, <2>2
<1>3. \A i \in DOMAIN R : a[i] = Answer(b, R[i], Gone(b, R, i - 1))
  BY DEF Answers
<1> HIDE DEF R, a
<1>4. IsFiniteSet(J)
  <2>1. PICK T : R \in Seq(T)
    BY <1>1
  <2>2. I \in SUBSET DOMAIN R
    OBVIOUS
  <2> HIDE DEF made, I
  <2> QED BY <2>1, <2>2, FindingsFinite
<1>5. ASSUME NEW f \in J
      PROVE  /\ \E e \in D : f.endpoint = e.name /\ Faulted("r1_tenant", b, e)
             /\ \E endpoint, severity, what, which :
                  f = Finding(LabelOf["r1_tenant"], endpoint, severity, what, which) /\ Counted(f)
  <2>1. PICK i \in I : f = made[i]
    OBVIOUS
  <2> DEFINE p == R[i]
             e == p.e
             x == a[i]
             severity == IF R1Leaked(p, x) THEN "leak" ELSE "violation"
  <2>2. i \in DOMAIN R /\ R1Fault(p, x)
    OBVIOUS
  <2>3. f = Finding("R1", e.name, severity, p.kind, p.one)
    BY <2>1 DEF R1Finding
  <2> HIDE DEF made
  <2>4. e \in D /\ p \in Probes(e) /\ x = Answer(b, p, Gone(b, R, i - 1))
    BY <1>1, <1>3, <2>2
  <2> HIDE DEF p, e, x
  <2>5. Faulted("r1_tenant", b, e)
    BY <2>2, <2>4, KeepsNoFault
  <2>6. severity # "info"
    OBVIOUS
  <2> HIDE DEF severity
  <2>7. f.endpoint = e.name /\ Counted(f) /\ LabelOf["r1_tenant"] = "R1"
    BY <2>3, <2>6 DEF Finding, Counted, LabelOf
  <2> QED BY <2>3, <2>4, <2>5, <2>7
<1>6. ASSUME NEW e \in D, ~KeepsRule("r1_tenant", b, e), ~Unseen("r1_tenant", b, e)
      PROVE  \E f \in J : f.endpoint = e.name
  <2>1. SUFFICES \E i \in I : R[i].e = e
    <3>1. PICK i \in I : R[i].e = e
      BY <2>1
    <3>2. made[i].endpoint = e.name
      BY <3>1 DEF R1Finding, Finding
    <3> HIDE DEF made, I
    <3> QED BY <3>1, <3>2
  <2>2. SUFFICES ASSUME \A i \in I : R[i].e # e PROVE FALSE
    OBVIOUS
  <2>3. \A i \in DOMAIN R : R[i].e = e => ~R1Fault(R[i], a[i])
    BY <2>2
  <2> HIDE DEF I, made
  <2>4. ~Orphaned(b, e)
    BY <1>6 DEF Unseen
  <2>5. PICK p \in Probes(e) : Exposes(b, e, p)
    BY <1>6, BreaksFault
  <2>6. PICK i \in DOMAIN R : R[i] = p
    BY <1>1
  <2>7. R[i].e = e
    BY <2>6, ProbeOfEndpoint
  <2>8. ~Unmoved(e, Gone(b, R, i - 1))
    BY <1>3, <2>3, <2>5, <2>6, <2>7 DEF Exposes
  <2>9. PICK org : \E x \in e.params : <<org, x>> \in Gone(b, R, i - 1)
    BY <2>8 DEF Unmoved
  <2>9a. PICK x \in e.params : <<org, x>> \in Gone(b, R, i - 1)
    BY <2>9
  <2>10. PICK T : R \in Seq(T)
    BY <1>1
  <2>11. PICK plan : InOrder(b, plan, R)
    BY <1>1
  <2>12. PICK j \in DOMAIN R : R[j].e = e /\ Status(b, R[j], Gone(b, R, j - 1)) = OK
    BY <2>4, <2>7, <2>9a, <2>10, <2>11, GoneByItself
  <2>13. a[j].status = OK /\ R[j] \in Probes(e)
    <3>1. a[j] = Answer(b, R[j], Gone(b, R, j - 1))
      BY <1>3
    <3>2. a[j].status = Status(b, R[j], Gone(b, R, j - 1))
      BY <3>1 DEF Answer
    <3>3. R[j] \in Probes(e)
      BY <1>1, <2>12
    <3> QED BY <2>12, <3>2, <3>3
  <2>14. R1Fault(R[j], a[j])
    BY <2>9a, <2>13, OkIsFault
  <2> QED BY <2>3, <2>12, <2>14
<1> HIDE DEF J
<1>7. Tells("r1_tenant", b, J)
  BY <1>4, <1>5, <1>6 DEF Tells
<1> QED BY <1>2, <1>7

(* ---- What a score makes of the findings ------------------------------------------------ *)

Rules == {"r1_tenant", "r2_roles", "r4_idempotency", "r5_audit"}

\* Each of the four checks tells the truth of its rule.
LEMMA ChecksTold ==
  ASSUME NEW rule \in Rules, NEW b, IsBuild(b), NEW params
  PROVE  \E J : GetCheck(rule, b, params).findings = ApplyExemptions(J) /\ Tells(rule, b, J)
<1>1. CASE rule = "r1_tenant"
  <2>1. GetCheck("r1_tenant", b, params) = TenantIsolation(b)
    BY DEF GetCheck
  <2> QED BY <1>1, <2>1, IsolationTold
<1>2. CASE rule = "r2_roles"
  <2>1. GetCheck("r2_roles", b, params) = Roles(b)
    BY DEF GetCheck
  <2> QED BY <1>2, <2>1, RolesTold
<1>3. CASE rule = "r4_idempotency"
  <2>1. GetCheck("r4_idempotency", b, params) = Idempotency(b)
    BY DEF GetCheck
  <2> QED BY <1>3, <2>1, IdempotencyTold
<1>4. CASE rule = "r5_audit"
  <2>1. GetCheck("r5_audit", b, params) = Audit(b)
    BY DEF GetCheck
  <2> QED BY <1>4, <2>1, AuditTold
<1> QED BY <1>1, <1>2, <1>3, <1>4 DEF Rules

\* The findings that count are those of endpoints that are not exempt.
LEMMA ExemptionsKeep ==
  ASSUME NEW rule, NEW b, NEW J, Tells(rule, b, J)
  PROVE  LET F == ApplyExemptions(J) IN
         /\ IsFiniteSet(F)
         /\ \A f \in F : Counted(f) => f \in J /\ <<LabelOf[rule], f.endpoint>> \notin Exempt
         /\ \A f \in J : Counted(f) /\ <<LabelOf[rule], f.endpoint>> \notin Exempt => f \in F
<1> DEFINE exempt(f) == Counted(f) /\ <<f.rule, f.endpoint>> \in Exempt
           kept == [f \in J |-> IF exempt(f) THEN [f EXCEPT !.severity = "info"] ELSE f]
           F == ApplyExemptions(J)
<1>1. F = {kept[f] : f \in J}
  BY DEF ApplyExemptions
<1>2. IsFiniteSet(F)
  <2>1. kept \in Surjection(J, F)
    BY <1>1 DEF Surjection
  <2>2. IsFiniteSet(J)
    BY DEF Tells
  <2> HIDE DEF kept, F
  <2> QED BY <2>1, <2>2, FS_Surjection
<1>3. \A f \in J : f.rule = LabelOf[rule] /\ "severity" \in DOMAIN f
  <2> TAKE f \in J
  <2>1. PICK endpoint, severity, what, which :
             f = Finding(LabelOf[rule], endpoint, severity, what, which)
    BY DEF Tells
  <2> DEFINE label == LabelOf[rule]
  <2> HIDE DEF label
  <2>2. f = Finding(label, endpoint, severity, what, which)
    BY <2>1 DEF label
  <2>3. f.rule = label /\ "severity" \in DOMAIN f
    BY <2>2 DEF Finding
  <2> QED BY <2>1, <2>3 DEF label
<1>4. ASSUME NEW f \in F, Counted(f)
      PROVE  f \in J /\ <<LabelOf[rule], f.endpoint>> \notin Exempt
  <2>1. PICK g \in J : f = kept[g]
    BY <1>1
  <2>2. CASE exempt(g)
    <3>1. f = [g EXCEPT !.severity = "info"]
      BY <2>1, <2>2
    <3>2. f.severity = "info"
      BY <1>3, <3>1
    <3> QED BY <1>4, <3>2 DEF Counted
  <2>3. CASE ~exempt(g)
    <3>1. f = g
      BY <2>1, <2>3
    <3> QED BY <1>3, <1>4, <2>3, <3>1
  <2> QED BY <2>2, <2>3
<1>5. ASSUME NEW f \in J, <<LabelOf[rule], f.endpoint>> \notin Exempt
      PROVE  f \in F
  <2>1. ~exempt(f)
    BY <1>3, <1>5
  <2>2. kept[f] = f
    BY <2>1
  <2> HIDE DEF kept
  <2> QED BY <1>1, <2>1, <2>2
<1> HIDE DEF F
<1> QED BY <1>2, <1>4, <1>5 DEF F

\* The findings that a baseline has of a check, and those that count.
KnownIn(c, from) == IF c \in DOMAIN from THEN from[c].fresh ELSE {}
CountedOf(found) == {f \in found : Counted(f)}

\* The new findings of a check that has not crashed.
LEMMA NewFindings ==
  ASSUME NEW c, NEW b, c \notin b.crashes, NEW params, NEW from
  PROVE  /\ RunCheck(c, b, params, from).new
              = Cardinality(CountedOf(GetCheck(c, b, params).findings) \ KnownIn(c, from))
         /\ RunCheck(c, b, params, from).fresh = GetCheck(c, b, params).findings \ KnownIn(c, from)
<1> DEFINE report == GetCheck(c, b, params)
           first == MakeResult(c, report)
           known == KnownIn(c, from)
<1>1. RunCheck(c, b, params, from) = MarkBaseline(first, from)
  BY DEF RunCheck
<1>2. first.check = c /\ first.fresh = report.findings
  BY DEF MakeResult
<1>3. DOMAIN first = {"check", "passed", "new", "old", "probes", "fresh", "known"}
  BY DEF MakeResult
<1> HIDE DEF first, report
<1> DEFINE counted == CountedOf(first.fresh)
<1>4. MarkBaseline(first, from) =
        [first EXCEPT !.fresh = first.fresh \ known, !.known = first.known \cap known,
                      !.new = Cardinality(counted \ known), !.old = Cardinality(counted \cap known),
                      !.passed = counted \subseteq known]
  BY <1>2 DEF MarkBaseline, KnownIn, CountedOf
<1> HIDE DEF counted, known
<1>5. /\ MarkBaseline(first, from).new = Cardinality(counted \ known)
      /\ MarkBaseline(first, from).fresh = first.fresh \ known
  BY <1>3, <1>4
<1> QED BY <1>1, <1>2, <1>5 DEF report, counted, known

\* What a score may say of a rule, given the build, its checkpoint and whether
\* there is a baseline.
Broken(rule, b) ==
  {e \in Discovered(b) : ~KeepsRule(rule, b, e) /\ <<LabelOf[rule], e.name>> \notin Exempt}
Excused(rule, old, b, from) ==
  {e \in Broken(rule, b) : \/ Unseen(rule, b, e)
                           \/ from # Nothing /\ e \in Discovered(old) /\ Faulted(rule, old, e)}
AtFault(rule, b) ==
  {e \in Discovered(b) : Faulted(rule, b, e) /\ <<LabelOf[rule], e.name>> \notin Exempt}

\* The four rules are checked, of the checkpoint too.
LEMMA RuleChecks == Rules \subseteq BaselineChecks /\ Rules \subseteq Checks /\ DOMAIN FieldOf = Rules
<1>1. \A n \in 1..13 : RefereeChecks[n] \in Checks
  BY DEF Checks, RefereeChecks, Range
<1>2. Rules \subseteq Checks
  BY <1>1 DEF Rules, RefereeChecks
<1>3. DOMAIN FieldOf = Rules
  BY DEF FieldOf, Rules
<1>4. Rules \subseteq BaselineChecks
  BY <1>2 DEF Rules, BaselineChecks
<1> QED BY <1>2, <1>3, <1>4

\* The result of a rule's check says that something is new when an endpoint
\* breaks the rule that is not exempt, and that was not found in the
\* checkpoint, and only when one is at fault.
LEMMA ResultTold ==
  ASSUME NEW rule \in Rules, NEW old, NEW b, IsBuild(old), IsBuild(b),
         rule \notin b.crashes, rule \notin old.crashes, NEW params,
         NEW from \in {Nothing, ComputeBaseline(old)}
  PROVE  LET new == RunCheck(rule, b, params, from).new IN
         /\ Broken(rule, b) \ Excused(rule, old, b, from) # {} => new > 0
         /\ AtFault(rule, b) = {} => new = 0
<1> DEFINE known == KnownIn(rule, from)
           found == GetCheck(rule, b, params).findings
           before == GetCheck(rule, old, NoParams).findings
           counted == CountedOf(found)
           new == RunCheck(rule, b, params, from).new
<1>1. new = Cardinality(counted \ known)
  BY NewFindings
<1>2. PICK J : found = ApplyExemptions(J) /\ Tells(rule, b, J)
  BY ChecksTold
<1>3. PICK K : before = ApplyExemptions(K) /\ Tells(rule, old, K)
  BY ChecksTold
<1>4. known = {} \/ (from # Nothing /\ known = before)
  <2>0. DOMAIN Nothing = {}
    BY DEF Nothing
  <2>1. CASE from = Nothing
    BY <2>0, <2>1 DEF KnownIn
  <2>2. CASE from = ComputeBaseline(old)
    <3>1. from[rule] = RunCheck(rule, old, NoParams, Nothing) /\ rule \in DOMAIN from
      BY <2>2, RuleChecks DEF ComputeBaseline, RunChecks
    <3>2. KnownIn(rule, Nothing) = {}
      BY <2>0 DEF KnownIn
    <3>3. RunCheck(rule, old, NoParams, Nothing).fresh = before \ KnownIn(rule, Nothing)
      BY NewFindings
    <3> HIDE DEF before
    <3>4. known = before
      BY <3>1, <3>2, <3>3 DEF KnownIn
    <3>5. from # Nothing
      BY <2>0, <3>1
    <3> QED BY <3>4, <3>5
  <2> QED BY <2>1, <2>2
<1>5. /\ IsFiniteSet(found)
      /\ \A f \in found : Counted(f) => f \in J /\ <<LabelOf[rule], f.endpoint>> \notin Exempt
      /\ \A f \in J : Counted(f) /\ <<LabelOf[rule], f.endpoint>> \notin Exempt => f \in found
  BY <1>2, ExemptionsKeep
<1>6. \A f \in before : Counted(f) => f \in K
  BY <1>3, ExemptionsKeep
<1> HIDE DEF found, before, known
<1> USE DEF CountedOf
<1>7. ASSUME NEW e \in Broken(rule, b) \ Excused(rule, old, b, from)
      PROVE  \E f : f \in counted \ known
  <2>1. /\ e \in Discovered(b) /\ ~KeepsRule(rule, b, e) /\ ~Unseen(rule, b, e)
        /\ <<LabelOf[rule], e.name>> \notin Exempt
        /\ ~(from # Nothing /\ e \in Discovered(old) /\ Faulted(rule, old, e))
    BY DEF Broken, Excused
  <2>2. PICK f \in J : f.endpoint = e.name /\ Counted(f)
    BY <1>2, <2>1 DEF Tells
  <2>3. f \in counted
    BY <1>5, <2>1, <2>2
  <2>4. ASSUME f \in known PROVE FALSE
    <3>1. from # Nothing /\ f \in K
      BY <1>4, <1>6, <2>3, <2>4
    <3>2. PICK d \in Discovered(old) : f.endpoint = d.name /\ Faulted(rule, old, d)
      BY <1>3, <2>2, <3>1 DEF Tells
    <3>3. d \in Endpoints /\ e \in Endpoints
      BY <2>1, <3>2 DEF Discovered, IsBuild
    <3>4. d = e
      BY <2>2, <3>2, <3>3, EndpointAssumption
    <3> QED BY <2>1, <3>1, <3>2, <3>4
  <2> QED BY <2>3, <2>4
<1>8. ASSUME NEW f \in counted
      PROVE  \E e : e \in AtFault(rule, b)
  <2>1. f \in J /\ <<LabelOf[rule], f.endpoint>> \notin Exempt
    BY <1>5
  <2>2. PICK e \in Discovered(b) : f.endpoint = e.name /\ Faulted(rule, b, e)
    BY <1>2, <2>1 DEF Tells
  <2> QED BY <2>1, <2>2 DEF AtFault
<1>9. IsFiniteSet(counted \ known)
  <2>1. counted \ known \subseteq found
    OBVIOUS
  <2> QED BY <1>5, <2>1, FS_Subset
<1>10. ASSUME Broken(rule, b) \ Excused(rule, old, b, from) # {} PROVE new > 0
  <2>1. counted \ known # {}
    BY <1>7, <1>10
  <2> HIDE DEF counted, new
  <2>2. Cardinality(counted \ known) \in Nat /\ Cardinality(counted \ known) # 0
    BY <1>9, <2>1, FS_CardinalityType, FS_EmptySet
  <2> QED BY <1>1, <2>2
<1>11. ASSUME AtFault(rule, b) = {} PROVE new = 0
  <2>1. counted \ known = {}
    BY <1>8, <1>11
  <2> HIDE DEF counted, new
  <2> QED BY <1>1, <2>1, FS_EmptySet
<1> QED BY <1>10, <1>11

\* The baseline is the one of the work's checkpoint, or there is none.
BaselineInv == work \in Builds /\ base \in {Nothing, ComputeBaseline(work.old)}

\* It is computed once, and the work stays.
LEMMA BaselineStays == Spec => []BaselineInv
<1>1. Init => BaselineInv
  BY DEF Init, BaselineInv
<1>2. BaselineInv /\ [Next]_vars => BaselineInv'
  <2> SUFFICES ASSUME BaselineInv, [Next]_vars PROVE BaselineInv'
    OBVIOUS
  <2>1. CASE BaselineReady
    BY <2>1 DEF BaselineReady, BaselineInv
  <2>2. ASSUME UNCHANGED <<work, base>> PROVE BaselineInv'
    BY <2>2 DEF BaselineInv
  <2>3. CASE ApplyDiff \/ Start \/ WriteInputs
    <3>1. UNCHANGED <<work, base>>
      BY <2>3 DEF ApplyDiff, Start, MayFail, WriteInputs
    <3> QED BY <2>2, <3>1
  <2>4. CASE RunFirst \/ RunSecond
    <3>1. UNCHANGED <<work, base>>
      BY <2>4 DEF RunFirst, RunSecond, CallRunner
    <3> QED BY <2>2, <3>1
  <2>5. CASE RunMutants \/ Announce \/ Leave \/ Decide
    <3>1. UNCHANGED <<work, base>>
      BY <2>5 DEF RunMutants, Announce, Leave, Decide
    <3> QED BY <2>2, <3>1
  <2>6. CASE UNCHANGED vars
    <3>1. UNCHANGED <<work, base>>
      BY <2>6 DEF vars
    <3> QED BY <2>2, <3>1
  <2> QED BY <2>1, <2>3, <2>4, <2>5, <2>6 DEF Next
<1> QED BY <1>1, <1>2, PTL DEF Spec

\* What a record says of a rule is what its check found.
LEMMA FieldsTell ==
  ASSUME NEW rule \in Rules, record = WholeRecord
  PROVE  record.fields[FieldOf[rule]] = RunCheck(rule, Build, Params(Build), base).new
<1> DEFINE found == ResultsOf(Checks)
           fields == ScoreFields(found, Outcomes)
<1>1. record.fields = fields
  BY DEF WholeRecord, MakeRecord
<1>2. rule \in DOMAIN found /\ found[rule] = RunCheck(rule, Build, Params(Build), base)
  BY RuleChecks DEF ResultsOf, RunChecks
<1> HIDE DEF found
<1>3. fields[FieldOf[rule]] = New(found, rule)
  <2>1. CASE rule = "r1_tenant"
    <3>1. FieldOf[rule] = "r1_new_violations"
      BY <2>1 DEF FieldOf
    <3>2. fields["r1_new_violations"] = New(found, "r1_tenant")
      BY DEF ScoreFields
    <3> QED BY <2>1, <3>1, <3>2
  <2>2. CASE rule = "r2_roles"
    <3>1. FieldOf[rule] = "r2_new_violations"
      BY <2>2 DEF FieldOf
    <3>2. fields["r2_new_violations"] = New(found, "r2_roles")
      BY DEF ScoreFields
    <3> QED BY <2>2, <3>1, <3>2
  <2>3. CASE rule = "r4_idempotency"
    <3>1. FieldOf[rule] = "r4_duplicates"
      BY <2>3 DEF FieldOf
    <3>2. fields["r4_duplicates"] = New(found, "r4_idempotency")
      BY DEF ScoreFields
    <3> QED BY <2>3, <3>1, <3>2
  <2>4. CASE rule = "r5_audit"
    <3>1. FieldOf[rule] = "r5_audit_missing"
      BY <2>4 DEF FieldOf
    <3>2. fields["r5_audit_missing"] = New(found, "r5_audit")
      BY DEF ScoreFields
    <3> QED BY <2>4, <3>1, <3>2
  <2> QED BY <2>1, <2>2, <2>3, <2>4 DEF Rules
<1> HIDE DEF fields
<1> QED BY <1>1, <1>2, <1>3 DEF New

\* The probes of a rule tell the truth about a build, whatever its endpoints
\* are and however they answer: a score that says nothing new breaks a rule
\* leaves no endpoint that breaks it, but for those that are exempt, that were
\* at fault at the checkpoint, or where no probe tells; one that says something
\* does is of an endpoint that breaks it, or that answers R1 what R1 takes for
\* it (P/checks/_http.py:83, where the order of the probes is decided, with the
\* plans of r1 to r5 and scores.py).
THEOREM RulesTold == Spec => []RulesJudgedRight
<1>1. JudgeInv /\ BaselineInv => RulesJudgedRight
  <2> SUFFICES ASSUME JudgeInv, BaselineInv, place = "done", ~error,
                      NEW rule \in DOMAIN FieldOf \ (Build.crashes \cup work.old.crashes)
               PROVE  LET broken == Broken(rule, Build)
                          excused == Excused(rule, work.old, Build, base)
                      IN  /\ broken \ excused # {} => record.fields[FieldOf[rule]] > 0
                          /\ AtFault(rule, Build) = {} => record.fields[FieldOf[rule]] = 0
    BY DEF RulesJudgedRight, Broken, Excused, AtFault
  <2>1. record = WholeRecord
    BY DEF JudgeInv, Progress
  <2>2. IsBuild(Build) /\ IsBuild(work.old) /\ base \in {Nothing, ComputeBaseline(work.old)}
    BY BuildAssumption DEF BaselineInv, IsBuild, Build
  <2>3. rule \in Rules
    BY RuleChecks
  <2>4. record.fields[FieldOf[rule]] = RunCheck(rule, Build, Params(Build), base).new
    BY <2>1, <2>3, FieldsTell
  <2>5. rule \notin Build.crashes /\ rule \notin work.old.crashes
    OBVIOUS
  <2>6. LET new == RunCheck(rule, Build, Params(Build), base).new IN
        /\ Broken(rule, Build) \ Excused(rule, work.old, Build, base) # {} => new > 0
        /\ AtFault(rule, Build) = {} => new = 0
    BY <2>2, <2>3, <2>5, ResultTold
  <2> QED BY <2>4, <2>6
<1> QED BY <1>1, JudgeProgress, BaselineStays, PTL
=============================================================================
