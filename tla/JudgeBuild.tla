---------------------------- MODULE JudgeBuild -----------------------------
(* The referee judging one build (Referee.judge in P/ab/referee.py, with     *)
(* P/ab/score.py, P/ab/mutants.py and P/checks/scores.py): the diff is       *)
(* applied, the checks the primary measure reads run first and the primary   *)
(* verdict is sent, then the rest runs and the record is made.               *)
(*                                                                           *)
(* A step that may fail has that outcome: applying the diff, starting the    *)
(* container, writing its inputs, either call of the check runner.           *)
EXTENDS HouseRules, Integers

CONSTANTS
  Builds,       \* pairs of a checkpoint and the build an arm made of it
  Measures,     \* primary measures
  Mutants,      \* referee mutants of the task
  Early         \* values of early_primary

\* How an endpoint of a build answers: who may call it, whether its schema
\* takes the generated request, the parameters whose rows have to be the
\* caller's, the kinds of request that its data refuse, whether it lists rows of
\* every org (a read without ids), how many audit rows it writes, whether it
\* adds rows, whether it answers 201 or documents it, and what it does with a
\* key it has seen.
ASSUME BuildAssumption ==
  \A w \in Builds : \A b \in {w.old, w.build} :
    /\ DOMAIN b.ops \subseteq Endpoints
    /\ \A e \in DOMAIN b.ops :
         LET o == b.ops[e] IN
         /\ o.authed \in BOOLEAN /\ o.guarded \in BOOLEAN /\ o.lists \in BOOLEAN /\ o.audits \in Nat
         /\ o.lists => e.method = "GET" /\ e.params = {} /\ e.body = {}
         /\ o.replay \in {"replays", "repeats", "differs"}
         /\ o.accepts \in BOOLEAN /\ o.creates \in BOOLEAN /\ o.says \subseteq {"answers", "documents"}
         /\ \A r \in DOMAIN o.refused : o.refused[r] \in {404, 409, 422}

VARIABLES
  work,         \* [old, build]: the checkpoint and the arm's build
  measure,      \* the task's primary measure
  early,        \* whether the primary measure's checks run first
  base,         \* the baseline's results, or the empty function
  place,        \* the next step of judge
  results,      \* check -> its result, of the runner calls that worked
  killed,       \* mutant -> its outcome, none before they ran
  error,        \* whether the build could not be judged
  told,         \* the primary verdict that was sent, or Untold
  record        \* the score record, or Untold

vars == <<work, measure, early, base, place, results, killed, error, told, record>>

Untold == [passed |-> "untold"]
Nothing == <<>>     \* the empty function
Build == work.build

(* ---- What a measure reads ---------------------------------------------- *)

\* A measure is [terms, counts]: fields that fail it when they are true or
\* not zero, and counts that have to equal their totals.
Totals == [hidden_passed |-> "hidden_total", mutants_killed |-> "mutants_total"]
PrimaryFields(m) == m.terms \cup m.counts \cup {Totals[n] : n \in m.counts}

MutantsSource == "mutants"
\* Mutant of FieldSources: the continuity field waits for no check.
UnsourcedContinuity == [n \in {"r1_new_violations", "r1_leaks"} |-> {"r1_tenant"}]
  @@ [n \in {"hidden_passed", "hidden_total"} |-> {"hidden_tests"}]
  @@ [n \in {"mutants_killed", "mutants_total"} |-> {MutantsSource}]
  @@ [n \in {"continuity_failure", "out_of_scope_files", "test_phase_source_edits"} |-> {}]
FieldSources ==
  [r1_new_violations |-> {"r1_tenant"}, r1_leaks |-> {"r1_tenant"}, r2_new_violations |-> {"r2_roles"},
   r3_new_failures |-> {"r3_conventions"}, r4_duplicates |-> {"r4_idempotency"},
   r5_audit_missing |-> {"r5_audit"}, r6_ok |-> {"r6_layering"}, r7_ok |-> {"r7_migrations"},
   regression_passed |-> {"regression"}, regression_total |-> {"regression"},
   hidden_passed |-> {"hidden_tests"}, hidden_total |-> {"hidden_tests"},
   flaky_tests |-> {"flakiness"}, continuity_failure |-> {"continuity"}, board_ok |-> {"board"},
   mutants_killed |-> {MutantsSource}, mutants_total |-> {MutantsSource},
   shipped_tests |-> {}, out_of_scope_files |-> {}, test_phase_source_edits |-> {}]

\* primary_stage: what must have run before the measure can be evaluated.
Sources(m) == UNION {FieldSources[f] : f \in PrimaryFields(m)}
PrimaryStage(m) ==
  IF PrimaryFields(m) \subseteq DOMAIN FieldSources
  THEN [checks |-> Checks \cap Sources(m), mutants |-> MutantsSource \in Sources(m)]
  ELSE [checks |-> Checks, mutants |-> TRUE]

(* ---- What the host reads off the applied diff -------------------------- *)

Scope == Allowed.build \cup Allowed.test
OutOfScope(b) == IF Scope = {} THEN {} ELSE (b.changed \ Artifacts) \ Scope
PhaseEdits(b) == IF Scope = {} THEN {} ELSE (b.inTestPhase \ Artifacts) \ Allowed.test

Params(b) == [shipped |-> b.shipped, changed |-> b.changed \ Artifacts, inTestPhase |-> b.inTestPhase]

\* baseline: every check but those that need an arm's sessions and tests.
BaselineChecks == Checks \ {"continuity", "flakiness"}
ComputeBaseline(old) == RunChecks(BaselineChecks, old, NoParams, Nothing)

(* ---- The record -------------------------------------------------------- *)

New(found, c) == IF c \in DOMAIN found THEN found[c].new ELSE 0
Leaks(found) ==
  IF "r1_tenant" \in DOMAIN found
  THEN Cardinality({f \in found["r1_tenant"].fresh : f.severity = "leak"}) ELSE 0
Ok(found, c) == c \in DOMAIN found /\ found[c].passed
\* _failing: what fails, on the checkpoint too, counts against a test score.
Failing(r) == r.new + r.old
Passed(found, c) == IF c \in DOMAIN found THEN found[c].probes - Failing(found[c]) ELSE 0
Total(found, c, default) == IF c \in DOMAIN found THEN found[c].probes ELSE default
KilledCount(outcomes) == Cardinality({m \in DOMAIN outcomes : outcomes[m] = "killed"})

\* The fields of the record, the host's own values for those it computes.
ScoreFields(found, outcomes) ==
  [r1_new_violations |-> New(found, "r1_tenant"), r1_leaks |-> Leaks(found),
   r2_new_violations |-> New(found, "r2_roles"),
   r3_new_failures |-> New(found, "r3_conventions"), r4_duplicates |-> New(found, "r4_idempotency"),
   r5_audit_missing |-> New(found, "r5_audit"), r6_ok |-> Ok(found, "r6_layering"),
   r7_ok |-> Ok(found, "r7_migrations"),
   regression_passed |-> Passed(found, "regression"),
   regression_total |-> Total(found, "regression", 0),
   hidden_passed |-> Passed(found, "hidden_tests"),
   hidden_total |-> Total(found, "hidden_tests", Cardinality(Hidden)),
   flaky_tests |-> New(found, "flakiness"),
   continuity_failure |-> "continuity" \in DOMAIN found /\ ~found["continuity"].passed,
   board_ok |-> Ok(found, "board"),
   mutants_killed |-> KilledCount(outcomes), mutants_total |-> Cardinality(Mutants),
   shipped_tests |-> Cardinality(DOMAIN Build.shipped),
   out_of_scope_files |-> Cardinality(OutOfScope(Build)),
   test_phase_source_edits |-> Cardinality(PhaseEdits(Build))]

EvaluatePrimary(m, fields) ==
  /\ \A n \in m.counts : fields[n] = fields[Totals[n]]
  /\ \A n \in m.terms : IF n = "continuity_failure" THEN ~fields[n] ELSE fields[n] = 0
PrimaryValues(m, fields) == [n \in m.terms \cup m.counts |-> fields[n]]

\* _record: a build that could not be judged never passes.
MakeRecord(found, outcomes, failed) ==
  LET fields == ScoreFields(found, outcomes)
      passed == EvaluatePrimary(measure, fields) /\ ~failed
  IN  [fields |-> fields, primary |-> PrimaryValues(measure, fields), passed |-> passed,
       accepts |-> /\ passed
                   /\ fields.r1_new_violations = 0 /\ fields.r2_new_violations = 0
                   /\ fields.r6_ok /\ fields.r7_ok
                   /\ fields.regression_passed = fields.regression_total]

(* ---- The referee's mutants ---------------------------------------------- *)

\* _passing_unmutated: by the one run of all shipped tests, or on its own
\* where that run reported nothing of a test.
PassingUnmutated(shipped) ==
  {t \in DOMAIN shipped :
     IF shipped[t].batch # {} THEN shipped[t].batch = {"PASSED"} ELSE shipped[t].alone}

\* _mutants: no test that may kill, no kill; what is no outcome is an error.
MutantOutcomes(b) ==
  [m \in Mutants |->
     IF PassingUnmutated(b.shipped) = {} THEN "survived"
     ELSE IF b.kills[m] \in {"killed", "survived", "timeout"} THEN b.kills[m] ELSE "error"]

(* ---- judge --------------------------------------------------------------- *)

Init ==
  /\ work \in Builds
  /\ measure \in Measures
  /\ early \in Early
  /\ base = Nothing /\ place = "baseline"
  /\ results = Nothing /\ killed = Nothing
  /\ error = FALSE /\ told = Untold /\ record = Untold

\* baseline: one for both arms; none when its container or its runner failed.
BaselineReady ==
  /\ place = "baseline"
  /\ base' \in {Nothing, ComputeBaseline(work.old)}
  /\ place' = "apply"
  /\ UNCHANGED <<work, measure, early, results, killed, error, told, record>>

\* A step that may fail, on the way to the checks: applying the diff,
\* starting the container.
MayFail(here, next) ==
  /\ place = here
  /\ \/ error' = FALSE /\ place' = next
     \/ error' = TRUE /\ place' = "announce late"
  /\ UNCHANGED <<work, measure, early, base, results, killed, told, record>>
ApplyDiff == MayFail("apply", "start")
Start == MayFail("start", "inputs")

\* _write_inputs: on a failure no check runs, the mutants still do.
WriteInputs ==
  /\ place = "inputs"
  /\ error' \in BOOLEAN
  /\ place' = "first"
  /\ UNCHANGED <<work, measure, early, base, results, killed, told, record>>

FirstStage == IF early THEN PrimaryStage(measure) ELSE [checks |-> Checks, mutants |-> TRUE]

\* The results of two calls together.
Joined(f, g) == [c \in DOMAIN f \cup DOMAIN g |-> IF c \in DOMAIN f THEN f[c] ELSE g[c]]

\* One call of the check runner.
CallRunner(checks, next) ==
  /\ place' = next
  /\ IF checks = {} \/ error THEN UNCHANGED <<results, error>>
     ELSE \/ error' = TRUE /\ UNCHANGED results
          \/ /\ results' = Joined(RunChecks(checks, Build, Params(Build), base), results)
             /\ UNCHANGED error
  /\ UNCHANGED <<work, measure, early, base, killed, told, record>>
RunFirst ==
  /\ place = "first"
  /\ CallRunner(FirstStage.checks, IF FirstStage.mutants THEN "mutants first" ELSE "announce")
RunSecond ==
  /\ place = "second"
  /\ CallRunner(Checks \ FirstStage.checks, IF FirstStage.mutants THEN "leave" ELSE "mutants second")

RunMutants ==
  /\ place \in {"mutants first", "mutants second"}
  /\ killed' = MutantOutcomes(Build)
  /\ place' = IF place = "mutants first" THEN "announce" ELSE "leave"
  /\ UNCHANGED <<work, measure, early, base, results, error, told, record>>

\* announce: the record of what has been judged so far, once.
Announce ==
  /\ place = "announce"
  /\ told' = MakeRecord(IF error THEN Nothing ELSE results, killed, error)
  /\ place' = "second"
  /\ UNCHANGED <<work, measure, early, base, results, killed, error, record>>

\* A failure of either call discards every result.
Leave ==
  /\ place = "leave"
  /\ results' = IF error THEN Nothing ELSE results
  /\ place' = "announce late"
  /\ UNCHANGED <<work, measure, early, base, killed, error, told, record>>

\* The last announcement, when nothing ran in a container; then the record
\* and the verdict.
Decide ==
  /\ place = "announce late"
  /\ told' = IF told = Untold THEN MakeRecord(Nothing, Nothing, error) ELSE told
  /\ record' = MakeRecord(results, killed, error)
  /\ place' = "done"
  /\ UNCHANGED <<work, measure, early, base, results, killed, error>>

Next == BaselineReady \/ ApplyDiff \/ Start \/ WriteInputs \/ RunFirst \/ RunSecond \/ RunMutants
        \/ Announce \/ Leave \/ Decide
Spec == Init /\ [][Next]_vars

(* ---- Properties ----------------------------------------------------------- *)

\* Judging the primary measure's checks first never changes a score: the
\* record of a build that could be judged is the one that a single pass over
\* all checks gives, and so is the primary verdict sent before the rest ran
\* (P/ab/referee.py:9).
OrderNeverChangesScore ==
  place = "done" /\ ~error =>
    LET whole == MakeRecord(RunChecks(Checks, Build, Params(Build), base), MutantOutcomes(Build), FALSE)
    IN  record = whole /\ told.passed = whole.passed /\ told.primary = whole.primary

\* Whether an endpoint keeps a house rule, as the rule says it.  R4: a key that
\* comes again adds no rows, and a create that takes keys answers as before.
KeepsRule(rule, b, e) ==
  LET o == b.ops[e] IN
  CASE rule = "r1_tenant" -> /\ o.authed /\ e.params \cup e.body \subseteq o.scoped
                             /\ (e.params = {} => ~o.lists)
    [] rule = "r2_roles" -> IsWrite(e) => o.guarded
    [] rule = "r4_idempotency" ->
         e.method = "POST" => /\ o.creates => o.replay # "repeats"
                              /\ e.keyed /\ (o.creates \/ o.says # {}) => o.replay # "differs"
    [] rule = "r5_audit" -> IsWrite(e) => o.audits = 1
FieldOf == [r1_tenant |-> "r1_new_violations", r2_roles |-> "r2_new_violations",
            r4_idempotency |-> "r4_duplicates", r5_audit |-> "r5_audit_missing"]
LabelOf == [r1_tenant |-> "R1", r2_roles |-> "R2", r4_idempotency |-> "R4", r5_audit |-> "R5"]

\* What no probe of a rule can tell: an id of the body that is not scoped
\* beside one that is, for a request points them all at the other org; a POST
\* that neither answers 201 nor documents it; a delete whose object an endpoint
\* that is as deep deletes; and an endpoint that refuses the probe for another
\* reason than the rule's.
Orphaned(b, e) ==
  /\ e.method = "DELETE"
  /\ \E d \in Discovered(b) \ {e} : d.method = "DELETE" /\ d.depth >= e.depth /\ d.last \in e.params
Refuses(o, kinds) == ~o.accepts \/ \E r \in DOMAIN o.refused : r[1] \in kinds
R1Kinds == {"foreign_path", "foreign_param", "no_path", "foreign_body", "anonymous"}
Unseen(rule, b, e) ==
  LET o == b.ops[e] IN
  CASE rule = "r1_tenant" -> \/ Orphaned(b, e)
                             \/ e.body \ o.scoped # {} /\ e.body \cap o.scoped # {}
                             \/ Refuses(o, R1Kinds)
    [] rule = "r2_roles" -> FALSE
    [] rule = "r4_idempotency" -> o.says = {} \/ Refuses(o, {"keyed"})
    [] rule = "r5_audit" -> Orphaned(b, e) \/ Refuses(o, {"write"})

\* What R1 reports though the rule is kept: a schema that does not take the
\* request is not the "not found" that the other org's ids have to get.
Misread(rule, b, e) == rule = "r1_tenant" /\ e.params # {} /\ ~b.ops[e].accepts
Faulted(rule, b, e) == ~KeepsRule(rule, b, e) \/ Misread(rule, b, e)

\* The probes of a rule tell the truth about the build: when a score says
\* that nothing new breaks the rule, each endpoint keeps it, or is exempt, or
\* was reported at the checkpoint already, or breaks it where no probe looks;
\* when it says that something does, an endpoint breaks it, or answers R1 what
\* R1 takes for it.  Checks that crash say nothing.  It is what the order of
\* the probes on one database is for (P/checks/_http.py:83).
RulesJudgedRight ==
  place = "done" /\ ~error =>
    \A rule \in DOMAIN FieldOf \ (Build.crashes \cup work.old.crashes) :
      LET broken == {e \in Discovered(Build) : ~KeepsRule(rule, Build, e)
                                               /\ <<LabelOf[rule], e.name>> \notin Exempt}
          excused == {e \in broken : \/ Unseen(rule, Build, e)
                                     \/ /\ base # Nothing /\ e \in Discovered(work.old)
                                        /\ Faulted(rule, work.old, e)}
          faulted == {e \in Discovered(Build) : Faulted(rule, Build, e)
                                                /\ <<LabelOf[rule], e.name>> \notin Exempt}
      IN  /\ broken \ excused # {} => record.fields[FieldOf[rule]] > 0
          /\ faulted = {} => record.fields[FieldOf[rule]] = 0
=============================================================================
