---------------------------- MODULE TestFilters ----------------------------
(* The tests that an agent proposes in a test phase and the five filters     *)
(* they go through (P/filters, P/harness/verify, P/testgen/run.py).  In an   *)
(* A/B the verify layer filters what was proposed, several tests at a time;  *)
(* in testgen without layers testgen filters it; in testgen with the verify  *)
(* layer both do, and share one FilterRun.                                   *)
(*                                                                           *)
(* A filter may also fail for a reason of its own (a time limit, an error    *)
(* of the filter): that is an outcome of every evaluation.                   *)
EXTENDS Integers, FiniteSets, Sequences, SequencesExt

CONSTANTS
  Old,          \* the tests that pytest collected when the phase began
  Existing,     \* the sets of them that --tests may select for testgen's baseline
  Workspaces,   \* sequences of the tests in the workspace after the phase, in file order
  Edits,        \* sets of files the agent may have edited beside their tests
  Mutants,      \* mutants: [id, set, matches], matches the lines its text is found on
  MaxTests,     \* testgen's --max-tests
  Caps,         \* the layer's max_filtered_tests; -1 is none
  Cpus          \* CPUs of the sandbox

\* A test is a record: id, file, visible (its file is under the visible test
\* directory), parses, collects, outcomes (of its runs), lines (of the source
\* it executes), kills (ids of mutants it fails on), asserts, mocks, and edits
\* (running it changes a source file).
ASSUME FilterConstants == MaxTests \in Nat /\ Caps \subseteq Int /\ Cpus \in Nat

\* A test's id is its file and its name.  A file may define a name twice: those
\* are two records of one id, of which the later is the one that runs.  A file
\* that does not parse holds one record for all that is new in it, whose id is
\* the file's path, beside the old tests that the agent left in it.
ASSUME TestAssumption ==
  /\ \A e \in Existing : e \subseteq Old
  /\ \A o \in Old : o.parses
  /\ \A w \in Workspaces :
       /\ w \in Seq(Range(w)) /\ IsInjective(w)
       /\ \A t, u \in Range(w) :
            /\ t.id = u.id => t.file = u.file
            /\ t.file = u.file => t.visible = u.visible
            /\ t.file = u.file /\ t # u /\ ~t.parses => u \in Old /\ u.id # t.id

VARIABLES
  mode,         \* "ab", "testgen", or "testgen verify"
  given,        \* the tests that testgen measures its baseline on
  workspace,    \* the tests in the workspace after the phase, old and new, in file order
  edited,       \* files that the agent edited beside their tests
  cap,          \* max_filtered_tests of the layer
  place,        \* the next step of the hook or of run_testgen
  suite,        \* the tests in the workspace
  touched,      \* whether a source file differs from the start of the phase
  ctx,          \* the filter context: [lines, survivors]
  queue,        \* the tests being filtered, in the order they are handed over
  stage,        \* each of them -> its next filter, 6 after the last, 0 when discarded
  results,      \* [id, filter, passed] of every evaluation
  evaluated, notEvaluated,  \* FilterRun's lists
  kept,         \* the ids the layer, or testgen, says are kept
  written       \* what testgen wrote to its output directory

phase == <<mode, given, workspace, edited, cap>>   \* what the phase left, and the settings
vars == <<phase, place, suite, touched, ctx, queue, stage, results, evaluated, notEvaluated,
          kept, written>>

\* The members of a sequence that are in a set, in the sequence's order.
Select(s, S) ==
  LET at == {i \in DOMAIN s : s[i] \in S}
      nth(k) == CHOOSE i \in at : Cardinality({j \in at : j <= i}) = k
  IN  [k \in 1..Cardinality(at) |-> s[nth(k)]]

Ids(ts) == {t.id : t \in ts}
Files(ts) == {t.file : t \in ts}

\* The test of a name that runs: of two definitions in a file, the later.
Later(u, t) ==
  \E i, j \in DOMAIN workspace : workspace[i] = t /\ workspace[j] = u /\ i < j
Live(ts) == {t \in ts : ~\E u \in ts : u.id = t.id /\ Later(u, t)}
InWorkspace == Range(workspace)
\* Files that ast cannot parse.
Unparsed == Files({t \in InWorkspace : ~t.parses})

Idle == <<>>
Filters == 1..5
FilterCount == 5

(* ---- Mutants and coverage ----------------------------------------------- *)

\* run_mutant: the tests on a copy with the mutated line, which must be one.
RunMutant(m, ts) ==
  IF m.matches # 1 THEN "error"
  ELSE IF \E t \in ts : ~t.parses \/ ~t.collects THEN "killed"
  ELSE IF \E t \in ts : m.id \in t.kills \/ t.outcomes = {"fail"} THEN "killed"
  ELSE IF ts = {} THEN "error" ELSE "survived"

\* measure_coverage: a test that does not collect leaves no report, nor does a
\* run of no test (pytest's exit codes 2 and 5).
Measured(ts) == ts # {} /\ \A t \in ts : t.parses /\ t.collects
Covered(ts) == UNION {t.lines : t \in ts}

\* build_context: coverage of the tests it is given, and the filter-set
\* mutants that they do not kill.
Context(ts, mutants) ==
  [lines |-> Covered(ts),
   survivors |-> {m \in mutants : m.set = "filter" /\ RunMutant(m, ts) = "survived"}]

(* ---- The five filters ----------------------------------------------------- *)

ImportsAndRuns(t) == t.file \notin Unparsed /\ t.collects
PassesFiveRuns(t) == "pass" \in t.outcomes       \* a flaky test may pass five times
\* Mutant of AddsCoverageOrKillsMutant: any covered line is an added line.
AnyCoverage(t) == Measured({t}) /\ t.lines # {}
AddsCoverageOrKillsMutant(t) ==
  \/ Measured({t}) /\ t.lines \ ctx.lines # {}
  \/ \E m \in ctx.survivors : RunMutant(m, {t}) = "killed"
\* check_test: mocking is only looked for with a target module, testgen's.
RealAssertionsNoMocking(t) == t.parses /\ t.asserts /\ (mode # "ab" => ~t.mocks)
NoSourceChange == ~touched

Passes(n, t) ==
  CASE n = 1 -> ImportsAndRuns(t)
    [] n = 2 -> PassesFiveRuns(t)
    [] n = 3 -> AddsCoverageOrKillsMutant(t)
    [] n = 4 -> RealAssertionsNoMocking(t)
    [] n = 5 -> NoSourceChange

\* Filters 2 and 3 run the test in the workspace.
Runs(n) == n \in {2, 3}

Discarded == {r.id : r \in {x \in results : ~x.passed}}
\* kept_tests: passed by every filter, and discarded by none.
KeptTests == {r.id : r \in {x \in results : x.id \notin Discarded
                              /\ \A n \in Filters : [id |-> x.id, filter |-> n, passed |-> TRUE] \in results}}

(* ---- The pipeline --------------------------------------------------------- *)

\* filter_workers and run_pipeline_parallel; a FilterRun filters one at a time.
Workers == IF mode = "ab" THEN (IF Cpus > 1 THEN Cpus ELSE 1) ELSE 1
InPlace == place \in {"layer filters", "testgen filters"}
Waiting == {t \in DOMAIN stage : stage[t] = 1}
Working == {t \in DOMAIN stage : stage[t] \in 2..FilterCount}
Through == Working \cup Waiting = {}
\* The one that a free worker takes.
Next1 == {queue[i] : i \in {j \in DOMAIN queue :
                             /\ Cardinality(Working) < Workers
                             /\ queue[j] \in Waiting /\ \A k \in 1..(j - 1) : queue[k] \notin Waiting}}

\* pytest is given an id: what runs is the file's live test of that name.
RunBy(id) == {u \in Live(suite) : u.id = id}

\* One filter of one test: run_pipeline's inner loop.
Evaluate(t) ==
  /\ InPlace /\ t \in Working \cup Next1
  /\ \E passed \in BOOLEAN :
       /\ passed => \E u \in RunBy(t.id) : Passes(stage[t], u)
       /\ results' = results \cup {[id |-> t.id, filter |-> stage[t], passed |-> passed]}
       /\ stage' = [stage EXCEPT ![t] = IF passed THEN @ + 1 ELSE 0]
  /\ touched' = (touched \/ \E u \in RunBy(t.id) : u.edits /\ u.collects /\ Runs(stage[t]))
  /\ UNCHANGED <<phase, place, suite, ctx, queue, evaluated, notEvaluated, kept, written>>

Begin(s) == queue' = s /\ stage' = [t \in Range(s) |-> 1]

(* ---- The verify layer at the end of the test phase ------------------------ *)

\* find_candidates: new or changed tests under the visible directory, by a
\* dictionary of each file's names (a name's first place, its last text), and
\* the tests of the files there that do not parse: delete_files takes them all.
LiveOf(t) == CHOOSE u \in Live(InWorkspace) : u.id = t.id
New == {t \in Live(InWorkspace) : t \notin Old /\ t.visible /\ t.file \notin Unparsed}
Candidates ==
  LET firsts == {t \in InWorkspace : ~\E u \in InWorkspace : u.id = t.id /\ Later(t, u)}
      names == Select(workspace, {t \in firsts : t.id \in Ids(New)})
  IN  [i \in DOMAIN names |-> LiveOf(names[i])]
Broken == {t \in InWorkspace : t.visible /\ t.file \in Unparsed}
Within == IF cap < 0 THEN Candidates ELSE SubSeq(Candidates, 1, IF cap < Len(Candidates) THEN cap ELSE Len(Candidates))
\* Mutant of Over: tests over the cap stay.
NoneOver == {}
Over == Range(Candidates) \ Range(Within)

\* Mutant of Unseen: tests that found no room are tried again.
NotEvaluatedYet(cands) == Select(cands, {t \in Range(cands) : t.id \notin Range(evaluated)})
\* FilterRun.evaluate: only tests that it has not seen, and room for so many.
Unseen(cands) ==
  Select(cands, {t \in Range(cands) : t.id \notin Range(evaluated) \cup Range(notEvaluated)})
FilterRun(cands) ==
  LET new == Unseen(cands)
      room == IF MaxTests > Len(evaluated) THEN MaxTests - Len(evaluated) ELSE 0
      now == SubSeq(new, 1, IF room < Len(new) THEN room ELSE Len(new))
      later == SubSeq(new, Len(now) + 1, Len(new))
      ids(ts) == [i \in DOMAIN ts |-> ts[i].id]
  IN  /\ evaluated' = evaluated \o ids(now)
      /\ notEvaluated' = notEvaluated \o ids(later)
      /\ Begin(now)

\* filters_pipeline: the context is built now, by running the files that existed,
\* or, when there were none, the configured suite.
ExistingFiles == Files({o \in Old : o.visible})
Remaining == suite \ (Broken \cup Over)
NowInThem == Live({t \in Remaining : ExistingFiles = {} \/ t.file \in ExistingFiles})
\* pytest refuses a path that is not there (exit code 4).  A file that lost its
\* last test here is deleted; one that the agent emptied may still be there.
Emptied == ExistingFiles \ Files(Remaining)
DeletedHere == Emptied \cap Files(InWorkspace)

\* on_phase_end with nothing to filter; with testgen's FilterRun as its pipeline;
\* and with filters_pipeline, which may fail before the first filter.
NothingToFilter ==
  /\ Range(Within) = {}
  /\ place' = IF mode = "ab" THEN "done" ELSE "collect"
  /\ UNCHANGED <<touched, ctx, queue, stage, evaluated, notEvaluated>>
FilterForTestgen ==
  /\ Range(Within) # {} /\ mode # "ab"
  /\ FilterRun(Within) /\ place' = "layer filters"
  /\ UNCHANGED <<touched, ctx>>
FilterInAB ==
  /\ Range(Within) # {} /\ mode = "ab"
  /\ Measured(NowInThem) /\ DeletedHere = {}
  /\ ctx' = Context(NowInThem, {})
  /\ touched' = (touched \/ \E t \in NowInThem : t.edits)
  /\ Begin(Within) /\ place' = "layer filters"
  /\ UNCHANGED <<evaluated, notEvaluated>>
SetupFails ==
  /\ Range(Within) # {} /\ mode = "ab"
  /\ ~Measured(NowInThem) \/ Emptied # {}
  /\ place' = "raised"                          \* FilterSetupError: the hook fails
  /\ UNCHANGED <<touched, ctx, queue, stage, evaluated, notEvaluated>>

\* Up to the pipeline: broken files and tests over the cap go.
PhaseEnd ==
  /\ place = "phase end"
  /\ suite' = Remaining
  /\ NothingToFilter \/ FilterForTestgen \/ FilterInAB \/ SetupFails
  /\ UNCHANGED <<phase, results, kept, written>>

\* on_phase_end, after the pipeline: what a filter failed goes, the rest is
\* kept, and committed.
Keep ==
  /\ place = "layer filters" /\ Through
  /\ LET out == {t \in Range(Within) : t.id \in Discarded} IN
       /\ suite' = suite \ out
       /\ kept' = Ids(Range(Within) \ out)
  /\ queue' = Idle /\ stage' = Idle
  /\ place' = IF mode = "ab" THEN "done" ELSE "collect"
  /\ UNCHANGED <<phase, touched, ctx, results, evaluated, notEvaluated, written>>

(* ---- testgen --------------------------------------------------------------- *)

\* The test files that changed, and every test in them, old and new and as
\* often as it is defined; of a file that does not parse, the file
\* (collect_candidates).
ChangedFiles == edited \cup Files(InWorkspace \ Old) \cup Files(Old \ InWorkspace)
Collected ==
  Select(workspace, {t \in suite : t.file \in ChangedFiles /\ (t.file \in Unparsed => ~t.parses)})

Collect ==
  /\ place = "collect"
  /\ FilterRun(Collected)
  /\ place' = "testgen filters"
  /\ UNCHANGED <<phase, suite, touched, ctx, results, kept, written>>

\* _write_outputs: the files with a kept test, without those that have a
\* result and are not kept.
WriteOutputs ==
  /\ place = "testgen filters" /\ Through
  /\ kept' = KeptTests
  /\ LET files == Files({x \in suite : x.id \in KeptTests})
         removed == {r.id : r \in results} \ KeptTests
     IN  written' = Ids({x \in suite : x.file \in files /\ x.id \notin removed})
  /\ queue' = Idle /\ stage' = Idle
  /\ place' = "done"
  /\ UNCHANGED <<phase, suite, touched, ctx, results, evaluated, notEvaluated>>

(* ---- Specification ---------------------------------------------------------- *)

\* The agent's phase is over: it may have changed tests, and source.  testgen
\* built its context before the phase, on the tests that --tests selects.
Init ==
  /\ mode \in {"ab", "testgen", "testgen verify"}
  /\ workspace \in Workspaces /\ edited \in Edits
  /\ given \in IF mode = "ab" THEN {{}} ELSE {e \in Existing : Measured(e)}
  /\ cap \in IF mode = "ab" THEN Caps ELSE {-1}
  /\ place = IF mode = "testgen" THEN "collect" ELSE "phase end"
  /\ suite = InWorkspace
  /\ touched \in BOOLEAN
  /\ ctx = Context(given, IF mode = "ab" THEN {} ELSE Mutants)
  /\ queue = Idle /\ stage = Idle
  /\ results = {}
  /\ evaluated = <<>> /\ notEvaluated = <<>>
  /\ kept = {} /\ written = {}

Next ==
  \/ PhaseEnd \/ Keep \/ Collect \/ WriteOutputs
  \/ \E t \in DOMAIN stage : Evaluate(t)

Spec == Init /\ [][Next]_vars

(* ---- Properties -------------------------------------------------------------- *)

\* A kept test earned it, whoever ran the filters and however the tests
\* interleaved: it passed, it asserts something, it does not change source,
\* and it covers a line that no test of the baseline covers, or fails on a
\* mutant that all of them pass (P/filters/pipeline.py:1,
\* P/harness/verify/testphase.py:1).  testgen's baseline is what --tests
\* selects; that of an A/B's layer the tests under the visible directory that
\* the agent left as they were and that still run.
Before == IF mode = "ab" THEN {t \in Live(InWorkspace) \cap Old : t.visible} ELSE given
Earned(t) ==
  /\ "pass" \in t.outcomes /\ t.asserts /\ ~t.edits
  /\ mode # "ab" => ~t.mocks
  /\ \/ t.lines \ Covered(Before) # {}
     \/ \E m \in Mutants : /\ m.set = "filter" /\ m.id \in t.kills
                           /\ \A o \in Before : m.id \notin o.kills
Reported == IF mode = "ab" THEN kept ELSE KeptTests
KeptTestsEarned ==
  place = "done" => \A t \in Live(InWorkspace) : t.id \in Reported => Earned(t)

\* Whoever asks for it, the layer or testgen, a test is evaluated at most
\* once, at most max_tests are, and the report counts every new test of a file
\* that parses (P/testgen/run.py:233, FilterRun); the written files hold every
\* kept test and none that a filter discarded.  The docstring's "at most once
\* per proposed test" does not hold of two functions of one name, which
\* collect_candidates lists twice: only those are excepted.
Twice(id) == \E t, u \in InWorkspace : t # u /\ t.id = id /\ u.id = id
CountedOnce ==
  place = "done" /\ mode # "ab" =>
    LET listed == evaluated \o notEvaluated IN
    /\ \A i, j \in DOMAIN listed : listed[i] = listed[j] => i = j \/ Twice(listed[i])
    /\ Len(evaluated) <= MaxTests
    /\ \A t \in InWorkspace \ Old : t.file \notin Unparsed => t.id \in Range(listed)
    /\ \A id \in Range(evaluated) : (id \in KeptTests) # (id \in Discarded)
    /\ kept \subseteq written /\ written \cap Discarded = {}

\* What the layer leaves in the workspace.  Of the visible files that do not
\* parse, nothing, not even the old tests in them; of the others, what it
\* kept, every test that the agent did not change, also when the hook raised,
\* and what it does not see: the tests elsewhere and the first of two
\* functions of one name.
SuiteAfterLayer ==
  place \in {"done", "raised"} /\ mode = "ab" =>
    \A t \in InWorkspace :
      IF t \in Broken THEN t \notin suite
      ELSE IF t \in Old \/ t \notin Live(InWorkspace) \/ ~t.visible THEN t \in suite
      ELSE place = "done" => (t \in suite) = (t.id \in kept)
=============================================================================
