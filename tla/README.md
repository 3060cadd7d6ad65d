# A TLA+ model of shipharness

`shipharness` (`src/platform/src/shipharness`, written `P` below) runs coding
agents with and without a harness and compares what they build. An A/B run
starts two arms; each arm runs an agent loop in a container, in phases and
sessions; layers of the harness watch its tool calls and gate its claims; tests
that it or the test generator proposes go through filters; a cost tracker
bounds what the model calls may cost; everything that happens goes into a run
log that the console tails; a referee judges both arms by checks of the built
application, which extends TeamTrack (`src/platform/teamtrack/app`, written `T`).

This directory holds TLA+ modules for the parts of it that have to be right
under concurrency, failures and long sequences of calls, small instances that
TLC checks, and theorems that TLAPS proves for every value of the constants.

## Inventory

### Modelled

| Component | State it keeps | Operations | Works with | What is hard | What makes it correct |
|---|---|---|---|---|---|
| Cost tracker, `P/cost/tracker.py` | the shared ledger file; per process: totals counted from it, the offset, what calls in flight hold | `reserve`, `release`, `settle`, `record`, the totals, `record_opening_balance` | the agent loop, reviews, test generation; other commands through the ledger | threads share a tracker and processes share the file; totals are cached | no entry counted twice or skipped; held exactly what open calls hold; caps never passed within a command, and by a bounded amount across commands |
| Run log lock, `P/events/bus.py` | the lock file and its pid | create, read, rename aside, compare, remove or put back, remove at close | every process that opens the log | crashes leave lock files; reclaiming races with taking | one writer; a live writer's lock is not removed; somebody gets in |
| Run log, tail and stream, `P/events/bus.py`, `P/events/reader.py`, `P/console/app.py` | the `.jsonl` file, each writer's sequence number, each reader's offset and last number | `publish`, `close`, `LogTail.read`, `sse_events`, a browser's reconnect | the agent loop and the A/B run write; the console reads | a crash in the middle of a line; readers see parts of lines; connections are lost | each event once and in order, in the end |
| Agent loop, `P/runner/loop.py` | phase, session, turns, claim, status and reason, the harness's clock | phases, sessions, turns, the calls of an answer, `finish`, hooks | the model, the tracker, the layers, the container | every step may fail, run over its limit or end only some of: the answer, the session, the phase, the run | nothing runs after the end; a done claim was checked on what is left; the status tells what happened; the run ends |
| Console state, `P/console/state.py` | per arm: status, session, turn, gate, claim, verdict | `ArmState.apply` | the run log's events, in order | the fold keeps fields across sessions and reads some events as two things | what the screen shows is what the run did |
| Harness layers, `P/harness` | snapshot of a call, feature list, `last_claim`, `verify.gate`, the suite cache, `scope.passes_set` | `before_tool`, `after_tool`, gate, `session_stop`, `update_status`, the test phase's filtering | the agent loop calls them in layer order | a result is used calls, sessions or a phase after it was computed, while commands change files | protected files stay; `passes` stands on evidence about the code that is there; cached results are true |
| A/B run, `P/ab/demo.py`, `P/ab/referee.py`, `P/ab/runtime.py`, `P/sandbox/docker.py` | the baseline with its lock, flag and cache; the verdict events; containers | `run_arm`, previews, `baseline`, `judge` in two stages, joins and removals | arms, the baseline's thread, previews; the container runtime | four kinds of thread, each of whose steps may raise | one baseline for both arms; a verdict only takes back its primary verdict; no container is forgotten; it ends |
| Baseline caches, `P/ab/referee.py`, `P/harness/verify` | one file per task, one temporary name beside it | read, compute, write the temporary file, rename | every command that judges or gates the same task | two commands share the temporary name | who reads a baseline reads a whole one |
| Judging and scores, `P/ab/referee.py`, `P/ab/score.py` | the results of two runner calls, the record | `judge`, the early stage, `arm_record`, primary measures, the referee's mutants | house rules, the baseline, the diff, the container | each input may be missing and either runner call may fail; checks run in an order chosen for speed | the score does not depend on the order |
| House-rule checks, `P/checks` | findings per rule | R1 to R7 and their runner | the built application and its checkpoint's findings | a check may crash; a finding that was there before is excused | a rule says of a build what its endpoints do |
| Test filters, `P/filters`, verify layer's `testphase.py` | the tests still in, results per stage, a scratch directory per worker | the five filters, their context, the pipeline, the end of the test phase | the layer, test generation | workers share inputs; a filter may fail; discarding a test edits files that hold others | what is kept earned it; discarding leaves the rest |
| Test generation, `P/testgen` | kept, discarded and untested counts | `run_testgen` after its loop | the agent loop, the filters, the verify layer | two owners of the same filters, a maximum applied late | each test counted once |
| TeamTrack, `T` | tables of users, projects, members and issues; the audit log; idempotency keys | every request that writes, lists page by page | the agents extend it, the checks probe it | requests interleave between their statements; clients retry | tenants apart; the audit log true; a retried create makes one row; pages miss nothing |

### Not modelled

| Component | State and operations | Why not, and what would be worth stating |
|---|---|---|
| Container registry and exec, `P/sandbox/docker.py` | `_LIVE` with its lock, `stop_all` at exit, `exec` with two time limits | next: whatever ends the process, each container is registered or removed. `ABRun` has the containers as its threads see them |
| Command policy, `P/sandbox/policy.py` | none: a function of a command's words | word by word string work; planned as an operator against a reference definition |
| Paths, git, patches, tools, `P/runner/{paths,git,patch_format,tools}.py` | none between calls | string and file work; a call's effect is an action of `HarnessScope` |
| Prompts, skills, provider request, `P/runner/{prompts,skills_loader,model}.py` | none | text and I/O |
| Instructions layer, `P/harness/instructions` | the documents read | it places files and adds text |
| Console screens and report, `P/console/{screens,app,report,...}.py` | none of their own | pages made from the state that `ConsoleView` folds |
| Preview capture, `P/console/preview.py` | a thread, counters, the last picture | planned: its life is in `ABRun`, its capture is not |
| Replay and tracing, `P/events/replay.py`, `P/tracing` | a position | pacing and links |
| Warm-up, recorded runs, swap tests, `P/ab/{warm,recorded,experiments}.py` | stored files | sequential planners; they reuse the modelled judge and baselines |
| Reports, checkpoints, `P/ab/{report,checkpoints,workspace,...}.py` | records | formatting, copies, arguments |
| Reviewer, `P/reviewer` | records | one model call over text |
| Datasets, kit, config, command line | none | loading, validation, glue |
| Demonstrations, `P/examples` | none | single arms with fixed inputs |
| Scripts, course material, data | none | run by hand, or text. Most of the repository's lines outside `P` and `T` are these: style checks, builders of documents, exercises whose answers are meant to be missing |

The hazards in this code, each at its line with the properties that would catch
it, are the `hazards` of `PROJECT.json`. One has no property: a process that a
command leaves running in the container (`P/harness/scope/layer.py:180`), which
the model of the layers leaves out, as said below.

## Modules

`MC*` modules only give the constants of a small instance.

| Module | Models | Correspondence |
|---|---|---|
| `PrefixSums` | running sums | sums as a recursive function, so that they can be proved about |
| `CapBudget` | what a cap promises | abstract: hold, settle, start anew |
| `CostTracker` | `P/cost/tracker.py` | one action per method; `settle` is two steps, because the ledger's file lock is held across its append while other processes read; the tracker's own lock makes every other method one step. An opening balance is appended without the file lock, so it may fall between those two steps. An amount is a natural number. A command may end or be killed before or after any of these steps, and loses its memory; an append is whole (the torn line of a command killed inside its write is left out). |
| `OneWriter` | what the lock promises | abstract: at most one process writes |
| `RunLogLock` | `_acquire_lock`, `_reclaim_stale_lock`, `close` | one step per file system call; a file is named by the process that created it, its content is that process's pid once written |
| `EventStream` | what the log promises a reader | abstract: numbers grow; each event is received once, in order |
| `RunLog` | `EventBus`, `LogTail`, `sse_events`, the browser's reconnect | the lock is `OneWriter`; a line is a number and whether it parses; a writer may die before or inside a line |
| `ArmRun` | what a run promises | abstract: it ends, with the first reason it met |
| `AgentLoop` | `P/runner/loop.py` | `pc` names the place in `run`, `_run_phases`, `run_session`, `process_calls`, `handle_finish`; a hook may pass the time limit, raise, or both |
| `ConsoleView` | `ArmState` | extends `AgentLoop`: each step of the loop is joined to the fold over the events it publishes |
| `HarnessScope` | the scope, state and verify layers, `P/harness/suite_cache.py` | a file is its version; the loop is reduced to the order in which its calls reach the hooks; a command may write anything |
| `ABRun` | `run_ab`, `run_arm`, `Referee` | one place per thread; a container is its kind and its thread; every step that may raise has that outcome |
| `BaselineCache` | `_load_or_compute`, `_save` and the verify layer's same two | one step per file system call; a file is two halves, and an open file keeps its identity when its name is moved |
| `HouseRules` | R1 to R7, the runner of checks | an endpoint is a record of how it answers, with what it does wrong and which requests its schema or data refuse; a check is the set of findings its probes give; a crash takes the place of a result |
| `JudgeBuild` | `Referee.judge` from baseline to record, `score.py` | one action per stage, with the stage's failures; whether the primary measure's checks run first is a choice |
| `TestFilters` | `P/filters`, the verify layer's end of a test phase, `run_testgen` | a test is a definition: its id, its file and how it behaves; the phase leaves a sequence of them; one action per filter and worker |
| `TeamTrack` | `T/services`, `T/repositories`, `T/api` | a request reads in steps that others interleave with, and writes in one, since its writes are one transaction; a list is read one page at a time |
| `*Proofs` | | the theorems about the module of that name; `RunLogProofs` also has those about `RunLogLock`, `AgentLoopProofs` those about `ConsoleView` |

How they compose. `AgentLoop` and `HarnessScope` are two views of one run, split
where the layers' interface (`P/harness/base.py`) splits it: the first keeps the
control of the loop and leaves open what hooks find, the second keeps what hooks
find and leaves open why a session ends. `ConsoleView` runs in step with
`AgentLoop`. `RunLog` takes the abstract lock, and so carries over to logs that have one
writer at a time, which `RunLogLock` grants two processes that find no lock and
no more (finding 1); `ABRun` takes an
arm's run as one step, which `AgentLoop` (through `ArmRun`) justifies: it does
not raise, and it ends. `JudgeBuild` opens the step in which `ABRun` judges, and
takes its findings from `HouseRules`. `TestFilters` opens the step in which
`HarnessScope` filters a test phase.

## Runs

| Run | Question | Shown |
|---|---|---|
| `cost_ledger` | two arms of an experiment, alone or beside another command of its class session, on one ledger, an opening balance at any time one may be recorded | types; `TotalsAgreeWithLedger`; `HeldIsWhatOpenCallsHold`; `CapsHoldWithinCommand`; `BuildOvershootBounded`: reservations are private to a command, so the build cap can be passed, by at most what the other had in flight and an opening balance; the batch cap implements `CapBudget`; `PaidCallNeverRaises` in a command that is alone |
| `lock_contention` | three processes that open a log, with or without the lock a dead writer left, or two that find no lock and may die anywhere | types; `PidLockNeverDropped`; the lock of those two implements `OneWriter` (`PairImplementsOneWriter`; that of three does not); `SomebodyOpens` under fairness of the three |
| `lock_two_writers` | three processes, with or without a dead writer's lock | violated: finding 1 |
| `run_log_stream` | two writers that may die, a reader that loses its connection | types; `StreamHasNoGap`; the log implements `EventStream`; `EveryEventArrives` |
| `run_log_torn` | the same, seen by a writer | violated: finding 2 |
| `agent_loop` | a build phase of two sessions, a test phase, answers of up to two calls, and the console's view of them | types; `EndedRunStandsStill`: what an ended run still starts asks, runs and claims nothing; `DoneMeansChecked`; `StatusMatchesSessions`: status, sessions and error of the result tell one story; the loop implements `ArmRun`, its liveness included; `ViewAgrees` |
| `ab_run` | two arms, the baseline's thread, two previews; removal of a baseline's or preview's container may fail | types; `SameBaseline`, `VerdictKeepsPrimary`, `NoContainerOutlivesRun`, `RunEnds` |
| `baseline_cache_shared` | three commands that want one baseline | violated: finding 3 |
| `harness_scope` | two build sessions and a test phase, state and verify on or off | types; `ScopeKept`, `PassesStands`, `CacheIsTrue` |
| `judge_build` | a checkpoint and a build with up to two faults more, five measures, every input and runner call failing or not | `OrderNeverChangesScore`: with and without the early stage a build that is judged gets the same record; `RulesJudgedRight`: R1, R2, R4 and R5 report a build if one of its endpoints newly breaks the rule where a probe can tell, and say nothing if none breaks it or answers R1 what R1 takes for a breach |
| `test_filters` | up to three new or changed tests, in files of their own or beside three old ones; two functions of one name; files that do not parse, or that the agent deleted; filtered by the layer, by test generation, or by both, two at a time in an A/B | `KeptTestsEarned` however the filters interleave; `CountedOnce`, two functions of one name excepted; `SuiteAfterLayer`: what is discarded goes, a file that does not parse with all its tests, and no other test, also when the hook raises |
| `team_track` | three requests of two orgs, two at a time, and a reader that pages | types; `TenantsApart`, `AuditTellsWhatIsThere`, `RetriesAgree`, `PagesComplete` |

Deadlock is not checked: every one of these systems stops (a run ends, a log is
closed, a bound on entries or requests is reached).

### Bounds, and why they are enough

- `CostTracker`: `MaxEntries` 3, worst cases 1 and 2, costs 0 and 2, an opening
  balance of 1, and caps of 3 to 5. The caps lie between one and three calls,
  so that each can be crossed by one call, by two concurrent calls, and by
  another command's entries; three entries cover a read before, between and
  after another's append. The experiment runs its two arms alone or beside a
  command of one arm; the opening balance is recorded while all is quiet and
  the experiment alone, or inside any command's `record`.
- `RunLogLock`: three processes, since the races of reclaiming need one process
  that reads, one that takes and one that has to be kept out; two where they may
  die. Each opens once.
- `RunLog`: `MaxLines` 3 and `MaxReconnects` 2: a torn line, the line glued to
  it and one after; a reconnect before and after it.
- `AgentLoop`: budgets of 2 and 1 turns for the build phase and 2 for the test
  phase, answers of 0 to 2 calls: enough for two text-only answers in a row, for
  a call after an accepted finish, and for a session that is not the last. The
  loop itself has no counter that would need a bound.
- `ABRun`: nothing is unbounded. `Unremovable` names the kinds of container
  whose removal may fail.
- `BaselineCache`: three commands, two that save and one that reads; a file is
  two halves, the least that has a half-written state.
- `HarnessScope`: three files with two versions (source, tests, and another that
  is protected and may be too large for a snapshot), `BuildSessions` 2 and
  `MaxResults` 3 results in the suite cache: an old and a new result of one
  content, and one of another. In the instance the tests pass exactly when
  source and tests are both new, so that reverting either matters.
- `JudgeBuild`: eleven endpoints, of every method and depth that a rule treats
  in its own way, with and without ids in path and body, and of POSTs creates
  and others. A checkpoint has one of six faults or none, and the build has one
  more, of every kind, or two of its endpoints': two are needed for a fault that
  hides another. A fault of scoping leaves all ids of an endpoint unchecked, or
  some of those of its path or its body, so that a refusal of one hides that the
  other is not looked at. An endpoint may refuse every generated request, or the
  one of R1, R4 or R5 alone, with its rule kept or broken behind the refusal; a
  POST may add rows and not say so; and one build mends what R1 misread at the
  checkpoint and breaks the rule there. No two deletes are as deep and share an
  id, so that `Orphaned` is met by the theorem only. Five
  measures: the empty one, one that needs no check, and ones on rules, on counts
  and on the diff.
- `TestFilters`: tests of eighteen kinds, at least one that each filter
  discards, in new and old files, and ones that change an old test; up to three
  at a time; three old tests, one of them outside the directory that the layer
  looks at, so that covering what only it covers does count in an A/B;
  test generation's baseline is all of them or one (`Existing`), so that what
  another old test covers may count there too. An old file may have stopped
  parsing, with an old test in it, or be gone; a file may define a name twice,
  the good one first or last, or a new test under an old one's name. `MaxTests`
  is 2, so that one can be one too many; the layer's maximum 1 or none; two
  CPUs, so two workers.
- `TeamTrack`: `MaxRequests` 3 requests, two at a time (the handlers are
  symmetric): one that changes what another has read, and a retry after both.
  `PageLimit` 1 with a project of two issues, so that a cursor lies between
  rows that come and go.

### Fairness

- `lock_contention`: weak fairness of each process's own steps. A process that
  opens a log runs until it holds the lock or is refused; nothing in that path
  waits.
- `run_log_stream`: weak fairness of the server's poll and of the delivery. The
  server polls in a loop while a client is connected; nothing makes a writer
  write, and reconnects are bounded, not fair.
- `agent_loop`: weak fairness of the whole loop. It is one thread; model calls,
  tools and hooks have time limits of their own. Turn budgets are what makes it
  end, not fairness of one branch. The view has no step of its own.
- `ab_run`: weak fairness of the caller and of each thread, for the same reason;
  none for a preview's loop, which the caller stops.

Everything else is checked without fairness.

## Findings

1. `RunLogLock`: the content that a reclaimer compares cannot tell a lock file
   without a pid from no file. One that found nothing to read can remove a
   rival's fresh lock, and two processes write to the log that has "One writer
   per run log" (`P/events/bus.py:102`). Nobody has to die for it: a first writer
   holds the log, a second finds its lock and, once the first has closed,
   nothing to read; a third creates its lock, still empty; the second moves it
   aside, finds it as empty as what it had read, drops it and creates its own.
   Two processes and the lock of a dead writer are enough as well. Only for two
   processes that find no lock does the lock implement `OneWriter`.
2. `RunLog`: a writer that dies inside a line leaves a part of it; the next
   writer appends to that part, and its first event cannot be read, although its
   `publish` returned (`P/events/bus.py:153`). Readers skip the glued line, so
   the stream's promise to readers still holds (`run_log_stream`).
3. `BaselineCache`: commands that compute the same baseline at a time write to
   one temporary name (`P/ab/referee.py:456`). One opens and empties the file
   that the other then renames to the cached path; a third reads it before it is
   filled and judges with a part of a baseline.

Smaller observations, made while modelling and not run as findings.

Cost, log and lock:

- A build cap can be passed by another command's calls in flight
  (`P/cost/tracker.py:186`); `BuildOvershootBounded` says by how much.
- `record_opening_balance` appends without the ledger's lock
  (`P/cost/tracker.py:398`). If it falls inside another command's `record`, that
  command's offset covers an entry it did not count: `TotalsAgreeWithLedger` and
  `BuildOvershootBounded` allow for that entry and for no other.
- A lock that a reclaimer puts back can overwrite a newer one, and `close`
  removes whatever is there (`P/events/bus.py:92`, `P/events/bus.py:138`).

Loop, console and A/B:

- An exception between a session's last turn and the end of its end hooks loses
  that session (`P/runner/loop.py:431`): the result has its cost and turns, and
  its status says what ended the run, but no session ended that way.
  `StatusMatchesSessions` says when.
- `harness_work` says that past the limit "no further harness work runs"
  (`P/runner/loop.py:310`), but only the start of a phase looks at the status:
  the phase's next session starts and runs its session start hooks, which are on
  no clock (`P/runner/loop.py:534`).
- Two text-only answers take back the run's claim but not `last_claim`, which
  the layers read (`P/runner/loop.py:421`). The console goes on showing the
  earlier claim, shows test generation's first session as a build session, and
  may say that a run is finished before its second arm has started.
- `run_arm` says that it "never raises" (`P/ab/demo.py:280`), but making its
  client and removing its container are outside its `try` (`P/ab/demo.py:301`).
- If the run log cannot be opened, the baseline's thread is left running
  (`P/ab/demo.py:457`): `NoContainerOutlivesRun` is about runs that opened it.
- `stop` ignores the exit status of `rm` (`P/sandbox/docker.py:248`).
- A second saver's rename of a baseline may find no file and raise: a referee
  has its result all the same, an arm's verify layer fails to set up. The stamp
  of a warm image has a race of its own: the sources' digest is taken before the
  build, the image's id read after it (`P/ab/warm.py:376`).
- The harness's own runs of the visible tests execute the agent's tests in the
  workspace between two snapshots (`P/harness/suite_cache.py:90`); what they
  write is not compared with the allowed paths. `ScopeKept` and `PassesStands`
  except the files in `SuiteWrites` for that reason.

Judging:

- A second runner call that fails takes back a primary verdict that was
  announced as a pass (`P/ab/referee.py:629`); `VerdictKeepsPrimary` allows
  exactly that, and `OrderNeverChangesScore` is about builds that were judged.
- A check that crashes on the checkpoint and on the build is excused like any
  other old finding, so that a measure on R1 passes without a probe. A task
  whose mutants are missing has none killed of none, which is a full count. The
  runner's exit status is not looked at when its output can be read.
- There are faults that the probes of a rule cannot tell; `Unseen` names them,
  and `RulesJudgedRight` is about the others:
  - R1 points all ids of a body at the other org at once
    (`P/checks/r1_tenant.py:58`), so that one which is checked hides one which is
    not.
  - Deletes run deepest first, but of two that are as deep the first may take
    away what the second names (`P/checks/_http.py:83`), which is then refused
    for the wrong reason.
  - A probe that is refused for another reason than the rule's says nothing of
    the rule. TeamTrack answers the removal of a member who is none with 404
    (`T/services/members.py:34`), the answer R1 waits for, and the user of the
    probes is a member of no project at the start (`P/checks/adapter.py:138`): R1
    has no finding there whether or not the path's ids are checked. A write that
    the schema or the data refuse adds no audit row and need add none, so R5 has
    no finding (`P/checks/r5_audit.py:27`).
  - R4 leaves out a POST that neither answers nor documents 201, and one whose
    first request is refused is reported as untested, which does not count
    (`P/checks/r4_idempotency.py:52`).
- R1 takes whatever is not 404 for a breach, so that an endpoint whose schema
  refuses the generated request with 422 is reported though it looks at the org
  (`P/checks/r1_tenant.py:75`; `Misread`); such a finding at the checkpoint
  excuses a real one at the same endpoint later. `P/checks/payloads.py:3` says
  that the generated requests are ones the application accepts.

Filters and test generation:

- The filters' context of an A/B is measured at the end of the phase, from files
  that hold the new tests and the changed old ones
  (`P/harness/verify/testphase.py:163`). If they cannot be imported, nothing is
  filtered: the hook raises, with broken files and tests over the cap gone.
- Test generation measures its baseline on what `--tests` selects only, which for
  a target of `datasets/sources/testgen.toml` is a list of paths
  (`P/testgen/run.py:351`, `P/testgen/targets.py:96`): a kept test may add no
  more than lines that another old test covers. `KeptTestsEarned` is about that
  baseline (`Before`).
- A file that does not parse is deleted whole, with the old tests in it that the
  agent never touched (`P/harness/verify/layer.py:300`,
  `P/harness/verify/testphase.py:147`); `SuiteAfterLayer` says so. If it was
  there when the phase began, or if the layer's cap or the agent left it without
  a test, the next measurement names a path that is gone, pytest refuses it, and
  the hook raises (`SetupFails`).
- Two functions of one name are two candidates of one id when test generation
  collects them (`P/filters/pipeline.py:144`), so that `FilterRun`, "evaluated at
  most once per proposed test" (`P/testgen/run.py:233`), evaluates that id twice,
  or lists it as evaluated and as not evaluated (`P/testgen/run.py:251`):
  `CountedOnce` excepts these ids (`Twice`) and no others, and the run violates
  it without the exception. The layer takes the last definition only, for
  filtering and for removing (`P/harness/verify/testphase.py:121`): the first
  stays in the suite, unfiltered, and runs again when the last is removed.
- Every test of a changed file is a candidate of test generation, in file order:
  its old tests may take the room under `max_tests` before the new ones
  (`P/testgen/run.py:419`).
- A layer that has a `FilterRun` counts tests that were not evaluated as kept; a
  discarded change of an old test deletes that test; a file that cannot be
  parsed never reaches test generation's report when the verify layer filters.
- Tests above `max_tests` stay in a written file that also holds a kept test
  (`P/testgen/run.py:3`).
- A test that edits source files makes filter 5's result depend on how workers
  interleave (`P/filters/pipeline.py:88`).

TeamTrack:

- Two changes of one issue read the same version and both write the next one, so
  that a version can stay or go back (`T/services/issues.py:54`); the
  application's handbook says that it increases with every change. Two creates
  with one key at the same time get one row and one error instead of two equal
  answers (`T/services/idempotency.py:40`). A transition may start from a status that the issue no longer has. A
  change may land on an issue that was deleted in between, and an issue be
  created in a project that was archived in between; issues of an archived project are reachable by id; two
  removals of one member are both audited. `AuditTellsWhatIsThere` and
  `RetriesAgree` say what is left to rely on.

## Proofs

Each theorem is of the form `Spec => []P` or `Spec => [][A]_vars`, or says that
a specification implements an abstract one, from the constants' assumption named
in the module (`CostAssumption`, `LockAssumption`, `RunLogAssumption`,
`LoopAssumption`, `ViewAssumption`, `ABAssumption`, `ScopeAssumption`,
`FilterConstants`, `TestAssumption`, `TrackerAssumption`, `EndpointAssumption`,
`BuildAssumption`)
and no other, except where a theorem's statement names one. The argument is an
inductive invariant (`IInv`, or the name given below): `Init => IInv`,
`IInv /\ [Next]_vars => IInv'` with one step per action, and `IInv => P`.

- `CostTrackerProofs`: `TypeCorrect`, `TotalsCorrect`, `HeldCorrect`,
  `CapsCorrect`, `OvershootCorrect`, for any commands, caps, costs and opening
  balances. Types alone are not inductive: a total stays a natural number only
  because the offset never passes the ledger's end. `HeldCorrect` rests on
  lemmas about sums of which one term changes, `CapsCorrect` on `HeldCorrect`
  (a hold that is given back is there to give back). `TotalsCorrect` needs that
  there is one opening balance at most (`OneOpening`), that a command which does
  not know it is behind by exactly that entry (`BehindByOpening`), and that
  otherwise everything up to the offset is counted (`CountedAll`).
  `OvershootCorrect` adds what each command knew when it reserved: what the
  build has spent is at most the cap, what other commands had in flight, and the
  opening balance. `BatchCapIsBudget`: every step is a step of `CapBudget` for
  the batch cap or a stutter. `PaidCallsReturn`: a call that has been paid for
  is never told of a crossed cap in a command that is alone and has no opening
  balance to count, because nothing then enters its totals but what it held
  itself. Both ask that no call costs more than its worst case (`EstimatesHold`).
  The lemmas about `SumTo` say that it is well defined, that it only depends on
  the terms summed, and what changing or adding a term does. The induction they
  need is proved there for subsets of `Nat`, from the least number outside of
  such a set; `RunLogProofs` and `TeamTrackProofs` begin with the same argument.
- `RunLogProofs`: `RunLogTypeCorrect`, `StreamCorrect`, `StreamImplements`, for
  any writers, lines and reconnects. The invariant has numbers that rise along
  the file, each writer's next number ahead of the file's last, and what was
  received and what is on its way a prefix of the readable lines, tied to the
  reader's position in the file. Its lemma `CatchUp` says that a poll reads exactly what the
  stream lacks. The refinement of `EventStream` follows step by step: a line
  that can be read is an event published, a delivery is an event received,
  everything else stutters.
- `RunLogProofs`, on the lock: `TypeCorrect`, `PidLockKept`, `PairHasOneWriter`.
  `LockInv`: what a process read from a lock it takes for stale names a dead
  process or nobody, a dead process stays dead, and the file of a process that
  has not created it yet is nowhere. `PairHasOneWriter` is for at most two
  processes and no file left over, which is where the code keeps the promise:
  `Reclaims` says that when one of two processes reclaims, the other is dead or
  has closed the log, and what was renamed is the dead one's file as it was read.
- `AgentLoopProofs`: `TypeCorrect`, `StandsStill`, `DoneCorrect`,
  `StatusCorrect`, `RunImplements`, for any phases, budgets and answers. The invariant ties
  `end` to the claim and to `changed` while an answer's calls are handled, and
  the reason to the error and the sessions' endings with the one that is about to
  be added. `Going` is what `StandsStill` needs: a session that goes on in a run
  that has ended is one of a run that the harness's limit ended, which a turn and
  a call look at.
  `RunImplements` is the safety part of `ArmRun`: the first reason stays, and
  the result comes with the end. `ViewCorrect` shows `ViewAgrees` from `VInv`,
  which places the view beside the loop: which session it takes for the current
  one and in which phase, how many rows it has for it, and which events are
  still to come at each place of the loop. `ViewAssumption` is what the console
  is written for: a build phase, and perhaps a test phase of one session.
- `ABRunProofs`: `TypeCorrect`, `BaselineCorrect`, `VerdictCorrect`,
  `ContainersCorrect`, for any number of arms and any removals that may fail.
  `Accounted` says who has yet to remove each container; `Known`, that nobody
  computes a baseline that is known.
- `HarnessScopeProofs`: `TypeCorrect`, `ScopeCorrect`, `PassesCorrect`,
  `CacheCorrect`, for any files, rules, contents on which the tests pass, and
  number of sessions. `GateFresh` says that a gate that passed ends the build
  phase's session at once, so that nothing comes between it and the status
  update; `Ended`, that a feature that passes ends the build phase.
- `JudgeBuildProofs`: `OrderIrrelevant`, `RulesTold`, for any endpoints, builds,
  exemptions, measures and mutants. For `OrderIrrelevant`,
  `FieldDepends`: a field of the record is a function of the results of its
  sources (`FIELD_SOURCES`, `P/ab/referee.py:100`), so that the verdict is the
  same on any results that contain those of the measure's stage (`StagesAgree`).
  `JudgeInv` says what each stage has left behind while nothing failed, and that
  two runner calls give what one gives (`CallsJoin`).
  `RulesTold` is about what a check's requests do to the one database that they
  share. What is gone and which requests a plan consists of are recursive
  functions; that those exist and unfold is proved from the well-foundedness of
  `<` (`Recursion`, `GoneUnfold`, `ForEachUnfold`). `BeforeOrders` says that the
  order of the probes is a strict total one, so that each endpoint has one place
  (`OrderedPlaces`, by counting) and an endpoint's requests come after those of
  all that precede it (`ForEachOrder`). `GoneByDelete` says that what is gone has
  been deleted by an earlier request that succeeded, which an endpoint meets
  only if it is a delete and the earlier one as deep or deeper: that is
  `Orphaned`, and every other endpoint finds its data. `NotRefused` says which
  requests neither schema nor data refuse, `KeyedTold` what R4's two requests are
  answered. `RolesTold`, `AuditTold`, `IdempotencyTold` and `IsolationTold` then
  say, check by check, that a finding that counts names an endpoint at fault
  (`Faulted`), and that every endpoint which breaks the rule where a probe can
  tell has one. `ExemptionsKeep` and `NewFindings` carry this past the
  exemptions and the comparison with the checkpoint, whose results
  `BaselineStays` keeps, and `FieldsTell` to the record's fields.
  `EndpointAssumption` says what an OpenAPI document gives: finitely many
  operations, one per path and method. `BuildAssumption` is the shape of a
  build's answers; its only demands are that what lists rows of every org is a
  read without ids, and that what data refuse is answered 404, 409 or 422.
- `TestFiltersProofs`: `KeptEarned`, `TestsCountedOnce`, `SuiteKept`, for any
  old tests, workspaces, baselines, maximum, caps and number of workers. `FilterInv`
  (`FiltersInvariant`) ties each result to the verdict of its filter where that
  does not depend on the moment, a test's stage to the results it has, the
  context to the tests it was measured on, and the two lists to what was handed
  over; a worker's step then changes one test's stage and adds one result.
  `TestAssumption` says what a record of the workspace is: a definition, whose
  id names its file; a name may have several. `SelectFacts` says what a selection
  of a sequence keeps of it, `OneRuns` that of several definitions of a name one
  runs, and `RemainingFacts` that before the filters the layer removes no old
  test of a file that parses, so that an A/B's context was measured on all of
  `Before`. `TestsCountedOnce` rests on `Apart`: records of one id that are not
  the same are two definitions of one name.
- `TeamTrackProofs`: `TypeCorrect`, `ApartCorrect`, `RetriesCorrect`,
  `PagesCorrect`, `AuditCorrect`, for any orgs, seeded rows, requests, handlers
  and page sizes. `WritersFounded` says that what a request's lookups found is
  still there when it commits, which follows from `RowsKept`: no step removes a
  row, moves it or takes a deletion back. `ApartCorrect` is then one step per
  kind of reference, `RetriesCorrect` needs `StoredApart` (a stored response
  names a row that is there, so that a new row's id is not taken). For
  `PagesCorrect`, `PagerInv` says that what was got is what is owed up to the
  cursor, and `PageFacts` that a page is the next rows and nothing else. For
  `AuditCorrect`, `EntitiesThere` says that a new row has no history, and
  `VersionLoaded` that a version which a request loaded is no newer than the log.

Only model-checked: what needs fairness (`SomebodyOpens`, `EveryEventArrives`,
`RunEnds`, and that a run ends in `ImplementsArmRun`), which is out of the
prover's reach; and `PairImplementsOneWriter` as the run states it, over an instance that
chooses its processes (`PairHasOneWriter` is the theorem behind it). Every
other property of a passing run is stated by a theorem, `PaidCallNeverRaises` by
`PaidCallsReturn`, which has the command alone as its hypothesis. The three
violated properties are refuted by their runs.

## Abstractions to know about

- `CostTracker`: prices and tokens are amounts, and the totals per model and
  per key are left out. A line of the ledger is written whole: a command that is
  killed inside its append leaves a part of a line in the code; the next entry is glued to it, and the
  line they make stops every command that reads it (`P/cost/tracker.py:171`).
- `RunLog`: an event is its number; the reader sees the file between two writes
  of a line's parts. Times and pacing are left out.
- `AgentLoop`: a tool is one step that may change the workspace; retries of a
  model call end in an answer or in a failure.
- `ConsoleView`: a test phase has one session, which is what the loop gives it
  (`P/runner/loop.py:519`); lines of tools, flags and screenshots are left out.
- `HarnessScope`: commands leave no process running; the visible tests are
  deterministic; the gate's other items are one Boolean; directories that a
  snapshot skips, links, file modes, git commits and the harness's own texts are
  left out; the allowed paths are those of the task, with the feature list apart.
- `ABRun`: an arm's run, the checks and the review are single steps with every
  outcome they can have.
- `BaselineCache`: every command computes the same results; the key of the file
  is its task.
- `HouseRules`, `JudgeBuild`: how the application answers is given, per
  endpoint. So is what it refuses for its schema, of every request, and for its
  data, of a kind of probe; which that is does not depend on the requests before
  it, deletes apart, so that a member whom an unguarded POST added under R1 is
  still none when the removal is probed. R4's POSTs are taken each on its own,
  as no POST takes anything away; an endpoint deletes the object that `last`
  names; request bodies and the parsing of outputs are left out.
- `TestFilters`: a test's behaviour is given; in a file that does not parse,
  what the agent wrote is one record beside the old tests it left there; two
  definitions of one text are two records; a definition that a later one hid
  before the phase counts as new; doctests are tests of the file they are in;
  edits made by importing a file are left out; a filter may fail at any time for
  reasons of its own.
- `TeamTrack`: from the lookup of a key on, reading is one step; SQLite's lock
  time limit is left out; so are fields that no rule relates to another row.

## Plan

1. Done: the cost tracker, the run log, the agent loop and the console's view of
   it, the layers, the A/B run, baseline caches, judging and the house rules,
   test filters and test generation, TeamTrack; their runs; the theorems above.
2. Next, in this order: the container registry with what happens at exit and on
   a signal, joined to `ABRun`'s containers; the preview's capture; the stamp of
   a warm image; the command policy as an operator; the tools' patch format.
3. The abstractions worth stating for these: a set of containers that a process
   owns; a write-once cache; a function applied once per key.
4. Then the invariants of the modules of step 2, proved like the others. A
   fairness proof of the four liveness properties waits for a prover that
   handles `ENABLED`.
