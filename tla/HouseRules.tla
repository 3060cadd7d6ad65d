---------------------------- MODULE HouseRules -----------------------------
(* The house-rule checks of P/checks and what a score makes of them: each   *)
(* check probes a build, its findings are compared with those of the        *)
(* checkpoint, and the score fields count what is left.                     *)
(*                                                                          *)
(* A build is a record: how its endpoints answer, and what pytest, alembic, *)
(* the linter and the board say of it.  The endpoints' answers are modelled *)
(* from how the checks use them (external).                                 *)
EXTENDS Naturals, Sequences, FiniteSets, SequencesExt

CONSTANTS
  Endpoints,    \* records [name, path, method, depth, params, last, body, keyed, public];
                \* path is its place in the order of paths, last what a delete takes away
  Allowed,      \* the task's allowed paths, per phase: [build, test]
  Artifacts,    \* paths that are the harness's own
  TestPaths,    \* paths that belong to the test suite
  Existing,     \* the checkpoint's visible tests
  Hidden,       \* the task's hidden tests
  Exempt        \* pairs of a rule and an endpoint's name

Orgs == {"home", "other"}
Nobody == [org |-> "none", role |-> "none"]
As(role) == [org |-> "home", role |-> role]
OK == 200
WriteMethods == {"POST", "PUT", "PATCH", "DELETE"}
IsWrite(e) == e.method \in WriteMethods
MethodOrder == [GET |-> 0, POST |-> 1, PUT |-> 2, PATCH |-> 3, DELETE |-> 4]

\* A path and a method have one operation, and an endpoint's name is made of
\* both.  The parameters of a path have names.
ASSUME EndpointAssumption ==
  /\ IsFiniteSet(Endpoints)
  /\ \A e \in Endpoints : /\ e.method \in DOMAIN MethodOrder /\ e.path \in Nat /\ e.depth \in Nat
                          /\ IsFiniteSet(e.params) /\ "" \notin e.params
  /\ \A e, f \in Endpoints : e.name = f.name \/ (e.method = f.method /\ e.path = f.path) => e = f

(* ---- The build under test, freshly seeded for each check --------------- *)

\* discover_endpoints: every operation of the schema but the public ones.
Discovered(b) == {e \in DOMAIN b.ops : ~e.public}

\* Mutant of Before: shallow deletes before deep ones.
ShallowFirst(e, f) ==
  \/ MethodOrder[e.method] < MethodOrder[f.method]
  \/ e.method = f.method /\ (e.depth < f.depth \/ (e.depth = f.depth /\ e.path < f.path))
\* ordered: reads, then writes; deletes last and deepest first.
Before(e, f) ==
  LET depth(x) == IF x.method = "DELETE" THEN x.depth ELSE 0 IN
  \/ MethodOrder[e.method] < MethodOrder[f.method]
  \/ /\ e.method = f.method
     /\ \/ depth(e) > depth(f)
        \/ depth(e) = depth(f) /\ e.path < f.path
Ordered(b) ==
  LET all == Discovered(b)
      place == [e \in all |-> 1 + Cardinality({f \in all : Before(f, e)})]
  IN  [i \in 1..Cardinality(all) |-> CHOOSE e \in all : place[e] = i]

\* A request: the path's parameters are ids of the org in ids, but for the
\* one named in one, which is the other org's; the body's are of the org in body.
Request(e, kind, by, ids, one, body) ==
  [e |-> e, kind |-> kind, by |-> by, ids |-> ids, one |-> one, body |-> body, again |-> FALSE]
OrgOf(p, param) == IF p.one = param THEN "other" ELSE p.ids

\* What a build answers (external): who may call, whether its schema takes the
\* generated request, whose rows a parameter may name, what is not there any
\* more, and what the data refuse of such a request (a member to be removed who
\* is none, a row that exists already).
Status(b, p, gone) ==
  LET o == b.ops[p.e]
      strange(param, org) == p.by # Nobody /\ param \in o.scoped /\ org # p.by.org
  IN  IF p.by = Nobody /\ o.authed THEN 401
      ELSE IF p.by.role = "viewer" /\ IsWrite(p.e) /\ o.guarded THEN 403
      ELSE IF ~o.accepts THEN 422
      ELSE IF \E x \in p.e.params : strange(x, OrgOf(p, x)) \/ <<OrgOf(p, x), x>> \in gone THEN 404
      ELSE IF \E x \in p.e.body : strange(x, p.body) THEN 422
      ELSE IF <<p.kind, p.one>> \in DOMAIN o.refused THEN o.refused[<<p.kind, p.one>>]
      ELSE IF p.again /\ o.replay = "differs" THEN 409 ELSE OK

\* Whose rows the answer's body shows (external).
Shown(b, p, status) ==
  IF status # OK \/ p.e.method = "DELETE" THEN {}
  ELSE {OrgOf(p, x) : x \in p.e.params}
       \cup (IF p.e.params = {} /\ b.ops[p.e].lists THEN Orgs ELSE {})

\* Rows added, beside bookkeeping, and audit rows written (external).
RowsAdded(b, p, status) ==
  IF status = OK /\ b.ops[p.e].creates /\ ~(p.again /\ b.ops[p.e].replay # "repeats") THEN 1 ELSE 0
AuditRows(b, p, status) == IF status = OK /\ IsWrite(p.e) THEN b.ops[p.e].audits ELSE 0

\* A delete that succeeds takes its object away, which the endpoint names in last.
Taken(p, status) ==
  IF status = OK /\ p.e.method = "DELETE" THEN {<<OrgOf(p, p.e.last), p.e.last>>} ELSE {}

\* What the first n requests have taken away.
Gone(b, requests, n) ==
  LET gone[k \in Nat] ==
        IF k = 0 THEN {}
        ELSE LET before == gone[k - 1]
             IN  before \cup Taken(requests[k], Status(b, requests[k], before))
  IN  gone[n]

\* Target.send, for the requests of one check in turn.
Answer(b, p, gone) ==
  LET status == Status(b, p, gone) IN
  [status |-> status, shown |-> Shown(b, p, status), rows |-> RowsAdded(b, p, status),
   audits |-> AuditRows(b, p, status)]
Answers(b, requests) ==
  [i \in DOMAIN requests |-> Answer(b, requests[i], Gone(b, requests, i - 1))]

(* ---- Findings ---------------------------------------------------------- *)

\* The key of a finding is what is wrong, and with which thing.
Finding(rule, endpoint, severity, what, which) ==
  [rule |-> rule, endpoint |-> endpoint, severity |-> severity, what |-> what, which |-> which]
Counted(f) == f.severity # "info"
\* apply_exemptions: an exempt finding stays visible and does not count.
ApplyExemptions(findings) ==
  {IF Counted(f) /\ <<f.rule, f.endpoint>> \in Exempt THEN [f EXCEPT !.severity = "info"] ELSE f :
     f \in findings}
\* What a check returns: its findings and how many probes it made.
Report(findings, probes) == [findings |-> findings, probes |-> probes]

\* The findings of the requests whose answer is a fault, each request alone.
Judged(b, requests, Fault(_, _), Name(_, _)) ==
  LET answers == Answers(b, requests) IN
  {Name(requests[i], answers[i]) : i \in {j \in DOMAIN requests : Fault(requests[j], answers[j])}}
\* The requests of a plan, a function of the endpoints, in their order.
ForEach(b, plan) ==
  LET last == Cardinality(Discovered(b))
      made[n \in 0..last] == IF n = 0 THEN <<>> ELSE made[n - 1] \o plan[Ordered(b)[n]]
  IN  made[last]

(* ---- R1: tenant isolation ---------------------------------------------- *)

PlanFor(e) ==
  LET admin == As("admin")
      mixed == SetToSeq(IF Cardinality(e.params) > 1 THEN e.params ELSE {})
  IN  (IF e.params # {} THEN <<Request(e, "foreign_path", admin, "other", "", "other")>>
                             \o [i \in DOMAIN mixed |->
                                  Request(e, "foreign_param", admin, "home", mixed[i], "home")]
       ELSE <<Request(e, "no_path", admin, "home", "", "other")>>)
      \o (IF e.body \ e.params # {} THEN <<Request(e, "foreign_body", admin, "home", "", "other")>>
          ELSE <<>>)
      \o <<Request(e, "anonymous", Nobody, "other", "", "other")>>
R1Plan(b) == ForEach(b, [e \in Discovered(b) |-> PlanFor(e)])

R1Leaked(p, a) ==
  /\ a.status = OK
  /\ \/ "other" \in a.shown
     \/ p.kind = "anonymous" /\ "home" \in a.shown
R1Fault(p, a) ==
  IF p.kind \in {"foreign_path", "foreign_param"} THEN a.status # 404
  ELSE IF p.kind = "no_path" THEN R1Leaked(p, a) ELSE a.status = OK
R1Finding(p, a) ==
  Finding("R1", p.e.name, IF R1Leaked(p, a) THEN "leak" ELSE "violation", p.kind, p.one)
TenantIsolation(b) ==
  Report(ApplyExemptions(Judged(b, R1Plan(b), R1Fault, R1Finding)), Len(R1Plan(b)))

(* ---- R2 to R5 ----------------------------------------------------------- *)

Writes(b, role) ==
  ForEach(b, [e \in Discovered(b) |->
    IF IsWrite(e) THEN <<Request(e, "write", As(role), "home", "", "home")>> ELSE <<>>])
Roles(b) ==
  LET fault(p, a) == a.status # 403
      name(p, a) == Finding("R2", p.e.name, "violation", "status", "")
  IN  Report(ApplyExemptions(Judged(b, Writes(b, "viewer"), fault, name)), Len(Writes(b, "viewer")))

\* direct: each read once, each operation once without credentials.
EnvelopeBroken(b, p, a) ==
  \/ a.status >= 400 /\ b.ops[p.e].shape = "plain_error"
  \/ a.status = OK /\ p.e.method = "GET" /\ b.ops[p.e].shape = "bare_array"
DirectFor(e) ==
  (IF e.method = "GET" THEN <<Request(e, "read", As("admin"), "home", "", "home")>> ELSE <<>>)
  \o <<Request(e, "unsigned", Nobody, "home", "", "home")>>
Direct(b) == ForEach(b, [e \in Discovered(b) |-> DirectFor(e)])
\* fuzz: some generated request makes the operation raise (external).
Fuzz(b) == {Finding("R3", e.name, "violation", "server_error", "") :
              e \in {x \in Discovered(b) : b.ops[x].shape = "raises"}}
Conventions(b) ==
  LET fault(p, a) == EnvelopeBroken(b, p, a)
      name(p, a) == Finding("R3", p.e.name, "violation", "envelope", "")
  IN  Report(ApplyExemptions(Judged(b, Direct(b), fault, name) \cup Fuzz(b)), Len(Direct(b)))

\* Each POST with a key, and again if it is a create endpoint whose first
\* request succeeded.  No POST takes anything away.
Keyed(e) == Request(e, "keyed", As("admin"), "home", "", "home")
FirstAnswer(b, e) == Answer(b, Keyed(e), {})
SecondAnswer(b, e) == Answer(b, [Keyed(e) EXCEPT !.again = TRUE], {})
\* Create endpoints document 201, or answer it.
Creates(b) ==
  {e \in Discovered(b) : /\ e.method = "POST"
                         /\ \/ "documents" \in b.ops[e].says
                            \/ "answers" \in b.ops[e].says /\ FirstAnswer(b, e).status = OK}
Tested(b) == {e \in Creates(b) : FirstAnswer(b, e).status = OK}
\* No rows the second time, and the same answer where the endpoint takes the key.
Duplicates(b) == {e \in Tested(b) : SecondAnswer(b, e).rows > 0}
Mismatches(b) == {e \in Tested(b) \ Duplicates(b) : e.keyed /\ SecondAnswer(b, e).status # OK}
Idempotency(b) ==
  LET found == {Finding("R4", e.name, "violation", "duplicate", "") : e \in Duplicates(b)}
               \cup {Finding("R4", e.name, "violation", "replay_mismatch", "") : e \in Mismatches(b)}
               \cup {Finding("R4", e.name, "info", "untested", "") : e \in Creates(b) \ Tested(b)}
  IN  Report(ApplyExemptions(found), Cardinality(Creates(b)))

Audit(b) ==
  LET expected(a) == IF a.status = OK THEN 1 ELSE 0
      fault(p, a) == a.audits # expected(a)
      name(p, a) == Finding("R5", p.e.name, "violation",
                            IF a.audits < expected(a) THEN "missing" ELSE "extra", "")
  IN  Report(ApplyExemptions(Judged(b, Writes(b, "admin"), fault, name)), Len(Writes(b, "admin")))

(* ---- R6, R7, tests, scope, continuity, board ---------------------------- *)

Global(rule, severity, what, which) == Finding(rule, "", severity, what, which)
Layering(b) ==
  LET chains == {Global("R6", "violation", "chain", c) : c \in b.chains} IN
  Report(IF b.chains = {} /\ b.linter = "fails" THEN {Global("R6", "error", "lint_failed", "")} ELSE chains, 1)

MigrationFindings(b) ==
  {Global("R7", "violation", "heads", "") : x \in IF b.heads # 1 THEN {1} ELSE {}}
  \cup {Global("R7", "violation", "upgrade", "") : x \in IF b.upgrades THEN {} ELSE {1}}
Migrations(b) == Report(MigrationFindings(b), 2)

\* The checkpoint's tests that are still there are run; a removed one counts.
Regression(b) ==
  LET bad == {t \in Existing : b.tests[t] \notin {"passed", "skipped"}} IN
  Report(IF Existing = {} THEN {Global("regression", "error", "no_tests", "")}
         ELSE {Global("regression", "violation", "test", t) : t \in bad}, Cardinality(Existing))
HiddenTests(b) ==
  Report(IF Hidden = {} THEN {Global("hidden", "error", "no_ids", "")}
         ELSE {Global("hidden", "violation", "test", t) : t \in {x \in Hidden : b.hidden[x] # "passed"}},
         Cardinality(Hidden))

\* Shipped tests are run five times: outcomes seen, skips left out.
Flakiness(shipped) ==
  LET seen == {t \in DOMAIN shipped : shipped[t].runs # {}}
      flaky == {t \in seen : shipped[t].runs = {"passed", "failed"}}
      failing == {t \in seen : shipped[t].runs = {"failed"}}
  IN  Report({Global("flaky", "violation", "test", t) : t \in flaky}
             \cup {Global("flaky", "info", "test", t) : t \in failing}, Cardinality(seen))

DiffScope(changed, inTestPhase) ==
  LET product == changed \ Artifacts
      outside == product \ (Allowed.build \cup Allowed.test)
      edits == inTestPhase \ (Artifacts \cup TestPaths)
  IN  Report((IF Allowed.build \cup Allowed.test = {}
              THEN {Global("scope", "error", "no_allowed_paths", "")}
              ELSE {Global("scope", "violation", "out_of_scope", f) : f \in outside})
             \cup {Global("scope", "violation", "test_phase_source_edit", f) : f \in edits},
             Cardinality(product))

\* Migrations as in R7, tables created twice, and the share of the first
\* session's lines that the second removed.
Continuity(b) ==
  Report({Global("continuity", "violation", "r7", f.what) : f \in MigrationFindings(b)}
         \cup {Global("continuity", "violation", "duplicate_table", t) : t \in b.tables}
         \cup (IF b.redone THEN {Global("continuity", "violation", "redone_lines", "")} ELSE {}), 3)

\* Cards are pairs of an issue and its org, each with how often it is shown.
BoardJudge(cards) ==
  IF DOMAIN cards = {} THEN {Global("board", "violation", "board_load", "")}
  ELSE (IF \E c \in DOMAIN cards : c[2] # "home"
        THEN {Global("board", "violation", "foreign_cards", "")} ELSE {})
       \cup (IF \E c \in DOMAIN cards : cards[c] > 1
             THEN {Global("board", "violation", "duplicate_cards", "")} ELSE {})
Board(b) ==
  Report(BoardJudge(b.cards)
         \cup (IF b.browser THEN {} ELSE {Global("board", "info", "html_fallback", "")}),
         Cardinality(DOMAIN b.cards))

(* ---- The runner ---------------------------------------------------------- *)

RefereeChecks ==
  <<"r1_tenant", "r2_roles", "r3_conventions", "r4_idempotency", "r5_audit", "r6_layering",
    "r7_migrations", "regression", "hidden_tests", "diff_scope", "flakiness", "continuity", "board">>
Checks == Range(RefereeChecks)

\* What the referee tells the checks of an arm's diff; nothing of a checkpoint.
NoParams == [shipped |-> <<>>, changed |-> {}, inTestPhase |-> {}]
GetCheck(c, b, params) ==
  CASE c = "r1_tenant" -> TenantIsolation(b)
    [] c = "r2_roles" -> Roles(b)
    [] c = "r3_conventions" -> Conventions(b)
    [] c = "r4_idempotency" -> Idempotency(b)
    [] c = "r5_audit" -> Audit(b)
    [] c = "r6_layering" -> Layering(b)
    [] c = "r7_migrations" -> Migrations(b)
    [] c = "regression" -> Regression(b)
    [] c = "hidden_tests" -> HiddenTests(b)
    [] c = "diff_scope" -> DiffScope(params.changed, params.inTestPhase)
    [] c = "flakiness" -> Flakiness(params.shipped)
    [] c = "continuity" -> Continuity(b)
    [] c = "board" -> Board(b)

Crashed(c) == Report({Global(c, "error", "crashed", "")}, 0)

\* make_result: every counted finding is new, until a baseline says otherwise.
MakeResult(c, report) ==
  LET counted == Cardinality({f \in report.findings : Counted(f)}) IN
  [check |-> c, passed |-> counted = 0, new |-> counted, old |-> 0, probes |-> report.probes,
   fresh |-> report.findings, known |-> {}]

\* mark_baseline: findings the checkpoint has too do not count.
MarkBaseline(r, base) ==
  LET known == IF r.check \in DOMAIN base THEN base[r.check].fresh ELSE {}
      counted == {f \in r.fresh : Counted(f)}
  IN  [r EXCEPT !.fresh = @ \ known, !.known = @ \cap known,
                !.new = Cardinality(counted \ known), !.old = Cardinality(counted \cap known),
                !.passed = counted \subseteq known]

\* run_checks: a check that crashes is a finding of its own.  Without a
\* baseline, base is the empty function and every finding stays new.
RunCheck(c, b, params, base) ==
  LET report == IF c \in b.crashes THEN Crashed(c) ELSE GetCheck(c, b, params)
  IN  MarkBaseline(MakeResult(c, report), base)
RunChecks(names, b, params, base) == [c \in names |-> RunCheck(c, b, params, base)]
=============================================================================
