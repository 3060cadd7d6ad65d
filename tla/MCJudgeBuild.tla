--------------------------- MODULE MCJudgeBuild ----------------------------
(* Small instances of JudgeBuild: the checkpoint may have one fault, and the *)
(* arm's build up to two more.                                               *)
EXTENDS JudgeBuild

Op(name, path, method, depth, params, last, body, public) ==
  [name |-> name, path |-> path, method |-> method, depth |-> depth, params |-> params, last |-> last,
   body |-> body, keyed |-> method = "POST", public |-> public]
GetIssue == Op("GET issue", 2, "GET", 2, {"issue"}, "issue", {}, FALSE)
ListProjects == Op("GET projects", 4, "GET", 1, {}, "", {}, FALSE)
AssignIssue == [Op("POST assign", 3, "POST", 3, {"issue"}, "issue", {"assignee"}, FALSE) EXCEPT !.keyed = FALSE]
AddIssue == Op("POST issue", 6, "POST", 3, {"project"}, "project", {"assignee", "label"}, FALSE)
AddMember == [Op("POST member", 7, "POST", 3, {"project"}, "project", {"user"}, FALSE) EXCEPT !.keyed = FALSE]
EditIssue == Op("PATCH issue", 2, "PATCH", 2, {"issue"}, "issue", {}, FALSE)
DropIssue == Op("DELETE issue", 2, "DELETE", 2, {"issue"}, "issue", {}, FALSE)
DropLabel == Op("DELETE label", 3, "DELETE", 4, {"issue", "label"}, "label of an issue", {}, FALSE)
DropMember == Op("DELETE member", 8, "DELETE", 4, {"project", "user"}, "membership", {}, FALSE)
DropProject == Op("DELETE project", 5, "DELETE", 2, {"project"}, "project", {}, FALSE)
Health == Op("GET health", 1, "GET", 1, {}, "", {}, TRUE)
MCEndpoints ==
  {GetIssue, ListProjects, AssignIssue, AddIssue, AddMember, EditIssue, DropIssue, DropLabel, DropMember,
   DropProject, Health}
MCAllowed == [build |-> {"src"}, test |-> {"tests"}]
MCExempt == {<<"R4", "POST issue">>}

\* A second member of the same name is a conflict, a second assignment is none;
\* no user of R1's requests is a member to be removed.
Good(e) ==
  [authed |-> ~e.public, guarded |-> TRUE, accepts |-> TRUE, scoped |-> e.params \cup e.body,
   refused |-> IF e # DropMember THEN <<>>
               ELSE [r \in {<<"foreign_path", "">>, <<"foreign_param", "project">>,
                            <<"foreign_param", "user">>, <<"anonymous", "">>} |-> 404],
   lists |-> FALSE, audits |-> 1, creates |-> e \in {AddIssue, AddMember},
   says |-> IF e \in {AddIssue, AddMember} THEN {"answers", "documents"} ELSE {},
   replay |-> IF e = AddMember THEN "differs" ELSE IF e = AssignIssue THEN "repeats" ELSE "replays",
   shape |-> "ok"]
Clean == [ops |-> [e \in MCEndpoints |-> Good(e)], chains |-> {}, linter |-> "works", heads |-> 1,
          upgrades |-> TRUE, tables |-> {}, redone |-> FALSE, tests |-> [t \in Existing |-> "passed"],
          hidden |-> [t \in Hidden |-> "passed"], cards |-> [c \in {<<"i1", "home">>} |-> 1],
          browser |-> TRUE, crashes |-> {}, changed |-> {"src", "tests", "progress"},
          inTestPhase |-> {"tests"}, kills |-> [m \in Mutants |-> "killed"],
          shipped |-> [t \in {"new"} |-> [runs |-> {"passed"}, batch |-> {"PASSED"}, alone |-> TRUE]]]

\* What may be wrong with a build: pairs of an endpoint's name, or "app", and
\* what is wrong.
Wrong(endpoints, part) == {<<e.name, part>> : e \in endpoints}
OpFaults ==
  Wrong({ListProjects, DropIssue}, "authed") \cup Wrong({AddIssue, DropMember}, "guarded")
  \cup Wrong({GetIssue, EditIssue, AddIssue, DropMember, DropLabel, DropProject}, "scoped")
  \cup Wrong({ListProjects}, "lists") \cup Wrong({AddIssue}, "scoped path") \cup Wrong({AddIssue}, "scoped label")
  \cup Wrong({EditIssue, DropMember}, "audits") \cup Wrong({AddIssue, AddMember}, "replay")
  \cup Wrong({AssignIssue}, "quiet create") \cup Wrong({GetIssue}, "shape")
  \cup Wrong({AddMember}, "refused keyed") \cup Wrong({EditIssue}, "refused write")
  \cup Wrong({AddMember, EditIssue, DropProject}, "accepts")
Break(o, part) ==
  CASE part \in {"authed", "guarded", "accepts"} -> [o EXCEPT ![part] = FALSE]
    [] part = "quiet create" -> [o EXCEPT !.creates = TRUE]
    [] part = "refused keyed" -> [o EXCEPT !.refused = [r \in {<<"keyed", "">>} |-> 422]]
    [] part = "refused write" -> [o EXCEPT !.refused = [r \in {<<"write", "">>} |-> 409]]
    [] part = "scoped" -> [o EXCEPT !.scoped = IF @ = {"project"} THEN {} ELSE @ \cap {"project"}]
    [] part = "scoped path" -> [o EXCEPT !.scoped = @ \ {"project"}]
    [] part = "scoped label" -> [o EXCEPT !.scoped = @ \ {"label"}]
    [] part = "lists" -> [o EXCEPT !.lists = TRUE]
    [] part = "audits" -> [o EXCEPT !.audits = 0]
    [] part = "replay" -> [o EXCEPT !.replay = "repeats"]
    [] part = "shape" -> [o EXCEPT !.shape = "plain_error"]
Others ==
  {"app"} \X {"layering", "heads", "redone", "regression", "hidden", "flaky", "unsure", "scope", "phase",
              "board", "survivor", "r1 crash", "hidden crash"}
Fine == <<"app", "nothing">>
BreakOther(b, what) ==
  CASE what = "layering" -> [b EXCEPT !.chains = {"api -> db"}]
    [] what = "heads" -> [b EXCEPT !.heads = 2]
    [] what = "redone" -> [b EXCEPT !.redone = TRUE]
    [] what = "regression" -> [b EXCEPT !.tests = [t \in Existing |-> "gone"]]
    [] what = "hidden" -> [b EXCEPT !.hidden = [t \in Hidden |-> "failed"]]
    [] what = "flaky" -> [b EXCEPT !.shipped["new"].runs = {"passed", "failed"},
                                   !.shipped["new"].batch = {"FAILED"}]
    [] what = "unsure" -> [b EXCEPT !.shipped["new"].batch = {}]
    [] what = "scope" -> [b EXCEPT !.changed = @ \cup {"config"}]
    [] what = "phase" -> [b EXCEPT !.inTestPhase = @ \cup {"src"}]
    [] what = "board" -> [b EXCEPT !.cards = <<>>]
    [] what = "survivor" -> [b EXCEPT !.kills = [m \in Mutants |-> "survived"]]
    [] what = "r1 crash" -> [b EXCEPT !.crashes = {"r1_tenant"}]
    [] what = "hidden crash" -> [b EXCEPT !.crashes = {"hidden_tests"}]
Faulty(b, fault) ==
  LET named == CHOOSE e \in MCEndpoints : e.name = fault[1] IN
  IF fault \in OpFaults THEN [b EXCEPT !.ops[named] = Break(@, fault[2])]
  ELSE IF fault \in Others THEN BreakOther(b, fault[2]) ELSE b
OldFaults ==
  {Fine, <<"GET issue", "scoped">>, <<"DELETE issue", "authed">>, <<"PATCH issue", "audits">>,
   <<"DELETE project", "accepts">>, <<"app", "hidden">>, <<"app", "r1 crash">>}
\* A build that mends the checkpoint's fault, and has another one.
Mended == [old |-> Faulty(Clean, <<"DELETE project", "accepts">>),
           build |-> Faulty(Clean, <<"DELETE project", "scoped">>)]
MCBuilds ==
  LET olds == {Faulty(Clean, f) : f \in OldFaults}
      once == {[old |-> o, build |-> Faulty(o, f)] : o \in olds, f \in OpFaults \cup Others \cup {Fine}}
  IN  once \cup {Mended} \cup {[old |-> Clean, build |-> Faulty(Faulty(Clean, f), g)] : f \in OpFaults, g \in OpFaults}

Measure(terms, counts) == [terms |-> terms, counts |-> counts]
MCMeasures ==
  {Measure({}, {}), Measure({"continuity_failure"}, {}), Measure({"r1_new_violations", "r1_leaks"}, {}),
   Measure({}, {"hidden_passed", "mutants_killed"}),
   Measure({"out_of_scope_files", "test_phase_source_edits"}, {})}
=============================================================================
