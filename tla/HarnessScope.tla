----------------------------- MODULE HarnessScope ----------------------------
(***************************************************************************)
(* shipharness.harness: the hooks by which the scope, state and verify     *)
(* layers keep a workspace inside the allowed paths of a phase and decide  *)
(* whether its feature passes.  The agent's calls and the loop around them *)
(* are reduced to the order in which they reach the hooks (AgentLoop has   *)
(* the rest); a file is its version, the feature list what it says.        *)
(***************************************************************************)
EXTENDS Naturals, FiniteSets

CONSTANTS
  Files,        \* the workspace's files, without the feature list and the notes
  Versions,     \* what a file may hold
  Allowed,      \* per phase: the files the agent may change
  MayBeLarge,   \* files that may be too large to be kept in a snapshot
  SuiteWrites,  \* files that a run of the visible tests may change
  Starts,       \* the contents a run may start with
  Good,         \* the contents on which the visible tests pass
  BuildSessions,
  MaxResults,   \* bounds the results in the suite cache
  NoContent

Contents == [Files -> Versions]
Phases == {"build", "test"}

ASSUME ScopeAssumption ==
  /\ Allowed \in [Phases -> SUBSET Files]
  /\ MayBeLarge \subseteq Files /\ SuiteWrites \subseteq Files
  /\ Starts \subseteq Contents /\ Good \subseteq Contents
  /\ BuildSessions \in Nat \ {0} /\ MaxResults \in Nat
  /\ NoContent \notin Contents

VARIABLES
  layers,     \* which of state and verify are on; scope is
  large,      \* the files too large for a snapshot
  phase, session,
  step,       \* what runs: the agent's turns or a hook
  ended,      \* ended_by of the session, once it has ended
  content,    \* what the files hold
  list,       \* what feature_list.json says
  claim,      \* last_claim: its phase and claim
  gate,       \* verify.gate: the content that the last gate passed, if it did
  cache,      \* the suite cache: per content, where it ran and whether it passed
  passes,     \* scope.passes_set
  evidence,   \* the content that the evidence is about
  phaseStart  \* the content when the phase started

setting == <<layers, large>>
place == <<phase, session, step, ended>>
status == <<list, passes, evidence>>
vars == <<setting, place, content, status, claim, gate, cache, phaseStart>>

NoClaim == [phase |-> "none", claim |-> "none"]

Go(s) == step' = s /\ UNCHANGED <<phase, session, ended>>
EndSession(by) == step' = "stop" /\ ended' = by /\ UNCHANGED <<phase, session>>

Init ==
  /\ layers \in SUBSET {"state", "verify"} /\ large \in SUBSET MayBeLarge
  /\ phase = "build" /\ session = 1 /\ step = "turns" /\ ended = "none"
  /\ content \in Starts /\ phaseStart = content
  /\ list = "fails" /\ passes = FALSE /\ evidence = NoContent
  /\ claim = NoClaim /\ gate = NoContent /\ cache = {}

-----------------------------------------------------------------------------
(* A tool call and its revert.                                             *)

\* Mutant of Protected: the rules of the build phase hold in the test phase.
ProtectedAsInBuild == Files \ Allowed["build"]

\* What PathRules.reason refuses in this phase, the feature list aside.
Protected == Files \ Allowed[phase]

\* A patch that names only allowed files; one that names others is blocked.
Patch ==
  /\ step = "turns"
  /\ \E f \in Files, v \in Versions :
       f \notin Protected /\ content' = [content EXCEPT ![f] = v]
  /\ UNCHANGED <<setting, place, status, claim, gate, cache, phaseStart>>

\* Mutant of Reverted: the feature list stays as the command left it.
RevertedFilesOnly(c, l) ==
  [content |-> [f \in Files |-> IF f \in Protected \ large THEN content[f] ELSE c[f]],
   list |-> l]

\* after_tool: what is left of content c and list l that a command has produced.
\* Refused changes are put back from the snapshot taken before the command, if
\* the snapshot has the bytes.
Reverted(c, l) ==
  [content |-> [f \in Files |-> IF f \in Protected \ large THEN content[f] ELSE c[f]],
   list |-> list]

\* A command runs, ends or fails, and is checked; the check may reach the limit.
Command ==
  /\ step = "turns"
  /\ \E c \in Contents, l \in {list, "edited"} :
       content' = Reverted(c, l).content /\ list' = Reverted(c, l).list
  /\ Go("turns") \/ Go("aborted")
  /\ UNCHANGED <<setting, passes, evidence, claim, gate, cache, phaseStart>>

\* A command after which the check itself raises: what it wrote stays.
CommandUnchecked ==
  /\ step = "turns"
  /\ \E f \in Files, v \in Versions : content' = [content EXCEPT ![f] = v]
  /\ list' \in {list, "edited"}
  /\ Go("aborted")
  /\ UNCHANGED <<setting, passes, evidence, claim, gate, cache, phaseStart>>

-----------------------------------------------------------------------------
(* The visible tests, at most once per content (suite_cache).              *)

\* The results that may be reused for this content in this place.
Reusable(where) == {r \in cache : r.key = content /\ (r.where = where \/ r.passed)}

\* Mutant of Stored: an earlier result for the content stays.
StoredBeside(key, where, passed) ==
  cache \cup {[key |-> key, where |-> where, passed |-> passed]}

Stored(key, where, passed) ==
  {r \in cache : r.key # key} \cup {[key |-> key, where |-> where, passed |-> passed]}

\* A run in the gate's copy leaves the workspace as it is.
MayLeave(where) ==
  IF where = "copy" THEN {content}
  ELSE {c \in Contents : \A f \in Files \ SuiteWrites : c[f] = content[f]}

\* Mutant of Suite: the key is taken after the run.
SuiteKeyAfter(where, passed) ==
  \/ \E r \in Reusable(where) : passed = r.passed /\ UNCHANGED <<content, cache>>
  \/ /\ Reusable(where) = {} /\ Cardinality(cache) < MaxResults
     /\ passed = (content \in Good)
     /\ content' \in MayLeave(where)
     /\ cache' = Stored(content', where, passed)

\* One request for the tests: reused, run to the end, or cut by its time limit.
Suite(where, passed) ==
  \/ \E r \in Reusable(where) : passed = r.passed /\ UNCHANGED <<content, cache>>
  \/ /\ Reusable(where) = {} /\ Cardinality(cache) < MaxResults
     /\ content' \in MayLeave(where)
     /\ \/ passed = (content \in Good) /\ cache' = Stored(content, where, passed)
        \/ ~passed /\ UNCHANGED cache

-----------------------------------------------------------------------------
(* finish, and the end of a session.                                       *)

FinishNotDone ==
  /\ step = "turns"
  /\ claim' = [phase |-> phase, claim |-> "not_done"]
  /\ EndSession("claim_not_done")
  /\ UNCHANGED <<setting, content, status, gate, cache, phaseStart>>

\* A done claim without the verify layer is accepted.
FinishDone ==
  /\ step = "turns" /\ "verify" \notin layers
  /\ claim' = [phase |-> phase, claim |-> "done"]
  /\ EndSession("claim_done")
  /\ UNCHANGED <<setting, content, status, gate, cache, phaseStart>>

\* run_gate, on a copy: the visible tests and the other items must pass.
RunGate(passed) ==
  \E visible, others \in BOOLEAN : Suite("copy", visible) /\ passed = (visible /\ others)

\* With it the gate decides, and its result is kept.  A gate that reaches the
\* harness limit ends the run, whatever it found.
FinishWithGate ==
  /\ step = "turns" /\ "verify" \in layers
  /\ claim' = [phase |-> phase, claim |-> "done"]
  /\ \E passed \in BOOLEAN :
       /\ RunGate(passed)
       /\ gate' = (IF passed THEN content ELSE NoContent)
       /\ \/ passed /\ EndSession("claim_done")
          \/ ~passed /\ Go("turns")
          \/ Go("aborted")
  /\ UNCHANGED <<setting, status, phaseStart>>

\* The turns are spent; or two answers had no call; or a cap, the agent's time
\* or a failed model call ends the run with this session.
EndTurns ==
  /\ step = "turns"
  /\ \E by \in {"turn_budget", "no_tool_call", "limit"} : EndSession(by)
  /\ UNCHANGED <<setting, content, status, claim, gate, cache, phaseStart>>

\* session_stop: the state layer runs the visible tests and writes its notes.
SessionStop ==
  /\ step = "stop"
  /\ IF "state" \in layers THEN \E passed \in BOOLEAN : Suite("workspace", passed)
                           ELSE UNCHANGED <<content, cache>>
  /\ Go("status")
  /\ UNCHANGED <<setting, status, claim, gate, phaseStart>>

ClaimedDone == claim = [phase |-> phase, claim |-> "done"]

SetPasses(about) == list' = "passes" /\ passes' = TRUE /\ evidence' = about

\* Mutant of UpdateStatus: a gate that ran is evidence enough.
UpdateStatusAnyGate ==
  /\ step = "status"
  /\ IF passes \/ phase # "build" \/ ~ClaimedDone \/ "verify" \notin layers
     THEN UNCHANGED <<content, cache, status>>
     ELSE SetPasses(content) /\ UNCHANGED <<content, cache>>
  /\ Go("sessionOver") \/ Go("aborted")
  /\ UNCHANGED <<setting, claim, gate, phaseStart>>

\* update_status: with a done claim of the build phase, the gate's result or the
\* visible tests decide; the hooks of the session's end may reach the limit.
UpdateStatus ==
  /\ step = "status"
  /\ \/ /\ passes \/ phase # "build" \/ ~ClaimedDone
        /\ UNCHANGED <<content, cache, status>>
     \/ /\ ~passes /\ phase = "build" /\ ClaimedDone
        /\ \/ /\ "verify" \in layers /\ UNCHANGED <<content, cache>>
              /\ IF gate # NoContent THEN SetPasses(gate) ELSE UNCHANGED status
           \/ /\ "verify" \notin layers
              /\ \E passed \in BOOLEAN :
                   /\ Suite("workspace", passed)
                   /\ IF passed THEN SetPasses(content) ELSE UNCHANGED status
  /\ Go("sessionOver") \/ Go("aborted")
  /\ UNCHANGED <<setting, claim, gate, phaseStart>>

-----------------------------------------------------------------------------
(* Sessions and phases.                                                    *)

NextSession ==
  /\ step = "sessionOver" /\ phase = "build" /\ session < BuildSessions
  /\ ended \in {"turn_budget", "claim_not_done"}
  /\ session' = session + 1 /\ step' = "turns" /\ ended' = "none" /\ UNCHANGED phase
  /\ UNCHANGED <<setting, content, status, claim, gate, cache, phaseStart>>

LastSession == \/ phase = "test" \/ session = BuildSessions
               \/ ended \notin {"turn_budget", "claim_not_done"}

\* The build phase ends; a run that a limit has ended does not go on.
StartTestPhase ==
  /\ step = "sessionOver" /\ phase = "build" /\ LastSession /\ ended # "limit"
  /\ phase' = "test" /\ session' = session + 1 /\ step' = "turns" /\ ended' = "none"
  /\ phaseStart' = content
  /\ UNCHANGED <<setting, content, status, claim, gate, cache>>

\* The test phase ends; the verify layer keeps the tests that pass its filters.
EndTestPhase ==
  /\ step = "sessionOver" /\ phase = "test"
  /\ \/ UNCHANGED content
     \/ /\ "verify" \in layers
        /\ \E f \in Allowed["test"], v \in Versions : content' = [content EXCEPT ![f] = v]
  /\ Go("completed") \/ Go("aborted")
  /\ UNCHANGED <<setting, status, claim, gate, cache, phaseStart>>

\* An exception or a limit of the run ends it where it is.
Abort ==
  /\ step \notin {"completed", "aborted"}
  /\ Go("aborted")
  /\ UNCHANGED <<setting, content, status, claim, gate, cache, phaseStart>>

Call == Patch \/ Command \/ CommandUnchecked
Claim == FinishNotDone \/ FinishDone \/ FinishWithGate
Hooks == SessionStop \/ UpdateStatus \/ EndTestPhase

Next == Call \/ Claim \/ Hooks \/ EndTurns \/ NextSession \/ StartTestPhase \/ Abort

Spec == Init /\ [][Next]_vars
-----------------------------------------------------------------------------
Steps == {"turns", "stop", "status", "sessionOver", "completed", "aborted"}

\* Types; the cache has one result per content.
TypeOK ==
  /\ layers \subseteq {"state", "verify"} /\ large \subseteq MayBeLarge
  /\ phase \in Phases /\ session \in 1..BuildSessions + 1 /\ step \in Steps
  /\ ended \in {"none", "claim_done", "claim_not_done", "turn_budget", "no_tool_call", "limit"}
  /\ content \in Contents /\ phaseStart \in Contents
  /\ list \in {"fails", "passes", "edited"} /\ passes \in BOOLEAN
  /\ evidence \in Contents \cup {NoContent} /\ gate \in Contents \cup {NoContent}
  /\ claim \in [phase : Phases \cup {"none"}, claim : {"none", "done", "not_done"}]
  /\ cache \subseteq [key : Contents, where : {"copy", "workspace"}, passed : BOOLEAN]
  /\ \A r, q \in cache : r.key = q.key => r = q

Resting == step # "aborted"
Unwatched == large \cup SuiteWrites

\* Between commands the feature list says what the harness last wrote, and the
\* files outside the phase's allowed paths hold what they held when the phase
\* started: those too large for a snapshot and those the harness's own runs of
\* the tests write excepted (the layer's promise to the agent, context_prefix).
ScopeKept ==
  Resting =>
    /\ list = (IF passes THEN "passes" ELSE "fails")
    /\ \A f \in Files \ (Allowed[phase] \cup Unwatched) : content[f] = phaseStart[f]

\* A feature that passes still has the code its evidence is about, on which the
\* visible tests passed: no later session or phase changes what the test phase
\* may not (update_status, S3's and S4's docstrings).
PassesStands ==
  passes => /\ evidence \in Good
            /\ Resting => \A f \in Files \ (Allowed["test"] \cup Unwatched) :
                            content[f] = evidence[f]

\* A result that the suite cache hands out is what the tests give on that very
\* content, although a run may change the content (suite_cache.run).
CacheIsTrue == \A r \in cache : r.passed <=> r.key \in Good
=============================================================================
