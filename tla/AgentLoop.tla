------------------------------ MODULE AgentLoop -----------------------------
(***************************************************************************)
(* shipharness.runner.loop: one arm's run, phase by phase, session by      *)
(* session and turn by turn, with the harness's hooks around it.  Whether  *)
(* a hook passes the harness time limit, the model answers, a cap is hit   *)
(* or a gate passes is not determined here.                                *)
(***************************************************************************)
EXTENDS Naturals, Sequences

CONSTANTS
  Phases,        \* the phases of the run, in order
  Budgets,       \* per phase: the turns of each session
  HarnessLimit,  \* HARNESS_TIMEOUT_S is set
  Responses      \* the tool calls a response may hold: sequences of CallKinds

\* A call with bad arguments, a tool call, and the two claims of finish.
CallKinds == {"bad", "tool", "done", "not_done"}

ASSUME LoopAssumption ==
  /\ Phases \in Seq({"build", "test"})
  /\ Budgets \in [{"build", "test"} -> Seq(Nat)]
  /\ \A p \in {"build", "test"} : Budgets[p] # <<>>
  /\ HarnessLimit \in BOOLEAN
  /\ Responses \subseteq Seq(CallKinds)

VARIABLES
  pc,           \* where the run is
  phase,        \* index of the phase in Phases
  position,     \* index of the session in the phase
  turns,        \* turns of the session
  textOnly,     \* consecutive answers without a tool call
  calls,        \* calls of the response that are not handled yet
  end,          \* process_calls: how the session ends, or "none"
  endedBy,      \* run_session: ended_by
  endings,      \* the ended_by of all sessions so far
  status, reason,
  error,        \* what the result's error text tells of
  harnessOver,  \* harness work has passed its limit
  held,         \* a reservation is open
  claim,        \* the claim of the result
  changed       \* a tool ran since a gate last passed

vars == <<pc, phase, position, turns, textOnly, calls, end, endedBy, endings,
          status, reason, error, harnessOver, held, claim, changed>>

ending == <<status, reason, error>>
place == <<phase, position>>

Places == {"prepare", "phase", "session", "turn", "model", "calls", "check",
           "gate", "sessionEnd", "phaseEnd", "diff", "done"}
EndReasons == {"claim_done", "claim_not_done", "turn_budget", "cap", "timeout",
               "error", "no_tool_call"}

ThisPhase == Phases[phase]
SessionBudgets == Budgets[ThisPhase]

-----------------------------------------------------------------------------
(* Ending the run, and harness work.                                       *)

\* Mutants of Decide: the last reason wins; a limit leaves the run completed.
DecideLast(s, r) == status' = s /\ reason' = r
DecideNever(s, r) == UNCHANGED <<status, reason>>

\* The first reason wins.
Decide(s, r) == IF status = "completed" THEN status' = s /\ reason' = r
                                        ELSE UNCHANGED <<status, reason>>
FirstError(e) == IF error = "none" THEN e ELSE error

Abort(s, r) == Decide(s, r) /\ UNCHANGED error
\* A run that had already ended keeps its status; the error is still recorded.
Fail(e) == Decide("error", e) /\ error' = FirstError(e)

\* What one piece of harness work may do: pass the limit, raise an exception.
Outcomes == [over : IF HarnessLimit THEN BOOLEAN ELSE {FALSE}, raises : BOOLEAN]

\* harness_work: nothing runs past the limit; the limit aborts the run, then
\* an exception fails it (run's except clause).
HarnessWork(h) ==
  /\ harnessOver => ~h.over /\ ~h.raises
  /\ harnessOver' = (harnessOver \/ h.over)
  /\ CASE h.over -> Decide("timeout", "harness")
       [] h.raises /\ ~h.over -> Decide("error", "internal")
       [] OTHER -> UNCHANGED <<status, reason>>
  /\ error' = IF h.raises THEN FirstError("internal") ELSE error

\* After harness work: an exception ends the phases.
Then(h, next) == pc' = IF h.raises THEN "diff" ELSE next

\* The session ends for reason e.
EndSession(e) == endedBy' = e /\ pc' = "sessionEnd"

-----------------------------------------------------------------------------
Init ==
  /\ pc = "prepare" /\ phase = 1 /\ position = 1 /\ turns = 0 /\ textOnly = 0
  /\ calls = <<>> /\ end = "none" /\ endedBy = "turn_budget" /\ endings = {}
  /\ status = "completed" /\ reason = "none" /\ error = "none" /\ harnessOver = FALSE
  /\ held = FALSE /\ claim = "none" /\ changed = FALSE

\* Workspace preparation and the harness's setup commit.
Prepare(h) ==
  /\ pc = "prepare"
  /\ HarnessWork(h)
  /\ Then(h, "phase")
  /\ UNCHANGED <<place, turns, textOnly, calls, end, endedBy, endings, held, claim, changed>>

\* Mutant of StartPhase: the status is not looked at.
StartPhaseAlways ==
  /\ pc = "phase"
  /\ IF phase <= Len(Phases) THEN pc' = "session" /\ position' = 1
                             ELSE pc' = "diff" /\ UNCHANGED position
  /\ UNCHANGED <<phase, turns, textOnly, calls, end, endedBy, endings, ending,
                 harnessOver, held, claim, changed>>

\* A phase starts unless the run has ended.
StartPhase ==
  /\ pc = "phase"
  /\ IF phase <= Len(Phases) /\ status = "completed"
     THEN pc' = "session" /\ position' = 1
     ELSE pc' = "diff" /\ UNCHANGED position
  /\ UNCHANGED <<phase, turns, textOnly, calls, end, endedBy, endings, ending,
                 harnessOver, held, claim, changed>>

\* A session starts; a resumed one runs the session start hooks, on no clock.
StartSession ==
  /\ pc = "session"
  /\ turns' = 0 /\ textOnly' = 0 /\ end' = "none" /\ endedBy' = "turn_budget"
  /\ pc' = "turn"
  /\ UNCHANGED <<place, calls, endings, ending, harnessOver, held, claim, changed>>

\* The checks at the top of the turn loop, in their order, and reserve.
SpentBudget == turns >= SessionBudgets[position]

EndTurns ==
  /\ pc = "turn"
  /\ \/ SpentBudget /\ EndSession("turn_budget") /\ UNCHANGED ending
     \/ ~SpentBudget /\ harnessOver /\ EndSession("timeout") /\ UNCHANGED ending
     \/ ~SpentBudget /\ ~harnessOver /\ EndSession("timeout") /\ Abort("timeout", "agent")
     \/ ~SpentBudget /\ ~harnessOver /\ EndSession("cap") /\ Abort("cap", "cap")
  /\ UNCHANGED <<place, turns, textOnly, calls, end, endings, harnessOver, held, claim, changed>>

CallModel ==
  /\ pc = "turn" /\ ~SpentBudget /\ ~harnessOver
  /\ held' = TRUE
  /\ pc' = "model"
  /\ UNCHANGED <<place, turns, textOnly, calls, end, endedBy, endings, ending,
                 harnessOver, claim, changed>>

\* Mutant of ModelFails: the reservation is kept.
ModelFailsHolding ==
  /\ pc = "model"
  /\ Fail("model")
  /\ EndSession("error")
  /\ UNCHANGED <<place, turns, textOnly, calls, end, endings, harnessOver, held, claim, changed>>

\* _respond gives up: the reservation is released.
ModelFails ==
  /\ pc = "model"
  /\ held' = FALSE
  /\ Fail("model")
  /\ EndSession("error")
  /\ UNCHANGED <<place, turns, textOnly, calls, end, endings, harnessOver, claim, changed>>

\* The call is settled, and its cost crosses a cap: the answer is dropped.
AnswerPassesCap ==
  /\ pc = "model"
  /\ held' = FALSE /\ turns' = turns + 1
  /\ Abort("cap", "cap")
  /\ EndSession("cap")
  /\ UNCHANGED <<place, textOnly, calls, end, endings, harnessOver, claim, changed>>

\* Mutant of Answer: a text-only answer is not counted as a turn.
AnswerUncounted(r) ==
  /\ pc = "model"
  /\ held' = FALSE
  /\ turns' = IF r = <<>> THEN turns ELSE turns + 1
  /\ calls' = r /\ textOnly' = 0 /\ pc' = IF r = <<>> THEN "turn" ELSE "calls"
  /\ UNCHANGED <<place, end, endedBy, endings, ending, harnessOver, claim, changed>>

\* The call is settled; the second answer in a row without a call ends the
\* session and takes back the claim.
Answer(r) ==
  /\ pc = "model"
  /\ held' = FALSE /\ turns' = turns + 1
  /\ calls' = r
  /\ IF r = <<>>
     THEN /\ textOnly' = textOnly + 1
          /\ IF textOnly >= 1 THEN EndSession("no_tool_call") /\ claim' = "none"
                              ELSE pc' = "turn" /\ UNCHANGED <<endedBy, claim>>
     ELSE textOnly' = 0 /\ pc' = "calls" /\ UNCHANGED <<endedBy, claim>>
  /\ UNCHANGED <<place, end, endings, ending, harnessOver, changed>>

\* Mutant of Refused: calls after an accepted finish run.
RefusedUnlessEnded == harnessOver \/ status # "completed"

\* _ended_refusal: the run or the session ended earlier in this response.
Refused == harnessOver \/ status # "completed" \/ end # "none"

\* The next call gets a result without running: it is refused or malformed.
SkipCall ==
  /\ pc = "calls" /\ calls # <<>>
  /\ Refused \/ Head(calls) = "bad"
  /\ calls' = Tail(calls)
  /\ UNCHANGED <<pc, place, turns, textOnly, end, endedBy, endings, ending,
                 harnessOver, held, claim, changed>>

RunTool ==
  /\ pc = "calls" /\ calls # <<>> /\ ~Refused
  /\ Head(calls) = "tool"
  /\ changed' = TRUE
  /\ pc' = "check"
  /\ UNCHANGED <<place, turns, textOnly, calls, end, endedBy, endings, ending,
                 harnessOver, held, claim>>

\* The after_tool hooks.
CheckTool(h) ==
  /\ pc = "check"
  /\ HarnessWork(h)
  /\ calls' = Tail(calls)
  /\ Then(h, "calls")
  /\ UNCHANGED <<place, turns, textOnly, end, endedBy, endings, held, claim, changed>>

\* handle_finish, up to the gate.
Finish ==
  /\ pc = "calls" /\ calls # <<>> /\ ~Refused
  /\ Head(calls) \in {"done", "not_done"}
  /\ claim' = Head(calls)
  /\ IF Head(calls) = "done"
     THEN pc' = "gate" /\ UNCHANGED <<calls, end>>
     ELSE end' = "claim_not_done" /\ calls' = Tail(calls) /\ UNCHANGED pc
  /\ UNCHANGED <<place, turns, textOnly, endedBy, endings, ending, harnessOver, held, changed>>

\* The rest of handle_finish: the gate of a done claim, and what it means.
Gate(h, passes) ==
  /\ pc = "gate"
  /\ HarnessWork(h)
  /\ end' = CASE harnessOver' -> "timeout"
              [] ~harnessOver' /\ ~passes -> "none"
              [] OTHER -> "claim_done"
  /\ changed' = (changed /\ ~passes)
  /\ calls' = Tail(calls)
  /\ Then(h, "calls")
  /\ UNCHANGED <<place, turns, textOnly, endedBy, endings, held, claim>>

\* Every call of the response has its result.
EndCalls ==
  /\ pc = "calls" /\ calls = <<>>
  /\ IF end = "none" THEN pc' = "turn" /\ UNCHANGED endedBy ELSE EndSession(end)
  /\ UNCHANGED <<place, turns, textOnly, calls, end, endings, ending, harnessOver,
                 held, claim, changed>>

\* _next_session_runs.
NextSessionRuns ==
  \/ endedBy = "turn_budget"
  \/ ThisPhase = "build" /\ endedBy = "claim_not_done"

\* The session end hooks; then the next session of the phase, or its end.
SessionEnd(h) ==
  /\ pc = "sessionEnd"
  /\ HarnessWork(h)
  /\ endings' = IF h.raises THEN endings ELSE endings \cup {endedBy}
  /\ IF NextSessionRuns /\ position < Len(SessionBudgets) /\ ~h.raises
     THEN position' = position + 1 /\ pc' = "session"
     ELSE UNCHANGED position /\ Then(h, "phaseEnd")
  /\ UNCHANGED <<phase, turns, textOnly, calls, end, endedBy, held, claim, changed>>

PhaseEnd(h) ==
  /\ pc = "phaseEnd"
  /\ HarnessWork(h)
  /\ phase' = phase + 1
  /\ Then(h, "phase")
  /\ UNCHANGED <<position, turns, textOnly, calls, end, endedBy, endings, held, claim, changed>>

\* An exception outside harness work (git, the ledger, a session start hook);
\* a call that was under way has been settled or released.
InternalError ==
  /\ pc \in {"phase", "session", "turn", "model", "calls", "sessionEnd"}
  /\ Fail("internal")
  /\ held' = FALSE
  /\ pc' = "diff"
  /\ UNCHANGED <<place, turns, textOnly, calls, end, endedBy, endings, harnessOver, claim, changed>>

\* The diff is written, or that fails; the result and run_end.
EndRun ==
  /\ pc = "diff"
  /\ error' \in {error, FirstError("diff")}
  /\ pc' = "done"
  /\ UNCHANGED <<place, turns, textOnly, calls, end, endedBy, endings, status, reason,
                 harnessOver, held, claim, changed>>

Next ==
  \/ \E h \in Outcomes : Prepare(h) \/ CheckTool(h) \/ SessionEnd(h) \/ PhaseEnd(h)
  \/ \E h \in Outcomes, passes \in BOOLEAN : Gate(h, passes)
  \/ StartPhase \/ StartSession \/ EndTurns \/ CallModel \/ ModelFails \/ AnswerPassesCap
  \/ \E r \in Responses : Answer(r)
  \/ SkipCall \/ RunTool \/ Finish \/ EndCalls \/ InternalError \/ EndRun

Spec == Init /\ [][Next]_vars

\* One thread runs the loop, and model calls and hooks come back.
FairSpec == Spec /\ WF_vars(Next)
-----------------------------------------------------------------------------
\* Types; a reservation is open only while the model is called.
TypeOK ==
  /\ pc \in Places
  /\ phase \in 1..(Len(Phases) + 1) /\ position \in Nat \ {0}
  /\ turns \in Nat /\ textOnly \in 0..2
  /\ calls \in Seq(CallKinds)
  /\ end \in EndReasons \cup {"none"} /\ endedBy \in EndReasons
  /\ endings \in SUBSET EndReasons
  /\ status \in {"completed", "timeout", "cap", "error"}
  /\ reason \in {"none", "harness", "agent", "cap", "model", "internal"}
  /\ error \in {"none", "model", "internal", "diff"}
  /\ harnessOver \in BOOLEAN /\ changed \in BOOLEAN
  /\ claim \in {"none", "done", "not_done"}
  /\ held <=> pc = "model"

\* A run that has ended, by a cap, a limit or a failure, stands still, although
\* only the start of a phase and the calls of an answer look at its status: no
\* session of it calls the model, runs a tool or makes or takes back a claim
\* (_run_phases, _next_session_runs, the checks of a turn, _ended_refusal).
EndedRunStandsStill ==
  [][status # "completed" =>
       /\ turns' \in {0, turns} /\ ~held'
       /\ UNCHANGED <<claim, changed>>]_vars

\* A session ends as done only on work that passed the gate exactly as it is
\* left, while the run had not ended, and the claim of the result is the one the
\* session ended with (handle_finish, the refusals after it, text-only answers).
DoneMeansChecked ==
  pc = "sessionEnd" =>
    /\ endedBy = "claim_done" => ~changed /\ status = "completed" /\ claim = "done"
    /\ endedBy = "claim_not_done" => claim = "not_done"
    /\ endedBy = "no_tool_call" => claim = "none"

\* The result tells one story.  A session that ended by a limit or an error is
\* what ended the run.  A run that ended by its cap or by agent time has the
\* session that did, unless an exception lost that session (its end hooks
\* raised), which the error then tells; of a failed model call the error tells
\* in any case (abort, fail, run_session, the except clause of run).
StatusMatchesSessions ==
  pc \in {"phase", "phaseEnd", "diff", "done"} =>
    /\ "cap" \in endings => reason = "cap"
    /\ "error" \in endings => reason = "model"
    /\ "timeout" \in endings => reason \in {"agent", "harness"}
    /\ reason = "cap" => "cap" \in endings \/ error = "internal"
    /\ reason = "agent" => "timeout" \in endings \/ error = "internal"
    /\ reason = "model" => error = "model"

\* A run ends, with the first reason it met (abort, fail, run).
Run == INSTANCE ArmRun WITH
  verdict <- IF status = "completed" /\ pc # "done" THEN "running" ELSE status,
  over <- pc = "done"
ImplementsArmRun == Run!Spec
=============================================================================
