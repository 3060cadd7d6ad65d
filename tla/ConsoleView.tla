----------------------------- MODULE ConsoleView ----------------------------
(* One arm's run and what the console makes of its events: AgentLoop        *)
(* publishes as it goes, and ArmState.apply (P/console/state.py) folds each *)
(* event into the state that the screens show.  Turn events carry no phase, *)
(* so the console infers the phase of a session from the other events.      *)
(* The referee's two verdicts follow the run.                               *)
EXTENDS AgentLoop, FiniteSets

\* The arms that the console shows build, then test: the test phase has one
\* session (P/ab/demo.py:219, P/runner/loop.py:519).
ASSUME ViewAssumption ==
  /\ Phases \in {<<"build">>, <<"build", "test">>}
  /\ Len(Budgets["test"]) = 1

VARIABLES
  index,       \* session_index of the loop
  sessions,    \* the loop's SessionResults: [index, phase, turns]
  gated,       \* the phase that each gate ran in (auxiliary)
  view         \* ArmState

viewVars == <<vars, index, sessions, gated, view>>

(* ---- ArmState: one operator per event type ------------------------------- *)

Fresh == [launched |-> FALSE, ended |-> FALSE, session |-> 1, timeline |-> <<>>, resumed |-> {},
          claimedTest |-> {}, claims |-> [p \in {"build", "test"} |-> "unsaid"],
          stopped |-> {}, gates |-> <<>>, gatePhase |-> <<>>, primary |-> FALSE, verdict |-> FALSE,
          latest |-> "none"]

RunStart(v) == [v EXCEPT !.launched = TRUE]
RunEnd(v) == [v EXCEPT !.ended = TRUE]
Turn(v, i) ==
  [v EXCEPT !.session = i, !.timeline = Append(@, [kind |-> "turn", session |-> i])]
SessionStop(v, i) ==
  [v EXCEPT !.stopped = @ \cup {i},
            !.timeline = Append(@, [kind |-> "session_stop", session |-> i])]
SessionResume(v, i) ==
  [v EXCEPT !.session = i, !.resumed = @ \cup {i},
            !.timeline = Append(@, [kind |-> "session_resume", session |-> i])]

Turns(v) == {n \in DOMAIN v.timeline : v.timeline[n].kind = "turn"}

\* Mutant of PhaseOf: a session after the first is one of the test phase.
PhaseByIndex(v, i) == IF i \in v.claimedTest \/ i # 1 THEN "test" ELSE "build"
\* phase_of: by a claim in the test phase; else the first session and resumed
\* ones belong to the build.
PhaseOf(v, i) ==
  IF i \in v.claimedTest THEN "test" ELSE IF i = 1 \/ i \in v.resumed THEN "build" ELSE "test"

\* A gate's results replace each other; a claim says the phase of its gate.
GateResult(v, id, result) ==
  IF id \in DOMAIN v.gates THEN [v EXCEPT !.gates[id] = result]
  ELSE [v EXCEPT !.gates = Append(@, result), !.gatePhase = Append(@, PhaseOf(v, v.session))]
Claim(v, p, said, id) ==
  [v EXCEPT !.claims[p] = said,
            !.claimedTest = IF p = "test" THEN @ \cup {v.session} ELSE @,
            !.gatePhase = IF id \in DOMAIN @ THEN [@ EXCEPT ![id] = p] ELSE @]
PrimaryVerdict(v) == [v EXCEPT !.primary = TRUE, !.latest = "primary"]
Verdict(v) == [v EXCEPT !.verdict = TRUE, !.latest = "verdict"]

(* ---- What the screens read off it ------------------------------------------ *)

\* sessions: the turns and the phase of every session with a row.
Summaries(v) ==
  [i \in {v.timeline[n].session : n \in DOMAIN v.timeline} |->
     [phase |-> PhaseOf(v, i), turns |-> Cardinality({n \in Turns(v) : v.timeline[n].session = i})]]
\* gate_refusals: of each phase, the gates that have their last result and
\* did not pass, with what followed.
Attempts(v, p) == {n \in DOMAIN v.gates : v.gatePhase[n] = p /\ v.gates[n] # "pending"}
Nth(attempts, g) == Cardinality({n \in attempts : n <= g})
Outcome(v, attempts, g) ==
  LET later == {n \in attempts : n > g}
      next == CHOOSE n \in later : \A m \in later : n <= m
  IN  IF later = {} THEN "no further attempt"
      ELSE IF v.gates[next] = "passed" THEN "passed next" ELSE "still refused"
Refusal(v, g) ==
  LET attempts == Attempts(v, v.gatePhase[g])
  IN  [phase |-> v.gatePhase[g], attempt |-> Nth(attempts, g), outcome |-> Outcome(v, attempts, g)]
FailedGates(v) == {g \in DOMAIN v.gates : v.gates[g] = "failed"}
GateRefusals(v) == {Refusal(v, g) : g \in FailedGates(v)}
\* secondary_pending and finished, of one arm.
SecondaryPending(v) == v.primary /\ v.latest = "primary"
Finished(v) == v.launched /\ v.ended /\ v.verdict /\ ~SecondaryPending(v)

(* ---- The run, with the events it publishes ---------------------------------- *)

ViewInit ==
  /\ Init
  /\ index = 0 /\ sessions = <<>> /\ gated = <<>> /\ view = RunStart(Fresh)

Silent == UNCHANGED <<index, sessions, gated, view>>
Shows(v) == view' = v /\ UNCHANGED <<index, sessions, gated>>

SessionStarts ==
  /\ StartSession
  /\ index' = index + 1
  /\ view' = IF position > 1 THEN SessionResume(view, index + 1) ELSE view
  /\ UNCHANGED <<sessions, gated>>

\* record_usage: the turn event is published even when settling raises.
TurnTaken ==
  /\ AnswerPassesCap \/ \E r \in Responses : Answer(r)
  /\ Shows(Turn(view, index))

Claims ==
  /\ Finish
  /\ IF Head(calls) = "not_done" THEN Shows(Claim(view, ThisPhase, "not_done", 0))
     ELSE Silent

\* The gate publishes its items as they come in, and the claim event follows
\* whatever it says; an exception leaves it with what it had published.
Gates(h, passes) ==
  LET id == Len(view.gates) + 1
      begun == GateResult(view, id, "pending")
      judged == GateResult(begun, id, IF passes THEN "passed" ELSE "failed")
      said(v) == Claim(v, ThisPhase, "done", id)
  IN  /\ Gate(h, passes)
      /\ \/ ~h.raises /\ view' = said(judged)
         \/ h.raises /\ view' \in {view, begun, judged}
      /\ gated' = IF Len(view'.gates) = id THEN Append(gated, ThisPhase) ELSE gated
      /\ UNCHANGED <<index, sessions>>

\* run_session returns its result; the stop is published when another session
\* of the phase follows.
SessionEnds(h) ==
  /\ SessionEnd(h)
  /\ sessions' = IF h.raises THEN sessions
                 ELSE Append(sessions, [index |-> index, phase |-> ThisPhase, turns |-> turns])
  /\ view' = IF pc' = "session" THEN SessionStop(view, index) ELSE view
  /\ UNCHANGED <<index, gated>>

RunEnds == EndRun /\ Shows(RunEnd(view))

\* The referee judges the ended run: its primary verdict, then the verdict.
Judges ==
  /\ pc = "done" /\ view.ended
  /\ \/ ~SecondaryPending(view) /\ ~view.verdict /\ Shows(PrimaryVerdict(view))
     \/ SecondaryPending(view) /\ Shows(Verdict(view))
  /\ UNCHANGED vars

ViewNext ==
  \/ \E h \in Outcomes :
       (Prepare(h) \/ CheckTool(h) \/ PhaseEnd(h)) /\ Silent
  \/ \E h \in Outcomes : SessionEnds(h)
  \/ \E h \in Outcomes, passes \in BOOLEAN : Gates(h, passes)
  \/ (StartPhase \/ EndTurns \/ CallModel \/ ModelFails \/ SkipCall \/ RunTool \/ EndCalls
      \/ InternalError) /\ Silent
  \/ SessionStarts \/ TurnTaken \/ Claims \/ RunEnds \/ Judges

ViewSpec == ViewInit /\ [][ViewNext]_viewVars /\ WF_viewVars(ViewNext)
-----------------------------------------------------------------------------
\* What the console infers is what the run did: every session the loop has
\* closed is shown with its phase and its turns, every gate under the phase it
\* ran in, as many refusals as gates that failed, and the arm is shown as
\* finished only when the run is over (P/console/state.py:395, 315, 775).
ViewAgrees ==
  /\ \A n \in DOMAIN sessions :
       LET s == sessions[n]
           shown == Summaries(view)
       IN  IF s.index \in DOMAIN shown
           THEN shown[s.index].phase = s.phase /\ shown[s.index].turns = s.turns
           ELSE s.turns = 0
  /\ view.gatePhase = gated
  /\ Cardinality(GateRefusals(view)) = Cardinality(FailedGates(view))
  /\ Finished(view) => pc = "done"
=============================================================================
