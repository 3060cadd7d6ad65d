--------------------------- MODULE AgentLoopProofs --------------------------
(***************************************************************************)
(* AgentLoop's types, and that an ended run stands still, that a session   *)
(* that ends as done was checked as it is left, and that the result tells  *)
(* what the sessions tell: for any phases, budgets and answers.  Then, of  *)
(* ConsoleView, that the console shows the run as it was.                  *)
(***************************************************************************)
EXTENDS ConsoleView, FiniteSetTheorems, TLAPS

\* Inside a session, and inside a phase.
InSession == {"turn", "model", "calls", "check", "gate"}
InPhase == InSession \cup {"session", "sessionEnd", "phaseEnd"}

\* The session has not been ended by two answers without a call; the phase exists.
InRange ==
  /\ pc \in InSession => textOnly <= 1
  /\ pc \in InPhase => phase <= Len(Phases)

\* How far process_calls has come: an end is decided only while it goes through
\* the calls of an answer, by a finish.
EndOfCalls ==
  /\ pc \in {"turn", "model"} => end = "none"
  /\ pc \in {"check", "gate"} => calls # <<>>
  /\ pc = "gate" => claim = "done"
  /\ pc = "calls" =>
       /\ end \in {"none", "claim_done", "claim_not_done", "timeout"}
       /\ end = "claim_done" => ~changed /\ status = "completed" /\ claim = "done"
       /\ end = "claim_not_done" => claim = "not_done"
       /\ end = "timeout" => harnessOver

\* The endings, with that of a session whose end hooks are due.
Endings == endings \cup (IF pc = "sessionEnd" THEN {endedBy} ELSE {})

\* Ends of a session that end the run.
Stops == {"timeout", "cap", "error"}

LimitEnded == reason = "harness" /\ harnessOver

\* A session of a run that has ended goes on only until it is asked for its next
\* turn or call: it is the harness's limit that ended the run, which both look at.
Going ==
  /\ pc \in {"model", "check", "gate"} => status = "completed"
  /\ pc \in {"check", "gate"} => end = "none"
  /\ pc \in {"session", "turn", "calls"} => status = "completed" \/ LimitEnded
  /\ pc = "sessionEnd" => endedBy \in Stops \/ status = "completed" \/ LimitEnded

\* The status, its reason, the error and the endings tell one story.
Story ==
  /\ harnessOver => status # "completed"
  /\ status = "completed" <=> reason = "none"
  /\ pc \notin {"diff", "done"} /\ reason \in {"none", "cap", "agent", "harness"} => error = "none"
  /\ "cap" \in Endings => reason = "cap"
  /\ "error" \in Endings => reason = "model"
  /\ "timeout" \in Endings => reason \in {"agent", "harness"}
  /\ reason = "cap" => "cap" \in Endings \/ error = "internal"
  /\ reason = "agent" => "timeout" \in Endings \/ error = "internal"
  /\ reason = "model" => error = "model"

IInv == TypeOK /\ InRange /\ Going /\ EndOfCalls /\ DoneMeansChecked /\ Story

LEMMA PhasesLen == Len(Phases) \in Nat
  BY LoopAssumption

LEMMA TailType == ASSUME calls \in Seq(CallKinds), calls # <<>>
                  PROVE  Tail(calls) \in Seq(CallKinds)
  OBVIOUS

LEMMA HeadType == ASSUME calls \in Seq(CallKinds), calls # <<>>
                  PROVE  Head(calls) \in CallKinds
  OBVIOUS

LEMMA InitIInv == Init => IInv
<1> SUFFICES ASSUME Init PROVE IInv
  OBVIOUS
<1>1. calls \in Seq(CallKinds) /\ phase \in 1..(Len(Phases) + 1)
  BY PhasesLen DEF Init
<1>2. TypeOK
  <2>1. held <=> pc = "model"
    <3>1. ~held /\ pc # "model"
      BY DEF Init
    <3> QED BY <3>1
  <2>2. /\ pc \in Places /\ end \in EndReasons \cup {"none"} /\ endedBy \in EndReasons
        /\ endings \in SUBSET EndReasons
    BY DEF Init, Places, EndReasons
  <2>3. position \in Nat \ {0} /\ turns \in Nat /\ textOnly \in 0..2
    BY DEF Init
  <2>4. /\ status \in {"completed", "timeout", "cap", "error"}
        /\ reason \in {"none", "harness", "agent", "cap", "model", "internal"}
        /\ error \in {"none", "model", "internal", "diff"}
        /\ claim \in {"none", "done", "not_done"}
    BY DEF Init
  <2>5. harnessOver \in BOOLEAN /\ changed \in BOOLEAN
    BY DEF Init
  <2> QED
    BY <1>1, <2>1, <2>2, <2>3, <2>4, <2>5 DEF TypeOK
<1>3. InRange /\ Going /\ EndOfCalls /\ DoneMeansChecked /\ Story
  BY DEF Init, InRange, Going, EndOfCalls, DoneMeansChecked, Story, Endings, Stops, Going, LimitEnded,
     InSession, InPhase
<1> QED
  BY <1>2, <1>3 DEF IInv

\* What harness work does to the status, in every case.
LEMMA HarnessWorkFacts ==
  ASSUME IInv, NEW h \in Outcomes, HarnessWork(h)
  PROVE  /\ harnessOver' \in BOOLEAN /\ (harnessOver => harnessOver')
         /\ harnessOver' => status' # "completed"
         /\ status' \in {"completed", "timeout", "cap", "error"}
         /\ reason' \in {"none", "harness", "agent", "cap", "model", "internal"}
         /\ status' = "completed" <=> reason' = "none"
         /\ status' = "completed" => status = "completed"
         /\ reason' \in {"cap", "agent", "model"} => reason' = reason
         /\ status # "completed" => UNCHANGED <<status, reason>>
         /\ ~h.raises /\ status = "completed" /\ status' # "completed" =>
              reason' = "harness" /\ harnessOver'
         /\ error' = IF h.raises THEN FirstError("internal") ELSE error
         /\ ~h.raises /\ ~harnessOver' => UNCHANGED ending
<1>1. h.over \in BOOLEAN /\ h.raises \in BOOLEAN
  BY LoopAssumption DEF Outcomes
<1>2. CASE h.over
  BY <1>1, <1>2 DEF HarnessWork, Decide, IInv, TypeOK, Story, ending
<1>3. CASE ~h.over /\ h.raises
  BY <1>1, <1>3 DEF HarnessWork, Decide, IInv, TypeOK, Story, ending
<1>4. CASE ~h.over /\ ~h.raises
  BY <1>1, <1>4 DEF HarnessWork, Decide, IInv, TypeOK, Story, ending
<1> QED
  BY <1>1, <1>2, <1>3, <1>4

\* Every action keeps the invariant.
LEMMA NextIInv == IInv /\ [Next]_vars => IInv'
<1> SUFFICES ASSUME IInv, [Next]_vars PROVE IInv'
  OBVIOUS
<1> USE PhasesLen DEF place, ending, IInv, Places, EndReasons, InSession, InPhase
<1>1. ASSUME NEW h \in Outcomes, Prepare(h) PROVE IInv'
  <2>1. TypeOK'
    BY <1>1, HarnessWorkFacts DEF Prepare, FirstError, TypeOK, Then
  <2>2. InRange'
    BY <1>1, HarnessWorkFacts DEF Prepare, FirstError, TypeOK, InRange, Then
  <2>3. Going'
    BY <1>1, HarnessWorkFacts DEF Prepare, FirstError, TypeOK, Going, LimitEnded, Stops, Story, EndOfCalls, Refused, Then
  <2>4. EndOfCalls'
    BY <1>1, HarnessWorkFacts DEF Prepare, FirstError, TypeOK, Going, LimitEnded, Stops, Story, EndOfCalls, Story, Refused, Then
  <2>5. DoneMeansChecked'
    BY <1>1, HarnessWorkFacts DEF Prepare, FirstError, TypeOK, EndOfCalls, DoneMeansChecked, Then
  <2>6. Story'
    BY <1>1, HarnessWorkFacts DEF Prepare, FirstError, TypeOK, Story, Endings, Stops, Going, LimitEnded, EndOfCalls, DoneMeansChecked, Then
  <2> QED BY <2>1, <2>2, <2>3, <2>4, <2>5, <2>6
<1>2. ASSUME NEW h \in Outcomes, CheckTool(h) PROVE IInv'
  <2>1. TypeOK'
    BY <1>2, HarnessWorkFacts, TailType DEF CheckTool, FirstError, TypeOK, Then, EndOfCalls
  <2>2. InRange'
    BY <1>2, HarnessWorkFacts DEF CheckTool, FirstError, TypeOK, InRange, Then
  <2>3. Going'
    BY <1>2, HarnessWorkFacts DEF CheckTool, FirstError, TypeOK, Going, LimitEnded, Stops, Story, EndOfCalls, Refused, Then
  <2>4. EndOfCalls'
    BY <1>2, HarnessWorkFacts DEF CheckTool, FirstError, TypeOK, Going, LimitEnded, Stops, Story, EndOfCalls, Story, Refused, Then
  <2>5. DoneMeansChecked'
    BY <1>2, HarnessWorkFacts DEF CheckTool, FirstError, TypeOK, EndOfCalls, DoneMeansChecked, Then
  <2>6. Story'
    BY <1>2, HarnessWorkFacts DEF CheckTool, FirstError, TypeOK, Story, Endings, Stops, Going, LimitEnded, EndOfCalls, DoneMeansChecked, Then
  <2> QED BY <2>1, <2>2, <2>3, <2>4, <2>5, <2>6
<1>3. ASSUME NEW h \in Outcomes, SessionEnd(h) PROVE IInv'
  <2>1. TypeOK'
    BY <1>3, HarnessWorkFacts DEF SessionEnd, FirstError, TypeOK, Then
  <2>2. InRange'
    BY <1>3, HarnessWorkFacts DEF SessionEnd, FirstError, TypeOK, InRange, Then
  <2>3. Going'
    BY <1>3, HarnessWorkFacts DEF SessionEnd, NextSessionRuns, FirstError, TypeOK, Going, LimitEnded, Stops, Story, EndOfCalls, Refused, Then
  <2>4. EndOfCalls'
    BY <1>3, HarnessWorkFacts DEF SessionEnd, NextSessionRuns, FirstError, TypeOK, Going, LimitEnded, Stops, Story, EndOfCalls, Story, Refused, Then
  <2>5. DoneMeansChecked'
    BY <1>3, HarnessWorkFacts DEF SessionEnd, FirstError, TypeOK, EndOfCalls, DoneMeansChecked, Then
  <2>6. Story'
    BY <1>3, HarnessWorkFacts DEF SessionEnd, FirstError, TypeOK, Story, Endings, Stops, Going, LimitEnded, EndOfCalls, DoneMeansChecked, Then
  <2> QED BY <2>1, <2>2, <2>3, <2>4, <2>5, <2>6
<1>4. ASSUME NEW h \in Outcomes, PhaseEnd(h) PROVE IInv'
  <2>1. TypeOK'
    BY <1>4, HarnessWorkFacts DEF PhaseEnd, FirstError, TypeOK, Then, InRange
  <2>2. InRange'
    BY <1>4, HarnessWorkFacts DEF PhaseEnd, FirstError, TypeOK, InRange, Then
  <2>3. Going'
    BY <1>4, HarnessWorkFacts DEF PhaseEnd, FirstError, TypeOK, Going, LimitEnded, Stops, Story, EndOfCalls, Refused, Then
  <2>4. EndOfCalls'
    BY <1>4, HarnessWorkFacts DEF PhaseEnd, FirstError, TypeOK, Going, LimitEnded, Stops, Story, EndOfCalls, Story, Refused, Then
  <2>5. DoneMeansChecked'
    BY <1>4, HarnessWorkFacts DEF PhaseEnd, FirstError, TypeOK, EndOfCalls, DoneMeansChecked, Then
  <2>6. Story'
    BY <1>4, HarnessWorkFacts DEF PhaseEnd, FirstError, TypeOK, Story, Endings, Stops, Going, LimitEnded, EndOfCalls, DoneMeansChecked, Then
  <2> QED BY <2>1, <2>2, <2>3, <2>4, <2>5, <2>6
<1>5. ASSUME NEW h \in Outcomes, NEW passes \in BOOLEAN, Gate(h, passes) PROVE IInv'
  <2>1. TypeOK'
    BY <1>5, HarnessWorkFacts, TailType DEF Gate, FirstError, TypeOK, Then, EndOfCalls
  <2>2. InRange'
    BY <1>5, HarnessWorkFacts DEF Gate, FirstError, TypeOK, InRange, Then
  <2>3. Going'
    BY <1>5, HarnessWorkFacts DEF Gate, FirstError, TypeOK, Going, LimitEnded, Stops, Story, EndOfCalls, Refused, Then
  <2>4. EndOfCalls'
    BY <1>5, HarnessWorkFacts DEF Gate, FirstError, TypeOK, Going, LimitEnded, Stops, Story, EndOfCalls, Story, Refused, Then
  <2>5. DoneMeansChecked'
    BY <1>5, HarnessWorkFacts DEF Gate, FirstError, TypeOK, EndOfCalls, DoneMeansChecked, Then
  <2>6. Story'
    BY <1>5, HarnessWorkFacts DEF Gate, FirstError, TypeOK, Story, Endings, Stops, Going, LimitEnded, EndOfCalls, DoneMeansChecked, Then
  <2> QED BY <2>1, <2>2, <2>3, <2>4, <2>5, <2>6
<1>6. ASSUME NEW r \in Responses, Answer(r) PROVE IInv'
  <2>1. TypeOK'
    <3>1. calls' \in Seq(CallKinds)
      BY <1>6, LoopAssumption DEF Answer
    <3>2. turns' \in Nat /\ textOnly' \in 0..2
      BY <1>6 DEF Answer, TypeOK, InRange
    <3>3. /\ pc' \in {"sessionEnd", "turn", "calls"}
          /\ endedBy' \in EndReasons /\ claim' \in {"none", "done", "not_done"}
      BY <1>6 DEF Answer, EndSession, TypeOK
    <3> QED
      BY <1>6, <3>1, <3>2, <3>3 DEF Answer, TypeOK
  <2>2. InRange'
    BY <1>6 DEF Answer, EndSession, TypeOK, InRange
  <2>3. Going'
    BY <1>6 DEF Answer, EndSession, TypeOK, Going, LimitEnded, Stops, Story, EndOfCalls, Refused
  <2>4. EndOfCalls'
    BY <1>6 DEF Answer, EndSession, TypeOK, Going, LimitEnded, Stops, Story, EndOfCalls, Story, Refused
  <2>5. DoneMeansChecked'
    BY <1>6 DEF Answer, EndSession, TypeOK, EndOfCalls, DoneMeansChecked
  <2>6. Story'
    BY <1>6 DEF Answer, EndSession, TypeOK, Story, Endings, Stops, Going, LimitEnded, EndOfCalls, DoneMeansChecked
  <2> QED BY <2>1, <2>2, <2>3, <2>4, <2>5, <2>6
<1>7. ASSUME StartPhase PROVE IInv'
  <2>1. TypeOK'
    BY <1>7 DEF StartPhase, TypeOK
  <2>2. InRange'
    BY <1>7 DEF StartPhase, TypeOK, InRange
  <2>3. Going'
    BY <1>7 DEF StartPhase, TypeOK, Going, LimitEnded, Stops, Story, EndOfCalls, Refused
  <2>4. EndOfCalls'
    BY <1>7 DEF StartPhase, TypeOK, Going, LimitEnded, Stops, Story, EndOfCalls, Story, Refused
  <2>5. DoneMeansChecked'
    BY <1>7 DEF StartPhase, TypeOK, EndOfCalls, DoneMeansChecked
  <2>6. Story'
    BY <1>7 DEF StartPhase, TypeOK, Story, Endings, Stops, Going, LimitEnded, EndOfCalls, DoneMeansChecked
  <2> QED BY <2>1, <2>2, <2>3, <2>4, <2>5, <2>6
<1>8. ASSUME StartSession PROVE IInv'
  <2>1. TypeOK'
    BY <1>8 DEF StartSession, TypeOK
  <2>2. InRange'
    BY <1>8 DEF StartSession, TypeOK, InRange
  <2>3. Going'
    BY <1>8 DEF StartSession, TypeOK, Going, LimitEnded, Stops, Story, EndOfCalls, Refused
  <2>4. EndOfCalls'
    BY <1>8 DEF StartSession, TypeOK, Going, LimitEnded, Stops, Story, EndOfCalls, Story, Refused
  <2>5. DoneMeansChecked'
    BY <1>8 DEF StartSession, TypeOK, EndOfCalls, DoneMeansChecked
  <2>6. Story'
    BY <1>8 DEF StartSession, TypeOK, Story, Endings, Stops, Going, LimitEnded, EndOfCalls, DoneMeansChecked
  <2> QED BY <2>1, <2>2, <2>3, <2>4, <2>5, <2>6
<1>9. ASSUME EndTurns PROVE IInv'
  <2>1. TypeOK'
    BY <1>9 DEF EndTurns, EndSession, Abort, Fail, Decide, FirstError, TypeOK
  <2>2. InRange'
    BY <1>9 DEF EndTurns, EndSession, Abort, Fail, Decide, FirstError, TypeOK, InRange
  <2>3. Going'
    BY <1>9 DEF EndTurns, EndSession, Abort, Fail, Decide, FirstError, TypeOK, Going, LimitEnded, Stops, Story, EndOfCalls, Refused
  <2>4. EndOfCalls'
    BY <1>9 DEF EndTurns, EndSession, Abort, Fail, Decide, FirstError, TypeOK, Going, LimitEnded, Stops, Story, EndOfCalls, Story, Refused
  <2>5. DoneMeansChecked'
    BY <1>9 DEF EndTurns, EndSession, Abort, Fail, Decide, FirstError, TypeOK, EndOfCalls, DoneMeansChecked
  <2>6. Story'
    BY <1>9 DEF EndTurns, EndSession, Abort, Fail, Decide, FirstError, TypeOK, Story, Endings, Stops, Going, LimitEnded, EndOfCalls, DoneMeansChecked
  <2> QED BY <2>1, <2>2, <2>3, <2>4, <2>5, <2>6
<1>10. ASSUME CallModel PROVE IInv'
  <2>1. TypeOK'
    BY <1>10 DEF CallModel, TypeOK
  <2>2. InRange'
    BY <1>10 DEF CallModel, TypeOK, InRange
  <2>3. Going'
    BY <1>10 DEF CallModel, TypeOK, Going, LimitEnded, Stops, Story, EndOfCalls, Refused
  <2>4. EndOfCalls'
    BY <1>10 DEF CallModel, TypeOK, Going, LimitEnded, Stops, Story, EndOfCalls, Story, Refused
  <2>5. DoneMeansChecked'
    BY <1>10 DEF CallModel, TypeOK, EndOfCalls, DoneMeansChecked
  <2>6. Story'
    BY <1>10 DEF CallModel, TypeOK, Story, Endings, Stops, Going, LimitEnded, EndOfCalls, DoneMeansChecked
  <2> QED BY <2>1, <2>2, <2>3, <2>4, <2>5, <2>6
<1>11. ASSUME ModelFails PROVE IInv'
  <2>1. TypeOK'
    BY <1>11 DEF ModelFails, EndSession, Abort, Fail, Decide, FirstError, TypeOK
  <2>2. InRange'
    BY <1>11 DEF ModelFails, EndSession, Abort, Fail, Decide, FirstError, TypeOK, InRange
  <2>3. Going'
    BY <1>11 DEF ModelFails, EndSession, Abort, Fail, Decide, FirstError, TypeOK, Going, LimitEnded, Stops, Story, EndOfCalls, Refused
  <2>4. EndOfCalls'
    BY <1>11 DEF ModelFails, EndSession, Abort, Fail, Decide, FirstError, TypeOK, Going, LimitEnded, Stops, Story, EndOfCalls, Story, Refused
  <2>5. DoneMeansChecked'
    BY <1>11 DEF ModelFails, EndSession, Abort, Fail, Decide, FirstError, TypeOK, EndOfCalls, DoneMeansChecked
  <2>6. Story'
    BY <1>11 DEF ModelFails, EndSession, Abort, Fail, Decide, FirstError, TypeOK, Story, Endings, Stops, Going, LimitEnded, EndOfCalls, DoneMeansChecked
  <2> QED BY <2>1, <2>2, <2>3, <2>4, <2>5, <2>6
<1>12. ASSUME AnswerPassesCap PROVE IInv'
  <2>1. TypeOK'
    BY <1>12 DEF AnswerPassesCap, EndSession, Abort, Fail, Decide, FirstError, TypeOK
  <2>2. InRange'
    BY <1>12 DEF AnswerPassesCap, EndSession, Abort, Fail, Decide, FirstError, TypeOK, InRange
  <2>3. Going'
    BY <1>12 DEF AnswerPassesCap, EndSession, Abort, Fail, Decide, FirstError, TypeOK, Going, LimitEnded, Stops, Story, EndOfCalls, Refused
  <2>4. EndOfCalls'
    BY <1>12 DEF AnswerPassesCap, EndSession, Abort, Fail, Decide, FirstError, TypeOK, Going, LimitEnded, Stops, Story, EndOfCalls, Story, Refused
  <2>5. DoneMeansChecked'
    BY <1>12 DEF AnswerPassesCap, EndSession, Abort, Fail, Decide, FirstError, TypeOK, EndOfCalls, DoneMeansChecked
  <2>6. Story'
    BY <1>12 DEF AnswerPassesCap, EndSession, Abort, Fail, Decide, FirstError, TypeOK, Story, Endings, Stops, Going, LimitEnded, EndOfCalls, DoneMeansChecked
  <2> QED BY <2>1, <2>2, <2>3, <2>4, <2>5, <2>6
<1>13. ASSUME SkipCall PROVE IInv'
  <2>1. TypeOK'
    BY <1>13, TailType DEF SkipCall, TypeOK
  <2>2. InRange'
    BY <1>13 DEF SkipCall, TypeOK, InRange
  <2>3. Going'
    BY <1>13 DEF SkipCall, TypeOK, Going, LimitEnded, Stops, Story, EndOfCalls, Refused
  <2>4. EndOfCalls'
    BY <1>13 DEF SkipCall, TypeOK, Going, LimitEnded, Stops, Story, EndOfCalls, Story, Refused
  <2>5. DoneMeansChecked'
    BY <1>13 DEF SkipCall, TypeOK, EndOfCalls, DoneMeansChecked
  <2>6. Story'
    BY <1>13 DEF SkipCall, TypeOK, Story, Endings, Stops, Going, LimitEnded, EndOfCalls, DoneMeansChecked
  <2> QED BY <2>1, <2>2, <2>3, <2>4, <2>5, <2>6
<1>14. ASSUME RunTool PROVE IInv'
  <2>1. TypeOK'
    BY <1>14 DEF RunTool, TypeOK
  <2>2. InRange'
    BY <1>14 DEF RunTool, TypeOK, InRange
  <2>3. Going'
    BY <1>14 DEF RunTool, TypeOK, Going, LimitEnded, Stops, Story, EndOfCalls, Refused
  <2>4. EndOfCalls'
    BY <1>14 DEF RunTool, TypeOK, Going, LimitEnded, Stops, Story, EndOfCalls, Story, Refused
  <2>5. DoneMeansChecked'
    BY <1>14 DEF RunTool, TypeOK, EndOfCalls, DoneMeansChecked
  <2>6. Story'
    BY <1>14 DEF RunTool, TypeOK, Story, Endings, Stops, Going, LimitEnded, EndOfCalls, DoneMeansChecked
  <2> QED BY <2>1, <2>2, <2>3, <2>4, <2>5, <2>6
<1>15. ASSUME Finish PROVE IInv'
  <2>1. TypeOK'
    <3>1. calls' \in Seq(CallKinds) /\ claim' \in {"none", "done", "not_done"}
      BY <1>15, TailType, HeadType DEF Finish, TypeOK, CallKinds
    <3>2. /\ pc' \in {"gate", "calls"} /\ end' \in EndReasons \cup {"none"}
      BY <1>15 DEF Finish, TypeOK
    <3> QED
      BY <1>15, <3>1, <3>2 DEF Finish, TypeOK
  <2>2. InRange'
    BY <1>15 DEF Finish, TypeOK, InRange
  <2>3. Going'
    BY <1>15 DEF Finish, TypeOK, Going, LimitEnded, Stops, Story, EndOfCalls, Refused
  <2>4. EndOfCalls'
    BY <1>15 DEF Finish, TypeOK, Going, LimitEnded, Stops, Story, EndOfCalls, Story, Refused
  <2>5. DoneMeansChecked'
    BY <1>15 DEF Finish, TypeOK, EndOfCalls, DoneMeansChecked
  <2>6. Story'
    BY <1>15 DEF Finish, TypeOK, Story, Endings, Stops, Going, LimitEnded, EndOfCalls, DoneMeansChecked
  <2> QED BY <2>1, <2>2, <2>3, <2>4, <2>5, <2>6
<1>16. ASSUME EndCalls PROVE IInv'
  <2>1. TypeOK'
    BY <1>16 DEF EndCalls, EndSession, TypeOK
  <2>2. InRange'
    BY <1>16 DEF EndCalls, EndSession, TypeOK, InRange
  <2>3. Going'
    BY <1>16 DEF EndCalls, EndSession, TypeOK, Going, LimitEnded, Stops, Story, EndOfCalls, Refused
  <2>4. EndOfCalls'
    BY <1>16 DEF EndCalls, EndSession, TypeOK, Going, LimitEnded, Stops, Story, EndOfCalls, Story, Refused
  <2>5. DoneMeansChecked'
    BY <1>16 DEF EndCalls, EndSession, TypeOK, EndOfCalls, DoneMeansChecked
  <2>6. Story'
    BY <1>16 DEF EndCalls, EndSession, TypeOK, Story, Endings, Stops, Going, LimitEnded, EndOfCalls, DoneMeansChecked
  <2> QED BY <2>1, <2>2, <2>3, <2>4, <2>5, <2>6
<1>17. ASSUME InternalError PROVE IInv'
  <2>1. TypeOK'
    BY <1>17 DEF InternalError, Fail, Decide, FirstError, TypeOK
  <2>2. InRange'
    BY <1>17 DEF InternalError, Fail, Decide, FirstError, TypeOK, InRange
  <2>3. Going'
    BY <1>17 DEF InternalError, Fail, Decide, FirstError, TypeOK, Going, LimitEnded, Stops, Story, EndOfCalls, Refused
  <2>4. EndOfCalls'
    BY <1>17 DEF InternalError, Fail, Decide, FirstError, TypeOK, Going, LimitEnded, Stops, Story, EndOfCalls, Story, Refused
  <2>5. DoneMeansChecked'
    BY <1>17 DEF InternalError, Fail, Decide, FirstError, TypeOK, EndOfCalls, DoneMeansChecked
  <2>6. Story'
    BY <1>17 DEF InternalError, Fail, Decide, FirstError, TypeOK, Story, Endings, Stops, Going, LimitEnded, EndOfCalls, DoneMeansChecked
  <2> QED BY <2>1, <2>2, <2>3, <2>4, <2>5, <2>6
<1>18. ASSUME EndRun PROVE IInv'
  <2>1. TypeOK'
    BY <1>18 DEF EndRun, FirstError, TypeOK
  <2>2. InRange'
    BY <1>18 DEF EndRun, FirstError, TypeOK, InRange
  <2>3. Going'
    BY <1>18 DEF EndRun, FirstError, TypeOK, Going, LimitEnded, Stops, Story, EndOfCalls, Refused
  <2>4. EndOfCalls'
    BY <1>18 DEF EndRun, FirstError, TypeOK, Going, LimitEnded, Stops, Story, EndOfCalls, Story, Refused
  <2>5. DoneMeansChecked'
    BY <1>18 DEF EndRun, FirstError, TypeOK, EndOfCalls, DoneMeansChecked
  <2>6. Story'
    BY <1>18 DEF EndRun, FirstError, TypeOK, Story, Endings, Stops, Going, LimitEnded, EndOfCalls, DoneMeansChecked
  <2> QED BY <2>1, <2>2, <2>3, <2>4, <2>5, <2>6
<1>19. CASE UNCHANGED vars
  BY <1>19 DEF vars, TypeOK, InRange, Going, LimitEnded, EndOfCalls, DoneMeansChecked, Story, Endings
<1> QED
  BY <1>1, <1>2, <1>3, <1>4, <1>5, <1>6, <1>7, <1>8, <1>9, <1>10, <1>11, <1>12, <1>13, <1>14, <1>15, <1>16, <1>17, <1>18, <1>19 DEF Next

LEMMA IInvCorrect == Spec => []IInv
  BY InitIInv, NextIInv, PTL DEF Spec

\* The loop's variables keep their types, and a reservation is open exactly
\* while the model is called (call_model, record_usage).
THEOREM TypeCorrect == Spec => []TypeOK
<1>1. IInv => TypeOK
  BY DEF IInv
<1> QED
  BY <1>1, IInvCorrect, PTL

\* An ended run stands still: no session of it calls the model, runs a tool or
\* touches the claim (_run_phases, _next_session_runs, run_session).
THEOREM StandsStill == Spec => EndedRunStandsStill
<1> DEFINE Still == status # "completed" =>
              turns' \in {0, turns} /\ ~held' /\ UNCHANGED <<claim, changed>>
<1>1. ASSUME IInv, [Next]_vars PROVE [Still]_vars
  <2> SUFFICES ASSUME status # "completed", Next PROVE Still
    BY <1>1
  <2> USE DEF IInv, place
  <2>1. ~held
    BY <1>1 DEF TypeOK, Going
  <2>2. ASSUME NEW h \in Outcomes,
               Prepare(h) \/ CheckTool(h) \/ SessionEnd(h) \/ PhaseEnd(h)
        PROVE  Still
    BY <2>1, <2>2 DEF Prepare, CheckTool, SessionEnd, PhaseEnd
  <2>3. ASSUME NEW h \in Outcomes, NEW passes \in BOOLEAN, Gate(h, passes) PROVE FALSE
    BY <1>1, <2>3 DEF Gate, Going
  <2>4. CASE StartPhase \/ StartSession \/ EndTurns \/ SkipCall \/ EndCalls \/ InternalError \/ EndRun
    BY <2>1, <2>4 DEF StartPhase, StartSession, EndTurns, SkipCall, EndCalls, InternalError, EndRun
  <2>5. ~(CallModel \/ ModelFails \/ AnswerPassesCap \/ RunTool \/ Finish)
    BY <1>1 DEF CallModel, ModelFails, AnswerPassesCap, RunTool, Finish, Refused, Going, LimitEnded
  <2>6. ASSUME NEW r \in Responses, Answer(r) PROVE FALSE
    BY <1>1, <2>6 DEF Answer, Going
  <2> QED
    BY <2>2, <2>3, <2>4, <2>5, <2>6 DEF Next
<1> QED
  BY <1>1, IInvCorrect, PTL DEF Spec, EndedRunStandsStill

\* A session that ends as done passed the gate as it is left (handle_finish).
THEOREM DoneCorrect == Spec => []DoneMeansChecked
<1>1. IInv => DoneMeansChecked
  BY DEF IInv
<1> QED
  BY <1>1, IInvCorrect, PTL

\* The status and the endings of the sessions agree (abort, run_session).
THEOREM StatusCorrect == Spec => []StatusMatchesSessions
<1>1. IInv => StatusMatchesSessions
  BY DEF IInv, Story, Endings, Stops, Going, LimitEnded, StatusMatchesSessions
<1> QED
  BY <1>1, IInvCorrect, PTL

\* What the loop does to the promise of ArmRun: the first reason stays, and the
\* result is there once the run is done (abort, fail, run).  That the run ends is
\* left to TLC.
THEOREM RunImplements == Spec => Run!Init /\ [][Run!Decide \/ Run!End]_Run!runVars
<1> DEFINE verdict == IF status = "completed" /\ pc # "done" THEN "running" ELSE status
           over == pc = "done"
<1>1. Init => Run!Init
  BY DEF Init, Run!Init
<1>2. ASSUME IInv, [Next]_vars
      PROVE  [Run!Decide \/ Run!End]_Run!runVars
  <2> USE DEF Run!Decide, Run!End, Run!runVars, IInv
  <2>1. ASSUME pc # "done", pc' # "done",
               \/ UNCHANGED status
               \/ status = "completed" /\ status' \in {"timeout", "cap", "error"}
        PROVE  [Run!Decide \/ Run!End]_Run!runVars
    BY <2>1
  <2>2. ASSUME NEW s \in {"timeout", "cap", "error"}, NEW r, Decide(s, r)
        PROVE  \/ UNCHANGED status
               \/ status = "completed" /\ status' \in {"timeout", "cap", "error"}
    BY <2>2 DEF Decide
  <2>3. ASSUME NEW h \in Outcomes, HarnessWork(h)
        PROVE  \/ UNCHANGED status
               \/ status = "completed" /\ status' \in {"timeout", "cap", "error"}
    <3>1. h.over \in BOOLEAN /\ h.raises \in BOOLEAN
      BY LoopAssumption DEF Outcomes
    <3> QED
      BY <2>3, <3>1 DEF HarnessWork, Decide
  <2>4. ASSUME NEW h \in Outcomes, Prepare(h) \/ CheckTool(h) \/ SessionEnd(h) \/ PhaseEnd(h)
        PROVE  [Run!Decide \/ Run!End]_Run!runVars
    <3>1. HarnessWork(h) /\ pc # "done" /\ pc' # "done"
      BY <2>4 DEF Prepare, CheckTool, SessionEnd, PhaseEnd, Then
    <3> QED
      BY <2>1, <2>3, <3>1
  <2>5. ASSUME NEW h \in Outcomes, NEW passes \in BOOLEAN, Gate(h, passes)
        PROVE  [Run!Decide \/ Run!End]_Run!runVars
    <3>1. HarnessWork(h) /\ pc # "done" /\ pc' # "done"
      BY <2>5 DEF Gate, Then
    <3> QED
      BY <2>1, <2>3, <3>1
  <2>6. CASE StartPhase \/ StartSession \/ CallModel \/ SkipCall \/ RunTool \/ Finish \/ EndCalls
             \/ \E r \in Responses : Answer(r)
    <3>1. UNCHANGED status /\ pc # "done" /\ pc' # "done"
      <4>1. end # "done"
        BY <1>2 DEF TypeOK, EndReasons
      <4> QED
        BY <2>6, <4>1 DEF StartPhase, StartSession, CallModel, SkipCall, RunTool, Finish, EndCalls, Answer,
                   EndSession, ending
    <3> QED
      BY <2>1, <3>1
  <2>7. CASE EndTurns \/ ModelFails \/ AnswerPassesCap \/ InternalError
    <3>1. pc # "done" /\ pc' # "done"
      BY <2>7 DEF EndTurns, ModelFails, AnswerPassesCap, InternalError, EndSession
    <3>2. \/ UNCHANGED status
          \/ \E s \in {"timeout", "cap", "error"} : \E r \in {"agent", "cap", "model", "internal"} : Decide(s, r)
      BY <2>7 DEF EndTurns, ModelFails, AnswerPassesCap, InternalError, Abort, Fail, ending
    <3> QED
      BY <2>1, <2>2, <3>1, <3>2
  <2>8. CASE EndRun
    <3>1. pc = "diff" /\ pc' = "done" /\ status' = status
      BY <2>8 DEF EndRun
    <3>2. status # "running"
      BY <1>2 DEF TypeOK
    <3> QED
      BY <3>1, <3>2
  <2>9. CASE UNCHANGED vars
    BY <2>9 DEF vars
  <2> QED
    BY <1>2, <2>4, <2>5, <2>6, <2>7, <2>8, <2>9 DEF Next
<1> QED
  BY <1>1, <1>2, IInvCorrect, PTL DEF Spec
-----------------------------------------------------------------------------
(* What the console makes of the run (ConsoleView).                         *)

Both == {"build", "test"}
Rows == [kind : {"turn", "session_stop", "session_resume"}, session : Nat]
Views ==
  [launched : BOOLEAN, ended : BOOLEAN, session : Nat, timeline : Seq(Rows), resumed : SUBSET Nat,
   claimedTest : SUBSET Nat, claims : [Both -> {"unsaid", "done", "not_done"}],
   stopped : SUBSET Nat, gates : Seq({"pending", "passed", "failed"}), gatePhase : Seq(Both),
   primary : BOOLEAN, verdict : BOOLEAN, latest : {"none", "primary", "verdict"}]

\* The turns that the view shows of session i.
TurnsOf(v, i) == {n \in Turns(v) : v.timeline[n].session = i}

ViewType ==
  /\ view \in Views /\ index \in Nat
  /\ sessions \in Seq([index : Nat, phase : Both, turns : Nat])

\* The session that is under way, until it is closed.
Open == InSession \cup {"sessionEnd"}

\* Where the run is, as the number of the session and its phase tell it: the
\* first session belongs to the build, and a later one only when it is resumed.
Position ==
  /\ pc = "prepare" => phase = 1 /\ index = 0
  /\ pc = "phase" /\ phase = 1 => index = 0
  /\ pc = "session" /\ phase = 1 /\ position = 1 => index = 0
  /\ pc = "session" /\ position > 1 => index >= 1
  /\ pc \in {"phase", "session"} /\ phase = 2 => index >= 1
  /\ pc \in Open \cup {"phaseEnd"} => index >= 1
  /\ pc \in InPhase /\ phase = 2 => position = 1

\* What the view has been told of the sessions.
Told ==
  /\ \A i \in view.resumed : 2 <= i /\ i <= index
  /\ phase = 1 => view.claimedTest = {}
  /\ \A n \in DOMAIN view.timeline : view.timeline[n].session <= index
  /\ pc \in {"calls", "check", "gate"} => view.session = index
  /\ pc \in Open => /\ PhaseOf(view, index) = ThisPhase
                    /\ Cardinality(TurnsOf(view, index)) = turns

\* The sessions that the loop has closed are shown as they were.
ClosedShown ==
  \A n \in DOMAIN sessions :
    LET s == sessions[n]
    IN  /\ s.index <= index /\ (pc \in Open => s.index < index)
        /\ PhaseOf(view, s.index) = s.phase
        /\ Cardinality(TurnsOf(view, s.index)) = s.turns

\* Every gate has its result and its phase, the one it ran in.
GatesShown == view.gatePhase = gated /\ Len(view.gates) = Len(view.gatePhase)

VInv == ViewType /\ Position /\ Told /\ ClosedShown /\ GatesShown /\ (view.ended => pc = "done")

-----------------------------------------------------------------------------
(* What each event does to a view.                                          *)

LEMMA PhaseOfType == \A v \in Views, i \in Nat : PhaseOf(v, i) \in Both
  BY DEF PhaseOf, Both

LEMMA TurnsOfFinite ==
  ASSUME NEW v \in Views, NEW i \in Nat
  PROVE  /\ TurnsOf(v, i) \subseteq 1..Len(v.timeline)
         /\ IsFiniteSet(TurnsOf(v, i)) /\ Cardinality(TurnsOf(v, i)) \in Nat
<1>1. v.timeline \in Seq(Rows)
  BY DEF Views
<1>2. Len(v.timeline) \in Nat /\ DOMAIN v.timeline = 1..Len(v.timeline)
  BY <1>1
<1>3. TurnsOf(v, i) \subseteq 1..Len(v.timeline)
  BY <1>2 DEF TurnsOf, Turns
<1>4. IsFiniteSet(1..Len(v.timeline))
  BY <1>2, FS_Interval
<1>5. IsFiniteSet(TurnsOf(v, i))
  BY <1>3, <1>4, FS_Subset
<1> QED
  BY <1>3, <1>5, FS_CardinalityType

LEMMA RowSession ==
  ASSUME NEW v \in Views, NEW n \in DOMAIN v.timeline
  PROVE  v.timeline[n].session \in Nat
<1>1. v.timeline \in Seq(Rows)
  BY DEF Views
<1>2. v.timeline[n] \in Rows
  BY <1>1
<1> QED
  BY <1>2 DEF Rows

LEMMA SessionTypes ==
  ASSUME ViewType, NEW n \in DOMAIN sessions
  PROVE  sessions[n] \in [index : Nat, phase : Both, turns : Nat]
<1> DEFINE R == [index : Nat, phase : Both, turns : Nat]
<1>1. sessions \in Seq(R)
  BY DEF ViewType
<1> HIDE DEF R
<1>2. sessions[n] \in R
  BY <1>1
<1> QED
  BY <1>2 DEF R

\* A row at the end of the timeline.
LEMMA NewRow ==
  ASSUME NEW v \in Views, NEW w \in Views, NEW row \in Rows,
         w.timeline = Append(v.timeline, row)
  PROVE  /\ row.kind # "turn" => \A i \in Nat : TurnsOf(w, i) = TurnsOf(v, i)
         /\ \A i \in Nat : i # row.session => TurnsOf(w, i) = TurnsOf(v, i)
         /\ row.kind = "turn" =>
              Cardinality(TurnsOf(w, row.session)) = Cardinality(TurnsOf(v, row.session)) + 1
         /\ \A n \in DOMAIN w.timeline : n \in DOMAIN v.timeline \/ n = Len(v.timeline) + 1
         /\ \A n \in DOMAIN v.timeline : w.timeline[n] = v.timeline[n]
         /\ w.timeline[Len(v.timeline) + 1] = row
<1>1. v.timeline \in Seq(Rows)
  BY DEF Views
<1> DEFINE last == Len(v.timeline) + 1
<1>2. /\ Len(v.timeline) \in Nat /\ DOMAIN v.timeline = 1..Len(v.timeline)
      /\ DOMAIN w.timeline = 1..last
      /\ \A n \in DOMAIN v.timeline : w.timeline[n] = v.timeline[n]
      /\ w.timeline[last] = row
  BY <1>1
<1>3. /\ DOMAIN w.timeline = DOMAIN v.timeline \cup {last} /\ last \notin DOMAIN v.timeline
  BY <1>2
<1> HIDE DEF last
<1>4. ASSUME NEW i \in Nat
      PROVE  TurnsOf(w, i) = TurnsOf(v, i) \cup
                             (IF row.kind = "turn" /\ row.session = i THEN {last} ELSE {})
  BY <1>2, <1>3 DEF TurnsOf, Turns
<1>5. row.session \in Nat
  BY DEF Rows
<1>6. ASSUME row.kind = "turn"
      PROVE  Cardinality(TurnsOf(w, row.session)) = Cardinality(TurnsOf(v, row.session)) + 1
  <2>1. TurnsOf(w, row.session) = TurnsOf(v, row.session) \cup {last}
    BY <1>4, <1>5, <1>6
  <2>2. last \notin TurnsOf(v, row.session)
    BY <1>3 DEF TurnsOf, Turns
  <2>3. IsFiniteSet(TurnsOf(v, row.session))
    BY <1>5, TurnsOfFinite
  <2> QED
    BY <2>1, <2>2, <2>3, FS_AddElement
<1>7. (\A i \in Nat : TurnsOf(w, i) = TurnsOf(v, i)) \/ row.kind = "turn"
  BY <1>4
<1>8. \A i \in Nat : i # row.session => TurnsOf(w, i) = TurnsOf(v, i)
  BY <1>4
<1> QED
  BY <1>2, <1>3, <1>6, <1>7, <1>8 DEF last

LEMMA TurnFacts ==
  ASSUME NEW v \in Views, NEW i \in Nat
  PROVE  /\ Turn(v, i) \in Views
         /\ Turn(v, i).timeline = Append(v.timeline, [kind |-> "turn", session |-> i])
         /\ Turn(v, i).session = i
         /\ Turn(v, i).resumed = v.resumed /\ Turn(v, i).claimedTest = v.claimedTest
         /\ Turn(v, i).gates = v.gates /\ Turn(v, i).gatePhase = v.gatePhase
         /\ Turn(v, i).ended = v.ended
<1>1. [kind |-> "turn", session |-> i] \in Rows
  BY DEF Rows
<1>2. Append(v.timeline, [kind |-> "turn", session |-> i]) \in Seq(Rows)
  BY <1>1 DEF Views
<1> QED
  BY <1>2 DEF Views, Turn

LEMMA StopFacts ==
  ASSUME NEW v \in Views, NEW i \in Nat
  PROVE  LET w == SessionStop(v, i)
         IN  /\ w \in Views
             /\ w.timeline = Append(v.timeline, [kind |-> "session_stop", session |-> i])
             /\ w.session = v.session
             /\ w.resumed = v.resumed /\ w.claimedTest = v.claimedTest
             /\ w.gates = v.gates /\ w.gatePhase = v.gatePhase /\ w.ended = v.ended
<1>1. [kind |-> "session_stop", session |-> i] \in Rows
  BY DEF Rows
<1>2. Append(v.timeline, [kind |-> "session_stop", session |-> i]) \in Seq(Rows)
  BY <1>1 DEF Views
<1> QED
  BY <1>2 DEF Views, SessionStop

LEMMA ResumeFacts ==
  ASSUME NEW v \in Views, NEW i \in Nat
  PROVE  LET w == SessionResume(v, i)
         IN  /\ w \in Views
             /\ w.timeline = Append(v.timeline, [kind |-> "session_resume", session |-> i])
             /\ w.session = i
             /\ w.resumed = v.resumed \cup {i} /\ w.claimedTest = v.claimedTest
             /\ w.gates = v.gates /\ w.gatePhase = v.gatePhase /\ w.ended = v.ended
<1>1. [kind |-> "session_resume", session |-> i] \in Rows
  BY DEF Rows
<1>2. Append(v.timeline, [kind |-> "session_resume", session |-> i]) \in Seq(Rows)
  BY <1>1 DEF Views
<1> QED
  BY <1>2 DEF Views, SessionResume

\* The session that a claim in phase p makes one of the test phase.
Tested(p, session) == IF p = "test" THEN {session} ELSE {}

LEMMA ClaimFacts ==
  ASSUME NEW v \in Views, NEW p \in Both, NEW said \in {"done", "not_done"}, NEW id
  PROVE  LET w == Claim(v, p, said, id)
         IN  /\ w \in Views
             /\ w.timeline = v.timeline /\ w.session = v.session /\ w.resumed = v.resumed
             /\ w.claimedTest = v.claimedTest \cup Tested(p, v.session)
             /\ w.gates = v.gates /\ w.ended = v.ended
             /\ DOMAIN w.gatePhase = DOMAIN v.gatePhase
             /\ \A n \in DOMAIN v.gatePhase :
                  w.gatePhase[n] = IF n = id THEN p ELSE v.gatePhase[n]
<1>1. v.gatePhase \in Seq(Both) /\ v.session \in Nat /\ v.claimedTest \subseteq Nat
  BY DEF Views
<1> DEFINE kept == IF id \in DOMAIN v.gatePhase THEN [v.gatePhase EXCEPT ![id] = p] ELSE v.gatePhase
           tested == IF p = "test" THEN v.claimedTest \cup {v.session} ELSE v.claimedTest
           says == [v.claims EXCEPT ![p] = said]
<1>2. kept \in Seq(Both) /\ DOMAIN kept = DOMAIN v.gatePhase
  BY <1>1
<1>3. \A n \in DOMAIN v.gatePhase : kept[n] = IF n = id THEN p ELSE v.gatePhase[n]
  BY <1>1
<1>4. tested \in SUBSET Nat
  BY <1>1
<1>5. says \in [Both -> {"unsaid", "done", "not_done"}]
  BY DEF Views
<1>6. Claim(v, p, said, id) = [v EXCEPT !.claims = says, !.claimedTest = tested, !.gatePhase = kept]
  BY DEF Claim, Views
<1> HIDE DEF kept, tested, says
<1>7. LET x == [v EXCEPT !.claims = says, !.claimedTest = tested, !.gatePhase = kept]
      IN  /\ x \in Views
          /\ x.timeline = v.timeline /\ x.session = v.session /\ x.resumed = v.resumed
          /\ x.claimedTest = tested /\ x.gates = v.gates /\ x.ended = v.ended
          /\ x.gatePhase = kept
  BY <1>2, <1>4, <1>5 DEF Views
<1> QED
  BY <1>2, <1>3, <1>6, <1>7 DEF tested, Tested

\* A gate's first result, and a later one.
LEMMA GateFacts ==
  ASSUME NEW v \in Views, NEW result \in {"pending", "passed", "failed"}, NEW id \in Nat \ {0},
         Len(v.gates) = Len(v.gatePhase), id <= Len(v.gates) + 1
  PROVE  LET w == GateResult(v, id, result)
         IN  /\ w \in Views
             /\ w.timeline = v.timeline /\ w.session = v.session /\ w.resumed = v.resumed
             /\ w.claimedTest = v.claimedTest /\ w.ended = v.ended
             /\ Len(w.gates) = Len(w.gatePhase)
             /\ id \in DOMAIN v.gates => /\ w.gatePhase = v.gatePhase
                                         /\ Len(w.gates) = Len(v.gates)
             /\ id \notin DOMAIN v.gates => /\ Len(w.gates) = id
                                            /\ w.gatePhase = Append(v.gatePhase, PhaseOf(v, v.session))
<1>1. /\ v.gates \in Seq({"pending", "passed", "failed"}) /\ v.gatePhase \in Seq(Both)
      /\ v.session \in Nat
  BY DEF Views
<1>2. PhaseOf(v, v.session) \in Both
  BY <1>1, PhaseOfType
<1>3. CASE id \in DOMAIN v.gates
  <2> DEFINE gates == [v.gates EXCEPT ![id] = result]
  <2>1. gates \in Seq({"pending", "passed", "failed"}) /\ Len(gates) = Len(v.gates)
    BY <1>1, <1>3
  <2>2. GateResult(v, id, result) = [v EXCEPT !.gates = gates]
    BY <1>3 DEF GateResult, Views
  <2> HIDE DEF gates
  <2> QED
    BY <1>3, <2>1, <2>2 DEF Views
<1>4. CASE id \notin DOMAIN v.gates
  <2> DEFINE gates == Append(v.gates, result)
             phases == Append(v.gatePhase, PhaseOf(v, v.session))
  <2>1. gates \in Seq({"pending", "passed", "failed"}) /\ Len(gates) = Len(v.gates) + 1
    BY <1>1
  <2>2. phases \in Seq(Both) /\ Len(phases) = Len(v.gatePhase) + 1
    BY <1>1, <1>2
  <2>3. id = Len(v.gates) + 1
    BY <1>1, <1>4
  <2>4. GateResult(v, id, result) = [v EXCEPT !.gates = gates, !.gatePhase = phases]
    BY <1>4 DEF GateResult, Views
  <2>5. phases = Append(v.gatePhase, PhaseOf(v, v.session))
    OBVIOUS
  <2> HIDE DEF gates, phases
  <2> QED
    BY <1>4, <2>1, <2>2, <2>3, <2>4, <2>5 DEF Views
<1> QED
  BY <1>3, <1>4

LEMMA OtherFacts ==
  ASSUME NEW v \in Views
  PROVE  /\ RunEnd(v) \in Views /\ PrimaryVerdict(v) \in Views /\ Verdict(v) \in Views
         /\ \A w \in {RunEnd(v), PrimaryVerdict(v), Verdict(v)} :
              /\ w.timeline = v.timeline /\ w.session = v.session /\ w.resumed = v.resumed
              /\ w.claimedTest = v.claimedTest
              /\ w.gates = v.gates /\ w.gatePhase = v.gatePhase
         /\ PrimaryVerdict(v).ended = v.ended /\ Verdict(v).ended = v.ended
<1> DEFINE Kept(w) == /\ w.timeline = v.timeline /\ w.session = v.session /\ w.resumed = v.resumed
                      /\ w.claimedTest = v.claimedTest
                      /\ w.gates = v.gates /\ w.gatePhase = v.gatePhase
<1>1. RunEnd(v) \in Views
  BY DEF Views, RunEnd
<1>2. PrimaryVerdict(v) \in Views
  BY DEF Views, PrimaryVerdict
<1>3. Verdict(v) \in Views
  BY DEF Views, Verdict
<1>4. Kept(RunEnd(v))
  BY DEF Views, RunEnd
<1>5. Kept(PrimaryVerdict(v)) /\ PrimaryVerdict(v).ended = v.ended
  BY DEF Views, PrimaryVerdict
<1>6. Kept(Verdict(v)) /\ Verdict(v).ended = v.ended
  BY DEF Views, Verdict
<1> QED
  BY <1>1, <1>2, <1>3, <1>4, <1>5, <1>6

\* The rank of a gate among the attempts of its phase tells it from the others.
LEMMA RanksDiffer ==
  ASSUME NEW A \in SUBSET Nat, IsFiniteSet(A), NEW g \in A, NEW k \in A, g < k
  PROVE  Nth(A, g) < Nth(A, k)
<1> DEFINE G == {n \in A : n <= g}
           K == {n \in A : n <= k}
<1>1. IsFiniteSet(K)
  BY FS_Subset
<1>2. G \subseteq K /\ k \in K /\ k \notin G
  <2>1. \A n \in A : n \in Nat
    OBVIOUS
  <2>2. g \in Nat /\ k \in Nat
    BY <2>1
  <2>3. k \in K /\ k \notin G
    BY <2>2
  <2>4. ASSUME NEW n \in A, n <= g PROVE n <= k
    BY <2>1, <2>2, <2>4
  <2>5. G \subseteq K
    BY <2>4
  <2> QED
    BY <2>3, <2>5
<1>3. IsFiniteSet(G)
  BY <1>1, <1>2, FS_Subset
<1>4. Cardinality(G) \in Nat /\ Cardinality(K) \in Nat
  BY <1>1, <1>3, FS_CardinalityType
<1>5. Cardinality(G) <= Cardinality(K)
  BY <1>1, <1>2, FS_Subset
<1>6. Cardinality(G) # Cardinality(K)
  BY <1>1, <1>2, FS_Subset
<1> QED
  BY <1>4, <1>5, <1>6 DEF Nth

\* A view with a phase for each gate shows one refusal for each gate that failed.
LEMMA RefusalPerGate ==
  ASSUME NEW v \in Views, Len(v.gates) = Len(v.gatePhase)
  PROVE  Cardinality(GateRefusals(v)) = Cardinality(FailedGates(v))
<1>1. /\ v.gates \in Seq({"pending", "passed", "failed"}) /\ v.gatePhase \in Seq(Both)
      /\ DOMAIN v.gates = 1..Len(v.gates) /\ Len(v.gates) \in Nat
  BY DEF Views
<1>2. IsFiniteSet(DOMAIN v.gates)
  BY <1>1, FS_Interval
<1>3. IsFiniteSet(FailedGates(v))
  BY <1>2, FS_Subset DEF FailedGates
<1> DEFINE f == [g \in FailedGates(v) |-> Refusal(v, g)]
<1>4. f \in Surjection(FailedGates(v), GateRefusals(v))
  BY DEF Surjection, GateRefusals
<1>5. ASSUME NEW g \in FailedGates(v), NEW k \in FailedGates(v), Refusal(v, g) = Refusal(v, k), g < k
      PROVE  FALSE
  <2> DEFINE A == Attempts(v, v.gatePhase[g])
  <2>1. v.gatePhase[g] = v.gatePhase[k]
    BY <1>5 DEF Refusal
  <2>2. Nth(A, g) = Nth(A, k)
    BY <1>5, <2>1 DEF Refusal
  <2>3. A \subseteq DOMAIN v.gates /\ A \in SUBSET Nat
    BY <1>1 DEF Attempts
  <2>4. IsFiniteSet(A)
    BY <1>2, <2>3, FS_Subset
  <2>5. g \in A /\ k \in A
    BY <2>1 DEF Attempts, FailedGates
  <2> HIDE DEF A
  <2>6. Nth(A, g) < Nth(A, k)
    BY <1>5, <2>3, <2>4, <2>5, RanksDiffer
  <2>7. Nth(A, g) \in Nat
    BY <2>4, FS_Subset, FS_CardinalityType DEF Nth
  <2> QED
    BY <2>2, <2>6, <2>7
<1>6. \A g \in FailedGates(v) : g \in Nat
  BY <1>1 DEF FailedGates
<1>7. ASSUME NEW g \in FailedGates(v), NEW k \in FailedGates(v), Refusal(v, g) = Refusal(v, k)
      PROVE  g = k
  <2>1. g < k \/ k < g \/ g = k
    BY <1>6
  <2> QED
    BY <1>5, <1>7, <2>1
<1>8. f \in Injection(FailedGates(v), GateRefusals(v))
  <2>1. f \in [FailedGates(v) -> GateRefusals(v)]
    BY DEF GateRefusals
  <2>2. \A g, k \in FailedGates(v) : f[g] = f[k] => g = k
    BY <1>7
  <2> HIDE DEF f
  <2> QED
    BY <2>1, <2>2 DEF Injection, IsInjective
<1>9. f \in Bijection(FailedGates(v), GateRefusals(v))
  BY <1>4, <1>8 DEF Bijection
<1>10. ExistsBijection(FailedGates(v), GateRefusals(v))
  BY <1>9 DEF ExistsBijection
<1> QED
  BY <1>3, <1>10, FS_Bijection

-----------------------------------------------------------------------------
(* The steps of the run.                                                     *)

LEMMA InitVInv == ViewInit => VInv
<1> SUFFICES ASSUME ViewInit PROVE VInv
  OBVIOUS
<1>1. ViewType
  <2>1. Fresh \in Views
    <3> DEFINE claims == [p \in {"build", "test"} |-> "unsaid"]
    <3>1. claims \in [Both -> {"unsaid", "done", "not_done"}]
      BY DEF Both
    <3>2. Fresh.claims = claims
      BY DEF Fresh
    <3> HIDE DEF claims
    <3> QED
      BY <3>1, <3>2 DEF Fresh, Views
  <2>2. view \in Views
    BY <2>1 DEF ViewInit, RunStart, Views
  <2> QED
    BY <2>2 DEF ViewInit, ViewType
<1>2. view.timeline = <<>> /\ view.resumed = {} /\ view.claimedTest = {} /\ view.ended = FALSE
      /\ view.gates = <<>> /\ view.gatePhase = <<>>
  BY DEF ViewInit, RunStart, Fresh
<1>3. pc = "prepare" /\ index = 0 /\ phase = 1 /\ sessions = <<>> /\ gated = <<>>
  BY DEF ViewInit, Init
<1>4. Position
  BY <1>3 DEF Position, Open, InPhase, InSession
<1>5. Told
  BY <1>2, <1>3 DEF Told, Open, InSession
<1>6. ClosedShown
  BY <1>3 DEF ClosedShown
<1>7. GatesShown
  BY <1>2, <1>3 DEF GatesShown
<1> QED
  BY <1>1, <1>2, <1>4, <1>5, <1>6, <1>7 DEF VInv

\* Every step of the view is a step of the loop, or leaves the loop alone.
LEMMA ViewStep == [ViewNext]_viewVars => [Next]_vars
<1> SUFFICES ASSUME [ViewNext]_viewVars PROVE [Next]_vars
  OBVIOUS
<1>1. CASE UNCHANGED viewVars
  BY <1>1 DEF viewVars
<1>2. CASE \E h \in Outcomes : (Prepare(h) \/ CheckTool(h) \/ PhaseEnd(h)) /\ Silent
  BY <1>2 DEF Next
<1>3. CASE \E h \in Outcomes : SessionEnds(h)
  BY <1>3 DEF Next, SessionEnds
<1>4. CASE \E h \in Outcomes, passes \in BOOLEAN : Gates(h, passes)
  BY <1>4 DEF Next, Gates
<1>5. CASE (StartPhase \/ EndTurns \/ CallModel \/ ModelFails \/ SkipCall \/ RunTool \/ EndCalls
            \/ InternalError) /\ Silent
  BY <1>5 DEF Next
<1>6. CASE SessionStarts \/ TurnTaken \/ Claims \/ RunEnds
  BY <1>6 DEF Next, SessionStarts, TurnTaken, Claims, RunEnds
<1>7. CASE Judges
  BY <1>7 DEF Judges
<1> QED
  BY <1>1, <1>2, <1>3, <1>4, <1>5, <1>6, <1>7 DEF ViewNext

\* The phases are the build, and the test with its one session.
LEMMA PhaseFacts ==
  /\ Len(Phases) \in {1, 2} /\ Phases[1] = "build" /\ (Len(Phases) = 2 => Phases[2] = "test")
  /\ TypeOK /\ InRange /\ pc \in InPhase =>
       /\ phase \in {1, 2}
       /\ ThisPhase = IF phase = 1 THEN "build" ELSE "test"
       /\ phase = 2 => Len(SessionBudgets) = 1
<1>1. Len(Phases) \in {1, 2} /\ Phases[1] = "build" /\ (Len(Phases) = 2 => Phases[2] = "test")
  BY ViewAssumption
<1>2. ASSUME TypeOK, InRange, pc \in InPhase
      PROVE  /\ phase \in {1, 2}
             /\ ThisPhase = IF phase = 1 THEN "build" ELSE "test"
             /\ phase = 2 => Len(SessionBudgets) = 1
  <2>1. phase \in Nat /\ 1 <= phase /\ phase <= Len(Phases)
    BY <1>1, <1>2 DEF TypeOK, InRange
  <2>2. phase \in {1, 2} /\ (phase = 2 => Len(Phases) = 2)
    BY <1>1, <2>1
  <2>3. ThisPhase = IF phase = 1 THEN "build" ELSE "test"
    BY <1>1, <2>2 DEF ThisPhase
  <2> QED
    BY <2>2, <2>3, ViewAssumption DEF SessionBudgets
<1> QED
  BY <1>1, <1>2

\* What a step of the loop that publishes nothing may do.
Quiet ==
  /\ pc # "done"
  /\ pc' \in Open => pc \in Open /\ turns' = turns /\ phase' = phase
  /\ pc' \in {"calls", "check", "gate"} => pc \in {"calls", "check", "gate"}
  /\ phase' = 1 => phase = 1

LEMMA QuietKeeps == ASSUME VInv, Quiet, Silent, Position' PROVE VInv'
<1> USE DEF VInv, Quiet, Silent
<1>1. ViewType' /\ GatesShown' /\ (view.ended => pc = "done")'
  BY DEF ViewType, GatesShown
<1>2. Told'
  BY DEF Told, PhaseOf, TurnsOf, Turns, ThisPhase
<1>3. ClosedShown'
  BY DEF ClosedShown, PhaseOf, TurnsOf, Turns
<1> QED
  BY <1>1, <1>2, <1>3

LEMMA SilentStep ==
  ASSUME IInv, VInv, Silent,
         \/ \E h \in Outcomes : Prepare(h) \/ CheckTool(h) \/ PhaseEnd(h)
         \/ StartPhase \/ EndTurns \/ CallModel \/ ModelFails \/ SkipCall \/ RunTool \/ EndCalls
         \/ InternalError
  PROVE  VInv'
<1> SUFFICES Quiet /\ Position'
  BY QuietKeeps
<1>1. TypeOK /\ InRange /\ Position
  BY DEF IInv, VInv
<1>2. phase \in Nat \ {0}
  BY <1>1, PhasesLen DEF TypeOK
<1> USE <1>1, <1>2 DEF Quiet, Position, Silent, Open, InPhase, InSession, place
<1>3. ASSUME NEW h \in Outcomes, Prepare(h) PROVE Quiet /\ Position'
  BY <1>3 DEF Prepare, Then
<1>4. ASSUME NEW h \in Outcomes, CheckTool(h) PROVE Quiet /\ Position'
  BY <1>4 DEF CheckTool, Then
<1>5. ASSUME NEW h \in Outcomes, PhaseEnd(h) PROVE Quiet /\ Position'
  BY <1>5 DEF PhaseEnd, Then
<1>6. ASSUME StartPhase PROVE Quiet /\ Position'
  BY <1>6 DEF StartPhase
<1>7. ASSUME EndTurns PROVE Quiet /\ Position'
  BY <1>7 DEF EndTurns, EndSession
<1>8. ASSUME CallModel PROVE Quiet /\ Position'
  BY <1>8 DEF CallModel
<1>9. ASSUME ModelFails PROVE Quiet /\ Position'
  BY <1>9 DEF ModelFails, EndSession
<1>10. ASSUME SkipCall PROVE Quiet /\ Position'
  BY <1>10 DEF SkipCall
<1>11. ASSUME RunTool PROVE Quiet /\ Position'
  BY <1>11 DEF RunTool
<1>12. ASSUME EndCalls PROVE Quiet /\ Position'
  BY <1>12 DEF EndCalls, EndSession
<1>13. ASSUME InternalError PROVE Quiet /\ Position'
  BY <1>13 DEF InternalError
<1> QED
  BY <1>3, <1>4, <1>5, <1>6, <1>7, <1>8, <1>9, <1>10, <1>11, <1>12, <1>13

LEMMA StartsStep == ASSUME IInv, VInv, SessionStarts PROVE VInv'
<1> DEFINE i == index + 1
<1>1. /\ view \in Views /\ index \in Nat /\ i \in Nat /\ Position /\ Told /\ ClosedShown /\ GatesShown
      /\ (view.ended => pc = "done") /\ TypeOK /\ InRange
  BY DEF VInv, ViewType, IInv
<1>2. /\ pc = "session" /\ pc' = "turn" /\ turns' = 0 /\ phase' = phase /\ position' = position
      /\ index' = i /\ sessions' = sessions /\ gated' = gated
      /\ view' = IF position > 1 THEN SessionResume(view, i) ELSE view
  BY DEF SessionStarts, StartSession, place
<1>3. /\ phase \in {1, 2} /\ ThisPhase' = ThisPhase
      /\ ThisPhase = IF phase = 1 THEN "build" ELSE "test"
  BY <1>1, <1>2, PhaseFacts DEF InPhase, ThisPhase
<1>4. position \in Nat \ {0}
  BY <1>1 DEF TypeOK
<1>5. /\ view' \in Views
      /\ view'.resumed = IF position > 1 THEN view.resumed \cup {i} ELSE view.resumed
      /\ view'.claimedTest = view.claimedTest /\ view'.ended = view.ended
      /\ view'.gates = view.gates /\ view'.gatePhase = view.gatePhase
  BY <1>1, <1>2, ResumeFacts
<1>6. /\ \A n \in DOMAIN view'.timeline : view'.timeline[n].session <= i
      /\ \A j \in Nat : TurnsOf(view', j) = TurnsOf(view, j)
  <2>1. \A n \in DOMAIN view.timeline : view.timeline[n].session <= i
    BY <1>1, RowSession DEF Told
  <2>2. CASE position > 1
    <3> DEFINE row == [kind |-> "session_resume", session |-> i]
    <3>1. row \in Rows /\ view'.timeline = Append(view.timeline, row)
      BY <1>1, <1>2, <2>2, ResumeFacts DEF Rows
    <3>2. row.kind # "turn" /\ row.session = i
      OBVIOUS
    <3> HIDE DEF row
    <3> QED
      BY <1>1, <1>5, <2>1, <3>1, <3>2, NewRow
  <2>3. CASE ~(position > 1)
    BY <1>2, <2>1, <2>3
  <2> QED
    BY <2>2, <2>3
<1>7. ViewType'
  BY <1>1, <1>2, <1>5 DEF VInv, ViewType
<1>8. Position'
  BY <1>1, <1>2, <1>3 DEF Position, InPhase, InSession, Open
<1>9. GatesShown' /\ (view.ended => pc = "done")'
  BY <1>1, <1>2, <1>5 DEF GatesShown
<1>10. ASSUME NEW j \in Nat, j < i
       PROVE  PhaseOf(view', j) = PhaseOf(view, j)
  BY <1>5, <1>10 DEF PhaseOf
<1>11. ClosedShown'
  <2> SUFFICES ASSUME NEW n \in DOMAIN sessions
               PROVE  LET s == sessions[n]
                      IN  /\ s.index <= i /\ s.index < i
                          /\ PhaseOf(view', s.index) = s.phase
                          /\ Cardinality(TurnsOf(view', s.index)) = s.turns
    BY <1>2 DEF ClosedShown
  <2>1. sessions[n].index \in Nat
    BY SessionTypes DEF VInv
  <2>2. sessions[n].index < i
    BY <1>1, <2>1 DEF ClosedShown
  <2> QED
    BY <1>1, <1>6, <1>10, <2>1, <2>2 DEF ClosedShown
<1>12. PhaseOf(view', i) = ThisPhase
  <2>1. CASE phase = 1 /\ position > 1
    BY <1>1, <1>3, <1>5, <2>1 DEF PhaseOf, Told
  <2>2. CASE phase = 1 /\ position = 1
    BY <1>1, <1>2, <1>3, <1>5, <2>2 DEF PhaseOf, Told, Position
  <2>3. CASE phase = 2
    <3>1. position = 1 /\ index >= 1
      BY <1>1, <1>2, <2>3 DEF Position, InPhase
    <3>2. i # 1 /\ i \notin view.resumed
      BY <1>1, <3>1 DEF Told
    <3> QED
      BY <1>3, <1>5, <2>3, <3>1, <3>2 DEF PhaseOf
  <2> QED
    BY <1>3, <1>4, <2>1, <2>2, <2>3
<1>13. Cardinality(TurnsOf(view', i)) = 0
  <2>1. \A n \in DOMAIN view.timeline : view.timeline[n].session # i
    BY <1>1, RowSession DEF Told
  <2>2. TurnsOf(view, i) = {}
    BY <2>1 DEF TurnsOf, Turns
  <2> QED
    BY <1>1, <1>6, <2>2, FS_EmptySet
<1>14. Told'
  <2>1. \A j \in view'.resumed : 2 <= j /\ j <= i
    <3>1. \A j \in view.resumed : j \in Nat /\ 2 <= j /\ j <= i
      BY <1>1 DEF Told, Views
    <3>2. position > 1 => i >= 2
      BY <1>1, <1>2, <1>3 DEF Position, InPhase
    <3> QED
      BY <1>1, <1>5, <3>1, <3>2
  <2>2. phase' = 1 => view'.claimedTest = {}
    BY <1>1, <1>2, <1>5 DEF Told
  <2>3. pc' \notin {"calls", "check", "gate"}
    BY <1>2
  <2>4. PhaseOf(view', index') = ThisPhase' /\ Cardinality(TurnsOf(view', index')) = turns'
    BY <1>2, <1>3, <1>12, <1>13
  <2> QED
    BY <1>2, <1>6, <2>1, <2>2, <2>3, <2>4 DEF Told
<1> QED
  BY <1>7, <1>8, <1>9, <1>11, <1>14 DEF VInv

LEMMA TurnStep == ASSUME IInv, VInv, TurnTaken PROVE VInv'
<1>1. /\ view \in Views /\ index \in Nat /\ Position /\ Told /\ ClosedShown /\ GatesShown
      /\ (view.ended => pc = "done") /\ TypeOK /\ InRange
  BY DEF VInv, ViewType, IInv
<1>2. /\ pc = "model" /\ pc' \in {"sessionEnd", "turn", "calls"} /\ turns' = turns + 1
      /\ phase' = phase /\ position' = position
      /\ index' = index /\ sessions' = sessions /\ gated' = gated /\ view' = Turn(view, index)
  BY DEF TurnTaken, AnswerPassesCap, Answer, EndSession, Shows, place
<1> DEFINE row == [kind |-> "turn", session |-> index]
<1>3. /\ view' \in Views /\ view'.timeline = Append(view.timeline, row)
      /\ view'.session = index
      /\ view'.resumed = view.resumed /\ view'.claimedTest = view.claimedTest
      /\ view'.gates = view.gates /\ view'.gatePhase = view.gatePhase /\ view'.ended = view.ended
  BY <1>1, <1>2, TurnFacts
<1>4. row \in Rows /\ row.kind = "turn" /\ row.session = index
  BY <1>1 DEF Rows
<1> HIDE DEF row
<1>5. /\ \A j \in Nat : j # index => TurnsOf(view', j) = TurnsOf(view, j)
      /\ Cardinality(TurnsOf(view', index)) = Cardinality(TurnsOf(view, index)) + 1
      /\ \A n \in DOMAIN view'.timeline : view'.timeline[n].session <= index
  <2>1. \A n \in DOMAIN view.timeline : view.timeline[n].session <= index
    BY <1>1 DEF Told
  <2> QED
    BY <1>1, <1>3, <1>4, <2>1, NewRow
<1>6. \A j \in Nat : PhaseOf(view', j) = PhaseOf(view, j)
  BY <1>3 DEF PhaseOf
<1>7. ViewType'
  BY <1>1, <1>2, <1>3 DEF VInv, ViewType
<1>8. Position'
  BY <1>1, <1>2 DEF Position, InPhase, InSession, Open
<1>9. GatesShown' /\ (view.ended => pc = "done")'
  BY <1>1, <1>2, <1>3 DEF GatesShown
<1>10. ClosedShown'
  <2> SUFFICES ASSUME NEW n \in DOMAIN sessions
               PROVE  LET s == sessions[n]
                      IN  /\ s.index <= index /\ s.index < index
                          /\ PhaseOf(view', s.index) = s.phase
                          /\ Cardinality(TurnsOf(view', s.index)) = s.turns
    BY <1>2 DEF ClosedShown
  <2>1. sessions[n].index \in Nat
    BY SessionTypes DEF VInv
  <2>2. sessions[n].index < index
    BY <1>1, <1>2 DEF ClosedShown, Open, InSession
  <2> QED
    BY <1>1, <1>5, <1>6, <2>1, <2>2 DEF ClosedShown
<1>11. Told'
  <2>1. PhaseOf(view, index) = ThisPhase /\ Cardinality(TurnsOf(view, index)) = turns
    BY <1>1, <1>2 DEF Told, Open, InSession
  <2>2. PhaseOf(view', index') = ThisPhase' /\ Cardinality(TurnsOf(view', index')) = turns'
    BY <1>1, <1>2, <1>5, <1>6, <2>1 DEF ThisPhase
  <2> QED
    BY <1>1, <1>2, <1>3, <1>5, <2>2 DEF Told
<1> QED
  BY <1>7, <1>8, <1>9, <1>10, <1>11 DEF VInv

\* A claim of the phase under way tells nothing new of its sessions' phases.
LEMMA ClaimKeepsPhases ==
  ASSUME IInv, VInv, NEW v \in Views, NEW said \in {"done", "not_done"}, NEW id \in Nat,
         pc \in {"calls", "gate"},
         v.session = view.session, v.timeline = view.timeline,
         v.resumed = view.resumed, v.claimedTest = view.claimedTest
  PROVE  LET w == Claim(v, ThisPhase, said, id)
         IN  /\ ThisPhase \in Both /\ w \in Views
             /\ PhaseOf(w, index) = ThisPhase
             /\ \A j \in Nat : j < index => PhaseOf(w, j) = PhaseOf(view, j)
             /\ w.session = view.session /\ w.timeline = view.timeline /\ w.resumed = view.resumed
             /\ phase = 1 => w.claimedTest = {}
<1>1. /\ view \in Views /\ index \in Nat /\ Told /\ TypeOK /\ InRange
  BY DEF VInv, ViewType, IInv
<1>2. /\ phase \in {1, 2} /\ ThisPhase = IF phase = 1 THEN "build" ELSE "test"
  BY <1>1, PhaseFacts DEF InPhase, InSession
<1>3. ThisPhase \in Both
  BY <1>2 DEF Both
<1>4. view.session = index /\ PhaseOf(view, index) = ThisPhase /\ (phase = 1 => view.claimedTest = {})
  BY <1>1 DEF Told, Open, InSession
<1> DEFINE w == Claim(v, ThisPhase, said, id)
<1>5. /\ w \in Views
      /\ w.timeline = v.timeline /\ w.session = v.session /\ w.resumed = v.resumed
      /\ w.claimedTest = v.claimedTest \cup Tested(ThisPhase, v.session)
      /\ w.gates = v.gates /\ w.ended = v.ended
      /\ DOMAIN w.gatePhase = DOMAIN v.gatePhase
      /\ \A n \in DOMAIN v.gatePhase :
           w.gatePhase[n] = IF n = id THEN ThisPhase ELSE v.gatePhase[n]
  BY <1>3, ClaimFacts
<1> HIDE DEF w
<1>6. phase = 1 => w.claimedTest = {}
  BY <1>2, <1>4, <1>5 DEF Tested
<1>7. \A j \in Nat : j < index => PhaseOf(w, j) = PhaseOf(view, j)
  BY <1>1, <1>4, <1>5 DEF PhaseOf, Tested
<1>8. PhaseOf(w, index) = ThisPhase
  BY <1>2, <1>4, <1>5 DEF PhaseOf, Tested
<1> QED
  BY <1>3, <1>5, <1>6, <1>7, <1>8 DEF w

\* What a step that may claim, and adds no row, does.
LEMMA SameRows ==
  ASSUME IInv, VInv, pc \in InSession, view' \in Views, view'.timeline = view.timeline,
         view'.resumed = view.resumed, view'.session = view.session, ~view'.ended,
         index' = index, sessions' = sessions, turns' = turns, phase' = phase, position' = position,
         phase = 1 => view'.claimedTest = {},
         pc' \in Open => PhaseOf(view', index) = ThisPhase,
         \A j \in Nat : j < index => PhaseOf(view', j) = PhaseOf(view, j),
         pc \in {"calls", "check", "gate"}, pc' \in Open \cup {"diff"}, GatesShown'
  PROVE  VInv'
<1>1. /\ view \in Views /\ index \in Nat /\ Position /\ Told /\ ClosedShown /\ GatesShown
      /\ TypeOK /\ InRange
  BY DEF VInv, ViewType, IInv
<1>2. \A j \in Nat : TurnsOf(view', j) = TurnsOf(view, j)
  BY DEF TurnsOf, Turns
<1>3. ViewType'
  BY <1>1 DEF VInv, ViewType
<1>4. Position'
  BY <1>1 DEF Position, InPhase, InSession, Open
<1>5. ClosedShown'
  <2> SUFFICES ASSUME NEW n \in DOMAIN sessions
               PROVE  LET s == sessions[n]
                      IN  /\ s.index <= index /\ s.index < index
                          /\ PhaseOf(view', s.index) = s.phase
                          /\ Cardinality(TurnsOf(view', s.index)) = s.turns
    BY DEF ClosedShown
  <2>1. sessions[n].index \in Nat
    BY SessionTypes DEF VInv
  <2>2. sessions[n].index < index
    BY <1>1 DEF ClosedShown, Open, InSession
  <2> QED
    BY <1>1, <1>2, <2>1, <2>2 DEF ClosedShown
<1>6. Told'
  <2>1. Cardinality(TurnsOf(view', index')) = turns'
    BY <1>1, <1>2 DEF Told, Open, InSession
  <2>2. pc' \in Open => PhaseOf(view', index') = ThisPhase'
    BY DEF ThisPhase
  <2> QED
    BY <1>1, <2>1, <2>2 DEF Told
<1> QED
  BY <1>3, <1>4, <1>5, <1>6 DEF VInv

LEMMA ClaimsStep == ASSUME IInv, VInv, Claims PROVE VInv'
<1>1. /\ view \in Views /\ index \in Nat /\ Position /\ Told /\ ClosedShown /\ GatesShown
      /\ (view.ended => pc = "done") /\ TypeOK /\ InRange
  BY DEF VInv, ViewType, IInv
<1>2. /\ pc = "calls" /\ pc' \in {"gate", "calls"} /\ turns' = turns
      /\ phase' = phase /\ position' = position /\ Finish
  BY DEF Claims, Finish, place
<1>3. ~view.ended
  BY <1>1, <1>2
<1>4. CASE Silent
  <2>1. Quiet
    BY <1>2 DEF Quiet, Open, InSession
  <2>2. Position'
    BY <1>1, <1>2, <1>4 DEF Position, Silent, InPhase, InSession, Open
  <2> QED
    BY <1>4, <2>1, <2>2, QuietKeeps
<1>5. CASE Shows(Claim(view, ThisPhase, "not_done", 0))
  <2> DEFINE w == Claim(view, ThisPhase, "not_done", 0)
  <2>1. view' = w /\ UNCHANGED <<index, sessions, gated>>
    BY <1>5 DEF Shows
  <2>2. /\ ThisPhase \in Both /\ w \in Views
        /\ PhaseOf(w, index) = ThisPhase
        /\ \A j \in Nat : j < index => PhaseOf(w, j) = PhaseOf(view, j)
        /\ w.session = view.session /\ w.timeline = view.timeline /\ w.resumed = view.resumed
        /\ phase = 1 => w.claimedTest = {}
    BY <1>1, <1>2, ClaimKeepsPhases
  <2>3. /\ w \in Views
        /\ w.timeline = view.timeline /\ w.session = view.session /\ w.resumed = view.resumed
        /\ w.claimedTest = view.claimedTest \cup Tested(ThisPhase, view.session)
        /\ w.gates = view.gates /\ w.ended = view.ended
        /\ DOMAIN w.gatePhase = DOMAIN view.gatePhase
        /\ \A n \in DOMAIN view.gatePhase :
             w.gatePhase[n] = IF n = 0 THEN ThisPhase ELSE view.gatePhase[n]
    BY <1>1, <2>2, ClaimFacts
  <2> HIDE DEF w
  <2>4. view.gatePhase \in Seq(Both) /\ w.gatePhase \in Seq(Both)
    BY <1>1, <2>2 DEF Views
  <2>5. w.gatePhase = view.gatePhase
    BY <2>3, <2>4
  <2>6. GatesShown'
    BY <1>1, <2>1, <2>3, <2>5 DEF GatesShown
  <2> QED
    BY <1>2, <1>3, <2>1, <2>2, <2>3, <2>6, SameRows DEF Open, InSession
<1> QED
  BY <1>4, <1>5 DEF Claims

LEMMA GatesStep ==
  ASSUME IInv, VInv, NEW h \in Outcomes, NEW passes \in BOOLEAN, Gates(h, passes)
  PROVE  VInv'
<1> DEFINE id == Len(view.gates) + 1
           begun == GateResult(view, id, "pending")
           result == IF passes THEN "passed" ELSE "failed"
           judged == GateResult(begun, id, result)
           said == Claim(judged, ThisPhase, "done", id)
           shown == Append(view.gatePhase, ThisPhase)
<1>1. /\ view \in Views /\ index \in Nat /\ Position /\ Told /\ ClosedShown /\ GatesShown
      /\ (view.ended => pc = "done") /\ TypeOK /\ InRange
  BY DEF VInv, ViewType, IInv
<1>2. /\ pc = "gate" /\ pc' \in {"calls", "diff"} /\ turns' = turns
      /\ phase' = phase /\ position' = position /\ index' = index /\ sessions' = sessions
  BY DEF Gates, Gate, Then, place
<1>3. view' \in {view, begun, judged, said}
  BY DEF Gates
<1>4. gated' = IF Len(view'.gates) = id THEN Append(gated, ThisPhase) ELSE gated
  BY DEF Gates
<1>5. ~view.ended /\ view.session = index /\ PhaseOf(view, index) = ThisPhase
      /\ (phase = 1 => view.claimedTest = {})
  BY <1>1, <1>2 DEF Told, Open, InSession
<1>6. /\ view.gates \in Seq({"pending", "passed", "failed"}) /\ view.gatePhase \in Seq(Both)
      /\ Len(view.gates) = Len(view.gatePhase) /\ gated = view.gatePhase
      /\ id \in Nat \ {0} /\ id <= Len(view.gates) + 1 /\ id \notin DOMAIN view.gates
      /\ Len(view.gates) # id
  BY <1>1 DEF Views, GatesShown
<1>7. "pending" \in {"pending", "passed", "failed"} /\ result \in {"pending", "passed", "failed"}
  OBVIOUS
<1> HIDE DEF id, begun, result, judged, said
<1>8. /\ begun \in Views
      /\ begun.timeline = view.timeline /\ begun.session = view.session
      /\ begun.resumed = view.resumed
      /\ begun.claimedTest = view.claimedTest /\ begun.ended = view.ended
      /\ Len(begun.gates) = Len(begun.gatePhase)
      /\ Len(begun.gates) = id /\ begun.gatePhase = shown
  BY <1>1, <1>5, <1>6, <1>7, GateFacts DEF begun
<1>9. id \in DOMAIN begun.gates /\ id <= Len(begun.gates) + 1
  <2>1. begun.gates \in Seq({"pending", "passed", "failed"})
    BY <1>8 DEF Views
  <2> QED
    BY <1>6, <1>8, <2>1
<1>10. /\ judged \in Views
       /\ judged.timeline = view.timeline /\ judged.session = view.session
       /\ judged.resumed = view.resumed
       /\ judged.claimedTest = view.claimedTest /\ judged.ended = view.ended
       /\ Len(judged.gates) = id /\ Len(judged.gatePhase) = id /\ judged.gatePhase = shown
  <2>1. /\ judged \in Views
        /\ judged.timeline = begun.timeline /\ judged.session = begun.session
        /\ judged.resumed = begun.resumed
        /\ judged.claimedTest = begun.claimedTest /\ judged.ended = begun.ended
        /\ judged.gatePhase = begun.gatePhase /\ Len(judged.gates) = Len(begun.gates)
    BY <1>6, <1>7, <1>8, <1>9, GateFacts DEF judged
  <2> QED
    BY <1>8, <2>1
<1>11. /\ ThisPhase \in Both /\ said \in Views
       /\ PhaseOf(said, index) = ThisPhase
       /\ \A j \in Nat : j < index => PhaseOf(said, j) = PhaseOf(view, j)
       /\ said.session = view.session /\ said.timeline = view.timeline
       /\ said.resumed = view.resumed
       /\ phase = 1 => said.claimedTest = {}
  BY <1>1, <1>2, <1>6, <1>10, ClaimKeepsPhases DEF said
<1>12. /\ said.gates = judged.gates /\ said.ended = judged.ended
       /\ DOMAIN said.gatePhase = DOMAIN judged.gatePhase
       /\ \A n \in DOMAIN judged.gatePhase :
            said.gatePhase[n] = IF n = id THEN ThisPhase ELSE judged.gatePhase[n]
  BY <1>10, <1>11, ClaimFacts DEF said
<1>13. said.gatePhase = shown
  <2>1. shown \in Seq(Both) /\ Len(shown) = id /\ shown[id] = ThisPhase
    BY <1>6, <1>11 DEF id
  <2>2. said.gatePhase \in Seq(Both)
    BY <1>11 DEF Views
  <2> HIDE DEF shown
  <2> QED
    BY <1>10, <1>12, <2>1, <2>2
<1>14. CASE view' = view
  <2>1. GatesShown'
    BY <1>1, <1>4, <1>6, <1>14 DEF GatesShown
  <2>2. \A j \in Nat : j < index => PhaseOf(view', j) = PhaseOf(view, j)
    BY <1>14
  <2> QED
    BY <1>1, <1>2, <1>5, <1>14, <2>1, <2>2, SameRows DEF Open, InSession
<1>15. CASE view' \in {begun, judged}
  <2>1. GatesShown'
    BY <1>4, <1>6, <1>8, <1>10, <1>15 DEF GatesShown
  <2>2. /\ \A j \in Nat : PhaseOf(view', j) = PhaseOf(view, j)
        /\ view' \in Views /\ view'.timeline = view.timeline /\ view'.session = view.session
        /\ view'.resumed = view.resumed /\ view'.claimedTest = view.claimedTest
        /\ ~view'.ended
    BY <1>5, <1>8, <1>10, <1>15 DEF PhaseOf
  <2> QED
    BY <1>1, <1>2, <1>5, <2>1, <2>2, SameRows DEF Open, InSession
<1>16. CASE view' = said
  <2>1. GatesShown'
    BY <1>4, <1>6, <1>10, <1>12, <1>13, <1>16 DEF GatesShown
  <2> QED
    BY <1>2, <1>5, <1>10, <1>11, <1>12, <1>16, <2>1, SameRows DEF Open, InSession
<1> QED
  BY <1>3, <1>14, <1>15, <1>16

LEMMA EndsStep == ASSUME IInv, VInv, NEW h \in Outcomes, SessionEnds(h) PROVE VInv'
<1>1. /\ view \in Views /\ index \in Nat /\ Position /\ Told /\ ClosedShown /\ GatesShown
      /\ (view.ended => pc = "done") /\ TypeOK /\ InRange
  BY DEF VInv, ViewType, IInv
<1>2. /\ pc = "sessionEnd" /\ pc' \in {"session", "phaseEnd", "diff"} /\ turns' = turns
      /\ phase' = phase /\ index' = index /\ gated' = gated
      /\ h.raises => pc' = "diff"
      /\ pc' = "session" => position < Len(SessionBudgets) /\ position' = position + 1
      /\ pc' # "session" => position' = position
  BY DEF SessionEnds, SessionEnd, Then
<1>3. /\ phase \in {1, 2} /\ ThisPhase = (IF phase = 1 THEN "build" ELSE "test")
      /\ (phase = 2 => Len(SessionBudgets) = 1)
  BY <1>1, <1>2, PhaseFacts DEF InPhase
<1>4. index >= 1 /\ PhaseOf(view, index) = ThisPhase /\ Cardinality(TurnsOf(view, index)) = turns
      /\ turns \in Nat /\ position \in Nat \ {0} /\ ThisPhase \in Both
  BY <1>1, <1>2, <1>3 DEF Position, Told, TypeOK, Open, Both
<1> DEFINE row == [kind |-> "session_stop", session |-> index]
           closed == [index |-> index, phase |-> ThisPhase, turns |-> turns]
<1>5. /\ view' \in Views
      /\ view'.session = view.session
      /\ view'.resumed = view.resumed /\ view'.claimedTest = view.claimedTest
      /\ view'.gates = view.gates /\ view'.gatePhase = view.gatePhase /\ view'.ended = view.ended
      /\ view' = view \/ view'.timeline = Append(view.timeline, row)
  BY <1>1, StopFacts DEF SessionEnds
<1>6. /\ \A j \in Nat : TurnsOf(view', j) = TurnsOf(view, j)
      /\ \A n \in DOMAIN view'.timeline : view'.timeline[n].session <= index
  <2>1. row \in Rows /\ row.kind # "turn" /\ row.session = index
    BY <1>1 DEF Rows
  <2>2. \A n \in DOMAIN view.timeline : view.timeline[n].session <= index
    BY <1>1 DEF Told
  <2> HIDE DEF row
  <2>3. CASE view' = view
    BY <2>2, <2>3
  <2>4. CASE view'.timeline = Append(view.timeline, row)
    BY <1>1, <1>5, <2>1, <2>2, <2>4, NewRow
  <2> QED
    BY <1>5, <2>3, <2>4
<1>7. \A j \in Nat : PhaseOf(view', j) = PhaseOf(view, j)
  BY <1>5 DEF PhaseOf
<1>8. sessions' = sessions \/ sessions' = Append(sessions, closed)
  BY DEF SessionEnds
<1>9. ViewType'
  <2> DEFINE R == [index : Nat, phase : Both, turns : Nat]
  <2>1. closed \in R
    BY <1>1, <1>4
  <2>2. sessions \in Seq(R)
    BY DEF VInv, ViewType
  <2> HIDE DEF R, closed
  <2>3. sessions' \in Seq(R)
    BY <1>8, <2>1, <2>2
  <2> QED
    BY <1>1, <1>2, <1>5, <2>3 DEF ViewType, R
<1>10. Position'
  <2>1. ASSUME pc' = "session" PROVE phase = 1 /\ position' # 1
    <3>1. position < Len(SessionBudgets) /\ position' = position + 1
      BY <1>2, <2>1
    <3>2. phase # 2
      <4>1. phase = 2 => position < 1
        BY <1>3, <3>1, Zenon
      <4>2. ~(position < 1)
        BY <1>4
      <4> QED
        BY <4>1, <4>2, Zenon
    <3>3. position' # 1
      BY <1>4, <3>1
    <3> QED
      BY <1>3, <3>2, <3>3
  <2>2. phase = 2 => position = 1
    BY <1>1, <1>2 DEF Position, InPhase
  <2> QED
    BY <1>2, <1>3, <1>4, <2>1, <2>2 DEF Position, InPhase, InSession, Open
<1>11. GatesShown' /\ (view.ended => pc = "done")'
  BY <1>1, <1>2, <1>5 DEF GatesShown
<1>12. Told'
  BY <1>1, <1>2, <1>5, <1>6 DEF Told, Open, InSession
<1>13. ASSUME NEW n \in DOMAIN sessions
       PROVE  /\ sessions[n].index <= index
              /\ PhaseOf(view', sessions[n].index) = sessions[n].phase
              /\ Cardinality(TurnsOf(view', sessions[n].index)) = sessions[n].turns
  <2>1. sessions[n].index \in Nat
    BY SessionTypes DEF VInv
  <2> QED
    BY <1>1, <1>6, <1>7, <2>1 DEF ClosedShown
<1>14. /\ closed.index <= index /\ PhaseOf(view', closed.index) = closed.phase
       /\ Cardinality(TurnsOf(view', closed.index)) = closed.turns
  BY <1>1, <1>4, <1>6, <1>7
<1>15. ASSUME NEW n \in DOMAIN sessions'
       PROVE  (n \in DOMAIN sessions /\ sessions'[n] = sessions[n]) \/ sessions'[n] = closed
  <2> DEFINE R == [index : Nat, phase : Both, turns : Nat]
  <2>1. sessions \in Seq(R)
    BY DEF VInv, ViewType
  <2> HIDE DEF R, closed
  <2> QED
    BY <1>8, <2>1
<1>16. ClosedShown'
  <2> SUFFICES ASSUME NEW n \in DOMAIN sessions'
               PROVE  LET s == sessions'[n]
                      IN  /\ s.index <= index
                          /\ PhaseOf(view', s.index) = s.phase
                          /\ Cardinality(TurnsOf(view', s.index)) = s.turns
    BY <1>2 DEF ClosedShown, Open, InSession
  <2> HIDE DEF closed
  <2> QED
    BY <1>13, <1>14, <1>15
<1> QED
  BY <1>9, <1>10, <1>11, <1>12, <1>16 DEF VInv

\* The end of the run, and the referee's verdicts after it.
LEMMA LateStep == ASSUME IInv, VInv, RunEnds \/ Judges PROVE VInv'
<1>1. /\ view \in Views /\ index \in Nat /\ Position /\ Told /\ ClosedShown /\ GatesShown
  BY DEF VInv, ViewType
<1>2. /\ pc' = "done" /\ phase' = phase
      /\ index' = index /\ sessions' = sessions /\ gated' = gated
      /\ view' \in {RunEnd(view), PrimaryVerdict(view), Verdict(view)}
  BY DEF RunEnds, Judges, EndRun, Shows, vars, place
<1>3. /\ view' \in Views /\ view'.timeline = view.timeline /\ view'.session = view.session
      /\ view'.resumed = view.resumed /\ view'.claimedTest = view.claimedTest
      /\ view'.gates = view.gates /\ view'.gatePhase = view.gatePhase
  BY <1>1, <1>2, OtherFacts
<1>4. \A j : PhaseOf(view', j) = PhaseOf(view, j) /\ TurnsOf(view', j) = TurnsOf(view, j)
  BY <1>3 DEF PhaseOf, TurnsOf, Turns
<1>5. ViewType'
  BY <1>2, <1>3 DEF VInv, ViewType
<1>6. Position'
  BY <1>2 DEF Position, InPhase, InSession, Open
<1>7. Told'
  BY <1>1, <1>2, <1>3 DEF Told, InSession, Open
<1>8. ClosedShown'
  BY <1>1, <1>2, <1>4 DEF ClosedShown, InSession, Open
<1>9. GatesShown'
  BY <1>1, <1>2, <1>3 DEF GatesShown
<1> QED
  BY <1>2, <1>5, <1>6, <1>7, <1>8, <1>9 DEF VInv

LEMMA NextVInv == IInv /\ VInv /\ [ViewNext]_viewVars => VInv'
<1> SUFFICES ASSUME IInv, VInv, [ViewNext]_viewVars PROVE VInv'
  OBVIOUS
<1>1. CASE UNCHANGED viewVars
  BY <1>1 DEF viewVars, vars, VInv, ViewType, Position, Told, ClosedShown, GatesShown, PhaseOf,
              TurnsOf, Turns, ThisPhase
<1>2. CASE \E h \in Outcomes : (Prepare(h) \/ CheckTool(h) \/ PhaseEnd(h)) /\ Silent
  BY <1>2, SilentStep
<1>3. CASE \E h \in Outcomes : SessionEnds(h)
  BY <1>3, EndsStep
<1>4. CASE \E h \in Outcomes, passes \in BOOLEAN : Gates(h, passes)
  BY <1>4, GatesStep
<1>5. CASE (StartPhase \/ EndTurns \/ CallModel \/ ModelFails \/ SkipCall \/ RunTool \/ EndCalls
            \/ InternalError) /\ Silent
  BY <1>5, SilentStep
<1>6. CASE SessionStarts \/ TurnTaken \/ Claims \/ RunEnds
  BY <1>6, StartsStep, TurnStep, ClaimsStep, LateStep
<1>7. CASE Judges
  BY <1>7, LateStep
<1> QED
  BY <1>1, <1>2, <1>3, <1>4, <1>5, <1>6, <1>7 DEF ViewNext

LEMMA VInvCorrect == ViewSpec => []VInv
<1>1. ViewInit => IInv
  BY InitIInv DEF ViewInit
<1>2. IInv /\ [ViewNext]_viewVars => IInv'
  BY ViewStep, NextIInv
<1> QED
  BY <1>1, <1>2, InitVInv, NextVInv, PTL DEF ViewSpec

LEMMA VInvShows == VInv => ViewAgrees
<1> SUFFICES ASSUME VInv PROVE ViewAgrees
  OBVIOUS
<1>1. /\ view \in Views /\ ClosedShown /\ GatesShown /\ (view.ended => pc = "done")
  BY DEF VInv, ViewType
<1>2. ASSUME NEW n \in DOMAIN sessions
      PROVE  LET s == sessions[n]
                 shown == Summaries(view)
             IN  IF s.index \in DOMAIN shown
                 THEN shown[s.index].phase = s.phase /\ shown[s.index].turns = s.turns
                 ELSE s.turns = 0
  <2> DEFINE s == sessions[n]
             shown == Summaries(view)
             rows == {view.timeline[k].session : k \in DOMAIN view.timeline}
  <2>1. PhaseOf(view, s.index) = s.phase /\ Cardinality(TurnsOf(view, s.index)) = s.turns
    BY <1>1 DEF ClosedShown
  <2>2. shown = [i \in rows |-> [phase |-> PhaseOf(view, i), turns |-> Cardinality(TurnsOf(view, i))]]
    BY DEF Summaries, TurnsOf
  <2>3. CASE s.index \in rows
    <3>1. shown[s.index] = [phase |-> PhaseOf(view, s.index), turns |-> Cardinality(TurnsOf(view, s.index))]
      BY <2>2, <2>3
    <3>2. s.index \in DOMAIN shown
      BY <2>2, <2>3
    <3> QED
      BY <2>1, <3>1, <3>2
  <2>4. CASE s.index \notin rows
    <3>1. s.index \notin DOMAIN shown
      BY <2>2, <2>4
    <3>2. TurnsOf(view, s.index) = {}
      BY <2>4 DEF TurnsOf, Turns
    <3>3. s.turns = 0
      BY <2>1, <3>2, FS_EmptySet
    <3> QED
      BY <3>1, <3>3
  <2> QED
    BY <2>3, <2>4
<1>3. Cardinality(GateRefusals(view)) = Cardinality(FailedGates(view))
  BY <1>1, RefusalPerGate DEF GatesShown
<1>4. Finished(view) => pc = "done"
  BY <1>1 DEF Finished
<1> QED
  BY <1>1, <1>2, <1>3, <1>4 DEF ViewAgrees, GatesShown

\* What the console infers from the events is what the run did
\* (P/console/state.py:395, 315, 775): for any budgets, answers and failures.
THEOREM ViewCorrect == ViewSpec => []ViewAgrees
  BY VInvCorrect, VInvShows, PTL
=============================================================================
