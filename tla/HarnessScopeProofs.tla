------------------------- MODULE HarnessScopeProofs -------------------------
(***************************************************************************)
(* HarnessScope's types, that the allowed paths hold between calls, that a *)
(* feature that passes stands on tests that passed, and that the suite     *)
(* cache is true: for any files, allowed paths and tests.                  *)
(***************************************************************************)
EXTENDS HarnessScope, TLAPS

\* A gate that passed did so on tests that pass; in the build phase it is the
\* session's end, and what it was run on is still there.
GateFresh ==
  gate # NoContent =>
    /\ gate \in Good
    /\ phase = "build" /\ step # "aborted" =>
         /\ step # "turns" /\ ended = "claim_done"
         /\ \A f \in Files \ SuiteWrites : content[f] = gate[f]

\* How a session has ended, by where the run is; a feature that passes, or that
\* was claimed as done without the verify layer, ends the build phase.
Ended ==
  /\ phase = "build" => session \in 1..BuildSessions
  /\ step = "turns" => ended = "none"
  /\ phase = "build" /\ step # "aborted" /\ passes =>
       step = "sessionOver" /\ ended = "claim_done"
  /\ phase = "build" /\ step # "aborted" /\ "verify" \notin layers
       /\ claim = [phase |-> "build", claim |-> "done"] =>
       step # "turns" /\ ended = "claim_done"

IInv == TypeOK /\ ScopeKept /\ CacheIsTrue /\ PassesStands /\ GateFresh /\ Ended

-----------------------------------------------------------------------------
\* What a request for the tests leaves, and what its answer tells.
LEMMA SuiteFacts ==
  ASSUME TypeOK, CacheIsTrue, NEW where \in {"copy", "workspace"}, NEW passed \in BOOLEAN,
         Suite(where, passed)
  PROVE  /\ content' \in Contents
         /\ \A f \in Files \ SuiteWrites : content'[f] = content[f]
         /\ where = "copy" => content' = content
         /\ passed => content \in Good
         /\ cache' \subseteq [key : Contents, where : {"copy", "workspace"}, passed : BOOLEAN]
         /\ \A r, q \in cache' : r.key = q.key => r = q
         /\ \A r \in cache' : r.passed <=> r.key \in Good
<1>1. CASE \E r \in Reusable(where) : passed = r.passed /\ UNCHANGED <<content, cache>>
  <2>1. PICK r \in Reusable(where) : passed = r.passed /\ UNCHANGED <<content, cache>>
    BY <1>1
  <2>2. r \in cache /\ r.key = content
    BY DEF Reusable
  <2> QED
    BY <2>1, <2>2 DEF TypeOK, CacheIsTrue
<1>2. CASE content' \in MayLeave(where) /\ ~passed /\ UNCHANGED cache
  BY <1>2 DEF MayLeave, TypeOK, CacheIsTrue
<1>3. CASE /\ content' \in MayLeave(where)
           /\ passed = (content \in Good) /\ cache' = Stored(content, where, passed)
  <2>1. /\ content' \in Contents
        /\ \A f \in Files \ SuiteWrites : content'[f] = content[f]
        /\ where = "copy" => content' = content
    BY <1>3 DEF MayLeave, TypeOK
  <2> DEFINE new == [key |-> content, where |-> where, passed |-> passed]
  <2>2. new \in [key : Contents, where : {"copy", "workspace"}, passed : BOOLEAN]
    BY DEF TypeOK
  <2>3. new.key = content /\ (new.passed <=> content \in Good)
    BY <1>3
  <2>4. cache' = {r \in cache : r.key # content} \cup {new}
    BY <1>3 DEF Stored
  <2> HIDE DEF new
  <2>5. cache' \subseteq [key : Contents, where : {"copy", "workspace"}, passed : BOOLEAN]
    BY <2>2, <2>4 DEF TypeOK
  <2>6. \A r, q \in cache' : r.key = q.key => r = q
    BY <2>3, <2>4 DEF TypeOK
  <2>7. \A r \in cache' : r.passed <=> r.key \in Good
    BY <2>3, <2>4 DEF CacheIsTrue
  <2> QED
    BY <1>3, <2>1, <2>5, <2>6, <2>7
<1> QED
  BY <1>1, <1>2, <1>3 DEF Suite

LEMMA InitIInv == Init => IInv
<1> SUFFICES ASSUME Init PROVE IInv
  OBVIOUS
<1> USE ScopeAssumption DEF Init
<1>1. TypeOK
  <2>1. session \in 1..BuildSessions /\ session \in 1..BuildSessions + 1
    OBVIOUS
  <2>2. content \in Contents /\ phaseStart \in Contents
    OBVIOUS
  <2>3. layers \subseteq {"state", "verify"} /\ large \subseteq MayBeLarge
    OBVIOUS
  <2> QED
    BY <2>1, <2>2, <2>3 DEF TypeOK, NoClaim, Phases, Steps
<1>2. ScopeKept /\ CacheIsTrue /\ PassesStands /\ GateFresh
  BY DEF ScopeKept, CacheIsTrue, PassesStands, GateFresh
<1>3. Ended
  BY DEF Ended, NoClaim
<1> QED
  BY <1>1, <1>2, <1>3 DEF IInv

\* Every action keeps the invariant.
LEMMA NextIInv == IInv /\ [Next]_vars => IInv'
<1> SUFFICES ASSUME IInv, [Next]_vars PROVE IInv'
  OBVIOUS
<1> USE ScopeAssumption DEF IInv, Phases, Steps, Resting, Unwatched, setting, place, status, Protected
<1>1. CASE Patch
  <2>0. /\ content' \in Contents
        /\ \A f \in Protected : content'[f] = content[f]
    BY <1>1 DEF Patch, TypeOK, Contents
  <2>1. TypeOK'
    BY <1>1, <2>0 DEF Patch, TypeOK
  <2>2. ScopeKept'
    BY <1>1, <2>0 DEF Patch, TypeOK, ScopeKept
  <2>3. CacheIsTrue'
    BY <1>1, <2>0 DEF Patch, TypeOK, CacheIsTrue
  <2>4. PassesStands'
    BY <1>1, <2>0 DEF Patch, TypeOK, ScopeKept, PassesStands, GateFresh, Ended
  <2>5. GateFresh'
    BY <1>1, <2>0 DEF Patch, TypeOK, GateFresh, Ended
  <2>6. Ended'
    BY <1>1, <2>0 DEF Patch, TypeOK, Ended
  <2> QED BY <2>1, <2>2, <2>3, <2>4, <2>5, <2>6
<1>2. CASE Command
  <2>0. /\ content' \in Contents /\ list' = list
        /\ \A f \in Protected \ large : content'[f] = content[f]
    BY <1>2 DEF Command, Reverted, TypeOK, Contents
  <2>1. TypeOK'
    BY <1>2, <2>0 DEF Command, Go, Reverted, TypeOK
  <2>2. ScopeKept'
    BY <1>2, <2>0 DEF Command, Go, Reverted, TypeOK, ScopeKept
  <2>3. CacheIsTrue'
    BY <1>2, <2>0 DEF Command, Go, Reverted, TypeOK, CacheIsTrue
  <2>4. PassesStands'
    BY <1>2, <2>0 DEF Command, Go, Reverted, TypeOK, ScopeKept, PassesStands, GateFresh, Ended
  <2>5. GateFresh'
    BY <1>2, <2>0 DEF Command, Go, Reverted, TypeOK, GateFresh, Ended
  <2>6. Ended'
    BY <1>2, <2>0 DEF Command, Go, Reverted, TypeOK, Ended
  <2> QED BY <2>1, <2>2, <2>3, <2>4, <2>5, <2>6
<1>3. CASE CommandUnchecked
  <2>0. content' \in Contents
    BY <1>3 DEF CommandUnchecked, TypeOK, Contents
  <2>1. TypeOK'
    BY <1>3, <2>0 DEF CommandUnchecked, Go, TypeOK
  <2>2. ScopeKept'
    BY <1>3, <2>0 DEF CommandUnchecked, Go, TypeOK, ScopeKept
  <2>3. CacheIsTrue'
    BY <1>3, <2>0 DEF CommandUnchecked, Go, TypeOK, CacheIsTrue
  <2>4. PassesStands'
    BY <1>3, <2>0 DEF CommandUnchecked, Go, TypeOK, ScopeKept, PassesStands, GateFresh, Ended
  <2>5. GateFresh'
    BY <1>3, <2>0 DEF CommandUnchecked, Go, TypeOK, GateFresh, Ended
  <2>6. Ended'
    BY <1>3, <2>0 DEF CommandUnchecked, Go, TypeOK, Ended
  <2> QED BY <2>1, <2>2, <2>3, <2>4, <2>5, <2>6
<1>4. CASE FinishNotDone
  <2>1. TypeOK'
    BY <1>4 DEF FinishNotDone, EndSession, TypeOK
  <2>2. ScopeKept'
    BY <1>4 DEF FinishNotDone, EndSession, TypeOK, ScopeKept
  <2>3. CacheIsTrue'
    BY <1>4 DEF FinishNotDone, EndSession, TypeOK, CacheIsTrue
  <2>4. PassesStands'
    BY <1>4 DEF FinishNotDone, EndSession, TypeOK, ScopeKept, PassesStands, GateFresh, Ended
  <2>5. GateFresh'
    BY <1>4 DEF FinishNotDone, EndSession, TypeOK, GateFresh, Ended
  <2>6. Ended'
    BY <1>4 DEF FinishNotDone, EndSession, TypeOK, Ended
  <2> QED BY <2>1, <2>2, <2>3, <2>4, <2>5, <2>6
<1>5. CASE FinishDone
  <2>1. TypeOK'
    BY <1>5 DEF FinishDone, EndSession, TypeOK
  <2>2. ScopeKept'
    BY <1>5 DEF FinishDone, EndSession, TypeOK, ScopeKept
  <2>3. CacheIsTrue'
    BY <1>5 DEF FinishDone, EndSession, TypeOK, CacheIsTrue
  <2>4. PassesStands'
    BY <1>5 DEF FinishDone, EndSession, TypeOK, ScopeKept, PassesStands, GateFresh, Ended
  <2>5. GateFresh'
    BY <1>5 DEF FinishDone, EndSession, TypeOK, GateFresh, Ended
  <2>6. Ended'
    BY <1>5 DEF FinishDone, EndSession, TypeOK, Ended
  <2> QED BY <2>1, <2>2, <2>3, <2>4, <2>5, <2>6
<1>6. CASE FinishWithGate
  <2>0. PICK passed \in BOOLEAN :
          /\ RunGate(passed)
          /\ gate' = (IF passed THEN content ELSE NoContent)
          /\ \/ passed /\ EndSession("claim_done")
             \/ ~passed /\ Go("turns")
             \/ Go("aborted")
    BY <1>6 DEF FinishWithGate
  <2>01. PICK visible \in BOOLEAN, others \in BOOLEAN :
           Suite("copy", visible) /\ passed = (visible /\ others)
    BY <2>0 DEF RunGate
  <2>00. /\ content' = content /\ (passed => content \in Good)
         /\ cache' \subseteq [key : Contents, where : {"copy", "workspace"}, passed : BOOLEAN]
         /\ \A r, q \in cache' : r.key = q.key => r = q
         /\ \A r \in cache' : r.passed <=> r.key \in Good
    BY <2>01, SuiteFacts
  <2>1. TypeOK'
    <3>1. gate' \in Contents \cup {NoContent}
      BY <2>0 DEF TypeOK
    <3>2. claim' \in [phase : Phases \cup {"none"}, claim : {"none", "done", "not_done"}]
      BY <1>6 DEF FinishWithGate, TypeOK
    <3>3. /\ step' \in Steps /\ phase' = phase /\ session' = session
          /\ ended' \in {"none", "claim_done", "claim_not_done", "turn_budget", "no_tool_call", "limit"}
      BY <2>0 DEF EndSession, Go, TypeOK
    <3>4. UNCHANGED <<setting, status, phaseStart>>
      BY <1>6 DEF FinishWithGate
    <3> QED
      BY <2>00, <3>1, <3>2, <3>3, <3>4 DEF TypeOK
  <2>2. ScopeKept'
    <3>1. UNCHANGED <<setting, status, phaseStart, phase>> /\ Resting
      BY <1>6, <2>0 DEF FinishWithGate, EndSession, Go
    <3> QED
      BY <2>00, <3>1 DEF ScopeKept
  <2>3. CacheIsTrue'
    BY <2>00 DEF CacheIsTrue
  <2>4. PassesStands'
    <3>1. UNCHANGED <<setting, status>> /\ Resting
      BY <1>6 DEF FinishWithGate
    <3> QED
      BY <2>00, <3>1 DEF PassesStands
  <2>5. GateFresh'
    <3>1. phase' = phase
      BY <2>0 DEF EndSession, Go
    <3>2. gate' # NoContent => passed /\ gate' = content
      BY <2>0
    <3>3. passed /\ step' # "aborted" => step' = "stop" /\ ended' = "claim_done"
      BY <2>0 DEF EndSession, Go
    <3> QED
      BY <2>00, <3>1, <3>2, <3>3 DEF GateFresh
  <2>6. Ended'
    BY <1>6, <2>0, <2>00 DEF FinishWithGate, EndSession, Go, TypeOK, Ended
  <2> QED BY <2>1, <2>2, <2>3, <2>4, <2>5, <2>6
<1>7. CASE EndTurns
  <2>1. TypeOK'
    BY <1>7 DEF EndTurns, EndSession, TypeOK
  <2>2. ScopeKept'
    BY <1>7 DEF EndTurns, EndSession, TypeOK, ScopeKept
  <2>3. CacheIsTrue'
    BY <1>7 DEF EndTurns, EndSession, TypeOK, CacheIsTrue
  <2>4. PassesStands'
    BY <1>7 DEF EndTurns, EndSession, TypeOK, ScopeKept, PassesStands, GateFresh, Ended
  <2>5. GateFresh'
    BY <1>7 DEF EndTurns, EndSession, TypeOK, GateFresh, Ended
  <2>6. Ended'
    BY <1>7 DEF EndTurns, EndSession, TypeOK, Ended
  <2> QED BY <2>1, <2>2, <2>3, <2>4, <2>5, <2>6
<1>8. CASE SessionStop
  <2>0. /\ content' \in Contents
        /\ \A f \in Files \ SuiteWrites : content'[f] = content[f]
        /\ cache' \subseteq [key : Contents, where : {"copy", "workspace"}, passed : BOOLEAN]
        /\ \A r, q \in cache' : r.key = q.key => r = q
        /\ \A r \in cache' : r.passed <=> r.key \in Good
    <3>1. CASE "state" \in layers
      BY <1>8, <3>1, SuiteFacts DEF SessionStop
    <3>2. CASE "state" \notin layers
      BY <1>8, <3>2 DEF SessionStop, TypeOK, CacheIsTrue
    <3> QED BY <3>1, <3>2
  <2>1. TypeOK'
    BY <1>8, <2>0 DEF SessionStop, Go, TypeOK
  <2>2. ScopeKept'
    BY <1>8, <2>0 DEF SessionStop, Go, TypeOK, ScopeKept
  <2>3. CacheIsTrue'
    BY <1>8, <2>0 DEF SessionStop, Go, TypeOK, CacheIsTrue
  <2>4. PassesStands'
    BY <1>8, <2>0 DEF SessionStop, Go, TypeOK, ScopeKept, PassesStands, GateFresh, Ended
  <2>5. GateFresh'
    BY <1>8, <2>0 DEF SessionStop, Go, TypeOK, GateFresh, Ended
  <2>6. Ended'
    BY <1>8, <2>0 DEF SessionStop, Go, TypeOK, Ended
  <2> QED BY <2>1, <2>2, <2>3, <2>4, <2>5, <2>6
<1>9. CASE UpdateStatus
  <2>0. /\ content' \in Contents
        /\ \A f \in Files \ SuiteWrites : content'[f] = content[f]
        /\ cache' \subseteq [key : Contents, where : {"copy", "workspace"}, passed : BOOLEAN]
        /\ \A r, q \in cache' : r.key = q.key => r = q
        /\ \A r \in cache' : r.passed <=> r.key \in Good
        /\ \/ UNCHANGED status
           \/ /\ phase = "build" /\ claim = [phase |-> "build", claim |-> "done"]
              /\ "verify" \in layers /\ gate # NoContent /\ SetPasses(gate)
           \/ /\ phase = "build" /\ claim = [phase |-> "build", claim |-> "done"]
              /\ "verify" \notin layers /\ content \in Good /\ SetPasses(content)
    <3>1. CASE passes \/ phase # "build" \/ ~ClaimedDone
      BY <1>9, <3>1 DEF UpdateStatus, TypeOK, CacheIsTrue
    <3>2. CASE ~passes /\ phase = "build" /\ ClaimedDone /\ "verify" \in layers
      BY <1>9, <3>2 DEF UpdateStatus, ClaimedDone, TypeOK, CacheIsTrue
    <3>3. CASE ~passes /\ phase = "build" /\ ClaimedDone /\ "verify" \notin layers
      <4>1. PICK passed \in BOOLEAN : /\ Suite("workspace", passed)
                                      /\ IF passed THEN SetPasses(content) ELSE UNCHANGED status
        BY <1>9, <3>3 DEF UpdateStatus
      <4> QED
        BY <3>3, <4>1, SuiteFacts DEF ClaimedDone
    <3> QED BY <3>1, <3>2, <3>3
  <2>1. TypeOK'
    BY <1>9, <2>0 DEF UpdateStatus, Go, SetPasses, ClaimedDone, TypeOK
  <2>2. ScopeKept'
    BY <1>9, <2>0 DEF UpdateStatus, Go, SetPasses, ClaimedDone, TypeOK, ScopeKept
  <2>3. CacheIsTrue'
    BY <1>9, <2>0 DEF UpdateStatus, Go, SetPasses, ClaimedDone, TypeOK, CacheIsTrue
  <2>4. PassesStands'
    BY <1>9, <2>0 DEF UpdateStatus, Go, SetPasses, ClaimedDone, TypeOK, ScopeKept, PassesStands, GateFresh, Ended
  <2>5. GateFresh'
    BY <1>9, <2>0 DEF UpdateStatus, Go, SetPasses, ClaimedDone, TypeOK, GateFresh, Ended
  <2>6. Ended'
    <3>1. /\ UNCHANGED <<setting, claim, phase, session, ended>>
          /\ step = "status" /\ step' \in {"sessionOver", "aborted"}
      BY <1>9 DEF UpdateStatus, Go
    <3>2. passes' /\ phase = "build" => passes \/ ended = "claim_done"
      BY <2>0, <3>1 DEF GateFresh, Ended, SetPasses
    <3> QED
      BY <3>1, <3>2 DEF Ended
  <2> QED BY <2>1, <2>2, <2>3, <2>4, <2>5, <2>6
<1>10. CASE NextSession
  <2>1. TypeOK'
    BY <1>10 DEF NextSession, TypeOK
  <2>2. ScopeKept'
    BY <1>10 DEF NextSession, TypeOK, ScopeKept
  <2>3. CacheIsTrue'
    BY <1>10 DEF NextSession, TypeOK, CacheIsTrue
  <2>4. PassesStands'
    BY <1>10 DEF NextSession, TypeOK, ScopeKept, PassesStands, GateFresh, Ended
  <2>5. GateFresh'
    BY <1>10 DEF NextSession, TypeOK, GateFresh, Ended
  <2>6. Ended'
    BY <1>10 DEF NextSession, TypeOK, Ended
  <2> QED BY <2>1, <2>2, <2>3, <2>4, <2>5, <2>6
<1>11. CASE StartTestPhase
  <2>1. TypeOK'
    <3>1. session' \in 1..BuildSessions + 1
      BY <1>11 DEF StartTestPhase, Ended
    <3> QED
      BY <1>11, <3>1 DEF StartTestPhase, TypeOK
  <2>2. ScopeKept'
    BY <1>11 DEF StartTestPhase, LastSession, TypeOK, ScopeKept
  <2>3. CacheIsTrue'
    BY <1>11 DEF StartTestPhase, LastSession, TypeOK, CacheIsTrue
  <2>4. PassesStands'
    BY <1>11 DEF StartTestPhase, LastSession, TypeOK, ScopeKept, PassesStands, GateFresh, Ended
  <2>5. GateFresh'
    BY <1>11 DEF StartTestPhase, LastSession, TypeOK, GateFresh, Ended
  <2>6. Ended'
    BY <1>11 DEF StartTestPhase, LastSession, TypeOK, Ended
  <2> QED BY <2>1, <2>2, <2>3, <2>4, <2>5, <2>6
<1>12. CASE EndTestPhase
  <2>0. /\ content' \in Contents /\ phase = "test"
        /\ \A f \in Files \ Allowed["test"] : content'[f] = content[f]
    BY <1>12 DEF EndTestPhase, TypeOK, Contents
  <2>1. TypeOK'
    BY <1>12, <2>0 DEF EndTestPhase, Go, TypeOK
  <2>2. ScopeKept'
    <3>1. UNCHANGED <<setting, status, phaseStart, phase>> /\ Resting
      BY <1>12 DEF EndTestPhase, Go
    <3> QED
      BY <2>0, <3>1 DEF ScopeKept
  <2>3. CacheIsTrue'
    BY <1>12, <2>0 DEF EndTestPhase, Go, TypeOK, CacheIsTrue
  <2>4. PassesStands'
    <3>1. UNCHANGED <<setting, status>> /\ Resting
      BY <1>12 DEF EndTestPhase
    <3> QED
      BY <2>0, <3>1 DEF PassesStands
  <2>5. GateFresh'
    BY <1>12, <2>0 DEF EndTestPhase, Go, TypeOK, GateFresh, Ended
  <2>6. Ended'
    BY <1>12, <2>0 DEF EndTestPhase, Go, TypeOK, Ended
  <2> QED BY <2>1, <2>2, <2>3, <2>4, <2>5, <2>6
<1>13. CASE Abort
  <2>1. TypeOK'
    BY <1>13 DEF Abort, Go, TypeOK
  <2>2. ScopeKept'
    BY <1>13 DEF Abort, Go, TypeOK, ScopeKept
  <2>3. CacheIsTrue'
    BY <1>13 DEF Abort, Go, TypeOK, CacheIsTrue
  <2>4. PassesStands'
    BY <1>13 DEF Abort, Go, TypeOK, ScopeKept, PassesStands, GateFresh, Ended
  <2>5. GateFresh'
    BY <1>13 DEF Abort, Go, TypeOK, GateFresh, Ended
  <2>6. Ended'
    BY <1>13 DEF Abort, Go, TypeOK, Ended
  <2> QED BY <2>1, <2>2, <2>3, <2>4, <2>5, <2>6
<1>14. CASE UNCHANGED vars
  BY <1>14 DEF vars, TypeOK, ScopeKept, CacheIsTrue, PassesStands, GateFresh, Ended
<1> QED
  BY <1>1, <1>2, <1>3, <1>4, <1>5, <1>6, <1>7, <1>8, <1>9, <1>10, <1>11, <1>12, <1>13, <1>14
     DEF Next, Call, Claim, Hooks

LEMMA IInvCorrect == Spec => []IInv
  BY InitIInv, NextIInv, PTL DEF Spec

\* Types, and one result per content in the suite cache.
THEOREM TypeCorrect == Spec => []TypeOK
<1>1. IInv => TypeOK
  BY DEF IInv
<1> QED
  BY <1>1, IInvCorrect, PTL

\* Between commands the allowed paths of the phase hold and the feature list is the
\* harness's own (ScopeLayer.after_tool).
THEOREM ScopeCorrect == Spec => []ScopeKept
<1>1. IInv => ScopeKept
  BY DEF IInv
<1> QED
  BY <1>1, IInvCorrect, PTL

\* A feature that passes stands on tests that passed, and its code stays
\* (update_status).
THEOREM PassesCorrect == Spec => []PassesStands
<1>1. IInv => PassesStands
  BY DEF IInv
<1> QED
  BY <1>1, IInvCorrect, PTL

\* The suite cache hands out what the tests give (suite_cache.run).
THEOREM CacheCorrect == Spec => []CacheIsTrue
<1>1. IInv => CacheIsTrue
  BY DEF IInv
<1> QED
  BY <1>1, IInvCorrect, PTL
=============================================================================
