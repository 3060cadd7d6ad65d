-------------------------------- MODULE ABRun -------------------------------
(***************************************************************************)
(* shipharness.ab.demo.run_ab with shipharness.ab.referee: a thread that   *)
(* computes the referee's baseline, a thread per arm that runs the arm and *)
(* has the referee judge it, board previews, and the caller that waits for *)
(* all of them.  Threads share the referee's baseline and start and remove *)
(* containers.  What fails, and what an arm is worth, is not determined.   *)
(***************************************************************************)
EXTENDS Naturals, Sequences

CONSTANTS
  Arms,         \* the arms of the A/B
  Thread,       \* the baseline's thread
  Nobody,       \* the baseline's lock is free; the baseline is not known yet
  Unremovable   \* the kinds of container whose removal may fail

Workers == Arms \cup {Thread}

ASSUME ABAssumption ==
  Thread \notin Arms /\ Nobody \notin Workers

VARIABLES
  main,       \* where run_ab is
  failing,    \* run_ab unwinds an exception
  at,         \* per worker: where it is
  holder,     \* who holds _baseline_lock
  baseline,   \* _baseline, once _baseline_done: who computed it, cached, none
  used,       \* per arm: the baseline it was judged with
  passes,     \* per arm: what the first checks say of the primary measure
  primary,    \* per arm: the primary_verdict events
  verdict,    \* per arm: the verdict event
  live, lost, \* the containers that run; those whose removal has failed
  previewing, \* arms whose preview loop runs
  toStop      \* arms whose preview run_ab has yet to stop

baselines == <<holder, baseline>>
judgement == <<used, passes, primary, verdict>>
containers == <<live, lost>>
previews == <<previewing, toStop>>
vars == <<main, failing, at, baselines, judgement, containers, previews>>

Computing == {"export", "compute", "save"}
Closing == {"close", "closeFailed", "closeRaising"}
Finished == {"judged", "raised", "armRaised"}
Places == Computing \cup Closing \cup Finished \cup
  {"waiting", "setup", "agent", "stop", "stopRaising", "ended", "want", "judge",
   "first", "second", "record", "recordFailed", "over"}

Box(kind, w) == <<kind, w>>
Boxes == {"arm", "referee", "baseline", "preview"} \X Workers

Goto(w, place) == at' = [at EXCEPT ![w] = place]

-----------------------------------------------------------------------------
(* Containers.                                                             *)

Starts(b) == live' = live \cup {b} /\ UNCHANGED lost

\* A start that fails removes what it may have started, as far as it can.
StartFails(b) ==
  \/ UNCHANGED containers
  \/ b[1] \in Unremovable /\ live' = live \cup {b} /\ lost' = lost \cup {b}

Removes(b) == live' = live \ {b} /\ UNCHANGED lost

\* The container runtime does not answer: stop raises.
RemovalFails(b) == b[1] \in Unremovable /\ lost' = lost \cup {b} /\ UNCHANGED live

-----------------------------------------------------------------------------
Init ==
  /\ main = "open" /\ failing = FALSE
  /\ at = [w \in Workers |-> IF w = Thread THEN "want" ELSE "waiting"]
  /\ holder = Nobody /\ baseline = Nobody
  /\ used = [a \in Arms |-> Nobody] /\ passes = [a \in Arms |-> FALSE]
  /\ primary = [a \in Arms |-> <<>>] /\ verdict = [a \in Arms |-> "unsent"]
  /\ live = {} /\ lost = {} /\ previewing = {} /\ toStop = {}

-----------------------------------------------------------------------------
(* The caller.                                                             *)

\* The run log is opened; the baseline's thread runs already.
OpenLog ==
  /\ main = "open"
  /\ main' \in {"previews", "refused"}
  /\ UNCHANGED <<failing, at, baselines, judgement, containers, previews>>

\* The previews that can be started are, and the arms are submitted.
StartPreviews ==
  /\ main = "previews"
  /\ \E some \in SUBSET Arms, left \in SUBSET Arms :
       /\ left # {} => "preview" \in Unremovable /\ left \cap some = {}
       /\ previewing' = some /\ toStop' = some
       /\ live' = live \cup ({"preview"} \X (some \cup left))
       /\ lost' = lost \cup ({"preview"} \X left)
  /\ main' = "arms"
  /\ at' = [w \in Workers |-> IF w = Thread THEN at[w] ELSE "setup"]
  /\ UNCHANGED <<failing, baselines, judgement>>

\* The pool waits for both arms, also when one of them has raised.
JoinArms ==
  /\ main = "arms"
  /\ \A a \in Arms : at[a] \in Finished
  /\ failing' = \E a \in Arms : at[a] # "judged"
  /\ main' = "stop"
  /\ UNCHANGED <<at, baselines, judgement, containers, previews>>

\* join_or_stop: the preview's loop has ended, or its container is removed now.
StopPreview(a) ==
  /\ main = "stop" /\ a \in toStop
  /\ \/ a \notin previewing /\ UNCHANGED containers
     \/ a \in previewing /\ (Removes(Box("preview", a)) \/ RemovalFails(Box("preview", a)))
  /\ toStop' = toStop \ {a}
  /\ UNCHANGED <<main, failing, at, baselines, judgement, previewing>>

\* Mutant of JoinThread: run_ab does not wait for the baseline's thread.
JoinNoThread ==
  /\ main = "stop" /\ toStop = {}
  /\ main' = IF failing THEN "raised" ELSE "write"
  /\ UNCHANGED <<failing, at, baselines, judgement, containers, previews>>

\* _joined; then the run log is closed.
JoinThread ==
  /\ main = "stop" /\ toStop = {}
  /\ at[Thread] = "over"
  /\ main' = IF failing THEN "raised" ELSE "write"
  /\ UNCHANGED <<failing, at, baselines, judgement, containers, previews>>

\* write_ab_record: the record of the A/B is written and returned, or it raises.
WriteRecord ==
  /\ main = "write"
  /\ main' \in {"returned", "raised"}
  /\ UNCHANGED <<failing, at, baselines, judgement, containers, previews>>

\* A preview's loop ends, whenever: it removes its own container.
EndPreview(a) ==
  /\ a \in previewing
  /\ previewing' = previewing \ {a}
  /\ Removes(Box("preview", a)) \/ RemovalFails(Box("preview", a))
  /\ UNCHANGED <<main, failing, at, baselines, judgement, toStop>>

-----------------------------------------------------------------------------
(* run_arm.                                                                *)

Setup(a) ==
  /\ at[a] = "setup"
  /\ \/ Starts(Box("arm", a)) /\ Goto(a, "agent")
     \/ StartFails(Box("arm", a)) /\ Goto(a, "ended")
  /\ UNCHANGED <<main, failing, baselines, judgement, previews>>

\* run_agent, which does not raise; client_factory may.
RunAgent(a) ==
  /\ at[a] = "agent"
  /\ Goto(a, "stop") \/ Goto(a, "stopRaising")
  /\ UNCHANGED <<main, failing, baselines, judgement, containers, previews>>

StopArm(a) ==
  /\ at[a] \in {"stop", "stopRaising"}
  /\ \/ Removes(Box("arm", a)) /\ Goto(a, IF at[a] = "stop" THEN "ended" ELSE "armRaised")
     \/ RemovalFails(Box("arm", a)) /\ Goto(a, "armRaised")
  /\ UNCHANGED <<main, failing, baselines, judgement, previews>>

\* run_and_judge: the baseline's thread is joined.
JoinBaseline(a) ==
  /\ at[a] = "ended" /\ at[Thread] = "over"
  /\ Goto(a, "want")
  /\ UNCHANGED <<main, failing, baselines, judgement, containers, previews>>

-----------------------------------------------------------------------------
(* Referee.baseline.                                                       *)

\* baseline returns to worker w, or raises.
Return(w) == Goto(w, IF w = Thread THEN "over" ELSE "judge")
Raise(w) == Goto(w, IF w = Thread THEN "over" ELSE "raised")

\* Mutant of GetBaseline: the lock and the flag are not looked at together.
GetBaselineUnlocked(w) ==
  /\ at[w] = "want"
  /\ \/ baseline # Nobody /\ Return(w) /\ UNCHANGED baselines
     \/ Goto(w, "export") /\ holder' = w /\ UNCHANGED baseline
  /\ UNCHANGED <<main, failing, judgement, containers, previews>>

\* With the lock: it is known; or it is in the cache; or it is to be computed.
GetBaseline(w) ==
  /\ at[w] = "want" /\ holder = Nobody
  /\ \/ baseline # Nobody /\ Return(w) /\ UNCHANGED baselines
     \/ baseline = Nobody /\ baseline' = "cached" /\ Return(w) /\ UNCHANGED holder
     \/ baseline = Nobody /\ Goto(w, "export") /\ holder' = w /\ UNCHANGED baseline
  /\ UNCHANGED <<main, failing, judgement, containers, previews>>

\* _compute_baseline up to its container: the export may raise, a container
\* that does not start gives no baseline.
StartBaseline(w) ==
  /\ at[w] = "export"
  /\ \/ Starts(Box("baseline", w)) /\ Goto(w, "compute") /\ UNCHANGED baselines
     \/ /\ StartFails(Box("baseline", w)) /\ Return(w)
        /\ baseline' = "none" /\ holder' = Nobody
     \/ Raise(w) /\ holder' = Nobody /\ UNCHANGED <<baseline, containers>>
  /\ UNCHANGED <<main, failing, judgement, previews>>

\* Mutant of ComputeBaseline: an exception leaves the lock held.
ComputeBaselineHolding(w) ==
  /\ at[w] = "compute"
  /\ \/ Removes(Box("baseline", w)) /\ Goto(w, "save") /\ baseline' = w /\ UNCHANGED holder
     \/ /\ Removes(Box("baseline", w)) /\ Return(w)
        /\ baseline' = "none" /\ holder' = Nobody
     \/ /\ Removes(Box("baseline", w)) \/ RemovalFails(Box("baseline", w))
        /\ Raise(w) /\ UNCHANGED baselines
  /\ UNCHANGED <<main, failing, judgement, previews>>

\* The checks ran, or the runner failed (no baseline), or an exception; the
\* container is removed either way.
ComputeBaseline(w) ==
  /\ at[w] = "compute"
  /\ \/ Removes(Box("baseline", w)) /\ Goto(w, "save") /\ baseline' = w /\ UNCHANGED holder
     \/ /\ Removes(Box("baseline", w)) /\ Return(w)
        /\ baseline' = "none" /\ holder' = Nobody
     \/ /\ Removes(Box("baseline", w)) \/ RemovalFails(Box("baseline", w))
        /\ Raise(w) /\ holder' = Nobody /\ UNCHANGED baseline
  /\ UNCHANGED <<main, failing, judgement, previews>>

\* The cache file is written; the baseline is known even if that raises.
SaveBaseline(w) ==
  /\ at[w] = "save"
  /\ Return(w) \/ Raise(w)
  /\ holder' = Nobody
  /\ UNCHANGED <<main, failing, baseline, judgement, containers, previews>>

-----------------------------------------------------------------------------
(* Referee.judge.                                                          *)

\* Mutant of Announced: every call sends the event.
AnnouncedAgain(a, passed) == Append(primary[a], passed)

\* announce: the primary_verdict events once this one is sent, unless one was.
Announced(a, passed) == IF primary[a] = <<>> THEN <<passed>> ELSE primary[a]

Announce(a, passed) == primary' = [primary EXCEPT ![a] = Announced(a, passed)]

\* The build is exported and the diff applied; the container starts.  A diff
\* that does not apply, and a container that does not start, fail the record.
Judge(a) ==
  /\ at[a] = "judge" /\ holder = Nobody
  /\ used' = [used EXCEPT ![a] = baseline]
  /\ \/ Starts(Box("referee", a)) /\ Goto(a, "first")
     \/ StartFails(Box("referee", a)) /\ Goto(a, "recordFailed")
     \/ Goto(a, "raised") /\ UNCHANGED containers
  /\ UNCHANGED <<main, failing, baselines, passes, primary, verdict, previews>>

\* The checks (and mutants) of the primary measure; then it is announced.
FirstStage(a) ==
  /\ at[a] = "first"
  /\ \/ \E p \in BOOLEAN : /\ passes' = [passes EXCEPT ![a] = p]
                           /\ Announce(a, IF p THEN "pass" ELSE "fail")
                           /\ Goto(a, "second")
     \/ Announce(a, "fail") /\ Goto(a, "closeFailed") /\ UNCHANGED passes
     \/ Goto(a, "closeRaising") /\ UNCHANGED <<passes, primary>>
  /\ UNCHANGED <<main, failing, baselines, used, verdict, containers, previews>>

\* The other checks: a runner failure fails the record.
SecondStage(a) ==
  /\ at[a] = "second"
  /\ Goto(a, "close") \/ Goto(a, "closeFailed") \/ Goto(a, "closeRaising")
  /\ UNCHANGED <<main, failing, baselines, judgement, containers, previews>>

\* Where judging goes on once the referee's container is removed.
AfterClose(place) == CASE place = "close" -> "record"
                       [] place = "closeFailed" -> "recordFailed"
                       [] OTHER -> "raised"

CloseReferee(a) ==
  /\ at[a] \in Closing
  /\ \/ Removes(Box("referee", a)) /\ Goto(a, AfterClose(at[a]))
     \/ RemovalFails(Box("referee", a)) /\ Goto(a, "raised")
  /\ UNCHANGED <<main, failing, baselines, judgement, previews>>

\* Announced if nothing was; the review, the score record, the verdict event and
\* the report: each of these may raise.
Record(a) ==
  /\ at[a] \in {"record", "recordFailed"}
  /\ Announce(a, IF at[a] = "record" /\ passes[a] THEN "pass" ELSE "fail")
  /\ \/ /\ verdict' = [verdict EXCEPT ![a] =
                         IF at[a] = "record" /\ passes[a] THEN "pass" ELSE "fail"]
        /\ Goto(a, "judged") \/ Goto(a, "raised")
     \/ Goto(a, "raised") /\ UNCHANGED verdict
  /\ UNCHANGED <<main, failing, baselines, used, passes, containers, previews>>

-----------------------------------------------------------------------------
Caller == \/ OpenLog \/ StartPreviews \/ JoinArms \/ JoinThread \/ WriteRecord
          \/ \E a \in Arms : StopPreview(a)

GetsBaseline(w) == GetBaseline(w) \/ StartBaseline(w) \/ ComputeBaseline(w) \/ SaveBaseline(w)

RunsArm(a) == Setup(a) \/ RunAgent(a) \/ StopArm(a) \/ JoinBaseline(a)

Judges(a) == Judge(a) \/ FirstStage(a) \/ SecondStage(a) \/ CloseReferee(a) \/ Record(a)

Next ==
  \/ Caller
  \/ \E w \in Workers : GetsBaseline(w)
  \/ \E a \in Arms : RunsArm(a) \/ Judges(a) \/ EndPreview(a)

Spec == Init /\ [][Next]_vars

\* Every thread is scheduled and every command comes back, by its time limit if
\* not by itself; a preview's loop need not end.
FairSpec ==
  /\ Spec
  /\ WF_vars(Caller)
  /\ WF_vars(GetsBaseline(Thread))
  /\ \A a \in Arms : WF_vars(GetsBaseline(a) \/ RunsArm(a) \/ Judges(a))
-----------------------------------------------------------------------------
\* Types; the lock is held exactly by the worker that computes the baseline.
TypeOK ==
  /\ main \in {"open", "refused", "previews", "arms", "stop", "write", "returned", "raised"}
  /\ failing \in BOOLEAN
  /\ at \in [Workers -> Places]
  /\ holder \in Workers \cup {Nobody}
  /\ baseline \in Workers \cup {Nobody, "cached", "none"}
  /\ used \in [Arms -> Workers \cup {Nobody, "cached", "none"}]
  /\ passes \in [Arms -> BOOLEAN]
  /\ primary \in [Arms -> Seq({"pass", "fail"})]
  /\ verdict \in [Arms -> {"unsent", "pass", "fail"}]
  /\ live \in SUBSET Boxes /\ lost \in SUBSET Boxes
  /\ previewing \in SUBSET Arms /\ toStop \in SUBSET Arms
  /\ \A w \in Workers : at[w] \in Computing <=> holder = w

\* Both arms are judged with the same baseline, whoever computes it and
\* whatever failed before (Referee's docstring, baseline).
SameBaseline ==
  \A a, b \in Arms : used[a] # Nobody /\ used[b] # Nobody => used[a] = used[b]

\* An arm with a verdict had exactly one primary verdict before it, and a pass
\* is one both times: what comes after the primary verdict can only take it back
\* (announce, _judge_build, _record).
VerdictKeepsPrimary ==
  \A a \in Arms :
    /\ Len(primary[a]) <= 1
    /\ verdict[a] # "unsent" => Len(primary[a]) = 1
    /\ verdict[a] = "pass" => primary[a] = <<"pass">>

\* When run_ab returns or raises, every container that its threads started has
\* been removed, except those whose removal failed (once the log was opened).
NoContainerOutlivesRun == main \in {"returned", "raised"} => live \subseteq lost

\* run_ab ends, whatever fails in its threads, and a run that returns has a
\* verdict for every arm.
RunEnds ==
  /\ <>(main \in {"refused", "returned", "raised"})
  /\ [](main = "returned" => \A a \in Arms : verdict[a] # "unsent")
=============================================================================
