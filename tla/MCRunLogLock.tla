--------------------------- MODULE MCRunLogLock -----------------------------
(***************************************************************************)
(* Small instances of RunLogLock: all the processes contend for a log, or  *)
(* for the lock that a dead process left, and run to their end; or two of  *)
(* them open a log without a lock and may die anywhere.                    *)
(***************************************************************************)
EXTENDS RunLogLock

VARIABLE taking   \* the processes that take part

MCInit == LockInit /\ \/ taking = Processes
                      \/ at = NoFile /\ \E p \in Processes : taking = Processes \ {p}

Mortal == taking # Processes

MCNext ==
  /\ UNCHANGED taking
  /\ \E p \in taking : \/ Step(p) \/ Close(p)
                       \/ (Mortal \/ pc[p] \in {"closed", "refused"}) /\ Die(p)

MCSpec == /\ MCInit /\ [][MCNext]_<<lockVars, taking>>
          /\ \A p \in Processes : WF_lockVars(p \in taking /\ Step(p))

\* Two processes that open a log without a lock: it has one writer at a time.
\* (It has not for three, nor for two and a lock left over: OneWriterPerRunLog.)
PairMutex == INSTANCE OneWriter WITH
  Openers <- Processes, writers <- IF Mortal THEN Writers ELSE {}
PairImplementsOneWriter == PairMutex!Spec

\* A lock left by a dead writer, or processes that contend for it, never keep
\* everyone out: one of the processes that try gets to write.
SomebodyOpens == ~Mortal => <>(Writers # {})
=============================================================================
