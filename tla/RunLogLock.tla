----------------------------- MODULE RunLogLock -----------------------------
(***************************************************************************)
(* shipharness.events.bus: the lock file of a run log.  A process creates  *)
(* the file exclusively and then writes its pid into it; one that finds    *)
(* the file of a dead process renames it aside, compares its content with  *)
(* what it had read, and removes it or puts it back.  A file is named by   *)
(* the process that created it, so its pid is alive while that process is. *)
(***************************************************************************)
EXTENDS Naturals, FiniteSets

CONSTANTS
  Processes,    \* processes that each open the log once
  OldFile,      \* a lock file that a process left when it died before
  NoFile,       \* no file; also the content of a file without a pid
  LeftOver,     \* which lock files may be there at first: subset of
                \*   {"none", "pid", "empty"}
  MayDie        \* whether processes may die

Files == Processes \cup {OldFile}

ASSUME LockAssumption ==
  /\ OldFile \notin Processes /\ NoFile \notin Files
  /\ LeftOver \subseteq {"none", "pid", "empty"}
  /\ MayDie \in BOOLEAN

VARIABLES
  at,       \* the file at the lock's path
  aside,    \* per process: the file it renamed aside
  written,  \* the files that hold a pid
  saw,      \* per process: the content it read from the lock file
  pc        \* per process: its place in _acquire_lock and _reclaim_stale_lock

lockVars == <<at, aside, written, saw, pc>>

\* first, second: the two attempts of _acquire_lock to create the file.
Places == {"first", "inspect", "move", "recheck", "restore", "second", "create",
           "open", "closed", "refused", "dead"}

Content(f) == IF f \in written THEN f ELSE NoFile
Alive(f) == f \in Processes /\ pc[f] # "dead"
Goto(p, place) == pc' = [pc EXCEPT ![p] = place]

LockInit ==
  /\ \E left \in LeftOver : /\ at = IF left = "none" THEN NoFile ELSE OldFile
                            /\ written = IF left = "pid" THEN {OldFile} ELSE {}
  /\ aside = [p \in Processes |-> NoFile]
  /\ saw = [p \in Processes |-> NoFile]
  /\ pc = [p \in Processes |-> "first"]

\* os.open(O_CREAT | O_EXCL): it creates the file, or the file exists.
TryOpen(p) ==
  /\ pc[p] \in {"first", "second"}
  /\ IF at = NoFile THEN at' = p /\ Goto(p, "create")
     ELSE UNCHANGED at /\ Goto(p, IF pc[p] = "first" THEN "inspect" ELSE "refused")
  /\ UNCHANGED <<aside, written, saw>>

WritePid(p) ==
  /\ pc[p] = "create"
  /\ written' = written \cup {p}
  /\ Goto(p, "open")
  /\ UNCHANGED <<at, aside, saw>>

\* Mutants of Stale: every pid counts as alive, or none does.
StaleOnlyIfEmpty(f) == f \notin written /\ ~Alive(f)
StaleOnceWritten(f) == ~Alive(f) \/ f \in written

\* _lock_is_stale: a dead process's pid; a file without a pid is stale when it
\* is old, which the file of a live process (about to write it) is not.
Stale(f) == ~Alive(f)

\* A file without a pid may be too young to be stale.
Inspect(p) ==
  /\ pc[p] = "inspect"
  /\ IF at = NoFile THEN saw' = [saw EXCEPT ![p] = NoFile] /\ Goto(p, "move")
     ELSE /\ saw' = [saw EXCEPT ![p] = Content(at)]
          /\ \/ Stale(at) /\ Goto(p, "move")
             \/ (~Stale(at) \/ at \notin written) /\ Goto(p, "refused")
  /\ UNCHANGED <<at, aside, written>>

\* Mutant of Move: the lock is copied, not renamed.
MoveCopies(p) ==
  /\ pc[p] = "move"
  /\ IF at = NoFile THEN UNCHANGED aside /\ Goto(p, "second")
     ELSE aside' = [aside EXCEPT ![p] = at] /\ Goto(p, "recheck")
  /\ UNCHANGED <<at, written, saw>>

\* os.rename to a name of its own.
Move(p) ==
  /\ pc[p] = "move"
  /\ IF at = NoFile THEN UNCHANGED <<at, aside>> /\ Goto(p, "second")
     ELSE aside' = [aside EXCEPT ![p] = at] /\ at' = NoFile /\ Goto(p, "recheck")
  /\ UNCHANGED <<written, saw>>

\* Mutant of Recheck: the content is not read again.
RecheckNever(p) ==
  /\ pc[p] = "recheck"
  /\ aside' = [aside EXCEPT ![p] = NoFile] /\ Goto(p, "second")
  /\ UNCHANGED <<at, written, saw>>

\* The file renamed aside is the one that was stale (and is removed), or not.
Recheck(p) ==
  /\ pc[p] = "recheck"
  /\ IF Content(aside[p]) = saw[p]
     THEN aside' = [aside EXCEPT ![p] = NoFile] /\ Goto(p, "second")
     ELSE UNCHANGED aside /\ Goto(p, "restore")
  /\ UNCHANGED <<at, written, saw>>

\* os.rename back, over whatever file has come to the lock's path.
Restore(p) ==
  /\ pc[p] = "restore"
  /\ at' = aside[p]
  /\ aside' = [aside EXCEPT ![p] = NoFile]
  /\ Goto(p, "refused")
  /\ UNCHANGED <<written, saw>>

\* close: whatever is at the lock's path is removed.
Close(p) ==
  /\ pc[p] = "open"
  /\ at' = NoFile
  /\ Goto(p, "closed")
  /\ UNCHANGED <<aside, written, saw>>

\* A process is killed, or ends; a file it renamed aside stays aside.
Die(p) ==
  /\ MayDie \/ pc[p] \in {"closed", "refused"}
  /\ pc[p] # "dead"
  /\ Goto(p, "dead")
  /\ UNCHANGED <<at, aside, written, saw>>

Step(p) == \/ TryOpen(p) \/ WritePid(p) \/ Inspect(p) \/ Move(p)
           \/ Recheck(p) \/ Restore(p)

LockNext == \E p \in Processes : Step(p) \/ Close(p) \/ Die(p)

LockSpec == LockInit /\ [][LockNext]_lockVars
-----------------------------------------------------------------------------
\* Types; a file is in one place at a time.
TypeOK ==
  /\ at \in Files \cup {NoFile}
  /\ aside \in [Processes -> Files \cup {NoFile}]
  /\ written \in SUBSET Files
  /\ saw \in [Processes -> Files \cup {NoFile}]
  /\ pc \in [Processes -> Places]
  /\ \A p \in Processes : aside[p] # NoFile =>
       aside[p] # at /\ \A q \in Processes \ {p} : aside[q] # aside[p]

Writers == {p \in Processes : pc[p] = "open"}

\* EventBus's docstring: one writer per run log.
OneWriterPerRunLog == Cardinality(Writers) <= 1

\* A reclaimer never removes the lock of a live process that holds its pid: it
\* removes what it had read, and it had read a dead process's pid or none.
PidLockNeverDropped ==
  [][\A p \in Processes :
       pc[p] = "recheck" /\ pc'[p] = "second" =>
         ~(Alive(aside[p]) /\ aside[p] \in written)]_lockVars
=============================================================================
