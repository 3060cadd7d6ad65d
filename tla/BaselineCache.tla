---------------------------- MODULE BaselineCache ----------------------------
(***************************************************************************)
(* The baseline caches: commands that judge the same task (A/Bs, make      *)
(* warm, the verify layer of an arm) read the baseline that one of them    *)
(* computed and saved.  A save writes a file beside the cached one and     *)
(* renames it; the name it writes to is the same in every command.  A file *)
(* is named by the command that created it; a name may come to mean        *)
(* another file while a command still writes to the one it opened.         *)
(***************************************************************************)
EXTENDS Naturals

CONSTANTS
  Commands,   \* the commands that want the baseline
  NoFile      \* nothing has this name

VARIABLES
  at,       \* per command: where it is
  cached,   \* the file at the cached path
  partial,  \* the file at the path a save writes to
  holds,    \* per file: which halves of a baseline it holds
  open,     \* per command: the file it writes to
  got       \* per command: the baseline it judges with, by its halves

vars == <<at, cached, partial, holds, open, got>>

Halves == {1, 2}
Goto(c, place) == at' = [at EXCEPT ![c] = place]

Init ==
  /\ at = [c \in Commands |-> "look"]
  /\ cached = NoFile /\ partial = NoFile
  /\ holds = [f \in Commands |-> {}]
  /\ open = [c \in Commands |-> NoFile]
  /\ got = [c \in Commands |-> Halves]

\* A cached baseline is read as it is, without a look at what it holds.
Look(c) ==
  /\ at[c] = "look"
  /\ \/ cached = NoFile /\ Goto(c, "compute") /\ UNCHANGED got
     \/ cached # NoFile /\ Goto(c, "judging") /\ got' = [got EXCEPT ![c] = holds[cached]]
  /\ UNCHANGED <<cached, partial, holds, open>>

\* The checks run on the clean checkpoint, or there is no baseline.
Compute(c) ==
  /\ at[c] = "compute"
  /\ Goto(c, "save") \/ Goto(c, "failed")
  /\ UNCHANGED <<cached, partial, holds, open, got>>

\* write_text opens the file, a new one or the one that is there, and empties it.
OpenPartial(c) ==
  /\ at[c] = "save"
  /\ LET file == IF partial = NoFile THEN c ELSE partial
     IN  /\ partial' = file /\ open' = [open EXCEPT ![c] = file]
         /\ holds' = [holds EXCEPT ![file] = {}]
  /\ Goto(c, "write")
  /\ UNCHANGED <<cached, got>>

\* write_text writes to the file it opened, wherever that has gone since.
WriteHalf(c) ==
  /\ at[c] \in {"write", "finish"}
  /\ holds' = [holds EXCEPT ![open[c]] = @ \cup {IF at[c] = "write" THEN 1 ELSE 2}]
  /\ Goto(c, IF at[c] = "write" THEN "finish" ELSE "rename")
  /\ UNCHANGED <<cached, partial, open, got>>

\* replace: what has the name now becomes the cached file.  If nothing has, it
\* raises: a referee has what it computed all the same, an arm does not start.
Rename(c) ==
  /\ at[c] = "rename"
  /\ \/ partial # NoFile /\ cached' = partial /\ partial' = NoFile /\ Goto(c, "judging")
     \/ partial = NoFile /\ UNCHANGED <<cached, partial>> /\ (Goto(c, "judging") \/ Goto(c, "failed"))
  /\ UNCHANGED <<holds, open, got>>

\* A command is stopped before it judges.
Kill(c) ==
  /\ at[c] \notin {"judging", "failed", "killed"}
  /\ Goto(c, "killed")
  /\ UNCHANGED <<cached, partial, holds, open, got>>

Next == \E c \in Commands : \/ Look(c) \/ Compute(c) \/ OpenPartial(c) \/ WriteHalf(c)
                            \/ Rename(c) \/ Kill(c)

Spec == Init /\ [][Next]_vars
-----------------------------------------------------------------------------
\* baseline's docstring: the "runner output on the clean checkpoint (computed
\* once, shared by both arms; reused across A/Bs of the same task through the
\* baseline cache)": whoever judges, judges with the whole of it.
JudgedWithWholeBaseline ==
  \A c \in Commands : at[c] = "judging" => got[c] = Halves
=============================================================================
