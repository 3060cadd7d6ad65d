---------------------------- MODULE CostTracker -----------------------------
(***************************************************************************)
(* shipharness.cost.tracker: several commands (processes) append to one    *)
(* cost ledger.  Each command keeps running totals in memory, guarded by   *)
(* its own re-entrant lock, and its arms (threads) hold the worst case of  *)
(* a model call against every cap before making the call.  Amounts are     *)
(* naturals (the code's dollars, rounded to nine decimals).                *)
(***************************************************************************)
EXTENDS Integers, Sequences, PrefixSums

CONSTANTS
  NCommands,      \* commands 1..NCommands that use the ledger
  NArms,          \* concurrent callers in one command: arms or reviews
  Sessions,       \* the class sessions
  SessionOf,      \* the session_id of each command
  NoSession,      \* the session of an opening balance (the empty string)
  IsExperiment,   \* the experiment flag of each command
  RunCap, BatchCap, SessionCap, ExperimentCap, BuildCap,
  WorstCases,     \* the worst cases calls may have
  MaxWorst,       \* an upper bound of WorstCases
  ActualCosts,    \* the costs responses may have
  EstimatesHold,  \* no call costs more than its worst case
  OpeningAmounts, \* amounts record_opening_balance may be called with
  MaxEntries      \* bound on the ledger's length

Commands == 1..NCommands
Arms == 1..NArms

ASSUME CostAssumption ==
  /\ NCommands \in Nat \ {0} /\ NArms \in Nat \ {0}
  /\ IsExperiment \in [Commands -> BOOLEAN]
  /\ SessionOf \in [Commands -> Sessions] /\ NoSession \notin Sessions
  /\ {RunCap, BatchCap, SessionCap, ExperimentCap, BuildCap} \subseteq Nat
  /\ WorstCases \subseteq Nat /\ ActualCosts \subseteq Nat
  /\ MaxWorst \in Nat /\ \A w \in WorstCases : w <= MaxWorst
  /\ OpeningAmounts \subseteq Nat
  /\ EstimatesHold \in BOOLEAN
  /\ MaxEntries \in Nat

VARIABLES
  ledger,     \* the shared file: one entry per line, complete lines only
  running,    \* the commands that are running
  offset,     \* per command: the ledger entries already counted
  batch, session, experiment, build,   \* per command: the running totals
  reserved,   \* per command: worst cases of its calls in flight
  scope,      \* per arm: spent and reserved of its CostScope
  call,       \* per arm: its Reservation
  raised,     \* per arm: whether its last tracker call raised CapExceeded
  appending   \* the record() that holds the ledger's file lock

vars == <<ledger, running, offset, batch, session, experiment, build,
          reserved, scope, call, raised, appending>>

totals == <<batch, session, experiment, build>>

-----------------------------------------------------------------------------
(* The ledger and the totals counted from it.                              *)

Entry == [session : Sessions \cup {NoSession}, experiment : BOOLEAN, opening : BOOLEAN, cost : Nat]

\* The part of each entry that counts towards the total of command c.
BuildPart(l) == [i \in DOMAIN l |-> l[i].cost]
ExperimentPart(l) == [i \in DOMAIN l |-> IF l[i].experiment THEN l[i].cost ELSE 0]
SessionPart(l, c) ==
  [i \in DOMAIN l |-> IF ~l[i].experiment /\ l[i].session = SessionOf[c]
                      THEN l[i].cost ELSE 0]

\* What _absorb adds when command c reads the ledger from its offset to the end.
NewBuild(c) == SumBetween(BuildPart(ledger), offset[c], Len(ledger))
NewExperiment(c) == SumBetween(ExperimentPart(ledger), offset[c], Len(ledger))
NewSession(c) == SumBetween(SessionPart(ledger, c), offset[c], Len(ledger))

\* Mutants of ReadNew: never read again, or read again from the old offset.
ReadNewNever(c) == UNCHANGED <<build, experiment, session, offset>>
ReadNewKeepsOffset(c) ==
  /\ build' = [build EXCEPT ![c] = @ + NewBuild(c)]
  /\ experiment' = [experiment EXCEPT ![c] = @ + NewExperiment(c)]
  /\ session' = [session EXCEPT ![c] = @ + NewSession(c)]
  /\ UNCHANGED offset

\* _read_new: count what other commands appended since the last read.
ReadNew(c) ==
  /\ build' = [build EXCEPT ![c] = @ + NewBuild(c)]
  /\ experiment' = [experiment EXCEPT ![c] = @ + NewExperiment(c)]
  /\ session' = [session EXCEPT ![c] = @ + NewSession(c)]
  /\ offset' = [offset EXCEPT ![c] = Len(ledger)]

-----------------------------------------------------------------------------
(* Caps.                                                                   *)

\* Mutants of Crosses: calls in flight are not counted; the batch cap counts
\* only the arm's own calls.
CrossesIgnoringHeld(c, a, t, ownHeld, sharedHeld, amount) ==
  \/ t.spent + amount > RunCap
  \/ t.batch + amount > BatchCap
  \/ t.build + amount > BuildCap
  \/ IF IsExperiment[c] THEN t.experiment + amount > ExperimentCap
                        ELSE t.session + amount > SessionCap
CrossesWithOwnHeld(c, a, t, ownHeld, sharedHeld, amount) ==
  \/ t.spent + ownHeld + amount > RunCap
  \/ t.batch + ownHeld + amount > BatchCap
  \/ t.build + ownHeld + amount > BuildCap
  \/ IF IsExperiment[c] THEN t.experiment + ownHeld + amount > ExperimentCap
                        ELSE t.session + ownHeld + amount > SessionCap

\* _active_limits: whether amount more passes a cap that applies to arm a of
\* command c, given the command's totals t and the amounts held.
Crosses(c, a, t, ownHeld, sharedHeld, amount) ==
  \/ t.spent + ownHeld + amount > RunCap
  \/ t.batch + sharedHeld + amount > BatchCap
  \/ t.build + sharedHeld + amount > BuildCap
  \/ IsExperiment[c] /\ t.experiment + sharedHeld + amount > ExperimentCap
  \/ ~IsExperiment[c] /\ t.session + sharedHeld + amount > SessionCap

TotalsAfter(c, a) ==
  [spent |-> scope[c][a].spent, batch |-> batch[c], build |-> build'[c],
   experiment |-> experiment'[c], session |-> session'[c]]

\* The tracker's lock is free: no arm of c is inside record().
Unlocked(c) == \/ appending = {}
               \/ \A r \in appending : r.cmd # c

Idle == [open |-> FALSE, amount |-> 0]
FreshScope == [spent |-> 0, reserved |-> 0]

AtLeastZero(n) == IF n < 0 THEN 0 ELSE n

\* Mutant of ReleaseLocked: the tracker's hold is given back, the scope's kept.
ReleaseTrackerOnly(c, a) ==
  /\ call' = [call EXCEPT ![c][a].open = FALSE]
  /\ reserved' = [reserved EXCEPT ![c] = AtLeastZero(@ - call[c][a].amount)]
  /\ UNCHANGED scope

\* _release_locked, for a reservation that is still open.
ReleaseLocked(c, a) ==
  /\ call' = [call EXCEPT ![c][a].open = FALSE]
  /\ scope' = [scope EXCEPT ![c][a].reserved = AtLeastZero(@ - call[c][a].amount)]
  /\ reserved' = [reserved EXCEPT ![c] = AtLeastZero(@ - call[c][a].amount)]

-----------------------------------------------------------------------------
Init ==
  /\ ledger = <<>>
  /\ running = {}
  /\ offset = [c \in Commands |-> 0]
  /\ batch = [c \in Commands |-> 0]
  /\ session = [c \in Commands |-> 0]
  /\ experiment = [c \in Commands |-> 0]
  /\ build = [c \in Commands |-> 0]
  /\ reserved = [c \in Commands |-> 0]
  /\ scope = [c \in Commands |-> [a \in Arms |-> FreshScope]]
  /\ call = [c \in Commands |-> [a \in Arms |-> Idle]]
  /\ raised = [c \in Commands |-> [a \in Arms |-> FALSE]]
  /\ appending = {}

\* A command creates its tracker, which counts the whole ledger.
Start(c) ==
  /\ c \notin running
  /\ running' = running \cup {c}
  /\ ReadNew(c)
  /\ UNCHANGED <<ledger, batch, reserved, scope, call, raised, appending>>

\* A run or a review gets a scope of its own.
NewScope(c, a) ==
  /\ c \in running
  /\ ~call[c][a].open
  /\ \A r \in appending : <<r.cmd, r.arm>> # <<c, a>>
  /\ scope' = [scope EXCEPT ![c][a] = FreshScope]
  /\ raised' = [raised EXCEPT ![c][a] = FALSE]
  /\ UNCHANGED <<ledger, running, offset, totals, reserved, call, appending>>

\* reserve: read the ledger, check every cap and hold the worst case w.
Reserve(c, a, w) ==
  /\ c \in running
  /\ Unlocked(c)
  /\ ~call[c][a].open
  /\ ReadNew(c)
  /\ IF Crosses(c, a, TotalsAfter(c, a), scope[c][a].reserved, reserved[c], w)
     THEN /\ raised' = [raised EXCEPT ![c][a] = TRUE]
          /\ UNCHANGED <<scope, reserved, call>>
     ELSE /\ raised' = [raised EXCEPT ![c][a] = FALSE]
          /\ scope' = [scope EXCEPT ![c][a].reserved = @ + w]
          /\ reserved' = [reserved EXCEPT ![c] = @ + w]
          /\ call' = [call EXCEPT ![c][a] = [open |-> TRUE, amount |-> w]]
  /\ UNCHANGED <<ledger, running, batch, appending>>

\* release: the call failed or was never made.
Release(c, a) ==
  /\ c \in running
  /\ Unlocked(c)
  /\ call[c][a].open
  /\ ReleaseLocked(c, a)
  /\ UNCHANGED <<ledger, running, offset, totals, raised, appending>>

\* Mutant of SettleBegin: the ledger's file lock is not taken.
SettleWithoutFileLock(c, a, x) ==
  /\ c \in running /\ Unlocked(c) /\ call[c][a].open
  /\ Len(ledger) < MaxEntries
  /\ EstimatesHold => x <= call[c][a].amount
  /\ ReleaseLocked(c, a)
  /\ ReadNew(c)
  /\ appending' = appending \cup {[cmd |-> c, arm |-> a, cost |-> x]}
  /\ UNCHANGED <<ledger, running, batch, raised>>

\* settle, up to the append: release, take the file lock, count the entries
\* other commands wrote first.  The response cost x.
SettleBegin(c, a, x) ==
  /\ c \in running
  /\ Unlocked(c)
  /\ call[c][a].open
  /\ appending = {}
  /\ Len(ledger) < MaxEntries
  /\ EstimatesHold => x <= call[c][a].amount
  /\ ReleaseLocked(c, a)
  /\ ReadNew(c)
  /\ appending' = {[cmd |-> c, arm |-> a, cost |-> x]}
  /\ UNCHANGED <<ledger, running, batch, raised>>

\* The rest of record: append the entry, move the offset to the end of the
\* file, unlock, add the cost to the totals, raise if a cap is now crossed.  The
\* line is there whole or not at all: a command killed inside its write is left out.
SettleEnd ==
  \E r \in appending :
    LET c == r.cmd
        a == r.arm
        exp == IsExperiment[c]
        after == [spent |-> scope[c][a].spent + r.cost, batch |-> batch[c] + r.cost,
                  build |-> build'[c], experiment |-> experiment'[c],
                  session |-> session'[c]]
    IN
    /\ ledger' = Append(ledger, [session |-> SessionOf[c], experiment |-> exp,
                                 opening |-> FALSE, cost |-> r.cost])
    /\ offset' = [offset EXCEPT ![c] = Len(ledger) + 1]
    /\ scope' = [scope EXCEPT ![c][a].spent = @ + r.cost]
    /\ batch' = [batch EXCEPT ![c] = @ + r.cost]
    /\ build' = [build EXCEPT ![c] = @ + r.cost]
    /\ experiment' = [experiment EXCEPT ![c] = IF exp THEN @ + r.cost ELSE @]
    /\ session' = [session EXCEPT ![c] = IF exp THEN @ ELSE @ + r.cost]
    /\ raised' = [raised EXCEPT ![c][a] = Crosses(c, a, after, 0, 0, 0)]
    /\ appending' = {}
    /\ UNCHANGED <<running, reserved, call>>

\* A total is read (summary, or one of the total properties).
Refresh(c) ==
  /\ c \in running
  /\ Unlocked(c)
  /\ ReadNew(c)
  /\ UNCHANGED <<ledger, running, batch, reserved, scope, call, raised, appending>>

\* record_opening_balance: once, to a ledger that exists, without the file lock.
RecordOpeningBalance(x) ==
  /\ Len(ledger) \in 1..(MaxEntries - 1)
  /\ \A i \in DOMAIN ledger : ~ledger[i].opening
  /\ ledger' = Append(ledger, [session |-> NoSession, experiment |-> FALSE,
                               opening |-> TRUE, cost |-> x])
  /\ UNCHANGED <<running, offset, totals, reserved, scope, call, raised, appending>>

\* A command ends or is killed: its memory and its file lock are gone.
Stop(c) ==
  /\ c \in running
  /\ running' = running \ {c}
  /\ offset' = [offset EXCEPT ![c] = 0]
  /\ batch' = [batch EXCEPT ![c] = 0]
  /\ session' = [session EXCEPT ![c] = 0]
  /\ experiment' = [experiment EXCEPT ![c] = 0]
  /\ build' = [build EXCEPT ![c] = 0]
  /\ reserved' = [reserved EXCEPT ![c] = 0]
  /\ scope' = [scope EXCEPT ![c] = [a \in Arms |-> FreshScope]]
  /\ call' = [call EXCEPT ![c] = [a \in Arms |-> Idle]]
  /\ raised' = [raised EXCEPT ![c] = [a \in Arms |-> FALSE]]
  /\ appending' = {r \in appending : r.cmd # c}
  /\ UNCHANGED ledger

Next ==
  \/ \E c \in Commands : Start(c) \/ Refresh(c) \/ Stop(c)
  \/ \E c \in Commands, a \in Arms : NewScope(c, a) \/ Release(c, a)
  \/ \E c \in Commands, a \in Arms, w \in WorstCases : Reserve(c, a, w)
  \/ \E c \in Commands, a \in Arms, x \in ActualCosts : SettleBegin(c, a, x)
  \/ SettleEnd
  \/ \E x \in OpeningAmounts : RecordOpeningBalance(x)

Spec == Init /\ [][Next]_vars
-----------------------------------------------------------------------------
(* Properties.                                                             *)

\* Every variable has its type; at most one record() holds the file lock.
TypeOK ==
  /\ ledger \in Seq(Entry)
  /\ running \in SUBSET Commands
  /\ offset \in [Commands -> Nat]
  /\ batch \in [Commands -> Nat] /\ session \in [Commands -> Nat]
  /\ experiment \in [Commands -> Nat] /\ build \in [Commands -> Nat]
  /\ reserved \in [Commands -> Nat]
  /\ scope \in [Commands -> [Arms -> [spent : Nat, reserved : Nat]]]
  /\ call \in [Commands -> [Arms -> [open : BOOLEAN, amount : Nat]]]
  /\ raised \in [Commands -> [Arms -> BOOLEAN]]
  /\ appending \in SUBSET [cmd : Commands, arm : Arms, cost : Nat]
  /\ \A r, q \in appending : r = q

\* The amounts the open reservations of command c hold, one term per arm.
OpenAmounts(c) == [a \in Arms |-> IF call[c][a].open THEN call[c][a].amount ELSE 0]

\* What a call that has been released but not yet added to the totals costs.
Pending(c) == IF \E r \in appending : r.cmd = c
              THEN (CHOOSE r \in appending : r.cmd = c).cost ELSE 0

\* The command's total counts the ledger up to its offset, or everything there
\* but the opening balance.
BuildAgrees(c) ==
  \/ build[c] = SumTo(BuildPart(ledger), offset[c])
  \/ \E i \in 1..offset[c] :
       ledger[i].opening /\ build[c] + ledger[i].cost = SumTo(BuildPart(ledger), offset[c])

\* Each running total is the sum of exactly the ledger entries up to the
\* command's offset, whatever the commands interleave: no entry is counted
\* twice, none is skipped (_read_new, _absorb and the offset kept by record).
\* One entry may be: an opening balance, which is appended without the file
\* lock, is in no total if it falls inside a record.
TotalsAgreeWithLedger ==
  \A c \in running :
    /\ offset[c] <= Len(ledger)
    /\ BuildAgrees(c)
    /\ experiment[c] = SumTo(ExperimentPart(ledger), offset[c])
    /\ session[c] = SumTo(SessionPart(ledger, c), offset[c])

\* What the tracker holds is exactly what its open reservations hold, so a
\* reservation is given back once and only once (reserve, release, settle).
HeldIsWhatOpenCallsHold ==
  \A c \in Commands :
    /\ reserved[c] = SumTo(OpenAmounts(c), NArms)
    /\ \A a \in Arms : scope[c][a].reserved = OpenAmounts(c)[a]

\* While no call costs more than its worst case, concurrent arms of a command
\* cannot together pass its batch cap, nor a run its own cap, even if every
\* call in flight costs its worst case (reserve checks and holds in one step).
CapsHoldWithinCommand ==
  EstimatesHold =>
    \A c \in Commands :
      /\ batch[c] + reserved[c] + Pending(c) <= BatchCap
      /\ \A a \in Arms : scope[c][a].spent + scope[c][a].reserved <= RunCap

\* Everything spent by any command, the opening balance, and everything the
\* calls in flight may still cost.
LedgerTotal == SumTo(BuildPart(ledger), Len(ledger))
OpeningPart(l) == [i \in DOMAIN l |-> IF l[i].opening THEN l[i].cost ELSE 0]
Opened == SumTo(OpeningPart(ledger), Len(ledger))
InFlight(c) == reserved[c] + Pending(c)
AllInFlight == SumTo([c \in Commands |-> InFlight(c)], NCommands)

\* Reservations are not shared between commands, so the build cap can be
\* passed, but never by more than what the other commands had in flight, and
\* an opening balance that comes while they run; with one command and without
\* an opening balance it is never passed (check_before_call, _refresh_locked).
BuildOvershootBounded ==
  EstimatesHold =>
    LedgerTotal + AllInFlight <= BuildCap + Opened + (NCommands - 1) * (NArms * MaxWorst)

\* A step that records a call and finds that its cost, which was no more than
\* what the call had held, crosses a cap.
PaidCallRaises ==
  /\ EstimatesHold /\ Len(ledger') > Len(ledger)
  /\ \E r \in appending : raised'[r.cmd][r.arm]

\* The batch cap of a command is a budget: reserve holds, settle and release
\* give back, a new command starts anew.  The commands are alike: command 1.
BatchBudget == INSTANCE CapBudget WITH
  Cap <- BatchCap, spent <- batch[1] + Pending(1), held <- reserved[1]
BatchCapIsABudget == BatchBudget!Spec

=============================================================================
