------------------------------- MODULE RunLog -------------------------------
(***************************************************************************)
(* The run log: EventBus.publish appends one line per event, one process   *)
(* at a time (OneWriter stands for the lock); a process that opens the log *)
(* continues its sequence numbers.  The console tails the file and streams *)
(* the events to a browser, which reconnects with the last id it received. *)
(***************************************************************************)
EXTENDS Integers, Sequences, FiniteSets, OneWriter

CONSTANTS
  TornWrites,     \* a dying writer may leave a part of a line
  MaxLines,       \* bound on the complete lines of the log
  MaxReconnects   \* bound on lost connections

ASSUME RunLogAssumption ==
  TornWrites \in BOOLEAN /\ MaxLines \in Nat /\ MaxReconnects \in Nat

VARIABLES
  log,        \* the complete lines: a sequence number, and whether it parses
  tail,       \* after the last newline: nothing, part of a line, or a part
              \* of a line with another line's start appended to it
  writing,    \* per process: whether publish is writing its line
  seq,        \* per process: EventBus._seq
  published,  \* the events whose publish returned
  offset,     \* LogTail.offset, in lines
  last,       \* sse_events' last
  sent,       \* messages on their way to the browser
  received,   \* what the browser got
  reconnects  \* lost connections so far

logVars == <<log, tail, writing, seq, published>>
readerVars == <<offset, last, sent, received, reconnects>>
vars == <<writers, logVars, readerVars>>

Line == [seq : Nat, valid : BOOLEAN]

\* The sequence numbers of the readable lines m + 1 to n of l that are above
\* after, in order.  A recursive function, so that RunLogProofs can prove about it.
EventsBetween(l, m, n, after) ==
  LET events[i \in Nat] ==
        IF i = 0 THEN <<>>
        ELSE IF i > m /\ l[i].valid /\ l[i].seq > after THEN Append(events[i - 1], l[i].seq)
        ELSE events[i - 1]
  IN  events[n]

\* What read_events yields from the complete lines l.
Readable(l) == EventsBetween(l, 0, Len(l), -1)

LastSeq(s) == IF s = <<>> THEN 0 ELSE s[Len(s)]
HighestSeq(s) == CHOOSE n \in {0} \cup {s[i] : i \in DOMAIN s} :
                   \A i \in DOMAIN s : s[i] <= n

RunLogInit ==
  /\ Init
  /\ log = <<>> /\ tail = "nothing"
  /\ writing = [p \in Openers |-> FALSE]
  /\ seq = [p \in Openers |-> 0]
  /\ published = <<>>
  /\ offset = 0 /\ last = 0 /\ sent = <<>> /\ received = <<>> /\ reconnects = 0

\* Mutant of OpenLog: the sequence starts anew.
OpenLogAnew(p) ==
  /\ Open(p)
  /\ seq' = [seq EXCEPT ![p] = 0]
  /\ UNCHANGED <<log, tail, writing, published, readerVars>>

\* EventBus.__init__, once it has the lock.
OpenLog(p) ==
  /\ Open(p)
  /\ seq' = [seq EXCEPT ![p] = HighestSeq(Readable(log))]
  /\ UNCHANGED <<log, tail, writing, published, readerVars>>

\* publish takes the mutex and starts to write its line.
PublishBegin(p) ==
  /\ p \in writers /\ ~writing[p]
  /\ Len(log) < MaxLines
  /\ seq' = [seq EXCEPT ![p] = @ + 1]
  /\ writing' = [writing EXCEPT ![p] = TRUE]
  /\ tail' = IF tail = "nothing" THEN "part" ELSE "glued"
  /\ UNCHANGED <<writers, log, published, readerVars>>

\* The rest of the line and its newline are in the file; publish returns.
PublishEnd(p) ==
  /\ writing[p]
  /\ log' = Append(log, [seq |-> seq[p], valid |-> tail = "part"])
  /\ tail' = "nothing"
  /\ writing' = [writing EXCEPT ![p] = FALSE]
  /\ published' = Append(published, seq[p])
  /\ UNCHANGED <<writers, seq, readerVars>>

\* Mutant of CloseLog: a thread of the process is still publishing.
CloseEarly(p) == Leave(p) /\ UNCHANGED <<logVars, readerVars>>

\* close, which takes no lock: the process has joined its threads before.
CloseLog(p) ==
  /\ Leave(p) /\ ~writing[p]
  /\ UNCHANGED <<logVars, readerVars>>

\* The writer is killed, before it wrote anything of a line or in the middle.
Crash(p) ==
  /\ Leave(p)
  /\ writing' = [writing EXCEPT ![p] = FALSE]
  /\ \/ tail' = IF writing[p] THEN IF tail = "glued" THEN "part" ELSE "nothing"
                ELSE tail
     \/ TornWrites /\ writing[p] /\ UNCHANGED tail
  /\ UNCHANGED <<log, seq, published, readerVars>>

\* Mutants of NewEvents: every event is sent again; only one is sent.
NewEventsAgain(l, from, after) == EventsBetween(l, from, Len(l), 0)
NewEventsFirst(l, from, after) ==
  LET new == EventsBetween(l, from, Len(l), after)
  IN  IF new = <<>> THEN <<>> ELSE <<Head(new)>>

\* What LogTail.read has to read from the offset, without the events that
\* sse_events (and follow_events) has yielded.
NewEvents(l, from, after) == EventsBetween(l, from, Len(l), after)

Poll ==
  /\ offset < Len(log)
  /\ LET new == NewEvents(log, offset, last)
     IN  sent' = sent \o new /\ last' = IF new = <<>> THEN last ELSE LastSeq(new)
  /\ offset' = Len(log)
  /\ UNCHANGED <<writers, logVars, received, reconnects>>

Receive ==
  /\ sent # <<>>
  /\ received' = Append(received, Head(sent))
  /\ sent' = Tail(sent)
  /\ UNCHANGED <<writers, logVars, offset, last, reconnects>>

\* The connection is lost with what was under way; the browser reconnects with
\* Last-Event-ID and the server tails the log from its start.
Reconnect ==
  /\ reconnects < MaxReconnects
  /\ reconnects' = reconnects + 1
  /\ sent' = <<>> /\ offset' = 0 /\ last' = LastSeq(received)
  /\ UNCHANGED <<writers, logVars, received>>

RunLogNext ==
  \/ \E p \in Openers : OpenLog(p) \/ PublishBegin(p) \/ PublishEnd(p)
                        \/ CloseLog(p) \/ Crash(p)
  \/ Poll \/ Receive \/ Reconnect

RunLogSpec == RunLogInit /\ [][RunLogNext]_vars

\* The server polls while a client is connected, and the network delivers.
FairRunLogSpec == RunLogSpec /\ WF_vars(Poll) /\ WF_vars(Receive)
-----------------------------------------------------------------------------
\* Types; only a writer writes, and there is a partial line while it does.
RunLogTypeOK ==
  /\ writers \in SUBSET Openers
  /\ log \in Seq(Line)
  /\ tail \in {"nothing", "part", "glued"}
  /\ writing \in [Openers -> BOOLEAN]
  /\ seq \in [Openers -> Nat]
  /\ published \in Seq(Nat)
  /\ offset \in 0..Len(log) /\ last \in Nat /\ reconnects \in 0..MaxReconnects
  /\ sent \in Seq(Nat) /\ received \in Seq(Nat)
  /\ \A p \in Openers : writing[p] => p \in writers /\ tail # "nothing"

IsPrefixOf(s, t) == Len(s) <= Len(t) /\ \A i \in DOMAIN s : s[i] = t[i]

\* Whatever is received and under way is, without a gap or a repetition, the
\* start of the readable log, across writers, polls and lost connections.
StreamHasNoGap == IsPrefixOf(received \o sent, Readable(log))

\* The log, its writers and the stream are an event stream: numbers only grow
\* from writer to writer, and the browser gets each event once, in order.
Stream == INSTANCE EventStream WITH events <- Readable(log)
ImplementsEventStream == Stream!Spec

\* publish's docstring: it appends one JSON line: an event whose publish
\* returned is a line of the log that readers can use.
PublishedIsReadable ==
  \A i \in DOMAIN published : \E j \in DOMAIN Readable(log) : Readable(log)[j] = published[i]

\* Every event that a reader can read reaches the browser in the end, whatever
\* connections are lost (sse_events, follow_events).
EveryEventArrives ==
  \A n \in 1..MaxLines : Len(Readable(log)) >= n ~> Len(received) >= n
=============================================================================
