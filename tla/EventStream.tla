---------------------------- MODULE EventStream -----------------------------
(* What a run log promises a reader: the events, each once and in order.    *)
EXTENDS Naturals, Sequences

VARIABLES
  events,     \* the sequence numbers of the events in the log
  received    \* those a reader got

streamVars == <<events, received>>

Init == events = <<>> /\ received = <<>>

Publish ==
  /\ Len(events') = Len(events) + 1
  /\ \A i \in DOMAIN events : /\ events'[i] = events[i]
                              /\ events[i] < events'[Len(events')]
  /\ UNCHANGED received

Receive ==
  /\ Len(received) < Len(events)
  /\ received' = Append(received, events[Len(received) + 1])
  /\ UNCHANGED events

Next == Publish \/ Receive

Spec == Init /\ [][Next]_streamVars
=============================================================================
