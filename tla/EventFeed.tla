----------------------------- MODULE EventFeed -----------------------------
(***************************************************************************)
(* What WatchItemEvents promises a peer, without tables, requests, queues  *)
(* and handlers: a call that has joined the feed is sent the log from that *)
(* point on, event by event and without a gap.  The feed may part with a   *)
(* peer that lags behind; such a call misses one event, is sent what else  *)
(* was due, and ends.  Over a connection that is up no other call ends.    *)
(***************************************************************************)
EXTENDS Integers, Sequences

CONSTANT Streams

VARIABLES log,   \* all events, in the order they were emitted
          due,   \* stream -> the part of the log that it is yet to be sent
          up,    \* the streams whose connection is up
          wire   \* stream -> sent and not yet taken by the peer

feedVars == <<log, due, up, wire>>

Nothing == [from |-> 1, to |-> 0, live |-> FALSE]
All     == [from |-> Len(log) + 1, to |-> Len(log), live |-> TRUE]

Init ==
    /\ log = <<>>
    /\ due = [s \in Streams |-> Nothing]
    /\ up = {}
    /\ wire = [s \in Streams |-> <<>>]

Lagging(s) == due[s].live /\ due[s].from <= due[s].to

\* One more event, due to all live streams but those the feed parts with.
Emit ==
    /\ Len(log') = Len(log) + 1
    /\ log' = Append(log, log'[Len(log')])
    /\ \E slow \in SUBSET {s \in Streams : Lagging(s)} :
         due' = [s \in Streams |->
                   IF s \in slow
                   THEN [from |-> due[s].from + 1, to |-> due[s].to, live |-> FALSE]
                   ELSE IF due[s].live THEN [due[s] EXCEPT !.to = @ + 1] ELSE due[s]]
    /\ UNCHANGED <<up, wire>>

Open(s) ==
    /\ due[s] = Nothing
    /\ up' = up \cup {s}
    /\ wire' = [wire EXCEPT ![s] = <<>>]
    /\ UNCHANGED <<log, due>>

Join(s) ==
    /\ s \in up /\ due[s] = Nothing /\ wire[s] = <<>>
    /\ due' = [due EXCEPT ![s] = All]
    /\ UNCHANGED <<log, up, wire>>

Send(s) ==
    /\ s \in up
    /\ due[s].from <= due[s].to
    /\ wire' = [wire EXCEPT ![s] = Append(@, log[due[s].from])]
    /\ due' = [due EXCEPT ![s].from = @ + 1]
    /\ UNCHANGED <<log, up>>

Take(s) ==
    /\ wire[s] # <<>>
    /\ wire' = [wire EXCEPT ![s] = Tail(@)]
    /\ UNCHANGED <<log, due, up>>

\* The call is over: everything due was sent, or nobody is there any more.
End(s) ==
    /\ s \in up => ~due[s].live /\ due[s].from > due[s].to
    /\ due' = [due EXCEPT ![s] = Nothing]
    /\ UNCHANGED <<log, up, wire>>

\* The connection is lost, with the last part of what is under way.
Cut(s) ==
    /\ up' = up \ {s}
    /\ \E n \in 0..Len(wire[s]) : wire' = [wire EXCEPT ![s] = SubSeq(@, 1, n)]
    /\ UNCHANGED <<log, due>>

\* All calls are over; the log is history and stays.
Crash ==
    /\ due' = [s \in Streams |-> Nothing]
    /\ up' = {}
    /\ UNCHANGED <<log, wire>>

Next ==
    \/ Emit \/ Crash
    \/ \E s \in Streams : Open(s) \/ Join(s) \/ Send(s) \/ Take(s) \/ End(s) \/ Cut(s)

Spec == Init /\ [][Next]_feedVars
=============================================================================
