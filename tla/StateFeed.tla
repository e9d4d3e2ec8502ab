----------------------------- MODULE StateFeed ------------------------------
(***************************************************************************)
(* What the broker promises to a client about one topic after another: it  *)
(* publishes state, not state changes (README, "Delivery guarantees").     *)
(* Every topic has a latest state; a client sees some of the states, in    *)
(* the order in which they were published, and never one that was not.     *)
(***************************************************************************)
EXTENDS Naturals

CONSTANTS Clients, Topics

VARIABLES latest,   \* topic -> number of states published
          seen      \* client -> topic -> number of the newest state it was sent

vars == <<latest, seen>>

Init ==
    /\ latest = [t \in Topics |-> 0]
    /\ seen = [c \in Clients |-> [t \in Topics |-> 0]]

Publish(t) ==
    /\ latest' = [latest EXCEPT ![t] = @ + 1]
    /\ UNCHANGED seen

\* Skipping states is allowed, going back is not.
Observe(c, t) ==
    /\ \E n \in seen[c][t] + 1 .. latest[t] :
          seen' = [seen EXCEPT ![c][t] = n]
    /\ UNCHANGED latest

Next ==
    \/ \E t \in Topics : Publish(t)
    \/ \E c \in Clients, t \in Topics : Observe(c, t)

Spec == Init /\ [][Next]_vars

=============================================================================
