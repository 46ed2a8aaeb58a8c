---------------------------- MODULE MCSimpleTCP ----------------------------
(***************************************************************************)
(* Instances of SimpleTCP: who opens what.                                 *)
(***************************************************************************)
EXTENDS SimpleTCP, FiniteSets, TLC

CONSTANTS
    server, client, other,      \* processes
    http, mine                  \* the ports 8080 and 9080 of the run configurations

\* Room for numbers that are neither equal nor adjacent.
MCISS3 == {1, 3, 5}
MCISS4 == {1, 3, 5, 7}

Listens(p, q)    == [process |-> p, localPort |-> q, foreignPort |-> NoPort,
                     passive |-> TRUE]
Connects(p, q, r) == [process |-> p, localPort |-> q, foreignPort |-> r,
                      passive |-> FALSE]

\* One client, one listener.
OneClient == {Listens(server, http), Connects(client, mine, http)}

\* Two clients in processes of their own.
TwoClients == OneClient \cup {Connects(other, mine, http)}

\* A server that also calls its client, from the port it may be listening on.
Crossing == OneClient \cup {Connects(server, http, mine)}

\* Of the orders in which numbers may be drawn, the increasing and the decreasing
\* one: a later number is compared with an earlier one only to be above or below.
Monotonic ==
    \/ \A i \in drawn, j \in ISS \ drawn : i < j
    \/ \A i \in drawn, j \in ISS \ drawn : i > j

\* The histories of two clients of a listener that opens before them; what follows
\* the death of a process that both need is not explored.
ListenerFirst ==
    /\ Up(server) /\ Up(other)
    /\ \A c \in Call : c.process # server /\ opening[c] # "todo" =>
           \A d \in Call : d.process = server => opening[d] = "done"

\* The second client waits until the first is gone.
OneAfterTheOther ==
    /\ ListenerFirst
    /\ \A c \in Call : c.process = other /\ opening[c] # "todo" => ~Up(client)

\* The listening threads keep up with their raw sockets.
MaxBacklog == 2

Backlog == \A p \in Process : Cardinality(raw[p]) <= MaxBacklog

\* The system's choice of an ephemeral port is arbitrary (safety runs only).
EphemeralSymmetry == Permutations(EphemeralPort)

=============================================================================
