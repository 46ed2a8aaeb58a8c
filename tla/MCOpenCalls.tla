---------------------------- MODULE MCOpenCalls ----------------------------
(***************************************************************************)
(* A program that listens on one port and connects from another, and one   *)
(* whose three threads, a listener and two clients, all use the same port. *)
(***************************************************************************)
EXTENDS OpenCalls

CONSTANTS first, second, third, http, mine, peer

Passive(t, q) == [thread |-> t, localPort |-> q, passive |-> TRUE]
Active(t, q)  == [thread |-> t, localPort |-> q, passive |-> FALSE]

Apart    == {Passive(first, http), Active(second, mine)}
Together == {Passive(first, http), Active(second, http), Active(third, http)}

MCPlan == {Apart, Together}
MCCall == UNION MCPlan

MCDropper == {c \in MCCall : c.thread = first}

\* A peer sends anything to the port of the listener, and a SYN to an ephemeral one.
MCIncoming ==
    {h \in Segment : /\ h.sourcePort = peer /\ h.destinationPort \notin {mine, peer}
                     /\ h.destinationPort = http \/ h.control = "SYN"}

=============================================================================
