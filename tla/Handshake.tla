------------------------------ MODULE Handshake ------------------------------
(***************************************************************************)
(* What a handshake promises its two ends: a client opens on the answer of *)
(* a server that is answering it and nobody else, and a server opens only  *)
(* with a client that has opened on its answer.  A server whose client is  *)
(* gone takes its answer back and listens again.                           *)
(***************************************************************************)
CONSTANTS
    Client,
    Server,
    Orphans     \* BOOLEAN: may resets take back an answer that is on its way?

VARIABLES client, server, joined

vars == <<client, server, joined>>

Init ==
    /\ client = [a \in Client |-> "closed"]
    /\ server = [b \in Server |-> "listening"]
    /\ joined = {}

Dial(a) ==
    /\ client[a] = "closed"
    /\ client' = [client EXCEPT ![a] = "calling"]
    /\ UNCHANGED <<server, joined>>

\* The SYN,ACK leaves.
Answer(b) ==
    /\ server[b] = "listening"
    /\ server' = [server EXCEPT ![b] = "answering"]
    /\ UNCHANGED <<client, joined>>

Accept(a, b) ==
    /\ client[a] = "calling" /\ server[b] = "answering"
    /\ \A c \in Client : <<c, b>> \notin joined
    /\ client' = [client EXCEPT ![a] = "open"]
    /\ joined' = joined \cup {<<a, b>>}
    /\ UNCHANGED server

\* The answer a opens on was taken back meanwhile: no server will open with it.
AcceptOld(a) ==
    /\ Orphans
    /\ client[a] = "calling"
    /\ client' = [client EXCEPT ![a] = "open"]
    /\ UNCHANGED <<server, joined>>

Confirm(a, b) ==
    /\ server[b] = "answering" /\ <<a, b>> \in joined
    /\ server' = [server EXCEPT ![b] = "open"]
    /\ UNCHANGED <<client, joined>>

TakeBack(b, next) ==
    /\ server[b] = "answering"
    /\ server' = [server EXCEPT ![b] = next]
    /\ joined' = {p \in joined : p[2] # b}
    /\ UNCHANGED client

ListenAgain(b) == TakeBack(b, "listening")

\* A second SYN in the middle of the handshake.
Reset(b) == TakeBack(b, "failed")

Fail(a) ==
    /\ client[a] = "calling"
    /\ client' = [client EXCEPT ![a] = "failed"]
    /\ UNCHANGED <<server, joined>>

Next ==
    \/ \E a \in Client : \/ Dial(a) \/ Fail(a) \/ AcceptOld(a)
                         \/ \E b \in Server : Accept(a, b) \/ Confirm(a, b)
    \/ \E b \in Server : Answer(b) \/ ListenAgain(b) \/ Reset(b)

Spec == Init /\ [][Next]_vars

=============================================================================
