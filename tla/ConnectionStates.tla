-------------------------- MODULE ConnectionStates --------------------------
(***************************************************************************)
(* What one connection promises its user during the handshake: the edges   *)
(* of the RFC 793 state diagram that this implementation supports, and     *)
(* that a connection which fails leaves the reason in errorMessage.        *)
(***************************************************************************)
VARIABLES
    passive,        \* whether the connection was opened with a passive OPEN
    state,
    error

vars == <<passive, state, error>>

Init == /\ passive \in BOOLEAN
        /\ state = IF passive THEN "LISTEN" ELSE "CLOSED"
        /\ error = "NO_ERROR"

\* Active OPEN: only a block that was never used sends a SYN.
ActiveOpen ==
    /\ ~passive
    /\ state = "CLOSED" /\ error = "NO_ERROR"
    /\ state' = "SYN_SENT"
    /\ UNCHANGED error

\* A SYN is answered with SYN,ACK, by a listener or in a simultaneous open.
Answer ==
    /\ state \in {"LISTEN", "SYN_SENT"}
    /\ state' = "SYN_RECEIVED"
    /\ UNCHANGED error

Establish ==
    /\ state \in {"SYN_SENT", "SYN_RECEIVED"}
    /\ state' = "ESTABLISHED"
    /\ UNCHANGED error

\* The peer gave up: a passive connection goes back to waiting for a SYN.
ListenAgain ==
    /\ passive
    /\ state = "SYN_RECEIVED"
    /\ state' = "LISTEN"
    /\ UNCHANGED error

PeerCloses ==
    /\ state = "SYN_RECEIVED"
    /\ state' = "CLOSE_WAIT"
    /\ UNCHANGED error

Reset ==
    /\ state \in {"SYN_SENT", "SYN_RECEIVED"}
    /\ state' = "CLOSED"
    /\ error' = "CONNECTION_RESET"

Refuse ==
    /\ ~passive
    /\ state = "SYN_RECEIVED"
    /\ state' = "CLOSED"
    /\ error' = "CONNECTION_REFUSED"

Next == /\ \/ ActiveOpen \/ Answer \/ Establish \/ ListenAgain
           \/ PeerCloses \/ Reset \/ Refuse
        /\ UNCHANGED passive

Spec == Init /\ [][Next]_vars

=============================================================================
