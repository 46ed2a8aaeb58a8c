----------------------------- MODULE OpenCalls -----------------------------
(***************************************************************************)
(* One process from initialize() on: several user threads in open(), the   *)
(* listening thread and the threads of the blocks, with what SimpleTCP and *)
(* TCBThreads take for granted: calls of the socket library that fail,     *)
(* callers that meet on a port, ephemeral ports that users listen on, and  *)
(* the ownership of the foreign address that open() hands out a copy of.   *)
(*                                                                         *)
(* A block and its LocalConnection are named by the call that creates them.*)
(* Segments are reduced to what decides who touches the map, the mutex, a  *)
(* socket or an address, and the states of a block in which nothing is     *)
(* processed (CLOSED, ESTABLISHED, CLOSE_WAIT) are one, OTHER.             *)
(***************************************************************************)
EXTENDS Integers

CONSTANTS
    Call,           \* the calls of open(), each by a thread of its own
    Plan,           \* the sets of calls that a program makes
    UserPort,       \* the ports users pass to open()
    EphemeralPort,  \* the ports the system may give; users may listen on some
    Port,           \* those, and the ports of peers
    Incoming,       \* the segments that may arrive on the raw socket
    Failure,        \* what may fail: "startup", "socket", "bind", "recv"
    Dropper,        \* the callers that discard the LocalConnection they get
    NoKey,          \* the value of a key that is not in tcbMap
    NullBlock,      \* the null pointer that operator[] inserts
    Nobody          \* owner of the mutex when it is free

ASSUME CallAssumption ==
    /\ \A c \in Call : c.localPort \in UserPort /\ c.passive \in BOOLEAN
    /\ Plan \subseteq SUBSET Call
    /\ Dropper \subseteq Call
    /\ NoKey \notin Call /\ NullBlock \notin Call /\ Nobody \notin Call
    /\ NoKey # NullBlock

Segment == [sourcePort : Port, destinationPort : Port, control : {"SYN", "ACK", "RST"}]

ASSUME IncomingAssumption == Incoming \subseteq Segment

ASSUME PortAssumption ==
    /\ UserPort \cup EphemeralPort \subseteq Port
    /\ Port # {}

ASSUME FailureAssumption == Failure \subseteq {"startup", "socket", "bind", "recv"}

VARIABLES
    status,     \* of the process
    winsock,    \* whether WSAStartup is in effect
    pc,         \* of a call: how far it is
    dialled,    \* of a call: the block sendSYNMessage found for it
    tcbMap,
    tcb,        \* of a call: the block it creates, with its LocalConnection
    handle,     \* of a call: the copy of its LocalConnection that it returned
    mutex,      \* the call that holds mutex_ of the state machine
    listener,   \* where the listening thread is, the segment and block it has
    bound,      \* the ports that the sockets of the process are bound to
    shared      \* the calls that were under way on one port at the same time

vars == <<status, winsock, pc, dialled, tcbMap, tcb, handle, mutex, listener,
          bound, shared>>

Idle == [at |-> "receive", segment |-> CHOOSE h \in Segment : TRUE, block |-> NoKey]

TypeOK ==
    /\ status \in {"new", "up", "failed", "terminated", "aborted", "crashed", "corrupted"}
    /\ winsock \in BOOLEAN
    /\ pc \in [Call -> {"never", "todo", "insert", "syn", "lock", "rekey", "return",
                        "returned", "joined", "dropped", "threw"}]
    /\ dialled \in [Call -> Call \cup {NoKey, NullBlock}]
    /\ \A c \in Call : pc[c] \in {"lock", "rekey"} => dialled[c] # NoKey
    /\ tcbMap \in [Port -> Call \cup {NoKey, NullBlock}]
    /\ tcb \in [Call -> [state : {"LISTEN", "SYN_SENT", "SYN_RECEIVED", "OTHER"},
                         localPort : Port,
                         address : {"nullptr", "live", "freed"},
                         connectionSocket : BOOLEAN,
                         threadLaunched : BOOLEAN]]
    /\ handle \in [Call -> [localPort : Port, address : {"nullptr", "own", "old"}]]
    /\ mutex \in Call \cup {Nobody}
    /\ listener \in [at : {"receive", "filter", "find", "answer"},
                     segment : Segment, block : Call \cup {NoKey}]
    /\ bound \subseteq Port
    /\ shared \subseteq Call

\* What a process has in memory when it starts.
NewTCB(c) ==
    [state            |-> IF c.passive THEN "LISTEN" ELSE "OTHER",
     localPort        |-> c.localPort,
     address          |-> "nullptr",
     connectionSocket |-> FALSE,
     threadLaunched   |-> FALSE]

NewHandle(c) == [localPort |-> c.localPort, address |-> "nullptr"]

Init ==
    /\ status = "new"
    /\ winsock = FALSE
    /\ \E made \in Plan : pc = [c \in Call |-> IF c \in made THEN "todo" ELSE "never"]
    /\ dialled = [c \in Call |-> NoKey]
    /\ tcbMap = [q \in Port |-> NoKey]
    /\ tcb = [c \in Call |-> NewTCB(c)]
    /\ handle = [c \in Call |-> NewHandle(c)]
    /\ mutex = Nobody
    /\ listener = Idle
    /\ bound = {}
    /\ shared = {}

-----------------------------------------------------------------------------
(***************************************************************************)
(* How the process ends, and what a thread does to the foreign address of  *)
(* block b.  The last two are for a step that changes status and tcb.      *)
(***************************************************************************)
Up == status = "up"

\* Its memory is gone; bound and shared stay, as what happened to the process.
Ends(how) ==
    /\ status' = how
    /\ pc' = [c \in Call |-> "todo"]
    /\ dialled' = [c \in Call |-> NoKey]
    /\ tcbMap' = [q \in Port |-> NoKey]
    /\ tcb' = [c \in Call |-> NewTCB(c)]
    /\ handle' = [c \in Call |-> NewHandle(c)]
    /\ mutex' = Nobody
    /\ listener' = Idle
    /\ UNCHANGED <<bound, shared>>

\* The handle of c, when its connection gets a new address.
Outdated(c) == IF handle[c].address = "own" THEN [handle[c] EXCEPT !.address = "old"]
                                            ELSE handle[c]

\* Mutant: the old address is deleted and kept.
createForeignSocketAddressKept(b, t) ==
    /\ status' = IF tcb[b].address = "freed" THEN "corrupted" ELSE status
    /\ tcb' = [tcb EXCEPT ![b] =
                  [t EXCEPT !.address = IF @ = "live" THEN "freed" ELSE "live"]]
    /\ handle' = [handle EXCEPT ![b] = Outdated(b)]

\* It deletes the address b has and allocates another one, which is then used;
\* b is left as t.  To delete what is freed corrupts the heap.
createForeignSocketAddress(b, t) ==
    /\ status' = IF tcb[b].address = "freed" THEN "corrupted" ELSE status
    /\ tcb' = [tcb EXCEPT ![b] = [t EXCEPT !.address = "live"]]
    /\ handle' = [handle EXCEPT ![b] = Outdated(b)]

\* sendTCPSegment reads the address b has; b is left as t.
sendTCPSegment(b, t) ==
    /\ status' = IF tcb[b].address = "freed" THEN "corrupted" ELSE status
    /\ tcb' = [tcb EXCEPT ![b] = t]
    /\ UNCHANGED handle

(***************************************************************************)
(* createUDPSocket.  Without WSAStartup socket() fails; if it fails, for   *)
(* whatever reason, WSACleanup takes every other socket along.             *)
(***************************************************************************)
SocketFails == "socket" \in Failure \/ ~winsock
BindFails   == "bind" \in Failure /\ winsock

-----------------------------------------------------------------------------
(***************************************************************************)
(* initialize().  The check of setsockopt is the wrong way round, and lets *)
(* the program go on because the call always fails: it is given no value.  *)
(***************************************************************************)
Initializes ==
    /\ status = "new"
    /\ status' = "up"
    /\ winsock' = TRUE
    /\ UNCHANGED <<pc, dialled, tcbMap, tcb, handle, mutex, listener, bound, shared>>

\* WSAStartup fails and it returns false, or there is no raw socket and it throws.
InitializeFails ==
    /\ status = "new"
    /\ Failure \cap {"startup", "socket", "bind"} # {}
    /\ winsock' = FALSE
    /\ Ends("failed")

-----------------------------------------------------------------------------
(***************************************************************************)
(* open()                                                                  *)
(***************************************************************************)
\* The calls that are between their lookup and emplace, or the end of sendSYNMessage.
UnderWay(q) == {d \in Call : d.localPort = q /\ pc[d] \in {"insert", "syn", "lock", "rekey"}}

OpenFindsNothing(c) ==
    /\ Up /\ pc[c] = "todo"
    /\ tcbMap[c.localPort] = NoKey
    /\ pc' = [pc EXCEPT ![c] = "insert"]
    /\ shared' = IF UnderWay(c.localPort) = {} THEN shared
                 ELSE shared \cup UnderWay(c.localPort) \cup {c}
    /\ UNCHANGED <<status, winsock, dialled, tcbMap, tcb, handle, mutex, listener, bound>>

\* A block in LISTEN: the handle is that of a connection nobody else has.
OpenJoins(c) ==
    /\ Up /\ pc[c] = "todo"
    /\ \E b \in Call : tcbMap[c.localPort] = b /\ tcb[b].state = "LISTEN"
    /\ pc' = [pc EXCEPT ![c] = "joined"]
    /\ UNCHANGED <<status, winsock, dialled, tcbMap, tcb, handle, mutex, listener, bound, shared>>

OpenThrows(c) ==
    /\ Up /\ pc[c] = "todo"
    /\ \E b \in Call : tcbMap[c.localPort] = b /\ tcb[b].state # "LISTEN"
    /\ pc' = [pc EXCEPT ![c] = "threw"]
    /\ UNCHANGED <<status, winsock, dialled, tcbMap, tcb, handle, mutex, listener, bound, shared>>

OpenCrashes(c) ==
    /\ Up /\ pc[c] = "todo"
    /\ tcbMap[c.localPort] = NullBlock
    /\ Ends("crashed") /\ UNCHANGED winsock

\* Mutant: sendSYNMessage is called before the block is in the map.
OpenInsertsLate(c) ==
    /\ Up /\ pc[c] = "insert"
    /\ tcbMap' = IF c.passive /\ tcbMap[c.localPort] = NoKey
                 THEN [tcbMap EXCEPT ![c.localPort] = c] ELSE tcbMap
    /\ pc' = [pc EXCEPT ![c] = IF c.passive THEN "return" ELSE "syn"]
    /\ UNCHANGED <<status, winsock, dialled, tcb, handle, mutex, listener, bound, shared>>

\* emplace, which does nothing if the key is taken by now.
OpenInserts(c) ==
    /\ Up /\ pc[c] = "insert"
    /\ tcbMap' = IF tcbMap[c.localPort] = NoKey
                 THEN [tcbMap EXCEPT ![c.localPort] = c] ELSE tcbMap
    /\ pc' = [pc EXCEPT ![c] = IF c.passive THEN "return" ELSE "syn"]
    /\ UNCHANGED <<status, winsock, dialled, tcb, handle, mutex, listener, bound, shared>>

\* The copy of the LocalConnection, address and all.
OpenReturns(c) ==
    /\ Up /\ pc[c] = "return"
    /\ handle' = [handle EXCEPT ![c] =
                     [localPort |-> tcb[c].localPort,
                      address   |-> IF tcb[c].address = "nullptr" THEN "nullptr" ELSE "own"]]
    /\ pc' = [pc EXCEPT ![c] = "returned"]
    /\ UNCHANGED <<status, winsock, dialled, tcbMap, tcb, mutex, listener, bound, shared>>

\* The caller discards what open() returned: ~LocalConnection() of the copy.
Drops(c) ==
    /\ Up /\ c \in Dropper /\ pc[c] = "returned"
    /\ pc' = [pc EXCEPT ![c] = "dropped"]
    /\ status' = IF handle[c].address = "old" THEN "corrupted" ELSE status
    /\ tcb' = [tcb EXCEPT ![c].address = IF handle[c].address = "own" THEN "freed" ELSE @]
    /\ UNCHANGED <<winsock, dialled, tcbMap, handle, mutex, listener, bound, shared>>

\* The block that send() and receive() find for the handle of c.
Found(c) == tcbMap[handle[c].localPort]

-----------------------------------------------------------------------------
(***************************************************************************)
(* sendSYNMessage                                                          *)
(***************************************************************************)
\* Mutant: find, and the iterator dereferenced at once.
SynLooksUpByFind(c) ==
    /\ Up /\ pc[c] = "syn"
    /\ dialled' = [dialled EXCEPT ![c] = tcbMap[c.localPort]]
    /\ pc' = [pc EXCEPT ![c] = "lock"]
    /\ UNCHANGED <<status, winsock, tcbMap, tcb, handle, mutex, listener, bound, shared>>

\* tcbMap[localPort], before the mutex is taken.
SynLooksUp(c) ==
    /\ Up /\ pc[c] = "syn"
    /\ LET q     == c.localPort
           block == IF tcbMap[q] = NoKey THEN NullBlock ELSE tcbMap[q]
       IN  /\ dialled' = [dialled EXCEPT ![c] = block]
           /\ tcbMap' = [tcbMap EXCEPT ![q] = block]
    /\ pc' = [pc EXCEPT ![c] = "lock"]
    /\ UNCHANGED <<status, winsock, tcb, handle, mutex, listener, bound, shared>>

Locks(c) == Up /\ pc[c] = "lock" /\ mutex = Nobody

SynCrashes(c) ==
    /\ Locks(c) /\ dialled[c] = NullBlock
    /\ Ends("crashed") /\ UNCHANGED winsock

\* sendSYN, on the block that was found.
SynSends(c, q) ==
    /\ Locks(c) /\ dialled[c] # NullBlock
    /\ winsock /\ q \in EphemeralPort \ bound
    /\ LET b == dialled[c]
       IN  createForeignSocketAddress(b,
               [tcb[b] EXCEPT !.connectionSocket = TRUE, !.localPort = q, !.state = "SYN_SENT"])
    /\ bound' = bound \cup {q}
    /\ mutex' = c
    /\ pc' = [pc EXCEPT ![c] = "rekey"]
    /\ UNCHANGED <<winsock, dialled, tcbMap, listener, shared>>

\* There is no socket: the exception passes the mutex, which stays locked.
SynThrows(c) ==
    /\ Locks(c) /\ dialled[c] # NullBlock
    /\ \/ SocketFails /\ winsock' = FALSE
       \/ BindFails /\ UNCHANGED winsock
    /\ mutex' = c
    /\ pc' = [pc EXCEPT ![c] = "threw"]
    /\ UNCHANGED <<status, dialled, tcbMap, tcb, handle, listener, bound, shared>>

\* Mutant: the port is read before sendSYN changes it.
RekeyedUnderOldPort(c) == [tcbMap EXCEPT ![c.localPort] = dialled[c]]

\* erase(localPort), and emplace under the port the socket is bound to, which does
\* nothing if that is a key.
Rekeyed(c) ==
    LET b      == dialled[c]
        erased == [tcbMap EXCEPT ![c.localPort] = NoKey]
    IN  IF erased[tcb[b].localPort] = NoKey
        THEN [erased EXCEPT ![tcb[b].localPort] = b] ELSE erased

\* Mutant: the mutex is not given back.
SynRekeysUnreleased(c) ==
    /\ Up /\ pc[c] = "rekey"
    /\ tcbMap' = Rekeyed(c)
    /\ tcb' = [tcb EXCEPT ![dialled[c]].threadLaunched = TRUE]
    /\ pc' = [pc EXCEPT ![c] = "return"]
    /\ UNCHANGED <<status, winsock, dialled, handle, mutex, listener, bound, shared>>

\* ..., launchTCBThread, unlock.
SynRekeys(c) ==
    /\ Up /\ pc[c] = "rekey"
    /\ tcbMap' = Rekeyed(c)
    /\ tcb' = [tcb EXCEPT ![dialled[c]].threadLaunched = TRUE]
    /\ mutex' = Nobody
    /\ pc' = [pc EXCEPT ![c] = "return"]
    /\ UNCHANGED <<status, winsock, dialled, handle, listener, bound, shared>>

-----------------------------------------------------------------------------
(***************************************************************************)
(* The listening thread: processRawIPMessage.                              *)
(***************************************************************************)
RawReceives(h) ==
    /\ Up /\ winsock /\ listener.at = "receive"
    /\ listener' = [Idle EXCEPT !.at = "filter", !.segment = h]
    /\ UNCHANGED <<status, winsock, pc, dialled, tcbMap, tcb, handle, mutex, bound, shared>>

RecvFails == "recv" \in Failure \/ ~winsock

\* Mutant: only the failure of a working socket is noticed.
RawReceiveThrowsOnError ==
    /\ Up /\ listener.at = "receive"
    /\ "recv" \in Failure /\ winsock
    /\ Ends("terminated") /\ UNCHANGED winsock

\* TCPFacadeWin::receive throws, and nothing in the thread catches.
RawReceiveThrows ==
    /\ Up /\ listener.at = "receive"
    /\ RecvFails
    /\ Ends("terminated") /\ UNCHANGED winsock

\* The filter of own calls, which needs the mutex for its lookup.
Filters ==
    /\ Up /\ listener.at = "filter" /\ mutex = Nobody
    /\ listener' = IF tcbMap[listener.segment.sourcePort] # NoKey THEN Idle
                   ELSE [listener EXCEPT !.at = "find"]
    /\ UNCHANGED <<status, winsock, pc, dialled, tcbMap, tcb, handle, mutex, bound, shared>>

Finds(b) ==
    Up /\ listener.at = "find" /\ tcbMap[listener.segment.destinationPort] = b

\* Nobody is there: a reset is dropped, and all else is answered from a socket
\* that is bound to that port for the purpose and closed again.
ClosedReplies ==
    /\ Finds(NoKey)
    /\ \/ listener.segment.control = "RST"
       \/ winsock /\ listener.segment.destinationPort \notin bound
    /\ listener' = Idle
    /\ UNCHANGED <<status, winsock, pc, dialled, tcbMap, tcb, handle, mutex, bound, shared>>

ClosedThrows ==
    /\ Finds(NoKey) /\ listener.segment.control # "RST"
    /\ \/ SocketFails /\ winsock' = FALSE
       \/ /\ BindFails \/ (winsock /\ listener.segment.destinationPort \in bound)
          /\ UNCHANGED winsock
    /\ Ends("terminated")

ListenerCrashes == Finds(NullBlock) /\ Ends("crashed") /\ UNCHANGED winsock

\* assert(state == LISTEN)
ListenerAborts(b) ==
    /\ Finds(b) /\ tcb[b].state # "LISTEN"
    /\ Ends("aborted") /\ UNCHANGED winsock

ListenerIgnores(b) ==
    /\ Finds(b) /\ tcb[b].state = "LISTEN"
    /\ listener.segment.control = "RST"
    /\ listener' = Idle
    /\ UNCHANGED <<status, winsock, pc, dialled, tcbMap, tcb, handle, mutex, bound, shared>>

\* createLocalSocket, unless the block has a socket from an earlier client.
ListenerBinds(b, q) ==
    /\ Finds(b) /\ tcb[b].state = "LISTEN"
    /\ listener.segment.control # "RST"
    /\ \/ tcb[b].connectionSocket /\ UNCHANGED <<tcb, bound>>
       \/ /\ ~tcb[b].connectionSocket /\ winsock /\ q \in EphemeralPort \ bound
          /\ tcb' = [tcb EXCEPT ![b].connectionSocket = TRUE, ![b].localPort = q]
          /\ bound' = bound \cup {q}
    /\ listener' = [listener EXCEPT !.at = "answer", !.block = b]
    /\ UNCHANGED <<status, winsock, pc, dialled, tcbMap, handle, mutex, shared>>

ListenerThrows(b) ==
    /\ Finds(b) /\ tcb[b].state = "LISTEN" /\ ~tcb[b].connectionSocket
    /\ listener.segment.control # "RST"
    /\ \/ SocketFails /\ winsock' = FALSE
       \/ BindFails /\ UNCHANGED winsock
    /\ Ends("terminated")

\* processPacketListenState: the new address, a reset or a SYN,ACK, the thread.
ListenerAnswers ==
    /\ Up /\ listener.at = "answer"
    /\ LET b == listener.block
       IN  createForeignSocketAddress(b,
               IF listener.segment.control = "SYN"
               THEN [tcb[b] EXCEPT !.state = "SYN_RECEIVED", !.threadLaunched = TRUE]
               ELSE tcb[b])
    /\ listener' = Idle
    /\ UNCHANGED <<winsock, pc, dialled, tcbMap, mutex, bound, shared>>

-----------------------------------------------------------------------------
(***************************************************************************)
(* The thread of block b: processUDPMessage.                               *)
(***************************************************************************)
Serves(b) == Up /\ tcb[b].threadLaunched

\* sendEstablishedACK: the peer answered from another port.
BlockEstablishes(b) ==
    /\ Serves(b) /\ winsock /\ tcb[b].state = "SYN_SENT"
    /\ createForeignSocketAddress(b, [tcb[b] EXCEPT !.state = "OTHER"])
    /\ UNCHANGED <<winsock, pc, dialled, tcbMap, mutex, listener, bound, shared>>

\* sendSYNACK or sendRST, to the address the block has.
BlockAnswers(b) ==
    /\ Serves(b) /\ winsock
    /\ \E next \in CASE tcb[b].state = "SYN_SENT"     -> {"SYN_SENT", "SYN_RECEIVED"}
                     [] tcb[b].state = "SYN_RECEIVED" -> {"SYN_RECEIVED", "OTHER"}
                     [] OTHER                         -> {} :
           sendTCPSegment(b, [tcb[b] EXCEPT !.state = next])
    /\ UNCHANGED <<winsock, pc, dialled, tcbMap, mutex, listener, bound, shared>>

\* A segment that is not answered.
BlockMoves(b) ==
    /\ Serves(b) /\ winsock
    /\ \/ /\ tcb[b].state = "SYN_SENT" \/ tcb[b].state = "SYN_RECEIVED"
          /\ tcb' = [tcb EXCEPT ![b].state = "OTHER"]
       \/ /\ tcb[b].state = "SYN_RECEIVED" /\ b.passive
          /\ tcb' = [tcb EXCEPT ![b].state = "LISTEN"]
    /\ UNCHANGED <<status, winsock, pc, dialled, tcbMap, handle, mutex, listener, bound, shared>>

BlockReceiveThrows(b) ==
    /\ Serves(b)
    /\ RecvFails
    /\ Ends("terminated") /\ UNCHANGED winsock

-----------------------------------------------------------------------------
OpenBegins(c) == OpenFindsNothing(c) \/ OpenJoins(c) \/ OpenThrows(c) \/ OpenCrashes(c)

OpenContinues(c) ==
    \/ OpenInserts(c) \/ OpenReturns(c)
    \/ SynLooksUp(c) \/ SynCrashes(c) \/ SynThrows(c) \/ SynRekeys(c)
    \/ \E q \in EphemeralPort : SynSends(c, q)

ListenerWorks ==
    \/ Filters \/ ClosedReplies \/ ClosedThrows \/ ListenerCrashes \/ ListenerAnswers
    \/ \E b \in Call : \/ ListenerAborts(b) \/ ListenerIgnores(b) \/ ListenerThrows(b)
                       \/ \E q \in EphemeralPort : ListenerBinds(b, q)

Next ==
    \/ Initializes \/ InitializeFails
    \/ \E c \in Call : \/ OpenBegins(c) \/ OpenContinues(c) \/ Drops(c)
                       \/ BlockEstablishes(c) \/ BlockAnswers(c) \/ BlockMoves(c)
                       \/ BlockReceiveThrows(c)
    \/ \E h \in Incoming : RawReceives(h)
    \/ RawReceiveThrows \/ ListenerWorks

Spec == Init /\ [][Next]_vars

\* While calls of open() have something to do one of them goes on, and so does the
\* listening thread unless it waits for a segment or the mutex; a recv() on a
\* socket that is gone returns.  Nothing forces a segment to arrive, a user to
\* call open(), or a call to fail while the socket library works.
Fairness ==
    /\ WF_vars(\E c \in Call : OpenContinues(c))
    /\ WF_vars(ListenerWorks)
    /\ WF_vars(~winsock /\ (RawReceiveThrows \/ \E c \in Call : BlockReceiveThrows(c)))

FairSpec == Spec /\ Fairness

-----------------------------------------------------------------------------
\* The system gave a port that some user listens on.
PortCollides == bound \cap UserPort # {}

\* tcbMap holds a null pointer, or the process died of one, only after two active
\* calls were under way on one port: callers that keep to ports of their own never
\* see sendSYNMessage's operator[] insert, whatever ports the system gives them.
NullBlockNeedsTwoCallers ==
    status = "crashed" \/ (\E q \in Port : tcbMap[q] = NullBlock) =>
        \E c, d \in shared : /\ c # d /\ c.localPort = d.localPort
                             /\ ~c.passive /\ ~d.passive

\* send() and receive() find the block of the handle that open() returned, unless
\* callers met on its port, an ephemeral port collided, or a segment moved a
\* passive connection to another port before open() had copied it.
HandlesFindTheirBlock ==
    \A c \in Call : pc[c] \in {"returned", "dropped"} =>
        \/ Found(c) = c
        \/ PortCollides \/ c \in shared
        \/ c.passive /\ handle[c].localPort # c.localPort

\* The foreign address of a connection is deleted once and never used afterwards,
\* as long as every caller keeps the LocalConnection that open() returned, or
\* discards one that had no address when it was copied.
HeapCorruptedByDroppers ==
    status = "corrupted" => \E c \in Call : pc[c] = "dropped" /\ handle[c].address # "nullptr"

MutexIsLost == \E c \in Call : mutex = c /\ pc[c] = "threw"

\* The listening thread gets the mutex, however many calls of open() want it,
\* unless the SYN of one of them failed.
ListenerGetsMutex ==
    Up /\ listener.at = "filter" ~> ~Up \/ listener.at # "filter" \/ MutexIsLost

\* One socket that cannot be created ends the process, even if open() throws and
\* the user goes on: WSACleanup makes the other threads' recv() fail.  Only a
\* listening thread that waits for a lost mutex lives on, deaf.
CleanupEndsProcess ==
    Up /\ ~winsock ~> ~Up \/ (listener.at = "filter" /\ MutexIsLost)

=============================================================================
