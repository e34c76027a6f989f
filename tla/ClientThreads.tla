--------------------------- MODULE ClientThreads ---------------------------
(***************************************************************************)
(* One Client object from its construction to its end, and the threads     *)
(* that work for it: the one that constructs it, PacketReceiver,           *)
(* PacketSender, PacketHandler (packets are handled asynchronously) and    *)
(* KeepAlive, which runs RemoveClient and with it ~Client.  A local client *)
(* (that of a client process) also has ClientEntry waiting for its end and *)
(* is stopped by Disconnect; that of a server is stopped by                *)
(* ~NetworkControl, which takes no mutex to find it.                       *)
(*                                                                         *)
(* What leads to undefined behaviour (a null or freed object is used) ends *)
(* the behaviour: `fault' says what happened.                              *)
(***************************************************************************)
EXTENDS Naturals, Sequences, FiniteSets, Functions, ExtEvent

CONSTANTS
  Wire,         \* what the peer sends on TCP, in order; Garbage is a bad header
  Garbage,
  Datagrams,    \* the UDP packets that arrive for this client
  Builds        \* the platforms, and server or client processes, to look at

\* What SetStop and the destructors queue to wake a thread.
NullPacket == 0

ASSUME ThreadsAssumption ==
  /\ Builds \subseteq [linux : BOOLEAN, local : BOOLEAN]
  /\ Wire \in Seq(Range(Wire)) /\ NullPacket \notin Range(Wire) \cup Datagrams

VARIABLES
  local,      \* m_Local: this is the client of a client process
  mutex,      \* m_ClientAccessMutex
  cpc,        \* where the constructing thread is
  spc,        \* the sender thread: none, running, ended
  nulls,      \* null packets queued for the sender
  rpc,        \* the receiver thread
  rheld,      \* the packet it has read
  wire,       \* what the peer has sent and nobody has read
  peerOpen,   \* the peer has not closed the connection
  hobj,       \* m_HandlerObject: null, live, freed
  hq,         \* its queue; 0 is the null packet
  htok,       \* its semaphore
  hpc,        \* the handler thread
  hheld,      \* handlePacket
  lapsed,     \* history: its semaphore let the thread go on without a token
  kpc,        \* the KeepAlive thread
  epc,        \* ClientEntry, for a local client
  apc,        \* Disconnect, or ~NetworkControl of a server, and SetStop
  stopReq,    \* m_StopRequestedEvent, set by ClientEntry or ~NetworkControl
  udp,        \* datagrams not yet received
  object,     \* the Client: live, dying, freed
  queued,     \* history: the packets given to the handler's queue, in order
  handled,    \* history: the packets handled, in order
  fault       \* none, or the object that was misused

sender   == <<spc, nulls>>
receiver == <<rpc, rheld>>
peer     == <<wire, peerOpen, udp>>
handler  == <<hobj, hq, htok, hpc, hheld, lapsed>>
history  == <<queued, handled>>
keeper   == <<kpc, object>>
entry    == <<epc, apc, stopReq>>
build    == <<linux, local>>
vars     == <<build, mutex, eventVars, cpc, sender, receiver, peer, handler, history,
              keeper, entry, fault>>

Init ==
  /\ \E b \in Builds : linux = b.linux /\ local = b.local
  /\ mutex = "free" /\ EventInit
  /\ cpc = "lock"
  /\ spc = "none" /\ nulls = 0
  /\ rpc = "none" /\ rheld = NullPacket /\ wire = Wire /\ peerOpen = TRUE
  /\ hobj = "null" /\ hq = <<>> /\ htok = 0 /\ hpc = "none"
  /\ hheld = NullPacket /\ lapsed = FALSE
  /\ kpc = "none" /\ epc = "none" /\ apc = "idle" /\ stopReq = FALSE
  /\ udp = Datagrams
  /\ object = "live"
  /\ queued = <<>> /\ handled = <<>> /\ fault = "none"

-----------------------------------------------------------------------------
(* Construction.  On a server AddClient holds m_ClientAccessMutex.         *)

ConstructBegin ==
  /\ cpc = "lock" /\ cpc' = "sender"
  /\ IF local THEN UNCHANGED mutex ELSE mutex = "free" /\ mutex' = "creator"
  /\ UNCHANGED <<eventVars, sender, receiver, peer, handler, history, keeper,
                 entry, fault>>

\* new PacketSender and new PacketReceiver: each starts its thread.
ConstructSender ==
  /\ cpc = "sender" /\ cpc' = "receiver"
  /\ spc' = "running"
  /\ UNCHANGED <<mutex, eventVars, nulls, receiver, peer, handler, history,
                 keeper, entry, fault>>

ConstructReceiver ==
  /\ cpc = "receiver" /\ cpc' = "handler"
  /\ rpc' = "check"
  /\ UNCHANGED <<mutex, eventVars, sender, rheld, peer, handler, history,
                 keeper, entry, fault>>

\* new PacketHandler starts its thread; m_HandlerObject is assigned later.
ConstructHandler ==
  /\ cpc = "handler" /\ cpc' = "assign"
  /\ hpc' = "wait"
  /\ UNCHANGED <<mutex, eventVars, sender, receiver, peer, hobj, hq, htok,
                 hheld, lapsed, history, keeper, entry, fault>>

ConstructAssign ==
  /\ cpc = "assign" /\ cpc' = "keepalive"
  /\ hobj' = "live"
  /\ UNCHANGED <<mutex, eventVars, sender, receiver, peer, hq, htok, hpc,
                 hheld, lapsed, history, keeper, entry, fault>>

ConstructKeepAlive ==
  /\ cpc = "keepalive" /\ cpc' = "register"
  /\ kpc' = "start"
  /\ UNCHANGED <<mutex, eventVars, sender, receiver, peer, handler, history,
                 object, entry, fault>>

\* m_Thread is assigned and the client enters the maps; or m_LocalClient is
\* assigned and ClientEntry goes on.
ConstructEnd ==
  /\ cpc = "register" /\ cpc' = "done"
  /\ mutex' = IF mutex = "creator" THEN "free" ELSE mutex
  /\ epc' = IF local THEN "start" ELSE "none"
  /\ UNCHANGED <<eventVars, sender, receiver, peer, handler, history, keeper,
                 apc, stopReq, fault>>

Construct ==
  \/ ConstructBegin \/ ConstructSender \/ ConstructReceiver \/ ConstructHandler
  \/ ConstructAssign \/ ConstructKeepAlive \/ ConstructEnd

-----------------------------------------------------------------------------
(* The receiver, the datagrams and the handler.                            *)

\* What every loop tests.
Stopping == isSet \/ stopReq

\* GetHandlerObject()->AddToQueue( p ).
Hand(p) ==
  IF hobj = "live"
  THEN /\ hq' = Append(hq, p) /\ htok' = htok + 1
       /\ queued' = Append(queued, p)
       /\ UNCHANGED <<hobj, hpc, hheld, lapsed, handled, fault>>
  ELSE fault' = "handler object" /\ UNCHANGED <<handler, history>>

ReceiveCheck ==
  /\ rpc = "check"
  /\ rpc' = IF Stopping THEN "ended" ELSE "recv"
  /\ UNCHANGED <<mutex, cpc, eventVars, sender, rheld, peer, handler, history,
                 keeper, entry, fault>>

\* recv() returned a whole packet.
ReceivePacket ==
  /\ rpc = "recv" /\ wire # <<>> /\ Head(wire) # Garbage
  /\ rheld' = Head(wire) /\ wire' = Tail(wire) /\ rpc' = "put"
  /\ UNCHANGED <<mutex, cpc, eventVars, sender, peerOpen, udp, handler,
                 history, keeper, entry, fault>>

\* The connection was closed or the header is not IceNet's: stop the client.
ReceiveEnd ==
  /\ rpc = "recv"
  /\ IF wire = <<>> THEN ~peerOpen ELSE Head(wire) = Garbage
  /\ Set
  /\ rpc' = "ended"
  /\ UNCHANGED <<mutex, cpc, sender, rheld, peer, handler, history, keeper,
                 entry, fault>>

ReceivePut ==
  /\ rpc = "put"
  /\ Hand(rheld)
  /\ rpc' = "check" /\ rheld' = NullPacket
  /\ UNCHANGED <<mutex, cpc, eventVars, sender, peer, keeper, entry>>

Receive == ReceiveCheck \/ ReceivePacket \/ ReceiveEnd \/ ReceivePut

PeerClose ==
  /\ peerOpen /\ peerOpen' = FALSE
  /\ UNCHANGED <<mutex, cpc, eventVars, sender, receiver, wire, udp, handler,
                 history, keeper, entry, fault>>

\* UDPReceiver takes m_ClientAccessMutex and finds the client in the maps, or
\* in m_LocalClient.
Reachable == cpc = "done" /\ mutex = "free" /\ object # "freed"

UdpPut(p) ==
  /\ p \in udp /\ udp' = udp \ {p}
  /\ Reachable
  /\ Hand(p)
  /\ UNCHANGED <<mutex, cpc, eventVars, sender, receiver, wire, peerOpen,
                 keeper, entry>>

\* PacketHandlerLoop.
HandleWait ==
  /\ hpc = "wait" /\ htok > 0
  /\ htok' = htok - 1 /\ hpc' = "check"
  /\ UNCHANGED <<mutex, cpc, eventVars, sender, receiver, peer, hobj, hq,
                 hheld, lapsed, history, keeper, entry, fault>>

\* On Linux the wait may run out of time or be interrupted; the result is not
\* looked at.
HandleLapse ==
  /\ linux /\ hpc = "wait"
  /\ hpc' = "check" /\ lapsed' = TRUE
  /\ UNCHANGED <<mutex, cpc, eventVars, sender, receiver, peer, hobj, hq, htok,
                 hheld, history, keeper, entry, fault>>

HandleCheck ==
  /\ hpc = "check"
  /\ hpc' = IF Stopping THEN "ended" ELSE "pop"
  /\ UNCHANGED <<mutex, cpc, eventVars, sender, receiver, peer, hobj, hq, htok,
                 hheld, lapsed, history, keeper, entry, fault>>

\* front() and pop() of a queue whose size nobody asks for.
HandlePop ==
  /\ hpc = "pop"
  /\ IF hq = <<>>
     THEN fault' = "empty queue" /\ UNCHANGED <<hheld, hq, hpc>>
     ELSE /\ hheld' = Head(hq) /\ hq' = Tail(hq) /\ hpc' = "call"
          /\ UNCHANGED fault
  /\ UNCHANGED <<mutex, cpc, eventVars, sender, receiver, peer, hobj, htok,
                 lapsed, history, keeper, entry>>

\* Mutant: the packet is handled twice.
HandleCallTwice ==
  /\ hpc = "call" /\ hheld # NullPacket
  /\ handled' = handled \o <<hheld, hheld>>
  /\ hheld' = NullPacket /\ hpc' = "wait"
  /\ UNCHANGED <<mutex, cpc, eventVars, sender, receiver, peer, hobj, hq, htok,
                 lapsed, queued, keeper, entry, fault>>

\* The opcode function of the user is called and the packet is deleted.
HandleCall ==
  /\ hpc = "call" /\ hheld # NullPacket
  /\ handled' = Append(handled, hheld)
  /\ hheld' = NullPacket /\ hpc' = "wait"
  /\ UNCHANGED <<mutex, cpc, eventVars, sender, receiver, peer, hobj, hq, htok,
                 lapsed, queued, keeper, entry, fault>>

\* The null packet of SetStop is asked for its operation code.
HandleNull ==
  /\ hpc = "call" /\ hheld = NullPacket
  /\ fault' = "null handled"
  /\ UNCHANGED <<mutex, cpc, eventVars, sender, receiver, peer, handler, history,
                 keeper, entry>>

\* What the handler thread does once its own object has been freed is
\* undefined and not followed.
Handle ==
  /\ hobj # "freed"
  /\ \/ HandleWait \/ HandleLapse \/ HandleCheck
     \/ HandlePop \/ HandleCall \/ HandleNull

-----------------------------------------------------------------------------
(* The sender, in so far as others depend on it: module PacketSender has   *)
(* the rest.                                                               *)

\* It finds the stop event set after the null packet has woken it, ...
SenderStops ==
  /\ spc = "running" /\ nulls > 0 /\ Stopping
  /\ spc' = "ended"
  /\ UNCHANGED <<mutex, cpc, eventVars, nulls, receiver, peer, handler,
                 history, keeper, entry, fault>>

\* ... it takes the null packet for a packet, ...
SenderMisled ==
  /\ spc = "running" /\ nulls > 0 /\ ~Stopping
  /\ fault' = "null packet"
  /\ UNCHANGED <<mutex, cpc, eventVars, sender, receiver, peer, handler,
                 history, keeper, entry>>

\* ... or it ends by itself, because send() failed.
SenderFails ==
  /\ spc = "running"
  /\ spc' = "ended"
  /\ UNCHANGED <<mutex, cpc, eventVars, nulls, receiver, peer, handler,
                 history, keeper, entry, fault>>

-----------------------------------------------------------------------------
(* KeepAlive: the wait, RemoveClient and ~Client.                          *)

KeepAliveWait ==
  /\ kpc = "start" /\ kpc' = "asleep"
  /\ WaitBegin("keepalive")
  /\ UNCHANGED <<mutex, cpc, sender, receiver, peer, handler, history, object,
                 entry, fault>>

\* Mutant: Wait( 0 ) in place of Wait( INFINITE ).
KeepAlivePolls ==
  /\ kpc = "asleep" /\ kpc' = "lock"
  /\ UNCHANGED <<mutex, cpc, eventVars, sender, receiver, peer, handler,
                 history, object, entry, fault>>

KeepAliveWake ==
  /\ kpc = "asleep" /\ kpc' = "lock"
  /\ WaitEnd("keepalive")
  /\ UNCHANGED <<mutex, cpc, sender, receiver, peer, handler, history, object,
                 entry, fault>>

KeepAliveExpires ==
  /\ kpc = "asleep" /\ kpc' = "lock"
  /\ WaitExpire("keepalive")
  /\ UNCHANGED <<mutex, cpc, sender, receiver, peer, handler, history, object,
                 entry, fault>>

\* Mutant: RemoveClient does not keep m_ClientAccessMutex while it deletes.
KeepAliveSearchOnly ==
  /\ kpc = "lock" /\ mutex = "free"
  /\ IF local \/ cpc # "done"
     THEN kpc' = "done" /\ UNCHANGED object
     ELSE kpc' = "wakeSender" /\ object' = "dying"
  /\ UNCHANGED <<mutex, cpc, eventVars, sender, receiver, peer, handler, history,
                 entry, fault>>

\* Lock and search.  A local client is in no table, and neither is one whose
\* AddClient is not over: nothing is found, and the thread ends.
KeepAliveLock ==
  /\ kpc = "lock" /\ mutex = "free"
  /\ IF local \/ cpc # "done"
     THEN kpc' = "done" /\ UNCHANGED <<mutex, object>>
     ELSE kpc' = "wakeSender" /\ mutex' = "keepalive" /\ object' = "dying"
  /\ UNCHANGED <<cpc, eventVars, sender, receiver, peer, handler, history,
                 entry, fault>>

\* Mutant: ~PacketSender does not wake its thread.
KeepAliveLetsSleep ==
  /\ kpc = "wakeSender" /\ kpc' = "joinSender"
  /\ UNCHANGED <<mutex, cpc, eventVars, sender, receiver, peer, handler,
                 history, object, entry, fault>>

\* ~PacketSender: AddToQueue( 0 ), then the thread is joined.
KeepAliveWakeSender ==
  /\ kpc = "wakeSender" /\ kpc' = "joinSender"
  /\ nulls' = nulls + 1
  /\ UNCHANGED <<mutex, cpc, eventVars, spc, receiver, peer, handler, history,
                 object, entry, fault>>

KeepAliveJoinSender ==
  /\ kpc = "joinSender" /\ spc = "ended" /\ kpc' = "joinReceiver"
  /\ UNCHANGED <<mutex, cpc, eventVars, sender, receiver, peer, handler,
                 history, object, entry, fault>>

\* ~PacketReceiver: nothing wakes the thread, it is joined.
KeepAliveJoinReceiver ==
  /\ kpc = "joinReceiver" /\ rpc = "ended" /\ kpc' = "freeHandler"
  /\ UNCHANGED <<mutex, cpc, eventVars, sender, receiver, peer, handler,
                 history, object, entry, fault>>

\* ~PacketHandler: HANDLER_ASYNC is 0, so that the test of the flag is never
\* true: the thread is neither woken nor joined.
KeepAliveFreeHandler ==
  /\ kpc = "freeHandler" /\ kpc' = "joinSelf"
  /\ hobj' = "freed"
  /\ UNCHANGED <<mutex, cpc, eventVars, sender, receiver, peer, hq, htok, hpc,
                 hheld, lapsed, history, object, entry, fault>>

\* The rest of ~Client, where on Win32 ~Thread waits for the very thread that
\* runs it, and of RemoveClient.
KeepAliveFinish ==
  /\ kpc = "joinSelf" /\ linux
  /\ kpc' = "done"
  /\ object' = "freed" /\ mutex' = "free"
  /\ UNCHANGED <<cpc, eventVars, sender, receiver, peer, handler, history,
                 entry, fault>>

KeepAlive ==
  \/ KeepAliveWait \/ KeepAliveWake \/ KeepAliveLock \/ KeepAliveWakeSender
  \/ KeepAliveJoinSender \/ KeepAliveJoinReceiver \/ KeepAliveFreeHandler
  \/ KeepAliveFinish

-----------------------------------------------------------------------------
(* ClientEntry and Disconnect, in a client process.                        *)

EntryWait ==
  /\ epc = "start" /\ epc' = "asleep"
  /\ WaitBegin("entry")
  /\ UNCHANGED <<mutex, cpc, sender, receiver, peer, handler, history, keeper,
                 apc, stopReq, fault>>

\* The wait is over: m_StopRequestedEvent is set.
EntryWake ==
  /\ epc = "asleep" /\ epc' = "join" /\ stopReq' = TRUE
  /\ WaitEnd("entry")
  /\ UNCHANGED <<mutex, cpc, sender, receiver, peer, handler, history, keeper,
                 apc, fault>>

EntryExpires ==
  /\ epc = "asleep" /\ epc' = "join" /\ stopReq' = TRUE
  /\ WaitExpire("entry")
  /\ UNCHANGED <<mutex, cpc, sender, receiver, peer, handler, history, keeper,
                 apc, fault>>

\* The UDP receiver, which polls m_StopRequestedEvent, is joined; the
\* OnDisconnect callback.
EntryJoin ==
  /\ epc = "join" /\ epc' = "done"
  /\ udp' = {}
  /\ UNCHANGED <<mutex, cpc, eventVars, sender, receiver, wire, peerOpen,
                 handler, history, keeper, apc, stopReq, fault>>

Entry == EntryWait \/ EntryWake \/ EntryJoin

\* ~NetworkControl of a server sets m_StopRequestedEvent ...
ServerStops ==
  /\ ~local /\ apc = "idle" /\ apc' = "walk"
  /\ stopReq' = TRUE
  /\ UNCHANGED <<mutex, cpc, eventVars, sender, receiver, peer, handler, history,
                 keeper, epc, fault>>

\* ... and walks the table, without m_ClientAccessMutex, for clients to stop;
\* Disconnect finds m_LocalClient.
StopFind ==
  /\ apc = (IF local THEN "idle" ELSE "walk")
  /\ cpc = "done" /\ object # "freed"
  /\ apc' = "set"
  /\ UNCHANGED <<mutex, cpc, eventVars, sender, receiver, peer, handler, history,
                 keeper, epc, stopReq, fault>>

\* SetStop: the event, a null packet for the sender, one for the handler, while
\* nothing keeps KeepAlive from removing the client ...
StopSet ==
  /\ apc = "set" /\ object # "freed" /\ apc' = "sender"
  /\ Set
  /\ UNCHANGED <<mutex, cpc, sender, receiver, peer, handler, history, keeper,
                 epc, stopReq, fault>>

SenderFreed == kpc \in {"joinReceiver", "freeHandler", "joinSelf"} \/ object = "freed"

StopSender ==
  /\ apc = "sender" /\ ~SenderFreed /\ apc' = "handler"
  /\ nulls' = nulls + 1
  /\ UNCHANGED <<mutex, cpc, eventVars, spc, receiver, peer, handler, history,
                 keeper, epc, stopReq, fault>>

StopHandler ==
  /\ apc = "handler" /\ object # "freed" /\ apc' = "done"
  /\ Hand(NullPacket)
  /\ UNCHANGED <<mutex, cpc, eventVars, sender, receiver, peer, keeper, epc,
                 stopReq>>

\* ... so that the client, or its sender, may be gone already.
StopMisses ==
  /\ \/ apc \in {"set", "handler"} /\ object = "freed"
     \/ apc = "sender" /\ SenderFreed
  /\ fault' = "freed client"
  /\ UNCHANGED <<mutex, cpc, eventVars, sender, receiver, peer, handler, history,
                 keeper, entry>>

Stop ==
  \/ ServerStops \/ StopFind \/ StopSet \/ StopSender \/ StopHandler \/ StopMisses

-----------------------------------------------------------------------------
Step ==
  \/ Construct
  \/ Receive \/ PeerClose \/ \E p \in udp : UdpPut(p)
  \/ Handle
  \/ SenderStops \/ SenderMisled \/ SenderFails
  \/ KeepAlive \/ KeepAliveExpires
  \/ Entry \/ EntryExpires
  \/ Stop

\* Nothing is followed after a fault.
Running == fault = "none" /\ UNCHANGED build

Next == Running /\ Step

Spec == Init /\ [][Next]_vars

\* The threads are scheduled.  A user's function may block, send() may block,
\* and the peer need not close the connection.
Fairness ==
  /\ WF_vars(Running /\ Construct)
  /\ WF_vars(Running /\ Receive)
  /\ WF_vars(Running /\ SenderStops)
  /\ WF_vars(Running /\ KeepAlive)
  /\ WF_vars(Running /\ Entry)

FairSpec == Spec /\ Fairness

-----------------------------------------------------------------------------
(* Properties.                                                             *)

Items == {NullPacket} \cup Range(Wire) \cup Datagrams

\* The variables have the shape the declarations give them, and no thread of
\* the client sleeps and is awake at once.
TypeOK ==
  /\ build \in BOOLEAN \X BOOLEAN
  /\ mutex \in {"free", "creator", "keepalive"}
  /\ cpc \in {"lock", "sender", "receiver", "handler", "assign", "keepalive",
              "register", "done"}
  /\ isSet \in BOOLEAN /\ expired \in BOOLEAN
  /\ sleeping \subseteq {"keepalive", "entry"}
  /\ woken \subseteq {"keepalive", "entry"} /\ sleeping \cap woken = {}
  /\ "keepalive" \in sleeping \cup woken => kpc = "asleep"
  /\ "entry" \in sleeping \cup woken => epc = "asleep"
  /\ spc \in {"none", "running", "ended"} /\ nulls \in 0 .. 2
  /\ rpc \in {"none", "check", "recv", "put", "ended"}
  /\ rheld \in Items /\ wire \in Seq(Items) /\ peerOpen \in BOOLEAN
  /\ hobj \in {"null", "live", "freed"} /\ hq \in Seq(Items) /\ htok \in Nat
  /\ hpc \in {"none", "wait", "check", "pop", "call", "ended"}
  /\ hheld \in Items /\ lapsed \in BOOLEAN
  /\ kpc \in {"none", "start", "asleep", "lock", "wakeSender", "joinSender",
              "joinReceiver", "freeHandler", "joinSelf", "done"}
  /\ epc \in {"none", "start", "asleep", "join", "done"}
  /\ apc \in {"idle", "walk", "set", "sender", "handler", "done"}
  /\ stopReq \in BOOLEAN
  /\ object \in {"live", "dying", "freed"}
  /\ udp \subseteq Datagrams
  /\ queued \in Seq(Items) /\ handled \in Seq(Items)

\* When the handler object is freed the threads that feed it cannot reach it:
\* the sender and the receiver have ended, and the UDP receiver is kept out by
\* m_ClientAccessMutex until the client has left the maps.  Whatever is misused
\* from then on, ~NetworkControl misuses, inside the SetStop that it calls
\* without the mutex.
OnlyStopMeetsFreed ==
  hobj = "freed" =>
    /\ spc = "ended" /\ rpc = "ended" /\ ~Reachable
    /\ fault # "none" => ~local /\ apc \in {"set", "sender", "handler", "done"}

\* The packets given to a handler, from TCP and UDP, are handled once each
\* and in the order in which they were given.
Fifo == INSTANCE PacketFifo WITH Items <- Items, accepted <- queued,
                                 delivered <- handled
HandledInOrder == Fifo!FifoSpec

\* "Simply wait till the client gives the stop signal and then.. remove the
\* client": once the event is set KeepAlive is not left in its wait, unless
\* something was misused first.
StopIsNoticed == isSet ~> kpc \notin {"none", "start", "asleep"} \/ fault # "none"

\* RemoveClient returns and gives m_ClientAccessMutex back, provided the peer
\* closes its end and nothing was misused on the way, on Linux, where ~Thread of
\* the running thread does not wait for it.
RemovalReturnsOnLinux ==
  linux /\ <>(~peerOpen) => (kpc = "lock" ~> (kpc = "done" \/ fault # "none"))
=============================================================================
