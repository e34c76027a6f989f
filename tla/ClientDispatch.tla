--------------------------- MODULE ClientDispatch ---------------------------
(***************************************************************************)
(* How a client process handles its packets.  PacketReceiver and           *)
(* UDPReceiver feed a queue; a handler takes packets from it and calls     *)
(* what is linked to their operation codes, among it the library's own     *)
(* AddRemoteClient and RemoveRemoteClient, which keep the proxies.  Under  *)
(* HANDLER_ASYNC the handler is a thread; under HANDLER_SYNC it is the     *)
(* application inside HandlePackets, which keeps the queue's mutex locked  *)
(* over the calls.                                                         *)
(*                                                                         *)
(* What leads to undefined behaviour ends the behaviour: `fault'.          *)
(***************************************************************************)
EXTENDS OpCodeTable, ProxyTable

CONSTANTS
  NoId,          \* the public id of a packet that carries none
  UserCodes,     \* the operation codes the application may link
  SentCodes,     \* those among them that are sent to it
  MaxPackets,    \* bound: packets received over TCP
  MaxDatagrams,  \* bound: datagrams received
  MaxQueue       \* bound: the packets queued when one more is received over TCP

ASSUME DispatchAssumption ==
  /\ NoId \notin Ids /\ UserCodes \subseteq OpCodes /\ SentCodes \subseteq UserCodes
  /\ None \notin {"data", "changed"} /\ \A op \in OpCodes : None # Library(op)

VARIABLES
  sync,         \* HANDLER_SYNC
  connected,    \* ClientEntry has linked the internal functions and connected
  queue,        \* m_PacketQueue of the handler
  queueOwner,   \* m_PacketAdditionMutex
  accessOwner,  \* m_ClientAccessMutex
  received,     \* how many packets have arrived over TCP
  datagrams,    \* how many datagrams have arrived
  udpc,         \* the UDP receiver: select, put, ended
  hpc,          \* the handler: idle, next, call, lock, work, ended
  packet,       \* handlePacket
  stop,         \* m_StopEvent
  dpc,          \* Disconnect: idle, wakeHandler, join, delete, done
  linked,       \* history: the data the application has linked with its codes
  told,         \* history: what the last packet handled said of a client
  toldTwice,    \* history: the clients added while they were there
  fault         \* none, or what was misused

tableVars == <<cells, linked>>
queueVars == <<queue, queueOwner>>
feeders   == <<received, datagrams, udpc>>
handler   == <<hpc, packet>>
toldVars  == <<told, toldTwice>>
ending    == <<stop, dpc>>
vars      == <<sync, connected, tableVars, proxyVars, queueVars, accessOwner, feeders,
               handler, toldVars, ending, fault>>

\* A packet is its operation code and the public id it carries, if any.
NullPacket == [op |-> 0, id |-> NoId, null |-> TRUE]
Message(op, id) == [op |-> op, id |-> id, null |-> FALSE]
UserMessages == {Message(OpCodeOf(c), NoId) : c \in SentCodes}
Messages == UserMessages
              \cup {Message(op, id) : op \in {ADD_CLIENT, REMOVE_CLIENT}, id \in Ids}

Init ==
  /\ sync \in BOOLEAN /\ connected = FALSE
  /\ TableInit /\ linked = [c \in UserCodes |-> None]
  /\ ProxyInit
  /\ queue = <<>> /\ queueOwner = "free" /\ accessOwner = "free"
  /\ received = 0 /\ datagrams = 0 /\ udpc = "select"
  /\ hpc = "idle" /\ packet = NullPacket
  /\ stop = FALSE /\ dpc = "idle"
  /\ told = [i \in Ids |-> "none"] /\ toldTwice = {}
  /\ fault = "none"

-----------------------------------------------------------------------------
(* "Before initializing/connecting, you should link opcode numbers to      *)
(* functions."                                                             *)

Link(c) ==
  /\ ~connected /\ linked[c] = None
  /\ LinkOpCodeFunction(c, <<"function", c>>, <<"data", c>>)
  /\ linked' = [linked EXCEPT ![c] = "data"]
  /\ UNCHANGED <<sync, connected, proxyVars, queueVars, accessOwner, feeders, handler,
                 toldVars, ending, fault>>

\* SetClientData of OpCodeHandler.
ChangeData(c) ==
  /\ ~connected /\ linked[c] = "data"
  /\ SetClientData(c, <<"changed", c>>)
  /\ linked' = [linked EXCEPT ![c] = "changed"]
  /\ UNCHANGED <<sync, connected, proxyVars, queueVars, accessOwner, feeders, handler,
                 toldVars, ending, fault>>

Connect ==
  /\ ~connected /\ connected' = TRUE
  /\ LinkClientFunctions
  /\ UNCHANGED <<sync, linked, proxyVars, queueVars, accessOwner, feeders, handler,
                 toldVars, ending, fault>>

-----------------------------------------------------------------------------
(* The feeders.                                                            *)

\* AddToQueue of the handler.
AddToQueue(m) ==
  /\ queueOwner = "free"
  /\ queue' = Append(queue, m)
  /\ UNCHANGED queueOwner

\* PacketReceiver hands a packet over, be it one it was waiting for when the stop
\* came.  What it does once NetworkControl is gone is in module ClientSession.
ReceiveTCP(m) ==
  /\ connected /\ dpc # "done" /\ received < MaxPackets /\ Len(queue) < MaxQueue
  /\ received' = received + 1
  /\ AddToQueue(m)
  /\ UNCHANGED <<sync, connected, tableVars, proxyVars, accessOwner, datagrams, udpc,
                 handler, toldVars, ending, fault>>

\* UDPReceiver takes m_ClientAccessMutex, finds the local client and hands the
\* datagram over before it gives the mutex back.
ReceiveUDP ==
  /\ connected /\ udpc = "select" /\ datagrams < MaxDatagrams
  /\ accessOwner = "free" /\ accessOwner' = "udp"
  /\ datagrams' = datagrams + 1 /\ udpc' = "put"
  /\ UNCHANGED <<sync, connected, tableVars, proxyVars, queueVars, received, handler,
                 toldVars, ending, fault>>

PutUDP ==
  /\ udpc = "put" /\ udpc' = "select"
  /\ \E m \in UserMessages : AddToQueue(m)
  /\ accessOwner' = "free"
  /\ UNCHANGED <<sync, connected, tableVars, proxyVars, received, datagrams, handler,
                 toldVars, ending, fault>>

EndUDP ==
  /\ udpc = "select" /\ stop
  /\ udpc' = "ended"
  /\ UNCHANGED <<sync, connected, tableVars, proxyVars, queueVars, accessOwner, received,
                 datagrams, handler, toldVars, ending, fault>>

-----------------------------------------------------------------------------
(* The handler.                                                            *)

\* HandlePackets locks the queue for as long as it works.
HandlePackets ==
  /\ sync /\ connected /\ hpc = "idle" /\ dpc = "idle"
  /\ queueOwner = "free" /\ queueOwner' = "handler"
  /\ hpc' = "next"
  /\ UNCHANGED <<sync, connected, tableVars, proxyVars, queue, accessOwner, feeders,
                 packet, toldVars, ending, fault>>

\* Mutant: the mutex is not unlocked when the queue is empty.
HandlePacketsKeepsLock ==
  /\ sync /\ hpc = "next" /\ queue = <<>> /\ hpc' = "idle"
  /\ UNCHANGED <<sync, connected, tableVars, proxyVars, queueVars, packet, accessOwner,
                 feeders, toldVars, ending, fault>>

HandlePacketsNext ==
  /\ sync /\ hpc = "next"
  /\ IF queue = <<>>
     THEN hpc' = "idle" /\ queueOwner' = "free" /\ UNCHANGED <<queue, packet>>
     ELSE hpc' = "call" /\ packet' = Head(queue) /\ queue' = Tail(queue)
          /\ UNCHANGED queueOwner
  /\ UNCHANGED <<sync, connected, tableVars, proxyVars, accessOwner, feeders, toldVars,
                 ending, fault>>

\* PacketHandlerLoop, woken by its semaphore: it ends when a stop has been
\* asked for, unless NetworkControl, which it asks, is gone, and locks the
\* queue only to take a packet.
LoopNext ==
  /\ ~sync /\ hpc = "idle" /\ queue # <<>>
  /\ \/ dpc = "done" /\ fault' = "m_Singleton" /\ UNCHANGED <<hpc, queue, packet>>
     \/ dpc # "done" /\ stop /\ hpc' = "ended" /\ UNCHANGED <<queue, packet, fault>>
     \/ /\ dpc # "done" /\ ~stop /\ queueOwner = "free"
        /\ hpc' = "call" /\ packet' = Head(queue) /\ queue' = Tail(queue)
        /\ UNCHANGED fault
  /\ UNCHANGED <<sync, connected, tableVars, proxyVars, queueOwner, accessOwner, feeders,
                 toldVars, ending>>

\* The function has returned and the packet is deleted.
Handled == hpc' = IF sync THEN "next" ELSE "idle"

\* CallOpCodeFunction.  AddRemoteClient and RemoveRemoteClient go on to the
\* proxies, RemoveRemoteClient only if it finds one; its callback has run then.
Call ==
  /\ hpc = "call"
  /\ CASE FunctionOf(packet.op) = Library(ADD_CLIENT) ->
            hpc' = "lock" /\ UNCHANGED toldVars
       [] FunctionOf(packet.op) = Library(REMOVE_CLIENT) ->
            IF proxyMap[packet.id] = NullProxy
            THEN Handled /\ told' = [told EXCEPT ![packet.id] = "removed"]
                 /\ UNCHANGED toldTwice
            ELSE hpc' = "lock" /\ UNCHANGED toldVars
       [] OTHER -> Handled /\ UNCHANGED toldVars
  /\ UNCHANGED <<sync, connected, tableVars, proxyVars, queueVars, accessOwner, feeders,
                 packet, ending, fault>>

\* AddClientProxy and RemoveClientProxy.
Lock ==
  /\ hpc = "lock" /\ accessOwner = "free"
  /\ hpc' = "work" /\ accessOwner' = "handler"
  /\ UNCHANGED <<sync, connected, tableVars, proxyVars, queueVars, feeders, packet,
                 toldVars, ending, fault>>

\* Mutant: m_ClientAccessMutex is not unlocked.
WorkKeepsLock ==
  /\ hpc = "work" /\ UNCHANGED accessOwner /\ Handled
  /\ packet.op = ADD_CLIENT /\ AddClientProxy(packet.id)
  /\ UNCHANGED <<sync, connected, tableVars, queueVars, feeders, packet, toldVars,
                 ending, fault>>

Work ==
  /\ hpc = "work" /\ accessOwner' = "free" /\ Handled
  /\ \/ /\ packet.op = ADD_CLIENT
        /\ AddClientProxy(packet.id)
        /\ told' = [told EXCEPT ![packet.id] = "added"]
        /\ toldTwice' = IF told[packet.id] = "added" THEN toldTwice \cup {packet.id}
                        ELSE toldTwice
     \/ /\ packet.op = REMOVE_CLIENT
        /\ RemoveClientProxy(packet.id)
        /\ told' = [told EXCEPT ![packet.id] = "removed"]
        /\ UNCHANGED toldTwice
  /\ UNCHANGED <<sync, connected, tableVars, queueVars, feeders, packet, ending, fault>>

Handle == HandlePacketsNext \/ LoopNext \/ Call \/ Lock \/ Work

-----------------------------------------------------------------------------
(* ClientSide::Disconnect, called by the application.                      *)

\* SetStop: the event, then a null packet through m_HandlerObject, which is
\* null under HANDLER_SYNC.
SetStop ==
  /\ connected /\ dpc = "idle" /\ (sync => hpc = "idle")
  /\ dpc' = "wakeHandler" /\ stop' = TRUE
  /\ UNCHANGED <<sync, connected, tableVars, proxyVars, queueVars, accessOwner, feeders,
                 handler, toldVars, fault>>

WakeHandler ==
  /\ dpc = "wakeHandler"
  /\ IF sync THEN fault' = "m_HandlerObject" /\ UNCHANGED <<queueVars, dpc>>
     ELSE AddToQueue(NullPacket) /\ dpc' = "join" /\ UNCHANGED fault
  /\ UNCHANGED <<sync, connected, tableVars, proxyVars, accessOwner, feeders, handler,
                 toldVars, stop>>

\* The network thread, which waits for the UDP receiver, is waited for; nobody
\* waits for the handler.
JoinNetworkThread ==
  /\ dpc = "join" /\ udpc = "ended"
  /\ dpc' = "delete"
  /\ UNCHANGED <<sync, connected, tableVars, proxyVars, queueVars, accessOwner, feeders,
                 handler, toldVars, stop, fault>>

\* The handler is in a function of the library.
InLibrary ==
  \/ hpc \in {"lock", "work"}
  \/ hpc = "call" /\ FunctionOf(packet.op) \in {Library(ADD_CLIENT), Library(REMOVE_CLIENT)}

\* ~NetworkControl; a function of the library that is at work would use it.
DeleteNetworkControl ==
  /\ dpc = "delete" /\ dpc' = "done"
  /\ IF InLibrary
     THEN fault' = "m_Singleton" /\ UNCHANGED proxyVars
     ELSE DeleteProxies /\ UNCHANGED fault
  /\ UNCHANGED <<sync, connected, tableVars, queueVars, accessOwner, feeders, handler,
                 toldVars, stop>>

Disconnect == SetStop \/ WakeHandler \/ JoinNetworkThread \/ DeleteNetworkControl

-----------------------------------------------------------------------------
Step ==
  \/ Connect \/ \E c \in UserCodes : Link(c) \/ ChangeData(c)
  \/ \E m \in Messages : ReceiveTCP(m)
  \/ ReceiveUDP \/ PutUDP \/ EndUDP
  \/ HandlePackets \/ Handle
  \/ Disconnect

Next == fault = "none" /\ Step

Spec == Init /\ [][Next]_vars

\* The threads are scheduled; functions and callbacks of the user return.  The
\* application need not call HandlePackets or Disconnect.
Fairness ==
  /\ WF_vars(fault = "none" /\ Handle)
  /\ WF_vars(fault = "none" /\ PutUDP)

FairSpec == Spec /\ Fairness

-----------------------------------------------------------------------------
(* Properties.                                                             *)

\* The variables have the values of their declarations; a mutex is held by the
\* thread that is at a place where it holds it.
TypeOK ==
  /\ sync \in BOOLEAN /\ connected \in BOOLEAN /\ stop \in BOOLEAN
  /\ proxyIds \in Seq(Ids) /\ proxyMap \in [Ids -> 0 .. made]
  /\ freed \in [1 .. made -> Nat]
  /\ queue \in Seq(Messages \cup {NullPacket}) /\ packet \in Messages \cup {NullPacket}
  /\ (queueOwner = "handler") = (sync /\ hpc \notin {"idle", "ended"})
  /\ (accessOwner = "handler") = (hpc = "work")
  /\ (accessOwner = "udp") = (udpc = "put")
  /\ hpc \in {"idle", "next", "call", "lock", "work", "ended"}
  /\ hpc \in {"lock", "work"} => packet.op \in {ADD_CLIENT, REMOVE_CLIENT}

\* The map tells what the server has told last of every client, however often,
\* and in whatever order, it has told of its coming and going.
MapTellsLast ==
  \A id \in Ids : (proxyMap[id] # NullProxy) = (told[id] = "added")

\* As long as no client is announced twice the vector has the clients of the
\* map, once each, every proxy is in the map or has been deleted, once, and
\* after Disconnect all of them have.
ToldOnceIsKeptOnce ==
  (toldTwice = {} /\ fault = "none") =>
    /\ IsInjective(proxyIds)
    /\ Range(proxyIds) = {id \in Ids : proxyMap[id] # NullProxy}
    /\ \A x \in 1 .. made :
         freed[x] = IF dpc # "done" /\ (\E id \in Ids : proxyMap[id] = x) THEN 0 ELSE 1

\* A code of the application reaches, at the other end, the function and the
\* data it was linked with or, refused at both ends, nothing; it displaces no
\* function of the library, and of all codes only the last writes behind the
\* object.
LinksHold ==
  connected =>
    /\ \A c \in UserCodes :
         LET op == OpCodeOf(c)
         IN IF Accepts(c) /\ linked[c] # None
            THEN FunctionOf(op) = <<"function", c>> /\ DataOf(op) = <<linked[c], c>>
            ELSE FunctionOf(op) = None
    /\ \A op \in {GET_ID, ADD_CLIENT, REMOVE_CLIENT} : FunctionOf(op) = Library(op)
    /\ cells[Behind] # None => cells[Behind][2] = Word - 1 - Internal

\* UDPReceiver holds m_ClientAccessMutex and waits for the queue, which the
\* application has locked in HandlePackets while it waits for the former.
LocksCrossed == sync /\ udpc = "put" /\ hpc = "lock"

\* What the handler has begun it ends, and HandlePackets returns, unless it meets
\* a datagram in that way.
HandlingEnds == hpc \notin {"idle", "ended"} ~> (hpc \in {"idle", "ended"} \/ LocksCrossed
                                                   \/ fault # "none")

\* "If you wish to handle packets in a thread of choice, you may do so": UDP and
\* HandlePackets do not wait for each other.
NeverCrossed == ~LocksCrossed
=============================================================================
