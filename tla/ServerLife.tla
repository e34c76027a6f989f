----------------------------- MODULE ServerLife -----------------------------
(***************************************************************************)
(* The life of a server: Initialize, the threads of ServerEntry, and       *)
(* Deinitialize with ~NetworkControl, perhaps more than once.  A client is *)
(* here its object, its place in the tables and its KeepAlive thread.      *)
(*                                                                         *)
(* The event of ExtEvent is m_StopRequestedEvent, new in each life; the    *)
(* Broadcaster, its queue and its own stop event stay for good.            *)
(* What the library itself broadcasts when a client comes or goes is in    *)
(* ClientRegistry: here only the application's packets are in the queue.   *)
(***************************************************************************)
EXTENDS Naturals, Sequences, FiniteSets, SequencesExt, ExtEvent

CONSTANTS
  MaxClients,  \* the bound on the clients that connect, in all lives
  MaxLives,    \* the bound on the calls of Initialize that succeed
  MaxPackets   \* the bound on the application's broadcasts

ASSUME LifeAssumption == MaxClients \in Nat /\ MaxLives \in Nat /\ MaxPackets \in Nat

VARIABLES
  net,        \* *m_Singleton: none, live, dying, freed
  lives,      \* the calls of Initialize that have succeeded
  apc,        \* the application: idle, or where it is in Deinitialize
  ai,         \* the index of the loops of ~NetworkControl
  victim,     \* the client it stops or deletes
  npc,        \* the network thread, ServerEntry
  bpc,        \* the broadcaster thread
  bq,         \* its queue; 0 is the null packet
  btok,       \* its semaphore
  bstop,      \* its m_StopRequestedEvent
  bsent,      \* history: the application's broadcasts
  lpc,        \* the listener
  lclient,    \* the client it has accepted, and works for
  upc,        \* the UDP receiver
  mutex,      \* m_ClientAccessMutex: None, or the client being removed
  ids,        \* m_ClientIds
  mapped,     \* the clients that m_PublicIdClientMap holds
  object,     \* each client: none, live, dying, freed
  kpc,        \* its KeepAlive thread
  born,       \* the life each has connected in
  fault       \* none, or what has been misused

Null == 0
None == 0

\* The clients are numbered as they connect.
Clients == 1 .. MaxClients

app       == <<net, lives, apc, ai, victim>>
broadcast == <<bpc, bq, btok, bstop, bsent>>
listener  == <<lpc, lclient>>
tables    == <<mutex, ids, mapped>>
clients   == <<object, kpc, born>>
threads   == <<npc, broadcast, listener, upc>>
vars      == <<linux, eventVars, app, threads, tables, clients, fault>>

Init ==
  /\ linux \in BOOLEAN /\ EventInit
  /\ net = "none" /\ lives = 0 /\ apc = "idle" /\ ai = 1 /\ victim = None
  /\ npc = "none"
  /\ bpc = "none" /\ bq = <<>> /\ btok = 0 /\ bstop = FALSE /\ bsent = 0
  /\ lpc = "none" /\ lclient = None /\ upc = "none"
  /\ mutex = None /\ ids = <<>> /\ mapped = {}
  /\ object = [c \in Clients |-> "none"] /\ kpc = [c \in Clients |-> "none"]
  /\ born = [c \in Clients |-> 0] /\ fault = "none"

-----------------------------------------------------------------------------
(* The application.                                                        *)

\* m_InitCount, which is tested first.
Running == net \in {"live", "dying"}

\* Everything works: a new NetworkControl, and its network thread.
Initialize ==
  /\ apc = "idle" /\ ~Running /\ lives < MaxLives
  /\ net' = "live" /\ lives' = lives + 1
  /\ isSet' = FALSE /\ sleeping' = {} /\ woken' = {} /\ UNCHANGED expired
  /\ npc' = "broadcaster" /\ bpc' = "none" /\ lpc' = "none" /\ upc' = "none"
  /\ mutex' = None /\ ids' = <<>> /\ mapped' = {}
  /\ UNCHANGED <<linux, apc, ai, victim, bq, btok, bstop, bsent, lclient, clients, fault>>

\* A socket cannot be had: the object is deleted before there is any thread,
\* and m_Singleton is left pointing at it.
InitializeFails ==
  /\ apc = "idle" /\ ~Running /\ lives < MaxLives
  /\ net' = "freed"
  /\ UNCHANGED <<linux, eventVars, lives, apc, ai, victim, threads, tables,
                 clients, fault>>

\* ServerSide::Broadcast.
Broadcast ==
  /\ apc = "idle" /\ net = "live" /\ bsent < MaxPackets
  /\ bq' = Append(bq, bsent + 1) /\ btok' = btok + 1 /\ bsent' = bsent + 1
  /\ UNCHANGED <<linux, eventVars, app, npc, bpc, bstop, listener, upc, tables,
                 clients, fault>>

\* Deinitialize: the sockets are closed and the event is set.
DeinitClose ==
  /\ apc = "idle" /\ net = "live"
  /\ apc' = "walk" /\ ai' = 1 /\ net' = "dying"
  /\ Set
  /\ UNCHANGED <<linux, lives, victim, threads, tables, clients, fault>>

MoreToStop == ai <= Len(ids)

\* m_StopEvent.Set(): a KeepAlive that waits for it goes on.  On Win32 one that
\* has yet to wait will not stop there; on Linux the wait does not look at the
\* flag, and a stop that comes first is lost.
Heeds(c) == kpc[c] = "wait" \/ (~linux /\ kpc[c] = "start")

RaiseStop(c) == kpc' = IF Heeds(c) THEN [kpc EXCEPT ![c] = "lock"] ELSE kpc

\* SetStop on the clients one by one, in three steps, beginning with the event;
\* m_ClientAccessMutex is not taken.
DeinitStopClient ==
  /\ apc = "walk" /\ MoreToStop
  /\ IF ids[ai] \in mapped /\ object[ids[ai]] # "freed"
     THEN RaiseStop(ids[ai]) /\ apc' = "sender" /\ victim' = ids[ai] /\ UNCHANGED fault
     ELSE fault' = "SetStop" /\ UNCHANGED <<apc, victim, kpc>>
  /\ UNCHANGED <<linux, eventVars, net, lives, ai, threads, tables, object, born>>

\* Then a null packet to its sender and one to its handler, which ~Client may
\* have deleted as soon as it runs.
DeinitStopQueues ==
  /\ apc \in {"sender", "handler"}
  /\ \/ /\ object[victim] # "freed" /\ UNCHANGED fault
        /\ \/ apc = "sender" /\ apc' = "handler" /\ UNCHANGED <<ai, victim>>
           \/ apc = "handler" /\ apc' = "walk" /\ ai' = ai + 1 /\ victim' = None
     \/ /\ object[victim] # "live"
        /\ fault' = "SetStop" /\ UNCHANGED <<apc, ai, victim>>
  /\ UNCHANGED <<linux, eventVars, net, lives, threads, tables, clients>>

DeinitStopped ==
  /\ apc = "walk" /\ ~MoreToStop
  /\ apc' = "join"
  /\ UNCHANGED <<linux, eventVars, net, lives, ai, victim, threads, tables,
                 clients, fault>>

\* Mutant: the loop that deletes starts one index too low.
DeinitJoinTooLow ==
  /\ apc = "join" /\ npc = "done"
  /\ apc' = "delete" /\ ai' = 0
  /\ UNCHANGED <<linux, eventVars, net, lives, victim, threads, tables,
                 clients, fault>>

\* Mutant: the network thread is not waited for.
DeinitNoJoin ==
  /\ apc = "join"
  /\ apc' = "delete" /\ ai' = 1
  /\ UNCHANGED <<linux, eventVars, net, lives, victim, threads, tables, clients, fault>>

\* m_NetworkThread->Wait( INFINITE ).
DeinitJoin ==
  /\ apc = "join" /\ npc = "done"
  /\ apc' = "delete" /\ ai' = 1
  /\ UNCHANGED <<linux, eventVars, net, lives, victim, threads, tables,
                 clients, fault>>

\* delete m_PublicIdClientMap[ .. ]; the null pointer may be deleted.
DeinitDelete ==
  /\ apc = "delete" /\ ai <= Len(ids)
  /\ LET c == ids[ai] IN
       IF c \notin mapped
       THEN ai' = ai + 1 /\ UNCHANGED <<apc, victim, object, fault>>
       ELSE IF object[c] = "live"
       THEN apc' = "deleting" /\ object' = [object EXCEPT ![c] = "dying"]
              /\ victim' = c /\ UNCHANGED <<ai, fault>>
       ELSE fault' = "delete" /\ UNCHANGED <<apc, ai, victim, object>>
  /\ UNCHANGED <<linux, eventVars, net, lives, threads, tables, kpc,
                 born>>

\* The end of ~Client, which on Win32 waits for the KeepAlive thread.
DeinitDeleted ==
  /\ apc = "deleting"
  /\ linux \/ kpc[victim] = "done"
  /\ object' = [object EXCEPT ![victim] = "freed"]
  /\ apc' = "delete" /\ ai' = ai + 1 /\ victim' = None
  /\ UNCHANGED <<linux, eventVars, net, lives, threads, tables, kpc,
                 born, fault>>

\* The NetworkControl is gone with its tables, and m_Singleton is 0.
DeinitEnd ==
  /\ apc = "delete" /\ ai > Len(ids)
  /\ apc' = "idle" /\ net' = "freed" /\ ai' = 1
  /\ mutex' = None /\ ids' = <<>> /\ mapped' = {}
  /\ UNCHANGED <<linux, eventVars, lives, victim, threads, clients, fault>>

Deinitialize ==
  \/ DeinitStopClient \/ DeinitStopQueues \/ DeinitStopped \/ DeinitJoin \/ DeinitDelete
  \/ DeinitDeleted \/ DeinitEnd

-----------------------------------------------------------------------------
(* ServerEntry.                                                            *)

NetStart ==
  /\ \/ npc = "broadcaster" /\ npc' = "listener" /\ bpc' = "wait"
          /\ UNCHANGED <<lpc, upc>>
     \/ npc = "listener" /\ npc' = "udp" /\ lpc' = "poll" /\ UNCHANGED <<bpc, upc>>
     \/ npc = "udp" /\ npc' = "wait" /\ upc' = "poll" /\ UNCHANGED <<bpc, lpc>>
  /\ UNCHANGED <<linux, eventVars, app, bq, btok, bstop, bsent, lclient, tables,
                 clients, fault>>

NetWait ==
  /\ npc = "wait" /\ npc' = "asleep"
  /\ WaitBegin("network")
  /\ UNCHANGED <<linux, app, broadcast, listener, upc, tables, clients, fault>>

NetWake ==
  /\ npc = "asleep" /\ npc' = "stop"
  /\ WaitEnd("network")
  /\ UNCHANGED <<linux, app, broadcast, listener, upc, tables, clients, fault>>

NetExpires ==
  /\ npc = "asleep" /\ npc' = "stop"
  /\ WaitExpire("network")
  /\ UNCHANGED <<linux, app, broadcast, listener, upc, tables, clients, fault>>

\* The Broadcaster's stop event, and a null packet to wake its thread.
NetStop ==
  /\ npc = "stop" /\ npc' = "joinBroadcaster"
  /\ bstop' = TRUE /\ bq' = Append(bq, Null) /\ btok' = btok + 1
  /\ UNCHANGED <<linux, eventVars, app, bpc, bsent, listener, upc, tables,
                 clients, fault>>

\* Mutant: the listener and the UDP receiver are not waited for.
NetJoinBroadcaster ==
  /\ npc = "joinBroadcaster" /\ bpc = "ended" /\ npc' = "done"
  /\ UNCHANGED <<linux, eventVars, app, broadcast, listener, upc, tables,
                 clients, fault>>

NetJoin ==
  /\ \/ npc = "joinBroadcaster" /\ bpc = "ended" /\ npc' = "joinListener"
     \/ npc = "joinListener" /\ lpc = "ended" /\ npc' = "joinUdp"
     \/ npc = "joinUdp" /\ upc = "ended" /\ npc' = "done"
  /\ UNCHANGED <<linux, eventVars, app, broadcast, listener, upc, tables,
                 clients, fault>>

NetworkThread == NetStart \/ NetWait \/ NetWake \/ NetStop \/ NetJoin

-----------------------------------------------------------------------------
(* The broadcaster, the listener and the UDP receiver.                     *)

BroadcastWait ==
  /\ bpc = "wait" /\ btok > 0
  /\ btok' = btok - 1 /\ bpc' = "check"
  /\ UNCHANGED <<linux, eventVars, app, npc, bq, bstop, bsent, listener, upc,
                 tables, clients, fault>>

BroadcastCheck ==
  /\ bpc = "check"
  /\ IF bstop THEN bpc' = "ended" /\ UNCHANGED bq
     ELSE IF bq = <<>> THEN bpc' = "wait" /\ UNCHANGED bq
     ELSE bq' = Tail(bq) /\ bpc' = IF Head(bq) = Null THEN "wait" ELSE "send"
  /\ UNCHANGED <<linux, eventVars, app, npc, btok, bstop, bsent, listener, upc,
                 tables, clients, fault>>

\* The packet goes to the clients, under the mutex.
BroadcastSend ==
  /\ bpc = "send" /\ mutex = None /\ bpc' = "wait"
  /\ UNCHANGED <<linux, eventVars, app, npc, bq, btok, bstop, bsent, listener,
                 upc, tables, clients, fault>>

BroadcasterThread == BroadcastWait \/ BroadcastCheck \/ BroadcastSend

ListenerPoll ==
  /\ lpc = "poll" /\ lpc' = IF isSet THEN "ended" ELSE "accept"
  /\ UNCHANGED <<linux, eventVars, app, npc, broadcast, lclient, upc, tables,
                 clients, fault>>

\* accept() returns a connection.  On Linux it still may once the socket has
\* been closed, for it is not interrupted by that.
ListenerAccept(c) ==
  /\ lpc = "accept" /\ (~isSet \/ linux)
  /\ object[c] = "none" /\ \A d \in 1 .. c - 1 : object[d] # "none"
  /\ lpc' = "add" /\ lclient' = c
  /\ UNCHANGED <<linux, eventVars, app, npc, broadcast, upc, tables, clients, fault>>

\* On Win32 the closed socket ends accept().
ListenerAcceptFails ==
  /\ lpc = "accept" /\ isSet /\ ~linux
  /\ lpc' = "poll"
  /\ UNCHANGED <<linux, eventVars, app, npc, broadcast, lclient, upc, tables,
                 clients, fault>>

\* AddClient, with the client's KeepAlive thread.
ListenerAdd ==
  /\ lpc = "add" /\ mutex = None
  /\ object' = [object EXCEPT ![lclient] = "live"]
  /\ kpc' = [kpc EXCEPT ![lclient] = "start"]
  /\ born' = [born EXCEPT ![lclient] = lives]
  /\ ids' = Append(ids, lclient) /\ mapped' = mapped \cup {lclient}
  /\ lpc' = "use"
  /\ UNCHANGED <<linux, eventVars, app, npc, broadcast, upc, lclient, mutex,
                 fault>>

\* The address, the callback and the first packets of the new client, without
\* the mutex: it may have left, and been deleted, before the last of them.
ListenerUse ==
  /\ lpc = "use"
  /\ \/ /\ object[lclient] # "freed"
        /\ lpc' = "poll" /\ lclient' = None /\ UNCHANGED fault
     \/ /\ object[lclient] # "live"
        /\ fault' = "listener" /\ UNCHANGED listener
  /\ UNCHANGED <<linux, eventVars, app, npc, broadcast, upc, tables, clients>>

ListenerThread == ListenerPoll \/ ListenerAcceptFails \/ ListenerAdd \/ ListenerUse

UdpEnd ==
  /\ upc = "poll" /\ isSet /\ upc' = "ended"
  /\ UNCHANGED <<linux, eventVars, app, npc, broadcast, listener, tables,
                 clients, fault>>

\* After the poll select() says that there is a datagram, and it is read.
UdpRead ==
  /\ upc = "poll" /\ ~isSet /\ upc' = "deliver"
  /\ UNCHANGED <<linux, eventVars, app, npc, broadcast, listener, tables,
                 clients, fault>>

\* The client is looked up and fed under the mutex.
UdpDeliver ==
  /\ upc = "deliver" /\ mutex = None /\ upc' = "poll"
  /\ UNCHANGED <<linux, eventVars, app, npc, broadcast, listener, tables,
                 clients, fault>>

\* recvfrom() finds nothing and blocks: on Linux, where the datagram that ended
\* select() has been thrown away for its checksum; on Win32, where it was the
\* error of a datagram sent to a client that is gone, which the first recvfrom()
\* has taken, and the code calls it again to throw a datagram away.
UdpBlocks ==
  /\ upc = "poll" /\ ~isSet /\ upc' = "recv"
  /\ UNCHANGED <<linux, eventVars, app, npc, broadcast, listener, tables,
                 clients, fault>>

\* The next datagram comes, if any does, and is delivered or thrown away.
UdpGoesOn ==
  /\ upc = "recv" /\ upc' = IF linux THEN "deliver" ELSE "poll"
  /\ UNCHANGED <<linux, eventVars, app, npc, broadcast, listener, tables,
                 clients, fault>>

\* On Win32 the closed socket ends recvfrom().
UdpClosed ==
  /\ upc = "recv" /\ isSet /\ ~linux /\ upc' = "poll"
  /\ UNCHANGED <<linux, eventVars, app, npc, broadcast, listener, tables,
                 clients, fault>>

UdpThread == UdpEnd \/ UdpDeliver \/ UdpClosed

-----------------------------------------------------------------------------
(* A client: its connection ends, and KeepAlive removes it.                *)

\* Its receiver sets the event.
ClientStops(c) ==
  /\ object[c] = "live" /\ RaiseStop(c)
  /\ UNCHANGED <<linux, eventVars, app, threads, tables, object, born, fault>>

\* The NetworkControl the client was added to still exists.
AtHome(c) == net \in {"live", "dying"} /\ born[c] = lives

\* Whoever goes on without it uses freed memory, or a null m_Singleton.
KeepAliveLost(c) ==
  /\ \/ kpc[c] \in {"lock", "destroy", "unmap", "unlist"} /\ ~AtHome(c)
     \/ kpc[c] \in {"start", "lock"} /\ object[c] = "freed"
  /\ fault' = "KeepAlive"
  /\ UNCHANGED <<linux, eventVars, app, threads, tables, clients>>

\* m_StopEvent.Wait( INFINITE ).
KeepAliveWait(c) ==
  /\ kpc[c] = "start" /\ object[c] # "freed"
  /\ kpc' = [kpc EXCEPT ![c] = "wait"]
  /\ UNCHANGED <<linux, eventVars, app, threads, tables, object, born, fault>>

\* On Linux the wait may end by itself.
KeepAliveExpires(c) ==
  /\ linux /\ kpc[c] = "wait"
  /\ kpc' = [kpc EXCEPT ![c] = "lock"]
  /\ UNCHANGED <<linux, eventVars, app, threads, tables, object, born, fault>>

\* RemoveClient: the client is in the vector, and is deleted.
KeepAliveRemove(c) ==
  /\ kpc[c] = "lock" /\ AtHome(c) /\ object[c] # "freed" /\ mutex = None
  /\ IF object[c] = "live"
     THEN /\ mutex' = c /\ object' = [object EXCEPT ![c] = "dying"]
          /\ kpc' = [kpc EXCEPT ![c] = "destroy"] /\ UNCHANGED fault
     ELSE fault' = "delete" /\ UNCHANGED <<mutex, object, kpc>>
  /\ UNCHANGED <<linux, eventVars, app, threads, ids, mapped, born>>

\* ~Client returns; never on Win32, where it waits for this thread.
KeepAliveDestroyed(c) ==
  /\ kpc[c] = "destroy" /\ AtHome(c) /\ linux
  /\ object' = [object EXCEPT ![c] = "freed"]
  /\ kpc' = [kpc EXCEPT ![c] = "unmap"]
  /\ UNCHANGED <<linux, eventVars, app, threads, tables, born, fault>>

KeepAliveUnmap(c) ==
  /\ kpc[c] = "unmap" /\ AtHome(c)
  /\ mapped' = mapped \ {c}
  /\ kpc' = [kpc EXCEPT ![c] = "unlist"]
  /\ UNCHANGED <<linux, eventVars, app, threads, mutex, ids, object,
                 born, fault>>

\* The last entry takes the place of this one.
SwapOut(c) ==
  LET i == CHOOSE i \in DOMAIN ids : ids[i] = c IN Front([ids EXCEPT ![i] = Last(ids)])

KeepAliveUnlist(c) ==
  /\ kpc[c] = "unlist" /\ AtHome(c)
  /\ ids' = SwapOut(c)
  /\ mutex' = None
  /\ kpc' = [kpc EXCEPT ![c] = "done"]
  /\ UNCHANGED <<linux, eventVars, app, threads, mapped, object, born, fault>>

KeepAlive(c) ==
  \/ KeepAliveWait(c) \/ KeepAliveRemove(c) \/ KeepAliveDestroyed(c)
  \/ KeepAliveUnmap(c) \/ KeepAliveUnlist(c)

-----------------------------------------------------------------------------
Next ==
  /\ fault = "none"
  /\ \/ Initialize \/ InitializeFails \/ Broadcast \/ DeinitClose \/ Deinitialize
     \/ NetworkThread \/ NetExpires
     \/ BroadcasterThread
     \/ ListenerThread \/ \E c \in Clients : ListenerAccept(c)
     \/ UdpThread \/ UdpRead \/ UdpBlocks \/ UdpGoesOn
     \/ \E c \in Clients : \/ ClientStops(c) \/ KeepAlive(c)
                             \/ KeepAliveExpires(c) \/ KeepAliveLost(c)

Spec == Init /\ [][Next]_vars

-----------------------------------------------------------------------------
(* Properties.                                                             *)

\* The variables have the shape the declarations give them.
TypeOK ==
  /\ linux \in BOOLEAN /\ isSet \in BOOLEAN /\ expired \in BOOLEAN
  /\ sleeping \subseteq {"network"} /\ woken \subseteq {"network"}
  /\ net \in {"none", "live", "dying", "freed"} /\ lives \in 0 .. MaxLives
  /\ apc \in {"idle", "walk", "sender", "handler", "join", "delete", "deleting"}
  /\ ai \in Nat \ {0} /\ victim \in Clients \cup {None}
  /\ apc \in {"sender", "handler", "deleting"} => victim \in Clients
  /\ npc \in {"none", "broadcaster", "listener", "udp", "wait", "asleep", "stop",
              "joinBroadcaster", "joinListener", "joinUdp", "done"}
  /\ bpc \in {"none", "wait", "check", "send", "ended"}
  /\ bq \in Seq(0 .. MaxPackets) /\ btok \in Nat /\ bstop \in BOOLEAN
  /\ bsent \in 0 .. MaxPackets
  /\ lpc \in {"none", "poll", "accept", "add", "use", "ended"}
  /\ lclient \in Clients \cup {None} /\ (lpc \in {"add", "use"} => lclient \in Clients)
  /\ upc \in {"none", "poll", "deliver", "recv", "ended"}
  /\ mutex \in Clients \cup {None}
  /\ ids \in Seq(Clients) /\ mapped \subseteq Clients
  /\ object \in [Clients -> {"none", "live", "dying", "freed"}]
  /\ kpc \in [Clients -> {"none", "start", "wait", "lock", "destroy", "unmap", "unlist",
                       "done"}]
  /\ born \in [Clients -> 0 .. MaxLives]

\* When the NetworkControl is gone the threads that work on it, except those
\* of clients, have ended: the network thread joins the others and
\* ~NetworkControl the network thread.
ServicesAreDown ==
  net \in {"none", "freed"} =>
    /\ npc \in {"none", "done"} /\ bpc \in {"none", "ended"}
    /\ lpc \in {"none", "ended"} /\ upc \in {"none", "ended"}

\* A client's own KeepAlive deletes it, or has.
RemovedByItself(c) == kpc[c] \in {"destroy", "unmap", "unlist", "done"}

\* What is misused for the locks that the code does not take, and by whom.  The
\* listener loses its new client to the client's KeepAlive alone, and so does
\* SetStop of ~NetworkControl.  A client is deleted twice only where a KeepAlive
\* removes it beside the loop of ~NetworkControl, whose threads have ended, and
\* never by that loop alone.  A KeepAlive goes wrong once ~NetworkControl has
\* deleted its client, or is gone.
MisusesAreKnown ==
  /\ fault \in {"none", "listener", "SetStop", "delete", "KeepAlive"}
  /\ fault = "listener" => RemovedByItself(lclient)
  /\ fault = "SetStop" =>
       apc \in {"walk", "sender", "handler"} /\ \E c \in Clients : RemovedByItself(c)
  /\ fault = "delete" =>
       /\ apc \in {"delete", "deleting"} /\ npc = "done"
       /\ \E c \in Range(ids) : kpc[c] \in {"lock", "destroy", "unmap"}
  /\ fault = "KeepAlive" =>
       \E c \in Clients :
         /\ kpc[c] \in {"start", "lock", "destroy", "unmap", "unlist"}
         /\ ~AtHome(c) \/ (object[c] = "freed" /\ npc = "done")
=============================================================================
