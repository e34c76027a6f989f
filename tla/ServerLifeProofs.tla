--------------------------- MODULE ServerLifeProofs ---------------------------
(***************************************************************************)
(* For any number of lives of a server, of clients and of broadcasts: when *)
(* a NetworkControl is gone its own threads have ended, and what is        *)
(* misused for want of a lock is known, and by whom.                       *)
(***************************************************************************)
EXTENDS ServerLife, TLAPS

\* The network thread starts the three services and joins them in the same order, and
\* ~NetworkControl joins the network thread before it goes on.
ThreadsInv ==
  /\ net = "dying" <=> apc # "idle"
  /\ npc = "none" => net \in {"none", "freed"} /\ bpc = "none"
  /\ npc = "broadcaster" => bpc = "none"
  /\ npc \in {"none", "broadcaster", "listener"} => lpc = "none"
  /\ npc \in {"none", "broadcaster", "listener", "udp"} => upc = "none"
  /\ npc \in {"joinListener", "joinUdp", "done"} => bpc = "ended"
  /\ npc \in {"joinUdp", "done"} => lpc = "ended"
  /\ npc = "done" => upc = "ended"
  /\ apc \in {"delete", "deleting"} => npc = "done"
  /\ net \in {"none", "freed"} => npc \in {"none", "done"}

\* Before KeepAlive deletes its client, and until it has taken it out of the vector.
Early == {"start", "wait", "lock"}
Listed == Early \cup {"destroy", "unmap", "unlist"}

\* Who deletes a client: its KeepAlive, or ~NetworkControl, and that late only.
ClientOf(c) ==
  /\ object[c] = "none" <=> kpc[c] = "none"
  /\ object[c] = "live" => kpc[c] \in Early
  /\ object[c] = "dying" => kpc[c] = "destroy" \/ (apc = "deleting" /\ victim = c)
  /\ object[c] \in {"dying", "freed"} /\ AtHome(c) /\ apc \notin {"delete", "deleting"} =>
       RemovedByItself(c)
  /\ kpc[c] # "none" => born[c] \in 1 .. lives
  /\ kpc[c] \in Listed /\ AtHome(c) => c \in Range(ids)

\* What the loop of ~NetworkControl has yet to delete it has not deleted.
EntryOf(j) ==
  /\ object[ids[j]] # "none" /\ born[ids[j]] = lives
  /\ kpc[ids[j]] # "done" /\ (ids[j] \notin mapped <=> kpc[ids[j]] = "unlist")
  /\ \A k \in DOMAIN ids : ids[j] = ids[k] => j = k
  /\ (apc = "delete" /\ j >= ai) \/ (apc = "deleting" /\ j > ai) =>
       (object[ids[j]] = "freed" => RemovedByItself(ids[j]))
  /\ apc = "deleting" /\ j > ai => ids[j] # victim

HomeInv ==
  /\ net \in {"live", "dying"} => lives >= 1
  /\ net \notin {"live", "dying"} => ids = <<>>
  /\ lpc = "add" => object[lclient] = "none"
  /\ lpc = "use" => object[lclient] # "none" /\ born[lclient] = lives
  /\ apc \in {"sender", "handler"} => object[victim] # "none" /\ born[victim] = lives
  /\ apc = "deleting" => object[victim] = "dying" /\ kpc[victim] \in Early
  /\ \A c \in Clients : ClientOf(c)
  /\ \A j \in DOMAIN ids : EntryOf(j)

IInv == TypeOK /\ ThreadsInv /\ HomeInv /\ MisusesAreKnown

-----------------------------------------------------------------------------
(* The case split, and what the parts of the server leave alone.           *)

Application == Initialize \/ InitializeFails \/ Broadcast \/ DeinitClose \/ Deinitialize

Services ==
  \/ NetworkThread \/ NetExpires \/ BroadcasterThread
  \/ UdpThread \/ UdpRead \/ UdpBlocks \/ UdpGoesOn

Listening == ListenerThread \/ \E c \in Clients : ListenerAccept(c)

ClientStep(c) ==
  ClientStops(c) \/ KeepAlive(c) \/ KeepAliveExpires(c) \/ KeepAliveLost(c)

\* A step is the application's, a service's, the listener's or a client's.
LEMMA NextCases ==
  ASSUME [Next]_vars
  PROVE  \/ fault = "none" /\ Application
         \/ fault = "none" /\ Services
         \/ fault = "none" /\ Listening
         \/ fault = "none" /\ \E c \in Clients : ClientStep(c)
         \/ UNCHANGED vars
BY DEF Next, Application, Services, Listening, ClientStep

\* The network thread, the broadcaster and the UDP receiver change no table and no
\* client; the network thread starts the listener.
LEMMA ServicesFrame ==
  ASSUME Services
  PROVE  /\ UNCHANGED <<linux, app, bsent, lclient, tables, clients, fault>>
         /\ lpc' = lpc \/ lpc' = "poll"
<1>. USE DEF broadcast, listener
<1>1. CASE NetworkThread \/ NetExpires
  BY <1>1 DEF NetworkThread, NetStart, NetWait, NetWake, NetStop, NetJoin, NetExpires
<1>2. CASE BroadcasterThread
  BY <1>2 DEF BroadcasterThread, BroadcastWait, BroadcastCheck, BroadcastSend
<1>3. CASE UdpThread \/ UdpRead \/ UdpBlocks \/ UdpGoesOn
  BY <1>3 DEF UdpThread, UdpEnd, UdpDeliver, UdpClosed, UdpRead, UdpBlocks, UdpGoesOn
<1>. QED  BY <1>1, <1>2, <1>3 DEF Services

\* A client changes nothing of the server but its tables.
LEMMA ClientFrame ==
  ASSUME NEW c \in Clients, ClientStep(c)
  PROVE  UNCHANGED <<linux, eventVars, app, threads>>
BY DEF ClientStep, ClientStops, KeepAlive, KeepAliveWait, KeepAliveExpires,
       KeepAliveRemove, KeepAliveDestroyed, KeepAliveUnmap, KeepAliveUnlist, KeepAliveLost

\* The listener changes the tables and the clients by AddClient only.
LEMMA ListeningFrame ==
  ASSUME Listening
  PROVE  /\ UNCHANGED <<linux, eventVars, app, npc, broadcast, upc, mutex>>
         /\ ListenerAdd \/ UNCHANGED <<tables, clients>>
         /\ ListenerUse \/ UNCHANGED fault
BY DEF Listening, ListenerThread, ListenerPoll, ListenerAccept, ListenerAcceptFails,
       ListenerAdd, ListenerUse, tables

-----------------------------------------------------------------------------
(* Types, in five parts.                                                   *)

FlagsTypeOK ==
  /\ linux \in BOOLEAN /\ isSet \in BOOLEAN /\ expired \in BOOLEAN /\ bstop \in BOOLEAN

PlacesTypeOK ==
  /\ net \in {"none", "live", "dying", "freed"}
  /\ apc \in {"idle", "walk", "sender", "handler", "join", "delete", "deleting"}
  /\ npc \in {"none", "broadcaster", "listener", "udp", "wait", "asleep", "stop",
              "joinBroadcaster", "joinListener", "joinUdp", "done"}
  /\ bpc \in {"none", "wait", "check", "send", "ended"}
  /\ lpc \in {"none", "poll", "accept", "add", "use", "ended"}
  /\ upc \in {"none", "poll", "deliver", "recv", "ended"}

WaitersTypeOK == sleeping \subseteq {"network"} /\ woken \subseteq {"network"}

DataTypeOK ==
  /\ lives \in 0 .. MaxLives
  /\ ai \in Nat \ {0} /\ victim \in Clients \cup {None}
  /\ apc \in {"sender", "handler", "deleting"} => victim \in Clients
  /\ bq \in Seq(0 .. MaxPackets) /\ btok \in Nat /\ bsent \in 0 .. MaxPackets
  /\ lclient \in Clients \cup {None} /\ (lpc \in {"add", "use"} => lclient \in Clients)

ClientsTypeOK ==
  /\ mutex \in Clients \cup {None}
  /\ ids \in Seq(Clients) /\ mapped \subseteq Clients
  /\ object \in [Clients -> {"none", "live", "dying", "freed"}]
  /\ kpc \in [Clients -> {"none", "start", "wait", "lock", "destroy", "unmap", "unlist",
                       "done"}]
  /\ born \in [Clients -> 0 .. MaxLives]

\* The parts make the whole, before a step and after it.
LEMMA TypeParts ==
  /\ TypeOK <=> /\ FlagsTypeOK /\ PlacesTypeOK /\ WaitersTypeOK /\ DataTypeOK
                /\ ClientsTypeOK
  /\ TypeOK' <=> /\ FlagsTypeOK' /\ PlacesTypeOK' /\ WaitersTypeOK' /\ DataTypeOK'
                 /\ ClientsTypeOK'
BY DEF TypeOK, FlagsTypeOK, PlacesTypeOK, WaitersTypeOK, DataTypeOK, ClientsTypeOK

\* A flag is set or kept.
LEMMA NextFlags ==
  ASSUME FlagsTypeOK, [Next]_vars
  PROVE  FlagsTypeOK'
<1>. USE DEF FlagsTypeOK, eventVars, threads, broadcast
<1>1. CASE Application
  BY <1>1, Zenon
  DEF Application, Initialize, InitializeFails, Broadcast, DeinitClose, Deinitialize,
      DeinitStopClient, DeinitStopQueues, DeinitStopped, DeinitJoin, DeinitDelete,
      DeinitDeleted, DeinitEnd,
      Set
<1>2. CASE NetworkThread \/ NetExpires
  BY <1>2, Zenon
  DEF NetworkThread, NetStart, NetWait, NetWake, NetStop, NetJoin, NetExpires, WaitBegin,
      WaitEnd, WaitExpire
<1>3. CASE BroadcasterThread
  BY <1>3, Zenon DEF BroadcasterThread, BroadcastWait, BroadcastCheck, BroadcastSend
<1>4. CASE UdpThread \/ UdpRead \/ UdpBlocks \/ UdpGoesOn
  BY <1>4, Zenon
  DEF UdpThread, UdpEnd, UdpDeliver, UdpClosed, UdpRead, UdpBlocks, UdpGoesOn
<1>5. CASE Listening
  BY <1>5, ListeningFrame, Zenon
<1>6. ASSUME NEW c \in Clients, ClientStep(c)
      PROVE  FlagsTypeOK'
  BY <1>6, ClientFrame, Zenon
<1>7. CASE UNCHANGED vars
  BY <1>7, Zenon DEF vars
<1>. QED  BY <1>1, <1>2, <1>3, <1>4, <1>5, <1>6, <1>7, NextCases DEF Services

\* Every thread goes from a place to a place.
LEMMA NextPlaces ==
  ASSUME PlacesTypeOK, [Next]_vars
  PROVE  PlacesTypeOK'
<1>. USE DEF PlacesTypeOK, app, threads, broadcast, listener
<1>1. CASE Application
  BY <1>1
  DEF Application, Initialize, InitializeFails, Broadcast, DeinitClose, Deinitialize,
      DeinitStopClient, DeinitStopQueues, DeinitStopped, DeinitJoin, DeinitDelete,
      DeinitDeleted, DeinitEnd
<1>2. CASE NetworkThread \/ NetExpires
  BY <1>2
  DEF NetworkThread, NetStart, NetWait, NetWake, NetStop, NetJoin, NetExpires
<1>3. CASE BroadcasterThread
  BY <1>3 DEF BroadcasterThread, BroadcastWait, BroadcastCheck, BroadcastSend
<1>4. CASE UdpThread \/ UdpRead \/ UdpBlocks \/ UdpGoesOn
  BY <1>4
  DEF UdpThread, UdpEnd, UdpDeliver, UdpClosed, UdpRead, UdpBlocks, UdpGoesOn
<1>5. CASE Listening
  BY <1>5
  DEF Listening, ListenerThread, ListenerPoll, ListenerAccept, ListenerAcceptFails,
      ListenerAdd, ListenerUse
<1>6. ASSUME NEW c \in Clients, ClientStep(c)
      PROVE  PlacesTypeOK'
  BY <1>6, ClientFrame
<1>7. CASE UNCHANGED vars
  BY <1>7 DEF vars
<1>. QED  BY <1>1, <1>2, <1>3, <1>4, <1>5, <1>6, <1>7, NextCases DEF Services

\* The counters of the application and of the broadcaster.
LEMMA NextData ==
  ASSUME DataTypeOK, ClientsTypeOK, [Next]_vars
  PROVE  DataTypeOK'
<1>. USE LifeAssumption DEF DataTypeOK, app, threads, broadcast, listener, Null, None
<1>1. CASE Initialize \/ InitializeFails
  BY <1>1 DEF Initialize, InitializeFails
<1>2. CASE Broadcast
  BY <1>2 DEF Broadcast
<1>3. CASE DeinitClose \/ DeinitStopped \/ DeinitJoin \/ DeinitDeleted \/ DeinitEnd
  BY <1>3 DEF DeinitClose, DeinitStopped, DeinitJoin, DeinitDeleted, DeinitEnd
<1>4. CASE DeinitStopClient \/ DeinitStopQueues
  <2>1. apc = "walk" /\ MoreToStop => ids[ai] \in Clients
    BY DEF ClientsTypeOK, MoreToStop
  <2>. QED  BY <1>4, <2>1 DEF DeinitStopClient, DeinitStopQueues
<1>5. CASE DeinitDelete
  <2>1. ids[ai] \in Clients
    BY <1>5 DEF DeinitDelete, ClientsTypeOK
  <2>. QED  BY <1>5, <2>1 DEF DeinitDelete
<1>6. CASE NetworkThread \/ NetExpires
  <2>1. CASE NetStop
    <3>1. /\ bq' = Append(bq, Null) /\ btok' = btok + 1
          /\ UNCHANGED <<lives, apc, ai, victim, bsent, lclient, lpc>>
      BY <2>1 DEF NetStop
    <3>2. Null \in 0 .. MaxPackets
      OBVIOUS
    <3>. HIDE DEF Null
    <3>. QED  BY <3>1, <3>2
  <2>. QED
    BY <1>6, <2>1 DEF NetworkThread, NetStart, NetWait, NetWake, NetJoin, NetExpires
<1>7. CASE BroadcasterThread
  <2>1. CASE BroadcastCheck
    <3>1. /\ bq' = bq \/ (bq # <<>> /\ bq' = Tail(bq))
          /\ UNCHANGED <<lives, apc, ai, victim, btok, bsent, lclient, lpc>>
      BY <2>1 DEF BroadcastCheck
    <3>. QED  BY <3>1, SMTT(30)
  <2>2. CASE BroadcastWait
    <3>1. /\ btok > 0 /\ btok' = btok - 1
          /\ UNCHANGED <<lives, apc, ai, victim, bq, bsent, lclient, lpc>>
      BY <2>2 DEF BroadcastWait
    <3>. QED  BY <3>1
  <2>. QED  BY <1>7, <2>1, <2>2 DEF BroadcasterThread, BroadcastSend
<1>8. CASE UdpThread \/ UdpRead \/ UdpBlocks \/ UdpGoesOn
  BY <1>8
  DEF UdpThread, UdpEnd, UdpDeliver, UdpClosed, UdpRead, UdpBlocks, UdpGoesOn
<1>9. CASE Listening
  BY <1>9
  DEF Listening, ListenerThread, ListenerPoll, ListenerAccept, ListenerAcceptFails,
      ListenerAdd, ListenerUse
<1>10. ASSUME NEW c \in Clients, ClientStep(c)
       PROVE  DataTypeOK'
  BY <1>10, ClientFrame
<1>11. CASE UNCHANGED vars
  BY <1>11 DEF vars
<1>. QED
  BY <1>1, <1>2, <1>3, <1>4, <1>5, <1>6, <1>7, <1>8, <1>9, <1>10, <1>11, NextCases
  DEF Application, Deinitialize, Services

\* Nobody but the network thread waits for the stop event.
LEMMA NextWaiters ==
  ASSUME WaitersTypeOK, [Next]_vars
  PROVE  WaitersTypeOK'
<1>. USE DEF WaitersTypeOK, eventVars
<1>0. UNCHANGED eventVars => WaitersTypeOK'
  OBVIOUS
<1>1. CASE Initialize
  BY <1>1 DEF Initialize
<1>2. CASE DeinitClose
  <2>1. Set
    BY <1>2 DEF DeinitClose
  <2>. QED  BY <2>1 DEF Set
<1>3. CASE InitializeFails \/ Broadcast \/ Deinitialize
  BY <1>3, <1>0
  DEF InitializeFails, Broadcast, Deinitialize, DeinitStopClient, DeinitStopQueues,
      DeinitStopped, DeinitJoin, DeinitDelete, DeinitDeleted, DeinitEnd
<1>4. CASE NetWait \/ NetWake \/ NetExpires
  <2>1. WaitBegin("network") \/ WaitEnd("network") \/ WaitExpire("network")
    BY <1>4 DEF NetWait, NetWake, NetExpires
  <2>. QED  BY <2>1 DEF WaitBegin, WaitEnd, WaitExpire
<1>5. CASE NetStart \/ NetStop \/ NetJoin \/ BroadcasterThread
  BY <1>5, <1>0
  DEF NetStart, NetStop, NetJoin, BroadcasterThread, BroadcastWait, BroadcastCheck,
      BroadcastSend
<1>6. CASE UdpThread \/ UdpRead \/ UdpBlocks \/ UdpGoesOn
  BY <1>6, <1>0
  DEF UdpThread, UdpEnd, UdpDeliver, UdpClosed, UdpRead, UdpBlocks, UdpGoesOn
<1>7. CASE Listening
  BY <1>7, <1>0, ListeningFrame
<1>8. ASSUME NEW c \in Clients, ClientStep(c)
      PROVE  WaitersTypeOK'
  BY <1>8, <1>0, ClientFrame
<1>9. CASE UNCHANGED vars
  BY <1>9, <1>0 DEF vars
<1>. QED
  BY <1>1, <1>2, <1>3, <1>4, <1>5, <1>6, <1>7, <1>8, <1>9, NextCases
  DEF Application, Services, NetworkThread

\* What the removal from the vector leaves: the last entry in the client's place.
LEMMA SwapOutIs ==
  ASSUME ids \in Seq(Clients), NEW c \in Range(ids)
  PROVE  \E i \in 1 .. Len(ids) :
           /\ ids[i] = c
           /\ SwapOut(c) \in Seq(Clients)
           /\ Len(SwapOut(c)) = Len(ids) - 1
           /\ \A j \in 1 .. Len(ids) - 1 :
                SwapOut(c)[j] = IF j = i THEN ids[Len(ids)] ELSE ids[j]
<1>. DEFINE n == Len(ids)
            i == CHOOSE j \in DOMAIN ids : ids[j] = c
            t == [ids EXCEPT ![i] = ids[n]]
<1>1. i \in 1 .. n /\ ids[i] = c
  <2>1. \E j \in DOMAIN ids : ids[j] = c
    BY DEF Range
  <2>2. i \in DOMAIN ids /\ ids[i] = c
    BY <2>1
  <2>. QED  BY <2>2
<1>2. n \in Nat /\ n >= 1
  BY <1>1
<1>. HIDE DEF i
<1>3. /\ t \in Seq(Clients) /\ Len(t) = n
      /\ \A j \in 1 .. n : t[j] = IF j = i THEN ids[n] ELSE ids[j]
  BY <1>1, <1>2
<1>4. SwapOut(c) = SubSeq(t, 1, n - 1)
  BY <1>3 DEF SwapOut, Front, Last, i
<1>. HIDE DEF t
<1>5. /\ SwapOut(c) \in Seq(Clients) /\ Len(SwapOut(c)) = n - 1
      /\ \A j \in 1 .. n - 1 : SwapOut(c)[j] = t[j]
  BY <1>2, <1>3, <1>4
<1>6. \A j \in 1 .. n - 1 : SwapOut(c)[j] = IF j = i THEN ids[n] ELSE ids[j]
  BY <1>2, <1>3, <1>5
<1>. QED  BY <1>1, <1>5, <1>6

\* It takes out one client and no other.
LEMMA SwapOutKeeps ==
  ASSUME ids \in Seq(Clients), NEW c \in Range(ids), NEW d \in Range(ids), d # c
  PROVE  d \in Range(SwapOut(c))
<1>. DEFINE n == Len(ids)
<1>1. PICK i \in 1 .. n :
        /\ ids[i] = c /\ SwapOut(c) \in Seq(Clients) /\ Len(SwapOut(c)) = n - 1
        /\ \A j \in 1 .. n - 1 : SwapOut(c)[j] = IF j = i THEN ids[n] ELSE ids[j]
  BY SwapOutIs
<1>2. PICK j \in 1 .. n : ids[j] = d
  BY DEF Range
<1>3. n \in Nat /\ DOMAIN SwapOut(c) = 1 .. n - 1
  BY <1>1
<1>. HIDE DEF n
<1>4. CASE j = n
  <2>1. i \in 1 .. n - 1 /\ SwapOut(c)[i] = d
    BY <1>1, <1>2, <1>3, <1>4
  <2>. QED  BY <2>1, <1>3 DEF Range
<1>5. CASE j # n
  <2>1. j \in 1 .. n - 1 /\ SwapOut(c)[j] = d
    BY <1>1, <1>2, <1>3, <1>5
  <2>. QED  BY <2>1, <1>3 DEF Range
<1>. QED  BY <1>4, <1>5

\* AddClient adds one client to the vector.
LEMMA RangeOfAppend ==
  ASSUME NEW s \in Seq(Clients), NEW c \in Clients
  PROVE  Range(Append(s, c)) = Range(s) \cup {c}
<1>1. /\ DOMAIN s = 1 .. Len(s) /\ DOMAIN Append(s, c) = 1 .. Len(s) + 1 /\ Len(s) \in Nat
      /\ \A j \in 1 .. Len(s) : Append(s, c)[j] = s[j]
      /\ Append(s, c)[Len(s) + 1] = c
  OBVIOUS
<1>2. 1 .. Len(s) + 1 = (1 .. Len(s)) \cup {Len(s) + 1}
  BY <1>1
<1>. QED  BY <1>1, <1>2 DEF Range

\* SetStop sends a KeepAlive on, or is lost.
LEMMA RaisedStop ==
  ASSUME ClientsTypeOK, NEW c \in Clients, RaiseStop(c)
  PROVE  \/ kpc' = kpc
         \/ kpc[c] \in {"start", "wait"} /\ kpc' = [kpc EXCEPT ![c] = "lock"]
BY DEF RaiseStop, Heeds

\* The tables and the clients.
LEMMA NextClients ==
  ASSUME DataTypeOK, ClientsTypeOK, HomeInv, [Next]_vars
  PROVE  ClientsTypeOK'
<1>. USE DEF ClientsTypeOK, app, tables, clients, None
<1>1. CASE Initialize \/ InitializeFails \/ Broadcast \/ DeinitClose \/ DeinitEnd
  <2>1. /\ UNCHANGED tables \/ (mutex' = None /\ ids' = <<>> /\ mapped' = {})
        /\ UNCHANGED clients
    BY <1>1 DEF Initialize, InitializeFails, Broadcast, DeinitClose, DeinitEnd
  <2>2. <<>> \in Seq(Clients)
    OBVIOUS
  <2>3. CASE UNCHANGED tables
    BY <2>1, <2>3
  <2>4. CASE mutex' = None /\ ids' = <<>> /\ mapped' = {}
    BY <2>1, <2>2, <2>4
  <2>. QED  BY <2>1, <2>3, <2>4
<1>2. CASE DeinitStopClient
  <2>1. ids[ai] \in Clients
    BY <1>2 DEF DeinitStopClient, MoreToStop, DataTypeOK
  <2>2. kpc' = kpc \/ kpc' = [kpc EXCEPT ![ids[ai]] = "lock"]
    BY <1>2, <2>1, RaisedStop DEF DeinitStopClient
  <2>. QED  BY <1>2, <2>1, <2>2 DEF DeinitStopClient
<1>3. CASE DeinitStopQueues \/ DeinitStopped \/ DeinitJoin
  BY <1>3 DEF DeinitStopQueues, DeinitStopped, DeinitJoin
<1>4. CASE DeinitDelete \/ DeinitDeleted
  BY <1>4 DEF DeinitDelete, DeinitDeleted, DataTypeOK
<1>5. CASE Services
  BY <1>5, ServicesFrame
<1>6. CASE ListenerAdd
  BY <1>6, SMTT(30) DEF ListenerAdd, DataTypeOK
<1>7. CASE Listening /\ ~ListenerAdd
  BY <1>7, ListeningFrame
<1>8. ASSUME NEW c \in Clients, ClientStep(c)
      PROVE  ClientsTypeOK'
  <2>1. CASE KeepAliveUnlist(c)
    <3>1. c \in Range(ids)
      BY <2>1 DEF KeepAliveUnlist, HomeInv, ClientOf, Listed
    <3>. QED  BY <2>1, <3>1, SwapOutIs DEF KeepAliveUnlist
  <2>2. CASE ClientStops(c)
    BY <2>2, RaisedStop DEF ClientStops
  <2>. QED
    BY <1>8, <2>1, <2>2
    DEF ClientStep, KeepAlive, KeepAliveWait, KeepAliveExpires, KeepAliveRemove,
        KeepAliveDestroyed, KeepAliveUnmap, KeepAliveLost
<1>9. CASE UNCHANGED vars
  BY <1>9 DEF vars
<1>. QED
  BY <1>1, <1>2, <1>3, <1>4, <1>5, <1>6, <1>7, <1>8, <1>9, NextCases
  DEF Application, Deinitialize

-----------------------------------------------------------------------------
(* The invariants.                                                         *)

\* The network thread goes on to a service when the one before it runs, and past a
\* join when the thread has ended.
LEMMA NextThreads ==
  ASSUME PlacesTypeOK, ThreadsInv, [Next]_vars
  PROVE  ThreadsInv'
<1>. USE DEF ThreadsInv, PlacesTypeOK, app, threads, broadcast, listener
<1>1. CASE Initialize \/ InitializeFails \/ Broadcast
  BY <1>1 DEF Initialize, InitializeFails, Broadcast, Running
<1>2. CASE DeinitClose \/ Deinitialize
  BY <1>2
  DEF DeinitClose, Deinitialize, DeinitStopClient, DeinitStopQueues, DeinitStopped,
      DeinitJoin, DeinitDelete, DeinitDeleted, DeinitEnd
<1>3. CASE NetStart
  BY <1>3 DEF NetStart
<1>4. CASE NetWait \/ NetWake \/ NetExpires \/ NetStop \/ NetJoin
  BY <1>4 DEF NetWait, NetWake, NetStop, NetJoin, NetExpires
<1>5. CASE BroadcasterThread
  BY <1>5 DEF BroadcasterThread, BroadcastWait, BroadcastCheck, BroadcastSend
<1>6. CASE UdpThread \/ UdpRead \/ UdpBlocks \/ UdpGoesOn
  BY <1>6
  DEF UdpThread, UdpEnd, UdpDeliver, UdpClosed, UdpRead, UdpBlocks, UdpGoesOn
<1>7. CASE Listening
  BY <1>7
  DEF Listening, ListenerThread, ListenerPoll, ListenerAccept, ListenerAcceptFails,
      ListenerAdd, ListenerUse
<1>8. ASSUME NEW c \in Clients, ClientStep(c)
      PROVE  ThreadsInv'
  BY <1>8, ClientFrame
<1>9. CASE UNCHANGED vars
  BY <1>9 DEF vars
<1>. QED
  BY <1>1, <1>2, <1>3, <1>4, <1>5, <1>6, <1>7, <1>8, <1>9, NextCases
  DEF Application, Services, NetworkThread

\* What the steps that concern no client leave alone.
LEMMA HomeKept ==
  ASSUME HomeInv,
         UNCHANGED <<net, lives, apc, ai, victim, ids, mapped, object, kpc, born>>,
         lpc' \in {"add", "use"} => lpc' = lpc /\ lclient' = lclient
  PROVE  HomeInv'
BY DEF HomeInv, ClientOf, EntryOf, AtHome, RemovedByItself

\* The beginning and the end of a NetworkControl, whose vector is empty then.
LEMMA LifeHome ==
  ASSUME TypeOK, ThreadsInv, HomeInv, Initialize \/ InitializeFails \/ DeinitEnd
  PROVE  HomeInv'
<1>. USE DEF app, tables, clients, threads, listener
<1>1. /\ lives \in Nat /\ born \in [Clients -> Nat] /\ DOMAIN <<>> = {}
      /\ ids' = <<>> /\ apc' = "idle" /\ UNCHANGED clients
      /\ (net' = "live" /\ lives' = lives + 1 /\ lpc' = "none") \/
         (net' = "freed" /\ lives' = lives /\ lpc' \notin {"add", "use"})
  <2>1. apc = "delete" => lpc \notin {"add", "use"}
    BY DEF ThreadsInv
  <2>2. net \notin {"live", "dying"} => ids = <<>> /\ lpc \notin {"add", "use"}
    BY DEF ThreadsInv, HomeInv, TypeOK
  <2>. QED
    BY <2>1, <2>2, LifeAssumption
    DEF Initialize, InitializeFails, DeinitEnd, Running, TypeOK
<1>2. lives' >= 1 \/ net' = "freed"
  BY <1>1
<1>3. ASSUME NEW c \in Clients
      PROVE  ClientOf(c)'
  <2>1. ClientOf(c)
    BY DEF HomeInv
  <2>2. kpc[c] # "none" => born[c] \in 1 .. lives' /\ ~AtHome(c)'
    BY <1>1, <2>1 DEF ClientOf, AtHome
  <2>3. apc # "deleting"
    BY DEF Initialize, InitializeFails, DeinitEnd
  <2>4. UNCHANGED <<object[c], kpc[c], born[c]>>
    BY <1>1
  <2>. QED  BY <2>1, <2>2, <2>3, <2>4, <1>1 DEF ClientOf, Listed, Early
<1>. QED  BY <1>1, <1>2, <1>3 DEF HomeInv

\* ~NetworkControl until it deletes.
LEMMA StopHome ==
  ASSUME TypeOK, ThreadsInv, HomeInv,
         DeinitClose \/ DeinitStopClient \/ DeinitStopQueues \/ DeinitStopped
  PROVE  HomeInv'
<1>. USE DEF app, tables, clients, threads, listener
<1>1. /\ ids \in Seq(Clients) /\ lives \in Nat /\ ai \in Nat \ {0}
      /\ object \in [Clients -> {"none", "live", "dying", "freed"}]
      /\ kpc \in [Clients -> {"none", "start", "wait", "lock", "destroy", "unmap",
                              "unlist", "done"}]
      /\ (lpc \in {"add", "use"} => lclient \in Clients)
      /\ (apc \in {"sender", "handler", "deleting"} => victim \in Clients)
  BY LifeAssumption DEF TypeOK
<1>2. CASE DeinitClose
  BY <1>2 DEF DeinitClose, HomeInv, ClientOf, EntryOf, AtHome, RemovedByItself
<1>3. CASE DeinitStopQueues \/ DeinitStopped
  BY <1>3
  DEF DeinitStopQueues, DeinitStopped, HomeInv, ClientOf, EntryOf, AtHome, RemovedByItself
<1>4. CASE DeinitStopClient
  <2>. DEFINE d == ids[ai]
  <2>1. /\ apc = "walk" /\ ai \in DOMAIN ids /\ d \in Clients
        /\ UNCHANGED <<net, lives, ai, threads, tables, object, born>>
    BY <1>1, <1>4 DEF DeinitStopClient, MoreToStop
  <2>2. object[d] # "none" /\ born[d] = lives
    BY <2>1 DEF HomeInv, EntryOf
  <2>3. /\ apc' = apc \/ (apc' = "sender" /\ victim' = d)
        /\ kpc' = kpc \/ (kpc[d] \in Early /\ kpc' = [kpc EXCEPT ![d] = "lock"])
    <3>1. ClientsTypeOK
      BY TypeParts
    <3>. QED  BY <1>4, <2>1, <3>1, RaisedStop DEF DeinitStopClient, Early
  <2>. HIDE DEF d
  <2>4. ASSUME NEW c \in Clients
        PROVE  ClientOf(c)'
    <3>1. ClientOf(c)
      BY DEF HomeInv
    <3>2. UNCHANGED kpc[c] \/ (kpc[c] \in Early /\ kpc'[c] = "lock")
      BY <1>1, <2>1, <2>3
    <3>. QED
      BY <2>1, <2>3, <3>1, <3>2
      DEF ClientOf, AtHome, RemovedByItself, Early, Listed
  <2>5. ASSUME NEW j \in DOMAIN ids
        PROVE  EntryOf(j)'
    <3>1. EntryOf(j)
      BY DEF HomeInv
    <3>2. UNCHANGED kpc[ids[j]] \/ (kpc[ids[j]] \in Early /\ kpc'[ids[j]] = "lock")
      BY <1>1, <2>1, <2>3
    <3>. QED  BY <2>1, <2>3, <3>1, <3>2 DEF EntryOf, Early
  <2>. QED  BY <2>1, <2>2, <2>3, <2>4, <2>5 DEF HomeInv
<1>. QED  BY <1>2, <1>3, <1>4

\* The loop of ~NetworkControl that deletes.
LEMMA DeleteHome ==
  ASSUME TypeOK, ThreadsInv, HomeInv, DeinitJoin \/ DeinitDelete \/ DeinitDeleted
  PROVE  HomeInv'
<1>. USE DEF app, tables, clients, threads, listener
<1>1. /\ ids \in Seq(Clients) /\ lives \in Nat /\ ai \in Nat \ {0}
      /\ object \in [Clients -> {"none", "live", "dying", "freed"}]
      /\ kpc \in [Clients -> {"none", "start", "wait", "lock", "destroy", "unmap",
                              "unlist", "done"}]
      /\ (lpc \in {"add", "use"} => lclient \in Clients)
      /\ (apc = "deleting" => victim \in Clients)
      /\ \A j \in DOMAIN ids : ids[j] \in Clients
  BY LifeAssumption DEF TypeOK
<1>2. net = "dying" /\ lpc \notin {"add", "use"}
  BY DEF ThreadsInv, DeinitJoin, DeinitDelete, DeinitDeleted
<1>3. CASE DeinitJoin
  <2>1. /\ apc = "join" /\ apc' = "delete"
        /\ UNCHANGED <<net, lives, victim, threads, tables, clients>>
    BY <1>3 DEF DeinitJoin
  <2>2. ASSUME NEW c \in Clients
        PROVE  ClientOf(c)'
    BY <2>1, <1>1 DEF HomeInv, ClientOf, AtHome, RemovedByItself
  <2>3. ASSUME NEW j \in DOMAIN ids
        PROVE  EntryOf(j)'
    <3>1. EntryOf(j) /\ ClientOf(ids[j])
      BY <1>1 DEF HomeInv
    <3>. QED  BY <3>1, <2>1, <1>2 DEF ClientOf, EntryOf, AtHome, RemovedByItself
  <2>. QED  BY <1>2, <2>1, <2>2, <2>3 DEF HomeInv
<1>4. CASE DeinitDelete
  <2>. DEFINE d == ids[ai]
  <2>1. /\ apc = "delete" /\ ai \in DOMAIN ids /\ d \in Clients
        /\ UNCHANGED <<net, lives, threads, tables, kpc, born>>
    BY <1>1, <1>4 DEF DeinitDelete
  <2>2. CASE UNCHANGED <<apc, victim, object>> /\ (ai' = ai \/ ai' = ai + 1)
    <3>1. ASSUME NEW c \in Clients
          PROVE  ClientOf(c)'
      BY <2>1, <2>2 DEF HomeInv, ClientOf, AtHome, RemovedByItself
    <3>2. ASSUME NEW j \in DOMAIN ids
          PROVE  EntryOf(j)'
      BY <1>1, <2>1, <2>2 DEF HomeInv, EntryOf, RemovedByItself
    <3>. QED  BY <1>2, <2>1, <2>2, <3>1, <3>2 DEF HomeInv
  <2>3. CASE ~(UNCHANGED <<apc, victim, object>> /\ (ai' = ai \/ ai' = ai + 1))
    <3>1. /\ object[d] = "live" /\ object' = [object EXCEPT ![d] = "dying"]
          /\ apc' = "deleting" /\ victim' = d /\ ai' = ai
      BY <1>4, <2>3 DEF DeinitDelete
    <3>2. kpc[d] \in Early
      BY <2>1, <3>1 DEF HomeInv, ClientOf
    <3>. HIDE DEF d
    <3>3. ASSUME NEW c \in Clients
          PROVE  ClientOf(c)'
      <4>1. ClientOf(c)
        BY DEF HomeInv
      <4>. QED
        BY <4>1, <1>1, <2>1, <3>1, <3>2 DEF ClientOf, AtHome, RemovedByItself, Early
    <3>4. ASSUME NEW j \in DOMAIN ids
          PROVE  EntryOf(j)'
      <4>1. EntryOf(j) /\ EntryOf(ai)
        BY <2>1 DEF HomeInv
      <4>2. j = ai <=> ids[j] = d
        BY <4>1, <2>1 DEF EntryOf, d
      <4>. QED  BY <4>1, <4>2, <1>1, <2>1, <3>1 DEF EntryOf, RemovedByItself
    <3>. QED  BY <1>1, <1>2, <2>1, <3>1, <3>2, <3>3, <3>4 DEF HomeInv
  <2>. QED  BY <2>2, <2>3
<1>5. CASE DeinitDeleted
  <2>1. /\ apc = "deleting" /\ apc' = "delete" /\ ai' = ai + 1
        /\ object' = [object EXCEPT ![victim] = "freed"]
        /\ UNCHANGED <<net, lives, threads, tables, kpc, born>>
    BY <1>5 DEF DeinitDeleted
  <2>2. object[victim] = "dying" /\ kpc[victim] \in Early /\ victim \in Clients
    BY <1>1, <2>1 DEF HomeInv
  <2>3. ASSUME NEW c \in Clients
        PROVE  ClientOf(c)'
    <3>1. ClientOf(c)
      BY DEF HomeInv
    <3>. QED  BY <3>1, <1>1, <2>1, <2>2 DEF ClientOf, AtHome, RemovedByItself, Early
  <2>4. ASSUME NEW j \in DOMAIN ids
        PROVE  EntryOf(j)'
    <3>1. EntryOf(j)
      BY DEF HomeInv
    <3>. QED  BY <3>1, <1>1, <2>1, <2>2 DEF EntryOf, RemovedByItself
  <2>. QED  BY <1>2, <2>1, <2>3, <2>4 DEF HomeInv
<1>. QED  BY <1>3, <1>4, <1>5

\* AddClient enters a client in the vector of the NetworkControl that exists.
LEMMA ListeningHome ==
  ASSUME TypeOK, ThreadsInv, HomeInv, Listening
  PROVE  HomeInv'
<1>. USE DEF app, tables, clients
<1>1. /\ ids \in Seq(Clients) /\ lives \in Nat
      /\ (lpc \in {"add", "use"} => lclient \in Clients)
      /\ object \in [Clients -> {"none", "live", "dying", "freed"}]
      /\ kpc \in [Clients -> {"none", "start", "wait", "lock", "destroy", "unmap",
                              "unlist", "done"}]
      /\ born \in [Clients -> Nat] /\ ai \in Nat
      /\ (apc \in {"sender", "handler", "deleting"} => victim \in Clients)
  BY LifeAssumption DEF TypeOK
<1>2. CASE ListenerAdd
  <2>1. /\ lpc = "add" /\ lpc' = "use" /\ lclient \in Clients /\ lclient' = lclient
        /\ object' = [object EXCEPT ![lclient] = "live"]
        /\ kpc' = [kpc EXCEPT ![lclient] = "start"]
        /\ born' = [born EXCEPT ![lclient] = lives]
        /\ ids' = Append(ids, lclient) /\ mapped' = mapped \cup {lclient}
        /\ UNCHANGED <<net, lives, apc, ai, victim>>
    BY <1>1, <1>2 DEF ListenerAdd
  <2>2. /\ net \in {"live", "dying"} /\ apc \notin {"delete", "deleting"}
        /\ object[lclient] = "none" /\ lives >= 1
    BY <2>1 DEF ThreadsInv, HomeInv, TypeOK
  <2>3. Range(ids') = Range(ids) \cup {lclient}
    BY <2>1, <1>1, RangeOfAppend
  <2>4. ASSUME NEW c \in Clients
        PROVE  ClientOf(c)'
    <3>1. ClientOf(c)
      BY DEF HomeInv
    <3>2. CASE c = lclient
      BY <3>2, <2>1, <2>2, <2>3, <1>1
      DEF ClientOf, AtHome, RemovedByItself, Early, Listed
    <3>3. CASE c # lclient
      BY <3>1, <3>3, <2>1, <2>3, <1>1
      DEF ClientOf, AtHome, RemovedByItself, Early, Listed
    <3>. QED  BY <3>2, <3>3
  <2>5. \A j \in DOMAIN ids : EntryOf(j) /\ ids[j] # lclient
    BY <2>2 DEF HomeInv, EntryOf
  <2>6. /\ DOMAIN ids' = 1 .. Len(ids) + 1 /\ DOMAIN ids = 1 .. Len(ids)
        /\ \A j \in DOMAIN ids : ids'[j] = ids[j]
        /\ ids'[Len(ids) + 1] = lclient /\ Len(ids) \in Nat
    BY <1>1, <2>1
  <2>7. ASSUME NEW j \in DOMAIN ids'
        PROVE  EntryOf(j)'
    <3>1. CASE j \in DOMAIN ids
      <4>1. EntryOf(j) /\ ids'[j] = ids[j] /\ ids[j] # lclient /\ ids[j] \in Clients
        BY <3>1, <2>5, <2>6, <1>1
      <4>2. \A k \in DOMAIN ids' : ids'[j] = ids'[k] => j = k
        BY <4>1, <3>1, <2>5, <2>6 DEF EntryOf
      <4>. QED
        BY <4>1, <4>2, <2>1, <2>2, <1>1 DEF EntryOf, RemovedByItself
    <3>2. CASE j = Len(ids) + 1
      <4>1. \A k \in DOMAIN ids' : ids'[j] = ids'[k] => j = k
        BY <3>2, <2>5, <2>6
      <4>. QED  BY <4>1, <3>2, <2>1, <2>2, <2>6, <1>1 DEF EntryOf
    <3>. QED  BY <3>1, <3>2, <2>6
  <2>. QED  BY <2>1, <2>2, <2>4, <2>7, <1>1 DEF HomeInv
<1>3. ASSUME NEW c \in Clients, ListenerAccept(c)
      PROVE  HomeInv'
  BY <1>3
  DEF ListenerAccept, HomeInv, ClientOf, EntryOf, AtHome, RemovedByItself
<1>4. CASE ListenerPoll \/ ListenerAcceptFails \/ ListenerUse
  BY <1>4, HomeKept DEF ListenerPoll, ListenerAcceptFails, ListenerUse, listener
<1>. QED  BY <1>2, <1>3, <1>4 DEF Listening, ListenerThread

\* What a step of a client's own does to it, other than leaving the vector.
LEMMA ClientMoves ==
  ASSUME TypeOK, HomeInv, NEW c \in Clients, ClientStep(c), ~KeepAliveUnlist(c)
  PROVE  /\ UNCHANGED <<ids, born>> /\ mapped' \subseteq mapped
         /\ \A d \in Clients : d # c => UNCHANGED <<object[d], kpc[d]>>
         /\ \A d \in mapped : d # c => d \in mapped'
         /\ \/ UNCHANGED <<mapped, object[c], kpc[c]>>
            \/ UNCHANGED <<mapped, object[c]>> /\ kpc[c] \in Early /\ kpc'[c] \in Early
            \/ /\ UNCHANGED mapped /\ object[c] = "live" /\ object'[c] = "dying"
               /\ kpc[c] = "lock" /\ kpc'[c] = "destroy"
            \/ /\ UNCHANGED mapped /\ object'[c] = "freed"
               /\ kpc[c] = "destroy" /\ kpc'[c] = "unmap" /\ AtHome(c)
            \/ /\ UNCHANGED object[c] /\ c \notin mapped'
               /\ kpc[c] = "unmap" /\ kpc'[c] = "unlist"
<1>. USE DEF tables, clients
<1>1. /\ object \in [Clients -> {"none", "live", "dying", "freed"}]
      /\ kpc \in [Clients -> {"none", "start", "wait", "lock", "destroy", "unmap",
                              "unlist", "done"}]
  BY DEF TypeOK
<1>2. CASE ClientStops(c)
  <2>1. ClientsTypeOK /\ UNCHANGED <<tables, object, born>> /\ RaiseStop(c)
    BY <1>2, TypeParts DEF ClientStops
  <2>2. kpc' = kpc \/ (kpc[c] \in Early /\ kpc' = [kpc EXCEPT ![c] = "lock"])
    BY <2>1, RaisedStop DEF Early
  <2>. QED  BY <1>1, <2>1, <2>2 DEF Early
<1>3. CASE KeepAliveLost(c)
  BY <1>3 DEF KeepAliveLost
<1>4. CASE KeepAliveWait(c) \/ KeepAliveExpires(c)
  BY <1>1, <1>4 DEF KeepAliveWait, KeepAliveExpires, Early
<1>5. CASE KeepAliveRemove(c)
  BY <1>1, <1>5 DEF KeepAliveRemove
<1>6. CASE KeepAliveDestroyed(c) \/ KeepAliveUnmap(c)
  BY <1>1, <1>6 DEF KeepAliveDestroyed, KeepAliveUnmap
<1>. QED  BY <1>2, <1>3, <1>4, <1>5, <1>6 DEF ClientStep, KeepAlive

\* A client leaves the vector by its own removal, and nobody else does.
LEMMA UnlistHome ==
  ASSUME TypeOK, ThreadsInv, HomeInv, NEW c \in Clients, KeepAliveUnlist(c)
  PROVE  HomeInv'
<1>. USE DEF app, tables, clients, threads, listener
<1>1. /\ ids \in Seq(Clients) /\ ai \in Nat \ {0}
      /\ kpc \in [Clients -> {"none", "start", "wait", "lock", "destroy", "unmap",
                              "unlist", "done"}]
      /\ (apc \in {"sender", "handler", "deleting"} => victim \in Clients)
      /\ \A j \in DOMAIN ids : ids[j] \in Clients
  BY DEF TypeOK
<1>2. /\ kpc[c] = "unlist" /\ AtHome(c) /\ ids' = SwapOut(c)
      /\ kpc' = [kpc EXCEPT ![c] = "done"]
      /\ UNCHANGED <<net, lives, apc, ai, victim, lpc, lclient, mapped, object, born>>
  BY DEF KeepAliveUnlist
<1>3. c \in Range(ids)
  BY <1>2 DEF HomeInv, ClientOf, Listed
<1>. DEFINE n == Len(ids)
<1>4. PICK i \in 1 .. n :
        /\ ids[i] = c /\ SwapOut(c) \in Seq(Clients) /\ Len(SwapOut(c)) = n - 1
        /\ \A j \in 1 .. n - 1 : SwapOut(c)[j] = IF j = i THEN ids[n] ELSE ids[j]
  BY <1>1, <1>3, SwapOutIs
<1>5. ASSUME NEW d \in Clients
      PROVE  ClientOf(d)'
  <2>1. ClientOf(d)
    BY DEF HomeInv
  <2>2. d \in Range(ids) /\ d # c => d \in Range(ids')
    BY <1>1, <1>2, <1>3, SwapOutKeeps
  <2>3. CASE d = c
    BY <2>1, <2>3, <1>1, <1>2 DEF ClientOf, AtHome, RemovedByItself, Early, Listed
  <2>4. CASE d # c
    BY <2>1, <2>2, <2>4, <1>1, <1>2
    DEF ClientOf, AtHome, RemovedByItself, Early, Listed
  <2>. QED  BY <2>3, <2>4
<1>6. DOMAIN ids = 1 .. n /\ DOMAIN ids' = 1 .. n - 1 /\ n \in Nat
  BY <1>1, <1>2, <1>4
<1>7. \A j \in 1 .. n : EntryOf(j)
  BY <1>6 DEF HomeInv
<1>. HIDE DEF n
<1>8. ASSUME NEW j \in 1 .. n - 1
      PROVE  EntryOf(j)'
  <2>1. PICK k \in 1 .. n : k >= j /\ ids'[j] = ids[k] /\ k # i /\ (k = j \/ (k = n /\ j = i))
    <3>1. CASE j = i
      <4>1. n \in 1 .. n /\ n >= j /\ ids'[j] = ids[n] /\ n # i
        BY <3>1, <1>2, <1>4, <1>6
      <4>. QED  BY <4>1, <3>1
    <3>2. CASE j # i
      <4>1. j \in 1 .. n /\ ids'[j] = ids[j]
        BY <3>2, <1>2, <1>4, <1>6
      <4>. QED  BY <4>1, <3>2, <1>6
    <3>. QED  BY <3>1, <3>2
  <2>2. EntryOf(k) /\ ids[k] # c /\ ids[k] \in Clients
    BY <2>1, <1>1, <1>4, <1>6, <1>7 DEF EntryOf
  <2>3. \A m \in DOMAIN ids' : ids'[j] = ids'[m] => j = m
    <3>1. ASSUME NEW m \in 1 .. n - 1, ids'[j] = ids'[m]
          PROVE  j = m
      <4>1. ids'[m] = IF m = i THEN ids[n] ELSE ids[m]
        BY <1>2, <1>4
      <4>2. m \in 1 .. n /\ n \in 1 .. n /\ m # n
        BY <1>6
      <4>3. k = IF m = i THEN n ELSE m
        BY <3>1, <4>1, <4>2, <2>1, <2>2, <1>6 DEF EntryOf
      <4>. QED  BY <4>2, <4>3, <2>1, <1>6
    <3>. QED  BY <3>1, <1>6
  <2>4. kpc'[ids[k]] = kpc[ids[k]]
    BY <2>2, <1>1, <1>2
  <2>5. (j >= ai => k >= ai) /\ (j > ai => k > ai)
    BY <2>1, <1>1, <1>6
  <2>. QED
    BY <2>1, <2>2, <2>3, <2>4, <2>5, <1>2 DEF EntryOf, RemovedByItself
<1>9. net \in {"live", "dying"}
  BY <1>2 DEF AtHome
<1>10. apc = "deleting" => kpc'[victim] \in Early
  BY <1>1, <1>2 DEF HomeInv, Early
<1>. QED  BY <1>2, <1>5, <1>6, <1>8, <1>9, <1>10 DEF HomeInv

\* A client on its way to its removal.
LEMMA ClientHome ==
  ASSUME TypeOK, ThreadsInv, HomeInv, NEW c \in Clients, ClientStep(c)
  PROVE  HomeInv'
<1>. USE DEF app, threads, listener
<1>1. CASE KeepAliveUnlist(c)
  BY <1>1, UnlistHome
<1>2. CASE ~KeepAliveUnlist(c)
  <2>1. UNCHANGED <<net, lives, apc, ai, victim, lpc, lclient>>
    BY ClientFrame
  <2>2. /\ (lpc \in {"add", "use"} => lclient \in Clients)
        /\ (apc \in {"sender", "handler", "deleting"} => victim \in Clients)
        /\ \A j \in DOMAIN ids : ids[j] \in Clients
    BY DEF TypeOK
  <2>3. ASSUME NEW d \in Clients
        PROVE  ClientOf(d)'
    <3>1. ClientOf(d) /\ UNCHANGED <<ids, born>>
      BY <1>2, ClientMoves DEF HomeInv
    <3>2. CASE d = c
      BY <3>1, <3>2, <1>2, <2>1, ClientMoves, SMTT(60)
      DEF ClientOf, AtHome, RemovedByItself, Early, Listed
    <3>3. CASE d # c
      <4>1. UNCHANGED <<object[d], kpc[d]>>
        BY <1>2, <3>3, ClientMoves
      <4>. QED  BY <3>1, <4>1, <2>1 DEF ClientOf, AtHome, RemovedByItself
    <3>. QED  BY <3>2, <3>3
  <2>4. ASSUME NEW j \in DOMAIN ids
        PROVE  EntryOf(j)'
    <3>1. EntryOf(j) /\ ids[j] \in Clients /\ UNCHANGED <<ids, born>>
      BY <1>2, <2>2, ClientMoves DEF HomeInv
    <3>2. CASE ids[j] = c
      BY <3>1, <3>2, <1>2, <2>1, ClientMoves, SMTT(60) DEF EntryOf, RemovedByItself, Early
    <3>3. CASE ids[j] # c
      <4>1. /\ UNCHANGED <<object[ids[j]], kpc[ids[j]]>>
            /\ ids[j] \in mapped <=> ids[j] \in mapped'
        BY <1>2, <3>1, <3>3, ClientMoves
      <4>. QED  BY <3>1, <4>1, <2>1 DEF EntryOf, RemovedByItself
    <3>. QED  BY <3>2, <3>3
  <2>5. \A d \in Clients : object'[d] = "none" <=> object[d] = "none"
    BY <1>2, ClientMoves DEF HomeInv, ClientOf, Early
  <2>6. apc = "deleting" => object'[victim] = "dying" /\ kpc'[victim] \in Early
    BY <1>2, <2>2, ClientMoves DEF HomeInv, Early
  <2>. QED
    BY <1>2, <2>1, <2>2, <2>3, <2>4, <2>5, <2>6, ClientMoves DEF HomeInv
<1>. QED  BY <1>1, <1>2

\* All steps together.
LEMMA NextHome ==
  ASSUME TypeOK, ThreadsInv, HomeInv, [Next]_vars
  PROVE  HomeInv'
<1>. USE DEF app, tables, clients
<1>1. CASE Services
  <2>1. lpc' \in {"add", "use"} => lpc' = lpc /\ lclient' = lclient
    BY <1>1, ServicesFrame
  <2>. QED  BY <1>1, <2>1, ServicesFrame, HomeKept
<1>2. CASE Broadcast
  BY <1>2, HomeKept DEF Broadcast, listener
<1>3. CASE UNCHANGED vars
  BY <1>3, HomeKept DEF vars, threads, listener
<1>. QED
  BY <1>1, <1>2, <1>3, LifeHome, StopHome, DeleteHome, ListeningHome, ClientHome, NextCases
  DEF Application, Deinitialize

\* The listener still uses its client: only the client's KeepAlive can have deleted it, as
\* ~NetworkControl deletes when the listener has ended.
LEMMA ListenerMisuse ==
  ASSUME TypeOK, ThreadsInv, HomeInv, ListenerUse, fault = "none"
  PROVE  MisusesAreKnown'
<1>1. CASE fault' = "none"
  BY <1>1 DEF MisusesAreKnown
<1>2. CASE fault' # "none"
  <2>1. /\ lpc = "use" /\ object[lclient] # "live" /\ fault' = "listener"
        /\ UNCHANGED <<lclient, kpc>>
    BY <1>2 DEF ListenerUse, listener, clients
  <2>2. lclient \in Clients /\ net \in {"live", "dying"}
    BY <2>1 DEF TypeOK, ThreadsInv
  <2>3. AtHome(lclient) /\ ClientOf(lclient) /\ object[lclient] # "none"
    BY <2>1, <2>2 DEF HomeInv, AtHome
  <2>4. apc \notin {"delete", "deleting"}
    BY <2>1 DEF ThreadsInv
  <2>5. object[lclient] \in {"none", "live", "dying", "freed"}
    BY <2>2 DEF TypeOK
  <2>6. RemovedByItself(lclient)
    BY <2>1, <2>3, <2>4, <2>5 DEF ClientOf
  <2>. QED  BY <2>1, <2>6 DEF MisusesAreKnown, RemovedByItself
<1>. QED  BY <1>1, <1>2

\* SetStop of ~NetworkControl, which runs before the deletions of its own.
LEMMA StopMisuse ==
  ASSUME TypeOK, ThreadsInv, HomeInv, DeinitStopClient \/ DeinitStopQueues, fault = "none"
  PROVE  MisusesAreKnown'
<1>1. CASE fault' = "none"
  BY <1>1 DEF MisusesAreKnown
<1>2. CASE fault' # "none"
  <2>. DEFINE d == IF apc = "walk" THEN ids[ai] ELSE victim
  <2>1. /\ apc \in {"walk", "sender", "handler"} /\ fault' = "SetStop"
        /\ UNCHANGED <<apc, kpc>>
        /\ apc = "walk" => ai <= Len(ids) /\ (d \notin mapped \/ object[d] = "freed")
        /\ apc # "walk" => object[d] # "live"
    BY <1>2 DEF DeinitStopClient, DeinitStopQueues, MoreToStop, clients
  <2>2. net = "dying"
    BY <2>1 DEF ThreadsInv
  <2>3. /\ d \in Clients /\ object[d] # "none" /\ born[d] = lives
        /\ d \notin mapped /\ apc = "walk" => kpc[d] = "unlist"
    <3>1. CASE apc = "walk"
      <4>1. ai \in DOMAIN ids /\ ids[ai] \in Clients
        BY <2>1, <3>1 DEF TypeOK
      <4>2. EntryOf(ai)
        BY <4>1 DEF HomeInv
      <4>. QED  BY <3>1, <4>1, <4>2 DEF EntryOf
    <3>2. CASE apc # "walk"
      BY <2>1, <3>2 DEF TypeOK, HomeInv
    <3>. QED  BY <3>1, <3>2
  <2>. HIDE DEF d
  <2>4. AtHome(d) /\ ClientOf(d) /\ object[d] \in {"none", "live", "dying", "freed"}
    BY <2>2, <2>3 DEF AtHome, HomeInv, TypeOK
  <2>5. RemovedByItself(d)
    BY <2>1, <2>3, <2>4 DEF ClientOf, RemovedByItself
  <2>. QED  BY <2>1, <2>3, <2>5 DEF MisusesAreKnown, RemovedByItself
<1>. QED  BY <1>1, <1>2

\* A second deletion is that of a client whose KeepAlive removes it at this moment.
LEMMA DeleteMisuse ==
  ASSUME TypeOK, ThreadsInv, HomeInv, DeinitDelete, fault = "none"
  PROVE  MisusesAreKnown'
<1>1. CASE fault' = "none"
  BY <1>1 DEF MisusesAreKnown
<1>2. CASE fault' # "none"
  <2>. DEFINE d == ids[ai]
  <2>1. /\ apc = "delete" /\ ai <= Len(ids) /\ d \in mapped /\ object[d] # "live"
        /\ fault' = "delete" /\ UNCHANGED <<apc, npc, ids, kpc>>
    BY <1>2 DEF DeinitDelete, tables, threads
  <2>2. ai \in DOMAIN ids /\ d \in Clients /\ d \in Range(ids)
    BY <2>1 DEF TypeOK, Range
  <2>3. EntryOf(ai) /\ ClientOf(d) /\ object[d] \in {"none", "live", "dying", "freed"}
    BY <2>2 DEF HomeInv, TypeOK
  <2>4. npc = "done" /\ ai \in Nat
    BY <2>1 DEF ThreadsInv, TypeOK
  <2>5. object[d] = "dying" => kpc[d] = "destroy"
    BY <2>1, <2>3 DEF ClientOf
  <2>6. object[d] = "freed" => RemovedByItself(d)
    BY <2>1, <2>3, <2>4 DEF EntryOf
  <2>7. kpc[d] \in {"destroy", "unmap"}
    BY <2>1, <2>3, <2>5, <2>6 DEF EntryOf, RemovedByItself
  <2>. QED  BY <2>1, <2>2, <2>4, <2>7 DEF MisusesAreKnown
<1>. QED  BY <1>1, <1>2

\* A KeepAlive that is left behind by its NetworkControl, or by its client.
LEMMA KeepAliveMisuse ==
  ASSUME TypeOK, ThreadsInv, HomeInv, NEW c \in Clients, ClientStep(c), fault = "none"
  PROVE  MisusesAreKnown'
<1>. USE DEF app, threads, tables, clients
<1>1. CASE fault' = "none"
  BY <1>1 DEF MisusesAreKnown
<1>2. CASE fault' # "none" /\ KeepAliveLost(c)
  <2>1. /\ kpc[c] \in Listed /\ fault' = "KeepAlive"
        /\ ~AtHome(c) \/ (kpc[c] \in Early /\ object[c] = "freed")
        /\ UNCHANGED <<npc, kpc, object, born, net, lives>>
    BY <1>2 DEF KeepAliveLost, Early, Listed
  <2>2. AtHome(c) => npc = "done"
    <3>1. ClientOf(c)
      BY DEF HomeInv
    <3>. QED  BY <3>1, <2>1 DEF ThreadsInv, ClientOf, RemovedByItself, Early
  <2>3. kpc[c] \in {"start", "lock", "destroy", "unmap", "unlist"}
    BY <1>2 DEF KeepAliveLost
  <2>. QED  BY <2>1, <2>2, <2>3 DEF MisusesAreKnown, AtHome
<1>3. CASE fault' # "none" /\ ~KeepAliveLost(c)
  <2>1. /\ kpc[c] = "lock" /\ AtHome(c) /\ object[c] \notin {"live", "freed"}
        /\ fault' = "delete" /\ UNCHANGED <<apc, npc, ids, kpc>>
    BY <1>3
    DEF ClientStep, ClientStops, KeepAlive, KeepAliveWait, KeepAliveExpires,
        KeepAliveRemove, KeepAliveDestroyed, KeepAliveUnmap, KeepAliveUnlist
  <2>2. ClientOf(c) /\ object[c] \in {"none", "live", "dying", "freed"}
    BY DEF HomeInv, TypeOK
  <2>3. apc = "deleting" /\ c \in Range(ids)
    BY <2>1, <2>2 DEF ClientOf, Listed, Early
  <2>4. npc = "done"
    BY <2>3 DEF ThreadsInv
  <2>. QED  BY <2>1, <2>3, <2>4 DEF MisusesAreKnown, Range
<1>. QED  BY <1>1, <1>2, <1>3

\* Nothing else misuses anything, and nothing happens afterwards.
LEMMA NextMisuse ==
  ASSUME TypeOK, ThreadsInv, HomeInv, MisusesAreKnown, [Next]_vars
  PROVE  MisusesAreKnown'
<1>0. fault' = "none" => MisusesAreKnown'
  BY DEF MisusesAreKnown
<1>1. ASSUME fault = "none", Application
      PROVE  MisusesAreKnown'
  <2>1. CASE DeinitStopClient \/ DeinitStopQueues
    BY <1>1, <2>1, StopMisuse
  <2>2. CASE DeinitDelete
    BY <1>1, <2>2, DeleteMisuse
  <2>. QED
    BY <1>0, <1>1, <2>1, <2>2
    DEF Application, Initialize, InitializeFails, Broadcast, DeinitClose, Deinitialize,
        DeinitStopped, DeinitJoin, DeinitDeleted, DeinitEnd
<1>2. ASSUME fault = "none", Listening
      PROVE  MisusesAreKnown'
  BY <1>0, <1>2, ListeningFrame, ListenerMisuse
<1>3. ASSUME fault = "none", Services
      PROVE  MisusesAreKnown'
  BY <1>0, <1>3, ServicesFrame
<1>4. CASE UNCHANGED vars
  BY <1>4
  DEF vars, app, threads, listener, tables, clients, MisusesAreKnown, RemovedByItself,
      AtHome
<1>. QED  BY <1>1, <1>2, <1>3, <1>4, NextCases, KeepAliveMisuse

-----------------------------------------------------------------------------
(* The theorems.                                                           *)

\* There is nothing yet.
LEMMA InitIInv ==
  ASSUME Init
  PROVE  IInv
<1>. USE LifeAssumption DEF Init, EventInit
<1>1. FlagsTypeOK
  BY Zenon DEF FlagsTypeOK
<1>2. PlacesTypeOK /\ WaitersTypeOK
  BY DEF PlacesTypeOK, WaitersTypeOK
<1>3. DataTypeOK
  BY DEF DataTypeOK
<1>4. ClientsTypeOK
  BY DEF ClientsTypeOK
<1>5. ThreadsInv
  BY DEF ThreadsInv
<1>6. HomeInv
  BY DEF HomeInv, ClientOf, Listed, Early
<1>7. MisusesAreKnown
  BY DEF MisusesAreKnown
<1>. QED  BY <1>1, <1>2, <1>3, <1>4, <1>5, <1>6, <1>7, TypeParts DEF IInv

\* The invariant is kept by every step.
LEMMA NextIInv ==
  ASSUME IInv, [Next]_vars
  PROVE  IInv'
<1>1. /\ FlagsTypeOK /\ PlacesTypeOK /\ WaitersTypeOK /\ DataTypeOK /\ ClientsTypeOK
      /\ TypeOK /\ ThreadsInv /\ HomeInv /\ MisusesAreKnown
  BY TypeParts DEF IInv
<1>2. TypeOK'
  BY <1>1, NextFlags, NextPlaces, NextWaiters, NextData, NextClients, TypeParts
<1>. QED  BY <1>1, <1>2, NextThreads, NextHome, NextMisuse DEF IInv

\* The invariant holds through all lives of a server.
THEOREM Invariant == Spec => []IInv
BY InitIInv, NextIInv, PTL DEF Spec

\* The variables keep their types: the loops of ~NetworkControl start at the first entry,
\* and whom it stops or deletes is a client.
THEOREM TypeCorrect == Spec => []TypeOK
BY Invariant, PTL DEF IInv

\* ~NetworkControl joins the network thread, and that joins the services: when the
\* NetworkControl is gone none of their threads works on.
THEOREM ServicesAreAlwaysDown == Spec => []ServicesAreDown
<1>1. IInv => ServicesAreDown
  BY DEF IInv, ThreadsInv, ServicesAreDown
<1>. QED  BY <1>1, Invariant, PTL

\* Every use of an object that is gone, or a second deletion, is a meeting of one client's
\* KeepAlive with the listener, with ~NetworkControl, or with the end of it.
THEOREM MisusesAreAlwaysKnown == Spec => []MisusesAreKnown
BY Invariant, PTL DEF IInv
=============================================================================
