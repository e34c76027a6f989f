------------------------- MODULE ClientThreadsProofs -------------------------
(***************************************************************************)
(* What holds of one client whatever its peer sends: when its handler      *)
(* object is freed only a SetStop of ~NetworkControl can still reach it,   *)
(* every packet is handled once and in order, and the ways in which an     *)
(* object can be misused are these and no others.                          *)
(***************************************************************************)
EXTENDS ClientThreads, TLAPS

\* The places of KeepAlive inside ~Client.
Removing == {"wakeSender", "joinSender", "joinReceiver", "freeHandler", "joinSelf"}

\* KeepAlive holds the mutex while it removes, and removes what is in the table.
KeeperInv ==
  /\ kpc \in Removing <=> mutex = "keepalive"
  /\ kpc \in Removing <=> object = "dying"
  /\ kpc \in Removing \/ object = "freed" => ~local /\ cpc = "done"
  /\ object = "freed" => kpc = "done"

\* What has been joined has ended, and what has been freed stays so.
JoinInv ==
  /\ kpc \in {"joinReceiver", "freeHandler", "joinSelf"} \/ object = "freed"
       => spc = "ended"
  /\ kpc \in {"freeHandler", "joinSelf"} \/ object = "freed" => rpc = "ended"
  /\ hobj = "freed" <=> kpc = "joinSelf" \/ object = "freed"

\* The order of construction.
ConstructInv ==
  /\ spc # "none" => cpc \notin {"lock", "sender"}
  /\ rpc # "none" => cpc \notin {"lock", "sender", "receiver"}
  /\ hpc # "none" <=> cpc \notin {"lock", "sender", "receiver", "handler"}
  /\ hobj = "null" <=> cpc \in {"lock", "sender", "receiver", "handler", "assign"}
  /\ kpc # "none" <=> cpc \in {"register", "done"}
  /\ epc # "none" => cpc = "done"
  /\ apc \notin {"idle", "walk"} => cpc = "done"
  /\ apc = "walk" => ~local

\* The null packets of the sender: one by SetStop, one by ~PacketSender.
NullsInv ==
  nulls = (IF apc \in {"handler", "done"} THEN 1 ELSE 0)
          + (IF kpc \in Removing \ {"wakeSender"} \/ object = "freed" THEN 1 ELSE 0)

\* Nobody goes on after a wait that was neither signalled nor ran out of time.
WakeInv ==
  /\ woken # {} => isSet
  /\ kpc \notin {"none", "start", "asleep"} => isSet \/ expired
  /\ apc \in {"sender", "handler", "done"} => isSet
  /\ ~local /\ apc # "idle" => stopReq

\* A token of the handler's semaphore for every packet in its queue, one of which
\* the thread may have taken, unless it went on without one.
TokenInv ==
  hpc # "ended" /\ ~lapsed
    => Len(hq) = htok + (IF hpc \in {"check", "pop"} THEN 1 ELSE 0)

\* SetStop alone queues a null packet for the handler, after it has set the event:
\* a thread that holds a token and has seen no stop pops a real packet.
RealInv ==
  /\ \A i \in 1 .. Len(wire) : wire[i] # NullPacket
  /\ rpc = "put" => rheld # NullPacket
  /\ apc # "done" => \A i \in 1 .. Len(hq) : hq[i] # NullPacket
  /\ hpc = "pop" /\ ~lapsed => hq # <<>> /\ Head(hq) # NullPacket
  /\ hpc = "call" /\ ~lapsed => hheld # NullPacket

\* What was handed over is what was handled, what is being handled, and the queue.
FifoInv == queued = handled \o (IF hpc = "call" THEN <<hheld>> ELSE <<>>) \o hq

\* The misuses: the receiver hands a packet to a handler that is not assigned yet; a
\* wait of KeepAlive ended by itself and ~Client woke a sender that sees no stop; the
\* handler's semaphore let the thread go on without a token; or ~NetworkControl of a
\* server was inside SetStop while KeepAlive freed the client.
MisusesAreKnown ==
  /\ fault \in {"none", "handler object", "null packet", "empty queue", "null handled",
                "freed client"}
  /\ fault = "handler object" =>
       \/ cpc \in {"handler", "assign"}
       \/ ~local /\ stopReq /\ apc \in {"handler", "done"} /\ kpc = "joinSelf"
  /\ fault = "null packet" => expired /\ spc = "running"
  /\ fault \in {"empty queue", "null handled"} => lapsed /\ hobj # "freed"
  /\ fault = "freed client" =>
       ~local /\ stopReq /\ apc \in {"set", "sender", "handler"} /\ SenderFreed

IInv ==
  /\ TypeOK /\ KeeperInv /\ JoinInv /\ ConstructInv /\ NullsInv /\ WakeInv
  /\ TokenInv /\ FifoInv /\ RealInv /\ MisusesAreKnown

-----------------------------------------------------------------------------
(* Types, in four parts: flags, where the threads are, who waits for the   *)
(* event, and the packets.                                                 *)

FlagsTypeOK ==
  /\ linux \in BOOLEAN /\ local \in BOOLEAN /\ isSet \in BOOLEAN
  /\ lapsed \in BOOLEAN /\ expired \in BOOLEAN /\ peerOpen \in BOOLEAN /\ stopReq \in BOOLEAN

PlacesTypeOK ==
  /\ mutex \in {"free", "creator", "keepalive"}
  /\ cpc \in {"lock", "sender", "receiver", "handler", "assign", "keepalive",
              "register", "done"}
  /\ spc \in {"none", "running", "ended"}
  /\ rpc \in {"none", "check", "recv", "put", "ended"}
  /\ hobj \in {"null", "live", "freed"}
  /\ hpc \in {"none", "wait", "check", "pop", "call", "ended"}
  /\ kpc \in {"none", "start", "asleep", "lock", "wakeSender", "joinSender",
              "joinReceiver", "freeHandler", "joinSelf", "done"}
  /\ epc \in {"none", "start", "asleep", "join", "done"}
  /\ apc \in {"idle", "walk", "set", "sender", "handler", "done"}
  /\ object \in {"live", "dying", "freed"}

WaitersTypeOK ==
  /\ sleeping \subseteq {"keepalive", "entry"}
  /\ woken \subseteq {"keepalive", "entry"} /\ sleeping \cap woken = {}
  /\ "keepalive" \in sleeping \cup woken => kpc = "asleep"
  /\ "entry" \in sleeping \cup woken => epc = "asleep"

PacketsTypeOK ==
  /\ rheld \in Items /\ wire \in Seq(Items) /\ hheld \in Items
  /\ hq \in Seq(Items) /\ htok \in Nat /\ udp \subseteq Datagrams
  /\ queued \in Seq(Items) /\ handled \in Seq(Items)

\* The parts make the whole, before a step and after it.
LEMMA TypeParts ==
  /\ TypeOK <=> /\ FlagsTypeOK /\ PlacesTypeOK /\ WaitersTypeOK /\ PacketsTypeOK
                /\ nulls \in 0 .. 2
  /\ TypeOK' <=> /\ FlagsTypeOK' /\ PlacesTypeOK' /\ WaitersTypeOK' /\ PacketsTypeOK'
                 /\ nulls' \in 0 .. 2
BY DEF TypeOK, FlagsTypeOK, PlacesTypeOK, WaitersTypeOK, PacketsTypeOK, build

\* A flag is set or kept.
LEMMA NextFlags ==
  ASSUME FlagsTypeOK, [Next]_vars
  PROVE  FlagsTypeOK'
<1>. USE DEF FlagsTypeOK, build, eventVars, peer, handler, entry
<1>1. CASE UNCHANGED vars
  BY <1>1, Zenon DEF vars
<1>. SUFFICES ASSUME UNCHANGED build, Step PROVE FlagsTypeOK'
  BY <1>1, Zenon DEF Next, Running
<1>2. CASE Construct
  BY <1>2, Zenon
  DEF Construct, ConstructBegin, ConstructSender, ConstructReceiver, ConstructHandler,
      ConstructAssign, ConstructKeepAlive, ConstructEnd
<1>3. CASE Receive \/ PeerClose \/ \E p \in udp : UdpPut(p)
  BY <1>3, Zenon
  DEF Receive, ReceiveCheck, ReceivePacket, ReceiveEnd, ReceivePut, PeerClose, UdpPut, Set,
      Hand
<1>4. CASE Handle \/ SenderStops \/ SenderMisled \/ SenderFails
  BY <1>4, Zenon
  DEF Handle, HandleWait, HandleLapse, HandleCheck, HandlePop, HandleCall, HandleNull, SenderStops, SenderMisled,
      SenderFails
<1>5. CASE KeepAlive \/ KeepAliveExpires
  BY <1>5, Zenon
  DEF KeepAlive, KeepAliveWait, KeepAliveWake, KeepAliveLock, KeepAliveWakeSender,
      KeepAliveJoinSender, KeepAliveJoinReceiver, KeepAliveFreeHandler, KeepAliveFinish,
      KeepAliveExpires, WaitBegin, WaitEnd, WaitExpire
<1>6. CASE Entry \/ EntryExpires \/ Stop
  BY <1>6, Zenon
  DEF Entry, EntryWait, EntryWake, EntryJoin, EntryExpires, Stop, ServerStops, StopFind, StopSet,
      StopSender, StopHandler, StopMisses, WaitBegin, WaitEnd, WaitExpire, Set, Hand
<1>. QED  BY <1>2, <1>3, <1>4, <1>5, <1>6 DEF Step

\* Every thread goes from a place to a place.
LEMMA NextPlaces ==
  ASSUME PlacesTypeOK, [Next]_vars
  PROVE  PlacesTypeOK'
<1>. USE DEF PlacesTypeOK, sender, receiver, handler, keeper, entry
<1>1. CASE UNCHANGED vars
  BY <1>1 DEF vars
<1>2. CASE Construct
  BY <1>2
  DEF Construct, ConstructBegin, ConstructSender, ConstructReceiver, ConstructHandler,
      ConstructAssign, ConstructKeepAlive, ConstructEnd
<1>3. CASE Receive
  BY <1>3
  DEF Receive, ReceiveCheck, ReceivePacket, ReceiveEnd, ReceivePut, Hand
<1>4. CASE PeerClose \/ \E p \in udp : UdpPut(p)
  BY <1>4 DEF PeerClose, UdpPut, Hand
<1>5. CASE Handle
  BY <1>5 DEF Handle, HandleWait, HandleLapse, HandleCheck, HandlePop, HandleCall, HandleNull
<1>6. CASE SenderStops \/ SenderMisled \/ SenderFails
  BY <1>6 DEF SenderStops, SenderMisled, SenderFails
<1>7. CASE KeepAlive \/ KeepAliveExpires
  BY <1>7
  DEF KeepAlive, KeepAliveWait, KeepAliveWake, KeepAliveLock, KeepAliveWakeSender,
      KeepAliveJoinSender, KeepAliveJoinReceiver, KeepAliveFreeHandler, KeepAliveFinish,
      KeepAliveExpires
<1>8. CASE Entry \/ EntryExpires
  BY <1>8 DEF Entry, EntryWait, EntryWake, EntryJoin, EntryExpires
<1>9. CASE Stop
  BY <1>9 DEF Stop, ServerStops, StopFind, StopSet, StopSender, StopHandler, StopMisses, Hand
<1>. QED
  BY <1>1, <1>2, <1>3, <1>4, <1>5, <1>6, <1>7, <1>8, <1>9 DEF Next, Step

\* Set wakes some of those that sleep.
LEMMA SetWakes ==
  ASSUME WaitersTypeOK, Set, UNCHANGED <<kpc, epc>>
  PROVE  WaitersTypeOK' /\ isSet' = TRUE
BY DEF Set, WaitersTypeOK

\* Whoever is in a wait sleeps or has been woken.
LEMMA NextWaiters ==
  ASSUME ConstructInv, WaitersTypeOK, PlacesTypeOK, [Next]_vars
  PROVE  WaitersTypeOK'
<1>. USE DEF eventVars, keeper, entry
<1>0. UNCHANGED <<kpc, epc, sleeping, woken>> => WaitersTypeOK'
  BY DEF WaitersTypeOK
<1>1. CASE UNCHANGED vars
  BY <1>1, <1>0 DEF vars
<1>2. CASE ConstructKeepAlive
  <2>1. kpc = "none"
    BY <1>2 DEF ConstructKeepAlive, ConstructInv
  <2>. QED  BY <1>2, <2>1 DEF ConstructKeepAlive, WaitersTypeOK
<1>3. CASE ConstructEnd
  BY <1>3 DEF ConstructEnd, ConstructInv, WaitersTypeOK
<1>4. CASE ConstructBegin \/ ConstructSender \/ ConstructReceiver \/ ConstructHandler
             \/ ConstructAssign
  BY <1>4, <1>0
  DEF ConstructBegin, ConstructSender, ConstructReceiver, ConstructHandler, ConstructAssign
<1>5. CASE Receive \/ PeerClose \/ \E p \in udp : UdpPut(p)
  BY <1>5, <1>0, SetWakes
  DEF Receive, ReceiveCheck, ReceivePacket, ReceiveEnd, ReceivePut, PeerClose, UdpPut
<1>6. CASE Handle \/ SenderStops \/ SenderMisled \/ SenderFails
  BY <1>6, <1>0
  DEF Handle, HandleWait, HandleLapse, HandleCheck, HandlePop, HandleCall, HandleNull, SenderStops, SenderMisled,
      SenderFails
<1>7. CASE KeepAliveWait \/ KeepAliveWake \/ KeepAliveExpires
  <2>1. UNCHANGED epc /\ "keepalive" \notin sleeping' \cap woken'
    BY <1>7
    DEF KeepAliveWait, KeepAliveWake, KeepAliveExpires, WaitBegin, WaitEnd, WaitExpire,
        WaitersTypeOK
  <2>2. CASE KeepAliveWait
    <3>1. "keepalive" \notin sleeping /\ "keepalive" \notin woken /\ kpc' = "asleep"
      BY <2>2 DEF KeepAliveWait, WaitersTypeOK
    <3>2. CASE sleeping' = sleeping \cup {"keepalive"} /\ woken' = woken
      BY <2>1, <3>1, <3>2 DEF WaitersTypeOK
    <3>3. CASE woken' = woken \cup {"keepalive"} /\ sleeping' = sleeping
      BY <2>1, <3>1, <3>3 DEF WaitersTypeOK
    <3>. QED  BY <2>2, <3>2, <3>3 DEF KeepAliveWait, WaitBegin
  <2>3. CASE KeepAliveWake
    BY <2>1, <2>3 DEF KeepAliveWake, WaitEnd, WaitersTypeOK
  <2>4. CASE KeepAliveExpires
    BY <2>1, <2>4 DEF KeepAliveExpires, WaitExpire, WaitersTypeOK
  <2>. QED  BY <1>7, <2>2, <2>3, <2>4
<1>8. CASE KeepAliveLock \/ KeepAliveWakeSender \/ KeepAliveJoinSender
             \/ KeepAliveJoinReceiver \/ KeepAliveFreeHandler \/ KeepAliveFinish
  BY <1>8
  DEF KeepAliveLock, KeepAliveWakeSender, KeepAliveJoinSender, KeepAliveJoinReceiver,
      KeepAliveFreeHandler, KeepAliveFinish, WaitersTypeOK
<1>9. CASE Entry \/ EntryExpires
  <2>1. UNCHANGED kpc
    BY <1>9 DEF Entry, EntryWait, EntryWake, EntryJoin, EntryExpires
  <2>2. CASE EntryWait
    <3>1. "entry" \notin sleeping /\ "entry" \notin woken /\ epc' = "asleep"
      BY <2>2 DEF EntryWait, WaitersTypeOK
    <3>2. CASE sleeping' = sleeping \cup {"entry"} /\ woken' = woken
      BY <2>1, <3>1, <3>2 DEF WaitersTypeOK
    <3>3. CASE woken' = woken \cup {"entry"} /\ sleeping' = sleeping
      BY <2>1, <3>1, <3>3 DEF WaitersTypeOK
    <3>. QED  BY <2>2, <3>2, <3>3 DEF EntryWait, WaitBegin
  <2>3. CASE EntryWake
    BY <2>1, <2>3 DEF EntryWake, WaitEnd, WaitersTypeOK
  <2>4. CASE EntryExpires
    BY <2>1, <2>4 DEF EntryExpires, WaitExpire, WaitersTypeOK
  <2>5. CASE EntryJoin
    BY <2>1, <2>5 DEF EntryJoin, WaitersTypeOK
  <2>. QED  BY <1>9, <2>2, <2>3, <2>4, <2>5 DEF Entry
<1>10. CASE Stop
  BY <1>10, <1>0, SetWakes DEF Stop, ServerStops, StopFind, StopSet, StopSender, StopHandler, StopMisses
<1>. QED
  BY <1>1, <1>2, <1>3, <1>4, <1>5, <1>6, <1>7, <1>8, <1>9, <1>10
  DEF Next, Step, Construct, KeepAlive

\* KeepAlive alone takes the mutex to remove, and gives it back with the client.
LEMMA NextKeeper ==
  ASSUME PlacesTypeOK, KeeperInv, ConstructInv, [Next]_vars
  PROVE  KeeperInv'
<1>. USE DEF KeeperInv, Removing, keeper, build
<1>0. UNCHANGED <<build, mutex, cpc, keeper>> => KeeperInv'
  OBVIOUS
<1>1. CASE UNCHANGED vars
  BY <1>1 DEF vars
<1>. SUFFICES ASSUME UNCHANGED build, Step PROVE KeeperInv'
  BY <1>1 DEF Next, Running
<1>2. CASE Construct
  BY <1>2
  DEF Construct, ConstructBegin, ConstructSender, ConstructReceiver, ConstructHandler,
      ConstructAssign, ConstructKeepAlive, ConstructEnd, ConstructInv, PlacesTypeOK
<1>3. CASE Receive \/ PeerClose \/ \E p \in udp : UdpPut(p)
  BY <1>3, <1>0
  DEF Receive, ReceiveCheck, ReceivePacket, ReceiveEnd, ReceivePut, PeerClose, UdpPut
<1>4. CASE Handle \/ SenderStops \/ SenderMisled \/ SenderFails
  BY <1>4, <1>0
  DEF Handle, HandleWait, HandleLapse, HandleCheck, HandlePop, HandleCall, HandleNull, SenderStops, SenderMisled,
      SenderFails
<1>5. CASE KeepAlive \/ KeepAliveExpires
  BY <1>5
  DEF KeepAlive, KeepAliveWait, KeepAliveWake, KeepAliveLock, KeepAliveWakeSender,
      KeepAliveJoinSender, KeepAliveJoinReceiver, KeepAliveFreeHandler, KeepAliveFinish,
      KeepAliveExpires, PlacesTypeOK
<1>6. CASE Entry \/ EntryExpires \/ Stop
  BY <1>6, <1>0
  DEF Entry, EntryWait, EntryWake, EntryJoin, EntryExpires, Stop, ServerStops, StopFind, StopSet,
      StopSender, StopHandler, StopMisses
<1>. QED  BY <1>2, <1>3, <1>4, <1>5, <1>6 DEF Step

\* A thread that has been joined does not run again.
LEMMA NextJoin ==
  ASSUME PlacesTypeOK, KeeperInv, JoinInv, [Next]_vars
  PROVE  JoinInv'
<1>. USE DEF JoinInv, KeeperInv, Removing, keeper, sender, receiver, handler
<1>0. UNCHANGED <<hobj, keeper, sender, receiver>> => JoinInv'
  OBVIOUS
<1>1. CASE UNCHANGED vars
  BY <1>1 DEF vars
<1>2. CASE Construct
  BY <1>2
  DEF Construct, ConstructBegin, ConstructSender, ConstructReceiver, ConstructHandler,
      ConstructAssign, ConstructKeepAlive, ConstructEnd
<1>3. CASE Receive
  BY <1>3
  DEF Receive, ReceiveCheck, ReceivePacket, ReceiveEnd, ReceivePut, Hand
<1>4. CASE PeerClose \/ (\E p \in udp : UdpPut(p)) \/ Handle
  BY <1>4, <1>0
  DEF PeerClose, UdpPut, Hand, Handle, HandleWait, HandleLapse, HandleCheck, HandlePop, HandleCall, HandleNull
<1>5. CASE SenderStops \/ SenderMisled \/ SenderFails
  BY <1>5 DEF SenderStops, SenderMisled, SenderFails
<1>6. CASE KeepAlive \/ KeepAliveExpires
  BY <1>6
  DEF KeepAlive, KeepAliveWait, KeepAliveWake, KeepAliveLock, KeepAliveWakeSender,
      KeepAliveJoinSender, KeepAliveJoinReceiver, KeepAliveFreeHandler, KeepAliveFinish,
      KeepAliveExpires
<1>7. CASE Entry \/ EntryExpires
  BY <1>7, <1>0 DEF Entry, EntryWait, EntryWake, EntryJoin, EntryExpires
<1>8. CASE Stop
  BY <1>8 DEF Stop, ServerStops, StopFind, StopSet, StopSender, StopHandler, StopMisses, Hand
<1>. QED
  BY <1>1, <1>2, <1>3, <1>4, <1>5, <1>6, <1>7, <1>8 DEF Next, Step

\* Nothing works before it is constructed.
LEMMA NextConstruct ==
  ASSUME PlacesTypeOK, KeeperInv, ConstructInv, [Next]_vars
  PROVE  ConstructInv'
<1>. USE DEF ConstructInv, keeper, sender, receiver, handler, entry, build
<1>1. CASE UNCHANGED vars
  BY <1>1 DEF vars
<1>. SUFFICES ASSUME UNCHANGED build, Step PROVE ConstructInv'
  BY <1>1 DEF Next, Running
<1>2. CASE Construct
  BY <1>2
  DEF Construct, ConstructBegin, ConstructSender, ConstructReceiver, ConstructHandler,
      ConstructAssign, ConstructKeepAlive, ConstructEnd, PlacesTypeOK
<1>3. CASE Receive
  BY <1>3
  DEF Receive, ReceiveCheck, ReceivePacket, ReceiveEnd, ReceivePut, Hand
<1>4. CASE PeerClose \/ \E p \in udp : UdpPut(p)
  BY <1>4 DEF PeerClose, UdpPut, Hand
<1>5. CASE Handle \/ SenderStops \/ SenderMisled \/ SenderFails
  BY <1>5
  DEF Handle, HandleWait, HandleLapse, HandleCheck, HandlePop, HandleCall, HandleNull, SenderStops, SenderMisled,
      SenderFails
<1>6. CASE KeepAlive \/ KeepAliveExpires
  BY <1>6
  DEF KeepAlive, KeepAliveWait, KeepAliveWake, KeepAliveLock, KeepAliveWakeSender,
      KeepAliveJoinSender, KeepAliveJoinReceiver, KeepAliveFreeHandler, KeepAliveFinish,
      KeepAliveExpires, KeeperInv, Removing
<1>7. CASE Entry \/ EntryExpires
  BY <1>7 DEF Entry, EntryWait, EntryWake, EntryJoin, EntryExpires
<1>8. CASE Stop
  BY <1>8 DEF Stop, ServerStops, StopFind, StopSet, StopSender, StopHandler, StopMisses, Hand
<1>. QED
  BY <1>2, <1>3, <1>4, <1>5, <1>6, <1>7, <1>8 DEF Step

\* SetStop and ~PacketSender are not both reached.
LEMMA NextNulls ==
  ASSUME PlacesTypeOK, KeeperInv, ConstructInv, NullsInv, [Next]_vars
  PROVE  NullsInv'
<1>. USE DEF NullsInv, keeper, sender, entry, Removing
<1>0. UNCHANGED <<nulls, apc, keeper>> => NullsInv'
  OBVIOUS
<1>1. CASE UNCHANGED vars
  BY <1>1, <1>0 DEF vars
<1>2. CASE Construct
  BY <1>2, <1>0
  DEF Construct, ConstructBegin, ConstructSender, ConstructReceiver, ConstructHandler,
      ConstructAssign, ConstructKeepAlive, ConstructEnd, ConstructInv
<1>3. CASE Receive \/ PeerClose \/ \E p \in udp : UdpPut(p)
  BY <1>3, <1>0
  DEF Receive, ReceiveCheck, ReceivePacket, ReceiveEnd, ReceivePut, PeerClose, UdpPut
<1>4. CASE Handle \/ SenderStops \/ SenderMisled \/ SenderFails
  BY <1>4, <1>0
  DEF Handle, HandleWait, HandleLapse, HandleCheck, HandlePop, HandleCall, HandleNull, SenderStops, SenderMisled,
      SenderFails
<1>5. CASE KeepAlive \/ KeepAliveExpires
  BY <1>5
  DEF KeepAlive, KeepAliveWait, KeepAliveWake, KeepAliveLock, KeepAliveWakeSender,
      KeepAliveJoinSender, KeepAliveJoinReceiver, KeepAliveFreeHandler, KeepAliveFinish,
      KeepAliveExpires, KeeperInv, ConstructInv, PlacesTypeOK
<1>6. CASE Entry \/ EntryExpires
  BY <1>6, <1>0 DEF Entry, EntryWait, EntryWake, EntryJoin, EntryExpires
<1>7. CASE StopSender
  <2>1. nulls' = nulls + 1 /\ apc = "sender" /\ apc' = "handler" /\ UNCHANGED <<kpc, object>>
    BY <1>7 DEF StopSender
  <2>. DEFINE theirs == IF kpc \in Removing \ {"wakeSender"} \/ object = "freed" THEN 1 ELSE 0
  <2>2. nulls = 0 + theirs /\ theirs' = theirs /\ theirs \in {0, 1}
    BY <2>1
  <2>3. nulls' = 1 + theirs'
    BY <2>1, <2>2
  <2>. QED  BY <2>1, <2>3
<1>8. CASE ServerStops \/ StopFind \/ StopSet \/ StopHandler \/ StopMisses
  BY <1>8 DEF ServerStops, StopFind, StopSet, StopHandler, StopMisses, Hand
<1>. QED
  BY <1>1, <1>2, <1>3, <1>4, <1>5, <1>6, <1>7, <1>8 DEF Next, Step, Stop

\* Only Set releases somebody, and only a wait that has ended lets KeepAlive go on.
LEMMA NextWake ==
  ASSUME FlagsTypeOK, WaitersTypeOK, ConstructInv, WakeInv, [Next]_vars
  PROVE  WakeInv'
<1>. USE DEF WakeInv, eventVars, keeper, entry
<1>a. UNCHANGED local
  BY DEF Next, Running, vars, build
<1>0. UNCHANGED <<kpc, apc, stopReq, eventVars>> => WakeInv'
  BY <1>a
<1>1. CASE UNCHANGED vars
  BY <1>1, <1>0 DEF vars
<1>2. CASE ConstructKeepAlive
  BY <1>2, <1>a DEF ConstructKeepAlive
<1>3. CASE Construct /\ ~ConstructKeepAlive
  BY <1>3, <1>0
  DEF Construct, ConstructBegin, ConstructSender, ConstructReceiver, ConstructHandler,
      ConstructAssign, ConstructEnd
<1>4. CASE ReceiveEnd \/ StopSet
  BY <1>4, <1>a DEF ReceiveEnd, StopSet, Set
<1>5. CASE ReceiveCheck \/ ReceivePacket \/ ReceivePut \/ PeerClose \/ \E p \in udp : UdpPut(p)
  BY <1>5, <1>0 DEF ReceiveCheck, ReceivePacket, ReceivePut, PeerClose, UdpPut
<1>6. CASE Handle \/ SenderStops \/ SenderMisled \/ SenderFails
  BY <1>6, <1>0
  DEF Handle, HandleWait, HandleLapse, HandleCheck, HandlePop, HandleCall, HandleNull, SenderStops, SenderMisled,
      SenderFails
<1>7. CASE KeepAliveWait \/ KeepAliveWake \/ KeepAliveExpires
  BY <1>7, <1>a
  DEF KeepAliveWait, KeepAliveWake, KeepAliveExpires, WaitBegin, WaitEnd, WaitExpire
<1>8. CASE KeepAliveLock \/ KeepAliveWakeSender \/ KeepAliveJoinSender
             \/ KeepAliveJoinReceiver \/ KeepAliveFreeHandler \/ KeepAliveFinish
  BY <1>8, <1>a
  DEF KeepAliveLock, KeepAliveWakeSender, KeepAliveJoinSender, KeepAliveJoinReceiver,
      KeepAliveFreeHandler, KeepAliveFinish
<1>9. CASE Entry \/ EntryExpires
  BY <1>9, <1>a
  DEF Entry, EntryWait, EntryWake, EntryJoin, EntryExpires, WaitBegin, WaitEnd, WaitExpire
<1>10. CASE ServerStops \/ StopFind \/ StopSender \/ StopHandler \/ StopMisses
  BY <1>10, <1>a DEF ServerStops, StopFind, StopSender, StopHandler, StopMisses, build
<1>. QED
  BY <1>1, <1>2, <1>3, <1>4, <1>5, <1>6, <1>7, <1>8, <1>9, <1>10
  DEF Next, Step, Receive, KeepAlive, Stop

\* Null packets get into the queue by SetStop alone, whose event keeps a thread that
\* has looked at it from popping them.
LEMMA NextReal ==
  ASSUME PacketsTypeOK, PlacesTypeOK, ConstructInv, WakeInv, TokenInv, RealInv, [Next]_vars
  PROVE  RealInv'
<1>. USE DEF RealInv, PacketsTypeOK
<1>0. UNCHANGED <<handler, receiver, wire, apc>> => RealInv'
  BY DEF handler, receiver
<1>1. CASE UNCHANGED vars
  BY <1>1, <1>0 DEF vars, peer, entry
<1>2. CASE ConstructHandler \/ ConstructAssign \/ KeepAliveFreeHandler
  BY <1>2
  DEF ConstructHandler, ConstructAssign, KeepAliveFreeHandler, receiver, peer, entry
<1>3. CASE ConstructReceiver
  BY <1>3 DEF ConstructReceiver, handler, peer, entry
<1>4. CASE ConstructBegin \/ ConstructSender \/ ConstructKeepAlive \/ ConstructEnd
  BY <1>4, <1>0
  DEF ConstructBegin, ConstructSender, ConstructKeepAlive, ConstructEnd, peer, entry
<1>5. ASSUME NEW p \in Items, Hand(p), hobj = "live", p # NullPacket \/ apc' = "done",
             apc' = "done" \/ apc' = apc
      PROVE  /\ apc' # "done" => \A i \in 1 .. Len(hq') : hq'[i] # NullPacket
             /\ hpc' = "pop" /\ ~lapsed' => hq' # <<>> /\ Head(hq') # NullPacket
             /\ hpc' = "call" /\ ~lapsed' => hheld' # NullPacket
  <2>1. /\ hq' = Append(hq, p) /\ UNCHANGED <<hpc, hheld, lapsed>>
    BY <1>5 DEF Hand
  <2>2. hq' \in Seq(Items) /\ Len(hq') = Len(hq) + 1 /\ hq'[Len(hq) + 1] = p
        /\ \A i \in 1 .. Len(hq) : hq'[i] = hq[i]
    BY <2>1
  <2>3. hq # <<>> => hq' # <<>> /\ Head(hq') = Head(hq)
    BY <2>1
  <2>4. apc' # "done" => \A i \in 1 .. Len(hq') : hq'[i] # NullPacket
    <3>1. SUFFICES ASSUME apc' # "done", NEW i \in 1 .. Len(hq')
                   PROVE  hq'[i] # NullPacket
      OBVIOUS
    <3>2. p # NullPacket /\ \A j \in 1 .. Len(hq) : hq[j] # NullPacket
      BY <1>5, <3>1
    <3>3. i \in 1 .. Len(hq) \/ i = Len(hq) + 1
      BY <2>2
    <3>. QED  BY <2>2, <3>2, <3>3
  <2>. QED  BY <2>1, <2>3, <2>4
<1>6. CASE ReceivePut
  <2>1. rheld \in Items /\ rheld # NullPacket /\ UNCHANGED <<wire, apc>> /\ rpc' = "check"
    BY <1>6 DEF ReceivePut, peer, entry
  <2>2. CASE hobj = "live"
    BY <1>5, <1>6, <2>1, <2>2 DEF ReceivePut
  <2>3. CASE hobj # "live"
    BY <1>6, <2>1, <2>3 DEF ReceivePut, Hand, handler
  <2>. QED  BY <2>2, <2>3
<1>7. ASSUME NEW p \in udp, UdpPut(p)
      PROVE  RealInv'
  <2>1. p \in Items /\ p # NullPacket /\ UNCHANGED <<wire, apc, receiver>>
    BY <1>7, ThreadsAssumption DEF UdpPut, Items, entry
  <2>2. CASE hobj = "live"
    BY <1>5, <1>7, <2>1, <2>2 DEF UdpPut, receiver
  <2>3. CASE hobj # "live"
    BY <1>7, <1>0, <2>1, <2>3 DEF UdpPut, Hand
  <2>. QED  BY <2>2, <2>3
<1>8. CASE StopHandler
  <2>1. NullPacket \in Items /\ UNCHANGED <<wire, receiver>> /\ apc' = "done"
    BY <1>8 DEF StopHandler, Items, peer
  <2>2. CASE hobj = "live"
    BY <1>5, <1>8, <2>1, <2>2 DEF StopHandler, receiver
  <2>3. CASE hobj # "live"
    BY <1>8, <2>1, <2>3 DEF StopHandler, Hand, handler, receiver
  <2>. QED  BY <2>2, <2>3
<1>9. CASE ReceivePacket
  <2>1. /\ wire # <<>> /\ rheld' = Head(wire) /\ wire' = Tail(wire)
        /\ UNCHANGED <<handler, apc>>
    BY <1>9 DEF ReceivePacket, entry
  <2>. QED  BY <2>1 DEF handler
<1>10. CASE ReceiveCheck \/ ReceiveEnd \/ PeerClose
  BY <1>10 DEF ReceiveCheck, ReceiveEnd, PeerClose, handler, receiver, peer, entry
<1>11. CASE HandleWait \/ HandleLapse \/ HandleNull
  BY <1>11 DEF HandleWait, HandleLapse, HandleNull, handler, receiver, peer, entry
<1>12. CASE HandleCheck
  <2>1. CASE hpc' = "pop" /\ ~lapsed
    <3>1. hq # <<>>
      BY <1>12, <2>1 DEF HandleCheck, TokenInv
    <3>2. apc # "done"
      BY <1>12, <2>1 DEF HandleCheck, Stopping, WakeInv
    <3>. QED  BY <1>12, <2>1, <3>1, <3>2 DEF HandleCheck, receiver, peer, entry
  <2>2. CASE hpc' = "ended" \/ lapsed
    BY <1>12, <2>2 DEF HandleCheck, receiver, peer, entry
  <2>. QED  BY <1>12, <2>1, <2>2 DEF HandleCheck
<1>13. CASE HandlePop
  <2>1. hpc = "pop" /\ UNCHANGED <<receiver, wire, apc, lapsed>>
    BY <1>13 DEF HandlePop, peer, entry
  <2>2. CASE hq = <<>>
    <3>1. UNCHANGED <<hheld, hq, hpc>>
      BY <1>13, <2>2 DEF HandlePop
    <3>. QED  BY <2>1, <3>1 DEF receiver
  <2>3. CASE hq # <<>>
    <3>1. hheld' = Head(hq) /\ hq' = Tail(hq) /\ hpc' = "call"
      BY <1>13, <2>3 DEF HandlePop
    <3>. QED  BY <2>1, <2>3, <3>1 DEF receiver
  <2>. QED  BY <2>2, <2>3
<1>14. CASE HandleCall
  BY <1>14 DEF HandleCall, receiver, peer, entry
<1>15. CASE SenderStops \/ SenderMisled \/ SenderFails
  BY <1>15, <1>0 DEF SenderStops, SenderMisled, SenderFails, peer, entry
<1>16. CASE (KeepAlive /\ ~KeepAliveFreeHandler) \/ KeepAliveExpires
  BY <1>16, <1>0
  DEF KeepAlive, KeepAliveWait, KeepAliveWake, KeepAliveLock, KeepAliveWakeSender,
      KeepAliveJoinSender, KeepAliveJoinReceiver, KeepAliveFinish, KeepAliveExpires,
      peer, entry
<1>17. CASE Entry \/ EntryExpires
  BY <1>17, <1>0 DEF Entry, EntryWait, EntryWake, EntryJoin, EntryExpires, peer, entry
<1>18. CASE ServerStops \/ StopFind \/ StopSet \/ StopSender \/ StopMisses
  BY <1>18
  DEF ServerStops, StopFind, StopSet, StopSender, StopMisses, handler, receiver, peer, entry
<1>. QED
  BY <1>1, <1>2, <1>3, <1>4, <1>6, <1>7, <1>8, <1>9, <1>10, <1>11, <1>12, <1>13, <1>14,
     <1>15, <1>16, <1>17, <1>18
  DEF Next, Step, Construct, Receive, Handle, Stop

\* No step but these misuses anything.
LEMMA NextMisuses ==
  ASSUME FlagsTypeOK, PlacesTypeOK, PacketsTypeOK, KeeperInv, JoinInv, ConstructInv,
         NullsInv, WakeInv, RealInv, MisusesAreKnown, [Next]_vars
  PROVE  MisusesAreKnown'
<1>. USE DEF MisusesAreKnown
<1>1. CASE UNCHANGED vars
  BY <1>1 DEF vars, eventVars, build, sender, entry, keeper, handler, SenderFreed
<1>. SUFFICES ASSUME fault = "none", UNCHANGED build, Step PROVE MisusesAreKnown'
  BY <1>1 DEF Next, Running
<1>0. UNCHANGED fault => MisusesAreKnown'
  OBVIOUS
<1>2. CASE ReceivePut
  <2>1. hobj = "live" \/ cpc \in {"handler", "assign"}
    BY <1>2 DEF ReceivePut, PlacesTypeOK, JoinInv, ConstructInv
  <2>. QED  BY <1>2, <2>1 DEF ReceivePut, Hand
<1>3. ASSUME NEW p \in udp, UdpPut(p)
      PROVE  MisusesAreKnown'
  <2>1. hobj = "live"
    BY <1>3
    DEF UdpPut, Reachable, PlacesTypeOK, JoinInv, KeeperInv, ConstructInv, Removing
  <2>. QED  BY <1>3, <2>1 DEF UdpPut, Hand
<1>4. CASE StopHandler
  <2>1. hobj = "live" \/ (hobj = "freed" /\ kpc = "joinSelf" /\ ~local /\ stopReq)
    BY <1>4
    DEF StopHandler, PlacesTypeOK, JoinInv, KeeperInv, ConstructInv, WakeInv, Removing
  <2>. QED  BY <1>4, <2>1 DEF StopHandler, Hand, keeper, build
<1>5. CASE StopMisses
  <2>1. SenderFreed /\ apc \in {"set", "sender", "handler"}
    BY <1>5 DEF StopMisses, SenderFreed
  <2>2. ~local /\ stopReq
    BY <2>1 DEF SenderFreed, KeeperInv, Removing, WakeInv
  <2>. QED
    BY <1>5, <2>1, <2>2 DEF StopMisses, SenderFreed, keeper, entry, build
<1>6. CASE SenderMisled
  <2>1. \/ apc \in {"handler", "done"}
        \/ kpc \in Removing
        \/ object = "freed"
    <3>1. nulls # 0
      <4>1. nulls > 0
        BY <1>6, Zenon DEF SenderMisled
      <4>2. ~(0 > 0)
        OBVIOUS
      <4>. QED  BY <4>1, <4>2, Zenon
    <3>. QED  BY <3>1 DEF NullsInv
  <2>2. expired
    BY <1>6, <2>1 DEF SenderMisled, Stopping, WakeInv, KeeperInv, Removing
  <2>. QED  BY <1>6, <2>2 DEF SenderMisled, sender, eventVars
<1>7. CASE Construct
  BY <1>7, <1>0
  DEF Construct, ConstructBegin, ConstructSender, ConstructReceiver, ConstructHandler,
      ConstructAssign, ConstructKeepAlive, ConstructEnd
<1>8. CASE ReceiveCheck \/ ReceivePacket \/ ReceiveEnd \/ PeerClose
  BY <1>8, <1>0 DEF ReceiveCheck, ReceivePacket, ReceiveEnd, PeerClose
<1>9. CASE (HandlePop \/ HandleNull) /\ hobj # "freed"
  <2>1. \/ UNCHANGED fault
        \/ fault' \in {"empty queue", "null handled"} /\ lapsed
    BY <1>9 DEF HandlePop, HandleNull, RealInv
  <2>2. UNCHANGED <<lapsed, hobj>>
    BY <1>9 DEF HandlePop, HandleNull, handler
  <2>. QED  BY <1>0, <1>9, <2>1, <2>2
<1>10. CASE \/ HandleWait \/ HandleLapse \/ HandleCheck \/ HandleCall
            \/ SenderStops \/ SenderFails
  BY <1>10, <1>0
  DEF HandleWait, HandleLapse, HandleCheck, HandleCall, SenderStops, SenderFails
<1>11. CASE KeepAlive \/ KeepAliveExpires
  BY <1>11, <1>0
  DEF KeepAlive, KeepAliveWait, KeepAliveWake, KeepAliveLock, KeepAliveWakeSender,
      KeepAliveJoinSender, KeepAliveJoinReceiver, KeepAliveFreeHandler, KeepAliveFinish,
      KeepAliveExpires
<1>12. CASE Entry \/ EntryExpires \/ ServerStops \/ StopFind \/ StopSet \/ StopSender
  BY <1>12, <1>0
  DEF Entry, EntryWait, EntryWake, EntryJoin, EntryExpires, ServerStops, StopFind,
      StopSet, StopSender
<1>. QED
  BY <1>2, <1>3, <1>4, <1>5, <1>6, <1>7, <1>8, <1>9, <1>10, <1>11, <1>12
  DEF Step, Receive, Handle, Stop

-----------------------------------------------------------------------------
(* The handler's queue.                                                    *)

\* A step that leaves the handler's packets alone; its thread may be started.
HandlerKept ==
  /\ UNCHANGED <<hq, htok, hheld, lapsed, history>>
  /\ hpc' = hpc \/ (hpc = "none" /\ hpc' = "wait")

\* A packet is handed over, the handler's thread takes a step, or neither.
LEMMA HandlerStep ==
  ASSUME PacketsTypeOK, ConstructInv, [Next]_vars
  PROVE  \/ HandlerKept
         \/ Handle
         \/ \E p \in Items : Hand(p) /\ hobj = "live"
<1>0. UNCHANGED <<handler, history>> => HandlerKept
  BY DEF HandlerKept, handler
<1>1. CASE UNCHANGED vars
  BY <1>1, <1>0 DEF vars
<1>2. ASSUME NEW p \in Items, Hand(p)
      PROVE  HandlerKept \/ (Hand(p) /\ hobj = "live")
  BY <1>2, <1>0 DEF Hand
<1>3. CASE ConstructHandler
  BY <1>3 DEF ConstructHandler, HandlerKept, ConstructInv
<1>4. CASE ConstructAssign \/ KeepAliveFreeHandler
  BY <1>4 DEF ConstructAssign, KeepAliveFreeHandler, HandlerKept
<1>5. CASE \/ ConstructBegin \/ ConstructSender \/ ConstructReceiver
           \/ ConstructKeepAlive \/ ConstructEnd
  BY <1>5, <1>0
  DEF ConstructBegin, ConstructSender, ConstructReceiver, ConstructKeepAlive, ConstructEnd
<1>6. CASE ReceivePut
  <2>1. rheld \in Items
    BY DEF PacketsTypeOK
  <2>. QED  BY <1>6, <1>2, <2>1 DEF ReceivePut
<1>7. CASE \E p \in udp : UdpPut(p)
  <2>1. PICK p \in udp : UdpPut(p)
    BY <1>7
  <2>2. p \in Items
    BY DEF PacketsTypeOK, Items
  <2>. QED  BY <2>1, <2>2, <1>2 DEF UdpPut
<1>8. CASE StopHandler
  <2>1. NullPacket \in Items
    BY DEF Items
  <2>. QED  BY <1>8, <2>1, <1>2 DEF StopHandler
<1>9. CASE ReceiveCheck \/ ReceivePacket \/ ReceiveEnd \/ PeerClose
  BY <1>9, <1>0 DEF ReceiveCheck, ReceivePacket, ReceiveEnd, PeerClose
<1>10. CASE SenderStops \/ SenderMisled \/ SenderFails
  BY <1>10, <1>0 DEF SenderStops, SenderMisled, SenderFails
<1>11. CASE (KeepAlive /\ ~KeepAliveFreeHandler) \/ KeepAliveExpires
  BY <1>11, <1>0
  DEF KeepAlive, KeepAliveWait, KeepAliveWake, KeepAliveLock, KeepAliveWakeSender,
      KeepAliveJoinSender, KeepAliveJoinReceiver, KeepAliveFinish, KeepAliveExpires
<1>12. CASE \/ Entry \/ EntryExpires
            \/ ServerStops \/ StopFind \/ StopSet \/ StopSender \/ StopMisses
  BY <1>12, <1>0
  DEF Entry, EntryWait, EntryWake, EntryJoin, EntryExpires, ServerStops, StopFind,
      StopSet, StopSender, StopMisses
<1>. QED
  BY <1>1, <1>3, <1>4, <1>5, <1>6, <1>7, <1>8, <1>9, <1>10, <1>11, <1>12
  DEF Next, Step, Construct, Receive, Stop

\* What the handler's steps do keeps the packets packets.
LEMMA NextPackets ==
  ASSUME PacketsTypeOK, ConstructInv, [Next]_vars
  PROVE  PacketsTypeOK'
<1>. DEFINE Theirs == /\ hheld \in Items /\ hq \in Seq(Items) /\ htok \in Nat
                      /\ queued \in Seq(Items) /\ handled \in Seq(Items)
            Peers == rheld \in Items /\ wire \in Seq(Items) /\ udp \subseteq Datagrams
<1>1. Theirs'
  <2>. USE DEF PacketsTypeOK, history, handler
  <2>1. CASE HandlerKept
    BY <2>1 DEF HandlerKept
  <2>2. ASSUME NEW p \in Items, Hand(p), hobj = "live"
        PROVE  Theirs'
    <3>1. /\ hq' = Append(hq, p) /\ htok' = htok + 1 /\ queued' = Append(queued, p)
          /\ UNCHANGED <<hheld, handled>>
      BY <2>2 DEF Hand
    <3>. QED  BY <3>1
  <2>3. CASE HandleLapse \/ HandleCheck \/ HandleNull
    BY <2>3 DEF HandleLapse, HandleCheck, HandleNull
  <2>6. CASE HandleWait
    <3>1. htok > 0 /\ htok' = htok - 1 /\ UNCHANGED <<hheld, hq, queued, handled>>
      BY <2>6 DEF HandleWait
    <3>2. htok' \in Nat
      BY <3>1
    <3>. QED  BY <3>1, <3>2
  <2>5. CASE HandleCall
    <3>1. NullPacket \in Items
      BY DEF Items
    <3>2. handled' = Append(handled, hheld) /\ hheld' = NullPacket
          /\ UNCHANGED <<hq, htok, queued>>
      BY <2>5 DEF HandleCall
    <3>. QED  BY <3>1, <3>2
  <2>4. CASE HandlePop
    <3>1. CASE hq = <<>>
      BY <2>4, <3>1 DEF HandlePop
    <3>2. CASE hq # <<>>
      <4>1. hheld' = Head(hq) /\ hq' = Tail(hq) /\ UNCHANGED <<htok, queued, handled>>
        BY <2>4, <3>2 DEF HandlePop
      <4>. QED  BY <3>2, <4>1
    <3>. QED  BY <3>1, <3>2
  <2>. QED  BY <2>1, <2>2, <2>3, <2>4, <2>5, <2>6, HandlerStep DEF Handle
<1>2. Peers'
  <2>. USE DEF PacketsTypeOK, receiver, peer
  <2>0. UNCHANGED <<receiver, peer>> => Peers'
    OBVIOUS
  <2>1. CASE UNCHANGED vars
    BY <2>1, <2>0 DEF vars
  <2>2. CASE Construct
    BY <2>2
    DEF Construct, ConstructBegin, ConstructSender, ConstructReceiver, ConstructHandler,
        ConstructAssign, ConstructKeepAlive, ConstructEnd
  <2>3. CASE Receive
    <3>1. NullPacket \in Items
      BY DEF Items
    <3>2. CASE ReceivePacket
      <4>1. wire # <<>> /\ rheld' = Head(wire) /\ wire' = Tail(wire) /\ udp' = udp
        BY <3>2 DEF ReceivePacket
      <4>. QED  BY <4>1
    <3>. QED
      BY <2>3, <3>1, <3>2 DEF Receive, ReceiveCheck, ReceiveEnd, ReceivePut
  <2>4. CASE PeerClose \/ \E p \in udp : UdpPut(p)
    BY <2>4 DEF PeerClose, UdpPut
  <2>5. CASE Handle \/ SenderStops \/ SenderMisled \/ SenderFails
    BY <2>5, <2>0
    DEF Handle, HandleWait, HandleLapse, HandleCheck, HandlePop, HandleCall, HandleNull, SenderStops, SenderMisled,
        SenderFails
  <2>6. CASE KeepAlive \/ KeepAliveExpires
    BY <2>6, <2>0
    DEF KeepAlive, KeepAliveWait, KeepAliveWake, KeepAliveLock, KeepAliveWakeSender,
        KeepAliveJoinSender, KeepAliveJoinReceiver, KeepAliveFreeHandler, KeepAliveFinish,
        KeepAliveExpires
  <2>7. CASE Entry \/ EntryExpires \/ Stop
    BY <2>7
    DEF Entry, EntryWait, EntryWake, EntryJoin, EntryExpires, Stop, ServerStops, StopFind,
        StopSet, StopSender, StopHandler, StopMisses
  <2>. QED
    BY <2>1, <2>2, <2>3, <2>4, <2>5, <2>6, <2>7 DEF Next, Step
<1>. QED  BY <1>1, <1>2 DEF PacketsTypeOK

\* Every packet comes with a token, and every pop has taken one.
LEMMA NextToken ==
  ASSUME PacketsTypeOK, ConstructInv, TokenInv, [Next]_vars
  PROVE  TokenInv'
<1>. USE DEF TokenInv, PacketsTypeOK
<1>1. CASE HandlerKept
  BY <1>1 DEF HandlerKept
<1>2. ASSUME NEW p \in Items, Hand(p), hobj = "live"
      PROVE  TokenInv'
  BY <1>2 DEF Hand
<1>3. CASE HandleWait
  BY <1>3 DEF HandleWait
<1>4. CASE HandleCheck
  BY <1>4 DEF HandleCheck
<1>5. CASE HandlePop
  <2>1. CASE hq = <<>>
    BY <1>5, <2>1 DEF HandlePop
  <2>2. CASE hq # <<>>
    <3>1. hq' = Tail(hq) /\ hpc = "pop" /\ hpc' = "call" /\ UNCHANGED <<htok, lapsed>>
      BY <1>5, <2>2 DEF HandlePop
    <3>. QED  BY <2>2, <3>1
  <2>. QED  BY <2>1, <2>2
<1>6. CASE HandleCall
  BY <1>6 DEF HandleCall
<1>7. CASE HandleLapse \/ HandleNull
  BY <1>7 DEF HandleLapse, HandleNull, handler
<1>. QED  BY <1>1, <1>2, <1>3, <1>4, <1>5, <1>6, <1>7, HandlerStep DEF Handle

\* Sequences of packets: how the queue and the history are taken apart.
LEMMA Concatenation ==
  ASSUME NEW s \in Seq(Items), NEW t \in Seq(Items), NEW p \in Items
  PROVE  /\ s \o <<>> = s
         /\ s \o Append(t, p) = Append(s \o t, p)
         /\ (s \o <<p>>) \o t = s \o (<<p>> \o t)
         /\ s \o <<p>> = Append(s, p)
         /\ t # <<>> => t = <<Head(t)>> \o Tail(t) /\ Tail(t) \in Seq(Items)
OBVIOUS

\* What is handed over goes to the end of the queue, and what is handled comes
\* from its head.
LEMMA NextFifo ==
  ASSUME PacketsTypeOK, ConstructInv, FifoInv, [Next]_vars
  PROVE  FifoInv'
<1>. USE DEF FifoInv
<1>. DEFINE called == IF hpc = "call" THEN <<hheld>> ELSE <<>>
<1>0. /\ hq \in Seq(Items) /\ hheld \in Items /\ handled \in Seq(Items)
      /\ called \in Seq(Items) /\ handled \o called \in Seq(Items)
  BY DEF PacketsTypeOK
<1>1. CASE HandlerKept
  BY <1>1 DEF HandlerKept, history
<1>2. ASSUME NEW p \in Items, Hand(p), hobj = "live"
      PROVE  FifoInv'
  <2>1. UNCHANGED <<hpc, hheld, handled>> /\ hq' = Append(hq, p) /\ queued' = Append(queued, p)
    BY <1>2 DEF Hand
  <2>2. called' = called
    BY <2>1
  <2>3. (handled \o called) \o Append(hq, p) = Append((handled \o called) \o hq, p)
    <3>1. ASSUME NEW s \in Seq(Items)
          PROVE  s \o Append(hq, p) = Append(s \o hq, p)
      BY <1>0, Concatenation
    <3>. HIDE DEF called
    <3>. QED  BY <3>1, <1>0
  <2>4. queued = (handled \o called) \o hq
    OBVIOUS
  <2>5. queued' = (handled' \o called') \o hq'
    BY <2>1, <2>2, <2>3, <2>4
  <2>. QED  BY <2>5
<1>3. CASE HandleWait \/ HandleLapse \/ HandleCheck \/ HandleNull
  BY <1>3 DEF HandleWait, HandleLapse, HandleCheck, HandleNull, handler, history
<1>6. CASE HandlePop /\ hq = <<>>
  BY <1>6 DEF HandlePop, history
<1>4. CASE HandlePop /\ hq # <<>>
  <2>1. /\ hpc = "pop" /\ hpc' = "call" /\ UNCHANGED <<queued, handled>>
        /\ hheld' = Head(hq) /\ hq' = Tail(hq)
    BY <1>4 DEF HandlePop, history
  <2>2. queued = handled \o hq
    BY <2>1, <1>0, Concatenation
  <2>3. hq = <<hheld'>> \o hq' /\ hq' \in Seq(Items) /\ hheld' \in Items
    BY <2>1, <1>0, <1>4, Concatenation
  <2>4. (handled \o <<hheld'>>) \o hq' = handled \o (<<hheld'>> \o hq')
    BY <2>3, <1>0, Concatenation
  <2>. QED  BY <2>1, <2>2, <2>3, <2>4
<1>5. CASE HandleCall
  <2>1. /\ hpc = "call" /\ hpc' = "wait" /\ UNCHANGED <<queued, hq>>
        /\ handled' = Append(handled, hheld)
    BY <1>5 DEF HandleCall
  <2>2. handled' \in Seq(Items) /\ handled' = handled \o <<hheld>>
    BY <2>1, <1>0
  <2>. QED  BY <2>1, <2>2, <1>0, Concatenation
<1>. QED  BY <1>1, <1>2, <1>3, <1>4, <1>5, <1>6, HandlerStep DEF Handle

-----------------------------------------------------------------------------
(* The theorems.                                                           *)

\* The client starts in the invariant.
LEMMA InitIInv ==
  ASSUME Init
  PROVE  IInv
<1>1. FlagsTypeOK
  <2>1. PICK b \in Builds : linux = b.linux /\ local = b.local
    BY DEF Init
  <2>2. linux \in BOOLEAN /\ local \in BOOLEAN
    BY <2>1, ThreadsAssumption
  <2>. QED  BY <2>2 DEF Init, EventInit, FlagsTypeOK
<1>2. PacketsTypeOK
  <2>1. Wire \in Seq(Items)
    BY ThreadsAssumption DEF Items
  <2>2. NullPacket \in Items
    BY DEF Items
  <2>. QED  BY <2>1, <2>2 DEF Init, PacketsTypeOK
<1>3. PlacesTypeOK /\ WaitersTypeOK /\ nulls \in 0 .. 2
  BY DEF Init, EventInit, PlacesTypeOK, WaitersTypeOK
<1>4. KeeperInv /\ JoinInv /\ ConstructInv /\ NullsInv /\ WakeInv /\ MisusesAreKnown
  BY DEF Init, EventInit, KeeperInv, JoinInv, ConstructInv, NullsInv, WakeInv,
         MisusesAreKnown, Removing
<1>5. TokenInv /\ FifoInv
  BY DEF Init, TokenInv, FifoInv
<1>6. RealInv
  BY ThreadsAssumption DEF Init, RealInv
<1>. QED  BY <1>1, <1>2, <1>3, <1>4, <1>5, <1>6, TypeParts DEF IInv

\* The invariant is kept by every step.
LEMMA NextIInv ==
  ASSUME IInv, [Next]_vars
  PROVE  IInv'
<1>1. /\ FlagsTypeOK /\ PlacesTypeOK /\ WaitersTypeOK /\ PacketsTypeOK
      /\ KeeperInv /\ JoinInv /\ ConstructInv /\ NullsInv /\ WakeInv
      /\ TokenInv /\ FifoInv /\ RealInv /\ MisusesAreKnown
  BY TypeParts DEF IInv
<1>2. FlagsTypeOK' /\ PlacesTypeOK' /\ WaitersTypeOK' /\ PacketsTypeOK'
  BY <1>1, NextFlags, NextPlaces, NextWaiters, NextPackets
<1>3. /\ KeeperInv' /\ JoinInv' /\ ConstructInv' /\ NullsInv' /\ WakeInv'
      /\ TokenInv' /\ FifoInv' /\ RealInv' /\ MisusesAreKnown'
  BY <1>1, NextKeeper, NextJoin, NextConstruct, NextNulls, NextWake, NextToken, NextFifo,
     NextReal, NextMisuses
<1>4. nulls' \in 0 .. 2
  BY <1>3 DEF NullsInv
<1>. QED  BY <1>2, <1>3, <1>4, TypeParts DEF IInv

\* The invariant holds throughout, for whatever a peer sends.
THEOREM Invariant == Spec => []IInv
BY InitIInv, NextIInv, PTL DEF Spec

\* The variables keep their types: no thread sleeps and is awake at once, and at most
\* two null packets wait for the sender, one of SetStop and one of ~PacketSender.
THEOREM TypeCorrect == Spec => []TypeOK
BY Invariant, PTL DEF IInv

\* When ~PacketHandler frees the handler, the sender and the receiver have ended and no
\* look-up that takes m_ClientAccessMutex finds the client; the calls that take no mutex
\* are those of ~NetworkControl, and every misuse from then on is inside its SetStop.
THEOREM OnlyStopEverMeetsFreed == Spec => []OnlyStopMeetsFreed
<1>1. IInv => OnlyStopMeetsFreed
  BY DEF IInv, KeeperInv, JoinInv, ConstructInv, MisusesAreKnown, Removing, OnlyStopMeetsFreed,
         Reachable, SenderFreed
<1>. QED  BY <1>1, Invariant, PTL

\* A missing or freed object or a null packet is used in no other circumstances than
\* these: the handler is still being constructed; a wait of KeepAlive or of the handler's
\* thread has ended by itself; or ~NetworkControl of a server is inside SetStop and
\* KeepAlive, which the same SetStop or the receiver may have woken, frees the client.
THEOREM MisusesAreAlwaysKnown == Spec => []MisusesAreKnown
BY Invariant, PTL DEF IInv

\* A step accepts a packet, delivers the next one, or does neither.
LEMMA StepRefines ==
  ASSUME PacketsTypeOK, ConstructInv, FifoInv, [Next]_vars
  PROVE  [Fifo!FifoNext]_Fifo!fifoVars
<1>. USE DEF Fifo!fifoVars, history
<1>1. CASE HandlerKept
  BY <1>1 DEF HandlerKept
<1>2. ASSUME NEW p \in Items, Hand(p), hobj = "live"
      PROVE  Fifo!FifoNext
  BY <1>2 DEF Hand, Fifo!FifoNext, Fifo!Accept
<1>3. CASE HandleWait \/ HandleLapse \/ HandleCheck \/ HandlePop \/ HandleNull
  BY <1>3 DEF HandleWait, HandleLapse, HandleCheck, HandlePop, HandleNull
<1>4. CASE HandleCall
  <2>1. /\ hpc = "call" /\ UNCHANGED queued /\ handled' = Append(handled, hheld)
    BY <1>4 DEF HandleCall
  <2>2. handled \in Seq(Items) /\ hheld \in Items /\ hq \in Seq(Items)
    BY DEF PacketsTypeOK
  <2>3. queued = (handled \o <<hheld>>) \o hq
    BY <2>1 DEF FifoInv
  <2>4. Len(handled) < Len(queued) /\ queued[Len(handled) + 1] = hheld
    BY <2>2, <2>3
  <2>. QED  BY <2>1, <2>4 DEF Fifo!FifoNext, Fifo!Deliver
<1>. QED  BY <1>1, <1>2, <1>3, <1>4, HandlerStep DEF Handle

\* The handler's queue and its thread are a first-in first-out channel: the packets of
\* TCP and UDP are handled once each and in the order of AddToQueue.
THEOREM ImplementsFifo == Spec => HandledInOrder
<1>1. Init => Fifo!FifoInit
  BY DEF Init, Fifo!FifoInit
<1>2. IInv /\ [Next]_vars => [Fifo!FifoNext]_Fifo!fifoVars
  BY StepRefines, TypeParts DEF IInv
<1>. QED  BY <1>1, <1>2, Invariant, PTL DEF Spec, HandledInOrder, Fifo!FifoSpec
=============================================================================
