------------------------- MODULE ClientSessionProofs -------------------------
(***************************************************************************)
(* A client process is safe in these respects for any number of sessions:  *)
(* on Win32 the recycle event is not left set; and as long as no two       *)
(* callers are in Deinitialize at once, which needs a failed connection,   *)
(* m_InitCount tells whether there is a NetworkControl outside of the two  *)
(* windows named, and its network thread and UDP receiver end before it.   *)
(***************************************************************************)
EXTENDS ClientSession, TLAPS

\* m_InitCount is set last in Connect.  Deinitialize deletes the object, sets
\* the pointer to 0 and resets the count, in this order; whoever does so is alone.
CountInv ==
  ~crowded =>
    /\ net = "live" => (initCount = 1 <=> apc = "idle")
    /\ net = "live" => \A d \in Callers : dpc[d] \notin Deinitializing
    /\ net = "dying" => initCount = 1 /\ apc = "idle"
    /\ net = "dying" <=> \E d \in Callers : dpc[d] = "delete"
    /\ Gone => apc = "idle"
    /\ Gone => (initCount = 1 <=> \E d \in Callers : dpc[d] \in {"zero", "count"})
    /\ initCount \in {0, 1}

\* No two callers are in Deinitialize, or in the destructor of what has gone.
OneDeletes ==
  ~crowded =>
    /\ \A d, e \in Callers :
         dpc[d] \in Deinitializing /\ dpc[e] \in Deinitializing => d = e
    /\ \A d \in Callers : dpc[d] # "stray"

\* Nobody connects while the count is not 0.
ConnectInv == apc # "idle" => initCount <= 0

\* What has been started belongs to a session.
SessionInv ==
  /\ npc # "none" \/ localClient => session \in Sessions
  /\ \A s \in Sessions : hpc[s] # "none" => s <= session

\* The network thread waits for the UDP receiver, which it alone starts.
EntryInv ==
  /\ npc \in {"none", "connect", "failed", "create"} => upc = "none"
  /\ npc = "done" => upc \in {"none", "ended"}

\* The network thread of a NetworkControl that is gone has ended, and with it
\* the UDP receiver: ~NetworkControl waits for the one, and that for the other.
NetworkThreadIsDown ==
  ~crowded /\ Gone => npc \in {"none", "done"} /\ upc \in {"none", "ended"}

\* DisconnectAsync is called once in a session, when its connection fails.
AsyncInv ==
  \A s \in Sessions :
    s > session \/ (s = session /\ npc = "connect") => dpc[s] = "none"

\* The recycle event is set by a Disconnect that has still to wait for it.
RecycleInv == ~linux /\ recycle => \E d \in Callers : dpc[d] = "recycle"

\* As long as no connection has failed, Disconnect finds the NetworkControl and
\* its thread, the assertion of Deinitialize holds, and nobody is in Deinitialize
\* while another is, or in the destructor of what another has deleted.
DisconnectIsSafe ==
  ~failed => ~crowded /\ fault \notin {"singleton", "thread", "assert", "delete"}

\* Only the application disconnects then, and from a session it has opened.
AloneInv ==
  ~failed =>
    /\ \A s \in Sessions : dpc[s] = "none"
    /\ dpc[App] \notin {"late", "stray"}
    /\ open \/ dpc[App] \in {"stop", "find", "join", "deinit"} =>
         net = "live" /\ apc = "idle" /\ thread
    /\ apc # "idle" \/ open => dpc[App] = "none"
    /\ apc = "count" => thread

IInv ==
  /\ TypeOK /\ CountInv /\ OneDeletes /\ ConnectInv /\ SessionInv /\ EntryInv
  /\ NetworkThreadIsDown /\ AsyncInv /\ RecycleInv

-----------------------------------------------------------------------------
(* The case split, and what the threads of a client cannot touch.          *)

\* The threads of the local client of session s.
ClientStep(s) ==
  \/ ReceivePoll(s) \/ ReceivePacket(s) \/ ReceiveEnd(s)
  \/ HandleWait(s) \/ HandleCheck(s) \/ HandleCall(s)
  \/ KeepAliveWait(s) \/ KeepAliveRemove(s)

\* A step of the process is that of the application in Connect, of a caller of
\* Disconnect, of the network thread, of the UDP receiver or of a client.
LEMMA NextCases ==
  ASSUME [Next]_vars
  PROVE  \/ Connect \/ ConnectFails \/ ConnectAssign \/ ConnectCount
         \/ AppDisconnect
         \/ \E d \in Callers : Disconnect(d)
         \/ EntryConnect \/ EntryFails \/ Entry
         \/ UdpEnd
         \/ \E s \in Sessions : ClientStep(s)
         \/ UNCHANGED vars
BY DEF Next, ClientStep

\* m_StopEvent wakes the network thread or KeepAlive, and does nothing else.
LEMMA StopSetWakes ==
  ASSUME TypeOK, NEW s \in Sessions, StopSet(s)
  PROVE  /\ stopped' = stopped \cup {s}
         /\ npc' = npc \/ (npc = "asleep" /\ npc' = "woken")
         /\ kpc' = kpc \/ kpc' = [kpc EXCEPT ![s] = "remove"]
BY DEF StopSet

\* The threads of a client neither connect nor disconnect.
LEMMA ClientFrame ==
  ASSUME TypeOK, NEW s \in Sessions, ClientStep(s)
  PROVE  /\ UNCHANGED <<linux, control, caller, upc, localClient, failed,
                      crowded>>
         /\ npc' = npc \/ (npc = "asleep" /\ npc' = "woken")
<1>1. CASE ReceiveEnd(s)
  BY <1>1, StopSetWakes DEF ReceiveEnd, local, history
<1>2. CASE ReceivePoll(s) \/ ReceivePacket(s)
  BY <1>2 DEF ReceivePoll, ReceivePacket, Fault, local, history
<1>3. CASE HandleWait(s) \/ HandleCheck(s) \/ HandleCall(s)
  BY <1>3 DEF HandleWait, HandleCheck, HandleCall, Fault, local, history
<1>4. CASE KeepAliveWait(s) \/ KeepAliveRemove(s)
  BY <1>4 DEF KeepAliveWait, KeepAliveRemove, Fault, local, history
<1>. QED  BY <1>1, <1>2, <1>3, <1>4 DEF ClientStep

\* The steps of Disconnect.
LEMMA DisconnectCases ==
  ASSUME NEW d \in Callers, Disconnect(d)
  PROVE  \/ DisconnectStop(d) \/ DisconnectFind(d) \/ DisconnectJoin(d)
         \/ DisconnectLate(d) \/ DeinitBegin(d) \/ DeinitDelete(d) \/ DeinitStray(d)
         \/ DeinitZero(d) \/ DeinitCount(d) \/ DeinitSet(d)
         \/ RecycleWait(d) \/ RecycleWake(d) \/ DisconnectReturn(d)
BY DEF Disconnect

-----------------------------------------------------------------------------
(* Types, in four parts: flags and events, what Connect and the network    *)
(* thread write, the callers of Disconnect, and the threads of the clients. *)

FlagsTypeOK ==
  /\ linux \in BOOLEAN /\ thread \in BOOLEAN /\ joined \in BOOLEAN
  /\ stopRequested \in BOOLEAN /\ localClient \in BOOLEAN /\ open \in BOOLEAN
  /\ recycle \in BOOLEAN /\ failed \in BOOLEAN /\ crowded \in BOOLEAN

ControlTypeOK ==
  /\ net \in {"live", "dying", "null", "freed"}
  /\ session \in 0 .. MaxSessions /\ initCount \in Int /\ initCount <= 1
  /\ id \in 0 .. session
  /\ apc \in {"idle", "assign", "count"}
  /\ npc \in {"none", "connect", "failed", "create", "wait", "asleep", "woken",
              "udp", "done"}
  /\ upc \in {"none", "poll", "ended"}

Places == {"none", "stop", "find", "join", "late", "deinit", "delete", "stray", "zero",
           "count", "set", "recycle", "asleep", "woken", "callback", "ended"}

CallersTypeOK == dpc \in [Callers -> Places]

ClientsTypeOK ==
  /\ stopped \subseteq Sessions
  /\ rpc \in [Sessions -> {"none", "poll", "recv", "ended"}]
  /\ hpc \in [Sessions -> {"none", "wait", "check", "call", "ended"}]
  /\ kpc \in [Sessions -> {"none", "wait", "asleep", "remove", "ended"}]
  /\ queued \in [Sessions -> Nat] /\ received \in [Sessions -> 0 .. MaxPackets]

\* The parts make the whole, before a step and after it.
LEMMA TypeParts ==
  /\ TypeOK <=> FlagsTypeOK /\ ControlTypeOK /\ CallersTypeOK /\ ClientsTypeOK
  /\ TypeOK' <=> FlagsTypeOK' /\ ControlTypeOK' /\ CallersTypeOK' /\ ClientsTypeOK'
BY DEF TypeOK, FlagsTypeOK, ControlTypeOK, CallersTypeOK, ClientsTypeOK, Places

\* Every flag is assigned TRUE or FALSE, or kept.
LEMMA NextFlags ==
  ASSUME TypeOK, [Next]_vars
  PROVE  FlagsTypeOK'
<1>. FlagsTypeOK
  BY TypeParts
<1>. USE DEF FlagsTypeOK, Fault, control, local, caller, history
<1>0. UNCHANGED <<linux, thread, joined, stopRequested, localClient, open, recycle,
                  failed, crowded>> => FlagsTypeOK'
  BY Zenon
<1>1. CASE Connect \/ ConnectFails
  BY <1>1, Zenon DEF Connect, ConnectFails
<1>2. CASE ConnectAssign \/ ConnectCount
  BY <1>2, Zenon DEF ConnectAssign, ConnectCount
<1>3. CASE AppDisconnect
  BY <1>3, Zenon DEF AppDisconnect
<1>4. ASSUME NEW d \in Callers, Disconnect(d)
      PROVE  FlagsTypeOK'
  <2>1. CASE \/ DisconnectStop(d) \/ DisconnectFind(d) \/ DisconnectLate(d)
             \/ RecycleWake(d) \/ DisconnectReturn(d)
    BY <2>1, <1>0
    DEF DisconnectStop, DisconnectFind, DisconnectLate, RecycleWake, DisconnectReturn
  <2>2. CASE DisconnectJoin(d)
    BY <2>2, Zenon DEF DisconnectJoin
  <2>3. CASE DeinitBegin(d)
    BY <2>3, Zenon DEF DeinitBegin
  <2>4. CASE DeinitDelete(d) \/ DeinitStray(d) \/ DeinitZero(d) \/ DeinitCount(d)
    BY <2>4, <1>0 DEF DeinitDelete, DeinitStray, DeinitZero, DeinitCount
  <2>5. CASE DeinitSet(d)
    BY <2>5, Zenon DEF DeinitSet
  <2>6. CASE RecycleWait(d)
    BY <2>6, Zenon DEF RecycleWait
  <2>. QED  BY <1>4, <2>1, <2>2, <2>3, <2>4, <2>5, <2>6, DisconnectCases
<1>5. CASE EntryFails
  BY <1>5, Zenon DEF EntryFails
<1>6. CASE EntryConnect \/ EntryFailed \/ EntryWait \/ EntryJoin \/ UdpEnd
  BY <1>6, <1>0 DEF EntryConnect, EntryFailed, EntryWait, EntryJoin, UdpEnd
<1>7. CASE EntryCreate
  BY <1>7, Zenon DEF EntryCreate
<1>8. CASE EntryStop
  BY <1>8, Zenon DEF EntryStop
<1>9. ASSUME NEW s \in Sessions, ClientStep(s)
      PROVE  FlagsTypeOK'
  BY <1>9, <1>0, ClientFrame
<1>10. CASE UNCHANGED vars
  BY <1>10, <1>0 DEF vars
<1>. QED
  BY NextCases, <1>1, <1>2, <1>3, <1>4, <1>5, <1>6, <1>7, <1>8, <1>9, <1>10 DEF Entry

\* Whoever goes on in Disconnect goes to a place in it.
LEMMA GoesType ==
  ASSUME CallersTypeOK, NEW d, NEW where \in Places, Goes(d, where)
  PROVE  CallersTypeOK'
BY DEF CallersTypeOK, Goes

\* The steps of Disconnect keep the types.
LEMMA DisconnectTypeOK ==
  ASSUME TypeOK, SessionInv, NEW d \in Callers, Disconnect(d)
  PROVE  ControlTypeOK' /\ CallersTypeOK' /\ ClientsTypeOK'
<1>. USE TypeParts
<1>1. CallersTypeOK'
  <2>. USE DEF Places, caller
  <2>1. dpc' = dpc => CallersTypeOK'
    BY DEF CallersTypeOK
  <2>2. CASE DeinitDelete(d)
    BY <2>1, <2>2 DEF DeinitDelete, Fault, CallersTypeOK
  <2>3. CASE DeinitZero(d)
    BY <2>3 DEF DeinitZero, CallersTypeOK
  <2>4. CASE DeinitSet(d)
    BY <2>4, GoesType DEF DeinitSet, CallersTypeOK
  <2>5. CASE RecycleWake(d)
    BY <2>5, GoesType DEF RecycleWake, CallersTypeOK
  <2>6. CASE DeinitBegin(d)
    BY <2>6, <2>1, GoesType DEF DeinitBegin, Fault
  <2>7. CASE DisconnectStop(d) \/ DisconnectFind(d) \/ DisconnectJoin(d) \/ DisconnectLate(d)
    BY <2>7, <2>1, GoesType
    DEF DisconnectStop, DisconnectFind, DisconnectJoin, DisconnectLate, Fault
  <2>8. CASE DeinitStray(d) \/ DeinitCount(d) \/ RecycleWait(d) \/ DisconnectReturn(d)
    BY <2>8, <2>1, GoesType
    DEF DeinitStray, DeinitCount, RecycleWait, DisconnectReturn, Fault
  <2>. QED
    BY DisconnectCases, <2>2, <2>3, <2>4, <2>5, <2>6, <2>7, <2>8
<1>2. ControlTypeOK'
  <2>. USE DEF ControlTypeOK, control, local, caller, history
  <2>1. CASE DisconnectStop(d)
    <3>1. localClient => session \in Sessions
      BY DEF SessionInv
    <3>. QED
      BY <2>1, <3>1, StopSetWakes DEF DisconnectStop, Fault
  <2>2. CASE DisconnectFind(d)
    BY <2>2 DEF DisconnectFind, Fault
  <2>3. CASE DisconnectJoin(d) \/ DisconnectLate(d)
    BY <2>3 DEF DisconnectJoin, DisconnectLate, Fault
  <2>4. CASE DeinitBegin(d)
    BY <2>4 DEF DeinitBegin, Fault
  <2>5. CASE DeinitDelete(d) \/ DeinitStray(d) \/ DeinitZero(d) \/ DeinitCount(d)
    BY <2>5 DEF DeinitDelete, DeinitStray, DeinitZero, DeinitCount, Fault
  <2>6. CASE DeinitSet(d) \/ RecycleWait(d) \/ RecycleWake(d) \/ DisconnectReturn(d)
    BY <2>6 DEF DeinitSet, RecycleWait, RecycleWake, DisconnectReturn
  <2>. QED  BY DisconnectCases, <2>1, <2>2, <2>3, <2>4, <2>5, <2>6
<1>3. ClientsTypeOK'
  <2>. USE DEF ClientsTypeOK, client
  <2>1. CASE DisconnectStop(d)
    <3>1. localClient => session \in Sessions
      BY DEF SessionInv
    <3>. QED
      BY <2>1, <3>1, StopSetWakes DEF DisconnectStop, Fault
  <2>. QED
    BY DisconnectCases, <2>1
    DEF DisconnectFind, DisconnectJoin, DisconnectLate, DeinitBegin, DeinitDelete,
        DeinitStray, DeinitZero, DeinitCount, DeinitSet, RecycleWait, RecycleWake,
        DisconnectReturn, Fault
<1>. QED  BY <1>1, <1>2, <1>3

\* The threads of a client keep the types.
LEMMA ClientTypeOK ==
  ASSUME TypeOK, SessionInv, NEW s \in Sessions, ClientStep(s)
  PROVE  ControlTypeOK' /\ CallersTypeOK' /\ ClientsTypeOK'
<1>. USE TypeParts
<1>1. ControlTypeOK' /\ CallersTypeOK'
  <2>1. id' = id \/ (id' = s /\ s <= session)
    BY DEF ClientStep, ReceivePoll, ReceivePacket, ReceiveEnd, HandleWait, HandleCheck,
           HandleCall, KeepAliveWait, KeepAliveRemove, Fault, local, SessionInv
  <2>2. id' \in 0 .. session
    BY <2>1 DEF ControlTypeOK, Sessions
  <2>. QED
    BY <2>2, ClientFrame DEF ControlTypeOK, CallersTypeOK, control, caller
<1>2. ClientsTypeOK'
  <2>. USE DEF ClientsTypeOK, Fault, client
  <2>1. CASE ReceivePoll(s)
    BY <2>1 DEF ReceivePoll
  <2>2. CASE ReceivePacket(s)
    BY <2>2, SessionAssumption DEF ReceivePacket
  <2>3. CASE ReceiveEnd(s)
    BY <2>3, StopSetWakes DEF ReceiveEnd
  <2>4. CASE HandleWait(s)
    BY <2>4 DEF HandleWait
  <2>5. CASE HandleCheck(s) \/ HandleCall(s)
    BY <2>5 DEF HandleCheck, HandleCall
  <2>6. CASE KeepAliveWait(s) \/ KeepAliveRemove(s)
    BY <2>6 DEF KeepAliveWait, KeepAliveRemove
  <2>. QED
    BY <2>1, <2>2, <2>3, <2>4, <2>5, <2>6 DEF ClientStep
<1>. QED  BY <1>1, <1>2

\* Every step keeps the types.
LEMMA NextTypeOK ==
  ASSUME TypeOK, ConnectInv, SessionInv, [Next]_vars
  PROVE  TypeOK'
<1>. SUFFICES ControlTypeOK' /\ CallersTypeOK' /\ ClientsTypeOK'
  BY NextFlags, TypeParts
<1>. USE SessionAssumption, TypeParts DEF control, local, caller, client, history
<1>1. CASE Connect \/ ConnectFails \/ ConnectAssign
  BY <1>1
  DEF ControlTypeOK, CallersTypeOK, ClientsTypeOK, Connect, ConnectFails, ConnectAssign
<1>2. CASE ConnectCount
  BY <1>2
  DEF ControlTypeOK, CallersTypeOK, ClientsTypeOK, ConnectCount, ConnectInv
<1>3. CASE AppDisconnect
  <2>1. Goes(App, "stop") /\ "stop" \in Places
    BY <1>3 DEF AppDisconnect, Goes, Places
  <2>. QED
    BY <1>3, <2>1, GoesType DEF ControlTypeOK, ClientsTypeOK, AppDisconnect
<1>4. CASE \E d \in Callers : Disconnect(d)
  BY <1>4, DisconnectTypeOK
<1>5. CASE EntryConnect
  BY <1>5 DEF ControlTypeOK, CallersTypeOK, ClientsTypeOK, EntryConnect
<1>6. CASE EntryFails
  BY <1>6, GoesType DEF ControlTypeOK, ClientsTypeOK, EntryFails, Places
<1>7. CASE Entry
  BY <1>7
  DEF ControlTypeOK, CallersTypeOK, ClientsTypeOK, Entry, EntryFailed, EntryCreate,
      EntryWait, EntryStop, EntryJoin
<1>8. CASE UdpEnd
  BY <1>8 DEF ControlTypeOK, CallersTypeOK, ClientsTypeOK, UdpEnd
<1>9. CASE \E s \in Sessions : ClientStep(s)
  BY <1>9, ClientTypeOK
<1>10. CASE UNCHANGED vars
  BY <1>10 DEF ControlTypeOK, CallersTypeOK, ClientsTypeOK, vars
<1>. QED
  BY NextCases, <1>1, <1>2, <1>3, <1>4, <1>5, <1>6, <1>7, <1>8, <1>9, <1>10

-----------------------------------------------------------------------------
(* The invariant.                                                          *)

\* There is no NetworkControl in the initial state.
LEMMA InitIInv == Init => IInv
<1>. SUFFICES ASSUME Init PROVE IInv
  OBVIOUS
<1>. USE SessionAssumption DEF Init
<1>1. FlagsTypeOK
  BY Zenon DEF FlagsTypeOK
<1>2. ControlTypeOK /\ CallersTypeOK /\ ClientsTypeOK
  BY DEF ControlTypeOK, CallersTypeOK, ClientsTypeOK, Places
<1>3. CountInv /\ OneDeletes /\ ConnectInv
  BY DEF CountInv, OneDeletes, ConnectInv, Gone, Callers, Deinitializing
<1>4. SessionInv /\ EntryInv /\ NetworkThreadIsDown
  BY DEF SessionInv, EntryInv, NetworkThreadIsDown, Gone
<1>5. AsyncInv /\ RecycleInv
  BY DEF AsyncInv, RecycleInv, Callers
<1>. QED  BY <1>1, <1>2, <1>3, <1>4, <1>5, TypeParts DEF IInv

\* Whoever enters Deinitialize finds the object, or finds somebody in there;
\* whoever goes on in it is alone.
LEMMA DeinitKeepsCount ==
  ASSUME IInv, NEW d \in Callers,
         \/ DeinitBegin(d) \/ DeinitDelete(d) \/ DeinitStray(d) \/ DeinitZero(d)
         \/ DeinitCount(d)
  PROVE  CountInv' /\ OneDeletes' /\ ConnectInv'
<1>. USE DEF At, Goes, Fault, Gone, Deinitializing, control, caller, history
<1>. /\ CountInv /\ OneDeletes /\ ConnectInv /\ dpc \in [Callers -> Places]
     /\ net \in {"live", "dying", "null", "freed"} /\ initCount \in Int
     /\ initCount <= 1 /\ apc \in {"idle", "assign", "count"} /\ crowded \in BOOLEAN
  BY TypeParts DEF IInv, CallersTypeOK, ControlTypeOK, FlagsTypeOK
<1>0. UNCHANGED <<net, initCount, apc, dpc, crowded>>
        => CountInv' /\ OneDeletes' /\ ConnectInv'
  BY DEF CountInv, OneDeletes, ConnectInv
<1>1. ConnectInv'
  BY DEF ConnectInv, DeinitBegin, DeinitDelete, DeinitStray, DeinitZero, DeinitCount
<1>2. CASE DeinitBegin(d)
  <2>1. CASE UNCHANGED <<net, initCount, apc, dpc, crowded>>
    BY <2>1, <1>0
  <2>2. ASSUME initCount > 0, net # "freed", ~crowded',
               crowded' = (crowded \/ \E e \in Callers : dpc[e] \in Deinitializing)
        PROVE  ~crowded /\ net = "live" /\ \A e \in Callers : dpc[e] \notin Deinitializing
    <3>1. ~crowded /\ ~(\E e \in Callers : dpc[e] \in Deinitializing)
      BY <2>2, Zenon
    <3>2. initCount = 1
      BY <2>2
    <3>3. net # "dying" /\ net # "null"
      BY <3>1, <3>2 DEF CountInv
    <3>. QED  BY <2>2, <3>1, <3>3
  <2>3. CASE ~crowded' /\ ~UNCHANGED <<net, initCount, apc, dpc, crowded>>
    <3>1. /\ ~crowded /\ net = "live" /\ initCount = 1 /\ apc = "idle"
          /\ \A e \in Callers : dpc[e] \notin Deinitializing
          /\ net' = "dying" /\ initCount' = initCount /\ apc' = apc
          /\ dpc' = [dpc EXCEPT ![d] = "delete"]
      BY <1>2, <2>2, <2>3 DEF DeinitBegin, CountInv
    <3>2. dpc'[d] = "delete" /\ \A e \in Callers \ {d} : dpc'[e] = dpc[e]
      BY <3>1
    <3>. QED  BY <3>1, <3>2, <1>1 DEF CountInv, OneDeletes
  <2>4. CASE crowded'
    BY <2>4, <1>1 DEF CountInv, OneDeletes
  <2>. QED  BY <2>1, <2>3, <2>4
<1>3. CASE DeinitDelete(d)
  <2>1. CASE UNCHANGED <<net, initCount, apc, dpc, crowded>>
    BY <2>1, <1>0
  <2>2. CASE ~crowded /\ ~UNCHANGED <<net, initCount, apc, dpc, crowded>>
    <3>1. /\ dpc[d] = "delete" /\ net = "dying" /\ net' = "freed"
          /\ UNCHANGED <<initCount, apc, crowded>> /\ dpc'[d] = "zero"
          /\ \A e \in Callers \ {d} : dpc'[e] # dpc[e] => dpc[e] \in {"delete", "join"}
                                                       /\ dpc'[e] \in {"stray", "late"}
          /\ \A e \in Callers \ {d} : dpc'[e] = "stray" => dpc[e] \in {"delete", "stray"}
      BY <1>3, <2>2 DEF DeinitDelete
    <3>2. \A e \in Callers \ {d} : dpc[e] \notin Deinitializing /\ dpc[e] # "stray"
      BY <2>2, <3>1 DEF OneDeletes
    <3>3. \A e \in Callers \ {d} : dpc'[e] \notin Deinitializing /\ dpc'[e] # "stray"
      BY <3>1, <3>2
    <3>. QED  BY <2>2, <3>1, <3>3, <1>1 DEF CountInv, OneDeletes
  <2>3. CASE crowded /\ ~UNCHANGED <<net, initCount, apc, dpc, crowded>>
    BY <1>3, <2>3, <1>1 DEF DeinitDelete, CountInv, OneDeletes
  <2>. QED  BY <2>1, <2>2, <2>3
<1>4. CASE DeinitZero(d)
  <2>1. CASE ~crowded
    <3>1. /\ dpc[d] = "zero" /\ net' = "null" /\ dpc'[d] = "count"
          /\ UNCHANGED <<initCount, apc, crowded>>
          /\ \A e \in Callers \ {d} : dpc'[e] # dpc[e] => dpc[e] = "delete"
      BY <1>4 DEF DeinitZero
    <3>2. \A e \in Callers \ {d} : dpc[e] \notin Deinitializing /\ dpc[e] # "stray"
      BY <2>1, <3>1 DEF OneDeletes
    <3>3. \A e \in Callers \ {d} : dpc'[e] = dpc[e]
      BY <3>1, <3>2
    <3>4. Gone
      BY <2>1, <3>1, <3>2 DEF CountInv
    <3>. QED  BY <2>1, <3>1, <3>2, <3>3, <3>4, <1>1 DEF CountInv, OneDeletes
  <2>2. CASE crowded
    BY <1>4, <2>2, <1>1 DEF DeinitZero, CountInv, OneDeletes
  <2>. QED  BY <2>1, <2>2
<1>5. CASE DeinitCount(d)
  <2>1. CASE ~crowded
    <3>1. /\ dpc[d] = "count" /\ dpc'[d] = "set" /\ initCount' = initCount - 1
          /\ UNCHANGED <<net, apc, crowded>>
          /\ \A e \in Callers \ {d} : dpc'[e] = dpc[e]
      BY <1>5 DEF DeinitCount
    <3>2. \A e \in Callers \ {d} : dpc[e] \notin Deinitializing /\ dpc[e] # "stray"
      BY <2>1, <3>1 DEF OneDeletes
    <3>3. Gone /\ initCount = 1 /\ apc = "idle"
      BY <2>1, <3>1, <3>2 DEF CountInv
    <3>. QED  BY <2>1, <3>1, <3>2, <3>3, <1>1 DEF CountInv, OneDeletes
  <2>2. CASE crowded
    BY <1>5, <2>2, <1>1 DEF DeinitCount, CountInv, OneDeletes
  <2>. QED  BY <2>1, <2>2
<1>6. CASE DeinitStray(d)
  BY <1>6, <1>0 DEF DeinitStray
<1>. QED  BY <1>2, <1>3, <1>4, <1>5, <1>6

\* The others connect when the count is 0, and stay out of Deinitialize.
LEMMA NextCount ==
  ASSUME IInv, [Next]_vars
  PROVE  CountInv' /\ OneDeletes' /\ ConnectInv'
<1>. USE DEF CountInv, OneDeletes, ConnectInv, Gone, Deinitializing, control, caller,
             history
<1>. CountInv /\ OneDeletes /\ ConnectInv
  BY DEF IInv
<1>. dpc \in [Callers -> Places] /\ net \in {"live", "dying", "null", "freed"}
     /\ initCount \in Int /\ initCount <= 1 /\ apc \in {"idle", "assign", "count"}
     /\ crowded \in BOOLEAN
  BY TypeParts DEF IInv, CallersTypeOK, ControlTypeOK, FlagsTypeOK
<1>0. ASSUME UNCHANGED <<net, initCount, apc, crowded>>,
             \A e \in Callers : \/ dpc'[e] = dpc[e]
                                \/ /\ dpc[e] \notin Deinitializing
                                   /\ dpc'[e] \notin Deinitializing \cup {"stray"}
      PROVE  CountInv' /\ OneDeletes' /\ ConnectInv'
  BY <1>0
<1>1. CASE Connect
  BY <1>1 DEF Connect
<1>2. CASE ConnectFails
  BY <1>2 DEF ConnectFails
<1>3. CASE ConnectAssign
  BY <1>3 DEF ConnectAssign
<1>4. CASE ConnectCount
  BY <1>4 DEF ConnectCount
<1>5. CASE AppDisconnect
  BY <1>5, <1>0 DEF AppDisconnect
<1>6. ASSUME NEW d \in Callers, Disconnect(d)
      PROVE  CountInv' /\ OneDeletes' /\ ConnectInv'
  <2>. USE DEF At, Goes, Fault
  <2>1. CASE \/ DisconnectStop(d) \/ DisconnectFind(d) \/ DisconnectJoin(d)
             \/ DisconnectLate(d)
    BY <2>1, <1>0 DEF DisconnectStop, DisconnectFind, DisconnectJoin, DisconnectLate
  <2>2. CASE \/ DeinitBegin(d) \/ DeinitDelete(d) \/ DeinitStray(d) \/ DeinitZero(d)
             \/ DeinitCount(d)
    BY <2>2, DeinitKeepsCount
  <2>3. CASE DeinitSet(d)
    BY <2>3, <1>0 DEF DeinitSet
  <2>4. CASE RecycleWait(d) \/ RecycleWake(d) \/ DisconnectReturn(d)
    BY <2>4, <1>0 DEF RecycleWait, RecycleWake, DisconnectReturn
  <2>. QED  BY <1>6, DisconnectCases, <2>1, <2>2, <2>3, <2>4
<1>7. CASE EntryConnect \/ Entry \/ UdpEnd
  BY <1>7, <1>0
  DEF EntryConnect, Entry, EntryFailed, EntryCreate, EntryWait, EntryStop, EntryJoin, UdpEnd
<1>8. CASE EntryFails
  <2>1. session \in Sessions /\ dpc[session] = "none"
    BY <1>8 DEF EntryFails, IInv, SessionInv, AsyncInv
  <2>. QED  BY <1>8, <2>1, <1>0 DEF EntryFails, Goes
<1>9. ASSUME NEW s \in Sessions, ClientStep(s)
      PROVE  CountInv' /\ OneDeletes' /\ ConnectInv'
  BY <1>9, <1>0, ClientFrame DEF IInv
<1>10. CASE UNCHANGED vars
  BY <1>10, <1>0 DEF vars
<1>. QED
  BY NextCases, <1>1, <1>2, <1>3, <1>4, <1>5, <1>6, <1>7, <1>8, <1>9, <1>10

\* What is started in a session belongs to it; the network thread goes its way,
\* and ~NetworkControl goes on only when it has ended.
LEMMA NextEntry ==
  ASSUME IInv, [Next]_vars
  PROVE  SessionInv' /\ EntryInv' /\ NetworkThreadIsDown'
<1>. USE SessionAssumption
     DEF SessionInv, EntryInv, NetworkThreadIsDown, Gone, Sessions, control, local, client,
         history
<1>. /\ TypeOK /\ SessionInv /\ EntryInv /\ NetworkThreadIsDown /\ CountInv /\ OneDeletes
     /\ ControlTypeOK /\ ClientsTypeOK /\ crowded \in BOOLEAN
  BY TypeParts DEF IInv, FlagsTypeOK
<1>0. UNCHANGED <<net, session, localClient, hpc, npc, upc, crowded>>
        => SessionInv' /\ EntryInv' /\ NetworkThreadIsDown'
  OBVIOUS
<1>1. CASE Connect
  BY <1>1 DEF Connect, ControlTypeOK
<1>2. CASE ConnectFails
  BY <1>2 DEF ConnectFails, CountInv, ControlTypeOK
<1>3. CASE ConnectAssign \/ ConnectCount \/ AppDisconnect
  BY <1>3, <1>0 DEF ConnectAssign, ConnectCount, AppDisconnect
<1>4. ASSUME NEW d \in Callers, Disconnect(d)
      PROVE  SessionInv' /\ EntryInv' /\ NetworkThreadIsDown'
  <2>1. CASE DisconnectStop(d)
    BY <2>1, <1>0, StopSetWakes DEF DisconnectStop, Fault
  <2>2. CASE DisconnectFind(d) \/ DisconnectJoin(d) \/ DisconnectLate(d) \/ DeinitStray(d)
    BY <2>2, <1>0 DEF DisconnectFind, DisconnectJoin, DisconnectLate, DeinitStray, Fault
  <2>3. CASE DeinitBegin(d)
    <3>1. crowded => crowded'
      BY <2>3 DEF DeinitBegin, Fault
    <3>. QED  BY <2>3, <3>1, <1>0 DEF DeinitBegin, Fault
  <2>4. CASE DeinitDelete(d)
    BY <2>4, <1>0 DEF DeinitDelete, Fault
  <2>5. CASE DeinitZero(d)
    <3>1. ~crowded => Gone
      <4>. SUFFICES ASSUME ~crowded PROVE Gone
        OBVIOUS
      <4>1. At(d, "zero") /\ \A e \in Callers : dpc[e] \in Deinitializing => e = d
        BY <2>5 DEF DeinitZero, OneDeletes, Deinitializing, At
      <4>2. net # "live" /\ net # "dying"
        BY <4>1 DEF CountInv, Deinitializing, At
      <4>. QED  BY <4>2 DEF ControlTypeOK
    <3>. QED  BY <2>5, <3>1 DEF DeinitZero
  <2>6. CASE DeinitCount(d) \/ DeinitSet(d)
    BY <2>6, <1>0 DEF DeinitCount, DeinitSet
  <2>7. CASE RecycleWait(d) \/ RecycleWake(d) \/ DisconnectReturn(d)
    BY <2>7, <1>0 DEF RecycleWait, RecycleWake, DisconnectReturn
  <2>. QED  BY <1>4, DisconnectCases, <2>1, <2>2, <2>3, <2>4, <2>5, <2>6, <2>7
<1>5. CASE EntryConnect
  BY <1>5 DEF EntryConnect, ControlTypeOK, ClientsTypeOK
<1>6. CASE EntryFails
  BY <1>6 DEF EntryFails
<1>7. CASE Entry
  BY <1>7
  DEF Entry, EntryFailed, EntryCreate, EntryWait, EntryStop, EntryJoin
<1>8. CASE UdpEnd
  BY <1>8 DEF UdpEnd
<1>9. ASSUME NEW s \in Sessions, ClientStep(s)
      PROVE  SessionInv' /\ EntryInv' /\ NetworkThreadIsDown'
  <2>1. \A r \in Sessions : hpc'[r] # "none" => hpc[r] # "none"
    BY <1>9
    DEF ClientStep, ReceivePoll, ReceivePacket, ReceiveEnd, HandleWait, HandleCheck,
        HandleCall, KeepAliveWait, KeepAliveRemove, Fault, ClientsTypeOK
  <2>. QED  BY <1>9, <2>1, ClientFrame
<1>10. CASE UNCHANGED vars
  BY <1>10, <1>0 DEF vars
<1>. QED
  BY NextCases, <1>1, <1>2, <1>3, <1>4, <1>5, <1>6, <1>7, <1>8, <1>9, <1>10

\* The connection of a session fails once.
LEMMA NextAsync ==
  ASSUME IInv, [Next]_vars
  PROVE  AsyncInv'
<1>. USE DEF AsyncInv, control, caller, client
<1>. /\ SessionInv /\ AsyncInv /\ dpc \in [Callers -> Places] /\ App \notin Sessions
     /\ session \in Nat /\ Sessions \subseteq Nat /\ Sessions \subseteq Callers
  BY TypeParts DEF IInv, CallersTypeOK, ControlTypeOK, App, Sessions, Callers
<1>0. /\ UNCHANGED <<session, dpc>> /\ (npc' = "connect" => npc = "connect") => AsyncInv'
  OBVIOUS
<1>1. CASE Connect
  BY <1>1 DEF Connect
<1>2. CASE ConnectFails \/ ConnectAssign \/ ConnectCount
  BY <1>2, <1>0 DEF ConnectFails, ConnectAssign, ConnectCount
<1>3. CASE AppDisconnect
  BY <1>3 DEF AppDisconnect
<1>4. ASSUME NEW d \in Callers, Disconnect(d)
      PROVE  AsyncInv'
  <2>. USE DEF At, Goes, Fault
  <2>1. /\ UNCHANGED session /\ (npc' = "connect" => npc = "connect")
        /\ \A s \in Sessions : dpc[s] = "none" => dpc'[s] = "none"
    <3>1. CASE DisconnectStop(d)
      <4>1. localClient => session \in Sessions
        BY DEF SessionInv
      <4>2. TypeOK
        BY DEF IInv
      <4>. QED  BY <3>1, <4>1, <4>2, StopSetWakes DEF DisconnectStop
    <3>2. CASE DisconnectFind(d) \/ DisconnectJoin(d) \/ DisconnectLate(d) \/ DeinitBegin(d)
      BY <3>2 DEF DisconnectFind, DisconnectJoin, DisconnectLate, DeinitBegin
    <3>3. CASE \/ DeinitDelete(d) \/ DeinitStray(d) \/ DeinitZero(d) \/ DeinitCount(d)
               \/ DeinitSet(d)
      BY <3>3 DEF DeinitDelete, DeinitStray, DeinitZero, DeinitCount, DeinitSet
    <3>4. CASE RecycleWait(d) \/ RecycleWake(d) \/ DisconnectReturn(d)
      BY <3>4 DEF RecycleWait, RecycleWake, DisconnectReturn
    <3>. QED  BY <1>4, DisconnectCases, <3>1, <3>2, <3>3, <3>4
  <2>. QED  BY <2>1
<1>5. CASE EntryConnect \/ Entry \/ UdpEnd
  BY <1>5, <1>0
  DEF EntryConnect, Entry, EntryFailed, EntryCreate, EntryWait, EntryStop, EntryJoin, UdpEnd
<1>6. CASE EntryFails
  BY <1>6 DEF EntryFails, Goes
<1>7. ASSUME NEW s \in Sessions, ClientStep(s)
      PROVE  AsyncInv'
  BY <1>7, <1>0, ClientFrame DEF IInv
<1>8. CASE UNCHANGED vars
  BY <1>8, <1>0 DEF vars
<1>. QED  BY NextCases, <1>1, <1>2, <1>3, <1>4, <1>5, <1>6, <1>7, <1>8

\* Who sets the recycle event has still to wait for it; whoever takes it resets it.
LEMMA NextRecycle ==
  ASSUME IInv, [Next]_vars
  PROVE  RecycleInv'
<1>. USE DEF RecycleInv, caller
<1>. RecycleInv /\ dpc \in [Callers -> Places]
  BY TypeParts DEF IInv, CallersTypeOK
<1>0. UNCHANGED <<linux, recycle, dpc>> => RecycleInv'
  OBVIOUS
<1>1. CASE Connect \/ ConnectFails \/ ConnectAssign \/ ConnectCount
  BY <1>1, <1>0 DEF Connect, ConnectFails, ConnectAssign, ConnectCount
<1>2. CASE AppDisconnect
  BY <1>2 DEF AppDisconnect
<1>3. ASSUME NEW d \in Callers, Disconnect(d)
      PROVE  RecycleInv'
  <2>. USE DEF At, Goes, Fault
  <2>1. CASE \/ DisconnectStop(d) \/ DisconnectFind(d) \/ DisconnectJoin(d)
             \/ DisconnectLate(d) \/ DeinitBegin(d)
    BY <2>1, <1>0
    DEF DisconnectStop, DisconnectFind, DisconnectJoin, DisconnectLate, DeinitBegin
  <2>2. CASE DeinitDelete(d) \/ DeinitStray(d) \/ DeinitZero(d) \/ DeinitCount(d)
    <3>1. /\ UNCHANGED <<linux, recycle>>
          /\ \A e \in Callers : dpc[e] = "recycle" => dpc'[e] = "recycle"
      BY <2>2 DEF DeinitDelete, DeinitStray, DeinitZero, DeinitCount
    <3>. QED  BY <3>1
  <2>3. CASE DeinitSet(d)
    BY <2>3, <1>0 DEF DeinitSet
  <2>4. CASE RecycleWait(d)
    BY <2>4 DEF RecycleWait
  <2>5. CASE RecycleWake(d) \/ DisconnectReturn(d)
    BY <2>5 DEF RecycleWake, DisconnectReturn
  <2>. QED  BY <1>3, DisconnectCases, <2>1, <2>2, <2>3, <2>4, <2>5
<1>4. CASE EntryConnect \/ Entry \/ UdpEnd
  BY <1>4, <1>0
  DEF EntryConnect, Entry, EntryFailed, EntryCreate, EntryWait, EntryStop, EntryJoin, UdpEnd
<1>5. CASE EntryFails
  <2>1. session \in Sessions /\ dpc[session] = "none"
    BY <1>5 DEF EntryFails, IInv, SessionInv, AsyncInv
  <2>. QED  BY <1>5, <2>1 DEF EntryFails, Goes
<1>6. ASSUME NEW s \in Sessions, ClientStep(s)
      PROVE  RecycleInv'
  BY <1>6, <1>0, ClientFrame DEF IInv
<1>7. CASE UNCHANGED vars
  BY <1>7, <1>0 DEF vars
<1>. QED  BY NextCases, <1>1, <1>2, <1>3, <1>4, <1>5, <1>6, <1>7

\* The invariant is inductive.
LEMMA Inductive == Spec => []IInv
<1>1. IInv /\ [Next]_vars => IInv'
  BY NextTypeOK, NextCount, NextEntry, NextAsync, NextRecycle DEF IInv
<1>. QED  BY InitIInv, <1>1, PTL DEF Spec

\* As long as no connection fails, only the application disconnects, and it finds
\* what it has opened.
LEMMA NextAlone ==
  ASSUME IInv, AloneInv, DisconnectIsSafe, [Next]_vars
  PROVE  AloneInv' /\ DisconnectIsSafe'
<1>. USE DEF AloneInv, DisconnectIsSafe, Gone, control, caller, history
<1>. /\ CountInv /\ OneDeletes /\ TypeOK /\ dpc \in [Callers -> Places] /\ App \in Callers
     /\ App \notin Sessions /\ Callers = Sessions \cup {App}
     /\ net \in {"live", "dying", "null", "freed"}
  BY TypeParts DEF IInv, CallersTypeOK, ControlTypeOK, App, Sessions, Callers
<1>0. UNCHANGED <<open, apc, dpc, net, thread, crowded, fault>> /\ (failed => failed')
        => AloneInv' /\ DisconnectIsSafe'
  OBVIOUS
<1>1. CASE Connect \/ ConnectFails \/ ConnectAssign \/ ConnectCount
  BY <1>1
  DEF Connect, ConnectFails, ConnectAssign, ConnectCount, CountInv
<1>2. CASE AppDisconnect
  BY <1>2 DEF AppDisconnect
<1>3. ASSUME NEW d \in Callers, Disconnect(d), ~failed
      PROVE  AloneInv' /\ DisconnectIsSafe'
  <2>. USE DEF At, Goes, Fault
  <2>1. d = App
    BY <1>3, DisconnectCases
    DEF DisconnectStop, DisconnectFind, DisconnectJoin, DisconnectLate, DeinitBegin,
        DeinitDelete, DeinitStray, DeinitZero, DeinitCount, DeinitSet, RecycleWait,
        RecycleWake, DisconnectReturn
  <2>. failed' = failed
    BY <1>3, DisconnectCases
    DEF DisconnectStop, DisconnectFind, DisconnectJoin, DisconnectLate, DeinitBegin,
        DeinitDelete, DeinitStray, DeinitZero, DeinitCount, DeinitSet, RecycleWait,
        RecycleWake, DisconnectReturn
  <2>2. CASE DisconnectStop(d) \/ DisconnectFind(d)
    BY <1>3, <2>1, <2>2 DEF DisconnectStop, DisconnectFind
  <2>3. CASE DisconnectJoin(d)
    <3>1. \/ fault' = "join" /\ UNCHANGED <<open, apc, dpc, net, thread, crowded>>
          \/ dpc' = [dpc EXCEPT ![App] = "deinit"]
               /\ UNCHANGED <<open, apc, net, thread, crowded, fault>>
      BY <2>1, <2>3 DEF DisconnectJoin
    <3>2. dpc[App] = "join"
      BY <2>1, <2>3 DEF DisconnectJoin
    <3>3. ASSUME dpc' = [dpc EXCEPT ![App] = "deinit"],
                 UNCHANGED <<open, apc, net, thread, crowded>>
          PROVE  AloneInv'
      <4>1. net' = "live" /\ apc' = "idle" /\ thread' /\ ~open'
        BY <1>3, <3>2, <3>3
      <4>2. \A s \in Sessions : dpc'[s] = "none"
        BY <1>3, <3>3
      <4>3. dpc'[App] = "deinit" /\ ~failed' /\ ~crowded'
        BY <1>3, <3>3
      <4>. QED  BY <4>1, <4>2, <4>3
    <3>4. AloneInv'
      BY <3>1, <3>3
    <3>5. DisconnectIsSafe'
      BY <1>3, <3>1
    <3>. QED  BY <3>4, <3>5
  <2>4. CASE DeinitBegin(d)
    <3>1. net = "live" /\ apc = "idle" /\ initCount = 1 /\ dpc[App] = "deinit"
      BY <1>3, <2>1, <2>4 DEF DeinitBegin, CountInv
    <3>2. \A e \in Callers : dpc[e] \notin Deinitializing
      BY <1>3, <3>1 DEF CountInv
    <3>3. /\ dpc' = [dpc EXCEPT ![App] = "delete"] /\ net' = "dying"
          /\ crowded' = (crowded \/ \E e \in Callers : dpc[e] \in Deinitializing)
          /\ UNCHANGED <<open, apc, thread, fault>>
      BY <2>1, <2>4, <3>1 DEF DeinitBegin
    <3>4. ~crowded'
      BY <1>3, <3>2, <3>3, Zenon
    <3>. QED
      BY <1>3, <3>1, <3>3, <3>4
  <2>5. CASE DeinitDelete(d)
    <3>1. net = "dying" /\ dpc[App] = "delete"
      BY <1>3, <2>1, <2>5 DEF DeinitDelete, CountInv
    <3>. QED  BY <1>3, <2>1, <2>5, <3>1 DEF DeinitDelete
  <2>6. CASE DisconnectLate(d) \/ DeinitStray(d)
    BY <1>3, <2>1, <2>6 DEF DisconnectLate, DeinitStray
  <2>7. CASE DeinitZero(d) \/ DeinitCount(d) \/ DeinitSet(d)
    BY <1>3, <2>1, <2>7 DEF DeinitZero, DeinitCount, DeinitSet
  <2>8. CASE RecycleWait(d) \/ RecycleWake(d) \/ DisconnectReturn(d)
    BY <1>3, <2>1, <2>8 DEF RecycleWait, RecycleWake, DisconnectReturn
  <2>. QED  BY <1>3, DisconnectCases, <2>2, <2>3, <2>4, <2>5, <2>6, <2>7, <2>8
<1>4. ASSUME NEW d \in Callers, Disconnect(d), failed
      PROVE  failed'
  BY <1>4, DisconnectCases
  DEF DisconnectStop, DisconnectFind, DisconnectJoin, DisconnectLate, DeinitBegin,
      DeinitDelete, DeinitStray, DeinitZero, DeinitCount, DeinitSet, RecycleWait,
      RecycleWake, DisconnectReturn, Fault
<1>5. CASE EntryConnect \/ EntryFails \/ Entry \/ UdpEnd
  BY <1>5, <1>0
  DEF EntryConnect, EntryFails, Entry, EntryFailed, EntryCreate, EntryWait, EntryStop,
      EntryJoin, UdpEnd
<1>6. ASSUME NEW s \in Sessions, ClientStep(s)
      PROVE  AloneInv' /\ DisconnectIsSafe'
  <2>1. fault' \in {fault, "receiver", "handler", "ReceiveID", "keepAlive"}
    BY <1>6
    DEF ClientStep, ReceivePoll, ReceivePacket, ReceiveEnd, HandleWait, HandleCheck,
        HandleCall, KeepAliveWait, KeepAliveRemove, Fault
  <2>. QED  BY <1>6, <2>1, ClientFrame
<1>7. CASE UNCHANGED vars
  BY <1>7, <1>0 DEF vars
<1>. QED  BY NextCases, <1>1, <1>2, <1>3, <1>4, <1>5, <1>6, <1>7

-----------------------------------------------------------------------------
(* The theorems.                                                           *)

\* The variables of the client process always have their types.
THEOREM TypeCorrect == Spec => []TypeOK
<1>1. IInv => TypeOK
  BY DEF IInv
<1>. QED  BY Inductive, <1>1, PTL

\* Whenever the application is not inside Connect, m_InitCount says whether
\* there is a NetworkControl, but between its deletion and --m_InitCount, and
\* after two callers have been in Deinitialize at once.
THEOREM CountAlwaysTellsLive == Spec => []CountTellsLive
<1>1. IInv => CountTellsLive
  <2>. SUFFICES ASSUME IInv PROVE CountTellsLive
    OBVIOUS
  <2>1. net \in {"live", "dying", "null", "freed"}
    BY TypeParts DEF IInv, ControlTypeOK
  <2>. QED  BY <2>1 DEF IInv, CountInv, CountTellsLive, Gone, Deinitializing
<1>. QED  BY Inductive, <1>1, PTL

\* On Win32 no session leaves m_RecycleConnection set for the next.
THEOREM RecycleIsAlwaysConsumed == Spec => []RecycleIsConsumed
<1>1. IInv => RecycleIsConsumed
  BY DEF IInv, RecycleInv, RecycleIsConsumed, Disconnecting
<1>. QED  BY Inductive, <1>1, PTL

\* As long as no two callers have been in Deinitialize at once, a NetworkControl
\* that is gone has left no network thread and no UDP receiver behind.
THEOREM NetworkThreadIsAlwaysDown == Spec => []NetworkThreadIsDown
<1>1. IInv => NetworkThreadIsDown
  BY DEF IInv
<1>. QED  BY Inductive, <1>1, PTL

\* A process whose connections all succeed disconnects safely: Disconnect finds the
\* NetworkControl and its thread, the assertion of Deinitialize holds, and nobody is in
\* Deinitialize while another is.
THEOREM DisconnectIsAlwaysSafe == Spec => []DisconnectIsSafe
<1>1. Init => AloneInv /\ DisconnectIsSafe
  BY DEF Init, AloneInv, DisconnectIsSafe, App, Callers
<1>2. IInv /\ AloneInv /\ DisconnectIsSafe /\ [Next]_vars => (AloneInv /\ DisconnectIsSafe)'
  BY NextAlone
<1>. QED  BY Inductive, <1>1, <1>2, PTL DEF Spec
=============================================================================
