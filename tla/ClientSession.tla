---------------------------- MODULE ClientSession ----------------------------
(***************************************************************************)
(* A client process: Connect, the network thread of ClientEntry, the       *)
(* threads of the local Client, and Disconnect, which an application calls *)
(* and which the library calls by DisconnectAsync when a connection fails. *)
(*                                                                         *)
(* Nobody deletes the local Client or joins its threads: those of one      *)
(* session may still run in the next.  The PacketSender's thread uses      *)
(* m_Singleton like the PacketHandler's and is left out; so is a wait that *)
(* ends by itself (see ClientThreads).                                     *)
(***************************************************************************)
EXTENDS Integers

CONSTANTS
  MaxSessions,   \* the bound on the calls of Connect that return ERROR_NONE
  MaxPackets     \* the bound on the packets the server sends in a session

ASSUME SessionAssumption == MaxSessions \in Nat /\ MaxPackets \in Nat

VARIABLES
  linux,         \* the platform of the build
  net,           \* *m_Singleton: live, dying; null or freed: no object
  session,       \* the calls of Connect that have made one
  initCount,     \* m_InitCount
  thread,        \* m_NetworkThread has been assigned
  joined,        \* the network thread has been waited for
  localClient,   \* m_LocalClient has been assigned
  id,            \* its private id: 0, or the session whose server gave it
  stopRequested, \* m_StopRequestedEvent
  apc,           \* the application inside Connect
  open,          \* it has connected, and has not called Disconnect since
  dpc,           \* each caller of Disconnect
  recycle,       \* m_RecycleConnection
  npc,           \* the network thread
  upc,           \* the UDP receiver
  stopped,       \* the sessions whose client's m_StopEvent is set
  rpc,           \* the PacketReceiver of each session's client
  hpc,           \* its PacketHandler
  kpc,           \* its KeepAlive thread
  queued,        \* the handler's queue and semaphore, as a count
  received,      \* the packets received
  failed,        \* history: a connection has failed
  crowded,       \* history: two callers have been in Deinitialize at once
  fault          \* none, or what has been misused

App      == 0
Sessions == 1 .. MaxSessions
Callers  == {App} \cup Sessions      \* s is DisconnectAsync of session s

control == <<net, session, initCount, thread, joined, stopRequested>>
local   == <<localClient, id>>
caller  == <<apc, open, dpc, recycle>>
client  == <<stopped, rpc, hpc, kpc, queued, received>>
history == <<failed, crowded, fault>>
vars    == <<linux, control, local, caller, npc, upc, client, history>>

Init ==
  /\ linux \in BOOLEAN
  /\ net = "null" /\ session = 0 /\ initCount = 0 /\ thread = FALSE
  /\ joined = FALSE /\ stopRequested = FALSE /\ localClient = FALSE /\ id = 0
  /\ apc = "idle" /\ open = FALSE /\ dpc = [d \in Callers |-> "none"]
  /\ recycle = FALSE /\ npc = "none" /\ upc = "none"
  /\ stopped = {} /\ rpc = [s \in Sessions |-> "none"]
  /\ hpc = [s \in Sessions |-> "none"] /\ kpc = [s \in Sessions |-> "none"]
  /\ queued = [s \in Sessions |-> 0] /\ received = [s \in Sessions |-> 0]
  /\ failed = FALSE /\ crowded = FALSE /\ fault = "none"

\* GetSingleton() does not lead to an object.
Gone == net \in {"null", "freed"}

Fault(what) ==
  /\ fault' = what
  /\ UNCHANGED <<linux, control, local, caller, npc, upc, client, failed, crowded>>

-----------------------------------------------------------------------------
(* m_StopEvent of the client of session s: KeepAlive and ClientEntry sleep  *)
(* on it.  Set releases both on Win32 and one of them on Linux.             *)

StopSet(s) ==
  LET entry == npc = "asleep" /\ s = session
      keep  == kpc[s] = "asleep"
  IN  /\ stopped' = stopped \cup {s}
      /\ \E e \in {entry, FALSE}, k \in {keep, FALSE} :
           /\ IF linux THEN ~(e /\ k) /\ (entry \/ keep => e \/ k)
                       ELSE e = entry /\ k = keep
           /\ npc' = IF e THEN "woken" ELSE npc
           /\ kpc' = IF k THEN [kpc EXCEPT ![s] = "remove"] ELSE kpc

\* Wait( INFINITE ) returns at once: never on Linux, where the flag is not
\* looked at.
StopPasses(s) == ~linux /\ s \in stopped

-----------------------------------------------------------------------------
(* Connect.                                                                *)

\* Mutant: m_InitCount is not tested.
ConnectAnyway ==
  /\ apc = "idle" /\ dpc[App] = "none" /\ session < MaxSessions
  /\ net' = "live" /\ session' = session + 1 /\ stopRequested' = FALSE
  /\ thread' = FALSE /\ joined' = FALSE /\ localClient' = FALSE /\ id' = 0
  /\ npc' = "connect" /\ upc' = "none" /\ apc' = "assign"
  /\ UNCHANGED <<linux, initCount, open, dpc, recycle, client, history>>

\* A new NetworkControl and its thread, which starts before the pointer to
\* it is assigned.
Connect ==
  /\ apc = "idle" /\ dpc[App] = "none" /\ initCount = 0 /\ session < MaxSessions
  /\ net' = "live" /\ session' = session + 1 /\ stopRequested' = FALSE
  /\ thread' = FALSE /\ joined' = FALSE /\ localClient' = FALSE /\ id' = 0
  /\ npc' = "connect" /\ upc' = "none" /\ apc' = "assign"
  /\ UNCHANGED <<linux, initCount, open, dpc, recycle, client, history>>

\* There is no socket: m_Singleton is deleted, and not set to 0.
ConnectFails ==
  /\ apc = "idle" /\ dpc[App] = "none" /\ initCount = 0 /\ session < MaxSessions
  /\ net' = "freed"
  /\ UNCHANGED <<linux, session, initCount, thread, joined, stopRequested,
                 local, caller, npc, upc, client, history>>

ConnectAssign ==
  /\ apc = "assign" /\ apc' = "count" /\ thread' = TRUE
  /\ UNCHANGED <<linux, net, session, initCount, joined, stopRequested, local,
                 open, dpc, recycle, npc, upc, client, history>>

\* Mutant: the successful call is not counted.
ConnectUncounted ==
  /\ apc = "count" /\ apc' = "idle" /\ open' = TRUE
  /\ UNCHANGED <<linux, control, local, dpc, recycle, npc, upc, client, history>>

ConnectCount ==
  /\ apc = "count" /\ apc' = "idle" /\ initCount' = initCount + 1 /\ open' = TRUE
  /\ UNCHANGED <<linux, net, session, thread, joined, stopRequested, local, dpc,
                 recycle, npc, upc, client, history>>

-----------------------------------------------------------------------------
(* Disconnect, by the application or by DisconnectAsync.                   *)

AppDisconnect ==
  /\ apc = "idle" /\ open /\ dpc[App] = "none"
  /\ open' = FALSE /\ dpc' = [dpc EXCEPT ![App] = "stop"]
  /\ UNCHANGED <<linux, control, local, apc, recycle, npc, upc, client, history>>

At(d, where) == dpc[d] = where

Goes(d, where) == dpc' = [dpc EXCEPT ![d] = where]

\* SetStop, if there is a local client: the event, and a null packet.
DisconnectStop(d) ==
  /\ At(d, "stop")
  /\ \/ Gone /\ Fault("singleton")
     \/ /\ ~Gone /\ Goes(d, "find")
        /\ IF localClient
           THEN StopSet(session) /\ queued' = [queued EXCEPT ![session] = @ + 1]
           ELSE UNCHANGED <<stopped, npc, kpc, queued>>
        /\ UNCHANGED <<linux, control, local, apc, open, recycle, upc, rpc, hpc,
                       received, history>>

\* GetSingleton()->m_NetworkThread
DisconnectFind(d) ==
  /\ At(d, "find")
  /\ \/ (Gone \/ ~thread) /\ Fault("thread")
     \/ /\ ~Gone /\ thread /\ Goes(d, "join")
        /\ UNCHANGED <<linux, control, local, apc, open, recycle, npc, upc,
                       client, history>>

\* On Linux a thread can be joined once; what a second pthread_join does is
\* undefined, and it may return.
JoinedTwice(d) ==
  linux /\ (joined \/ \E e \in Callers \ {d} : dpc[e] \in {"join", "delete"})

DisconnectJoin(d) ==
  /\ At(d, "join")
  /\ \/ JoinedTwice(d) /\ Fault("join")
     \/ /\ npc = "done" /\ Goes(d, "deinit") /\ joined' = TRUE
        /\ UNCHANGED <<linux, net, session, initCount, thread, stopRequested,
                       local, apc, open, recycle, npc, upc, client, history>>

\* Another caller has deleted the Thread that this one waits for.
DisconnectLate(d) ==
  /\ At(d, "late")
  /\ \/ Fault("join")
     \/ /\ Goes(d, "deinit")
        /\ UNCHANGED <<linux, control, local, apc, open, recycle, npc, upc,
                       client, history>>

-----------------------------------------------------------------------------
(* Deinitialize, which the callers of Disconnect enter with no mutex.      *)

\* Where a caller is in it until m_InitCount has been reset.
Deinitializing == {"delete", "zero", "count"}

\* The assertion, and the first half of ~NetworkControl; to delete a null
\* pointer does nothing.
DeinitBegin(d) ==
  /\ At(d, "deinit")
  /\ \/ initCount <= 0 /\ Fault("assert")
     \/ initCount > 0 /\ net = "freed" /\ Fault("delete")
     \/ /\ initCount > 0 /\ net # "freed"
        /\ crowded' = (crowded \/ \E e \in Callers : dpc[e] \in Deinitializing)
        /\ \/ net = "null" /\ Goes(d, "zero") /\ UNCHANGED <<net, stopRequested>>
           \/ /\ net # "null" /\ Goes(d, "delete")
              /\ net' = "dying" /\ stopRequested' = TRUE
        /\ UNCHANGED <<linux, session, initCount, thread, joined, local, apc,
                       open, recycle, npc, upc, client, failed, fault>>

\* The second half, where the thread is waited for again and deleted.  It ends
\* with a use of m_Singleton.
DeinitDelete(d) ==
  /\ At(d, "delete")
  /\ \/ JoinedTwice(d) /\ Fault("join")
     \/ npc = "done" /\ net # "dying" /\ Fault("delete")
     \/ /\ npc = "done" /\ net = "dying" /\ net' = "freed"
        /\ dpc' = [e \in Callers |-> CASE e = d -> "zero"
                                       [] e # d /\ At(e, "delete") -> "stray"
                                       [] e # d /\ At(e, "join") -> "late"
                                       [] OTHER -> dpc[e]]
        /\ UNCHANGED <<linux, session, initCount, thread, joined, stopRequested,
                       local, apc, open, recycle, npc, upc, client, history>>

\* In the destructor of an object that another caller has deleted.
DeinitStray(d) == At(d, "stray") /\ Fault("delete")

DeinitZero(d) ==
  /\ At(d, "zero") /\ net' = "null"
  /\ dpc' = [e \in Callers |-> CASE e = d -> "count"
                                 [] At(e, "delete") -> "stray"
                                 [] OTHER -> dpc[e]]
  /\ UNCHANGED <<linux, session, initCount, thread, joined, stopRequested, local,
                 apc, open, recycle, npc, upc, client, history>>

DeinitCount(d) ==
  /\ At(d, "count") /\ initCount' = initCount - 1 /\ Goes(d, "set")
  /\ UNCHANGED <<linux, net, session, thread, joined, stopRequested, local, apc,
                 open, recycle, npc, upc, client, history>>

\* The event object is created with manualReset FALSE: one waiter takes the
\* signal with it on Win32.
DeinitSet(d) ==
  LET asleep == {e \in Callers : dpc[e] = "asleep"} IN
    /\ At(d, "set")
    /\ IF asleep = {} THEN recycle' = TRUE /\ Goes(d, "recycle")
       ELSE \E e \in asleep : /\ recycle' = linux
                              /\ dpc' = [dpc EXCEPT ![e] = "woken", ![d] = "recycle"]
    /\ UNCHANGED <<linux, control, local, apc, open, npc, upc, client, history>>

-----------------------------------------------------------------------------
(* The wait for m_RecycleConnection, and the callback.                     *)

\* Mutant: the event is created with manualReset TRUE.
RecycleWaitManual(d) ==
  /\ At(d, "recycle")
  /\ IF ~linux /\ recycle THEN Goes(d, "callback") ELSE Goes(d, "asleep")
  /\ UNCHANGED <<linux, control, local, apc, open, recycle, npc, upc, client, history>>

RecycleWait(d) ==
  /\ At(d, "recycle")
  /\ IF ~linux /\ recycle THEN recycle' = FALSE /\ Goes(d, "callback")
                          ELSE UNCHANGED recycle /\ Goes(d, "asleep")
  /\ UNCHANGED <<linux, control, local, apc, open, npc, upc, client, history>>

\* On Linux whoever wakes signals another sleeper.
RecycleWake(d) ==
  /\ At(d, "woken")
  /\ LET others == {e \in Callers : dpc[e] = "asleep"} IN
       IF linux /\ others # {}
       THEN \E e \in others : dpc' = [dpc EXCEPT ![d] = "callback", ![e] = "woken"]
       ELSE Goes(d, "callback")
  /\ UNCHANGED <<linux, control, local, apc, open, recycle, npc, upc, client, history>>

DisconnectReturn(d) ==
  /\ At(d, "callback")
  /\ Goes(d, IF d = App THEN "none" ELSE "ended")
  /\ UNCHANGED <<linux, control, local, apc, open, recycle, npc, upc, client, history>>

Disconnect(d) ==
  \/ DisconnectStop(d) \/ DisconnectFind(d) \/ DisconnectJoin(d)
  \/ DisconnectLate(d) \/ DeinitBegin(d) \/ DeinitDelete(d) \/ DeinitStray(d)
  \/ DeinitZero(d) \/ DeinitCount(d) \/ DeinitSet(d)
  \/ RecycleWait(d) \/ RecycleWake(d) \/ DisconnectReturn(d)

-----------------------------------------------------------------------------
(* ClientEntry and the UDP receiver.                                       *)

\* The connection is made, and the threads of the new Client start.
EntryConnect ==
  /\ npc = "connect" /\ npc' = "create"
  /\ rpc' = [rpc EXCEPT ![session] = "poll"]
  /\ hpc' = [hpc EXCEPT ![session] = "wait"]
  /\ kpc' = [kpc EXCEPT ![session] = "wait"]
  /\ UNCHANGED <<linux, control, local, caller, upc, stopped, queued, received, history>>

\* Mutant: DisconnectAsync is not called.
EntryFailsQuietly ==
  /\ npc = "connect" /\ npc' = "failed"
  /\ stopRequested' = TRUE /\ failed' = TRUE
  /\ UNCHANGED <<linux, net, session, initCount, thread, joined, local, caller,
                 upc, client, crowded, fault>>

\* The connection fails, and another thread is to disconnect.
EntryFails ==
  /\ npc = "connect" /\ npc' = "failed"
  /\ stopRequested' = TRUE /\ failed' = TRUE /\ Goes(session, "stop")
  /\ UNCHANGED <<linux, net, session, initCount, thread, joined, local, apc,
                 open, recycle, upc, client, crowded, fault>>

\* ~Thread, which on Win32 waits for the other thread to return.
EntryFailed ==
  /\ npc = "failed" /\ (linux \/ At(session, "ended"))
  /\ npc' = "done"
  /\ UNCHANGED <<linux, control, local, caller, upc, client, history>>

\* m_LocalClient is assigned, and the UDP receiver started.
EntryCreate ==
  /\ npc = "create" /\ npc' = "wait"
  /\ localClient' = TRUE /\ id' = 0 /\ upc' = "poll"
  /\ UNCHANGED <<linux, control, caller, client, history>>

EntryWait ==
  /\ npc = "wait" /\ npc' = IF StopPasses(session) THEN "woken" ELSE "asleep"
  /\ UNCHANGED <<linux, control, local, caller, upc, client, history>>

\* Mutant: m_StopRequestedEvent is not set.
EntryStopAlone ==
  /\ npc = "woken" /\ npc' = "udp"
  /\ UNCHANGED <<linux, control, local, caller, upc, client, history>>

EntryStop ==
  /\ npc = "woken" /\ npc' = "udp" /\ stopRequested' = TRUE
  /\ UNCHANGED <<linux, net, session, initCount, thread, joined, local, caller,
                 upc, client, history>>

EntryJoin ==
  /\ npc = "udp" /\ upc = "ended" /\ npc' = "done"
  /\ UNCHANGED <<linux, control, local, caller, upc, client, history>>

\* The end of connect() is not an action of this process.
Entry == EntryFailed \/ EntryCreate \/ EntryWait \/ EntryStop \/ EntryJoin

UdpEnd ==
  /\ upc = "poll" /\ stopRequested /\ upc' = "ended"
  /\ UNCHANGED <<linux, control, local, caller, npc, client, history>>

-----------------------------------------------------------------------------
(* The threads of the local client of session s.                           *)

\* The two events a loop of the client polls.
StopSeen(s) == stopRequested \/ s \in stopped

ReceivePoll(s) ==
  /\ rpc[s] = "poll"
  /\ \/ Gone /\ Fault("receiver")
     \/ /\ ~Gone
        /\ rpc' = [rpc EXCEPT ![s] = IF StopSeen(s) THEN "ended" ELSE "recv"]
        /\ UNCHANGED <<linux, control, local, caller, npc, upc, stopped, hpc, kpc,
                       queued, received, history>>

\* A packet, which the handler of this client gets.
ReceivePacket(s) ==
  /\ rpc[s] = "recv" /\ received[s] < MaxPackets
  /\ \/ Gone /\ Fault("receiver")
     \/ /\ ~Gone /\ rpc' = [rpc EXCEPT ![s] = "poll"]
        /\ received' = [received EXCEPT ![s] = @ + 1]
        /\ queued' = [queued EXCEPT ![s] = @ + 1]
        /\ UNCHANGED <<linux, control, local, caller, npc, upc, stopped, hpc, kpc,
                       history>>

\* The connection has ended, here or there.
ReceiveEnd(s) ==
  /\ rpc[s] = "recv" /\ rpc' = [rpc EXCEPT ![s] = "ended"]
  /\ StopSet(s)
  /\ UNCHANGED <<linux, control, local, caller, upc, hpc, queued, received, history>>

HandleWait(s) ==
  /\ hpc[s] = "wait" /\ queued[s] > 0
  /\ queued' = [queued EXCEPT ![s] = @ - 1]
  /\ hpc' = [hpc EXCEPT ![s] = "check"]
  /\ UNCHANGED <<linux, control, local, caller, npc, upc, stopped, rpc, kpc,
                 received, history>>

HandleCheck(s) ==
  /\ hpc[s] = "check"
  /\ \/ Gone /\ Fault("handler")
     \/ /\ ~Gone
        /\ hpc' = [hpc EXCEPT ![s] = IF StopSeen(s) THEN "ended" ELSE "call"]
        /\ UNCHANGED <<linux, control, local, caller, npc, upc, stopped, rpc, kpc,
                       queued, received, history>>

\* ReceiveID: the local client takes the ids unless it has some.
HandleCall(s) ==
  /\ hpc[s] = "call"
  /\ \/ Gone /\ Fault("handler")
     \/ ~Gone /\ ~localClient /\ Fault("ReceiveID")
     \/ /\ ~Gone /\ localClient
        /\ id' = IF id = 0 THEN s ELSE id
        /\ hpc' = [hpc EXCEPT ![s] = "wait"]
        /\ UNCHANGED <<linux, control, localClient, caller, npc, upc, stopped, rpc,
                       kpc, queued, received, history>>

KeepAliveWait(s) ==
  /\ kpc[s] = "wait"
  /\ kpc' = [kpc EXCEPT ![s] = IF StopPasses(s) THEN "remove" ELSE "asleep"]
  /\ UNCHANGED <<linux, control, local, caller, npc, upc, stopped, rpc, hpc,
                 queued, received, history>>

\* RemoveClient, which finds nothing: the table of a client process is empty.
KeepAliveRemove(s) ==
  /\ kpc[s] = "remove"
  /\ \/ Gone /\ Fault("keepAlive")
     \/ /\ ~Gone /\ kpc' = [kpc EXCEPT ![s] = "ended"]
        /\ UNCHANGED <<linux, control, local, caller, npc, upc, stopped, rpc, hpc,
                       queued, received, history>>

-----------------------------------------------------------------------------
Next ==
  /\ fault = "none"
  /\ \/ Connect \/ ConnectFails \/ ConnectAssign \/ ConnectCount \/ AppDisconnect
     \/ \E d \in Callers : Disconnect(d)
     \/ EntryConnect \/ EntryFails \/ Entry \/ UdpEnd
     \/ \E s \in Sessions :
          \/ ReceivePoll(s) \/ ReceivePacket(s) \/ ReceiveEnd(s)
          \/ HandleWait(s) \/ HandleCheck(s) \/ HandleCall(s)
          \/ KeepAliveWait(s) \/ KeepAliveRemove(s)

Spec == Init /\ [][Next]_vars

\* The threads are scheduled.  The application need not disconnect, nor the
\* server send or close, nor connect() return.
Fairness ==
  /\ WF_vars(fault = "none" /\ (ConnectAssign \/ ConnectCount))
  /\ \A d \in Callers : WF_vars(fault = "none" /\ Disconnect(d))
  /\ WF_vars(fault = "none" /\ Entry)
  /\ WF_vars(fault = "none" /\ UdpEnd)

FairSpec == Spec /\ Fairness

-----------------------------------------------------------------------------
(* Properties.                                                             *)

\* The variables have the shape the declarations give them.
TypeOK ==
  /\ linux \in BOOLEAN /\ net \in {"live", "dying", "null", "freed"}
  /\ session \in 0 .. MaxSessions
  /\ initCount \in Int /\ initCount <= 1
  /\ thread \in BOOLEAN /\ joined \in BOOLEAN /\ stopRequested \in BOOLEAN
  /\ localClient \in BOOLEAN /\ id \in 0 .. session
  /\ apc \in {"idle", "assign", "count"} /\ open \in BOOLEAN
  /\ dpc \in [Callers -> {"none", "stop", "find", "join", "late", "deinit",
                          "delete", "stray", "zero", "count", "set", "recycle",
                          "asleep", "woken", "callback", "ended"}]
  /\ recycle \in BOOLEAN
  /\ npc \in {"none", "connect", "failed", "create", "wait", "asleep", "woken",
              "udp", "done"}
  /\ upc \in {"none", "poll", "ended"}
  /\ stopped \subseteq Sessions
  /\ rpc \in [Sessions -> {"none", "poll", "recv", "ended"}]
  /\ hpc \in [Sessions -> {"none", "wait", "check", "call", "ended"}]
  /\ kpc \in [Sessions -> {"none", "wait", "asleep", "remove", "ended"}]
  /\ queued \in [Sessions -> Nat] /\ received \in [Sessions -> 0 .. MaxPackets]
  /\ failed \in BOOLEAN /\ crowded \in BOOLEAN

Disconnecting == \E d \in Callers : dpc[d] \notin {"none", "asleep", "ended"}

\* Whenever the application is not inside Connect, m_InitCount says whether
\* there is a NetworkControl, so that Connect neither replaces one nor refuses
\* when there is none, but for two windows: while a Deinitialize is between
\* the deletion and --m_InitCount, Connect refuses with no NetworkControl there,
\* and after two callers have been in Deinitialize at once nothing is promised.
CountTellsLive ==
  ~crowded /\ apc = "idle" =>
    (initCount # 0 <=> ~Gone \/ \E d \in Callers : dpc[d] \in {"zero", "count"})

\* On Win32 the signal of a Deinitialize is taken by the Disconnect it was
\* made in, and never by one of a later session.
RecycleIsConsumed == ~linux /\ ~Disconnecting => ~recycle

\* On Win32 a Disconnect that has stopped the local client comes to its end,
\* past the network thread, the UDP receiver and the recycle event.  (One that
\* comes before m_LocalClient is assigned waits for the server to close.)
DisconnectReturnsOnWin32 ==
  (~linux /\ session \in stopped /\ dpc[App] = "find")
    ~> (dpc[App] = "none" \/ fault # "none")

\* On Linux, when a connection fails, the library takes its session down by
\* itself.
FailureIsCleanedUpOnLinux ==
  (linux /\ npc = "failed") ~> (net = "null" \/ fault # "none")
=============================================================================
