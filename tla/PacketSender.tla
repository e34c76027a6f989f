---------------------------- MODULE PacketSender ----------------------------
(***************************************************************************)
(* class PacketSender: the thread that writes the packets of one client to *)
(* the network, the queue that feeds it, and its destructor.               *)
(*                                                                         *)
(* Producers are the threads that call AddToQueue: the listener, the       *)
(* broadcaster, the application.  The first and the last hold no mutex     *)
(* that keeps them from doing so beside the destructor, or after it.       *)
(* `stop' stands for the disjunction the loop tests, NetworkControl's      *)
(* m_StopRequestedEvent or the parent client's m_StopEvent; neither is     *)
(* ever reset.                                                             *)
(***************************************************************************)
EXTENDS PacketQueue, FiniteSets, Functions

CONSTANTS UdpPackets,   \* the packets that have their UDP flag set
          Producers,    \* threads that call AddToQueue
          Destroyer,    \* the thread that runs ~PacketSender
          Local,        \* the client is local, i.e. this is a client process
          MaxStops      \* bound: how often SetStop pushes the null packet

ASSUME SenderAssumption ==
  /\ UdpPackets \subseteq Packets
  /\ Null \notin Packets
  /\ NoThread \notin Producers \cup {Destroyer}
  /\ Destroyer \notin Producers
  /\ Local \in BOOLEAN
  /\ MaxStops \in Nat

VARIABLES
  stop,       \* m_StopRequestedEvent or m_StopEvent is set
  udpReady,   \* m_UDPInitialized of the parent client
  lapsed,     \* history: Semaphore::Wait has returned without a token
  unasked,    \* history: the destructor began while nobody had asked for a stop
  pc,         \* where the sender thread is, or how it ended
  held,       \* outgoingPacket
  phase,      \* the object: live, waking, joining, draining, gone
  drained,    \* the loop counter i of the destructor
  log,        \* history: everything pushed, in order
  sent,       \* history: packets handed to the network, in order
  deleted,    \* history: packets that were deleted
  fault       \* the first misuse, which ends the behaviour

env    == <<stop, udpReady, lapsed, unasked>>
thread == <<pc, held>>
object == <<phase, drained>>
vars   == <<queue, tokens, owner, stop, udpReady, lapsed, unasked, pc, held, phase,
            drained, log, sent, deleted, fault>>

\* The ways PacketSenderLoop returns: it saw a stop, send() failed, or a
\* packet was refused before anything was sent.
Ended == {"stopped", "failed", "refused"}

\* front() of an empty queue; a call through the null packet; AddToQueue while the
\* destructor takes the queue apart, or after the object has been freed.
Faults == {"empty", "null", "raced", "freed"}

Init ==
  /\ QueueInit
  /\ stop = FALSE /\ udpReady = FALSE /\ lapsed = FALSE /\ unasked = FALSE
  /\ pc = "wait" /\ held = Null
  /\ phase = "live" /\ drained = 0
  /\ log = <<>> /\ sent = <<>> /\ deleted = {}
  /\ fault = "none"

-----------------------------------------------------------------------------
(* Callers of AddToQueue, and the events the loop looks at.                *)

\* The destructor has not begun to take the queue apart.
Whole == phase \notin {"draining", "gone"}

Push(t, x) ==
  /\ Whole
  /\ LockAndPush(t, x)
  /\ log' = Append(log, x)
  /\ UNCHANGED <<stop, udpReady, lapsed, thread, drained, sent, deleted, fault>>

\* A producer queues a packet; ownership of the packet passes to the queue.
AddPacket(t, p) ==
  /\ p \notin Range(log)
  /\ Push(t, p)
  /\ UNCHANGED <<phase, unasked>>

\* Mutant: the null packet is pushed before the stop event is set.
AddNullEarly(t) ==
  /\ Cardinality({i \in DOMAIN log : log[i] = Null}) < MaxStops
  /\ Push(t, Null)
  /\ UNCHANGED <<phase, unasked>>

\* Client::SetStop pushes the null packet after it has set the stop event.
AddNull(t) ==
  /\ stop
  /\ Cardinality({i \in DOMAIN log : log[i] = Null}) < MaxStops
  /\ Push(t, Null)
  /\ UNCHANGED <<phase, unasked>>

FinishAdd(t) ==
  /\ phase # "gone"
  /\ NotifyAndUnlock(t)
  /\ UNCHANGED <<env, thread, object, log, sent, deleted, fault>>

\* A producer that still has the address of the object calls AddToQueue, or is in
\* it: its push meets the pops of the destructor, which takes no mutex, or the
\* memory has been freed.
StrayAdd(t) ==
  /\ \/ phase = "draining" /\ owner = NoThread /\ fault' = "raced"
     \/ phase = "gone" /\ fault' = "freed"
  /\ UNCHANGED <<queueVars, env, thread, object, log, sent, deleted>>

\* The receiver, the application or NetworkControl asks the client to stop.
RaiseStop ==
  /\ ~stop
  /\ stop' = TRUE
  /\ UNCHANGED <<queueVars, udpReady, lapsed, unasked, thread, object, log, sent, deleted, fault>>

\* The UDP receiver has seen the first datagram of this client.
LearnUdpOrigin ==
  /\ ~udpReady
  /\ udpReady' = TRUE
  /\ UNCHANGED <<queueVars, stop, lapsed, unasked, thread, object, log, sent, deleted, fault>>

-----------------------------------------------------------------------------
(* PacketSenderLoop.                                                       *)

LoopWait ==
  /\ pc = "wait"
  /\ TakeToken
  /\ pc' = "check"
  /\ UNCHANGED <<env, held, object, log, sent, deleted, fault>>

\* A wait that was interrupted, or ran out of time, returns without a token;
\* its result is ignored.
LoopLapse ==
  /\ pc = "wait"
  /\ pc' = "check"
  /\ lapsed' = TRUE
  /\ UNCHANGED <<queueVars, stop, udpReady, unasked, held, object, log, sent, deleted, fault>>

LoopCheck ==
  /\ pc = "check"
  /\ pc' = IF stop THEN "stopped" ELSE "pop"
  /\ UNCHANGED <<queueVars, env, held, object, log, sent, deleted, fault>>

LoopPop ==
  /\ pc = "pop"
  /\ PopFront
  /\ held' = Head(queue)
  /\ pc' = "send"
  /\ UNCHANGED <<env, object, log, sent, deleted, fault>>

\* front() of an empty std::queue, or a call through the null packet: the
\* process dies.
LoopCrash ==
  /\ \/ pc = "pop" /\ queue = <<>> /\ owner = NoThread /\ fault' = "empty"
     \/ pc = "send" /\ held = Null /\ fault' = "null"
  /\ UNCHANGED <<queueVars, env, thread, object, log, sent, deleted>>

\* SendToClientUDP sends nothing, and returns 0, to a client whose UDP
\* address is not known yet.
CanSend(p) == p \in UdpPackets => (Local \/ udpReady)

\* SendTo{Client,Server}{TCP,UDP} delete the packet, whatever the outcome.
Dispose(next) ==
  /\ pc = "send" /\ held # Null
  /\ deleted' = deleted \cup {held}
  /\ held' = Null
  /\ pc' = next
  /\ UNCHANGED <<queueVars, env, object, log, fault>>

\* Mutant: the packet is sent and not deleted.
SendOkKeepsPacket ==
  /\ pc = "send" /\ held # Null /\ CanSend(held)
  /\ sent' = Append(sent, held)
  /\ held' = Null /\ pc' = "wait"
  /\ UNCHANGED <<queueVars, env, object, log, deleted, fault>>

SendOk ==
  /\ CanSend(held)
  /\ Dispose("wait")
  /\ sent' = Append(sent, held)

\* Mutant: the return code is ignored and the loop goes on.
SendFailCarriesOn ==
  /\ Dispose("wait")
  /\ UNCHANGED sent

\* A return code of zero or less ends the thread: a socket error, at any
\* time, or a UDP packet that CanSend refuses.
SendFail ==
  /\ Dispose(IF CanSend(held) THEN "failed" ELSE "refused")
  /\ UNCHANGED sent

-----------------------------------------------------------------------------
(* ~PacketSender, run for the clients of a server only: a local client is  *)
(* never deleted.  Nothing makes sure that a stop was asked for: KeepAlive *)
(* removes its client when its wait ends, and on Linux the wait may end by *)
(* itself.                                                                 *)

\* AddToQueue( 0 ), to wake the thread.
DestroyPush ==
  /\ phase = "live" /\ ~Local
  /\ Push(Destroyer, Null)
  /\ phase' = "waking"
  /\ unasked' = ~stop

DestroyNotify ==
  /\ phase = "waking"
  /\ NotifyAndUnlock(Destroyer)
  /\ phase' = "joining"
  /\ UNCHANGED <<env, thread, drained, log, sent, deleted, fault>>

\* Mutant: the destructor does not wait for the thread.
DestroyJoinNoWait ==
  /\ phase = "joining"
  /\ phase' = "draining"
  /\ UNCHANGED <<queueVars, env, thread, drained, log, sent, deleted, fault>>

\* m_Thread->Wait( INFINITE ); delete m_Thread.
DestroyJoin ==
  /\ phase = "joining"
  /\ pc \in Ended
  /\ phase' = "draining"
  /\ UNCHANGED <<queueVars, env, thread, drained, log, sent, deleted, fault>>

\* Mutant: the null test before delete is gone.
DrainOneUnchecked ==
  /\ phase = "draining" /\ drained < Len(queue)
  /\ deleted' = deleted \cup {Head(queue)}
  /\ queue' = Tail(queue)
  /\ drained' = drained + 1
  /\ UNCHANGED <<tokens, owner, env, thread, phase, log, sent, fault>>

\* for ( i = 0; i < size(); i++ ): the bound shrinks while i grows.
DrainOne ==
  /\ phase = "draining" /\ drained < Len(queue)
  /\ deleted' = deleted \cup ({Head(queue)} \ {Null})
  /\ queue' = Tail(queue)
  /\ drained' = drained + 1
  /\ UNCHANGED <<tokens, owner, env, thread, phase, log, sent, fault>>

DrainEnd ==
  /\ phase = "draining" /\ drained >= Len(queue)
  /\ phase' = "gone"
  /\ UNCHANGED <<queueVars, env, thread, drained, log, sent, deleted, fault>>

-----------------------------------------------------------------------------
Loop == LoopWait \/ LoopCheck \/ LoopPop

Send == SendOk \/ SendFail

FinishDestroy == DestroyNotify \/ DestroyJoin \/ DrainOne \/ DrainEnd

Next ==
  /\ fault = "none"
  /\ \/ \E t \in Producers, p \in Packets : AddPacket(t, p)
     \/ \E t \in Producers : AddNull(t) \/ FinishAdd(t) \/ StrayAdd(t)
     \/ RaiseStop
     \/ LearnUdpOrigin
     \/ Loop \/ LoopLapse \/ LoopCrash \/ Send
     \/ DestroyPush \/ FinishDestroy

Spec == Init /\ [][Next]_vars

\* Every thread that can run is scheduled.  Nothing is assumed of the network:
\* send() may block for ever, so Send is not among the fair actions.
Fairness ==
  /\ WF_vars(Loop) /\ WF_vars(LoopCrash)
  /\ \A t \in Producers : WF_vars(FinishAdd(t))
  /\ WF_vars(FinishDestroy)

FairSpec == Spec /\ Fairness

-----------------------------------------------------------------------------
(* Properties.                                                             *)

\* The state of one sender object has the shape the declarations give it;
\* in particular only real packets are ever deleted.
TypeOK ==
  /\ queue \in Seq(Packets \cup {Null})
  /\ tokens \in Nat
  /\ owner \in Producers \cup {Destroyer, NoThread}
  /\ stop \in BOOLEAN /\ udpReady \in BOOLEAN /\ lapsed \in BOOLEAN
  /\ unasked \in BOOLEAN
  /\ pc \in {"wait", "check", "pop", "send"} \cup Ended
  /\ held \in Packets \cup {Null}
  /\ phase \in {"live", "waking", "joining", "draining", "gone"}
  /\ drained \in Nat
  /\ log \in Seq(Packets \cup {Null})
  /\ sent \in Seq(Packets)
  /\ deleted \subseteq Packets
  /\ fault \in {"none"} \cup Faults

\* PacketSenderLoop takes front() and pop() without asking for the size: as
\* long as the semaphore keeps its word the queue is never empty there.
NeverPopsEmpty == (pc = "pop" /\ ~lapsed) => queue # <<>>

\* The null packet that SetStop and the destructor push is a wake-up, and the loop
\* dereferences it only if the object is destroyed though nobody asked the client
\* to stop: otherwise it is queued once the stop flag is up, and the flag is looked
\* at between the wait and the pop.
NullNeverSent == (pc = "send" /\ ~lapsed /\ ~unasked) => held # Null

\* So PacketSenderLoop takes a packet, and never nothing or a null pointer, out
\* of the queue whenever it goes there, unless a wait of its own or KeepAlive's
\* has ended by itself.
TakesPackets == NeverPopsEmpty /\ NullNeverSent

\* Every packet given to the queue is in exactly one place: waiting, in the
\* hands of the thread, or deleted.  Nothing is freed twice and, until the
\* destructor has drained the queue, nothing is lost.
OnePlace ==
  \A p \in Packets :
    LET waiting == Cardinality({i \in DOMAIN queue : queue[i] = p})
        inHand  == IF held = p THEN 1 ELSE 0
        freed   == IF p \in deleted THEN 1 ELSE 0
    IN  waiting + inHand + freed = (IF p \in Range(log) THEN 1 ELSE 0)

\* ~PacketSender takes the queue apart without the mutex and frees `this'
\* afterwards: by then the thread has returned, whatever was queued in the meantime,
\* and the mutex is the destructor's no more.  (Producers it does not wait for: StrayAdd.)
JoinedBeforeDrain ==
  phase \in {"draining", "gone"} => pc \in Ended /\ owner # Destroyer

\* What reaches the network is what was queued, in that order, with nothing
\* skipped and nothing sent twice.
Fifo == INSTANCE PacketFifo WITH Items <- Packets \cup {Null},
                                 accepted <- log, delivered <- sent
FifoOrder == Fifo!FifoSpec

\* A queued packet is sent, unless the client stops or the thread has ended;
\* provided send() does not block for ever and nothing is misused on the way.
EventuallySent ==
  []<>(pc # "send") =>
    \A p \in Packets :
      p \in Range(log) ~> (p \in Range(sent) \/ stop \/ pc \in Ended \/ fault # "none")

\* The destructor finishes: its AddToQueue( 0 ) always gets the thread out of
\* its wait, whatever else is in the queue, unless something is misused.
DestructorReturns ==
  []<>(pc # "send") => (phase = "waking" ~> (phase = "gone" \/ fault # "none"))

=============================================================================
