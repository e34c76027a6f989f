------------------------- MODULE PacketSenderProofs -------------------------
(***************************************************************************)
(* What holds of the sender for every set of packets and producers: its    *)
(* state is well formed, the loop takes a real packet whenever it takes    *)
(* one, unless a wait ended by itself, the thread has returned when the    *)
(* destructor drains, and the network sees the packets in queue order.     *)
(***************************************************************************)
EXTENDS PacketSender, FiniteSetTheorems, TLAPS

(***************************************************************************)
(* The actions of Next, one disjunct each: the case split of every proof.  *)
(***************************************************************************)
\* A step of the sender is one of the named actions, or a stutter.
LEMMA NextCases ==
  ASSUME [Next]_vars
  PROVE  \/ \E t \in Producers, p \in Packets : AddPacket(t, p)
         \/ \E t \in Producers : AddNull(t)
         \/ \E t \in Producers : FinishAdd(t)
         \/ \E t \in Producers : StrayAdd(t)
         \/ RaiseStop
         \/ LearnUdpOrigin
         \/ LoopWait
         \/ LoopLapse
         \/ LoopCheck
         \/ LoopPop
         \/ LoopCrash
         \/ SendOk
         \/ SendFail
         \/ DestroyPush
         \/ DestroyNotify
         \/ DestroyJoin
         \/ DrainOne
         \/ DrainEnd
         \/ UNCHANGED vars
BY DEF Next, Loop, Send, FinishDestroy

-----------------------------------------------------------------------------
(* Type correctness.                                                       *)

\* Init puts the sender in a well-formed state.
LEMMA InitTypeOK == Init => TypeOK
<1>. SUFFICES ASSUME Init PROVE TypeOK
  OBVIOUS
<1>1. queue \in Seq(Packets \cup {Null}) /\ log \in Seq(Packets \cup {Null})
      /\ sent \in Seq(Packets)
  BY DEF Init, QueueInit
<1>2. /\ stop \in BOOLEAN /\ udpReady \in BOOLEAN /\ lapsed \in BOOLEAN
      /\ unasked \in BOOLEAN /\ fault \in {"none"} \cup Faults
  BY DEF Init
<1>3. tokens \in Nat /\ owner \in Producers \cup {Destroyer, NoThread} /\ drained \in Nat
  BY DEF Init, QueueInit
<1>4. pc \in {"wait", "check", "pop", "send"} \cup Ended
  BY DEF Init, Ended
<1>5. phase \in {"live", "waking", "joining", "draining", "gone"}
  BY DEF Init
<1>6. held \in Packets \cup {Null} /\ deleted \subseteq Packets
  BY DEF Init
<1>. QED  BY <1>1, <1>2, <1>3, <1>4, <1>5, <1>6 DEF TypeOK

\* Whoever pushes, and whatever it pushes, the queue and the log stay
\* sequences of packets and null packets.
LEMMA PushTypeOK ==
  ASSUME TypeOK,
         NEW t \in Producers \cup {Destroyer}, NEW x \in Packets \cup {Null},
         Push(t, x), unasked' \in BOOLEAN,
         phase' \in {"live", "waking", "joining", "draining", "gone"}
  PROVE  TypeOK'
BY DEF TypeOK, Push, LockAndPush, thread, Ended

\* Every step leads from a well-formed state to a well-formed state.
LEMMA NextTypeOK ==
  ASSUME TypeOK, [Next]_vars
  PROVE  TypeOK'
<1>1. CASE \E t \in Producers, p \in Packets : AddPacket(t, p)
  <2>1. PICK t \in Producers, p \in Packets : AddPacket(t, p)
    BY <1>1
  <2>. QED  BY <2>1, PushTypeOK DEF AddPacket, TypeOK
<1>2. CASE \E t \in Producers : AddNull(t)
  <2>1. PICK t \in Producers : AddNull(t)
    BY <1>2
  <2>. QED  BY <2>1, PushTypeOK DEF AddNull, TypeOK
<1>3. CASE \E t \in Producers : FinishAdd(t)
  BY <1>3 DEF FinishAdd, NotifyAndUnlock, TypeOK, env, thread, object, Ended
<1>4. CASE RaiseStop
  BY <1>4 DEF RaiseStop, TypeOK, queueVars, thread, object, Ended
<1>5. CASE LearnUdpOrigin
  BY <1>5 DEF LearnUdpOrigin, TypeOK, queueVars, thread, object, Ended
<1>6. CASE LoopWait
  BY <1>6 DEF LoopWait, TakeToken, TypeOK, queueVars, env, object, Ended
<1>7. CASE LoopCheck
  BY <1>7 DEF LoopCheck, TypeOK, queueVars, env, object, Ended
<1>8. CASE LoopPop
  BY <1>8 DEF LoopPop, PopFront, TypeOK, env, object, Ended
<1>9. CASE LoopCrash
  BY <1>9 DEF LoopCrash, TypeOK, queueVars, env, thread, object, Ended, Faults
<1>10. CASE SendOk
  BY <1>10 DEF SendOk, Dispose, TypeOK, queueVars, env, object, Ended
<1>11. CASE SendFail
  BY <1>11 DEF SendFail, Dispose, TypeOK, queueVars, env, object, Ended
<1>12. CASE DestroyPush
  BY <1>12, PushTypeOK DEF DestroyPush, TypeOK
<1>13. CASE DestroyNotify
  BY <1>13 DEF DestroyNotify, NotifyAndUnlock, TypeOK, env, thread, Ended
<1>14. CASE DestroyJoin
  BY <1>14 DEF DestroyJoin, TypeOK, queueVars, env, thread, Ended
<1>15. CASE DrainOne
  BY <1>15 DEF DrainOne, TypeOK, env, thread, Ended
<1>16. CASE DrainEnd
  BY <1>16 DEF DrainEnd, TypeOK, queueVars, env, thread, Ended
<1>17. CASE UNCHANGED vars
  BY <1>17 DEF vars, TypeOK, Ended
<1>18. CASE LoopLapse
  BY <1>18 DEF LoopLapse, TypeOK, queueVars, object, Ended
<1>19. CASE \E t \in Producers : StrayAdd(t)
  BY <1>19 DEF StrayAdd, TypeOK, queueVars, env, thread, object, Ended, Faults
<1>. QED
  BY NextCases, <1>1, <1>2, <1>3, <1>4, <1>5, <1>6, <1>7, <1>8, <1>9, <1>10,
     <1>11, <1>12, <1>13, <1>14, <1>15, <1>16, <1>17, <1>18, <1>19

\* The state of a sender object is well formed for every set of packets and
\* producers; only real packets are ever deleted.
THEOREM TypeCorrect == Spec => []TypeOK
<1>. QED  BY InitTypeOK, NextTypeOK, PTL DEF Spec

-----------------------------------------------------------------------------
(* Who may touch the object, and when.                                     *)

\* The thread that is pushing the destructor's null packet owns the mutex;
\* after it let go it takes the mutex no more, and it waits for the sender thread.
PhaseOwner ==
  /\ phase = "live" => ~unasked
  /\ phase = "waking" => owner = Destroyer
  /\ phase \in {"joining", "draining", "gone"} => owner # Destroyer
  /\ phase \in {"draining", "gone"} => pc \in Ended

\* Init establishes PhaseOwner.
LEMMA InitPhaseOwner == Init => PhaseOwner
BY SenderAssumption DEF Init, QueueInit, PhaseOwner

\* Every step preserves PhaseOwner: only the destructor's own steps leave
\* phase "live", and an ended thread takes no step.
LEMMA NextPhaseOwner ==
  ASSUME PhaseOwner, TypeOK, [Next]_vars
  PROVE  PhaseOwner'
<1>1. CASE \E t \in Producers, p \in Packets : AddPacket(t, p)
  BY <1>1, SenderAssumption DEF AddPacket, Push, LockAndPush, PhaseOwner, env, thread
<1>2. CASE \E t \in Producers : AddNull(t)
  BY <1>2, SenderAssumption DEF AddNull, Push, LockAndPush, PhaseOwner, env, thread
<1>3. CASE \E t \in Producers : FinishAdd(t)
  BY <1>3, SenderAssumption
  DEF FinishAdd, NotifyAndUnlock, PhaseOwner, env, object, thread
<1>4. CASE RaiseStop
  BY <1>4 DEF RaiseStop, PhaseOwner, env, queueVars, thread, object
<1>5. CASE LearnUdpOrigin
  BY <1>5 DEF LearnUdpOrigin, PhaseOwner, env, queueVars, thread, object
<1>6. CASE LoopWait
  BY <1>6 DEF LoopWait, TakeToken, PhaseOwner, env, queueVars, object, Ended
<1>7. CASE LoopCheck
  BY <1>7 DEF LoopCheck, PhaseOwner, env, queueVars, object, Ended
<1>8. CASE LoopPop
  BY <1>8 DEF LoopPop, PopFront, PhaseOwner, env, object, Ended
<1>9. CASE LoopCrash
  BY <1>9 DEF LoopCrash, PhaseOwner, env, queueVars, thread, object
<1>10. CASE SendOk
  BY <1>10 DEF SendOk, Dispose, PhaseOwner, env, queueVars, object, Ended
<1>11. CASE SendFail
  BY <1>11 DEF SendFail, Dispose, PhaseOwner, env, queueVars, object, Ended
<1>12. CASE DestroyPush
  BY <1>12 DEF DestroyPush, Push, LockAndPush, PhaseOwner
<1>13. CASE DestroyNotify
  BY <1>13, SenderAssumption DEF DestroyNotify, NotifyAndUnlock, PhaseOwner, env, thread
<1>14. CASE DestroyJoin
  BY <1>14 DEF DestroyJoin, PhaseOwner, env, queueVars, thread
<1>15. CASE DrainOne
  BY <1>15 DEF DrainOne, PhaseOwner, env, thread
<1>16. CASE DrainEnd
  BY <1>16 DEF DrainEnd, PhaseOwner, env, queueVars, thread
<1>17. CASE UNCHANGED vars
  BY <1>17 DEF vars, PhaseOwner, env
<1>18. CASE LoopLapse
  BY <1>18 DEF LoopLapse, PhaseOwner, env, queueVars, object, Ended
<1>19. CASE \E t \in Producers : StrayAdd(t)
  BY <1>19 DEF StrayAdd, PhaseOwner, env, queueVars, thread, object
<1>. QED
  BY NextCases, <1>1, <1>2, <1>3, <1>4, <1>5, <1>6, <1>7, <1>8, <1>9, <1>10,
     <1>11, <1>12, <1>13, <1>14, <1>15, <1>16, <1>17, <1>18, <1>19

\* PhaseOwner is an invariant of the sender.
LEMMA PhaseOwnerInvariant == Spec => []PhaseOwner
<1>. QED  BY TypeCorrect, InitPhaseOwner, NextPhaseOwner, PTL DEF Spec

\* The destructor empties the queue, and frees the object, after the thread
\* has returned and the destructor's own AddToQueue is over, whoever else may be in one.
THEOREM AlwaysJoinedBeforeDrain == Spec => []JoinedBeforeDrain
<1>1. PhaseOwner => JoinedBeforeDrain
  BY DEF PhaseOwner, JoinedBeforeDrain
<1>. QED  BY <1>1, PhaseOwnerInvariant, PTL

-----------------------------------------------------------------------------
(* The semaphore and the queue.                                            *)

\* The token the thread has taken from the semaphore and not yet used.
TakenToken == IF pc \in {"check", "pop"} THEN 1 ELSE 0

\* The packet a pusher has queued and not yet announced.
Unannounced == IF owner = NoThread THEN 0 ELSE 1

\* Until the destructor drains, every token is backed by a packet.
TokensBacked ==
  phase \notin {"draining", "gone"} =>
    tokens + TakenToken + Unannounced <= Len(queue)

\* The null packet is queued only under the stop flag, so the packet the
\* thread is about to take, having seen no stop, is a real one.
NullBehindStop ==
  /\ ~stop => \A i \in 1 .. Len(queue) : queue[i] # Null
  /\ pc = "pop" /\ Len(queue) > 0 => Head(queue) # Null
  /\ pc = "send" => held # Null

\* The inductive invariant, for as long as every wait has returned with a token;
\* of the null packet, as long as nobody destroys a client that was not to stop.
QueueInv == lapsed \/ (TokensBacked /\ (unasked \/ NullBehindStop))

\* Init establishes QueueInv: no packet, no token.
LEMMA InitQueueInv == Init => QueueInv
BY DEF Init, QueueInit, QueueInv, TokensBacked, NullBehindStop, TakenToken,
       Unannounced

\* A push keeps QueueInv: the queue grows by the packet that is not announced
\* yet, at the end, and a null packet is pushed under the stop flag only, or else
\* the object is destroyed unasked.
LEMMA PushQueueInv ==
  ASSUME QueueInv, TypeOK,
         NEW t \in Producers \cup {Destroyer}, NEW x \in Packets \cup {Null},
         Push(t, x), x = Null => stop \/ unasked', unasked => unasked'
  PROVE  QueueInv'
<1>. SUFFICES ASSUME ~lapsed'
              PROVE  TokensBacked' /\ (unasked' \/ NullBehindStop')
  BY DEF QueueInv
<1>. USE SenderAssumption DEF TypeOK, Push, LockAndPush, thread
<1>1. Len(queue') = Len(queue) + 1 /\ Whole /\ TokensBacked
  BY DEF QueueInv
<1>2. TokensBacked'
  BY <1>1 DEF TokensBacked, TakenToken, Unannounced, Whole
<1>3. ASSUME ~unasked'
      PROVE  NullBehindStop'
  <2>0. NullBehindStop /\ (x = Null => stop)
    BY <1>3 DEF QueueInv
  <2>1. (~stop => \A i \in 1 .. Len(queue) : queue[i] # Null)'
    BY <2>0, <1>1 DEF NullBehindStop
  <2>2. (pc = "pop" /\ Len(queue) > 0 => Head(queue) # Null)'
    <3>1. pc = "pop" => Len(queue) > 0
      BY <1>1 DEF TokensBacked, TakenToken, Unannounced, Whole
    <3>. QED  BY <3>1, <2>0, <1>1 DEF NullBehindStop
  <2>3. (pc = "send" => held # Null)'
    BY <2>0, <1>1 DEF NullBehindStop
  <2>. QED  BY <2>1, <2>2, <2>3 DEF NullBehindStop
<1>. QED  BY <1>2, <1>3

\* Every step keeps QueueInv.
LEMMA NextQueueInv ==
  ASSUME QueueInv, TypeOK, PhaseOwner, [Next]_vars
  PROVE  QueueInv'
<1>. USE DEF QueueInv, TokensBacked, NullBehindStop, TakenToken, Unannounced,
             TypeOK
<1>1. CASE \E t \in Producers, p \in Packets : AddPacket(t, p)
  BY <1>1, PushQueueInv, SenderAssumption DEF AddPacket
<1>2. CASE \E t \in Producers : AddNull(t)
  BY <1>2, PushQueueInv DEF AddNull
<1>3. CASE \E t \in Producers : FinishAdd(t)
  BY <1>3, SenderAssumption
  DEF FinishAdd, NotifyAndUnlock, env, thread, object
<1>4. CASE RaiseStop
  BY <1>4 DEF RaiseStop, queueVars, thread, object
<1>5. CASE LearnUdpOrigin
  BY <1>5 DEF LearnUdpOrigin, queueVars, thread, object
<1>6. CASE LoopWait
  BY <1>6 DEF LoopWait, TakeToken, env, object
<1>7. CASE LoopCheck
  BY <1>7 DEF LoopCheck, queueVars, env, object, PhaseOwner, Ended
<1>8. CASE LoopPop
  <2>1. /\ owner = NoThread /\ queue # <<>> /\ queue' = Tail(queue)
        /\ Len(queue') = Len(queue) - 1
        /\ \A i \in 1 .. Len(queue') : queue'[i] = queue[i + 1]
    BY <1>8 DEF LoopPop, PopFront
  <2>2. phase \notin {"draining", "gone"}
    BY <1>8 DEF LoopPop, PhaseOwner, Ended
  <2>. QED  BY <1>8, <2>1, <2>2 DEF LoopPop, PopFront, env, object
<1>9. CASE LoopCrash
  BY <1>9 DEF LoopCrash, queueVars, env, thread, object
<1>10. CASE SendOk
  BY <1>10 DEF SendOk, Dispose, queueVars, env, object
<1>11. CASE SendFail
  BY <1>11 DEF SendFail, Dispose, queueVars, env, object
<1>12. CASE DestroyPush
  BY <1>12, PushQueueInv DEF DestroyPush, PhaseOwner
<1>13. CASE DestroyNotify
  BY <1>13, SenderAssumption
  DEF DestroyNotify, NotifyAndUnlock, PhaseOwner, env, thread
<1>14. CASE DestroyJoin
  BY <1>14 DEF DestroyJoin, queueVars, env, thread
<1>15. CASE DrainOne
  <2>1. /\ queue # <<>> /\ queue' = Tail(queue)
        /\ \A i \in 1 .. Len(queue') : queue'[i] = queue[i + 1]
    BY <1>15 DEF DrainOne
  <2>2. pc \in Ended
    BY <1>15 DEF DrainOne, PhaseOwner
  <2>. QED  BY <1>15, <2>1, <2>2 DEF DrainOne, env, thread, Ended
<1>16. CASE DrainEnd
  BY <1>16 DEF DrainEnd, queueVars, env, thread
<1>17. CASE UNCHANGED vars
  BY <1>17 DEF vars
<1>18. CASE LoopLapse
  BY <1>18 DEF LoopLapse
<1>19. CASE \E t \in Producers : StrayAdd(t)
  BY <1>19 DEF StrayAdd, queueVars, env, thread, object
<1>. QED
  BY NextCases, <1>1, <1>2, <1>3, <1>4, <1>5, <1>6, <1>7, <1>8, <1>9, <1>10,
     <1>11, <1>12, <1>13, <1>14, <1>15, <1>16, <1>17, <1>18, <1>19

\* QueueInv is an invariant of the sender.
LEMMA QueueInvariant == Spec => []QueueInv
<1>1. Init => QueueInv
  BY InitQueueInv
<1>2. QueueInv /\ TypeOK /\ PhaseOwner /\ [Next]_vars => QueueInv'
  BY NextQueueInv
<1>. QED  BY <1>1, <1>2, TypeCorrect, PhaseOwnerInvariant, PTL DEF Spec

\* PacketSenderLoop never takes front() of an empty queue unless a wait has
\* returned without a token before, and never dereferences the null packet that
\* wakes it up unless, besides, the object is destroyed though nobody asked for a stop.
THEOREM AlwaysTakesPackets == Spec => []TakesPackets
<1>1. QueueInv /\ PhaseOwner /\ TypeOK => TakesPackets
  <2>. SUFFICES ASSUME QueueInv, PhaseOwner, TypeOK
                PROVE  TakesPackets
    OBVIOUS
  <2>1. NeverPopsEmpty
    BY DEF QueueInv, TokensBacked, TakenToken, Unannounced, PhaseOwner, Ended, TypeOK,
           NeverPopsEmpty
  <2>2. NullNeverSent
    BY DEF QueueInv, NullBehindStop, NullNeverSent
  <2>. QED  BY <2>1, <2>2 DEF TakesPackets
<1>. QED  BY <1>1, QueueInvariant, PhaseOwnerInvariant, TypeCorrect, PTL

-----------------------------------------------------------------------------
(* The network sees the packets in queue order.                            *)

\* How many packets have left the queue.
Popped == Len(log) - Len(queue)

\* The queue is the tail of the log.
QueueIsTail ==
  /\ Len(queue) <= Len(log)
  /\ \A i \in 1 .. Len(queue) : queue[i] = log[Popped + i]

\* As long as the thread runs, it has sent everything it took, except for the
\* packet in its hands.
SentIsPrefix ==
  /\ pc \in {"wait", "check", "pop"} => Len(sent) = Popped
  /\ pc = "send" => Len(sent) + 1 = Popped /\ held = log[Popped]

\* Init establishes the correspondence of queue, log and sent.
LEMMA InitFifo == Init => QueueIsTail /\ SentIsPrefix
BY DEF Init, QueueInit, QueueIsTail, SentIsPrefix, Popped

\* A push appends the same packet to the queue and to the log.
LEMMA PushFifo ==
  ASSUME QueueIsTail, SentIsPrefix, TypeOK, NEW t,
         NEW x \in Packets \cup {Null}, Push(t, x)
  PROVE  QueueIsTail' /\ SentIsPrefix'
<1>1. /\ queue' = Append(queue, x) /\ log' = Append(log, x)
      /\ pc' = pc /\ held' = held /\ sent' = sent
  BY DEF Push, LockAndPush, thread
<1>2. /\ Len(queue') = Len(queue) + 1 /\ Len(log') = Len(log) + 1
      /\ Len(queue) \in Nat /\ Len(log) \in Nat
      /\ \A i \in 1 .. Len(queue) : queue'[i] = queue[i]
      /\ \A i \in 1 .. Len(log) : log'[i] = log[i]
      /\ queue'[Len(queue) + 1] = x /\ log'[Len(log) + 1] = x
  BY <1>1 DEF TypeOK
<1>3. Popped' = Popped /\ Popped \in Nat
  BY <1>2 DEF Popped, QueueIsTail
<1>4. QueueIsTail'
  <2>1. \A i \in 1 .. Len(queue) : queue'[i] = log'[Popped' + i]
    BY <1>2, <1>3 DEF QueueIsTail, Popped
  <2>2. queue'[Len(queue) + 1] = log'[Popped' + (Len(queue) + 1)]
    BY <1>2, <1>3 DEF Popped
  <2>. QED  BY <1>2, <2>1, <2>2 DEF QueueIsTail
<1>5. SentIsPrefix'
  <2>1. pc = "send" => Popped \in 1 .. Len(log)
    BY <1>2, <1>3 DEF SentIsPrefix, Popped, TypeOK
  <2>. QED  BY <1>1, <1>2, <1>3, <2>1 DEF SentIsPrefix
<1>. QED  BY <1>4, <1>5

\* Taking the front packet keeps the queue a tail of the log.
LEMMA TailFifo ==
  ASSUME QueueIsTail, TypeOK, queue # <<>>, queue' = Tail(queue), log' = log
  PROVE  QueueIsTail' /\ Popped' = Popped + 1 /\ Head(queue) = log'[Popped']
<1>1. /\ Len(queue') = Len(queue) - 1
      /\ \A i \in 1 .. Len(queue') : queue'[i] = queue[i + 1]
  BY DEF TypeOK
<1>2. Popped' = Popped + 1 /\ Popped \in Nat
  BY <1>1 DEF Popped, TypeOK, QueueIsTail
<1>3. Head(queue) = log[Popped + 1]
  <2>1. Head(queue) = queue[1] /\ 1 \in 1 .. Len(queue)
    BY DEF TypeOK
  <2>. QED  BY <2>1 DEF QueueIsTail
<1>4. QueueIsTail'
  <2>1. \A i \in 1 .. Len(queue') : queue'[i] = log[Popped + (i + 1)]
    BY <1>1 DEF QueueIsTail, TypeOK
  <2>2. \A i \in 1 .. Len(queue') : Popped + (i + 1) = Popped' + i
    BY <1>2
  <2>. QED  BY <1>1, <2>1, <2>2 DEF QueueIsTail, TypeOK
<1>. QED  BY <1>2, <1>3, <1>4

\* Every step keeps the correspondence.
LEMMA NextFifo ==
  ASSUME QueueIsTail, SentIsPrefix, TypeOK, PhaseOwner, [Next]_vars
  PROVE  QueueIsTail' /\ SentIsPrefix'
<1>. USE DEF QueueIsTail, SentIsPrefix, Popped, TypeOK
<1>1. CASE \E t \in Producers, p \in Packets : AddPacket(t, p)
  BY <1>1, PushFifo DEF AddPacket
<1>2. CASE \E t \in Producers : AddNull(t)
  BY <1>2, PushFifo DEF AddNull
<1>3. CASE \E t \in Producers : FinishAdd(t)
  BY <1>3 DEF FinishAdd, NotifyAndUnlock, thread
<1>4. CASE RaiseStop
  BY <1>4 DEF RaiseStop, queueVars, thread
<1>5. CASE LearnUdpOrigin
  BY <1>5 DEF LearnUdpOrigin, queueVars, thread
<1>6. CASE LoopWait
  BY <1>6 DEF LoopWait, TakeToken, queueVars
<1>7. CASE LoopCheck
  BY <1>7 DEF LoopCheck, queueVars
<1>8. CASE LoopPop
  <2>1. QueueIsTail' /\ Popped' = Popped + 1 /\ Head(queue) = log'[Popped']
    BY <1>8, TailFifo DEF LoopPop, PopFront
  <2>2. /\ pc = "pop" /\ pc' = "send" /\ held' = log'[Popped']
        /\ Len(sent') + 1 = Popped'
    BY <1>8, <2>1 DEF LoopPop
  <2>. QED  BY <2>1, <2>2
<1>9. CASE LoopCrash
  BY <1>9 DEF LoopCrash, queueVars, thread
<1>10. CASE SendOk
  BY <1>10 DEF SendOk, Dispose, queueVars
<1>11. CASE SendFail
  BY <1>11 DEF SendFail, Dispose, queueVars
<1>12. CASE DestroyPush
  BY <1>12, PushFifo DEF DestroyPush
<1>13. CASE DestroyNotify
  BY <1>13 DEF DestroyNotify, NotifyAndUnlock, thread
<1>14. CASE DestroyJoin
  BY <1>14 DEF DestroyJoin, queueVars, thread
<1>15. CASE DrainOne
  <2>0. queue # <<>> /\ queue' = Tail(queue) /\ log' = log
    BY <1>15 DEF DrainOne
  <2>1. QueueIsTail'
    BY <2>0, TailFifo
  <2>2. pc' = pc /\ pc \in Ended
    BY <1>15 DEF DrainOne, PhaseOwner, thread
  <2>. QED  BY <2>1, <2>2 DEF Ended
<1>16. CASE DrainEnd
  BY <1>16 DEF DrainEnd, queueVars, thread
<1>17. CASE UNCHANGED vars
  BY <1>17 DEF vars
<1>18. CASE LoopLapse
  BY <1>18 DEF LoopLapse, queueVars
<1>19. CASE \E t \in Producers : StrayAdd(t)
  BY <1>19 DEF StrayAdd, queueVars, thread
<1>. QED
  BY NextCases, <1>1, <1>2, <1>3, <1>4, <1>5, <1>6, <1>7, <1>8, <1>9, <1>10,
     <1>11, <1>12, <1>13, <1>14, <1>15, <1>16, <1>17, <1>18, <1>19

\* A step of the sender is a step of the abstract queue, or changes neither
\* the log nor what was sent.
LEMMA StepRefines ==
  ASSUME QueueIsTail, SentIsPrefix, TypeOK, [Next]_vars
  PROVE  [Fifo!FifoNext]_(Fifo!fifoVars)
<1>. USE DEF Fifo!FifoNext, Fifo!Accept, Fifo!Deliver, Fifo!fifoVars
<1>1. CASE \E t \in Producers, p \in Packets : AddPacket(t, p)
  BY <1>1 DEF AddPacket, Push
<1>2. CASE \E t \in Producers : AddNull(t)
  BY <1>2 DEF AddNull, Push
<1>3. CASE \E t \in Producers : FinishAdd(t) \/ StrayAdd(t)
  BY <1>3 DEF FinishAdd, StrayAdd
<1>4. CASE RaiseStop \/ LearnUdpOrigin
  BY <1>4 DEF RaiseStop, LearnUdpOrigin
<1>5. CASE LoopWait \/ LoopLapse \/ LoopCheck \/ LoopPop \/ LoopCrash
  BY <1>5 DEF LoopWait, LoopLapse, LoopCheck, LoopPop, LoopCrash
<1>6. CASE SendOk
  <2>1. /\ Len(sent) \in Nat /\ Len(sent) + 1 = Popped
        /\ held = log[Len(sent) + 1]
    BY <1>6 DEF SendOk, Dispose, SentIsPrefix, TypeOK
  <2>2. Len(sent) < Len(log)
    BY <2>1 DEF Popped, TypeOK
  <2>. QED  BY <1>6, <2>1, <2>2 DEF SendOk, Dispose
<1>7. CASE SendFail
  BY <1>7 DEF SendFail, Dispose
<1>8. CASE DestroyPush
  BY <1>8 DEF DestroyPush, Push
<1>9. CASE DestroyNotify \/ DestroyJoin \/ DrainOne \/ DrainEnd
  BY <1>9 DEF DestroyNotify, DestroyJoin, DrainOne, DrainEnd
<1>10. CASE UNCHANGED vars
  BY <1>10 DEF vars
<1>. QED
  BY NextCases, <1>1, <1>2, <1>3, <1>4, <1>5, <1>6, <1>7, <1>8, <1>9, <1>10

\* The sender implements the abstract queue, interrupted waits included:
\* packets are sent in the order they were queued, none skipped or repeated.
THEOREM ImplementsFifo == Spec => FifoOrder
<1>1. Init => Fifo!FifoInit
  BY DEF Init, Fifo!FifoInit
<1>2. Spec => [](QueueIsTail /\ SentIsPrefix)
  BY InitFifo, NextFifo, TypeCorrect, PhaseOwnerInvariant, PTL DEF Spec
<1>. QED
  BY <1>1, <1>2, StepRefines, TypeCorrect, PTL
  DEF Spec, FifoOrder, Fifo!FifoSpec

-----------------------------------------------------------------------------
(* Where a packet is.                                                      *)

\* The positions of packet p in the queue.
Positions(p) == {i \in DOMAIN queue : queue[i] = p}

\* Packet p, once it has been pushed, is in one place, and before in none.
PlaceOf(p) ==
  /\ \A i, j \in Positions(p) : i = j
  /\ Positions(p) # {} => held # p /\ p \notin deleted
  /\ held = p => p \notin deleted
  /\ p \in Range(log) <=> Positions(p) # {} \/ held = p \/ p \in deleted

PlaceInv ==
  /\ pc # "send" => held = Null
  /\ \A p \in Packets : PlaceOf(p)

\* Nothing has been pushed yet.
LEMMA InitPlace == Init => PlaceInv
BY SenderAssumption DEF Init, QueueInit, PlaceInv, PlaceOf, Positions, Range

\* A push puts a new packet, or a null packet, at the end of the queue.
LEMMA PushPlace ==
  ASSUME TypeOK, PlaceInv, NEW t, NEW x \in Packets \cup {Null}, Push(t, x),
         x \in Packets => x \notin Range(log)
  PROVE  PlaceInv'
<1>1. /\ queue' = Append(queue, x) /\ log' = Append(log, x)
      /\ UNCHANGED <<pc, held, deleted>>
  BY DEF Push, LockAndPush, thread
<1>2. /\ DOMAIN queue = 1 .. Len(queue) /\ Len(queue) \in Nat
      /\ DOMAIN queue' = 1 .. Len(queue) + 1
      /\ \A i \in 1 .. Len(queue) : queue'[i] = queue[i]
      /\ queue'[Len(queue) + 1] = x
  BY <1>1 DEF TypeOK
<1>3. /\ DOMAIN log = 1 .. Len(log) /\ Len(log) \in Nat
      /\ DOMAIN log' = 1 .. Len(log) + 1
      /\ \A i \in 1 .. Len(log) : log'[i] = log[i]
      /\ log'[Len(log) + 1] = x
  BY <1>1 DEF TypeOK
<1>4. Range(log') = Range(log) \cup {x}
  <2>1. 1 .. Len(log) + 1 = (1 .. Len(log)) \cup {Len(log) + 1}
    BY <1>3
  <2>. QED  BY <2>1, <1>3 DEF Range
<1>5. ASSUME NEW p \in Packets
      PROVE  PlaceOf(p)'
  <2>1. PlaceOf(p)
    BY DEF PlaceInv
  <2>2. CASE p # x
    <3>1. Positions(p)' = Positions(p)
      BY <1>2, <2>2 DEF Positions
    <3>2. p \in Range(log') <=> p \in Range(log)
      BY <1>4, <2>2
    <3>. QED  BY <2>1, <3>1, <3>2, <1>1 DEF PlaceOf
  <2>3. CASE p = x
    <3>1. Positions(p) = {} /\ held # p /\ p \notin deleted
      BY <2>1, <2>3 DEF PlaceOf
    <3>2. Positions(p)' = {Len(queue) + 1}
      BY <3>1, <1>2, <2>3 DEF Positions
    <3>3. p \in Range(log')
      BY <1>4, <2>3
    <3>. QED  BY <3>1, <3>2, <3>3, <1>1 DEF PlaceOf
  <2>. QED  BY <2>2, <2>3
<1>. QED  BY <1>1, <1>5 DEF PlaceInv

\* The packet that leaves the queue leaves it altogether, and no other moves.
LEMMA TailPlace ==
  ASSUME TypeOK, PlaceInv, queue # <<>>, queue' = Tail(queue), NEW p \in Packets
  PROVE  /\ p = Head(queue) => Positions(p) # {} /\ Positions(p)' = {}
         /\ p # Head(queue) => (Positions(p)' = {} <=> Positions(p) = {})
         /\ \A i, j \in Positions(p)' : i = j
<1>1. /\ DOMAIN queue = 1 .. Len(queue) /\ Len(queue) \in Nat /\ Len(queue) >= 1
      /\ DOMAIN queue' = 1 .. Len(queue) - 1
      /\ \A i \in 1 .. Len(queue) - 1 : queue'[i] = queue[i + 1]
      /\ Head(queue) = queue[1]
  BY DEF TypeOK
<1>2. \A i, j \in Positions(p) : i = j
  BY DEF PlaceInv, PlaceOf
<1>3. \A i \in Positions(p)' : i \in Nat /\ i >= 1 /\ i + 1 \in Positions(p)
  BY <1>1 DEF Positions
<1>4. \A i \in Positions(p) : i \in Nat /\ (i # 1 => i - 1 \in Positions(p)')
  BY <1>1 DEF Positions
<1>5. p = Head(queue) <=> 1 \in Positions(p)
  BY <1>1 DEF Positions
<1>6. \A i, j \in Positions(p)' : i = j
  <2>1. ASSUME NEW i \in Positions(p)', NEW j \in Positions(p)'
        PROVE  i = j
    <3>1. i \in Nat /\ j \in Nat /\ i + 1 = j + 1
      BY <1>2, <1>3
    <3>. QED  BY <3>1
  <2>. QED  BY <2>1
<1>7. ASSUME p = Head(queue) PROVE Positions(p)' = {}
  <2>1. SUFFICES ASSUME NEW i \in Positions(p)' PROVE FALSE
    OBVIOUS
  <2>2. i \in Nat /\ i >= 1 /\ i + 1 = 1
    BY <1>2, <1>3, <1>5, <1>7
  <2>. QED  BY <2>2
<1>8. ASSUME p # Head(queue) PROVE Positions(p)' = {} <=> Positions(p) = {}
  BY <1>3, <1>4, <1>5, <1>8
<1>. QED  BY <1>5, <1>6, <1>7, <1>8

\* A packet goes from the queue to the thread's hands, and from there or from the
\* queue to the heap.
LEMMA NextPlace ==
  ASSUME TypeOK, PhaseOwner, PlaceInv, [Next]_vars
  PROVE  PlaceInv'
<1>0. UNCHANGED <<queue, held, log, deleted>> /\ (pc' # "send" => held' = Null)
        => PlaceInv'
  BY DEF PlaceInv, PlaceOf, Positions
<1>1. CASE \E t \in Producers, p \in Packets : AddPacket(t, p)
  BY <1>1, PushPlace DEF AddPacket
<1>2. CASE (\E t \in Producers : AddNull(t)) \/ DestroyPush
  BY <1>2, PushPlace, SenderAssumption DEF AddNull, DestroyPush
<1>3. CASE \E t \in Producers : FinishAdd(t) \/ StrayAdd(t)
  BY <1>3, <1>0 DEF FinishAdd, NotifyAndUnlock, StrayAdd, queueVars, thread, PlaceInv
<1>4. CASE RaiseStop \/ LearnUdpOrigin
  BY <1>4, <1>0 DEF RaiseStop, LearnUdpOrigin, queueVars, thread, PlaceInv
<1>5. CASE LoopWait \/ LoopLapse \/ LoopCheck \/ LoopCrash
  BY <1>5, <1>0
  DEF LoopWait, TakeToken, LoopLapse, LoopCheck, LoopCrash, queueVars, thread, PlaceInv
<1>6. CASE LoopPop
  <2>1. /\ queue # <<>> /\ queue' = Tail(queue) /\ held = Null /\ held' = Head(queue)
        /\ pc' = "send" /\ UNCHANGED <<log, deleted>>
    BY <1>6 DEF LoopPop, PopFront, PlaceInv
  <2>2. ASSUME NEW p \in Packets
        PROVE  PlaceOf(p)'
    <3>1. held # p /\ PlaceOf(p)
      BY <2>1, SenderAssumption DEF PlaceInv
    <3>2. /\ p = Head(queue) => Positions(p) # {} /\ Positions(p)' = {}
          /\ p # Head(queue) => (Positions(p)' = {} <=> Positions(p) = {})
          /\ \A i, j \in Positions(p)' : i = j
      BY <2>1, TailPlace
    <3>. QED  BY <2>1, <3>1, <3>2 DEF PlaceOf
  <2>. QED  BY <2>1, <2>2 DEF PlaceInv
<1>7. CASE SendOk \/ SendFail
  <2>1. /\ held # Null /\ held' = Null /\ deleted' = deleted \cup {held}
        /\ UNCHANGED <<queue, log>>
    BY <1>7 DEF SendOk, SendFail, Dispose, queueVars
  <2>2. ASSUME NEW p \in Packets
        PROVE  PlaceOf(p)'
    <3>1. PlaceOf(p) /\ p # Null
      BY SenderAssumption DEF PlaceInv
    <3>. QED  BY <2>1, <3>1 DEF PlaceOf, Positions
  <2>. QED  BY <2>1, <2>2 DEF PlaceInv
<1>8. CASE DestroyNotify \/ DestroyJoin \/ DrainEnd
  BY <1>8, <1>0
  DEF DestroyNotify, NotifyAndUnlock, DestroyJoin, DrainEnd, queueVars, thread, PlaceInv
<1>9. CASE DrainOne
  <2>1. /\ queue # <<>> /\ queue' = Tail(queue)
        /\ deleted' = deleted \cup ({Head(queue)} \ {Null})
        /\ UNCHANGED <<pc, held, log>>
    BY <1>9 DEF DrainOne, thread, TypeOK
  <2>2. pc # "send" /\ held = Null
    BY <1>9 DEF DrainOne, PhaseOwner, Ended, PlaceInv
  <2>3. ASSUME NEW p \in Packets
        PROVE  PlaceOf(p)'
    <3>1. PlaceOf(p) /\ p # Null
      BY SenderAssumption DEF PlaceInv
    <3>2. /\ p = Head(queue) => Positions(p) # {} /\ Positions(p)' = {}
          /\ p # Head(queue) => (Positions(p)' = {} <=> Positions(p) = {})
          /\ \A i, j \in Positions(p)' : i = j
      BY <2>1, TailPlace
    <3>. QED  BY <2>1, <2>2, <3>1, <3>2 DEF PlaceOf
  <2>. QED  BY <2>1, <2>2, <2>3 DEF PlaceInv
<1>10. CASE UNCHANGED vars
  BY <1>10, <1>0 DEF vars, PlaceInv
<1>. QED
  BY NextCases, <1>1, <1>2, <1>3, <1>4, <1>5, <1>6, <1>7, <1>8, <1>9, <1>10

\* A packet that has been queued is waiting, in the hands of the thread or deleted,
\* and only one of these: nothing is freed twice, and nothing is lost.
THEOREM AlwaysOnePlace == Spec => []OnePlace
<1>1. PlaceInv => OnePlace
  <2>. SUFFICES ASSUME PlaceInv, NEW p \in Packets
       PROVE  Cardinality(Positions(p)) + (IF held = p THEN 1 ELSE 0)
                + (IF p \in deleted THEN 1 ELSE 0) = (IF p \in Range(log) THEN 1 ELSE 0)
    BY DEF OnePlace, Positions
  <2>1. PlaceOf(p)
    BY DEF PlaceInv
  <2>2. CASE Positions(p) = {}
    BY <2>1, <2>2, FS_EmptySet DEF PlaceOf
  <2>3. CASE Positions(p) # {}
    <3>1. PICK i : Positions(p) = {i}
      BY <2>1, <2>3 DEF PlaceOf
    <3>2. Cardinality(Positions(p)) = 1
      BY <3>1, FS_Singleton
    <3>. QED  BY <2>1, <2>3, <3>2 DEF PlaceOf
  <2>. QED  BY <2>2, <2>3
<1>2. Spec => []PlaceInv
  BY InitPlace, NextPlace, TypeCorrect, PhaseOwnerInvariant, PTL DEF Spec
<1>. QED  BY <1>1, <1>2, PTL
=============================================================================
