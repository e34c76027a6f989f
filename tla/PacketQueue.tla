---------------------------- MODULE PacketQueue ----------------------------
(***************************************************************************)
(* The packet queue that PacketSender, PacketHandler and Broadcaster each  *)
(* carry: a std::queue (m_PacketQueue), the mutex that guards it           *)
(* (m_PacketAdditionMutex) and the counting semaphore its consumer sleeps  *)
(* on (m_PacketQueueSemaphore).                                            *)
(*                                                                         *)
(* AddToQueue is two steps: the lock and the push, then Notify and the     *)
(* unlock, so that everything that can happen between them is seen.        *)
(***************************************************************************)
EXTENDS Naturals, Sequences

CONSTANTS Packets,    \* the packets that may be queued
          Null,       \* the null packet pointer, pushed to wake the consumer
          NoThread    \* "nobody": the value of a free mutex

VARIABLES queue,      \* m_PacketQueue
          tokens,     \* m_PacketQueueSemaphore, its count
          owner       \* m_PacketAdditionMutex, the thread holding it

queueVars == <<queue, tokens, owner>>

QueueInit ==
  /\ queue = <<>>
  /\ tokens = 0
  /\ owner = NoThread

\* AddToQueue, first half: Lock, push.
LockAndPush(t, x) ==
  /\ owner = NoThread
  /\ owner' = t
  /\ queue' = Append(queue, x)
  /\ UNCHANGED tokens

\* A mutant: Notify forgotten.
UnlockOnly(t) ==
  /\ owner = t
  /\ owner' = NoThread
  /\ UNCHANGED <<queue, tokens>>

\* AddToQueue, second half: Notify, Unlock.
NotifyAndUnlock(t) ==
  /\ owner = t
  /\ owner' = NoThread
  /\ tokens' = tokens + 1
  /\ UNCHANGED queue

\* Semaphore::Wait( INFINITE ) that got a token.
TakeToken ==
  /\ tokens > 0
  /\ tokens' = tokens - 1
  /\ UNCHANGED <<queue, owner>>

\* The consumer's critical section: Lock, front, pop, Unlock.
PopFront ==
  /\ owner = NoThread
  /\ queue # <<>>
  /\ queue' = Tail(queue)
  /\ UNCHANGED <<tokens, owner>>
=============================================================================
