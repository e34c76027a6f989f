------------------------------ MODULE ExtEvent ------------------------------
(***************************************************************************)
(* class Event of the support code, for an event created with manualReset  *)
(* TRUE and never reset: m_StopEvent and m_StopRequestedEvent.             *)
(*                                                                         *)
(* On Win32 it is a kernel object: Set releases every waiter and whoever   *)
(* comes later passes.  On Linux it is a condition variable and a flag;    *)
(* Set signals one sleeper, and Wait with a time sleeps without looking at *)
(* the flag.                                                               *)
(***************************************************************************)
EXTENDS FiniteSets

VARIABLES linux,      \* the platform of the build, Linux or else Win32; it never changes
          isSet,      \* ieo_Predicate, or the state of the kernel object
          sleeping,   \* the threads inside Wait( INFINITE )
          woken,      \* those of them that have been released
          expired     \* history: a Wait( INFINITE ) has ended by itself

\* What the operations change.
eventVars == <<isSet, sleeping, woken, expired>>

EventInit == isSet = FALSE /\ sleeping = {} /\ woken = {} /\ expired = FALSE

Set ==
  /\ isSet' = TRUE
  /\ \E released \in SUBSET sleeping :
       /\ IF linux THEN Cardinality(released) = (IF sleeping = {} THEN 0 ELSE 1)
                   ELSE released = sleeping
       /\ sleeping' = sleeping \ released
       /\ woken' = woken \cup released
  /\ UNCHANGED expired

\* Wait( INFINITE ): the thread goes to sleep, except on Win32 when the event
\* is already set.
WaitBegin(t) ==
  /\ IF ~linux /\ isSet
     THEN woken' = woken \cup {t} /\ UNCHANGED sleeping
     ELSE sleeping' = sleeping \cup {t} /\ UNCHANGED woken
  /\ UNCHANGED <<isSet, expired>>

\* The wait is over because of Set.
WaitEnd(t) ==
  /\ t \in woken
  /\ woken' = woken \ {t}
  /\ UNCHANGED <<isSet, sleeping, expired>>

\* On Linux INFINITE is 49.7 days, and a wait that ran out of time, or was
\* woken for no reason, returns like one that was signalled: the pthread
\* functions do not set errno.
WaitExpire(t) ==
  /\ linux /\ t \in sleeping
  /\ sleeping' = sleeping \ {t} /\ expired' = TRUE
  /\ UNCHANGED <<isSet, woken>>
=============================================================================
