-------------------------- MODULE MCClientRegistry --------------------------
(***************************************************************************)
(* The registry for TLC: up to four clients, and as many or fewer          *)
(* identifiers, so that identifiers are given out again.                   *)
(***************************************************************************)
EXTENDS ClientRegistry, TLC

CONSTANTS c1, c2, c3, c4, pub1, pub2, pub3, pub4, priv1, priv2, priv3, priv4

\* The clients that may leave, those that do not, and the ids are interchangeable.
Symmetry == Permutations(MayLeave) \cup Permutations(Clients \ MayLeave)
              \cup Permutations(PublicIds) \cup Permutations(PrivateIds)

\* The server after c1, c2 and c3 have connected, one after the other, and
\* every packet about it has been delivered: a state of the registry that the
\* longer runs start from.
Crowd == <<[pub |-> pub1, priv |-> priv1], [pub |-> pub2, priv |-> priv2],
           [pub |-> pub3, priv |-> priv3]>>

CrowdOf(c) == CASE c = c1 -> 1 [] c = c2 -> 2 [] c = c3 -> 3 [] OTHER -> 0

CrowdInbox(n) ==
  <<[op |-> "GET_ID", id |-> Crowd[n].pub]>> \o
  (CASE n = 1 -> <<[op |-> "ADD", id |-> pub2], [op |-> "ADD", id |-> pub3]>>
     [] n = 2 -> <<[op |-> "ADD", id |-> pub1], [op |-> "ADD", id |-> pub3]>>
     [] n = 3 -> <<[op |-> "ADD", id |-> pub1], [op |-> "ADD", id |-> pub2]>>)

CrowdInit ==
  /\ mutex = None
  /\ slots = Crowd /\ count = 3
  /\ pubMap = [p \in PublicIds |->
                 CASE p = pub1 -> c1 [] p = pub2 -> c2 [] p = pub3 -> c3
                   [] OTHER -> None]
  /\ privMap = [p \in PrivateIds |->
                 CASE p = priv1 -> c1 [] p = priv2 -> c2 [] p = priv3 -> c3
                   [] OTHER -> None]
  /\ ids = [c \in Clients |-> IF CrowdOf(c) > 0 THEN Crowd[CrowdOf(c)] ELSE None]
  /\ life = [c \in Clients |-> IF CrowdOf(c) > 0 THEN "alive" ELSE "none"]
  /\ kpc = [c \in Clients |-> "idle"] /\ ri = 0
  /\ lpc = "accept" /\ lclient = None /\ lids = None /\ lidx = 1 /\ ltold = None
  /\ bq = <<>>
  /\ inbox = [c \in Clients |->
                IF CrowdOf(c) > 0 THEN CrowdInbox(CrowdOf(c)) ELSE <<>>]
  /\ net = {} /\ origin = [c \in Clients |-> None]
  /\ appPtr = None
  /\ dangling = {}

CrowdSpec == CrowdInit /\ [][Next]_vars

CrowdFairSpec == CrowdSpec /\ Fairness
=============================================================================
