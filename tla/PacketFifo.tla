----------------------------- MODULE PacketFifo -----------------------------
(***************************************************************************)
(* What a packet queue promises its users: items leave in the order in     *)
(* which they were accepted, none is skipped, none leaves twice.  The      *)
(* sender thread of IceNet (PacketSender) is shown to implement it.        *)
(***************************************************************************)
EXTENDS Naturals, Sequences

CONSTANT Items

VARIABLES accepted,   \* every item handed to the queue, oldest first
          delivered   \* every item the consumer has dealt with, oldest first

fifoVars == <<accepted, delivered>>

FifoInit == accepted = <<>> /\ delivered = <<>>

Accept(x) ==
  /\ accepted' = Append(accepted, x)
  /\ UNCHANGED delivered

Deliver ==
  /\ Len(delivered) < Len(accepted)
  /\ delivered' = Append(delivered, accepted[Len(delivered) + 1])
  /\ UNCHANGED accepted

FifoNext == Deliver \/ \E x \in Items : Accept(x)

FifoSpec == FifoInit /\ [][FifoNext]_fifoVars
=============================================================================
