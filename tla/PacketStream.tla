---------------------------- MODULE PacketStream ----------------------------
(***************************************************************************)
(* Packets on a TCP connection: SendToServerTCP and SendToClientTCP write  *)
(* them one after the other, the network hands the bytes over in pieces,   *)
(* and PacketReceiver cuts the stream into packets again.  It first peeks  *)
(* at the four bytes of magic number and size, then reads size + 2 bytes.  *)
(*                                                                         *)
(* A byte is known by its place in the stream: packet k takes the places   *)
(* Bound[k-1] .. Bound[k]-1.  A packet that is not written whole is the    *)
(* last one (a failing send ends the sender: module PacketSender), so that *)
(* this is all the stream can hold.                                        *)
(***************************************************************************)
EXTENDS Integers, Sequences

CONSTANTS
  Bound,      \* Bound[k]: where packet k ends in the stream
  N,          \* how many packets are sent
  Base,       \* how many values a byte has: 256
  MagicA,     \* 'I'
  MagicB,     \* 'S'
  Filler      \* what a byte of ids and data holds

Word == Base * Base             \* unsigned short
HeaderSize == 4                 \* sizeof( unsigned short ) * 2

\* A packet is no larger than half a word (module PacketBuffer, AddReturns).
ASSUME StreamAssumption ==
  /\ N \in Nat /\ Base \in Nat /\ Base > 1
  /\ Bound \in [0 .. N -> Nat] /\ Bound[0] = 0
  /\ \A i, j \in 0 .. N : i < j => Bound[i] + HeaderSize <= Bound[j]
  /\ \A k \in 1 .. N : Bound[k] - Bound[k - 1] < Word
  /\ {MagicA, MagicB, Filler} \subseteq 0 .. Base - 1
  /\ MagicA # 0

VARIABLES
  spc,        \* the sender: idle, send, ended
  pack,       \* the packet it sends, or has sent last
  sizeLeft,   \* what is left of it
  written,    \* how much of the stream has been accepted by send()
  open,       \* the connection has not been closed or broken
  arrived,    \* how much can be received
  rpc,        \* the receiver: check, peek, judge, read, put, ended
  mnumber,    \* the header it has peeked at
  headerLeft, \* sizeLeft of the first loop
  total,      \* totalReceivableSize
  dataLeft,   \* sizeLeft of the second loop
  consumed,   \* how much of the stream it has read
  stopEvent,  \* m_StopEvent or m_StopRequestedEvent: who set it first
  cut,        \* history: the packets handed over, as [from, size]
  split       \* history: a header was peeked at in more than one piece

sender   == <<spc, pack, sizeLeft>>
wire     == <<written, open, arrived>>
header   == <<mnumber, headerLeft>>
data     == <<total, dataLeft, consumed>>
history  == <<cut, split>>
vars     == <<sender, wire, rpc, header, data, stopEvent, history>>

NoHeader == <<0, 0, 0, 0>>

Init ==
  /\ spc = "idle" /\ pack = 0 /\ sizeLeft = 0
  /\ written = 0 /\ open = TRUE /\ arrived = 0
  /\ rpc = "check" /\ mnumber = NoHeader /\ headerLeft = 0
  /\ total = 0 /\ dataLeft = 0 /\ consumed = 0
  /\ stopEvent = "none"
  /\ cut = <<>> /\ split = FALSE

Least(a, b) == IF a < b THEN a ELSE b

\* GetSize of a packet: all of it but the magic number.
Size(k) == Bound[k] - Bound[k - 1] - 2

\* What packet k has at offset i: magic number, size, then ids and data.
PacketByte(k, i) ==
  CASE i = 0 -> MagicA
    [] i = 1 -> MagicB
    [] i = 2 -> Size(k) % Base
    [] i = 3 -> Size(k) \div Base
    [] OTHER -> Filler

StreamByte(p) ==
  LET k == CHOOSE k \in 1 .. N : Bound[k - 1] <= p /\ p < Bound[k]
  IN PacketByte(k, p - Bound[k - 1])

-----------------------------------------------------------------------------
(* The sender.                                                             *)

SendBegin ==
  /\ spc = "idle" /\ pack < N
  /\ spc' = "send" /\ pack' = pack + 1
  /\ sizeLeft' = (Size(pack + 1) + 2) % Word
  /\ UNCHANGED <<wire, rpc, header, data, stopEvent, history>>

\* send() takes what it can.
SendSome(n) ==
  /\ spc = "send" /\ open /\ n \in 1 .. sizeLeft
  /\ written' = written + n
  /\ sizeLeft' = sizeLeft - n
  /\ spc' = IF sizeLeft' = 0 THEN "idle" ELSE "send"
  /\ UNCHANGED <<pack, open, arrived, rpc, header, data, stopEvent, history>>

\* send() fails, PacketSender ends.
SendFails ==
  /\ spc = "send" /\ ~open
  /\ spc' = "ended"
  /\ UNCHANGED <<pack, sizeLeft, wire, rpc, header, data, stopEvent, history>>

-----------------------------------------------------------------------------
(* The network.                                                            *)

Arrive(n) ==
  /\ n \in 1 .. written - arrived
  /\ arrived' = arrived + n
  /\ UNCHANGED <<sender, written, open, rpc, header, data, stopEvent, history>>

\* The connection is closed or breaks: the rest of what was written, from any
\* place, is lost.
Close ==
  /\ open /\ open' = FALSE
  /\ \E w \in consumed .. written :
       written' = w /\ arrived' = Least(arrived, w)
  /\ UNCHANGED <<sender, rpc, header, data, stopEvent, history>>

-----------------------------------------------------------------------------
(* The receiver.                                                           *)

StopSet == stopEvent' = IF stopEvent = "none" THEN "receiver" ELSE stopEvent

\* Somebody else stops the client or the process.
StopAsked ==
  /\ stopEvent = "none" /\ stopEvent' = "asked"
  /\ UNCHANGED <<sender, wire, rpc, header, data, history>>

Check ==
  /\ rpc = "check"
  /\ IF stopEvent # "none"
     THEN rpc' = "ended" /\ UNCHANGED header
     ELSE rpc' = "peek" /\ mnumber' = NoHeader /\ headerLeft' = HeaderSize
  /\ UNCHANGED <<sender, wire, data, stopEvent, history>>

\* recv() with MSG_PEEK copies what has arrived, up to headerLeft bytes, from
\* the place the stream is at: the bytes stay there, and a second call starts
\* with them again.
Peek ==
  /\ rpc = "peek" /\ arrived > consumed
  /\ LET n    == Least(headerLeft, arrived - consumed)
         done == HeaderSize - headerLeft
     IN /\ mnumber' = [i \in 1 .. HeaderSize |->
                         IF i \in done + 1 .. done + n
                         THEN StreamByte(consumed + (i - 1 - done))
                         ELSE mnumber[i]]
        /\ headerLeft' = headerLeft - n
        /\ rpc' = IF headerLeft' = 0 THEN "judge" ELSE "peek"
        /\ split' = (split \/ n < HeaderSize)
  /\ UNCHANGED <<sender, wire, data, stopEvent, cut>>

\* Nothing is left and nothing will come.
AtEnd == consumed = arrived /\ arrived = written /\ ~open

PeekEnds ==
  /\ rpc = "peek" /\ AtEnd
  /\ rpc' = "judge"
  /\ UNCHANGED <<sender, wire, header, data, stopEvent, history>>

\* Mutant: the two bytes of the magic number are not counted.
JudgeShort ==
  /\ rpc = "judge" /\ mnumber[1] = MagicA /\ mnumber[2] = MagicB
  /\ rpc' = "read"
  /\ total' = mnumber[3] + Base * mnumber[4] /\ dataLeft' = total'
  /\ UNCHANGED <<consumed, stopEvent, sender, wire, header, history>>

\* The magic number is tested, the sizes are calculated.
Judge ==
  /\ rpc = "judge"
  /\ IF mnumber[1] # MagicA \/ mnumber[2] # MagicB
     THEN /\ rpc' = "ended" /\ StopSet
          /\ UNCHANGED data
     ELSE /\ rpc' = "read"
          /\ total' = mnumber[3] + Base * mnumber[4] + 2
          /\ dataLeft' = total'
          /\ UNCHANGED <<consumed, stopEvent>>
  /\ UNCHANGED <<sender, wire, header, history>>

\* Mutant: recv() is asked for more than is left.
ReadAll ==
  /\ rpc = "read" /\ arrived > consumed
  /\ consumed' = arrived /\ dataLeft' = dataLeft - (arrived - consumed)
  /\ rpc' = IF dataLeft' <= 0 THEN "put" ELSE "read"
  /\ UNCHANGED <<sender, wire, header, total, stopEvent, history>>

\* recv() reads what has arrived, up to dataLeft bytes.
Read ==
  /\ rpc = "read" /\ arrived > consumed
  /\ LET n == Least(dataLeft, arrived - consumed)
     IN consumed' = consumed + n /\ dataLeft' = dataLeft - n
  /\ rpc' = IF dataLeft' = 0 THEN "put" ELSE "read"
  /\ UNCHANGED <<sender, wire, header, total, stopEvent, history>>

ReadEnds ==
  /\ rpc = "read" /\ AtEnd
  /\ rpc' = "ended" /\ StopSet
  /\ UNCHANGED <<sender, wire, header, data, history>>

\* Mutant: the loop is left after a packet.
PutAndLeave ==
  /\ rpc = "put" /\ rpc' = "ended"
  /\ cut' = Append(cut, [from |-> consumed - total, size |-> total])
  /\ UNCHANGED <<sender, wire, header, data, stopEvent, split>>

\* BorrowFromDataStream; the packet goes to the handler's queue.
Put ==
  /\ rpc = "put" /\ rpc' = "check"
  /\ cut' = Append(cut, [from |-> consumed - total, size |-> total])
  /\ UNCHANGED <<sender, wire, header, data, stopEvent, split>>

Receive == Check \/ Peek \/ PeekEnds \/ Judge \/ Read \/ ReadEnds \/ Put

-----------------------------------------------------------------------------
Send == SendBegin \/ SendFails \/ \E n \in 1 .. sizeLeft : SendSome(n)

Next ==
  \/ Send
  \/ \E n \in 1 .. written - arrived : Arrive(n)
  \/ Close \/ StopAsked
  \/ Receive

Spec == Init /\ [][Next]_vars

\* TCP delivers what was written; the receiver's thread is scheduled.
Fairness ==
  /\ WF_vars(\E n \in 1 .. written - arrived : Arrive(n))
  /\ WF_vars(Receive)

FairSpec == Spec /\ Fairness

-----------------------------------------------------------------------------
(* Properties.                                                             *)

\* The counters stay within the stream and the sizes a header can give; a
\* thread counts down only what it has asked for.
TypeOK ==
  /\ spc \in {"idle", "send", "ended"} /\ pack \in 0 .. N
  /\ sizeLeft \in 0 .. Word - 1
  /\ written \in Nat /\ arrived \in 0 .. written /\ consumed \in 0 .. arrived
  /\ open \in BOOLEAN
  /\ rpc \in {"check", "peek", "judge", "read", "put", "ended"}
  /\ mnumber \in [1 .. HeaderSize -> 0 .. Base - 1]
  /\ headerLeft \in 0 .. HeaderSize
  /\ total \in 0 .. Word + 1 /\ dataLeft \in 0 .. total
  /\ stopEvent \in {"none", "asked", "receiver"}
  /\ cut \in Seq([from : Nat, size : Nat]) /\ split \in BOOLEAN

\* While headers arrive in one piece the packets handed over are the packets
\* sent: whole, in order, none left out and none made of parts of others,
\* whatever pieces their data come in.
CutsWhatWasSent ==
  ~split =>
    /\ Len(cut) <= N
    /\ \A k \in 1 .. Len(cut) :
         cut[k] = [from |-> Bound[k - 1], size |-> Bound[k] - Bound[k - 1]]

\* While headers arrive in one piece the receiver gives a connection up only
\* when it has ended: no packet is mistaken for garbage or waited for in vain.
StopsOnlyAtEnd == (stopEvent = "receiver" /\ ~split) => ~open

\* What the magic number and the size are for: the receiver neither loses its
\* place in the stream nor takes a connection for broken that is not.
FramingHolds == CutsWhatWasSent /\ StopsOnlyAtEnd

\* A packet that was written is handed over, unless the connection ends,
\* somebody stops the client, or a header arrives in two pieces.
EventuallyCut ==
  \A k \in 1 .. N :
    (written >= Bound[k]) ~>
      (Len(cut) >= k \/ split \/ ~open \/ stopEvent = "asked")
=============================================================================
