---------------------------- MODULE PacketBuffer ----------------------------
(***************************************************************************)
(* class Packet: one packet from its construction by an application, over  *)
(* AddDataStreaming and perhaps GetCopy, to the packet that the receiver   *)
(* builds from the bytes on the wire and the handler takes apart.          *)
(*                                                                         *)
(* Sizes are unsigned shorts, modulo Word; a pointer is an offset into the *)
(* allocation.  What the bytes are is left out: `intact' says how many of  *)
(* them, counted from the start, are what the application put there.       *)
(***************************************************************************)
EXTENDS Integers, Sequences

CONSTANTS
  Word,          \* 2^16, the range of an unsigned short
  InitialAlloc,  \* INITIAL_ALLOC
  Offset,        \* m_Offset, the length of the header
  MaxFields,     \* the bound on the calls of AddDataStreaming
  MaxData,       \* the bound on the size of what is added, a size_t
  Streams        \* the lengths of the packets given to SetFromDataStream

\* The size field leaves out the magic number.
Magic == 2

ASSUME BufferAssumption ==
  /\ Word \in Nat /\ InitialAlloc \in Nat /\ Offset \in Nat /\ MaxFields \in Nat
  /\ MaxData \in Nat /\ Streams \subseteq Offset .. Word - 1
  /\ Magic < Offset /\ Offset < InitialAlloc /\ InitialAlloc < Word

\* 2^16 is a multiple of 256, and so the doubled size never comes close to it.
ASSUME RoundAssumption == \E k \in 1 .. Word : Word = k * InitialAlloc

VARIABLES
  maxSize,    \* m_MaxSize
  alloc,      \* the bytes that m_Data points to
  pos,        \* m_StreamPosition
  size,       \* *m_StreamSize
  phase,      \* open, or resizing: AddDataStreaming is at work
  adding,     \* its sizeof( T ), or sizeOfData
  resize,     \* whether ResizeCheck has doubled m_MaxSize
  origin,     \* history: built, copy (by GetCopy), set (from a stream) or received
  copied,     \* history: it is or comes from a copy
  fields,     \* history: the sizes given to AddDataStreaming, in order
  written,    \* history: the length of header and fields
  retrieved,  \* history: how many of them have been retrieved
  tampered,   \* history: data was added not at the end, or to a received packet
  oversized,  \* history: a T was added whose size is no unsigned short
  overrun,    \* history: bytes accessed behind the allocation: 0, 1 or 2 for more
  intact      \* history: the leading bytes that are the application's

numbers == <<maxSize, alloc, pos, size>>
call    == <<phase, adding, resize>>
history == <<origin, copied, fields, written, retrieved, tampered,
             oversized, overrun, intact>>
vars    == <<numbers, call, history>>

MaxOf(a, b) == IF a >= b THEN a ELSE b
MinOf(a, b) == IF a <= b THEN a ELSE b

\* An access to the bytes before `end', of an allocation of `length'.
Over(end, length) ==
  IF end <= length THEN overrun ELSE MaxOf(overrun, MinOf(2, end - length))

Init ==
  /\ maxSize = InitialAlloc /\ alloc = InitialAlloc
  /\ pos = Offset /\ size = Offset - Magic
  /\ phase = "open" /\ adding = 0 /\ resize = FALSE
  /\ origin = "built" /\ copied = FALSE
  /\ fields = <<>> /\ written = Offset /\ retrieved = 0 /\ tampered = FALSE
  /\ oversized = FALSE /\ overrun = 0 /\ intact = Offset

-----------------------------------------------------------------------------
(* AddDataStreaming: ResizeCheck, one turn of its loop a step, and then    *)
(* the copying.                                                            *)

AddData(n) ==
  /\ phase = "open" /\ Len(fields) < MaxFields
  /\ phase' = "resizing" /\ adding' = n
  /\ oversized' = (oversized \/ n >= Word)
  /\ UNCHANGED <<numbers, resize, origin, copied, fields, written, retrieved,
                 tampered, overrun, intact>>

\* ResizeCheck is given the size as an unsigned short.
Asked == adding % Word

\* Mutant: the sum is an unsigned short.
FullInAWord == (size + Asked) % Word >= maxSize

\* Mutant: the allocation may be exceeded.
FullLater == size + Asked > maxSize

Full == size + Asked >= maxSize

\* Mutant: the assignment of <<= is missing.
DoubleForgotten ==
  /\ phase = "resizing" /\ Full
  /\ resize' = TRUE
  /\ UNCHANGED <<numbers, phase, adding, history>>

\* Mutant: m_MaxSize is not an unsigned short.
DoubleWide ==
  /\ phase = "resizing" /\ Full
  /\ maxSize' = 2 * maxSize /\ resize' = TRUE
  /\ UNCHANGED <<alloc, pos, size, phase, adding, history>>

\* m_MaxSize <<= 1.
Double ==
  /\ phase = "resizing" /\ Full
  /\ maxSize' = (2 * maxSize) % Word /\ resize' = TRUE
  /\ UNCHANGED <<alloc, pos, size, phase, adding, history>>

\* The loop is over: realloc() if m_MaxSize has changed, memcpy() of the whole
\* size, and the two counters.  realloc() keeps what lay in the allocation, and
\* what lies behind an allocation belongs to others.
Store ==
  /\ phase = "resizing" /\ ~Full
  /\ alloc' = IF resize THEN maxSize ELSE alloc
  /\ pos' = (pos + adding) % Word /\ size' = (size + adding) % Word
  /\ phase' = "open" /\ adding' = 0 /\ resize' = FALSE
  /\ fields' = Append(fields, adding) /\ written' = written + adding
  /\ tampered' = (tampered \/ pos # size + Magic \/ origin = "received")
  /\ overrun' = Over(pos + adding, alloc')
  /\ LET kept == MinOf(intact, alloc) IN
       intact' = MinOf(IF kept = pos THEN pos + adding ELSE MinOf(kept, pos), alloc')
  /\ UNCHANGED <<maxSize, origin, copied, retrieved, oversized>>

\* RetrieveDataStreaming, by a handler that takes out what was put in.
Retrieve ==
  /\ phase = "open" /\ origin = "received" /\ retrieved < Len(fields)
  /\ LET n == fields[retrieved + 1] IN
       pos' = (pos + n) % Word /\ overrun' = Over(pos + n, alloc)
  /\ retrieved' = retrieved + 1
  /\ UNCHANGED <<maxSize, alloc, size, call, origin, copied, fields, written,
                 tampered, oversized, intact>>

ResetStreamCounter ==
  /\ phase = "open"
  /\ pos' = Offset /\ retrieved' = 0
  /\ UNCHANGED <<maxSize, alloc, size, call, origin, copied, fields, written,
                 tampered, oversized, overrun, intact>>

-----------------------------------------------------------------------------
\* Mutant: only the header is copied.
CopyHeader ==
  /\ phase = "open" /\ origin # "received"
  /\ maxSize' = InitialAlloc /\ alloc' = InitialAlloc /\ pos' = Offset
  /\ overrun' = Over(InitialAlloc, alloc)
  /\ intact' = MinOf(intact, Offset)
  /\ origin' = "copy" /\ copied' = TRUE /\ retrieved' = 0
  /\ UNCHANGED <<size, call, fields, written, tampered, oversized>>

\* GetCopy, as the Broadcaster uses it: from here on the packet is the copy.
\* It takes INITIAL_ALLOC bytes, whatever the size, which stays the same.
GetCopy ==
  /\ phase = "open" /\ origin # "received"
  /\ maxSize' = InitialAlloc /\ alloc' = InitialAlloc /\ pos' = Offset
  /\ overrun' = Over(InitialAlloc, alloc)
  /\ intact' = MinOf(intact, InitialAlloc)
  /\ origin' = "copy" /\ copied' = TRUE /\ retrieved' = 0
  /\ UNCHANGED <<size, call, fields, written, tampered, oversized>>

\* SetFromDataStream, with the n bytes of a packet whose size field is right:
\* m_Data takes their length, m_MaxSize and m_StreamPosition stay.
SetFromDataStream(n) ==
  /\ phase = "open"
  /\ alloc' = n /\ size' = n - Magic
  /\ origin' = "set" /\ copied' = FALSE /\ tampered' = FALSE
  /\ fields' = <<n - Offset>> /\ written' = n /\ retrieved' = 0 /\ intact' = n
  /\ UNCHANGED <<maxSize, pos, call, oversized, overrun>>

\* The sender writes GetSize() + 2 bytes, the receiver reads the size from
\* the header and then as many into a buffer of that length, which a new
\* Packet borrows.  Whatever is sent from behind the allocation is garbage.
Transfer ==
  /\ phase = "open" /\ origin # "received"
  /\ maxSize' = InitialAlloc /\ alloc' = (size + Magic) % Word /\ pos' = Offset
  /\ overrun' = Over(alloc', alloc)
  /\ intact' = MinOf(MinOf(intact, alloc), alloc')
  /\ origin' = "received" /\ retrieved' = 0
  /\ UNCHANGED <<size, call, copied, fields, written, tampered, oversized>>

-----------------------------------------------------------------------------
Next ==
  \/ \E n \in 0 .. MaxData : AddData(n)
  \/ Double \/ Store
  \/ Retrieve \/ ResetStreamCounter
  \/ GetCopy \/ Transfer \/ \E n \in Streams : SetFromDataStream(n)

Spec == Init /\ [][Next]_vars

\* A loop that can go on does.
FairSpec == Spec /\ WF_vars(Double \/ Store)

-----------------------------------------------------------------------------
(* Properties.                                                             *)

Ushort == 0 .. Word - 1

\* The variables have the types of the class, and what has been retrieved was
\* put in before.
TypeOK ==
  /\ maxSize \in Ushort /\ alloc \in Ushort /\ pos \in Ushort /\ size \in Ushort
  /\ phase \in {"open", "resizing"} /\ adding \in Nat /\ resize \in BOOLEAN
  /\ origin \in {"built", "copy", "set", "received"} /\ copied \in BOOLEAN
  /\ fields \in Seq(Nat) /\ retrieved \in 0 .. Len(fields)
  /\ tampered \in BOOLEAN /\ oversized \in BOOLEAN
  /\ written \in Nat /\ overrun \in 0 .. 2 /\ intact \in Nat

\* However an application builds a packet of its own with AddDataStreaming and
\* ResetStreamCounter, nothing is written more than one byte behind the
\* allocation, as long as the size of each T fits the unsigned short to which
\* ResizeCheck converts it.  After SetFromDataStream, which shortens m_Data and
\* keeps m_MaxSize, nothing of the kind holds.
OneByteOver == origin = "built" /\ ~oversized => overrun <= 1

\* The sixteen-bit counters never wrap, under the same condition on sizeof( T ),
\* for built packets, copies and those set from a stream: the size field, plus
\* the magic number that it leaves out, is the true length of what was written.
SizeIsTrue == origin # "received" /\ ~oversized => size + Magic = written

\* A packet to which data was only added at its end arrives as it was built,
\* through every reallocation, unless a byte of it came to lie behind the
\* allocation; a copy, as it is broadcast, only if it is also not longer than
\* INITIAL_ALLOC.
ArrivesIntact ==
  (/\ origin = "received" /\ ~tampered /\ ~oversized /\ overrun = 0
   /\ copied => written <= InitialAlloc)
    => intact = written

\* AddDataStreaming returns as long as the packet stays shorter than half the
\* range of an unsigned short.
AddReturns ==
  (phase = "resizing" /\ size + Asked < Word \div 2) ~> phase = "open"
=============================================================================
