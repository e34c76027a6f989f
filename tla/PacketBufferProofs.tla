-------------------------- MODULE PacketBufferProofs --------------------------
(***************************************************************************)
(* Proofs about the packet buffer, for every width of the counters, every  *)
(* initial allocation and every sequence of calls: as long as every size   *)
(* is an unsigned short the counters do not wrap and AddDataStreaming      *)
(* writes at most one byte too far.                                        *)
(***************************************************************************)
EXTENDS PacketBuffer, TLAPS

\* The remainder of a division lies in the range of the divisor.
LEMMA RemainderRange ==
  ASSUME NEW a \in Nat, NEW w \in Nat, w > 0
  PROVE  a % w \in 0 .. w - 1 /\ a % w <= a
  OBVIOUS

\* A number within the range is its own remainder.
LEMMA RemainderSmall ==
  ASSUME NEW a \in Nat, NEW w \in Nat, a < w
  PROVE  a % w = a
  OBVIOUS

\* A number below twice the range is its own remainder, or exceeds it by the range.
LEMMA RemainderTwice ==
  ASSUME NEW a \in Nat, NEW w \in Nat, w > 0, a < 2 * w
  PROVE  a % w = a \/ a % w = a - w
  OBVIOUS

-----------------------------------------------------------------------------
\* An access behind the allocation is counted, as one byte or as more.
LEMMA OverCounts ==
  ASSUME overrun \in 0 .. 2, NEW end \in Nat, NEW length \in Nat
  PROVE  /\ Over(end, length) \in 0 .. 2
         /\ end <= length => Over(end, length) = overrun
         /\ end > length => Over(end, length) # 0
         /\ end <= length + 1 /\ overrun <= 1 => Over(end, length) <= 1
BY DEF Over, MaxOf, MinOf

\* The types alone.
THEOREM TypeCorrect == Spec => []TypeOK
<1> USE BufferAssumption DEF Magic
<1>1. Init => TypeOK
  <2> SUFFICES ASSUME Init PROVE TypeOK
    OBVIOUS
  <2>1. fields \in Seq(Nat) /\ Len(fields) = 0
    BY DEF Init
  <2>2. maxSize \in Ushort /\ alloc \in Ushort /\ pos \in Ushort /\ size \in Ushort
    BY DEF Init, Ushort
  <2>3. adding \in Nat /\ retrieved \in 0 .. Len(fields)
    BY <2>1 DEF Init
  <2>4. overrun \in 0 .. 2 /\ written \in Nat /\ intact \in Nat
    BY DEF Init
  <2> QED BY <2>1, <2>2, <2>3, <2>4 DEF Init, TypeOK
<1>2. TypeOK /\ [Next]_vars => TypeOK'
  <2> SUFFICES ASSUME TypeOK, [Next]_vars PROVE TypeOK'
    OBVIOUS
  <2> USE DEF TypeOK, Ushort, numbers, call, history
  <2>1. ASSUME NEW n \in 0 .. MaxData, AddData(n) PROVE TypeOK'
    BY <2>1 DEF AddData
  <2>2. CASE Double
    <3>1. 2 * maxSize \in Nat
      OBVIOUS
    <3> QED BY <2>2, <3>1, RemainderRange DEF Double
  <2>3. CASE Store
    <3>1. pos + adding \in Nat /\ size + adding \in Nat
      OBVIOUS
    <3>2. pos' \in Ushort /\ size' \in Ushort
      BY <2>3, <3>1, RemainderRange DEF Store
    <3>3. fields' \in Seq(Nat) /\ Len(fields') = Len(fields) + 1
      BY <2>3 DEF Store
    <3>4. alloc' \in Ushort /\ intact' \in Nat /\ written' \in Nat
      BY <2>3 DEF Store, MinOf
    <3>5. overrun' \in 0 .. 2
      BY <2>3, <3>1, <3>4, OverCounts DEF Store
    <3>6. retrieved' \in 0 .. Len(fields')
      BY <2>3, <3>3 DEF Store
    <3>7. /\ maxSize' \in Ushort /\ phase' \in {"open", "resizing"} /\ adding' \in Nat
          /\ resize' \in BOOLEAN /\ copied' \in BOOLEAN /\ tampered' \in BOOLEAN
          /\ oversized' \in BOOLEAN /\ origin' \in {"built", "copy", "set", "received"}
      BY <2>3 DEF Store
    <3> QED BY <3>2, <3>3, <3>4, <3>5, <3>6, <3>7
  <2>4. CASE Retrieve
    <3> DEFINE n == fields[retrieved + 1]
    <3>1. n \in Nat
      BY <2>4 DEF Retrieve
    <3>2. pos + n \in Nat
      BY <3>1
    <3>3. pos' = (pos + n) % Word /\ overrun' = Over(pos + n, alloc)
      BY <2>4 DEF Retrieve
    <3> HIDE DEF n
    <3>4. pos' \in Ushort
      BY <3>2, <3>3, RemainderRange
    <3>5. overrun' \in 0 .. 2
      BY <3>2, <3>3, OverCounts
    <3> QED BY <2>4, <3>4, <3>5 DEF Retrieve
  <2>5. CASE ResetStreamCounter
    BY <2>5 DEF ResetStreamCounter
  <2>6. CASE GetCopy
    <3>1. overrun' \in 0 .. 2
      BY <2>6, OverCounts DEF GetCopy
    <3> QED BY <2>6, <3>1 DEF GetCopy, MinOf
  <2>7. CASE Transfer
    <3>1. size + Magic \in Nat
      OBVIOUS
    <3>2. alloc' \in Ushort
      BY <2>7, <3>1, RemainderRange DEF Transfer
    <3>3. overrun' \in 0 .. 2
      BY <2>7, <3>2, OverCounts DEF Transfer
    <3> QED BY <2>7, <3>2, <3>3 DEF Transfer, MinOf
  <2>8. ASSUME NEW n \in Streams, SetFromDataStream(n) PROVE TypeOK'
    <3>1. n \in Offset .. Word - 1 /\ n - Magic \in Ushort /\ n - Offset \in Nat
      OBVIOUS
    <3>2. fields' \in Seq(Nat) /\ Len(fields') = 1 /\ retrieved' = 0
      BY <2>8, <3>1 DEF SetFromDataStream
    <3>3. /\ alloc' \in Ushort /\ size' \in Ushort /\ written' \in Nat /\ intact' \in Nat
          /\ origin' = "set" /\ copied' = FALSE /\ tampered' = FALSE
          /\ UNCHANGED <<maxSize, pos, phase, adding, resize, oversized, overrun>>
      BY <2>8, <3>1 DEF SetFromDataStream
    <3>4. retrieved' \in 0 .. Len(fields')
      BY <3>2
    <3> QED BY <3>2, <3>3, <3>4
  <2>9. CASE UNCHANGED vars
    BY <2>9 DEF vars
  <2> QED BY <2>1, <2>2, <2>3, <2>4, <2>5, <2>6, <2>7, <2>8, <2>9 DEF Next
<1> QED BY <1>1, <1>2, PTL DEF Spec

-----------------------------------------------------------------------------
\* The size that ResizeCheck is given is the size that is added, unless a T was too
\* large.
TrueSize == phase = "resizing" /\ ~oversized => adding < Word

\* It stays so.
LEMMA NextTrueSize ==
  ASSUME TypeOK, TrueSize, [Next]_vars
  PROVE  TrueSize'
<1>. USE BufferAssumption DEF TrueSize, call, history
<1>1. ASSUME NEW n \in 0 .. MaxData, AddData(n) PROVE TrueSize'
  <2>1. adding' = n /\ (n >= Word => oversized')
    BY <1>1 DEF AddData
  <2>2. n < Word \/ n >= Word
    OBVIOUS
  <2>. QED  BY <2>1, <2>2
<1>2. CASE Double \/ Store \/ UNCHANGED vars
  BY <1>2 DEF Double, Store, vars
<1>3. CASE Retrieve \/ ResetStreamCounter \/ GetCopy \/ Transfer
  BY <1>3 DEF Retrieve, ResetStreamCounter, GetCopy, Transfer
<1>4. ASSUME NEW n \in Streams, SetFromDataStream(n) PROVE TrueSize'
  BY <1>4 DEF SetFromDataStream
<1>. QED  BY <1>1, <1>2, <1>3, <1>4 DEF Next

\* What Store finds out about the size before it writes.
LEMMA StoreFits ==
  ASSUME TypeOK, TrueSize, Store, ~oversized
  PROVE  /\ size + adding \in Nat /\ size + adding < maxSize /\ size + adding < Word
         /\ size' = size + adding
<1>. USE BufferAssumption DEF TypeOK, Ushort
<1>1. adding \in Nat /\ adding < Word
  BY DEF TrueSize, Store
<1>2. Asked = adding
  BY <1>1, RemainderSmall DEF Asked
<1>3. size + adding \in Nat /\ size + adding < maxSize
  BY <1>1, <1>2 DEF Store, Full
<1>4. size + adding < Word
  BY <1>3
<1>5. size' = size + adding
  BY <1>3, <1>4, RemainderSmall DEF Store
<1>. QED  BY <1>3, <1>4, <1>5

\* The size field follows what is written.
LEMMA NextSize ==
  ASSUME TypeOK, TrueSize, SizeIsTrue, [Next]_vars
  PROVE  SizeIsTrue'
<1>. USE BufferAssumption DEF Magic, TypeOK, Ushort, SizeIsTrue, numbers, call, history
<1>1. ASSUME NEW n \in 0 .. MaxData, AddData(n) PROVE SizeIsTrue'
  BY <1>1 DEF AddData
<1>2. CASE Double
  BY <1>2 DEF Double
<1>3. CASE Store
  <2>1. written' = written + adding /\ UNCHANGED <<origin, oversized>>
    BY <1>3 DEF Store
  <2>2. ~oversized => size' = size + adding
    BY <1>3, StoreFits
  <2>. QED  BY <2>1, <2>2
<1>4. CASE Retrieve \/ ResetStreamCounter
  BY <1>4 DEF Retrieve, ResetStreamCounter
<1>5. CASE GetCopy
  BY <1>5 DEF GetCopy
<1>6. CASE Transfer
  BY <1>6 DEF Transfer
<1>7. ASSUME NEW n \in Streams, SetFromDataStream(n) PROVE SizeIsTrue'
  <2>1. n \in Nat
    OBVIOUS
  <2>. QED  BY <1>7, <2>1 DEF SetFromDataStream
<1>8. CASE UNCHANGED vars
  BY <1>8 DEF vars
<1>. QED  BY <1>1, <1>2, <1>3, <1>4, <1>5, <1>6, <1>7, <1>8 DEF Next

\* What is true of a packet that its application builds: between two calls m_MaxSize is
\* the length of the allocation, and neither the position nor anything written lies
\* beyond the size.
Built ==
  /\ phase = "open" => ~resize
  /\ origin = "built" /\ ~oversized =>
       /\ ~resize => alloc = maxSize
       /\ Offset <= written /\ pos <= written
       /\ overrun <= 1

\* The strengthening is inductive.
LEMMA NextBuilt ==
  ASSUME TypeOK, TrueSize, SizeIsTrue, Built, [Next]_vars
  PROVE  Built'
<1>. USE BufferAssumption DEF Magic, TypeOK, Ushort, Built, numbers, call, history
<1>1. ASSUME NEW n \in 0 .. MaxData, AddData(n) PROVE Built'
  BY <1>1 DEF AddData
<1>2. CASE Double
  BY <1>2 DEF Double
<1>3. CASE Store
  <2>. SUFFICES ASSUME origin = "built", ~oversized PROVE Built'
    BY <1>3 DEF Store
  <2>1. size + adding < maxSize /\ alloc' = maxSize /\ size + Magic = written
    BY <1>3, StoreFits DEF Store, SizeIsTrue
  <2>2. written' = written + adding /\ pos' = (pos + adding) % Word /\ maxSize' = maxSize
        /\ overrun' = Over(pos + adding, alloc')
    BY <1>3 DEF Store
  <2>3. pos + adding \in Nat /\ pos + adding <= written' /\ Offset <= written'
    BY <2>2
  <2>4. pos + adding <= alloc' + 1
    BY <2>1, <2>2, <2>3
  <2>5. overrun' <= 1
    BY <2>1, <2>2, <2>3, <2>4, OverCounts
  <2>6. pos' <= written'
    <3>1. pos' <= pos + adding /\ pos' \in Nat
      BY <2>2, <2>3, RemainderRange
    <3>. QED  BY <2>3, <3>1, <2>2
  <2>. QED  BY <1>3, <2>1, <2>2, <2>3, <2>5, <2>6 DEF Store
<1>4. CASE Retrieve \/ ResetStreamCounter
  BY <1>4 DEF Retrieve, ResetStreamCounter
<1>5. CASE GetCopy
  BY <1>5 DEF GetCopy
<1>6. CASE Transfer
  BY <1>6 DEF Transfer
<1>7. ASSUME NEW n \in Streams, SetFromDataStream(n) PROVE Built'
  BY <1>7 DEF SetFromDataStream
<1>8. CASE UNCHANGED vars
  BY <1>8 DEF vars
<1>. QED  BY <1>1, <1>2, <1>3, <1>4, <1>5, <1>6, <1>7, <1>8 DEF Next

\* All of them hold from the beginning.
LEMMA BuiltAlways == Spec => [](TrueSize /\ SizeIsTrue /\ Built)
<1>1. Init => TrueSize /\ SizeIsTrue /\ Built
  BY BufferAssumption DEF Init, TrueSize, SizeIsTrue, Built, Magic
<1>2. TypeOK /\ TrueSize /\ SizeIsTrue /\ Built /\ [Next]_vars
        => TrueSize' /\ SizeIsTrue' /\ Built'
  BY NextTrueSize, NextSize, NextBuilt
<1>. QED  BY <1>1, <1>2, TypeCorrect, PTL DEF Spec

\* As long as the size of every T is an unsigned short, AddDataStreaming writes at most
\* one byte behind the allocation of a packet that was not set from a stream.
THEOREM AtMostOneByte == Spec => []OneByteOver
<1>1. Built => OneByteOver
  BY DEF Built, OneByteOver
<1>. QED  BY <1>1, BuiltAlways, PTL

\* As long as the size of every T is an unsigned short, the size field is the true
\* length of what was written, less the magic number, whether the packet was built,
\* copied or set from a stream: no call wraps it.
THEOREM SizeNeverWraps == Spec => []SizeIsTrue
BY BuiltAlways, PTL

-----------------------------------------------------------------------------
(* A packet arrives as it was built.                                       *)

\* Two multiples of InitialAlloc that differ are that far apart.
LEMMA Apart ==
  ASSUME NEW j \in Int, NEW k \in Int, NEW g \in Nat, j * g < k * g
  PROVE  j * g <= k * g - g
<1>1. g > 0 /\ j < k
  OBVIOUS
<1>2. (k - j) * g = k * g - j * g
  OBVIOUS
<1>3. (k - j) * g >= g
  BY <1>1
<1>. QED  BY <1>2, <1>3

\* m_MaxSize is a multiple of INITIAL_ALLOC, however often it is doubled and wraps: it
\* is never closer to the end of the range than that.
Rounded == \E j \in Int : maxSize = j * InitialAlloc

LEMMA RoundedBound ==
  ASSUME TypeOK, Rounded
  PROVE  maxSize <= Word - InitialAlloc
<1>1. PICK j \in Int : maxSize = j * InitialAlloc
  BY DEF Rounded
<1>2. PICK k \in 1 .. Word : Word = k * InitialAlloc
  BY RoundAssumption
<1>3. j * InitialAlloc < k * InitialAlloc
  BY <1>1, <1>2, BufferAssumption DEF TypeOK, Ushort
<1>. QED  BY <1>1, <1>2, <1>3, Apart, BufferAssumption

\* Doubling in sixteen bits loses a whole range at most.
LEMMA NextRounded ==
  ASSUME TypeOK, Rounded, [Next]_vars
  PROVE  Rounded'
<1>1. CASE Double
  <2>1. PICK j \in Int : maxSize = j * InitialAlloc
    BY DEF Rounded
  <2>2. PICK k \in 1 .. Word : Word = k * InitialAlloc
    BY RoundAssumption
  <2>3. maxSize' = 2 * maxSize \/ maxSize' = 2 * maxSize - Word
    <3>1. 2 * maxSize \in Nat /\ 2 * maxSize < 2 * Word /\ Word > 0
      BY BufferAssumption DEF TypeOK, Ushort
    <3>. QED  BY <1>1, <3>1, RemainderTwice, BufferAssumption DEF Double
  <2>4. CASE maxSize' = 2 * maxSize
    <3>1. maxSize' = (2 * j) * InitialAlloc
      BY <2>1, <2>4, BufferAssumption
    <3>. QED  BY <3>1 DEF Rounded
  <2>5. CASE maxSize' = 2 * maxSize - Word
    <3>1. maxSize' = (2 * j - k) * InitialAlloc
      BY <2>1, <2>2, <2>5, BufferAssumption
    <3>2. 2 * j - k \in Int
      BY <2>1, <2>2
    <3>. QED  BY <3>1, <3>2 DEF Rounded
  <2>. QED  BY <2>3, <2>4, <2>5
<1>2. CASE GetCopy \/ Transfer
  <2>1. maxSize' = 1 * InitialAlloc
    BY <1>2, BufferAssumption DEF GetCopy, Transfer
  <2>. QED  BY <2>1 DEF Rounded
<1>3. CASE UNCHANGED maxSize
  BY <1>3 DEF Rounded
<1>4. CASE \E n \in Streams : SetFromDataStream(n)
  BY <1>4, <1>3 DEF SetFromDataStream
<1>. QED
  BY <1>1, <1>2, <1>3, <1>4
  DEF Next, AddData, Store, Retrieve, ResetStreamCounter, vars, numbers

\* Until it is transferred a packet is shorter than the range of its size field, and
\* what was added at its end, and never behind the allocation, is there.
IntactInv ==
  /\ intact <= alloc
  /\ origin # "received" =>
       /\ origin = "copy" <=> copied
       /\ ~oversized => written < Word
  /\ ~tampered /\ ~oversized /\ overrun = 0 /\ (copied => written <= InitialAlloc)
       => intact = written

\* Each operation keeps the packet, and the count of what has been written.
LEMMA NextIntact ==
  ASSUME TypeOK, TrueSize, SizeIsTrue, Rounded, IntactInv, [Next]_vars
  PROVE  IntactInv'
<1>. USE BufferAssumption DEF Magic, TypeOK, Ushort, IntactInv, numbers, call, history
<1>1. ASSUME NEW n \in 0 .. MaxData, AddData(n) PROVE IntactInv'
  BY <1>1 DEF AddData
<1>2. CASE Double
  BY <1>2 DEF Double
<1>3. CASE Store
  <2>. DEFINE kept == MinOf(intact, alloc)
              end == IF kept = pos THEN pos + adding ELSE MinOf(kept, pos)
  <2>1. /\ written' = written + adding /\ UNCHANGED <<origin, copied, oversized>>
        /\ tampered' = (tampered \/ pos # size + Magic \/ origin = "received")
        /\ overrun' = Over(pos + adding, alloc') /\ intact' = MinOf(end, alloc')
    BY <1>3 DEF Store
  <2>2. kept = intact /\ end \in Nat /\ alloc' \in Nat
    BY <1>3 DEF MinOf, Store
  <2>3. intact' <= alloc'
    BY <2>1, <2>2 DEF MinOf
  <2>4. ASSUME origin # "received", ~oversized PROVE written' < Word
    <3>1. size + adding < maxSize /\ maxSize <= Word - InitialAlloc
      BY <1>3, <2>4, StoreFits, RoundedBound
    <3>2. size + Magic = written
      BY <2>4 DEF SizeIsTrue
    <3>. QED  BY <2>1, <3>1, <3>2
  <2>5. ASSUME ~tampered', ~oversized', overrun' = 0, copied' => written' <= InitialAlloc
        PROVE  intact' = written'
    <3>1. ~tampered /\ pos = size + Magic /\ origin # "received" /\ ~oversized
      BY <2>1, <2>5, Zenon
    <3>2. copied => written <= InitialAlloc
      BY <2>1, <2>5
    <3>3. pos + adding <= alloc' /\ overrun = 0
      <4>1. pos + adding \in Nat
        OBVIOUS
      <4>. QED  BY <2>1, <2>2, <2>5, <4>1, OverCounts
    <3>4. intact = written /\ pos = written
      BY <3>1, <3>2, <3>3 DEF SizeIsTrue
    <3>5. end = written'
      BY <2>1, <2>2, <3>4
    <3>. QED  BY <2>1, <2>2, <3>3, <3>4, <3>5 DEF MinOf
  <2>. QED  BY <2>1, <2>3, <2>4, <2>5
<1>4. CASE Retrieve
  <2>1. fields[retrieved + 1] \in Nat /\ pos + fields[retrieved + 1] \in Nat
    BY <1>4 DEF Retrieve
  <2>2. overrun' = 0 => overrun = 0
    BY <1>4, <2>1, OverCounts DEF Retrieve
  <2>. QED  BY <1>4, <2>2 DEF Retrieve
<1>5. CASE ResetStreamCounter
  BY <1>5 DEF ResetStreamCounter
<1>6. CASE GetCopy
  <2>1. overrun' = 0 => overrun = 0
    <3>1. overrun' = Over(InitialAlloc, alloc) /\ alloc \in Nat /\ InitialAlloc \in Nat
      BY <1>6 DEF GetCopy
    <3>2. InitialAlloc <= alloc \/ InitialAlloc > alloc
      BY <3>1
    <3>3. overrun' = overrun \/ overrun' # 0
      BY <3>1, <3>2, OverCounts
    <3>. QED  BY <3>3
  <2>2. origin # "received" /\ origin' = "copy" /\ copied'
        /\ UNCHANGED <<written, tampered, oversized>>
        /\ intact' = MinOf(intact, InitialAlloc) /\ alloc' = InitialAlloc
    BY <1>6 DEF GetCopy
  <2>3. intact' <= alloc'
    BY <2>2 DEF MinOf
  <2>. QED  BY <2>1, <2>2, <2>3 DEF MinOf
<1>7. CASE Transfer
  <2>1. /\ alloc' = (size + Magic) % Word /\ overrun' = Over(alloc', alloc)
        /\ intact' = MinOf(MinOf(intact, alloc), alloc')
        /\ origin # "received" /\ origin' = "received"
        /\ UNCHANGED <<copied, written, tampered, oversized>>
    BY <1>7 DEF Transfer
  <2>2. size + Magic \in Nat /\ alloc' \in Nat
    BY <2>1, RemainderRange
  <2>3. intact' <= alloc'
    BY <2>1, <2>2 DEF MinOf
  <2>4. overrun' = 0 => overrun = 0
    BY <2>1, <2>2, OverCounts
  <2>5. ~oversized => alloc' = written
    BY <2>1, <2>2, RemainderSmall DEF SizeIsTrue
  <2>. QED  BY <2>1, <2>2, <2>3, <2>4, <2>5 DEF MinOf
<1>8. ASSUME NEW n \in Streams, SetFromDataStream(n) PROVE IntactInv'
  <2>1. n \in Nat /\ n < Word
    OBVIOUS
  <2>. QED  BY <1>8, <2>1 DEF SetFromDataStream
<1>9. CASE UNCHANGED vars
  BY <1>9 DEF vars
<1>. QED BY <1>1, <1>2, <1>3, <1>4, <1>5, <1>6, <1>7, <1>8, <1>9 DEF Next

\* A packet to which data was only added at the end, none of it behind the allocation and
\* none of it too large, arrives as it was built; a copy, as it is broadcast, when it is
\* not longer than INITIAL_ALLOC.
THEOREM AlwaysArrivesIntact == Spec => []ArrivesIntact
<1>1. Init => Rounded /\ IntactInv
  <2>. SUFFICES ASSUME Init PROVE Rounded /\ IntactInv
    OBVIOUS
  <2>1. maxSize = 1 * InitialAlloc
    BY BufferAssumption DEF Init
  <2>2. Rounded
    BY <2>1 DEF Rounded
  <2>. QED  BY <2>2, BufferAssumption DEF Init, IntactInv, Magic
<1>2. IntactInv => ArrivesIntact
  BY DEF IntactInv, ArrivesIntact
<1>3. TypeOK /\ TrueSize /\ SizeIsTrue /\ Rounded /\ IntactInv /\ [Next]_vars
        => Rounded' /\ IntactInv'
  BY NextRounded, NextIntact
<1>. QED  BY <1>1, <1>2, <1>3, BuiltAlways, TypeCorrect, PTL DEF Spec
=============================================================================
