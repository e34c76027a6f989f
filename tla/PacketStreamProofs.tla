------------------------- MODULE PacketStreamProofs -------------------------
(***************************************************************************)
(* The framing of the stream holds for packets of every number and size,   *)
(* whatever pieces they travel in and whenever the connection ends, as     *)
(* long as no header is torn.                                              *)
(***************************************************************************)
EXTENDS PacketStream, WellFoundedInduction, TLAPS

\* Of a set of numbers one is the smallest.
LEMMA Smallest ==
  ASSUME NEW T \in SUBSET Nat, T # {}
  PROVE  \E x \in T : \A y \in T : x <= y
<1>. DEFINE R == OpToRel(<, Nat)
<1>1. \A x, y \in T : <<y, x>> \in R <=> y < x
  BY DEF OpToRel
<1>2. IsWellFoundedOn(R, Nat)
  BY NatLessThanWellFounded
<1>. HIDE DEF R
<1>3. PICK x \in T : \A y \in T : <<y, x>> \notin R
  BY <1>2, WFMin
<1>4. \A y \in T : ~(y < x)
  BY <1>1, <1>3
<1>5. x \in Nat /\ \A y \in T : y \in Nat
  OBVIOUS
<1>. QED  BY <1>4, <1>5

\* Quotient and remainder.
LEMMA Division ==
  ASSUME NEW s \in Nat, NEW b \in Nat, b > 0
  PROVE  /\ s \div b \in Nat /\ s % b \in 0 .. b - 1
         /\ s = (s % b) + b * (s \div b)
OBVIOUS

LEMMA NoRemainder ==
  ASSUME NEW s \in Nat, NEW b \in Nat, s < b
  PROVE  s % b = s
<1>. DEFINE q == s \div b
<1>1. q \in Nat /\ s % b \in Nat /\ s = (s % b) + b * q
  BY Division
<1>. HIDE DEF q
<1>2. q = 0
  <2>1. SUFFICES ASSUME q >= 1 PROVE FALSE
    BY <1>1
  <2>2. b * q >= b * 1
    BY <1>1, <2>1
  <2>. QED  BY <1>1, <2>2
<1>. QED  BY <1>1, <1>2

-----------------------------------------------------------------------------
(* Places in the stream.                                                   *)

\* What the assumption says of the sizes.
LEMMA Bounds ==
  /\ N \in Nat /\ Base \in Nat /\ Base > 1 /\ Word \in Nat /\ Word > 1
  /\ \A k \in 0 .. N : Bound[k] \in Nat
  /\ \A i, j \in 0 .. N : i <= j => Bound[i] <= Bound[j]
  /\ \A k \in 1 .. N : /\ Size(k) \in Nat /\ Size(k) + 2 < Word
                       /\ Size(k) + 2 = Bound[k] - Bound[k - 1]
                       /\ HeaderSize <= Size(k) + 2
<1>1. N \in Nat /\ Base \in Nat /\ Base > 1 /\ Word \in Nat /\ Word > 1
  <2>1. Base \in Nat /\ Base > 1 /\ N \in Nat
    BY StreamAssumption
  <2>2. Base * Base >= Base * 1
    BY <2>1
  <2>. QED  BY <2>1, <2>2 DEF Word
<1>2. \A k \in 0 .. N : Bound[k] \in Nat
  BY StreamAssumption
<1>3. \A i, j \in 0 .. N : i < j => Bound[i] + 4 <= Bound[j]
  BY StreamAssumption DEF HeaderSize
<1>4. \A i, j \in 0 .. N : i <= j => Bound[i] <= Bound[j]
  BY <1>1, <1>2, <1>3
<1>5. ASSUME NEW k \in 1 .. N
      PROVE  /\ Size(k) \in Nat /\ Size(k) + 2 < Word
             /\ Size(k) + 2 = Bound[k] - Bound[k - 1]
             /\ HeaderSize <= Size(k) + 2
  <2>1. k - 1 \in 0 .. N /\ k \in 0 .. N /\ k - 1 < k
    BY <1>1
  <2>2. Bound[k - 1] + 4 <= Bound[k] /\ Bound[k] \in Nat /\ Bound[k - 1] \in Nat
    BY <1>2, <1>3, <2>1
  <2>3. Bound[k] - Bound[k - 1] < Word
    BY StreamAssumption
  <2>. QED  BY <1>1, <2>2, <2>3 DEF Size, HeaderSize
<1>. QED  BY <1>1, <1>2, <1>4, <1>5

\* Every place belongs to a packet, ...
LEMMA PlaceOf ==
  ASSUME NEW p \in Nat, p < Bound[N]
  PROVE  \E k \in 1 .. N : Bound[k - 1] <= p /\ p < Bound[k]
<1>. DEFINE T == {k \in 0 .. N : p < Bound[k]}
<1>1. T \in SUBSET Nat /\ N \in T
  BY Bounds
<1>2. PICK k \in T : \A j \in T : k <= j
  BY <1>1, Smallest
<1>3. k # 0
  BY <1>2, StreamAssumption
<1>4. k \in 1 .. N /\ k - 1 \in 0 .. N /\ k - 1 \notin T
  BY <1>2, <1>3, Bounds
<1>. QED  BY <1>2, <1>4, Bounds

\* ... and to only one.
LEMMA ByteOf ==
  ASSUME NEW k \in 1 .. N, NEW i \in Nat, i < Bound[k] - Bound[k - 1]
  PROVE  StreamByte(Bound[k - 1] + i) = PacketByte(k, i)
<1>. DEFINE p == Bound[k - 1] + i
            K == CHOOSE j \in 1 .. N : Bound[j - 1] <= p /\ p < Bound[j]
<1>1. p \in Nat /\ Bound[k - 1] <= p /\ p < Bound[k]
  BY Bounds
<1>2. K \in 1 .. N /\ Bound[K - 1] <= p /\ p < Bound[K]
  BY <1>1
<1>. HIDE DEF K
<1>3. K = k
  <2>1. CASE K < k
    <3>1. K <= k - 1 /\ Bound[K] <= Bound[k - 1]
      BY <1>2, <2>1, Bounds
    <3>. QED  BY <1>1, <1>2, <3>1, Bounds
  <2>2. CASE k < K
    <3>1. k <= K - 1 /\ Bound[k] <= Bound[K - 1]
      BY <1>2, <2>2, Bounds
    <3>. QED  BY <1>1, <1>2, <3>1, Bounds
  <2>. QED  BY <1>2, <2>1, <2>2
<1>4. p - Bound[k - 1] = i
  BY Bounds
<1>5. StreamByte(p) = PacketByte(K, p - Bound[K - 1])
  BY DEF StreamByte, K
<1>. QED  BY <1>3, <1>4, <1>5

\* The halves of a size are bytes.
LEMMA Halves ==
  ASSUME NEW k \in 1 .. N
  PROVE  /\ Size(k) % Base \in 0 .. Base - 1
         /\ Size(k) \div Base \in 0 .. Base - 1
         /\ (Size(k) % Base) + Base * (Size(k) \div Base) = Size(k)
<1>. DEFINE s == Size(k)
            q == s \div Base
            r == s % Base
<1>1. s \in Nat /\ s < Base * Base /\ Base \in Nat /\ Base > 1
  BY Bounds DEF Word
<1>2. q \in Nat /\ r \in 0 .. Base - 1 /\ s = r + Base * q
  BY <1>1, Division, SMTT(30)
<1>. HIDE DEF s, q, r
<1>3. q < Base
  <2>1. SUFFICES ASSUME q >= Base PROVE FALSE
    BY <1>1, <1>2
  <2>2. Base * q >= Base * Base
    BY <1>1, <1>2, <2>1
  <2>. QED  BY <1>1, <1>2, <2>2
<1>4. q \in 0 .. Base - 1
  BY <1>1, <1>2, <1>3
<1>. QED  BY <1>2, <1>4 DEF s, q, r

\* The stream consists of bytes.
LEMMA ByteType ==
  ASSUME NEW p \in Nat, p < Bound[N]
  PROVE  StreamByte(p) \in 0 .. Base - 1
<1>1. PICK k \in 1 .. N : Bound[k - 1] <= p /\ p < Bound[k]
  BY PlaceOf
<1>2. p - Bound[k - 1] \in Nat /\ p - Bound[k - 1] < Bound[k] - Bound[k - 1]
  BY <1>1, Bounds
<1>3. StreamByte(p) = PacketByte(k, p - Bound[k - 1])
  <2>1. Bound[k - 1] + (p - Bound[k - 1]) = p
    BY <1>1, Bounds
  <2>. QED  BY <1>2, <2>1, ByteOf
<1>. QED  BY <1>3, Halves, StreamAssumption DEF PacketByte

-----------------------------------------------------------------------------
(* The invariant.                                                          *)

\* What packet k begins with.
Header(k) == [i \in 1 .. HeaderSize |-> PacketByte(k, i - 1)]

\* No more is written than the packets begun so far.
SenderInv == written + sizeLeft <= Bound[pack]

\* What the receiver has read of a packet is behind it in the stream.
ReaderInv ==
  /\ rpc \in {"read", "put"} => total <= consumed + dataLeft
  /\ rpc = "put" => dataLeft = 0

\* Where the receiver is, as long as no header was torn: before the packet
\* after those it has handed over, or inside it, with its true size.
FrameInv ==
  ~split =>
    /\ rpc \in {"check", "peek", "judge"} => consumed = Bound[Len(cut)]
    /\ rpc = "peek" => headerLeft = HeaderSize /\ mnumber = NoHeader
    /\ rpc = "judge" => \/ mnumber = NoHeader /\ ~open
                        \/ Len(cut) < N /\ mnumber = Header(Len(cut) + 1)
    /\ rpc \in {"read", "put"} =>
         /\ Len(cut) < N
         /\ total = Bound[Len(cut) + 1] - Bound[Len(cut)]
         /\ consumed + dataLeft = Bound[Len(cut) + 1]

IInv == TypeOK /\ SenderInv /\ ReaderInv /\ FrameInv /\ FramingHolds

\* Nothing is sent and nothing handed over in the beginning.
LEMMA InitIInv == Init => IInv
<1>. SUFFICES ASSUME Init PROVE IInv
  OBVIOUS
<1>. USE DEF Init
<1>1. TypeOK
  <2>1. mnumber \in [1 .. HeaderSize -> 0 .. Base - 1]
    BY Bounds DEF NoHeader, HeaderSize
  <2>2. cut \in Seq([from : Nat, size : Nat])
    OBVIOUS
  <2>3. /\ pack \in 0 .. N /\ sizeLeft \in 0 .. Word - 1 /\ total \in 0 .. Word + 1
        /\ headerLeft \in 0 .. HeaderSize
    BY Bounds DEF HeaderSize
  <2>4. /\ spc \in {"idle", "send", "ended"} /\ open \in BOOLEAN /\ split \in BOOLEAN
        /\ rpc \in {"check", "peek", "judge", "read", "put", "ended"}
        /\ stopEvent \in {"none", "asked", "receiver"}
    BY Zenon
  <2>5. /\ written \in Nat /\ arrived \in 0 .. written /\ consumed \in 0 .. arrived
        /\ dataLeft \in 0 .. total
    OBVIOUS
  <2>. QED  BY <2>1, <2>2, <2>3, <2>4, <2>5, Zenon DEF TypeOK
<1>2. SenderInv /\ ReaderInv /\ FrameInv
  BY StreamAssumption DEF SenderInv, ReaderInv, FrameInv
<1>3. FramingHolds
  BY Bounds DEF FramingHolds, CutsWhatWasSent, StopsOnlyAtEnd
<1>. QED  BY <1>1, <1>2, <1>3 DEF IInv

-----------------------------------------------------------------------------
(* The sender and the network.                                             *)

\* They leave the receiver alone; what has been read has arrived.
LEMMA OutsideInv ==
  ASSUME IInv, Send \/ (\E n \in 1 .. written - arrived : Arrive(n)) \/ Close
  PROVE  IInv'
<1>. USE DEF IInv
<1>0. UNCHANGED <<rpc, header, data, stopEvent, history>>
  BY DEF Send, SendBegin, SendSome, SendFails, Arrive, Close
<1>1. /\ spc' \in {"idle", "send", "ended"} /\ pack' \in 0 .. N
      /\ sizeLeft' \in 0 .. Word - 1
      /\ written' \in Nat /\ arrived' \in 0 .. written' /\ consumed \in 0 .. arrived'
      /\ open' \in BOOLEAN /\ (open' => open)
      /\ written' + sizeLeft' <= Bound[pack']
  <2>. USE DEF TypeOK, SenderInv
  <2>1. CASE SendBegin
    <3>1. pack + 1 \in 1 .. N /\ pack \in 0 .. N
      BY <2>1, Bounds DEF SendBegin
    <3>2. Size(pack + 1) + 2 \in 0 .. Word - 1
      BY <3>1, Bounds, SMTT(30)
    <3>3. sizeLeft' = Size(pack + 1) + 2
      BY <2>1, <3>2, NoRemainder, Bounds, SMTT(30) DEF SendBegin
    <3>4. Size(pack + 1) + 2 = Bound[pack + 1] - Bound[pack]
      BY <3>1, Bounds
    <3>5. written <= Bound[pack] /\ Bound[pack] \in Nat /\ Bound[pack + 1] \in Nat
      BY <3>1, Bounds
    <3>6. written + sizeLeft' <= Bound[pack + 1]
      BY <3>2, <3>3, <3>4, <3>5, SMTT(30)
    <3>7. spc' = "send" /\ pack' = pack + 1 /\ UNCHANGED <<written, arrived, open>>
      BY <2>1 DEF SendBegin, wire
    <3>. QED  BY <3>1, <3>2, <3>3, <3>6, <3>7
  <2>2. ASSUME NEW n \in 1 .. sizeLeft, SendSome(n)
        PROVE  <1>1!:
    BY <2>2, Bounds DEF SendSome
  <2>3. CASE SendFails
    BY <2>3 DEF SendFails, wire
  <2>4. ASSUME NEW n \in 1 .. written - arrived, Arrive(n)
        PROVE  <1>1!:
    BY <2>4 DEF Arrive, sender
  <2>5. CASE Close
    <3>1. PICK w \in consumed .. written : written' = w /\ arrived' = Least(arrived, w)
      BY <2>5 DEF Close
    <3>2. arrived' \in consumed .. w
      BY <3>1 DEF Least
    <3>3. pack' = pack /\ sizeLeft' = sizeLeft /\ spc' = spc /\ open' = FALSE
      BY <2>5 DEF Close, sender
    <3>4. written' \in Nat /\ consumed \in Nat /\ arrived' \in consumed .. written' /\ written' <= written
      BY <3>1, <3>2
    <3>5. written' + sizeLeft' <= Bound[pack']
      BY <3>3, <3>4, Bounds
    <3>6. spc \in {"idle", "send", "ended"} /\ pack \in 0 .. N /\ sizeLeft \in 0 .. Word - 1
      OBVIOUS
    <3>7. consumed \in 0 .. arrived' /\ arrived' \in 0 .. written'
      BY <3>4
    <3>. QED  BY <3>3, <3>4, <3>5, <3>6, <3>7, Zenon
  <2>. QED  BY <2>1, <2>2, <2>3, <2>4, <2>5 DEF Send
<1>2. TypeOK'
  BY <1>0, <1>1 DEF TypeOK, header, data, history
<1>3. SenderInv' /\ ReaderInv'
  BY <1>0, <1>1 DEF SenderInv, ReaderInv, data
<1>4. FrameInv'
  BY <1>0, <1>1 DEF FrameInv, header, data, history
<1>5. FramingHolds'
  BY <1>0, <1>1 DEF FramingHolds, CutsWhatWasSent, StopsOnlyAtEnd, history
<1>. QED  BY <1>2, <1>3, <1>4, <1>5

-----------------------------------------------------------------------------
(* The receiver.                                                           *)

\* The packet the receiver is at, when something of it has arrived.
LEMMA Ahead ==
  ASSUME IInv, ~split, rpc = "peek", arrived > consumed
  PROVE  /\ Len(cut) \in Nat /\ Len(cut) < N
         /\ consumed = Bound[Len(cut)] /\ consumed \in Nat
<1>1. /\ Len(cut) \in Nat /\ Len(cut) <= N
      /\ consumed = Bound[Len(cut)] /\ consumed \in Nat
  <2>1. consumed = Bound[Len(cut)]
    BY DEF IInv, FrameInv
  <2>2. Len(cut) <= N
    BY DEF IInv, FramingHolds, CutsWhatWasSent
  <2>3. cut \in Seq([from : Nat, size : Nat]) /\ consumed \in 0 .. arrived
    BY DEF IInv, TypeOK
  <2>4. arrived \in 0 .. written /\ written \in Nat
    BY DEF IInv, TypeOK
  <2>. QED  BY <2>1, <2>2, <2>3, <2>4
<1>2. arrived <= Bound[N]
  <2>1. /\ arrived \in Nat /\ arrived <= written /\ written \in Nat /\ sizeLeft \in Nat
        /\ pack \in 0 .. N /\ written + sizeLeft <= Bound[pack]
    BY Bounds DEF IInv, TypeOK, SenderInv
  <2>2. Bound[pack] <= Bound[N] /\ Bound[pack] \in Nat /\ Bound[N] \in Nat
    BY <2>1, Bounds
  <2>. QED  BY <2>1, <2>2
<1>3. Len(cut) # N
  BY <1>1, <1>2, Bounds DEF IInv, TypeOK
<1>. QED  BY <1>1, <1>3, Bounds

\* Somebody asks for a stop; the loop begins again or ends.
LEMMA CheckInv ==
  ASSUME IInv, StopAsked \/ Check
  PROVE  IInv'
<1>. USE DEF IInv
<1>1. UNCHANGED <<sender, wire, data, history>>
  BY DEF StopAsked, Check
<1>2. TypeOK'
  <2>1. mnumber' \in [1 .. HeaderSize -> 0 .. Base - 1] /\ headerLeft' \in 0 .. HeaderSize
    BY Bounds DEF StopAsked, Check, header, TypeOK, NoHeader, HeaderSize
  <2>2. /\ rpc' \in {"check", "peek", "judge", "read", "put", "ended"}
        /\ stopEvent' \in {"none", "asked", "receiver"}
    BY DEF StopAsked, Check, TypeOK
  <2>. QED  BY <1>1, <2>1, <2>2 DEF TypeOK, sender, wire, data, history
<1>3. SenderInv' /\ ReaderInv'
  BY <1>1 DEF StopAsked, Check, SenderInv, ReaderInv, sender, wire, data
<1>4. FrameInv'
  <2>1. CASE StopAsked
    BY <2>1 DEF StopAsked, FrameInv, sender, wire, header, data, history
  <2>2. CASE Check
    BY <2>2 DEF Check, FrameInv, sender, wire, header, data, history
  <2>. QED  BY <2>1, <2>2
<1>5. FramingHolds'
  BY <1>1 DEF StopAsked, Check, FramingHolds, CutsWhatWasSent, StopsOnlyAtEnd,
              wire, history
<1>. QED  BY <1>2, <1>3, <1>4, <1>5

\* Four bytes at the beginning of a packet are its header.
LEMMA PeekInv ==
  ASSUME IInv, Peek
  PROVE  IInv'
<1>. USE DEF IInv
<1>. DEFINE n == Least(headerLeft, arrived - consumed)
            done == HeaderSize - headerLeft
<1>1. UNCHANGED <<sender, wire, data, stopEvent, cut>>
  BY DEF Peek
<1>2. /\ rpc = "peek" /\ arrived > consumed
      /\ mnumber' = [i \in 1 .. HeaderSize |->
                       IF i \in done + 1 .. done + n
                       THEN StreamByte(consumed + (i - 1 - done))
                       ELSE mnumber[i]]
      /\ headerLeft' = headerLeft - n
      /\ rpc' = IF headerLeft' = 0 THEN "judge" ELSE "peek"
      /\ split' = (split \/ n < HeaderSize)
  BY DEF Peek
<1>3. /\ n \in 0 .. headerLeft /\ n <= arrived - consumed
      /\ headerLeft \in 0 .. HeaderSize /\ done \in 0 .. HeaderSize
      /\ consumed \in Nat /\ arrived \in Nat
  BY <1>2 DEF TypeOK, Least, HeaderSize
<1>4. arrived <= Bound[N] /\ Bound[N] \in Nat
  <2>1. /\ arrived <= written /\ written \in Nat /\ sizeLeft \in Nat
        /\ pack \in 0 .. N /\ written + sizeLeft <= Bound[pack]
    BY Bounds DEF TypeOK, SenderInv
  <2>2. Bound[pack] <= Bound[N] /\ Bound[pack] \in Nat /\ Bound[N] \in Nat
    BY <2>1, Bounds
  <2>. QED  BY <1>3, <2>1, <2>2
<1>. HIDE DEF n, done
<1>5. mnumber' \in [1 .. HeaderSize -> 0 .. Base - 1]
  <2>1. ASSUME NEW i \in 1 .. HeaderSize
        PROVE  (IF i \in done + 1 .. done + n
                THEN StreamByte(consumed + (i - 1 - done))
                ELSE mnumber[i]) \in 0 .. Base - 1
    <3>1. CASE i \in done + 1 .. done + n
      <4>1. /\ consumed + (i - 1 - done) \in Nat
            /\ consumed + (i - 1 - done) < Bound[N]
        BY <1>3, <1>4, <3>1 DEF HeaderSize
      <4>. QED  BY <3>1, <4>1, ByteType
    <3>2. CASE i \notin done + 1 .. done + n
      BY <3>2 DEF TypeOK
    <3>. QED  BY <3>1, <3>2
  <2>. QED  BY <1>2, <2>1
<1>6. TypeOK'
  <2>1. headerLeft' \in 0 .. HeaderSize
    BY <1>2, <1>3 DEF HeaderSize
  <2>2. split' \in BOOLEAN /\ rpc' \in {"check", "peek", "judge", "read", "put", "ended"}
    BY <1>2 DEF TypeOK
  <2>. QED  BY <1>1, <1>5, <2>1, <2>2 DEF TypeOK, sender, wire, data
<1>7. SenderInv' /\ ReaderInv'
  BY <1>1, <1>2 DEF SenderInv, ReaderInv, sender, wire, data
<1>8. FrameInv'
  <2>1. SUFFICES ASSUME ~split' PROVE FrameInv'
    BY DEF FrameInv
  <2>2. ~split /\ n >= HeaderSize
    <3>1. ~split /\ ~(n < HeaderSize)
      BY <1>2, <2>1, Zenon
    <3>. QED  BY <1>3, <3>1 DEF HeaderSize
  <2>3. n = HeaderSize /\ headerLeft = HeaderSize /\ done = 0
    BY <1>3, <2>2 DEF HeaderSize, done
  <2>4. rpc' = "judge"
    BY <1>2, <2>3 DEF HeaderSize
  <2>5. /\ Len(cut) \in Nat /\ Len(cut) < N
        /\ consumed = Bound[Len(cut)] /\ consumed \in Nat
    BY <1>2, <2>2, Ahead
  <2>. DEFINE k == Len(cut) + 1
  <2>6. k \in 1 .. N /\ k - 1 = Len(cut)
    BY <2>5, Bounds
  <2>. HIDE DEF k
  <2>7. ASSUME NEW i \in 1 .. HeaderSize
        PROVE  mnumber'[i] = PacketByte(k, i - 1)
    <3>1. mnumber'[i] = StreamByte(consumed + (i - 1 - 0))
      BY <1>2, <2>3 DEF HeaderSize
    <3>2. i - 1 \in Nat /\ i - 1 < Bound[k] - Bound[k - 1] /\ i - 1 - 0 = i - 1
      BY <2>6, Bounds, SMTT(30) DEF HeaderSize
    <3>3. StreamByte(Bound[k - 1] + (i - 1)) = PacketByte(k, i - 1)
      BY <2>6, <3>2, ByteOf
    <3>. QED  BY <2>5, <2>6, <3>1, <3>2, <3>3
  <2>8. mnumber' = Header(k)
    BY <1>5, <2>7 DEF Header
  <2>9. /\ rpc' = "judge" /\ consumed' = Bound[Len(cut')]
        /\ Len(cut') < N /\ mnumber' = Header(Len(cut') + 1)
    BY <1>1, <2>4, <2>5, <2>8 DEF data, k
  <2>. QED  BY <2>9 DEF FrameInv
<1>9. FramingHolds'
  BY <1>1, <1>2 DEF FramingHolds, CutsWhatWasSent, StopsOnlyAtEnd, wire
<1>. QED  BY <1>6, <1>7, <1>8, <1>9

\* Nothing came: the header is still the one of no packet.
LEMMA PeekEndsInv ==
  ASSUME IInv, PeekEnds
  PROVE  IInv'
<1>. USE DEF IInv
<1>1. UNCHANGED <<sender, wire, header, data, stopEvent, history>>
  BY DEF PeekEnds
<1>2. rpc = "peek" /\ rpc' = "judge" /\ ~open
  BY DEF PeekEnds, AtEnd
<1>3. TypeOK'
  BY <1>1, <1>2 DEF TypeOK, sender, wire, header, data, history
<1>4. SenderInv' /\ ReaderInv'
  BY <1>1, <1>2 DEF SenderInv, ReaderInv, sender, wire, data
<1>5. FrameInv'
  BY <1>1, <1>2 DEF FrameInv, wire, header, data, history
<1>6. FramingHolds'
  BY <1>1 DEF FramingHolds, CutsWhatWasSent, StopsOnlyAtEnd, wire, history
<1>. QED  BY <1>3, <1>4, <1>5, <1>6

\* What the magic number and the size tell.
LEMMA JudgeInv ==
  ASSUME IInv, Judge
  PROVE  IInv'
<1>. USE DEF IInv
<1>1. UNCHANGED <<sender, wire, header, history, consumed>> /\ rpc = "judge"
  BY DEF Judge, data
<1>2. /\ mnumber[1] \in 0 .. Base - 1 /\ mnumber[2] \in 0 .. Base - 1
      /\ mnumber[3] \in 0 .. Base - 1 /\ mnumber[4] \in 0 .. Base - 1
  BY DEF TypeOK, HeaderSize
<1>3. CASE mnumber[1] # MagicA \/ mnumber[2] # MagicB
  <2>1. rpc' = "ended" /\ StopSet /\ UNCHANGED data
    BY <1>3 DEF Judge
  <2>2. stopEvent' \in {"none", "asked", "receiver"}
    BY <2>1 DEF StopSet, TypeOK
  <2>3. TypeOK'
    BY <1>1, <2>1, <2>2 DEF TypeOK, sender, wire, header, data, history
  <2>4. SenderInv' /\ ReaderInv' /\ FrameInv'
    BY <1>1, <2>1 DEF SenderInv, ReaderInv, FrameInv, sender, wire, history
  <2>5. ASSUME ~split PROVE ~open
    <3>1. \/ ~open
          \/ Len(cut) < N /\ mnumber = Header(Len(cut) + 1)
      BY <1>1, <2>5 DEF FrameInv
    <3>2. ASSUME mnumber = Header(Len(cut) + 1) PROVE FALSE
      BY <1>3, <3>2 DEF Header, HeaderSize, PacketByte
    <3>. QED  BY <3>1, <3>2
  <2>6. FramingHolds'
    BY <1>1, <2>5 DEF FramingHolds, CutsWhatWasSent, StopsOnlyAtEnd, wire, history
  <2>. QED  BY <2>3, <2>4, <2>6
<1>4. CASE mnumber[1] = MagicA /\ mnumber[2] = MagicB
  <2>1. /\ rpc' = "read" /\ stopEvent' = stopEvent
        /\ total' = mnumber[3] + Base * mnumber[4] + 2 /\ dataLeft' = total'
    BY <1>4 DEF Judge
  <2>2. total' \in 0 .. Word + 1
    <3>. DEFINE low == mnumber[3]  high == mnumber[4]
    <3>1. low \in 0 .. Base - 1 /\ high \in 0 .. Base - 1 /\ Base \in Nat
      BY <1>2, Bounds
    <3>. HIDE DEF low, high
    <3>2. /\ Base * high \in Nat /\ Base * high <= Base * (Base - 1)
          /\ Base * (Base - 1) = Base * Base - Base
      BY <3>1
    <3>3. low + Base * high + 2 \in 0 .. Word + 1
      BY <3>1, <3>2 DEF Word
    <3>. QED  BY <2>1, <3>3 DEF low, high
  <2>3. TypeOK'
    <3>1. dataLeft' \in 0 .. total'
      BY <2>1, <2>2, Bounds
    <3>. QED  BY <1>1, <2>1, <2>2, <3>1 DEF TypeOK, sender, wire, header, history
  <2>4. SenderInv' /\ ReaderInv'
    <3>1. total' <= consumed' + dataLeft'
      BY <1>1, <2>1, <2>2, <2>3, Bounds, SMTT(30) DEF TypeOK
    <3>. QED  BY <1>1, <2>1, <3>1 DEF SenderInv, ReaderInv, sender, wire
  <2>5. FrameInv'
    <3>1. SUFFICES ASSUME ~split PROVE FrameInv'
      BY <1>1 DEF FrameInv, history
    <3>2. mnumber # NoHeader
      BY <1>4, StreamAssumption DEF NoHeader
    <3>3. /\ consumed = Bound[Len(cut)] /\ Len(cut) < N
          /\ mnumber = Header(Len(cut) + 1)
      BY <1>1, <3>1, <3>2 DEF FrameInv
    <3>. DEFINE k == Len(cut) + 1
    <3>4. k \in 1 .. N /\ k - 1 = Len(cut)
      <4>1. Len(cut) \in Nat
        BY DEF TypeOK
      <4>. QED  BY <3>3, <4>1, Bounds
    <3>. HIDE DEF k
    <3>5. mnumber[3] = Size(k) % Base /\ mnumber[4] = Size(k) \div Base
      BY <3>3 DEF Header, HeaderSize, PacketByte, k
    <3>6. total' = Size(k) + 2
      BY <2>1, <3>4, <3>5, Halves
    <3>7. total' = Bound[k] - Bound[k - 1]
      BY <3>4, <3>6, Bounds
    <3>8. consumed + dataLeft' = Bound[k]
      <4>1. Bound[k] \in Nat /\ Bound[k - 1] \in Nat
        BY <3>4, Bounds
      <4>. QED  BY <2>1, <3>3, <3>4, <3>7, <4>1
    <3>. QED  BY <1>1, <2>1, <3>3, <3>4, <3>7, <3>8 DEF FrameInv, history, k
  <2>6. FramingHolds'
    BY <1>1, <2>1 DEF FramingHolds, CutsWhatWasSent, StopsOnlyAtEnd, wire, history
  <2>. QED  BY <2>3, <2>4, <2>5, <2>6
<1>. QED  BY <1>3, <1>4

\* Reading moves the place, not the end of the packet.
LEMMA ReadInv ==
  ASSUME IInv, Read
  PROVE  IInv'
<1>. USE DEF IInv
<1>. DEFINE n == Least(dataLeft, arrived - consumed)
<1>1. UNCHANGED <<sender, wire, header, total, stopEvent, history>>
  BY DEF Read
<1>2. /\ rpc = "read" /\ arrived > consumed
      /\ consumed' = consumed + n /\ dataLeft' = dataLeft - n
      /\ rpc' = IF dataLeft' = 0 THEN "put" ELSE "read"
  BY DEF Read
<1>3. /\ total \in Nat /\ dataLeft \in 0 .. total
      /\ arrived \in Nat /\ consumed \in 0 .. arrived
  BY Bounds DEF TypeOK
<1>4. n \in 0 .. dataLeft /\ n <= arrived - consumed
  BY <1>2, <1>3 DEF Least
<1>. HIDE DEF n
<1>5. /\ consumed' \in 0 .. arrived /\ dataLeft' \in 0 .. total
      /\ consumed' + dataLeft' = consumed + dataLeft
  BY <1>2, <1>3, <1>4
<1>6. rpc' \in {"read", "put"} /\ (rpc' = "put" => dataLeft' = 0)
  BY <1>2
<1>7. TypeOK'
  BY <1>1, <1>5, <1>6 DEF TypeOK, sender, wire, header, history
<1>8. SenderInv' /\ ReaderInv'
  BY <1>1, <1>2, <1>5, <1>6 DEF SenderInv, ReaderInv, sender, wire
<1>9. FrameInv'
  BY <1>1, <1>2, <1>5, <1>6 DEF FrameInv, history
<1>10. FramingHolds'
  BY <1>1 DEF FramingHolds, CutsWhatWasSent, StopsOnlyAtEnd, wire, history
<1>. QED  BY <1>7, <1>8, <1>9, <1>10

\* The connection ended in the middle of a packet.
LEMMA ReadEndsInv ==
  ASSUME IInv, ReadEnds
  PROVE  IInv'
<1>. USE DEF IInv
<1>1. UNCHANGED <<sender, wire, header, data, history>>
  BY DEF ReadEnds
<1>2. rpc' = "ended" /\ StopSet /\ ~open
  BY DEF ReadEnds, AtEnd
<1>3. stopEvent' \in {"none", "asked", "receiver"}
  BY <1>2 DEF StopSet, TypeOK
<1>4. TypeOK'
  BY <1>1, <1>2, <1>3 DEF TypeOK, sender, wire, header, data, history
<1>5. SenderInv' /\ ReaderInv' /\ FrameInv'
  BY <1>1, <1>2 DEF SenderInv, ReaderInv, FrameInv, sender, wire, history
<1>6. FramingHolds'
  BY <1>1, <1>2 DEF FramingHolds, CutsWhatWasSent, StopsOnlyAtEnd, wire, history
<1>. QED  BY <1>4, <1>5, <1>6

\* The packet handed over is the next one sent.
LEMMA PutInv ==
  ASSUME IInv, Put
  PROVE  IInv'
<1>. USE DEF IInv
<1>. DEFINE c == [from |-> consumed - total, size |-> total]
<1>1. UNCHANGED <<sender, wire, header, data, stopEvent, split>>
  BY DEF Put
<1>2. rpc = "put" /\ rpc' = "check" /\ cut' = Append(cut, c)
  BY DEF Put
<1>3. total \in Nat /\ consumed \in Nat /\ dataLeft = 0 /\ total <= consumed
  <2>1. total \in Nat /\ consumed \in Nat
    <3>1. consumed \in 0 .. arrived /\ arrived \in 0 .. written /\ written \in Nat
      BY DEF TypeOK
    <3>. QED  BY <3>1, Bounds DEF TypeOK
  <2>2. dataLeft = 0 /\ total <= consumed + dataLeft
    BY <1>2 DEF ReaderInv
  <2>. QED  BY <2>1, <2>2
<1>4. c \in [from : Nat, size : Nat]
  BY <1>3
<1>5. cut \in Seq([from : Nat, size : Nat])
  BY DEF TypeOK
<1>. HIDE DEF c
<1>6. /\ cut' \in Seq([from : Nat, size : Nat])
      /\ Len(cut) \in Nat /\ Len(cut') = Len(cut) + 1
      /\ \A k \in 1 .. Len(cut) : cut'[k] = cut[k]
      /\ cut'[Len(cut) + 1] = c
  BY <1>2, <1>4, <1>5
<1>7. TypeOK'
  BY <1>1, <1>2, <1>6 DEF TypeOK, sender, wire, header, data
<1>8. SenderInv' /\ ReaderInv'
  BY <1>1, <1>2 DEF SenderInv, ReaderInv, sender, wire
<1>9. ASSUME ~split
      PROVE  /\ Len(cut) < N /\ consumed = Bound[Len(cut) + 1]
             /\ c = [from |-> Bound[Len(cut)], size |-> Bound[Len(cut) + 1] - Bound[Len(cut)]]
  <2>1. /\ Len(cut) < N
        /\ total = Bound[Len(cut) + 1] - Bound[Len(cut)]
        /\ consumed + dataLeft = Bound[Len(cut) + 1]
    BY <1>2, <1>9 DEF FrameInv
  <2>2. Bound[Len(cut)] \in Nat /\ Bound[Len(cut) + 1] \in Nat
    BY <1>6, <2>1, Bounds
  <2>3. consumed = Bound[Len(cut) + 1] /\ consumed - total = Bound[Len(cut)]
    BY <1>3, <2>1, <2>2
  <2>. QED  BY <2>1, <2>3 DEF c
<1>10. FrameInv'
  BY <1>1, <1>2, <1>6, <1>9 DEF FrameInv, data
<1>11. CutsWhatWasSent'
  <2>1. SUFFICES ASSUME ~split, NEW k \in 1 .. Len(cut')
        PROVE  cut'[k] = [from |-> Bound[k - 1], size |-> Bound[k] - Bound[k - 1]]
    BY <1>1, <1>6, <1>9, Bounds DEF CutsWhatWasSent
  <2>2. CASE k \in 1 .. Len(cut)
    BY <1>6, <2>1, <2>2 DEF FramingHolds, CutsWhatWasSent
  <2>3. CASE k = Len(cut) + 1
    <3>1. k - 1 = Len(cut)
      BY <1>6, <2>3
    <3>. QED  BY <1>6, <1>9, <2>1, <2>3, <3>1
  <2>. QED  BY <1>6, <2>2, <2>3
<1>12. StopsOnlyAtEnd'
  BY <1>1 DEF FramingHolds, StopsOnlyAtEnd, wire
<1>. QED  BY <1>7, <1>8, <1>10, <1>11, <1>12 DEF FramingHolds

-----------------------------------------------------------------------------
LEMMA StreamInductive == Spec => []IInv
<1>1. Init => IInv
  BY InitIInv
<1>2. IInv /\ [Next]_vars => IInv'
  <2>1. SUFFICES ASSUME IInv, [Next]_vars PROVE IInv'
    OBVIOUS
  <2>2. CASE UNCHANGED vars
    BY <2>1, <2>2 DEF vars, sender, wire, header, data, history, IInv, TypeOK,
       SenderInv, ReaderInv, FrameInv, FramingHolds, CutsWhatWasSent, StopsOnlyAtEnd
  <2>3. CASE Next
    BY <2>1, <2>3, OutsideInv, CheckInv, PeekInv, PeekEndsInv, JudgeInv, ReadInv,
       ReadEndsInv, PutInv DEF Next, Receive
  <2>. QED  BY <2>1, <2>2, <2>3
<1>. QED  BY <1>1, <1>2, PTL DEF Spec

\* The counters of both ends stay within the stream, and what the receiver
\* counts down within what it asked for (PacketSender.cpp:88-106,
\* PacketReceiver.cpp:65-122), for every stream of packets.
THEOREM TypeCorrect == Spec => []TypeOK
<1>1. IInv => TypeOK
  BY DEF IInv
<1>. QED  BY <1>1, StreamInductive, PTL

\* For packets of every number and size and any pieces they arrive in: as long
\* as no header is torn, PacketReceiver (PacketReceiver.cpp:49-127) hands over
\* the packets sent, whole and in order, and gives up no connection that is
\* still open.
THEOREM FramingAlwaysHolds == Spec => []FramingHolds
<1>1. IInv => FramingHolds
  BY DEF IInv
<1>. QED  BY <1>1, StreamInductive, PTL
=============================================================================
