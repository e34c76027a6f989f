------------------------ MODULE ClientDispatchProofs ------------------------
(***************************************************************************)
(* What a client process links and what it knows of the others, for every  *)
(* width of the operation codes and any number of clients.                 *)
(***************************************************************************)
EXTENDS ClientDispatch, FiniteSetTheorems, SequenceTheorems, WellFoundedInduction, TLAPS

\* What the assumptions say of the widths.
LEMMA Widths ==
  /\ Word \in Nat /\ Internal \in Nat /\ 3 < Internal /\ Internal + 1 < Word
  /\ UserCodes \subseteq 0 .. Word - 1 /\ SentCodes \subseteq UserCodes
  /\ DataStart = Word - 1 /\ Behind = DataStart + (Word - 1)
BY TableAssumption, DispatchAssumption DEF OpCodes, DataStart, Behind

\* The test in sixteen bits is the one that was meant.
LEMMA AcceptsFits ==
  ASSUME NEW c \in 0 .. Word - 1
  PROVE  Accepts(c) <=> c + Internal < Word
<1>. DEFINE s == c + Internal
            q == s \div Word
            r == s % Word
<1>1. s \in Nat /\ Internal \in Nat /\ Internal < Word /\ Word \in Nat /\ Word > 0
  BY Widths
<1>2. s < Word + Internal /\ Internal <= s
  BY <1>1
<1>. HIDE DEF s
<1>3. q \in Nat /\ r \in 0 .. Word - 1 /\ s = r + Word * q
  BY <1>1
<1>4. Accepts(c) <=> r >= Internal
  BY DEF Accepts, s
<1>. HIDE DEF q, r
<1>5. q = 0 \/ q = 1
  <2>1. SUFFICES ASSUME q >= 2 PROVE FALSE
    BY <1>3
  <2>2. Word * q >= Word * 2
    BY <1>1, <1>3, <2>1
  <2>. QED  BY <1>1, <1>2, <1>3, <2>2
<1>6. CASE q = 0
  <2>1. r = s
    BY <1>1, <1>3, <1>6
  <2>. QED  BY <1>1, <1>2, <1>3, <1>4, <2>1 DEF s
<1>7. CASE q = 1
  <2>1. r = s - Word
    BY <1>1, <1>3, <1>7
  <2>2. r < Internal /\ s >= Word
    BY <1>1, <1>2, <1>3, <2>1
  <2>. QED  BY <1>1, <1>3, <1>4, <2>2 DEF s
<1>. QED  BY <1>5, <1>6, <1>7

-----------------------------------------------------------------------------
(* The invariant.                                                          *)

\* What is linked where.
CellsInv ==
  /\ cells = [i \in Cells |-> cells[i]]
  /\ cells[0] = None
  /\ \A op \in {GET_ID, ADD_CLIENT, REMOVE_CLIENT} :
       cells[op] = IF connected THEN Library(op) ELSE None
  /\ \A c \in UserCodes :
       c + Internal < Word =>
         /\ cells[c + Internal] = IF linked[c] = None THEN None ELSE <<"function", c>>
         /\ cells[DataStart + c + Internal] = IF linked[c] = None THEN None
                                              ELSE <<linked[c], c>>
  /\ cells[Behind] # None => Word - 1 - Internal \in UserCodes
  /\ linked \in [UserCodes -> {None, "data", "changed"}]

LEMMA InitCells == Init => CellsInv
BY Widths DEF Init, TableInit, CellsInv, Cells, GET_ID, ADD_CLIENT, REMOVE_CLIENT

LEMMA LinkCells ==
  ASSUME CellsInv, NEW c \in UserCodes, Link(c)
  PROVE  CellsInv'
<1>1. /\ ~connected /\ connected' = connected
      /\ linked' = [linked EXCEPT ![c] = "data"]
      /\ LinkOpCodeFunction(c, <<"function", c>>, <<"data", c>>)
  BY DEF Link
<1>2. Accepts(c) <=> c + Internal < Word
  BY Widths, AcceptsFits
<1>3. CASE ~(c + Internal < Word)
  <2>1. cells' = cells
    BY <1>1, <1>2, <1>3 DEF LinkOpCodeFunction
  <2>. QED  BY <1>1, <1>3, <2>1 DEF CellsInv
<1>4. CASE c + Internal < Word
  <2>1. cells' = [cells EXCEPT ![c + Internal] = <<"function", c>>,
                               ![DataStart + c + Internal] = <<"data", c>>]
    BY <1>1, <1>2, <1>4 DEF LinkOpCodeFunction
  <2>2. \A i \in Cells : cells'[i] = IF i = DataStart + c + Internal THEN <<"data", c>>
                                     ELSE IF i = c + Internal THEN <<"function", c>>
                                     ELSE cells[i]
    BY <2>1, Widths, <1>4 DEF CellsInv, Cells
  <2>3. cells' = [i \in Cells |-> cells'[i]]
    BY <2>1 DEF CellsInv
  <2>4. cells'[0] = None
    <3>1. 0 \in Cells /\ 0 # c + Internal /\ 0 # DataStart + c + Internal
      BY Widths DEF Cells
    <3>. QED  BY <2>2, <3>1 DEF CellsInv
  <2>5. \A op \in {GET_ID, ADD_CLIENT, REMOVE_CLIENT} : cells'[op] = cells[op]
    BY <2>2, Widths DEF Cells, GET_ID, ADD_CLIENT, REMOVE_CLIENT
  <2>6. ASSUME NEW d \in UserCodes, d + Internal < Word
        PROVE  /\ cells'[d + Internal] = IF linked'[d] = None THEN None ELSE <<"function", d>>
               /\ cells'[DataStart + d + Internal] = IF linked'[d] = None THEN None
                                                     ELSE <<linked'[d], d>>
    <3>1. d \in Nat /\ c \in Nat /\ d + Internal \in Cells /\ DataStart + d + Internal \in Cells
      BY Widths, <2>6 DEF Cells
    <3>2. CASE d = c
      <4>1. cells'[d + Internal] = <<"function", c>> /\ cells'[DataStart + d + Internal] = <<"data", c>>
        BY <2>2, <3>1, <3>2, Widths
      <4>2. linked'[d] = "data" /\ None # "data"
        BY <1>1, <3>2, DispatchAssumption DEF CellsInv
      <4>. QED  BY <3>2, <4>1, <4>2
    <3>3. CASE d # c
      <4>1. cells'[d + Internal] = cells[d + Internal]
        BY <2>2, <3>1, <3>3, <2>6, <1>4, Widths
      <4>2. cells'[DataStart + d + Internal] = cells[DataStart + d + Internal]
        BY <2>2, <3>1, <3>3, <2>6, <1>4, Widths
      <4>3. linked'[d] = linked[d]
        BY <1>1, <3>3 DEF CellsInv
      <4>. QED  BY <2>6, <4>1, <4>2, <4>3 DEF CellsInv
    <3>. QED  BY <3>2, <3>3
  <2>7. cells'[Behind] # None => Word - 1 - Internal \in UserCodes
    <3>1. CASE Behind = DataStart + c + Internal
      <4>1. c = Word - 1 - Internal
        BY <3>1, Widths
      <4>. QED  BY <4>1
    <3>2. CASE Behind # DataStart + c + Internal
      <4>1. Behind # c + Internal /\ Behind \in Cells
        BY <1>4, Widths DEF Cells
      <4>. QED  BY <2>2, <3>2, <4>1 DEF CellsInv
    <3>. QED  BY <3>1, <3>2
  <2>8. linked' \in [UserCodes -> {None, "data", "changed"}]
    BY <1>1 DEF CellsInv
  <2>. QED  BY <1>1, <2>3, <2>4, <2>5, <2>6, <2>7, <2>8 DEF CellsInv
<1>. QED  BY <1>3, <1>4

LEMMA ChangeCells ==
  ASSUME CellsInv, NEW c \in UserCodes, ChangeData(c)
  PROVE  CellsInv'
<1>1. /\ ~connected /\ connected' = connected /\ linked[c] = "data"
      /\ linked' = [linked EXCEPT ![c] = "changed"]
      /\ SetClientData(c, <<"changed", c>>)
  BY DEF ChangeData
<1>2. Accepts(c) <=> c + Internal < Word
  BY Widths, AcceptsFits
<1>3. CASE ~(c + Internal < Word)
  <2>1. cells' = cells
    BY <1>1, <1>2, <1>3 DEF SetClientData
  <2>. QED  BY <1>1, <1>3, <2>1 DEF CellsInv
<1>4. CASE c + Internal < Word
  <2>1. cells' = [cells EXCEPT ![DataStart + c + Internal] = <<"changed", c>>]
    BY <1>1, <1>2, <1>4 DEF SetClientData
  <2>2. \A i \in Cells : cells'[i] = IF i = DataStart + c + Internal THEN <<"changed", c>>
                                     ELSE cells[i]
    BY <2>1, Widths, <1>4 DEF CellsInv, Cells
  <2>3. cells' = [i \in Cells |-> cells'[i]]
    BY <2>1 DEF CellsInv
  <2>4. cells'[0] = None
    <3>1. 0 \in Cells /\ 0 # c + Internal /\ 0 # DataStart + c + Internal
      BY Widths DEF Cells
    <3>. QED  BY <2>2, <3>1 DEF CellsInv
  <2>5. \A op \in {GET_ID, ADD_CLIENT, REMOVE_CLIENT} : cells'[op] = cells[op]
    BY <2>2, Widths DEF Cells, GET_ID, ADD_CLIENT, REMOVE_CLIENT
  <2>6. ASSUME NEW d \in UserCodes, d + Internal < Word
        PROVE  /\ cells'[d + Internal] = IF linked'[d] = None THEN None ELSE <<"function", d>>
               /\ cells'[DataStart + d + Internal] = IF linked'[d] = None THEN None
                                                     ELSE <<linked'[d], d>>
    <3>1. d \in Nat /\ c \in Nat /\ d + Internal \in Cells /\ DataStart + d + Internal \in Cells
      BY Widths, <2>6 DEF Cells
    <3>2. cells'[d + Internal] = cells[d + Internal]
      BY <2>2, <3>1, <2>6, <1>4, Widths
    <3>3. CASE d = c
      <4>1. cells'[DataStart + d + Internal] = <<"changed", c>>
        BY <2>2, <3>1, <3>3, Widths
      <4>2. linked'[d] = "changed" /\ None # "changed" /\ linked[d] # None
        BY <1>1, <3>3, DispatchAssumption DEF CellsInv
      <4>. QED  BY <2>6, <3>2, <3>3, <4>1, <4>2 DEF CellsInv
    <3>4. CASE d # c
      <4>1. cells'[DataStart + d + Internal] = cells[DataStart + d + Internal]
        BY <2>2, <3>1, <3>4, <2>6, <1>4, Widths
      <4>2. linked'[d] = linked[d]
        BY <1>1, <3>4 DEF CellsInv
      <4>. QED  BY <2>6, <3>2, <4>1, <4>2 DEF CellsInv
    <3>. QED  BY <3>3, <3>4
  <2>7. cells'[Behind] # None => Word - 1 - Internal \in UserCodes
    <3>1. CASE Behind = DataStart + c + Internal
      <4>1. c = Word - 1 - Internal
        BY <3>1, Widths
      <4>. QED  BY <4>1
    <3>2. CASE Behind # DataStart + c + Internal
      <4>1. Behind \in Cells
        BY Widths DEF Cells
      <4>. QED  BY <2>2, <3>2, <4>1 DEF CellsInv
    <3>. QED  BY <3>1, <3>2
  <2>8. linked' \in [UserCodes -> {None, "data", "changed"}]
    BY <1>1 DEF CellsInv
  <2>. QED  BY <1>1, <2>3, <2>4, <2>5, <2>6, <2>7, <2>8 DEF CellsInv
<1>. QED  BY <1>3, <1>4

LEMMA ConnectCells ==
  ASSUME CellsInv, Connect
  PROVE  CellsInv'
<1>. DEFINE L == {GET_ID, ADD_CLIENT, REMOVE_CLIENT}
<1>1. /\ connected' = TRUE /\ linked' = linked
      /\ cells' = [i \in Cells |-> IF i \in L THEN Library(i) ELSE cells[i]]
  BY DEF Connect, LinkClientFunctions
<1>2. \A i \in L : i \in Cells /\ 0 < i /\ i < Internal
  BY Widths DEF Cells, GET_ID, ADD_CLIENT, REMOVE_CLIENT
<1>3. \A i \in L : cells'[i] = Library(i)
  BY <1>1, <1>2
<1>4. \A i \in Cells : i = 0 \/ i >= Internal => cells'[i] = cells[i]
  <2>1. SUFFICES ASSUME NEW i \in Cells, i = 0 \/ i >= Internal PROVE i \notin L
    BY <1>1
  <2>. QED  BY <1>2, <2>1, Widths DEF GET_ID, ADD_CLIENT, REMOVE_CLIENT
<1>5. \A c \in UserCodes :
        c + Internal < Word =>
          /\ cells'[c + Internal] = cells[c + Internal]
          /\ cells'[DataStart + c + Internal] = cells[DataStart + c + Internal]
  BY <1>4, Widths DEF Cells
<1>6. cells'[0] = cells[0] /\ cells'[Behind] = cells[Behind]
  BY <1>4, Widths DEF Cells
<1>. QED  BY <1>1, <1>3, <1>5, <1>6 DEF CellsInv

\* Nothing is linked later.
LEMMA NextCells ==
  ASSUME CellsInv, [Next]_vars
  PROVE  CellsInv'
<1>1. CASE \E c \in UserCodes : Link(c) \/ ChangeData(c)
  BY <1>1, LinkCells, ChangeCells
<1>2. CASE Connect
  BY <1>2, ConnectCells
<1>3. CASE UNCHANGED <<connected, tableVars>>
  BY <1>3 DEF CellsInv, tableVars
<1>4. \/ Connect \/ \E c \in UserCodes : Link(c) \/ ChangeData(c)
      \/ UNCHANGED <<connected, tableVars>>
  BY DEF Next, Step, vars, ReceiveTCP, ReceiveUDP, PutUDP, EndUDP, HandlePackets, Handle,
     HandlePacketsNext, LoopNext, Call, Lock, Work, Disconnect, SetStop, WakeHandler,
     JoinNetworkThread, DeleteNetworkControl
<1>. QED  BY <1>1, <1>2, <1>3, <1>4

\* A code reaches, in a process that has connected, what it was linked with, and
\* a refused one nothing, for every width of the codes and every choice of codes
\* (OpCodeHandler.cpp:48-76, Packet.cpp:79-83): the cast to unsigned short is
\* enough, except for the cell behind the object.
THEOREM LinksAlwaysHold == Spec => []LinksHold
<1>1. Init => CellsInv
  BY InitCells
<1>2. CellsInv /\ [Next]_vars => CellsInv'
  BY NextCells
<1>3. CellsInv => LinksHold
  <2>1. SUFFICES ASSUME CellsInv, connected PROVE LinksHold
    BY DEF LinksHold
  <2>2. ASSUME NEW c \in UserCodes
        PROVE  IF Accepts(c) /\ linked[c] # None
               THEN FunctionOf(OpCodeOf(c)) = <<"function", c>> /\ DataOf(OpCodeOf(c)) = <<linked[c], c>>
               ELSE FunctionOf(OpCodeOf(c)) = None
    <3>1. Accepts(c) <=> c + Internal < Word
      BY Widths, AcceptsFits
    <3>2. CASE Accepts(c)
      <4>1. OpCodeOf(c) = c + Internal /\ DataStart + (c + Internal) = DataStart + c + Internal
        BY <3>2, Widths DEF OpCodeOf
      <4>. QED  BY <2>1, <3>1, <3>2, <4>1 DEF CellsInv, FunctionOf, DataOf
    <3>3. CASE ~Accepts(c)
      <4>1. OpCodeOf(c) = 0
        BY <3>3 DEF OpCodeOf
      <4>. QED  BY <2>1, <3>3, <4>1 DEF CellsInv, FunctionOf
    <3>. QED  BY <3>2, <3>3
  <2>3. \A op \in {GET_ID, ADD_CLIENT, REMOVE_CLIENT} : FunctionOf(op) = Library(op)
    BY <2>1 DEF CellsInv, FunctionOf
  <2>4. cells[Behind] # None => cells[Behind][2] = Word - 1 - Internal
    <3>. DEFINE c == Word - 1 - Internal
    <3>1. SUFFICES ASSUME cells[Behind] # None PROVE cells[Behind][2] = c
      OBVIOUS
    <3>2. c \in UserCodes /\ c + Internal < Word /\ DataStart + c + Internal = Behind
      BY <2>1, <3>1, Widths DEF CellsInv
    <3>3. cells[Behind] = <<linked[c], c>>
      BY <2>1, <3>1, <3>2 DEF CellsInv
    <3>. QED  BY <3>3
  <2>. QED  BY <2>2, <2>3, <2>4 DEF LinksHold
<1>. QED  BY <1>1, <1>2, <1>3, PTL DEF Spec

-----------------------------------------------------------------------------
(* The proxies.                                                            *)

ProxyTypes ==
  /\ made \in Nat /\ proxyIds \in Seq(Ids) /\ proxyMap \in [Ids -> 0 .. made]
  /\ freed \in [1 .. made -> Nat]
  /\ told \in [Ids -> {"none", "added", "removed"}] /\ toldTwice \in SUBSET Ids
  /\ packet \in Messages \cup {NullPacket} /\ queue \in Seq(Messages \cup {NullPacket})

\* Whoever has a proxy is in the vector, and nobody has that of another.
Kept ==
  /\ \A id \in Ids : proxyMap[id] # NullProxy => id \in Range(proxyIds)
  /\ \A id, jd \in Ids : proxyMap[id] = proxyMap[jd] /\ id # jd => proxyMap[id] = NullProxy

\* Once NetworkControl has been deleted no function of the library runs.
Gone ==
  /\ dpc \in {"idle", "wakeHandler", "join", "delete", "done"}
  /\ dpc \in {"join", "delete", "done"} => ~sync
  /\ dpc # "idle" => connected
  /\ dpc = "done" /\ fault = "none" => ~InLibrary

ProxyInv == ProxyTypes /\ CellsInv /\ Kept /\ Gone /\ MapTellsLast /\ ToldOnceIsKeptOnce

LEMMA InitProxy == Init => ProxyInv
<1>. SUFFICES ASSUME Init PROVE ProxyInv
  OBVIOUS
<1>1. CellsInv
  BY InitCells
<1>2. proxyIds = <<>> /\ proxyMap = [i \in Ids |-> 0] /\ made = 0 /\ freed = <<>>
  BY DEF Init, ProxyInit, NullProxy
<1>3. /\ queue = <<>> /\ packet = NullPacket /\ told = [i \in Ids |-> "none"]
      /\ toldTwice = {} /\ dpc = "idle" /\ hpc = "idle" /\ fault = "none"
  BY DEF Init
<1>4. freed \in [1 .. made -> Nat]
  BY <1>2
<1>5. ProxyTypes
  BY <1>2, <1>3, <1>4 DEF ProxyTypes
<1>6. Kept /\ MapTellsLast
  BY <1>2, <1>3 DEF Kept, MapTellsLast, NullProxy
<1>7. Gone
  BY <1>3, Zenon DEF Gone, InLibrary
<1>8. ToldOnceIsKeptOnce
  <2>1. IsInjective(proxyIds) /\ Range(proxyIds) = {}
    BY <1>2 DEF IsInjective, Range
  <2>2. {id \in Ids : proxyMap[id] # NullProxy} = {}
    BY <1>2 DEF NullProxy
  <2>3. 1 .. made = {}
    BY <1>2
  <2>. QED  BY <2>1, <2>2, <2>3 DEF ToldOnceIsKeptOnce
<1>. QED  BY <1>1, <1>5, <1>6, <1>7, <1>8 DEF ProxyInv

\* The messages of the library carry an id.
LEMMA Carries ==
  ASSUME NEW m \in Messages \cup {NullPacket}, m.op \in {ADD_CLIENT, REMOVE_CLIENT}
  PROVE  m.id \in Ids
<1>1. \A c \in SentCodes : OpCodeOf(c) = 0 \/ OpCodeOf(c) > 3
  BY Widths DEF OpCodeOf
<1>2. m \notin UserMessages
  BY <1>1 DEF UserMessages, Message, ADD_CLIENT, REMOVE_CLIENT
<1>3. m # NullPacket
  BY DEF NullPacket, ADD_CLIENT, REMOVE_CLIENT
<1>. QED  BY <1>2, <1>3 DEF Messages, Message

\* What each message is handled by.
LEMMA Reaches ==
  ASSUME CellsInv, NEW m \in Messages \cup {NullPacket}, NEW op \in {ADD_CLIENT, REMOVE_CLIENT},
         FunctionOf(m.op) = Library(op)
  PROVE  m.op = op
<1>0. op \in OpCodes /\ None # Library(op)
  BY Widths, DispatchAssumption DEF OpCodes, ADD_CLIENT, REMOVE_CLIENT
<1>1. CASE m.op = 0
  BY <1>0, <1>1 DEF FunctionOf, CellsInv
<1>2. CASE m.op \in {ADD_CLIENT, REMOVE_CLIENT}
  BY <1>0, <1>2 DEF FunctionOf, CellsInv, Library
<1>3. ASSUME NEW c \in UserCodes, c + Internal < Word, m.op = c + Internal
      PROVE  FALSE
  <2>1. cells[c + Internal] \in {None, <<"function", c>>}
    BY <1>3 DEF CellsInv
  <2>. QED  BY <1>0, <1>3, <2>1 DEF FunctionOf, Library
<1>4. \/ m.op = 0 \/ m.op \in {ADD_CLIENT, REMOVE_CLIENT}
      \/ \E c \in UserCodes : c + Internal < Word /\ m.op = c + Internal
  <2>1. ASSUME NEW c \in SentCodes
        PROVE  OpCodeOf(c) = 0 \/ (c + Internal < Word /\ OpCodeOf(c) = c + Internal)
    BY Widths, AcceptsFits DEF OpCodeOf
  <2>2. CASE m \in UserMessages
    BY <2>1, <2>2, Widths DEF UserMessages, Message
  <2>3. CASE m \notin UserMessages
    BY <2>3 DEF Messages, Message, NullPacket
  <2>. QED  BY <2>2, <2>3
<1>. QED  BY <1>1, <1>2, <1>3, <1>4

\* Of a set of numbers one is the smallest.
LEMMA Smallest ==
  ASSUME NEW T \in SUBSET Nat, T # {}
  PROVE  \E x \in T : \A y \in T : x <= y
<1>. DEFINE R == OpToRel(<, Nat)
<1>1. \A x, y \in T : <<y, x>> \in R <=> y < x
  BY DEF OpToRel
<1>2. IsWellFoundedOn(R, Nat)
  BY NatLessThanWellFounded
<1>. HIDE DEF R
<1>3. PICK x \in T : \A y \in T : <<y, x>> \notin R
  BY <1>2, WFMin
<1>4. \A y \in T : ~(y < x)
  BY <1>1, <1>3
<1>5. x \in Nat /\ \A y \in T : y \in Nat
  OBVIOUS
<1>. QED  BY <1>4, <1>5

\* An element is taken out of a vector by moving the last one into its place.
Without(s, i) == SubSeq([s EXCEPT ![i] = s[Len(s)]], 1, Len(s) - 1)

LEMMA TakenOut ==
  ASSUME NEW s \in Seq(Ids), NEW i \in 1 .. Len(s)
  PROVE  /\ Without(s, i) \in Seq(Ids) /\ Len(Without(s, i)) = Len(s) - 1
         /\ \A x \in Range(s) : x # s[i] => x \in Range(Without(s, i))
         /\ Range(Without(s, i)) \subseteq Range(s)
         /\ IsInjective(s) => IsInjective(Without(s, i)) /\ s[i] \notin Range(Without(s, i))
<1>. DEFINE t == Without(s, i)
            u == [s EXCEPT ![i] = s[Len(s)]]
            n == Len(s)
<1>1. n \in Nat /\ n >= 1 /\ s[n] \in Ids
  BY ElementOfSeq
<1>2. u \in Seq(Ids) /\ Len(u) = n /\ \A j \in 1 .. n : u[j] = IF j = i THEN s[n] ELSE s[j]
  BY <1>1, ExceptSeq
<1>. HIDE DEF u
<1>3. t = SubSeq(u, 1, n - 1)
  BY DEF u, Without
<1>. HIDE DEF t
<1>4. \A j \in 1 .. n - 1 : u[j] \in Ids
  BY <1>1, <1>2, ElementOfSeq
<1>5. t \in Seq(Ids) /\ Len(t) = n - 1 /\ \A j \in 1 .. n - 1 : t[j] = u[j]
  <2>1. n - 1 \in Int /\ 1 \in Int
    BY <1>1
  <2>2. /\ t \in Seq(Ids) /\ Len(t) = IF 1 <= n - 1 THEN n - 1 - 1 + 1 ELSE 0
        /\ \A j \in 1 .. n - 1 - 1 + 1 : t[j] = u[1 + j - 1]
    BY <1>3, <1>4, <2>1, SubSeqProperties
  <2>. HIDE DEF n
  <2>3. (n - 1) - 1 + 1 = n - 1 /\ (1 > n - 1 => n - 1 = 0)
    BY <1>1
  <2>4. \A j \in 1 .. n - 1 : j \in 1 .. n - 1 - 1 + 1 /\ 1 + j - 1 = j
    BY <1>1
  <2>5. Len(t) = n - 1
    BY <1>1, <2>2, <2>3
  <2>. QED  BY <2>2, <2>4, <2>5
<1>6. \A j \in 1 .. n - 1 : t[j] = IF j = i THEN s[n] ELSE s[j]
  BY <1>1, <1>2, <1>5
<1>7. DOMAIN s = 1 .. n /\ DOMAIN t = 1 .. n - 1
  BY <1>5, LenProperties
<1>8. ASSUME NEW x \in Range(s), x # s[i] PROVE x \in Range(t)
  <2>1. PICK j \in 1 .. n : s[j] = x
    BY <1>7 DEF Range
  <2>2. j # i
    BY <1>8, <2>1
  <2>3. CASE j = n
    <3>1. i \in 1 .. n - 1 /\ t[i] = x
      BY <1>1, <1>6, <2>1, <2>2, <2>3
    <3>. QED  BY <1>7, <3>1 DEF Range
  <2>4. CASE j # n
    <3>1. j \in 1 .. n - 1 /\ t[j] = x
      BY <1>1, <1>6, <2>1, <2>2, <2>4
    <3>. QED  BY <1>7, <3>1 DEF Range
  <2>. QED  BY <2>3, <2>4
<1>9. Range(t) \subseteq Range(s)
  BY <1>1, <1>6, <1>7 DEF Range
<1>10. ASSUME IsInjective(s) PROVE IsInjective(t) /\ s[i] \notin Range(t)
  <2>1. \A j, k \in 1 .. n : s[j] = s[k] => j = k
    BY <1>7, <1>10 DEF IsInjective
  <2>2. ASSUME NEW j \in 1 .. n - 1, NEW k \in 1 .. n - 1, t[j] = t[k] PROVE j = k
    BY <1>1, <1>6, <2>1, <2>2
  <2>3. ASSUME NEW j \in 1 .. n - 1, t[j] = s[i] PROVE FALSE
    BY <1>1, <1>6, <2>1, <2>3
  <2>. QED  BY <1>7, <2>2, <2>3 DEF IsInjective, Range
<1>. QED  BY <1>5, <1>8, <1>9, <1>10 DEF t

LEMMA NextGone ==
  ASSUME ProxyInv, Next
  PROVE  Gone'
<1>. USE DEF ProxyInv
<1>1. fault = "none" /\ Step
  BY DEF Next
<1>2. dpc' \in {"idle", "wakeHandler", "join", "delete", "done"} /\ (dpc' # "idle" => connected')
  BY <1>1 DEF Gone, Step, Connect, Link, ChangeData, ReceiveTCP, ReceiveUDP, PutUDP, EndUDP,
     HandlePackets, Handle, HandlePacketsNext, LoopNext, Call, Lock, Work, Disconnect, SetStop,
     WakeHandler, JoinNetworkThread, DeleteNetworkControl, ending
<1>3. dpc' \in {"join", "delete", "done"} => ~sync'
  BY <1>1 DEF Gone, Step, Connect, Link, ChangeData, ReceiveTCP, ReceiveUDP, PutUDP, EndUDP,
     HandlePackets, Handle, HandlePacketsNext, LoopNext, Call, Lock, Work, Disconnect, SetStop,
     WakeHandler, JoinNetworkThread, DeleteNetworkControl, ending
<1>4. ASSUME dpc' = "done", fault' = "none" PROVE ~InLibrary'
  <2>1. CASE DeleteNetworkControl
    <3>1. UNCHANGED <<hpc, packet, cells>> /\ ~InLibrary
      BY <1>4, <2>1 DEF DeleteNetworkControl, handler, tableVars
    <3>. QED  BY <3>1 DEF InLibrary, FunctionOf
  <2>2. CASE ~DeleteNetworkControl
    <3>1. dpc = "done"
      BY <1>1, <1>4, <2>2 DEF Step, Connect, Link, ChangeData, ReceiveTCP, ReceiveUDP, PutUDP,
         EndUDP, HandlePackets, Handle, HandlePacketsNext, LoopNext, Call, Lock, Work,
         Disconnect, SetStop, WakeHandler, JoinNetworkThread, ending
    <3>2. ~sync /\ connected /\ ~InLibrary
      BY <1>1, <3>1 DEF Gone
    <3>3. CASE Call
      <4>1. Handled
        BY <3>2, <3>3 DEF Call, InLibrary
      <4>. QED  BY <3>2, <4>1 DEF Handled, InLibrary
    <3>4. \/ Call
          \/ UNCHANGED <<hpc, packet, cells>>
      BY <1>1, <1>4, <3>1, <3>2 DEF Step, Connect, Link, ChangeData, ReceiveTCP, ReceiveUDP,
         PutUDP, EndUDP, HandlePackets, Handle, HandlePacketsNext, LoopNext, Lock, Work,
         Disconnect, SetStop, WakeHandler, JoinNetworkThread, DeleteNetworkControl, handler,
         tableVars, InLibrary
    <3>5. CASE UNCHANGED <<hpc, packet, cells>>
      BY <3>2, <3>5 DEF InLibrary, FunctionOf
    <3>. QED  BY <3>3, <3>4, <3>5
  <2>. QED  BY <2>1, <2>2
<1>. QED  BY <1>2, <1>3, <1>4 DEF Gone

\* The queue and the packet at work hold messages.
LEMMA NextMessages ==
  ASSUME ProxyInv, Next
  PROVE  packet' \in Messages \cup {NullPacket} /\ queue' \in Seq(Messages \cup {NullPacket})
<1>. USE DEF ProxyInv, ProxyTypes
<1>1. ASSUME NEW m \in Messages \cup {NullPacket}, AddToQueue(m)
      PROVE  queue' \in Seq(Messages \cup {NullPacket})
  BY <1>1 DEF AddToQueue
<1>2. ASSUME NEW m \in Messages, ReceiveTCP(m)
      PROVE  packet' = packet /\ queue' \in Seq(Messages \cup {NullPacket})
  BY <1>1, <1>2 DEF ReceiveTCP, handler
<1>3. CASE PutUDP
  <2>1. packet' = packet
    BY <1>3 DEF PutUDP, handler
  <2>2. PICK m \in UserMessages : AddToQueue(m)
    BY <1>3 DEF PutUDP
  <2>3. m \in Messages \cup {NullPacket}
    BY DEF Messages
  <2>. QED  BY <1>1, <2>1, <2>2, <2>3
<1>4. CASE WakeHandler
  BY <1>1, <1>4 DEF WakeHandler, handler, queueVars
<1>5. CASE HandlePacketsNext \/ LoopNext
  <2>1. UNCHANGED <<queue, packet>> \/ (queue # <<>> /\ packet' = Head(queue) /\ queue' = Tail(queue))
    BY <1>5 DEF HandlePacketsNext, LoopNext
  <2>. QED  BY <2>1, HeadTailProperties
<1>6. \/ UNCHANGED <<queue, packet>> \/ PutUDP \/ WakeHandler \/ HandlePacketsNext \/ LoopNext
      \/ \E m \in Messages : ReceiveTCP(m)
  BY DEF Next, Step, Connect, Link, ChangeData, ReceiveUDP, EndUDP, HandlePackets, Handle, Call,
     Lock, Work, Disconnect, SetStop, JoinNetworkThread, DeleteNetworkControl, handler, queueVars
<1>. QED  BY <1>2, <1>3, <1>4, <1>5, <1>6

\* Most steps leave the proxies alone.
LEMMA RestProxy ==
  ASSUME ProxyInv, Next, ~Call, ~Work, ~DeleteNetworkControl
  PROVE  UNCHANGED <<proxyVars, toldVars>> /\ (dpc' = "done" <=> dpc = "done") /\ fault = "none"
BY DEF Next, Step, Connect, Link, ChangeData, ReceiveTCP, ReceiveUDP, PutUDP, EndUDP,
   HandlePackets, Handle, HandlePacketsNext, LoopNext, Lock, Disconnect, SetStop, WakeHandler,
   JoinNetworkThread, ending, ProxyInv, Gone

\* A client that has no proxy is said to have gone.
LEMMA CallProxy ==
  ASSUME ProxyInv, Next, Call
  PROVE  ProxyInv'
<1>. USE DEF ProxyInv, ProxyTypes
<1>1. UNCHANGED <<proxyVars, dpc, fault>> /\ fault = "none"
  BY DEF Call, Next, ending
<1>2. /\ toldTwice' = toldTwice
      /\ \/ told' = told
         \/ packet.id \in Ids /\ proxyMap[packet.id] = NullProxy
              /\ told' = [told EXCEPT ![packet.id] = "removed"]
  <2>1. CASE FunctionOf(packet.op) = Library(REMOVE_CLIENT)
    <3>1. packet.id \in Ids
      BY <2>1, Reaches, Carries
    <3>2. FunctionOf(packet.op) # Library(ADD_CLIENT)
      BY <2>1 DEF Library, ADD_CLIENT, REMOVE_CLIENT
    <3>. QED  BY <2>1, <3>1, <3>2, Zenon DEF Call, toldVars
  <2>2. CASE FunctionOf(packet.op) # Library(REMOVE_CLIENT)
    <3>1. CASE FunctionOf(packet.op) = Library(ADD_CLIENT)
      BY <2>2, <3>1 DEF Call, toldVars
    <3>2. CASE FunctionOf(packet.op) # Library(ADD_CLIENT)
      BY <2>2, <3>2 DEF Call, toldVars
    <3>. QED  BY <3>1, <3>2
  <2>. QED  BY <2>1, <2>2
<1>3. ProxyTypes'
  BY <1>1, <1>2, NextMessages DEF proxyVars
<1>4. Kept' /\ MapTellsLast'
  BY <1>1, <1>2 DEF proxyVars, Kept, MapTellsLast
<1>5. ToldOnceIsKeptOnce'
  BY <1>1, <1>2 DEF proxyVars, ToldOnceIsKeptOnce
<1>. QED  BY <1>3, <1>4, <1>5, NextGone, NextCells

\* A new proxy has a number of its own.
LEMMA AddProxy ==
  ASSUME ProxyInv, Next, Work, packet.op = ADD_CLIENT
  PROVE  ProxyInv'
<1>. USE DEF ProxyInv, ProxyTypes
<1>. DEFINE p == packet.id
            n == Len(proxyIds)
<1>1. /\ AddClientProxy(p) /\ told' = [told EXCEPT ![p] = "added"]
      /\ toldTwice' = IF told[p] = "added" THEN toldTwice \cup {p} ELSE toldTwice
      /\ hpc = "work" /\ dpc' = dpc /\ fault' = fault /\ fault = "none"
  BY DEF Work, Next, ending, ADD_CLIENT, REMOVE_CLIENT
<1>2. p \in Ids
  BY Carries
<1>3. /\ made' = made + 1 /\ proxyMap' = [proxyMap EXCEPT ![p] = made + 1]
      /\ proxyIds' = Append(proxyIds, p) /\ freed' = Append(freed, 0)
  BY <1>1 DEF AddClientProxy
<1>. HIDE DEF p, n
<1>4. /\ proxyIds' \in Seq(Ids) /\ Len(proxyIds') = n + 1 /\ n \in Nat
      /\ \A i \in 1 .. n : proxyIds'[i] = proxyIds[i]
      /\ proxyIds'[n + 1] = p
  BY <1>2, <1>3 DEF n
<1>5. DOMAIN proxyIds = 1 .. n /\ DOMAIN proxyIds' = 1 .. n + 1
  BY <1>4, LenProperties DEF n
<1>6. freed \in Seq(Nat) /\ Len(freed) = made
  OBVIOUS
<1>7. /\ freed' \in [1 .. made + 1 -> Nat] /\ freed'[made + 1] = 0
      /\ \A x \in 1 .. made : freed'[x] = freed[x]
  <2>1. freed' \in Seq(Nat) /\ Len(freed') = made + 1
    BY <1>3, <1>6
  <2>2. freed'[made + 1] = 0 /\ \A x \in 1 .. made : freed'[x] = freed[x]
    BY <1>3, <1>6
  <2>. QED  BY <2>1, <2>2, LenProperties
<1>8. ProxyTypes'
  <2>1. proxyMap' \in [Ids -> 0 .. made'] /\ made' \in Nat
    BY <1>2, <1>3
  <2>2. told' \in [Ids -> {"none", "added", "removed"}] /\ toldTwice' \in SUBSET Ids
    BY <1>1, <1>2
  <2>. QED  BY <1>3, <1>4, <1>7, <2>1, <2>2, NextMessages
<1>9. \A id \in Ids : proxyMap'[id] = IF id = p THEN made + 1 ELSE proxyMap[id]
  BY <1>2, <1>3
<1>10. p \in Range(proxyIds') /\ \A id \in Range(proxyIds) : id \in Range(proxyIds')
  <2>1. p \in Range(proxyIds')
    <3>1. n + 1 \in 1 .. n + 1
      BY <1>4
    <3>. QED  BY <1>4, <1>5, <3>1 DEF Range
  <2>2. ASSUME NEW id \in Range(proxyIds) PROVE id \in Range(proxyIds')
    <3>1. PICK i \in 1 .. n : proxyIds[i] = id
      BY <1>5 DEF Range
    <3>2. i \in 1 .. n + 1 /\ proxyIds'[i] = id
      BY <1>4, <3>1
    <3>. QED  BY <1>5, <3>2 DEF Range
  <2>. QED  BY <2>1, <2>2
<1>11. Kept'
  BY <1>9, <1>10 DEF Kept, NullProxy
<1>12. MapTellsLast'
  BY <1>1, <1>2, <1>9 DEF MapTellsLast, NullProxy
<1>13. ToldOnceIsKeptOnce'
  <2>1. SUFFICES ASSUME toldTwice' = {} PROVE ToldOnceIsKeptOnce'
    BY DEF ToldOnceIsKeptOnce
  <2>2. toldTwice = {} /\ told[p] # "added"
    BY <1>1, <2>1
  <2>3. proxyMap[p] = NullProxy
    BY <1>2, <2>2 DEF MapTellsLast
  <2>4. dpc # "done"
    BY <1>1 DEF Gone, InLibrary
  <2>5. /\ IsInjective(proxyIds)
        /\ Range(proxyIds) = {id \in Ids : proxyMap[id] # NullProxy}
        /\ \A x \in 1 .. made : freed[x] = IF \E id \in Ids : proxyMap[id] = x THEN 0 ELSE 1
    BY <1>1, <2>2, <2>4 DEF ToldOnceIsKeptOnce
  <2>6. \A i \in 1 .. n : proxyIds[i] # p
    <3>1. p \notin Range(proxyIds)
      BY <2>3, <2>5
    <3>. QED  BY <1>5, <3>1 DEF Range
  <2>7. IsInjective(proxyIds')
    BY <1>4, <1>5, <2>5, <2>6, SMTT(30) DEF IsInjective
  <2>8. Range(proxyIds') = Range(proxyIds) \cup {p}
    <3>1. ASSUME NEW id \in Range(proxyIds') PROVE id \in Range(proxyIds) \cup {p}
      <4>1. PICK i \in 1 .. n + 1 : proxyIds'[i] = id
        BY <1>5 DEF Range
      <4>2. i = n + 1 \/ i \in 1 .. n
        BY <1>4
      <4>. QED  BY <1>4, <1>5, <4>1, <4>2 DEF Range
    <3>. QED  BY <1>10, <3>1
  <2>9. Range(proxyIds') = {id \in Ids : proxyMap'[id] # NullProxy}
    BY <1>2, <1>9, <2>5, <2>8 DEF NullProxy
  <2>10. ASSUME NEW x \in 1 .. made + 1
         PROVE  freed'[x] = IF \E id \in Ids : proxyMap'[id] = x THEN 0 ELSE 1
    <3>1. CASE x = made + 1
      BY <1>2, <1>7, <1>9, <3>1
    <3>2. CASE x # made + 1
      <4>1. x \in 1 .. made /\ x # NullProxy
        BY <3>2 DEF NullProxy
      <4>2. (\E id \in Ids : proxyMap'[id] = x) <=> (\E id \in Ids : proxyMap[id] = x)
        BY <1>2, <1>9, <2>3, <3>2, <4>1
      <4>. QED  BY <1>7, <2>5, <4>1, <4>2
    <3>. QED  BY <3>1, <3>2
  <2>. QED  BY <1>1, <1>3, <2>4, <2>7, <2>9, <2>10 DEF ToldOnceIsKeptOnce
<1>. QED  BY <1>8, <1>11, <1>12, <1>13, NextGone, NextCells

\* A proxy that is found is deleted once.
LEMMA RemoveProxy ==
  ASSUME ProxyInv, Next, Work, packet.op = REMOVE_CLIENT
  PROVE  ProxyInv'
<1>. USE DEF ProxyInv, ProxyTypes
<1>. DEFINE p == packet.id
            n == Len(proxyIds)
<1>1. /\ RemoveClientProxy(p) /\ told' = [told EXCEPT ![p] = "removed"]
      /\ toldTwice' = toldTwice
      /\ hpc = "work" /\ dpc' = dpc /\ fault' = fault /\ fault = "none"
  BY DEF Work, Next, ending, ADD_CLIENT, REMOVE_CLIENT
<1>2. p \in Ids
  BY Carries
<1>3. dpc # "done"
  BY <1>1 DEF Gone, InLibrary
<1>4. CASE p \notin Range(proxyIds)
  <2>1. UNCHANGED proxyVars
    BY <1>1, <1>4 DEF RemoveClientProxy
  <2>2. proxyMap[p] = NullProxy
    BY <1>2, <1>4 DEF Kept
  <2>3. ProxyTypes'
    BY <1>1, <2>1, NextMessages DEF proxyVars
  <2>4. Kept' /\ MapTellsLast'
    BY <1>1, <1>2, <2>1, <2>2 DEF Kept, MapTellsLast, proxyVars
  <2>5. ToldOnceIsKeptOnce'
    BY <1>1, <2>1 DEF ToldOnceIsKeptOnce, proxyVars
  <2>. QED  BY <2>3, <2>4, <2>5, NextGone, NextCells
<1>5. CASE p \in Range(proxyIds)
  <2>. DEFINE i == CHOOSE i \in DOMAIN proxyIds :
                     proxyIds[i] = p /\ \A j \in 1 .. i - 1 : proxyIds[j] # p
  <2>1. /\ freed' = Deleted(freed, proxyMap[p])
        /\ proxyMap' = [proxyMap EXCEPT ![p] = NullProxy]
        /\ proxyIds' = SubSeq([proxyIds EXCEPT ![i] = proxyIds[n]], 1, n - 1)
        /\ made' = made
    BY <1>1, <1>5 DEF RemoveClientProxy
  <2>. HIDE DEF p, n
  <2>2. DOMAIN proxyIds = 1 .. n /\ n \in Nat
    BY LenProperties DEF n
  <2>3. i \in 1 .. n /\ proxyIds[i] = p
    <3>. DEFINE T == {j \in 1 .. n : proxyIds[j] = p}
    <3>1. T \in SUBSET Nat /\ T # {}
      BY <1>5, <2>2 DEF Range
    <3>2. PICK k \in T : \A j \in T : k <= j
      BY <3>1, Smallest
    <3>3. k \in DOMAIN proxyIds /\ proxyIds[k] = p /\ \A j \in 1 .. k - 1 : proxyIds[j] # p
      BY <2>2, <3>2
    <3>. QED  BY <2>2, <3>3
  <2>. HIDE DEF i
  <2>4. /\ proxyIds' \in Seq(Ids) /\ Len(proxyIds') = n - 1
        /\ \A id \in Range(proxyIds) : id # p => id \in Range(proxyIds')
        /\ Range(proxyIds') \subseteq Range(proxyIds)
        /\ IsInjective(proxyIds) => IsInjective(proxyIds') /\ p \notin Range(proxyIds')
    <3>1. i \in 1 .. Len(proxyIds) /\ proxyIds \in Seq(Ids)
      BY <2>3 DEF n
    <3>2. proxyIds' = Without(proxyIds, i)
      BY <2>1 DEF n, Without
    <3>3. /\ Without(proxyIds, i) \in Seq(Ids) /\ Len(Without(proxyIds, i)) = Len(proxyIds) - 1
          /\ \A id \in Range(proxyIds) : id # proxyIds[i] => id \in Range(Without(proxyIds, i))
          /\ Range(Without(proxyIds, i)) \subseteq Range(proxyIds)
          /\ IsInjective(proxyIds) =>
               IsInjective(Without(proxyIds, i)) /\ proxyIds[i] \notin Range(Without(proxyIds, i))
      BY <3>1, TakenOut
    <3>. QED  BY <2>3, <3>2, <3>3 DEF n
  <2>5. \A id \in Ids : proxyMap'[id] = IF id = p THEN NullProxy ELSE proxyMap[id]
    BY <1>2, <2>1
  <2>6. /\ freed' \in [1 .. made -> Nat]
        /\ \A x \in 1 .. made : freed'[x] = IF x = proxyMap[p] THEN freed[x] + 1 ELSE freed[x]
    <3>1. CASE proxyMap[p] = NullProxy
      BY <2>1, <3>1 DEF Deleted, NullProxy
    <3>2. CASE proxyMap[p] # NullProxy
      <4>1. proxyMap[p] \in 1 .. made
        BY <1>2, <3>2 DEF NullProxy
      <4>2. freed' = [freed EXCEPT ![proxyMap[p]] = freed[proxyMap[p]] + 1]
        BY <2>1, <3>2 DEF Deleted
      <4>. QED  BY <4>1, <4>2
    <3>. QED  BY <3>1, <3>2
  <2>7. ProxyTypes'
    <3>1. proxyMap' \in [Ids -> 0 .. made]
      <4>1. NullProxy \in 0 .. made
        BY DEF NullProxy
      <4>. QED  BY <2>1, <4>1
    <3>2. told' \in [Ids -> {"none", "added", "removed"}]
      BY <1>1, <1>2
    <3>. QED  BY <1>1, <2>1, <2>4, <2>6, <3>1, <3>2, NextMessages
  <2>8. Kept'
    BY <2>4, <2>5 DEF Kept
  <2>9. MapTellsLast'
    BY <1>1, <1>2, <2>5 DEF MapTellsLast
  <2>10. ToldOnceIsKeptOnce'
    <3>1. SUFFICES ASSUME toldTwice = {} PROVE ToldOnceIsKeptOnce'
      BY <1>1 DEF ToldOnceIsKeptOnce
    <3>2. /\ IsInjective(proxyIds)
          /\ Range(proxyIds) = {id \in Ids : proxyMap[id] # NullProxy}
          /\ \A x \in 1 .. made : freed[x] = IF \E id \in Ids : proxyMap[id] = x THEN 0 ELSE 1
      BY <1>1, <1>3, <3>1 DEF ToldOnceIsKeptOnce
    <3>3. proxyMap[p] # NullProxy
      BY <1>5, <3>2
    <3>4. Range(proxyIds') = {id \in Ids : proxyMap'[id] # NullProxy}
      BY <2>4, <2>5, <3>2
    <3>5. ASSUME NEW x \in 1 .. made
          PROVE  freed'[x] = IF \E id \in Ids : proxyMap'[id] = x THEN 0 ELSE 1
      <4>0. x # NullProxy
        BY DEF NullProxy
      <4>1. CASE x = proxyMap[p]
        <5>1. ~\E id \in Ids : proxyMap'[id] = x
          BY <1>2, <2>5, <3>3, <4>0, <4>1 DEF Kept
        <5>2. freed[x] = 0
          BY <1>2, <3>2, <4>1
        <5>. QED  BY <2>6, <4>1, <5>1, <5>2
      <4>2. CASE x # proxyMap[p]
        <5>1. (\E id \in Ids : proxyMap'[id] = x) <=> (\E id \in Ids : proxyMap[id] = x)
          BY <2>5, <4>0, <4>2
        <5>. QED  BY <2>6, <3>2, <4>2, <5>1
      <4>. QED  BY <4>1, <4>2
    <3>. QED  BY <1>1, <1>3, <2>1, <2>4, <3>2, <3>4, <3>5 DEF ToldOnceIsKeptOnce
  <2>. QED  BY <2>7, <2>8, <2>9, <2>10, NextGone, NextCells
<1>. QED  BY <1>4, <1>5

\* The destructor deletes the proxies of the vector, each once.
LEMMA DeleteProxy ==
  ASSUME ProxyInv, Next, DeleteNetworkControl
  PROVE  ProxyInv'
<1>. USE DEF ProxyInv, ProxyTypes
<1>. DEFINE n == Len(proxyIds)
            Naming(x) == {i \in DOMAIN proxyIds : proxyMap[proxyIds[i]] = x}
<1>1. UNCHANGED <<toldVars, proxyIds, proxyMap, made>> /\ dpc' = "done" /\ fault = "none"
      /\ dpc # "done"
  BY DEF DeleteNetworkControl, DeleteProxies, Next, proxyVars
<1>2. DOMAIN proxyIds = 1 .. n /\ n \in Nat
  BY LenProperties
<1>3. \A x : IsFiniteSet(Naming(x)) /\ Cardinality(Naming(x)) \in Nat
  <2>1. IsFiniteSet(1 .. n)
    BY <1>2, FS_Interval
  <2>2. \A x : Naming(x) \in SUBSET (1 .. n)
    BY <1>2
  <2>3. \A x : IsFiniteSet(Naming(x))
    BY <2>1, <2>2, FS_Subset
  <2>. QED  BY <2>3, FS_CardinalityType
<1>4. \/ freed' = freed /\ fault' # "none"
      \/ freed' = [x \in 1 .. made |-> freed[x] + Cardinality(Naming(x))]
  BY DEF DeleteNetworkControl, DeleteProxies, proxyVars
<1>. HIDE DEF Naming
<1>5. ProxyTypes'
  <2>1. \A x \in 1 .. made : freed[x] + Cardinality(Naming(x)) \in Nat
    <3>. SUFFICES ASSUME NEW x \in 1 .. made
                  PROVE  freed[x] + Cardinality(Naming(x)) \in Nat
      OBVIOUS
    <3>1. freed[x] \in Nat /\ Cardinality(Naming(x)) \in Nat
      BY <1>3
    <3>. QED  BY <3>1
  <2>2. freed' \in [1 .. made -> Nat]
    BY <1>4, <2>1
  <2>. QED  BY <1>1, <2>2, NextMessages DEF toldVars
<1>6. Kept' /\ MapTellsLast'
  BY <1>1 DEF Kept, MapTellsLast, toldVars
<1>7. ToldOnceIsKeptOnce'
  <2>1. SUFFICES ASSUME toldTwice = {}, fault' = "none" PROVE ToldOnceIsKeptOnce'
    BY <1>1 DEF ToldOnceIsKeptOnce, toldVars
  <2>2. /\ IsInjective(proxyIds)
        /\ Range(proxyIds) = {id \in Ids : proxyMap[id] # NullProxy}
        /\ \A x \in 1 .. made : freed[x] = IF \E id \in Ids : proxyMap[id] = x THEN 0 ELSE 1
    BY <1>1, <2>1 DEF ToldOnceIsKeptOnce
  <2>3. ASSUME NEW x \in 1 .. made PROVE freed'[x] = 1
    <3>0. freed'[x] = freed[x] + Cardinality(Naming(x)) /\ x # NullProxy
      BY <1>4, <2>1 DEF NullProxy
    <3>1. CASE \E id \in Ids : proxyMap[id] = x
      <4>1. PICK id \in Ids : proxyMap[id] = x
        BY <3>1
      <4>2. id \in Range(proxyIds)
        BY <2>2, <3>0, <4>1
      <4>3. PICK i \in 1 .. n : proxyIds[i] = id
        BY <1>2, <4>2 DEF Range
      <4>4. ASSUME NEW j \in 1 .. n, proxyMap[proxyIds[j]] = x PROVE j = i
        <5>1. proxyIds[j] \in Ids
          BY ElementOfSeq
        <5>2. proxyIds[j] = id
          BY <3>0, <4>1, <4>4, <5>1 DEF Kept
        <5>. QED  BY <1>2, <2>2, <4>3, <5>2, ZenonT(30) DEF IsInjective
      <4>5. Naming(x) = {i}
        BY <1>2, <4>1, <4>3, <4>4 DEF Naming
      <4>6. Cardinality(Naming(x)) = 1
        BY <4>5, FS_Singleton
      <4>7. freed[x] = 0
        BY <2>2, <3>1
      <4>. QED  BY <3>0, <4>6, <4>7
    <3>2. CASE ~\E id \in Ids : proxyMap[id] = x
      <4>1. \A j \in 1 .. n : proxyIds[j] \in Ids
        BY ElementOfSeq
      <4>2. Naming(x) = {}
        BY <1>2, <3>2, <4>1 DEF Naming
      <4>3. Cardinality(Naming(x)) = 0
        BY <4>2, FS_EmptySet
      <4>. QED  BY <2>2, <3>0, <3>2, <4>3
    <3>. QED  BY <3>1, <3>2
  <2>. QED  BY <1>1, <2>2, <2>3 DEF ToldOnceIsKeptOnce
<1>. QED  BY <1>5, <1>6, <1>7, NextGone, NextCells

LEMMA ProxyInductive == Spec => []ProxyInv
<1>1. Init => ProxyInv
  BY InitProxy
<1>2. ProxyInv /\ [Next]_vars => ProxyInv'
  <2>1. SUFFICES ASSUME ProxyInv, [Next]_vars PROVE ProxyInv'
    OBVIOUS
  <2>2. CASE UNCHANGED vars
    <3>1. UNCHANGED <<proxyVars, toldVars, queue, packet, hpc, dpc, fault, sync, connected, cells, linked>>
      BY <2>2 DEF vars, proxyVars, toldVars, queueVars, handler, ending, tableVars
    <3>2. ProxyTypes' /\ Kept' /\ MapTellsLast' /\ ToldOnceIsKeptOnce'
      BY <2>1, <3>1 DEF ProxyInv, ProxyTypes, Kept, MapTellsLast, ToldOnceIsKeptOnce,
         proxyVars, toldVars
    <3>3. Gone' /\ CellsInv'
      BY <2>1, <3>1 DEF ProxyInv, Gone, InLibrary, FunctionOf, CellsInv
    <3>. QED  BY <3>2, <3>3 DEF ProxyInv
  <2>3. CASE Next /\ ~Call /\ ~Work /\ ~DeleteNetworkControl
    <3>1. UNCHANGED <<proxyVars, toldVars>> /\ (dpc' = "done" <=> dpc = "done") /\ fault = "none"
      BY <2>1, <2>3, RestProxy
    <3>2. ProxyTypes' /\ Kept' /\ MapTellsLast' /\ ToldOnceIsKeptOnce'
      BY <2>1, <2>3, <3>1, NextMessages DEF ProxyInv, ProxyTypes, Kept, MapTellsLast,
         ToldOnceIsKeptOnce, proxyVars, toldVars
    <3>3. Gone' /\ CellsInv'
      BY <2>1, <2>3, NextGone, NextCells DEF ProxyInv
    <3>. QED  BY <3>2, <3>3 DEF ProxyInv
  <2>4. CASE Next /\ Work
    <3>1. packet.op = ADD_CLIENT \/ packet.op = REMOVE_CLIENT
      BY <2>4 DEF Work
    <3>. QED  BY <2>1, <2>4, <3>1, AddProxy, RemoveProxy
  <2>. QED  BY <2>1, <2>2, <2>3, <2>4, CallProxy, DeleteProxy
<1>. QED  BY <1>1, <1>2, PTL DEF Spec

\* For any number of clients, packets and datagrams, the map of proxies tells
\* what the server has told last (NetworkControl.cpp:481-533,
\* StandardFunctions.cpp:39-73).
THEOREM MapAlwaysTellsLast == Spec => []MapTellsLast
<1>1. ProxyInv => MapTellsLast
  BY DEF ProxyInv
<1>. QED  BY <1>1, ProxyInductive, PTL

\* For any number of clients, packets and datagrams: while the server announces
\* nobody twice, every proxy is in both tables or has been deleted once, and the
\* destructor deletes the rest, unless Disconnect overtakes a handler at work.
THEOREM ToldOnceIsAlwaysKeptOnce == Spec => []ToldOnceIsKeptOnce
<1>1. ProxyInv => ToldOnceIsKeptOnce
  BY DEF ProxyInv
<1>. QED  BY <1>1, ProxyInductive, PTL

-----------------------------------------------------------------------------
(* The mutexes.                                                            *)

\* Who holds which, by where he is.
Locks ==
  /\ sync \in BOOLEAN /\ connected \in BOOLEAN /\ stop \in BOOLEAN
  /\ hpc \in {"idle", "next", "call", "lock", "work", "ended"}
  /\ udpc \in {"select", "put", "ended"}
  /\ queueOwner \in {"free", "handler"} /\ accessOwner \in {"free", "udp", "handler"}
  /\ queueOwner = "handler" <=> sync /\ hpc \notin {"idle", "ended"}
  /\ accessOwner = "handler" <=> hpc = "work"
  /\ accessOwner = "udp" <=> udpc = "put"
  /\ hpc \in {"lock", "work"} => packet.op \in {ADD_CLIENT, REMOVE_CLIENT}

LEMMA NextLocks ==
  ASSUME ProxyInv, Locks, Next
  PROVE  Locks'
<1>. USE DEF Locks
<1>1. CASE Connect \/ \E c \in UserCodes : Link(c) \/ ChangeData(c)
  <2>1. UNCHANGED <<sync, stop, hpc, packet, udpc, queueOwner, accessOwner>>
    BY <1>1 DEF Connect, Link, ChangeData, queueVars, feeders, handler, ending
  <2>2. connected' \in BOOLEAN
    BY <1>1 DEF Connect, Link, ChangeData
  <2>. QED  BY <2>1, <2>2
<1>2. CASE \E m \in Messages : ReceiveTCP(m)
  BY <1>2 DEF ReceiveTCP, AddToQueue, handler, ending
<1>3. CASE ReceiveUDP \/ PutUDP \/ EndUDP
  BY <1>3 DEF ReceiveUDP, PutUDP, EndUDP, AddToQueue, handler, ending, queueVars
<1>4. CASE HandlePackets \/ HandlePacketsNext \/ LoopNext
  BY <1>4 DEF HandlePackets, HandlePacketsNext, LoopNext, feeders, ending
<1>5. CASE Call
  <2>1. /\ hpc = "call" /\ UNCHANGED <<sync, connected, queueOwner, accessOwner, udpc, packet, stop>>
    BY <1>5 DEF Call, queueVars, feeders, ending
  <2>2. CASE FunctionOf(packet.op) = Library(ADD_CLIENT)
    <3>1. packet.op = ADD_CLIENT
      BY <2>2, Reaches DEF ProxyInv, ProxyTypes
    <3>2. hpc' = "lock"
      <4>. HIDE DEF Locks
      <4>1. FunctionOf(packet.op) # Library(REMOVE_CLIENT)
        BY <2>2 DEF Library, ADD_CLIENT, REMOVE_CLIENT
      <4>2. hpc' = "lock" /\ UNCHANGED toldVars
        BY <1>5, <2>2, <4>1, Zenon DEF Call
      <4>. QED  BY <4>2
    <3>. QED  BY <2>1, <3>1, <3>2
  <2>3. CASE FunctionOf(packet.op) # Library(ADD_CLIENT) /\ FunctionOf(packet.op) = Library(REMOVE_CLIENT)
    <3>1. packet.op = REMOVE_CLIENT
      BY <2>3, Reaches DEF ProxyInv, ProxyTypes
    <3>2. hpc' = "lock" \/ Handled
      <4>. HIDE DEF Locks
      <4>1. IF proxyMap[packet.id] = NullProxy
            THEN Handled /\ told' = [told EXCEPT ![packet.id] = "removed"] /\ UNCHANGED toldTwice
            ELSE hpc' = "lock" /\ UNCHANGED toldVars
        BY <1>5, <2>3, Zenon DEF Call
      <4>. QED  BY <4>1
    <3>. QED  BY <2>1, <3>1, <3>2 DEF Handled
  <2>4. CASE FunctionOf(packet.op) # Library(ADD_CLIENT) /\ FunctionOf(packet.op) # Library(REMOVE_CLIENT)
    <3>1. Handled
      BY <1>5, <2>4 DEF Call
    <3>. QED  BY <2>1, <3>1 DEF Handled
  <2>. QED  BY <2>2, <2>3, <2>4
<1>6. CASE Lock \/ Work
  BY <1>6 DEF Lock, Work, Handled, queueVars, feeders, ending
<1>7. CASE Disconnect
  <2>1. UNCHANGED <<sync, connected, hpc, packet, udpc, queueOwner, accessOwner>>
    BY <1>7 DEF Disconnect, SetStop, WakeHandler, JoinNetworkThread, DeleteNetworkControl,
       AddToQueue, queueVars, feeders, handler
  <2>2. stop' \in BOOLEAN
    BY <1>7 DEF Disconnect, SetStop, WakeHandler, JoinNetworkThread, DeleteNetworkControl
  <2>. QED  BY <2>1, <2>2
<1>. QED  BY <1>1, <1>2, <1>3, <1>4, <1>5, <1>6, <1>7 DEF Next, Step, Handle

\* The mutex of the queue is held exactly while HandlePackets runs, and
\* m_ClientAccessMutex by whoever is at a place that needs it
\* (PacketHandler.cpp:116-131, UDPReceiver.cpp:161-202); only AddRemoteClient and
\* RemoveRemoteClient take it, and only with an id.
THEOREM TypeCorrect == Spec => []TypeOK
<1>1. Init => Locks
  BY DEF Init, Locks
<1>2. ProxyInv /\ Locks /\ [Next]_vars => Locks'
  <2>1. SUFFICES ASSUME ProxyInv, Locks, [Next]_vars PROVE Locks'
    OBVIOUS
  <2>2. CASE UNCHANGED vars
    BY <2>1, <2>2 DEF Locks, vars, queueVars, feeders, handler, ending
  <2>. QED  BY <2>1, <2>2, NextLocks
<1>3. ProxyInv /\ Locks => TypeOK
  BY DEF ProxyInv, ProxyTypes, Locks, TypeOK
<1>. QED  BY <1>1, <1>2, <1>3, ProxyInductive, PTL DEF Spec
=============================================================================
