------------------------ MODULE ClientRegistryProofs ------------------------
(***************************************************************************)
(* The registry is safe for any number of clients and any sets of          *)
(* identifiers: whoever takes m_ClientAccessMutex finds the vector and the *)
(* two maps in agreement, RemoveClient finds and deletes its own client    *)
(* and no other, and the broadcaster and the UDP receiver never meet an    *)
(* object under or after destruction; and while one client leaves at most, *)
(* every other one is told of all that stay.                               *)
(***************************************************************************)
EXTENDS ClientRegistry, FiniteSetTheorems, TLAPS

\* A client that AddClient has put into the table and nobody deletes.
Live(c) ==
  life[c] \in {"alive", "woken"} /\ ~(lpc = "register" /\ lclient = c)

\* A live client is known to both maps and to the vector; just before
\* pop_back, to the part of the vector that stays.
LiveIsListed ==
  \A c \in Clients : Live(c) =>
    /\ ids[c] \in IdPairs
    /\ pubMap[ids[c].pub] = c /\ privMap[ids[c].priv] = c
    /\ \E i \in Listed : slots[i] = ids[c]

\* Whom the maps name: a live client, or the one that is being deleted.
MapsNameClients ==
  /\ \A p \in PublicIds : pubMap[p] # None =>
       /\ ids[pubMap[p]] \in IdPairs /\ ids[pubMap[p]].pub = p
       /\ Live(pubMap[p]) \/ pubMap[p] = mutex
  /\ \A p \in PrivateIds : privMap[p] # None =>
       /\ ids[privMap[p]] \in IdPairs /\ ids[privMap[p]].priv = p
       /\ Live(privMap[p]) \/ privMap[p] = mutex

\* Whom an entry of the vector names: the same.
EntriesNameClients ==
  \A i \in Listed :
    \/ \E c \in Clients : Live(c) /\ slots[i] = ids[c]
    \/ mutex \in Clients /\ i = ri /\ slots[i] = ids[mutex]
         /\ (kpc[mutex] = "pop" => i = count)

\* No identifier is in the vector twice, except for the element that
\* RemoveClient has copied and not yet popped.
EntriesDiffer ==
  \A i, j \in Listed :
    (slots[i].pub = slots[j].pub \/ slots[i].priv = slots[j].priv) =>
      i = j \/ (mutex \in Clients /\ kpc[mutex] = "pop"
                  /\ {i, j} = {ri, count})

\* The thread inside RemoveClient holds the mutex and stands at its entry.
RemoverInv ==
  /\ \A c \in Clients : mutex = c \/ kpc[c] \in {"idle", "done"}
  /\ mutex \in Clients =>
       /\ kpc[mutex] \in {"joining", "unlink", "swap", "pop"}
       /\ ids[mutex] \in IdPairs /\ ri \in Listed
       /\ kpc[mutex] \in {"joining", "unlink"} =>
            pubMap[ids[mutex].pub] = mutex /\ privMap[ids[mutex].priv] = mutex
       /\ kpc[mutex] \in {"swap", "pop"} =>
            pubMap[ids[mutex].pub] = None /\ privMap[ids[mutex].priv] = None
       /\ kpc[mutex] # "pop" => slots[ri] = ids[mutex]
       /\ kpc[mutex] = "pop" => slots[ri] = slots[count]
                                  /\ (ri = count => slots[ri] = ids[mutex])

\* What KeepAlive has done is what the object has been through.
LifeInv ==
  \A c \in Clients :
    /\ kpc[c] = "idle" <=> life[c] \in {"none", "alive", "woken"}
    /\ kpc[c] = "joining" <=> life[c] = "dying"

\* The client and the identifiers the listener is working with.
ListenerInv ==
  /\ lpc # "accept" => lclient \in Clients /\ lids \in IdPairs
  /\ lpc = "add" => life[lclient] = "none"
  /\ lpc = "register" <=> mutex = Listener
  /\ lpc \notin {"accept", "add"} => ids[lclient] = lids
  /\ lpc = "register" => life[lclient] \in {"alive", "woken"}

\* Only a client that has been constructed is sent anything.
HeardInv == \A c \in Clients : inbox[c] # <<>> => ids[c] \in IdPairs

\* The inductive invariant of the table.
TableInv ==
  /\ LiveIsListed /\ MapsNameClients /\ EntriesNameClients /\ EntriesDiffer
  /\ RemoverInv /\ LifeInv /\ ListenerInv /\ NoOverwrite

IInv == TypeOK /\ TableInv /\ HeardInv /\ LockedReadersSafe

-----------------------------------------------------------------------------
(* The case split, the initial state, and the steps that leave the table   *)
(* alone.                                                                  *)

\* The steps of the listener that read the table or only talk to clients.
ListenerTalks ==
  \/ ListenerIntroduce \/ ListenerShipIds \/ ListenerAnnounce
  \/ SnapshotTest \/ SnapshotCompare \/ SnapshotRead \/ SnapshotTell

\* The steps of the other readers.
OthersTalk ==
  \/ \E c \in Clients : ClientHello(c)
  \/ BroadcastNext
  \/ \E d \in net : UdpReceive(d)
  \/ \E p \in PrivateIds : AppLookup(p)
  \/ AppUse \/ AppBroadcast

\* A step of the registry changes the table, or only reads it.
LEMMA NextCases ==
  ASSUME [Next]_vars
  PROVE  \/ \E c \in Clients : ListenerAccept(c)
         \/ AddClientNew
         \/ AddClientRegister
         \/ \E c \in Clients : Wake(c)
         \/ \E c \in Clients : RemoveFind(c)
         \/ \E c \in Clients : DestroyClient(c)
         \/ \E c \in Clients : RemoveUnlink(c)
         \/ \E c \in Clients : RemoveSwap(c)
         \/ \E c \in Clients : RemovePop(c)
         \/ ListenerTalks
         \/ OthersTalk
         \/ UNCHANGED vars
BY DEF Next, ListenerStep, Remove, ListenerTalks, OthersTalk

\* An empty table satisfies the invariant.
LEMMA InitIInv == Init => IInv
<1>. SUFFICES ASSUME Init PROVE IInv
  OBVIOUS
<1>. USE DEF Init
<1>1. TypeOK
  <2>1. slots \in Seq(IdPairs) /\ count \in 0 .. Len(slots) /\ ri \in 0 .. Len(slots)
    OBVIOUS
  <2>2. bq \in Seq([op : {"ADD", "REMOVE", "APP"}, id : PublicIds \cup {None},
                    exclude : SUBSET PrivateIds])
    OBVIOUS
  <2>3. inbox \in [Clients -> Seq(InboxMessages)]
    OBVIOUS
  <2>. QED  BY <2>1, <2>2, <2>3 DEF TypeOK
<1>2. TableInv
  BY RegistryAssumption
  DEF TableInv, LiveIsListed, MapsNameClients, EntriesNameClients,
      EntriesDiffer, RemoverInv, LifeInv, ListenerInv, NoOverwrite, Live, Listed
<1>3. LockedReadersSafe
  BY DEF LockedReadersSafe
<1>4. HeardInv
  BY DEF HeardInv
<1>. QED  BY <1>1, <1>2, <1>3, <1>4 DEF IInv

\* The table invariant does not mention queues, datagrams or addresses.
LEMMA TableFrame ==
  ASSUME TableInv,
         UNCHANGED <<mutex, table, objects, remover>>,
         \/ UNCHANGED <<lpc, lclient, lids>>
         \/ /\ lpc \notin {"accept", "add", "register"}
            /\ lpc' \notin {"add", "register"}
            /\ lpc' = "accept" \/ UNCHANGED <<lclient, lids>>
  PROVE  TableInv'
<1>. USE DEF TableInv, table, objects, remover
<1>1. \A c : Live(c)' <=> Live(c)
  BY DEF Live
<1>2. LiveIsListed'
  BY <1>1 DEF LiveIsListed, Listed
<1>3. MapsNameClients'
  BY <1>1 DEF MapsNameClients
<1>4. EntriesNameClients'
  BY <1>1 DEF EntriesNameClients, Listed
<1>5. EntriesDiffer'
  BY DEF EntriesDiffer, Listed
<1>6. RemoverInv'
  BY DEF RemoverInv, Listed
<1>7. LifeInv'
  BY DEF LifeInv
<1>8. ListenerInv' /\ NoOverwrite'
  BY DEF ListenerInv, NoOverwrite
<1>. QED  BY <1>2, <1>3, <1>4, <1>5, <1>6, <1>7, <1>8

\* Talking leaves the table alone.
LEMMA TalkFrame ==
  ASSUME TableInv, ListenerTalks \/ OthersTalk \/ UNCHANGED vars
  PROVE  TableInv'
<1>1. CASE ListenerTalks
  BY <1>1, TableFrame
  DEF ListenerTalks, ListenerIntroduce, ListenerShipIds, ListenerAnnounce,
      SnapshotTest, SnapshotCompare, SnapshotRead, SnapshotTell, AcceptNext
<1>2. CASE OthersTalk
  BY <1>2, TableFrame
  DEF OthersTalk, ClientHello, BroadcastNext, UdpReceive, AppLookup, AppUse,
      AppBroadcast, listener
<1>3. CASE UNCHANGED vars
  BY <1>3, TableFrame DEF vars, table, objects, remover
<1>. QED  BY <1>1, <1>2, <1>3

-----------------------------------------------------------------------------
(* The listener adds a client.                                             *)

\* Drawing identifiers that are free.
LEMMA AcceptTable ==
  ASSUME TypeOK, TableInv, NEW c \in Clients, ListenerAccept(c)
  PROVE  TableInv'
<1>. USE DEF TableInv, ListenerAccept, table, objects, remover
<1>1. \A x : Live(x)' <=> Live(x)
  BY DEF Live
<1>2. LiveIsListed' /\ MapsNameClients' /\ EntriesNameClients'
  BY <1>1 DEF LiveIsListed, MapsNameClients, EntriesNameClients, Listed
<1>3. EntriesDiffer' /\ RemoverInv' /\ LifeInv'
  BY DEF EntriesDiffer, RemoverInv, LifeInv, Listed
<1>4. ListenerInv' /\ NoOverwrite'
  BY DEF ListenerInv, NoOverwrite
<1>. QED  BY <1>2, <1>3, <1>4

\* Constructing the client: nobody can know it yet.
LEMMA AddTable ==
  ASSUME TypeOK, TableInv, AddClientNew
  PROVE  TableInv'
<1>. USE RegistryAssumption DEF TableInv, AddClientNew, table, remover
<1>0. lclient \in Clients /\ lids \in IdPairs /\ life[lclient] = "none"
  BY DEF ListenerInv
<1>1. \A x \in Clients : /\ Live(x)' <=> Live(x)
                         /\ Live(x) => x # lclient /\ ids'[x] = ids[x]
  BY <1>0 DEF Live, TypeOK
<1>2. LiveIsListed'
  BY <1>1 DEF LiveIsListed, Listed
<1>3. MapsNameClients'
  BY <1>1 DEF MapsNameClients, TypeOK
<1>4. EntriesNameClients'
  BY <1>1 DEF EntriesNameClients, Listed
<1>5. EntriesDiffer' /\ RemoverInv'
  BY DEF EntriesDiffer, RemoverInv, Listed
<1>6. LifeInv'
  BY <1>0 DEF LifeInv, TypeOK
<1>7. ListenerInv' /\ NoOverwrite'
  BY <1>0 DEF ListenerInv, NoOverwrite, TypeOK
<1>. QED  BY <1>2, <1>3, <1>4, <1>5, <1>6, <1>7

\* Registering the client: its identifiers were free, so that no map entry
\* and no entry of the vector is disturbed.
LEMMA RegisterTable ==
  ASSUME TypeOK, TableInv, AddClientRegister
  PROVE  TableInv'
<1>. USE RegistryAssumption DEF TableInv, AddClientRegister, objects, remover
<1>0. /\ lclient \in Clients /\ lids \in IdPairs /\ mutex = Listener
      /\ ids[lclient] = lids /\ life[lclient] \in {"alive", "woken"}
      /\ pubMap[lids.pub] = None /\ privMap[lids.priv] = None
  BY DEF ListenerInv, NoOverwrite
<1>1. /\ \A i \in Listed : slots'[i] = slots[i]
      /\ slots'[count + 1] = lids /\ count' = count + 1 /\ count \in Nat
  BY <1>0 DEF TypeOK, Listed
<1>2. /\ Live(lclient)'
      /\ \A x \in Clients \ {lclient} : Live(x)' <=> Live(x)
      /\ ~Live(lclient)
  BY <1>0 DEF Live
<1>3. /\ pubMap'[lids.pub] = lclient /\ privMap'[lids.priv] = lclient
      /\ \A p \in PublicIds \ {lids.pub} : pubMap'[p] = pubMap[p]
      /\ \A p \in PrivateIds \ {lids.priv} : privMap'[p] = privMap[p]
  BY <1>0 DEF TypeOK, IdPairs
<1>4. \A x \in Clients : Live(x) => /\ ids[x] \in IdPairs
                                    /\ ids[x].pub # lids.pub
                                    /\ ids[x].priv # lids.priv
  BY <1>0 DEF LiveIsListed
<1>. ids' = ids /\ mutex' = None
  OBVIOUS
<1>5. LiveIsListed'
  <2>. SUFFICES ASSUME NEW x \in Clients, Live(x)'
                PROVE  /\ ids'[x] \in IdPairs
                       /\ pubMap'[ids'[x].pub] = x /\ privMap'[ids'[x].priv] = x
                       /\ \E i \in Listed' : slots'[i] = ids'[x]
    BY Zenon DEF LiveIsListed
  <2>1. CASE x = lclient
    <3>1. count + 1 \in Listed'
      BY <1>1 DEF Listed
    <3>. QED  BY <2>1, <3>1, <1>0, <1>1, <1>3
  <2>2. CASE x # lclient
    <3>1. Live(x)
      BY <2>2, <1>2
    <3>2. PICK i \in Listed : slots[i] = ids[x]
      BY <3>1 DEF LiveIsListed
    <3>3. i \in Listed' /\ slots'[i] = ids[x]
      BY <3>2, <1>1 DEF Listed
    <3>4. pubMap'[ids[x].pub] = x /\ privMap'[ids[x].priv] = x
      BY <3>1, <1>3, <1>4 DEF LiveIsListed, IdPairs
    <3>. QED  BY <3>1, <3>3, <3>4 DEF LiveIsListed
  <2>. QED  BY <2>1, <2>2
<1>6. MapsNameClients'
  <2>1. ASSUME NEW p \in PublicIds, pubMap'[p] # None
        PROVE  \E x \in Clients : /\ x = pubMap'[p] /\ Live(x)'
                                  /\ ids'[x] \in IdPairs /\ ids'[x].pub = p
    <3>1. CASE p = lids.pub
      BY <3>1, <1>0, <1>2, <1>3
    <3>2. CASE p # lids.pub
      <4>1. pubMap'[p] = pubMap[p] /\ pubMap[p] \in Clients
        BY <2>1, <3>2, <1>3 DEF TypeOK
      <4>2. ids[pubMap[p]] \in IdPairs /\ ids[pubMap[p]].pub = p /\ Live(pubMap[p])
        BY <2>1, <4>1, <1>0 DEF MapsNameClients
      <4>. QED  BY <4>1, <4>2, <1>2
    <3>. QED  BY <3>1, <3>2
  <2>2. ASSUME NEW p \in PrivateIds, privMap'[p] # None
        PROVE  \E x \in Clients : /\ x = privMap'[p] /\ Live(x)'
                                  /\ ids'[x] \in IdPairs /\ ids'[x].priv = p
    <3>1. CASE p = lids.priv
      BY <3>1, <1>0, <1>2, <1>3
    <3>2. CASE p # lids.priv
      <4>1. privMap'[p] = privMap[p] /\ privMap[p] \in Clients
        BY <2>2, <3>2, <1>3 DEF TypeOK
      <4>2. ids[privMap[p]] \in IdPairs /\ ids[privMap[p]].priv = p /\ Live(privMap[p])
        BY <2>2, <4>1, <1>0 DEF MapsNameClients
      <4>. QED  BY <4>1, <4>2, <1>2
    <3>. QED  BY <3>1, <3>2
  <2>. QED  BY <2>1, <2>2, ZenonT(30) DEF MapsNameClients
<1>7. EntriesNameClients'
  <2>. SUFFICES ASSUME NEW i \in Listed'
                PROVE  \E x \in Clients : Live(x)' /\ slots'[i] = ids[x]
    BY ZenonT(30) DEF EntriesNameClients
  <2>1. CASE i = count + 1
    BY <2>1, <1>0, <1>1, <1>2
  <2>2. CASE i # count + 1
    <3>1. i \in Listed
      BY <2>2, <1>1 DEF Listed
    <3>2. PICK x \in Clients : Live(x) /\ slots[i] = ids[x]
      BY <3>1, <1>0 DEF EntriesNameClients
    <3>. QED  BY <3>1, <3>2, <1>1, <1>2
  <2>. QED  BY <2>1, <2>2
<1>8. EntriesDiffer'
  <2>1. \A i \in Listed : slots[i].pub # lids.pub /\ slots[i].priv # lids.priv
    BY <1>0, <1>4 DEF EntriesNameClients
  <2>2. \A i \in Listed' : i = count + 1 \/ i \in Listed
    BY <1>1 DEF Listed
  <2>3. \A i, j \in Listed :
          (slots[i].pub = slots[j].pub \/ slots[i].priv = slots[j].priv) => i = j
    BY <1>0 DEF EntriesDiffer
  <2>4. ASSUME NEW i \in Listed', NEW j \in Listed',
               slots'[i].pub = slots'[j].pub \/ slots'[i].priv = slots'[j].priv
        PROVE  i = j
    <3>1. CASE i \in Listed /\ j \in Listed
      BY <2>3, <2>4, <3>1, <1>1, ZenonT(30)
    <3>2. CASE i = count + 1 /\ j \in Listed
      BY <2>1, <2>4, <3>2, <1>1
    <3>3. CASE i \in Listed /\ j = count + 1
      BY <2>1, <2>4, <3>3, <1>1
    <3>. QED  BY <2>2, <3>1, <3>2, <3>3
  <2>. QED  BY <2>4, Zenon DEF EntriesDiffer
<1>9. RemoverInv' /\ LifeInv'
  BY <1>0 DEF RemoverInv, LifeInv
<1>10. ListenerInv' /\ NoOverwrite'
  BY <1>0 DEF ListenerInv, NoOverwrite
<1>. QED  BY <1>5, <1>6, <1>7, <1>8, <1>9, <1>10

-----------------------------------------------------------------------------
(* A client wakes and is removed.                                          *)

\* Stopping keeps a client live.
LEMMA WakeTable ==
  ASSUME TypeOK, TableInv, NEW c \in Clients, Wake(c)
  PROVE  TableInv'
<1>. USE DEF TableInv, Wake, table, remover, listener
<1>1. /\ \A x \in Clients : Live(x)' <=> Live(x)
      /\ \A x \in Clients : life'[x] \in {"none", "alive", "woken"}
                              <=> life[x] \in {"none", "alive", "woken"}
      /\ \A x \in Clients : life'[x] = "dying" <=> life[x] = "dying"
      /\ life'[c] = "woken" /\ life[c] = "alive"
      /\ \A x \in Clients : x # c => life'[x] = life[x]
  BY DEF Live, TypeOK
<1>2. LiveIsListed'
  BY <1>1 DEF LiveIsListed, Listed
<1>3. MapsNameClients'
  BY <1>1 DEF MapsNameClients, TypeOK
<1>4. EntriesNameClients'
  BY <1>1 DEF EntriesNameClients, Listed
<1>5. EntriesDiffer' /\ RemoverInv'
  BY DEF EntriesDiffer, RemoverInv, Listed
<1>6. LifeInv'
  BY <1>1 DEF LifeInv
<1>7. ListenerInv' /\ NoOverwrite'
  BY <1>1 DEF ListenerInv, NoOverwrite
<1>. QED  BY <1>2, <1>3, <1>4, <1>5, <1>6, <1>7

\* The entry with the client's public id is the client's own, and so is the
\* object that its private id names.
LEMMA FindFacts ==
  ASSUME TypeOK, TableInv, NEW c \in Clients, RemoveFind(c)
  PROVE  /\ ri' \in Listed /\ slots[ri'] = ids[c] /\ ids[c] \in IdPairs
         /\ pubMap[ids[c].pub] = c /\ privMap[ids[c].priv] = c
         /\ Live(c) /\ mutex = None /\ lpc # "register"
         /\ kpc[c] = "idle" /\ life[c] = "woken"
         /\ mutex' = c
         /\ life' = [life EXCEPT ![c] = "dying"]
         /\ kpc' = [kpc EXCEPT ![c] = "joining"]
<1>. USE RegistryAssumption DEF TableInv, RemoveFind
<1>1. mutex = None /\ lpc # "register" /\ life[c] = "woken" /\ kpc[c] = "idle"
  BY DEF ListenerInv
<1>2. Live(c)
  BY <1>1 DEF Live
<1>3. ids[c] \in IdPairs /\ pubMap[ids[c].pub] = c /\ privMap[ids[c].priv] = c
  BY <1>2 DEF LiveIsListed
<1>4. ri' \in Listed /\ slots[ri'].pub = ids[c].pub
  OBVIOUS
<1>5. PICK x \in Clients : Live(x) /\ slots[ri'] = ids[x]
  BY <1>1, <1>4 DEF EntriesNameClients
<1>6. pubMap[ids[x].pub] = x
  BY <1>5 DEF LiveIsListed
<1>7. x = c
  BY <1>3, <1>4, <1>5, <1>6
<1>8. life' = [life EXCEPT ![c] = "dying"]
  BY <1>3, <1>5, <1>7, ZenonT(30) DEF TypeOK
<1>. QED  BY <1>1, <1>2, <1>3, <1>4, <1>5, <1>7, <1>8

\* The client found is no longer live; it is the one with the mutex.
LEMMA FindTable ==
  ASSUME TypeOK, TableInv, NEW c \in Clients, RemoveFind(c)
  PROVE  TableInv'
<1>. USE RegistryAssumption DEF TableInv
<1>0. /\ ri' \in Listed /\ slots[ri'] = ids[c] /\ ids[c] \in IdPairs
      /\ pubMap[ids[c].pub] = c /\ privMap[ids[c].priv] = c
      /\ Live(c) /\ mutex = None /\ lpc # "register"
      /\ kpc[c] = "idle" /\ life[c] = "woken"
      /\ mutex' = c
      /\ life' = [life EXCEPT ![c] = "dying"]
      /\ kpc' = [kpc EXCEPT ![c] = "joining"]
  BY FindFacts
<1>1. /\ ids' = ids /\ slots' = slots /\ count' = count
      /\ pubMap' = pubMap /\ privMap' = privMap
      /\ lpc' = lpc /\ lclient' = lclient /\ lids' = lids
  BY DEF RemoveFind, table, listener
<1>2. /\ \A x \in Clients : Live(x)' <=> (Live(x) /\ x # c)
      /\ life'[c] = "dying" /\ kpc'[c] = "joining"
      /\ \A x \in Clients : x # c => life'[x] = life[x] /\ kpc'[x] = kpc[x]
  BY <1>0, <1>1 DEF Live, TypeOK
<1>3. LiveIsListed'
  BY <1>1, <1>2 DEF LiveIsListed, Listed
<1>4. MapsNameClients'
  BY <1>0, <1>1, <1>2 DEF MapsNameClients, TypeOK
<1>5. EntriesNameClients'
  <2>. SUFFICES ASSUME NEW i \in Listed
                PROVE  \/ \E x \in Clients : Live(x)' /\ slots[i] = ids[x]
                       \/ i = ri' /\ slots[i] = ids[c]
    BY <1>0, <1>1, <1>2 DEF EntriesNameClients, Listed
  <2>1. PICK x \in Clients : Live(x) /\ slots[i] = ids[x]
    BY <1>0 DEF EntriesNameClients
  <2>2. CASE x = c
    BY <2>1, <2>2, <1>0 DEF EntriesDiffer
  <2>. QED  BY <2>1, <2>2, <1>2
<1>6. EntriesDiffer'
  BY <1>0, <1>1 DEF EntriesDiffer, Listed
<1>7. RemoverInv'
  BY <1>0, <1>1, <1>2 DEF RemoverInv, Listed
<1>8. LifeInv'
  BY <1>2 DEF LifeInv
<1>9. ListenerInv' /\ NoOverwrite'
  BY <1>0, <1>1, <1>2 DEF ListenerInv, NoOverwrite
<1>. QED  BY <1>3, <1>4, <1>5, <1>6, <1>7, <1>8, <1>9

\* The thread in ~Client deletes its own client.
LEMMA DestroyFacts ==
  ASSUME TypeOK, TableInv, NEW c \in Clients, DestroyClient(c)
  PROVE  /\ mutex = c /\ Victim = c /\ life[c] = "dying"
         /\ ids[c] \in IdPairs /\ lpc # "register"
         /\ life' = [life EXCEPT ![c] = "freed"]
         /\ kpc' = [kpc EXCEPT ![c] = "unlink"]
<1>. USE RegistryAssumption DEF TableInv, DestroyClient
<1>1. mutex = c /\ kpc[c] = "joining"
  BY DEF RemoverInv
<1>2. Victim = c /\ ids[c] \in IdPairs
  BY <1>1 DEF RemoverInv, Victim
<1>3. life[c] = "dying"
  BY <1>1 DEF LifeInv
<1>4. lpc # "register"
  BY <1>1 DEF ListenerInv
<1>5. life' = [life EXCEPT ![c] = "freed"]
  BY <1>2 DEF TypeOK
<1>. QED  BY <1>1, <1>2, <1>3, <1>4, <1>5

\* Deleting the object changes nobody else.
LEMMA DestroyTable ==
  ASSUME TypeOK, TableInv, NEW c \in Clients, DestroyClient(c)
  PROVE  TableInv'
<1>. USE RegistryAssumption DEF TableInv
<1>0. /\ mutex = c /\ Victim = c /\ life[c] = "dying"
      /\ ids[c] \in IdPairs /\ lpc # "register"
      /\ life' = [life EXCEPT ![c] = "freed"]
      /\ kpc' = [kpc EXCEPT ![c] = "unlink"]
      /\ kpc[c] = "joining"
  BY DestroyFacts DEF DestroyClient
<1>1. /\ ids' = ids /\ slots' = slots /\ count' = count /\ mutex' = mutex
      /\ pubMap' = pubMap /\ privMap' = privMap /\ ri' = ri
      /\ lpc' = lpc /\ lclient' = lclient /\ lids' = lids
  BY DEF DestroyClient, table, listener
<1>2. /\ \A x \in Clients : Live(x)' <=> Live(x)
      /\ life'[c] = "freed" /\ kpc'[c] = "unlink"
      /\ \A x \in Clients : x # c => life'[x] = life[x] /\ kpc'[x] = kpc[x]
  BY <1>0, <1>1 DEF Live, TypeOK
<1>3. LiveIsListed'
  BY <1>1, <1>2 DEF LiveIsListed, Listed
<1>4. MapsNameClients'
  BY <1>1, <1>2 DEF MapsNameClients, TypeOK
<1>5. EntriesNameClients'
  BY <1>0, <1>1, <1>2 DEF EntriesNameClients, Listed
<1>6. EntriesDiffer'
  BY <1>0, <1>1, <1>2 DEF EntriesDiffer, Listed
<1>7. RemoverInv'
  BY <1>0, <1>1, <1>2 DEF RemoverInv, Listed
<1>8. LifeInv'
  BY <1>2 DEF LifeInv
<1>9. ListenerInv' /\ NoOverwrite'
  BY <1>0, <1>1, <1>2 DEF ListenerInv, NoOverwrite
<1>. QED  BY <1>3, <1>4, <1>5, <1>6, <1>7, <1>8, <1>9

\* A thread between ~Client and Unlock holds the mutex, and its client is
\* not live any more.
LEMMA RemoverFacts ==
  ASSUME TypeOK, TableInv, NEW c \in Clients,
         kpc[c] \in {"unlink", "swap", "pop"}
  PROVE  /\ mutex = c /\ lpc # "register" /\ ids[c] \in IdPairs
         /\ ~Live(c) /\ ri \in Listed
         /\ kpc[c] = "unlink" =>
              pubMap[ids[c].pub] = c /\ privMap[ids[c].priv] = c
         /\ kpc[c] # "unlink" =>
              pubMap[ids[c].pub] = None /\ privMap[ids[c].priv] = None
         /\ kpc[c] # "pop" => slots[ri] = ids[c]
         /\ kpc[c] = "pop" => slots[ri] = slots[count]
                                /\ (ri = count => slots[ri] = ids[c])
<1>. USE RegistryAssumption DEF TableInv
<1>1. mutex = c
  BY DEF RemoverInv
<1>2. ~Live(c)
  BY DEF LifeInv, Live
<1>3. lpc # "register"
  BY <1>1 DEF ListenerInv
<1>. QED  BY <1>1, <1>2, <1>3 DEF RemoverInv

\* The maps forget a client that is not live.
LEMMA UnlinkTable ==
  ASSUME TypeOK, TableInv, NEW c \in Clients, RemoveUnlink(c)
  PROVE  TableInv'
<1>. USE RegistryAssumption DEF TableInv
<1>0. /\ mutex = c /\ lpc # "register" /\ ids[c] \in IdPairs
      /\ ~Live(c) /\ ri \in Listed /\ kpc[c] = "unlink"
      /\ pubMap[ids[c].pub] = c /\ privMap[ids[c].priv] = c
      /\ slots[ri] = ids[c]
  BY RemoverFacts DEF RemoveUnlink
<1>1. /\ ids' = ids /\ slots' = slots /\ count' = count /\ mutex' = mutex
      /\ life' = life /\ ri' = ri
      /\ lpc' = lpc /\ lclient' = lclient /\ lids' = lids
      /\ \A x \in Clients : x # c => kpc'[x] = kpc[x]
      /\ kpc'[c] = "swap"
  BY DEF RemoveUnlink, objects, listener, TypeOK
<1>2. /\ ids[c].pub \in PublicIds /\ ids[c].priv \in PrivateIds
      /\ pubMap'[ids[c].pub] = None /\ privMap'[ids[c].priv] = None
      /\ \A p \in PublicIds : p # ids[c].pub => pubMap'[p] = pubMap[p]
      /\ \A p \in PrivateIds : p # ids[c].priv => privMap'[p] = privMap[p]
  BY <1>0 DEF RemoveUnlink, TypeOK, IdPairs
<1>3. \A x : Live(x)' <=> Live(x)
  BY <1>1 DEF Live
<1>4. LiveIsListed'
  <2>1. \A x \in Clients : Live(x) => /\ ids[x] \in IdPairs
                                      /\ ids[x].pub # ids[c].pub
                                      /\ ids[x].priv # ids[c].priv
    BY <1>0 DEF LiveIsListed
  <2>2. \A x \in Clients : Live(x) => /\ pubMap'[ids[x].pub] = pubMap[ids[x].pub]
                                      /\ privMap'[ids[x].priv] = privMap[ids[x].priv]
    BY <2>1, <1>2 DEF IdPairs
  <2>. QED  BY <2>1, <2>2, <1>1, <1>3 DEF LiveIsListed, Listed
<1>5. MapsNameClients'
  <2>1. /\ \A p \in PublicIds : pubMap'[p] # None => pubMap'[p] = pubMap[p]
        /\ \A p \in PrivateIds : privMap'[p] # None => privMap'[p] = privMap[p]
    BY <1>2
  <2>. QED  BY <2>1, <1>1, <1>3 DEF MapsNameClients
<1>6. EntriesNameClients'
  BY <1>0, <1>1, <1>3 DEF EntriesNameClients, Listed
<1>7. EntriesDiffer'
  BY <1>0, <1>1 DEF EntriesDiffer, Listed
<1>8. RemoverInv'
  BY <1>0, <1>1, <1>2 DEF RemoverInv, Listed
<1>9. LifeInv'
  BY <1>0, <1>1 DEF LifeInv
<1>10. ListenerInv' /\ NoOverwrite'
  <2>1. lpc \in {"add", "register"} => lids.pub \in PublicIds /\ lids.priv \in PrivateIds
    BY DEF ListenerInv, IdPairs
  <2>2. lpc \in {"add", "register"} =>
          pubMap'[lids.pub] = None /\ privMap'[lids.priv] = None
    BY <2>1, <1>2 DEF NoOverwrite
  <2>. QED  BY <2>2, <1>1 DEF ListenerInv, NoOverwrite
<1>. QED  BY <1>4, <1>5, <1>6, <1>7, <1>8, <1>9, <1>10

\* The last element is copied over the entry of the client that goes.
LEMMA SwapTable ==
  ASSUME TypeOK, TableInv, NEW c \in Clients, RemoveSwap(c)
  PROVE  TableInv'
<1>. USE RegistryAssumption DEF TableInv
<1>0. /\ mutex = c /\ lpc # "register" /\ ids[c] \in IdPairs
      /\ ~Live(c) /\ ri \in Listed /\ kpc[c] = "swap"
      /\ pubMap[ids[c].pub] = None /\ privMap[ids[c].priv] = None
      /\ slots[ri] = ids[c]
  BY RemoverFacts DEF RemoveSwap
<1>1. /\ ids' = ids /\ count' = count /\ mutex' = mutex
      /\ pubMap' = pubMap /\ privMap' = privMap
      /\ life' = life /\ ri' = ri
      /\ lpc' = lpc /\ lclient' = lclient /\ lids' = lids
      /\ \A x \in Clients : x # c => kpc'[x] = kpc[x]
      /\ kpc'[c] = "pop"
  BY DEF RemoveSwap, objects, listener, TypeOK
<1>2. /\ count \in Listed /\ Listed' = Listed
      /\ slots'[ri] = slots[count]
      /\ \A i \in Listed : i # ri => slots'[i] = slots[i]
  BY <1>0 DEF RemoveSwap, TypeOK, Listed
<1>3. \A x : Live(x)' <=> Live(x)
  BY <1>1 DEF Live
<1>4. LiveIsListed'
  <2>. SUFFICES ASSUME NEW x \in Clients, Live(x)
                PROVE  \E i \in Listed : slots'[i] = ids[x]
    BY <1>1, <1>2, <1>3 DEF LiveIsListed
  <2>1. PICK i \in Listed : slots[i] = ids[x]
    BY DEF LiveIsListed
  <2>2. i # ri
    BY <2>1, <1>0 DEF LiveIsListed
  <2>. QED  BY <2>1, <2>2, <1>2
<1>5. MapsNameClients'
  BY <1>1, <1>3 DEF MapsNameClients
<1>6. EntriesNameClients'
  <2>. SUFFICES ASSUME NEW i \in Listed
                PROVE  \/ \E x \in Clients : Live(x) /\ slots'[i] = ids[x]
                       \/ i = ri /\ slots'[i] = ids[c] /\ i = count
    BY <1>0, <1>1, <1>2, <1>3 DEF EntriesNameClients
  <2>1. \A j \in Listed : j # ri => \E x \in Clients : Live(x) /\ slots[j] = ids[x]
    BY DEF EntriesNameClients
  <2>2. CASE i # ri
    BY <2>1, <2>2, <1>2
  <2>3. CASE i = ri /\ ri # count
    BY <2>1, <2>3, <1>2
  <2>4. CASE i = ri /\ ri = count
    BY <2>4, <1>0, <1>2
  <2>. QED  BY <2>2, <2>3, <2>4
<1>7. EntriesDiffer'
  <2>. SUFFICES ASSUME NEW i \in Listed, NEW j \in Listed,
                       \/ slots'[i].pub = slots'[j].pub
                       \/ slots'[i].priv = slots'[j].priv,
                       i # j
                PROVE  {i, j} = {ri, count}
    BY <1>0, <1>1, <1>2 DEF EntriesDiffer
  <2>1. \A k, l \in Listed :
          (slots[k].pub = slots[l].pub \/ slots[k].priv = slots[l].priv) => k = l
    BY <1>0 DEF EntriesDiffer
  <2>2. CASE i # ri /\ j # ri
    BY <2>1, <2>2, <1>2
  <2>3. CASE i = ri
    BY <2>1, <2>3, <1>2
  <2>4. CASE j = ri
    BY <2>1, <2>4, <1>2
  <2>. QED  BY <2>2, <2>3, <2>4
<1>8. RemoverInv'
  BY <1>0, <1>1, <1>2 DEF RemoverInv
<1>9. LifeInv'
  BY <1>0, <1>1 DEF LifeInv
<1>10. ListenerInv' /\ NoOverwrite'
  BY <1>0, <1>1 DEF ListenerInv, NoOverwrite
<1>. QED  BY <1>4, <1>5, <1>6, <1>7, <1>8, <1>9, <1>10

\* The copied element is popped, and the mutex is given back.
LEMMA PopTable ==
  ASSUME TypeOK, TableInv, NEW c \in Clients, RemovePop(c)
  PROVE  TableInv'
<1>. USE RegistryAssumption DEF TableInv
<1>0. /\ mutex = c /\ lpc # "register" /\ ids[c] \in IdPairs
      /\ ~Live(c) /\ ri \in Listed /\ kpc[c] = "pop"
      /\ pubMap[ids[c].pub] = None /\ privMap[ids[c].priv] = None
      /\ slots[ri] = slots[count] /\ (ri = count => slots[ri] = ids[c])
  BY RemoverFacts DEF RemovePop
<1>1. /\ ids' = ids /\ slots' = slots /\ mutex' = None
      /\ pubMap' = pubMap /\ privMap' = privMap
      /\ life' = life /\ ri' = ri
      /\ lpc' = lpc /\ lclient' = lclient /\ lids' = lids
      /\ \A x \in Clients : x # c => kpc'[x] = kpc[x]
      /\ kpc'[c] = "done"
  BY DEF RemovePop, objects, listener, TypeOK
<1>2. count \in Listed /\ Listed' = Listed \ {count}
  BY <1>0 DEF RemovePop, TypeOK, Listed
<1>3. \A x : Live(x)' <=> Live(x)
  BY <1>1 DEF Live
<1>4. LiveIsListed'
  <2>. SUFFICES ASSUME NEW x \in Clients, Live(x)
                PROVE  \E i \in Listed' : slots[i] = ids[x]
    BY <1>1, <1>3 DEF LiveIsListed
  <2>1. PICK i \in Listed : slots[i] = ids[x]
    BY DEF LiveIsListed
  <2>2. CASE i # count
    BY <2>1, <2>2, <1>2
  <2>3. CASE i = count
    <3>1. ids[x] # ids[c]
      BY <1>0 DEF LiveIsListed
    <3>2. ri # count /\ slots[ri] = ids[x]
      BY <2>1, <2>3, <3>1, <1>0
    <3>. QED  BY <3>2, <1>0, <1>2
  <2>. QED  BY <2>2, <2>3
<1>5. MapsNameClients'
  BY <1>0, <1>1, <1>3 DEF MapsNameClients
<1>6. EntriesNameClients'
  BY <1>0, <1>1, <1>2, <1>3 DEF EntriesNameClients
<1>7. EntriesDiffer'
  BY <1>1, <1>2 DEF EntriesDiffer
<1>8. RemoverInv'
  BY <1>0, <1>1 DEF RemoverInv
<1>9. LifeInv'
  BY <1>0, <1>1 DEF LifeInv
<1>10. ListenerInv' /\ NoOverwrite'
  BY <1>0, <1>1 DEF ListenerInv, NoOverwrite
<1>. QED  BY <1>4, <1>5, <1>6, <1>7, <1>8, <1>9, <1>10

\* Every step preserves the table invariant.
LEMMA NextTableInv ==
  ASSUME TypeOK, TableInv, [Next]_vars
  PROVE  TableInv'
BY NextCases, AcceptTable, AddTable, RegisterTable, WakeTable, FindTable,
   DestroyTable, UnlinkTable, SwapTable, PopTable, TalkFrame

-----------------------------------------------------------------------------
(* The locked readers.                                                     *)

\* While nobody holds the mutex, the maps name no object that is being or has
\* been deleted.
LEMMA NamedIsSafe ==
  ASSUME TypeOK, TableInv, mutex = None, NEW p \in PrivateIds
  PROVE  ~Unsafe(privMap[p])
<1>1. CASE privMap[p] = None
  BY <1>1, RegistryAssumption DEF Unsafe
<1>2. CASE privMap[p] # None
  <2>1. privMap[p] \in Clients
    BY <1>2 DEF TypeOK
  <2>2. Live(privMap[p])
    BY <1>2, <2>1, RegistryAssumption DEF TableInv, MapsNameClients
  <2>. QED  BY <2>2 DEF Live, Unsafe
<1>. QED  BY <1>1, <1>2

\* So that the broadcaster and the UDP receiver are safe, ...
LEMMA ReadersSafe ==
  ASSUME TypeOK, TableInv, LockedReadersSafe, [Next]_vars
  PROVE  LockedReadersSafe'
<1>1. ASSUME NEW site \in {"listener", "application"}, NEW c, Touch(site, c)
      PROVE  LockedReadersSafe'
  BY <1>1 DEF Touch, LockedReadersSafe
<1>2. CASE ListenerTalks
  BY <1>1, <1>2 DEF ListenerTalks, ListenerIntroduce, ListenerShipIds,
     ListenerAnnounce, SnapshotTest, SnapshotCompare, SnapshotRead,
     SnapshotTell, LockedReadersSafe
<1>3. CASE OthersTalk
  <2>1. CASE AppUse
    BY <2>1, <1>1 DEF AppUse
  <2>2. CASE BroadcastNext
    <3>1. \A i \in Listed : slots[i].priv \in PrivateIds
      <4>1. ASSUME NEW i \in Listed  PROVE slots[i] \in IdPairs
        BY DEF TypeOK, Listed
      <4>. QED  BY <4>1 DEF IdPairs
    <3>2. \A c \in Recipients(Head(bq)) : ~Unsafe(c)
      BY <2>2, <3>1, NamedIsSafe DEF Recipients, BroadcastNext
    <3>3. dangling' = dangling
      BY <2>2, <3>2 DEF BroadcastNext
    <3>. QED  BY <3>3 DEF LockedReadersSafe
  <2>3. ASSUME NEW d \in net, UdpReceive(d)
        PROVE  LockedReadersSafe'
    <3>1. d.priv \in PrivateIds
      BY DEF TypeOK
    <3>2. ~Unsafe(privMap[d.priv])
      BY <2>3, <3>1, NamedIsSafe DEF UdpReceive
    <3>3. dangling' = dangling
      BY <2>3, <3>2 DEF UdpReceive, Touch
    <3>. QED  BY <3>3 DEF LockedReadersSafe
  <2>. QED
    BY <1>3, <2>1, <2>2, <2>3
    DEF OthersTalk, ClientHello, AppLookup, AppBroadcast, LockedReadersSafe
<1>4. dangling' = dangling => LockedReadersSafe'
  BY DEF LockedReadersSafe
<1>. QED
  BY <1>2, <1>3, <1>4, NextCases
  DEF ListenerAccept, AddClientNew, AddClientRegister, Wake, RemoveFind,
      DestroyClient, RemoveUnlink, RemoveSwap, RemovePop, vars

-----------------------------------------------------------------------------
(* Types.                                                                  *)

BroadcastMessages ==
  [op : {"ADD", "REMOVE", "APP"}, id : PublicIds \cup {None}, exclude : SUBSET PrivateIds]

\* Queueing a message keeps every inbox a sequence of messages.
LEMMA QueueType ==
  ASSUME TypeOK, NEW c \in Clients, NEW m \in InboxMessages, Queue(c, m)
  PROVE  inbox' \in [Clients -> Seq(InboxMessages)]
<1>1. inbox[c] \in Seq(InboxMessages)
  BY DEF TypeOK
<1>2. Append(inbox[c], m) \in Seq(InboxMessages)
  BY <1>1
<1>. QED  BY <1>2 DEF Queue, TypeOK

LEMMA TouchType ==
  ASSUME TypeOK, NEW c, NEW site, Touch(site, c),
         site \in {"listener", "packet", "broadcaster", "udp", "application"}
  PROVE  dangling' \subseteq {"listener", "packet", "broadcaster", "udp", "application"}
BY DEF Touch, TypeOK

\* The listener's steps keep the types.
LEMMA ListenerType ==
  ASSUME TypeOK, TableInv, ListenerStep
  PROVE  TypeOK'
<1>. USE RegistryAssumption DEF objects, remover, messages, udp, table
<1>0. lpc # "accept" => lclient \in Clients /\ lids \in IdPairs
                          /\ lids.pub \in PublicIds /\ lids.priv \in PrivateIds
  BY DEF TableInv, ListenerInv, IdPairs
<1>1. ASSUME NEW c \in Clients, ListenerAccept(c)
      PROVE  TypeOK'
  BY <1>1 DEF ListenerAccept, TypeOK
<1>2. CASE AddClientNew
  <2>1. /\ ids' \in [Clients -> IdPairs \cup {None}]
        /\ life' \in [Clients -> {"none", "alive", "woken", "dying", "freed"}]
    BY <1>0, <1>2 DEF AddClientNew, TypeOK
  <2>. QED  BY <2>1, <1>2 DEF AddClientNew, TypeOK
<1>3. CASE AddClientRegister
  <2>1. /\ pubMap' \in [PublicIds -> Clients \cup {None}]
        /\ privMap' \in [PrivateIds -> Clients \cup {None}]
    BY <1>0, <1>3 DEF AddClientRegister, TypeOK
  <2>2. /\ slots' \in Seq(IdPairs) /\ count' \in 0 .. Len(slots')
        /\ Len(slots) <= Len(slots') /\ Len(slots') \in Nat
    <3>. lids \in IdPairs /\ slots \in Seq(IdPairs) /\ count \in 0 .. Len(slots)
      BY <1>0, <1>3 DEF AddClientRegister, TypeOK
    <3>1. CASE count = Len(slots)
      BY <3>1, <1>3 DEF AddClientRegister
    <3>2. CASE count # Len(slots)
      BY <3>2, <1>3 DEF AddClientRegister
    <3>. QED  BY <3>1, <3>2
  <2>. QED  BY <2>1, <2>2, <1>3 DEF AddClientRegister, TypeOK
<1>4. CASE ListenerIntroduce
  BY <1>0, <1>4, TouchType DEF ListenerIntroduce, TypeOK
<1>5. CASE ListenerShipIds
  <2>1. [op |-> "GET_ID", id |-> lids.pub] \in InboxMessages
    BY <1>0, <1>5 DEF ListenerShipIds, InboxMessages
  <2>2. inbox' \in [Clients -> Seq(InboxMessages)]
    BY <1>0, <1>5, <2>1, QueueType DEF ListenerShipIds
  <2>3. dangling' \subseteq {"listener", "packet", "broadcaster", "udp", "application"}
    BY <1>5, TouchType DEF ListenerShipIds
  <2>. QED  BY <2>2, <2>3, <1>5 DEF ListenerShipIds, AcceptNext, TypeOK
<1>6. CASE ListenerAnnounce
  <2>1. bq' \in Seq(BroadcastMessages)
    BY <1>0, <1>6 DEF ListenerAnnounce, TypeOK, BroadcastMessages
  <2>2. dangling' \subseteq {"listener", "packet", "broadcaster", "udp", "application"}
    BY <1>6 DEF ListenerAnnounce, TypeOK
  <2>. QED  BY <2>1, <2>2, <1>6 DEF ListenerAnnounce, TypeOK, BroadcastMessages
<1>7. CASE SnapshotTest
  BY <1>7 DEF SnapshotTest, AcceptNext, Listed, TypeOK
<1>8. CASE SnapshotCompare
  BY <1>8 DEF SnapshotCompare, TypeOK
<1>9. CASE SnapshotRead
  <2>1. slots[lidx] \in IdPairs
    BY <1>9 DEF SnapshotRead, TypeOK
  <2>2. slots[lidx].pub \in PublicIds
    BY <2>1 DEF IdPairs
  <2>. QED  BY <2>2, <1>9 DEF SnapshotRead, TypeOK
<1>10. CASE SnapshotTell
  <2>1. [op |-> "ADD", id |-> ltold] \in InboxMessages
    BY <1>10 DEF SnapshotTell, InboxMessages, TypeOK
  <2>2. inbox' \in [Clients -> Seq(InboxMessages)]
    BY <1>0, <1>10, <2>1, QueueType DEF SnapshotTell
  <2>3. dangling' \subseteq {"listener", "packet", "broadcaster", "udp", "application"}
    BY <1>10, TouchType DEF SnapshotTell
  <2>. QED  BY <2>2, <2>3, <1>10 DEF SnapshotTell, TypeOK
<1>. QED
  BY <1>1, <1>2, <1>3, <1>4, <1>5, <1>6, <1>7, <1>8, <1>9, <1>10
  DEF ListenerStep

\* The steps of a client keep the types.
LEMMA ClientType ==
  ASSUME TypeOK, TableInv, HeardInv, NEW c \in Clients,
         Wake(c) \/ Remove(c) \/ DestroyClient(c) \/ ClientHello(c)
  PROVE  TypeOK'
<1>. USE RegistryAssumption DEF objects, remover, messages, udp, table, listener
<1>1. CASE Wake(c)
  BY <1>1 DEF Wake, TypeOK
<1>2. CASE RemoveFind(c)
  <2>1. /\ ri' \in Listed /\ mutex' = c
        /\ life' = [life EXCEPT ![c] = "dying"]
        /\ kpc' = [kpc EXCEPT ![c] = "joining"]
    BY <1>2, FindFacts
  <2>2. ri' \in 0 .. Len(slots)
    BY <2>1 DEF Listed, TypeOK
  <2>. QED  BY <1>2, <2>1, <2>2 DEF RemoveFind, TypeOK
<1>3. CASE DestroyClient(c)
  <2>1. /\ Victim = c /\ ids[c] \in IdPairs
        /\ life' = [life EXCEPT ![c] = "freed"]
        /\ kpc' = [kpc EXCEPT ![c] = "unlink"]
    BY <1>3, DestroyFacts
  <2>2. [op |-> "REMOVE", id |-> ids[Victim].pub, exclude |-> {}]
          \in BroadcastMessages
    BY <2>1 DEF BroadcastMessages, IdPairs
  <2>3. bq' \in Seq(BroadcastMessages)
    BY <1>3, <2>2 DEF DestroyClient, TypeOK, BroadcastMessages
  <2>. QED  BY <1>3, <2>1, <2>3 DEF DestroyClient, TypeOK, BroadcastMessages
<1>4. CASE RemoveUnlink(c)
  BY <1>4, ZenonT(30) DEF RemoveUnlink, TypeOK
<1>5. CASE RemoveSwap(c)
  <2>1. ri \in Listed
    BY <1>5, RemoverFacts DEF RemoveSwap
  <2>2. slots \in Seq(IdPairs) /\ slots[count] \in IdPairs /\ ri \in 1 .. Len(slots)
    BY <2>1 DEF TypeOK, Listed
  <2>3. slots' = [slots EXCEPT ![ri] = slots[count]]
    BY <1>5 DEF RemoveSwap
  <2>4. slots' \in Seq(IdPairs) /\ Len(slots') = Len(slots)
    BY <2>2, <2>3
  <2>. QED  BY <1>5, <2>4 DEF RemoveSwap, TypeOK
<1>6. CASE RemovePop(c)
  <2>1. ri \in Listed
    BY <1>6, RemoverFacts DEF RemovePop
  <2>2. count' \in 0 .. Len(slots)
    BY <1>6, <2>1 DEF RemovePop, Listed, TypeOK
  <2>. QED  BY <1>6, <2>2 DEF RemovePop, TypeOK
<1>7. CASE ClientHello(c)
  <2>1. ids[c] \in IdPairs => ids[c].priv \in PrivateIds
    BY DEF IdPairs
  <2>2. ids[c] \in IdPairs
    <3>1. inbox[c] # <<>>
      BY <1>7 DEF ClientHello
    <3>. QED  BY <3>1 DEF HeardInv
  <2>. QED  BY <1>7, <2>1, <2>2 DEF ClientHello, TypeOK
<1>. QED  BY <1>1, <1>2, <1>3, <1>4, <1>5, <1>6, <1>7 DEF Remove

\* The other readers keep the types.
LEMMA OthersType ==
  ASSUME TypeOK, TableInv, HeardInv, OthersTalk
  PROVE  TypeOK'
<1>. USE RegistryAssumption DEF objects, remover, messages, udp, table, listener
<1>1. ASSUME NEW c \in Clients, ClientHello(c)
      PROVE  TypeOK'
  BY <1>1, ClientType
<1>2. CASE BroadcastNext
  <2>. DEFINE m == Head(bq)
              copy == [op |-> m.op, id |-> m.id]
  <2>1. bq \in Seq(BroadcastMessages) /\ bq # <<>>
    BY <1>2 DEF BroadcastNext, TypeOK, BroadcastMessages
  <2>2. m \in BroadcastMessages /\ bq' \in Seq(BroadcastMessages)
    BY <1>2, <2>1 DEF BroadcastNext
  <2>3. copy \in InboxMessages
    BY <2>2 DEF BroadcastMessages, InboxMessages
  <2>4. ASSUME NEW c \in Clients
        PROVE  inbox'[c] \in Seq(InboxMessages)
    <3>1. inbox[c] \in Seq(InboxMessages)
      BY DEF TypeOK
    <3>2. Append(inbox[c], copy) \in Seq(InboxMessages)
      BY <3>1, <2>3
    <3>3. inbox'[c] \in {inbox[c], Append(inbox[c], copy)}
      BY <1>2 DEF BroadcastNext
    <3>. QED  BY <3>1, <3>2, <3>3
  <2>5. inbox' \in [Clients -> Seq(InboxMessages)]
    BY <1>2, <2>4 DEF BroadcastNext
  <2>6. dangling' \subseteq {"listener", "packet", "broadcaster", "udp", "application"}
    BY <1>2 DEF BroadcastNext, TypeOK
  <2>. QED  BY <1>2, <2>2, <2>5, <2>6 DEF BroadcastNext, TypeOK, BroadcastMessages
<1>3. ASSUME NEW d \in net, UdpReceive(d)
      PROVE  TypeOK'
  <2>1. dangling' \subseteq {"listener", "packet", "broadcaster", "udp", "application"}
    BY <1>3, TouchType DEF UdpReceive
  <2>2. d.from \in Clients
    BY DEF TypeOK
  <2>3. origin' \in [Clients -> Clients \cup {None}]
    BY <1>3, <2>2 DEF UdpReceive, TypeOK
  <2>. QED  BY <1>3, <2>1, <2>3 DEF UdpReceive, TypeOK
<1>4. ASSUME NEW p \in PrivateIds, AppLookup(p)
      PROVE  TypeOK'
  BY <1>4 DEF AppLookup, TypeOK
<1>5. CASE AppUse
  <2>1. dangling' \subseteq {"listener", "packet", "broadcaster", "udp", "application"}
    BY <1>5, TouchType DEF AppUse
  <2>. QED  BY <1>5, <2>1 DEF AppUse, TypeOK
<1>6. CASE AppBroadcast
  <2>1. PICK exclude \in SUBSET PrivateIds :
          bq' = Append(bq, [op |-> "APP", id |-> None, exclude |-> exclude])
    BY <1>6 DEF AppBroadcast
  <2>2. [op |-> "APP", id |-> None, exclude |-> exclude] \in BroadcastMessages
    BY DEF BroadcastMessages
  <2>3. bq' \in Seq(BroadcastMessages)
    BY <2>1, <2>2 DEF TypeOK, BroadcastMessages
  <2>. QED  BY <1>6, <2>3 DEF AppBroadcast, TypeOK, BroadcastMessages
<1>. QED  BY <1>1, <1>2, <1>3, <1>4, <1>5, <1>6 DEF OthersTalk

\* Every step keeps the types.
LEMMA NextTypeOK ==
  ASSUME TypeOK, TableInv, HeardInv, [Next]_vars
  PROVE  TypeOK'
<1>1. CASE UNCHANGED vars
  BY <1>1 DEF vars, TypeOK
<1>. QED
  BY <1>1, ListenerType, ClientType, OthersType DEF Next, OthersTalk

\* Only a client that has been constructed is sent anything.
LEMMA NextHeard ==
  ASSUME TypeOK, TableInv, HeardInv, [Next]_vars
  PROVE  HeardInv'
<1>. USE RegistryAssumption
<1>1. ASSUME NEW m, Queue(lclient, m), ids[lclient] \in IdPairs, ids' = ids
      PROVE  HeardInv'
  BY <1>1 DEF Queue, HeardInv, TypeOK
<1>2. CASE ListenerShipIds \/ SnapshotTell
  <2>1. ids[lclient] \in IdPairs
    BY <1>2 DEF ListenerShipIds, SnapshotTell, TableInv, ListenerInv
  <2>. QED  BY <1>1, <1>2, <2>1 DEF ListenerShipIds, SnapshotTell, objects
<1>3. CASE AddClientNew
  <2>1. lids \in IdPairs /\ lclient \in Clients
    BY <1>3 DEF AddClientNew, TableInv, ListenerInv
  <2>. QED  BY <1>3, <2>1 DEF AddClientNew, messages, HeardInv, TypeOK
<1>4. CASE BroadcastNext
  <2>1. \A c \in Recipients(Head(bq)) : ids[c] \in IdPairs
    <3>1. \A i \in Listed : slots[i].priv \in PrivateIds
      <4>1. ASSUME NEW i \in Listed  PROVE slots[i] \in IdPairs
        BY DEF TypeOK, Listed
      <4>. QED  BY <4>1 DEF IdPairs
    <3>. QED  BY <3>1 DEF Recipients, TableInv, MapsNameClients
  <2>2. ids' = ids
    BY <1>4 DEF BroadcastNext, objects
  <2>3. \A c \in Clients : inbox'[c] = inbox[c] \/ c \in Recipients(Head(bq))
    BY <1>4 DEF BroadcastNext, TypeOK
  <2>. QED  BY <2>1, <2>2, <2>3 DEF HeardInv
<1>5. inbox' = inbox /\ ids' = ids => HeardInv'
  BY DEF HeardInv
<1>. QED
  BY <1>2, <1>3, <1>4, <1>5, NextCases
  DEF ListenerTalks, ListenerIntroduce, ListenerAnnounce, SnapshotTest,
      SnapshotCompare, SnapshotRead, ListenerAccept, AddClientRegister, Wake,
      RemoveFind, DestroyClient, RemoveUnlink, RemoveSwap, RemovePop,
      OthersTalk, ClientHello, UdpReceive, AppLookup, AppUse, AppBroadcast, vars,
      objects, messages

-----------------------------------------------------------------------------
(* What is said of clients: removals and addresses.                        *)

\* An object that has not been constructed has no identifiers.
FreshInv == \A c \in Clients : life[c] = "none" => ids[c] = None

\* A client with the public id p has been deleted.
Gone(p) == \E d \in Clients : ids[d] # None /\ ids[d].pub = p /\ life[d] = "freed"

\* Whatever is said of a removal, under way or arrived, is true.
GoneInv ==
  /\ \A m \in Range(bq) : m.op = "REMOVE" => Gone(m.id)
  /\ \A c \in Clients : \A m \in Range(inbox[c]) : m.op = "REMOVE" => Gone(m.id)

\* A datagram carries the private id of the client it comes from, and only
\* such a datagram has taught anybody an address.
SenderInv ==
  /\ \A d \in net : ids[d.from] # None /\ ids[d.from].priv = d.priv
  /\ \A c \in Clients : origin[c] # None =>
       /\ ids[c] # None /\ ids[origin[c]] # None
       /\ ids[origin[c]].priv = ids[c].priv

TalkInv == FreshInv /\ GoneInv /\ SenderInv

\* An object keeps its identifiers, and once freed stays freed.
LEMMA ObjectsKeep ==
  ASSUME TypeOK, TableInv, FreshInv, [Next]_vars
  PROVE  /\ \A c \in Clients : ids[c] # None => ids'[c] = ids[c]
         /\ \A c \in Clients : life[c] = "freed" => life'[c] = "freed"
         /\ FreshInv'
<1>. USE RegistryAssumption
<1>1. CASE AddClientNew
  <2>1. lclient \in Clients /\ life[lclient] = "none"
    BY <1>1 DEF AddClientNew, TableInv, ListenerInv
  <2>. QED  BY <1>1, <2>1 DEF AddClientNew, FreshInv, TypeOK
<1>2. ASSUME NEW c \in Clients, Wake(c)
      PROVE  life' = [life EXCEPT ![c] = "woken"] /\ life[c] = "alive" /\ ids' = ids
  BY <1>2 DEF Wake
<1>3. ASSUME NEW c \in Clients, RemoveFind(c)
      PROVE  life' = [life EXCEPT ![c] = "dying"] /\ life[c] = "woken" /\ ids' = ids
  BY <1>3, FindFacts DEF RemoveFind
<1>4. ASSUME NEW c \in Clients, DestroyClient(c)
      PROVE  life' = [life EXCEPT ![c] = "freed"] /\ life[c] = "dying" /\ ids' = ids
  BY <1>4, DestroyFacts DEF DestroyClient
<1>5. CASE \E c \in Clients : Wake(c) \/ RemoveFind(c) \/ DestroyClient(c)
  BY <1>2, <1>3, <1>4, <1>5 DEF FreshInv, TypeOK
<1>6. UNCHANGED <<ids, life>>
        => /\ \A c \in Clients : ids[c] # None => ids'[c] = ids[c]
           /\ \A c \in Clients : life[c] = "freed" => life'[c] = "freed"
           /\ FreshInv'
  BY DEF FreshInv
<1>. QED
  BY <1>1, <1>5, <1>6, NextCases
  DEF ListenerTalks, ListenerIntroduce, ListenerShipIds, ListenerAnnounce,
      SnapshotTest, SnapshotCompare, SnapshotRead, SnapshotTell, ListenerAccept,
      AddClientRegister, RemoveUnlink, RemoveSwap, RemovePop, OthersTalk,
      ClientHello, BroadcastNext, UdpReceive, AppLookup, AppUse, AppBroadcast,
      vars, objects

\* What has been appended to or taken from a sequence of messages.
LEMMA RangeAppend ==
  ASSUME NEW S, NEW s \in Seq(S), NEW m \in S
  PROVE  Range(Append(s, m)) = Range(s) \cup {m}
<1>. DEFINE t == Append(s, m)
<1>1. /\ DOMAIN t = 1 .. Len(s) + 1 /\ DOMAIN s = 1 .. Len(s) /\ Len(s) \in Nat
      /\ \A i \in 1 .. Len(s) : t[i] = s[i]
      /\ t[Len(s) + 1] = m
  OBVIOUS
<1>. HIDE DEF t
<1>2. \A x : x \in Range(t) => x \in Range(s) \cup {m}
  <2>1. \A i \in 1 .. Len(s) + 1 : i \in 1 .. Len(s) \/ i = Len(s) + 1
    BY <1>1
  <2>. QED  BY <1>1, <2>1 DEF Range
<1>3. \A x : x \in Range(s) \cup {m} => x \in Range(t)
  <2>1. Len(s) + 1 \in DOMAIN t /\ \A i \in 1 .. Len(s) : i \in DOMAIN t
    BY <1>1
  <2>. QED  BY <1>1, <2>1 DEF Range
<1>4. Range(t) = Range(s) \cup {m}
  BY <1>2, <1>3
<1>. QED  BY <1>4 DEF t

LEMMA RangeTail ==
  ASSUME NEW S, NEW s \in Seq(S), s # <<>>
  PROVE  Range(Tail(s)) \subseteq Range(s) /\ Head(s) \in Range(s)
BY DEF Range

\* A step says nothing false of a removal.
LEMMA NextGone ==
  ASSUME TypeOK, TableInv, FreshInv, GoneInv, [Next]_vars
  PROVE  GoneInv'
<1>. USE RegistryAssumption
<1>1. \A p : Gone(p) => Gone(p)'
  BY ObjectsKeep DEF Gone
<1>2. bq \in Seq(BroadcastMessages) /\ \A c \in Clients : inbox[c] \in Seq(InboxMessages)
  BY DEF TypeOK, BroadcastMessages
<1>3. \A m \in Range(bq') : m.op = "REMOVE" => Gone(m.id)'
  <2>1. ASSUME NEW m \in BroadcastMessages, bq' = Append(bq, m),
               m.op = "REMOVE" => Gone(m.id)'
        PROVE  \A x \in Range(bq') : x.op = "REMOVE" => Gone(x.id)'
    BY <1>1, <1>2, <2>1, RangeAppend DEF GoneInv
  <2>2. CASE ListenerAnnounce
    <3>1. lids \in IdPairs
      BY <2>2 DEF ListenerAnnounce, TableInv, ListenerInv
    <3>2. [op |-> "ADD", id |-> lids.pub, exclude |-> {lids.priv}] \in BroadcastMessages
      BY <3>1 DEF BroadcastMessages, IdPairs
    <3>. QED  BY <2>1, <2>2, <3>2 DEF ListenerAnnounce
  <2>3. ASSUME NEW c \in Clients, DestroyClient(c)
        PROVE  \A m \in Range(bq') : m.op = "REMOVE" => Gone(m.id)'
    <3>1. /\ Victim = c /\ ids[c] \in IdPairs /\ ids' = ids
          /\ life' = [life EXCEPT ![c] = "freed"]
      BY <2>3, DestroyFacts DEF DestroyClient
    <3>2. Gone(ids[c].pub)'
      <4>1. ids'[c] # None /\ ids'[c].pub = ids[c].pub /\ life'[c] = "freed"
        BY <3>1, RegistryAssumption DEF TypeOK, IdPairs
      <4>. QED  BY <3>1, <4>1 DEF Gone
    <3>3. [op |-> "REMOVE", id |-> ids[c].pub, exclude |-> {}] \in BroadcastMessages
      BY <3>1 DEF BroadcastMessages, IdPairs
    <3>. QED  BY <2>1, <2>3, <3>1, <3>2, <3>3 DEF DestroyClient
  <2>4. CASE AppBroadcast
    <3>1. PICK exclude \in SUBSET PrivateIds :
            bq' = Append(bq, [op |-> "APP", id |-> None, exclude |-> exclude])
      BY <2>4 DEF AppBroadcast
    <3>2. [op |-> "APP", id |-> None, exclude |-> exclude] \in BroadcastMessages
      BY DEF BroadcastMessages
    <3>. QED  BY <2>1, <3>1, <3>2
  <2>5. CASE BroadcastNext
    BY <1>1, <1>2, <2>5, RangeTail DEF BroadcastNext, GoneInv
  <2>6. bq' = bq => \A m \in Range(bq') : m.op = "REMOVE" => Gone(m.id)'
    BY <1>1 DEF GoneInv
  <2>. QED
    BY <2>2, <2>3, <2>4, <2>5, <2>6, NextCases
    DEF ListenerTalks, ListenerIntroduce, ListenerShipIds, SnapshotTest, SnapshotCompare,
        SnapshotRead, SnapshotTell, ListenerAccept, AddClientNew, AddClientRegister,
        Wake, RemoveFind, RemoveUnlink, RemoveSwap, RemovePop, OthersTalk, ClientHello,
        UdpReceive, AppLookup, AppUse, vars, messages
<1>4. ASSUME NEW c \in Clients
      PROVE  \A m \in Range(inbox'[c]) : m.op = "REMOVE" => Gone(m.id)'
  <2>1. ASSUME NEW m \in InboxMessages, inbox'[c] \in {inbox[c], Append(inbox[c], m)},
               m.op = "REMOVE" => Gone(m.id)'
        PROVE  \A x \in Range(inbox'[c]) : x.op = "REMOVE" => Gone(x.id)'
    <3>1. Range(Append(inbox[c], m)) = Range(inbox[c]) \cup {m}
      BY <1>2, RangeAppend
    <3>2. Range(inbox'[c]) \subseteq Range(inbox[c]) \cup {m}
      BY <2>1, <3>1
    <3>3. \A x \in Range(inbox[c]) : x.op = "REMOVE" => Gone(x.id)
      BY DEF GoneInv
    <3>. QED  BY <1>1, <2>1, <3>2, <3>3
  <2>2. ASSUME NEW d, NEW m, Queue(d, m)
        PROVE  inbox'[c] \in {inbox[c], Append(inbox[c], m)}
    BY <2>2 DEF Queue, TypeOK
  <2>3. CASE ListenerShipIds
    <3>1. [op |-> "GET_ID", id |-> lids.pub] \in InboxMessages
      BY <2>3 DEF ListenerShipIds, TableInv, ListenerInv, InboxMessages, IdPairs
    <3>2. Queue(lclient, [op |-> "GET_ID", id |-> lids.pub])
      BY <2>3 DEF ListenerShipIds
    <3>. QED  BY <2>1, <2>2, <3>1, <3>2
  <2>4. CASE SnapshotTell
    <3>1. [op |-> "ADD", id |-> ltold] \in InboxMessages
      BY <2>4 DEF SnapshotTell, InboxMessages, TypeOK
    <3>2. Queue(lclient, [op |-> "ADD", id |-> ltold])
      BY <2>4 DEF SnapshotTell
    <3>. QED  BY <2>1, <2>2, <3>1, <3>2
  <2>5. CASE BroadcastNext
    <3>1. PICK m \in BroadcastMessages : m = Head(bq) /\ m \in Range(bq)
      BY <1>2, <2>5, RangeTail DEF BroadcastNext
    <3>2. PICK copy \in InboxMessages : copy = [op |-> m.op, id |-> m.id]
      BY DEF BroadcastMessages, InboxMessages
    <3>3. copy.op = "REMOVE" => Gone(copy.id)'
      BY <1>1, <3>1, <3>2 DEF GoneInv
    <3>4. inbox'[c] \in {inbox[c], Append(inbox[c], copy)}
      BY <2>5, <3>1, <3>2 DEF BroadcastNext
    <3>. QED  BY <2>1, <3>3, <3>4
  <2>6. inbox' = inbox => \A m \in Range(inbox'[c]) : m.op = "REMOVE" => Gone(m.id)'
    BY <1>1 DEF GoneInv
  <2>. QED
    BY <2>3, <2>4, <2>5, <2>6, NextCases
    DEF ListenerTalks, ListenerIntroduce, ListenerAnnounce, SnapshotTest, SnapshotCompare,
        SnapshotRead, ListenerAccept, AddClientNew, AddClientRegister, Wake, RemoveFind,
        DestroyClient, RemoveUnlink, RemoveSwap, RemovePop, OthersTalk, ClientHello,
        UdpReceive, AppLookup, AppUse, AppBroadcast, vars, messages
<1>. QED  BY <1>3, <1>4 DEF GoneInv, Gone

\* An address is learnt from a client with the same private id.
LEMMA NextSender ==
  ASSUME TypeOK, TableInv, HeardInv, FreshInv, SenderInv, [Next]_vars
  PROVE  SenderInv'
<1>. USE RegistryAssumption
<1>1. \A c \in Clients : ids[c] # None => ids'[c] = ids[c]
  BY ObjectsKeep
<1>2. \A d \in net : d.from \in Clients /\ d.priv \in PrivateIds
  BY DEF TypeOK
<1>3. UNCHANGED udp => SenderInv'
  BY <1>1, <1>2 DEF udp, SenderInv, TypeOK
<1>4. ASSUME NEW c \in Clients, ClientHello(c)
      PROVE  SenderInv'
  <2>1. inbox[c] # <<>>
    BY <1>4 DEF ClientHello
  <2>2. ids[c] # None /\ ids' = ids
    BY <1>4, <2>1 DEF HeardInv, ClientHello, objects, IdPairs
  <2>. QED  BY <1>4, <2>2, <1>2 DEF ClientHello, SenderInv
<1>5. ASSUME NEW d \in net, UdpReceive(d)
      PROVE  SenderInv'
  <2>1. privMap[d.priv] \in Clients
    BY <1>2, <1>5 DEF UdpReceive, TypeOK
  <2>2. ids[privMap[d.priv]] # None /\ ids[privMap[d.priv]].priv = d.priv /\ ids' = ids
    BY <1>2, <1>5 DEF UdpReceive, TableInv, MapsNameClients, objects, IdPairs
  <2>. QED  BY <1>2, <1>5, <2>1, <2>2 DEF UdpReceive, SenderInv, TypeOK
<1>. QED
  BY <1>3, <1>4, <1>5, NextCases
  DEF ListenerTalks, ListenerIntroduce, ListenerShipIds, ListenerAnnounce, SnapshotTest,
      SnapshotCompare, SnapshotRead, SnapshotTell, ListenerAccept, AddClientNew,
      AddClientRegister, Wake, RemoveFind, DestroyClient, RemoveUnlink, RemoveSwap,
      RemovePop, OthersTalk, BroadcastNext, AppLookup, AppUse, AppBroadcast, vars, udp

-----------------------------------------------------------------------------
(* Who knows of whom, as long as one client leaves at most.                *)

OneLeaves == \A x, y \in Leaving : x = y

\* The packet that announces a client with the identifiers n.
Announcement(n) == [op |-> "ADD", id |-> n.pub, exclude |-> {n.priv}]

\* It is in the queue b, behind the first j packets.
Behind(b, j, n) == \E k \in DOMAIN b : k > j /\ b[k] = Announcement(n)

\* The messages s tell of the id p, and of no removal since.
Tells(s, p) ==
  \E k \in DOMAIN s :
    /\ s[k] = [op |-> "ADD", id |-> p]
    /\ \A j \in DOMAIN s : j > k => s[j].id # p \/ s[j].op \notin {"ADD", "REMOVE"}

\* The listener has yet to announce client d.
Unannounced(d) == lclient = d /\ lpc \in {"register", "intro", "ship", "announce"}

\* The listener has yet to tell the new client c of client d.
InView(c, d) ==
  /\ lclient = c
  /\ \/ lpc \in {"register", "intro", "ship", "announce"}
     \/ lpc = "tell" /\ ltold = ids[d].pub
     \/ /\ lpc \in {"test", "compare", "read", "tell"}
        /\ \E i \in Listed : /\ slots[i] = ids[d] /\ lidx <= i
                             /\ lpc = "tell" => lidx < i

\* The removal of a former owner of an id is delivered before the announcement of
\* the present one.
RemovalsFirst ==
  \A d \in Clients : life[d] = "alive" =>
    \A j \in DOMAIN bq :
      bq[j].op = "REMOVE" /\ bq[j].id = ids[d].pub =>
        Unannounced(d) \/ Behind(bq, j, ids[d])

\* The news of a client for another is somewhere on its way, or has arrived.
NewsOf(c, d) ==
  \/ Unannounced(d) \/ Behind(bq, 0, ids[d])
  \/ InView(c, d) \/ Tells(inbox[c], ids[d].pub)

NewsArrives ==
  \A c, d \in Clients :
    c # d /\ life[c] = "alive" /\ life[d] = "alive" => NewsOf(c, d)

\* The client that the listener works for is the last entry, so that the entry which
\* a removal moves is its own; unless that has happened.
NewestIsLast ==
  lpc \in {"intro", "ship", "announce", "test", "compare", "read", "tell"} =>
    \/ life[lclient] # "alive" \/ slots[count] = lids
    \/ \E x \in Clients : kpc[x] = "done"

\* The listener goes through the vector from its beginning.
StartsAtFirst ==
  lpc \in {"accept", "add", "register", "intro", "ship", "announce"} => lidx = 1

NewsInv ==
  /\ IsFiniteSet(Leaving) /\ StartsAtFirst /\ NewestIsLast
  /\ ~Vendor /\ OneLeaves => RemovalsFirst /\ NewsArrives

\* What is appended to a queue is behind the rest of it, ...
LEMMA BehindAppend ==
  ASSUME NEW S, NEW b \in Seq(S), NEW m \in S, NEW n
  PROVE  /\ \A j : Behind(b, j, n) => Behind(Append(b, m), j, n)
         /\ m = Announcement(n) => \A j \in 0 .. Len(b) : Behind(Append(b, m), j, n)
<1>. DEFINE t == Append(b, m)
<1>1. /\ DOMAIN t = 1 .. Len(b) + 1 /\ DOMAIN b = 1 .. Len(b) /\ Len(b) \in Nat
      /\ \A i \in 1 .. Len(b) : t[i] = b[i]
      /\ t[Len(b) + 1] = m
  OBVIOUS
<1>. HIDE DEF t
<1>2. \A i \in 1 .. Len(b) : i \in 1 .. Len(b) + 1
  BY <1>1
<1>3. \A j : Behind(b, j, n) => Behind(t, j, n)
  BY <1>1, <1>2 DEF Behind
<1>4. m = Announcement(n) => \A j \in 0 .. Len(b) : Behind(t, j, n)
  <2>1. Len(b) + 1 \in DOMAIN t /\ \A j \in 0 .. Len(b) : Len(b) + 1 > j
    BY <1>1
  <2>. QED  BY <2>1, <1>1 DEF Behind
<1>. QED  BY <1>3, <1>4 DEF t

\* ... and moves up when the first packet is taken.
LEMMA BehindTail ==
  ASSUME NEW S, NEW b \in Seq(S), b # <<>>, NEW n, NEW j \in Nat, Behind(b, j, n)
  PROVE  \/ j = 0 /\ Head(b) = Announcement(n)
         \/ Behind(Tail(b), IF j = 0 THEN 0 ELSE j - 1, n)
<1>1. PICK k \in DOMAIN b : k > j /\ b[k] = Announcement(n)
  BY DEF Behind
<1>2. k \in 1 .. Len(b) /\ Len(b) \in Nat
  BY <1>1
<1>3. CASE k = 1
  BY <1>1, <1>2, <1>3
<1>4. CASE k # 1
  <2>1. k - 1 \in DOMAIN Tail(b) /\ Tail(b)[k - 1] = b[k]
    BY <1>2, <1>4
  <2>2. k - 1 > (IF j = 0 THEN 0 ELSE j - 1)
    BY <1>1, <1>2, <1>4
  <2>. QED  BY <1>1, <2>1, <2>2 DEF Behind
<1>. QED  BY <1>3, <1>4

\* A client has been told once the message arrives, and no longer when a removal does.
LEMMA TellsAppend ==
  ASSUME NEW s \in Seq(InboxMessages), NEW m \in InboxMessages, NEW p
  PROVE  /\ m = [op |-> "ADD", id |-> p] => Tells(Append(s, m), p)
         /\ Tells(s, p) /\ ~(m.op = "REMOVE" /\ m.id = p) => Tells(Append(s, m), p)
<1>. DEFINE t == Append(s, m)
<1>1. /\ DOMAIN t = 1 .. Len(s) + 1 /\ DOMAIN s = 1 .. Len(s) /\ Len(s) \in Nat
      /\ \A i \in 1 .. Len(s) : t[i] = s[i]
      /\ t[Len(s) + 1] = m
  OBVIOUS
<1>. HIDE DEF t
<1>2. \A j \in 1 .. Len(s) + 1 : j \in 1 .. Len(s) \/ j = Len(s) + 1
  BY <1>1
<1>3. m = [op |-> "ADD", id |-> p] => Tells(t, p)
  <2>1. Len(s) + 1 \in DOMAIN t /\ \A j \in DOMAIN t : ~(j > Len(s) + 1)
    BY <1>1
  <2>. QED  BY <1>1, <2>1 DEF Tells
<1>4. ASSUME Tells(s, p), ~(m.op = "REMOVE" /\ m.id = p), m # [op |-> "ADD", id |-> p]
      PROVE  Tells(t, p)
  <2>1. PICK k \in 1 .. Len(s) :
          /\ s[k] = [op |-> "ADD", id |-> p]
          /\ \A j \in 1 .. Len(s) :
               j > k => s[j].id # p \/ s[j].op \notin {"ADD", "REMOVE"}
    BY <1>1, <1>4 DEF Tells
  <2>2. m.id # p \/ m.op \notin {"ADD", "REMOVE"}
    BY <1>4 DEF InboxMessages
  <2>3. k \in DOMAIN t /\ t[k] = s[k]
    BY <1>1
  <2>4. \A j \in DOMAIN t : j > k => t[j].id # p \/ t[j].op \notin {"ADD", "REMOVE"}
    BY <1>1, <1>2, <2>1, <2>2
  <2>. QED  BY <2>1, <2>3, <2>4 DEF Tells
<1>. QED  BY <1>3, <1>4 DEF t

\* A client that stays has its identifiers to itself.
LEMMA AliveFacts ==
  ASSUME TypeOK, TableInv, NEW d \in Clients, life[d] = "alive"
  PROVE  /\ ids[d] \in IdPairs
         /\ kpc[d] = "idle" /\ mutex # d
         /\ ~(lclient = d /\ lpc = "register") =>
              /\ Live(d) /\ pubMap[ids[d].pub] = d /\ privMap[ids[d].priv] = d
              /\ \E i \in Listed : slots[i] = ids[d]
<1>. USE RegistryAssumption DEF TableInv
<1>1. kpc[d] = "idle" /\ mutex # d
  BY DEF LifeInv, RemoverInv
<1>2. CASE lclient = d /\ lpc = "register"
  BY <1>1, <1>2 DEF ListenerInv
<1>3. CASE ~(lclient = d /\ lpc = "register")
  <2>1. Live(d)
    BY <1>3 DEF Live
  <2>. QED  BY <1>1, <2>1 DEF LiveIsListed
<1>. QED  BY <1>2, <1>3

\* Objects only ever go on from one state to the next; only AddClient makes one.
LEMMA LivesGoOn ==
  ASSUME TypeOK, TableInv, FreshInv, [Next]_vars
  PROVE  /\ \A c \in Clients : life'[c] = "alive" =>
              life[c] = "alive" \/ (AddClientNew /\ c = lclient)
         /\ \A c \in Clients : kpc[c] = "done" => kpc'[c] = "done"
         /\ Leaving \subseteq Leaving'
         /\ IsFiniteSet(Leaving) => IsFiniteSet(Leaving')
<1>. USE RegistryAssumption
<1>1. ASSUME NEW c \in Clients, NEW l \in {"woken", "dying", "freed"},
             life' = [life EXCEPT ![c] = l], life[c] # "none"
      PROVE  /\ \A x \in Clients : life'[x] = "alive" => life[x] = "alive"
             /\ Leaving \subseteq Leaving'
             /\ IsFiniteSet(Leaving) => IsFiniteSet(Leaving')
  <2>1. Leaving' = Leaving \cup {c}
    BY <1>1 DEF Leaving, TypeOK
  <2>. QED  BY <1>1, <2>1, FS_AddElement DEF TypeOK
<1>2. ASSUME life' = life
      PROVE  Leaving' = Leaving
  BY <1>2 DEF Leaving
<1>3. ASSUME NEW c \in Clients, NEW k, k # "done",
             kpc[c] # "done", kpc' = [kpc EXCEPT ![c] = k]
      PROVE  \A x \in Clients : kpc[x] = "done" => kpc'[x] = "done"
  BY <1>3 DEF TypeOK
<1>4. ASSUME NEW c \in Clients, Wake(c)
      PROVE  life' = [life EXCEPT ![c] = "woken"] /\ life[c] # "none" /\ kpc' = kpc
  BY <1>4 DEF Wake, remover
<1>5. ASSUME NEW c \in Clients, RemoveFind(c)
      PROVE  /\ life' = [life EXCEPT ![c] = "dying"] /\ life[c] # "none"
             /\ kpc' = [kpc EXCEPT ![c] = "joining"] /\ kpc[c] # "done"
  BY <1>5, FindFacts
<1>6. ASSUME NEW c \in Clients, DestroyClient(c)
      PROVE  /\ life' = [life EXCEPT ![c] = "freed"] /\ life[c] # "none"
             /\ kpc' = [kpc EXCEPT ![c] = "unlink"] /\ kpc[c] # "done"
  BY <1>6, DestroyFacts DEF DestroyClient
<1>7. CASE \E c \in Clients : Wake(c) \/ RemoveFind(c) \/ DestroyClient(c)
  BY <1>1, <1>3, <1>4, <1>5, <1>6, <1>7
<1>8. CASE \E c \in Clients : RemoveUnlink(c) \/ RemoveSwap(c) \/ RemovePop(c)
  <2>1. life' = life
    BY <1>8 DEF RemoveUnlink, RemoveSwap, RemovePop, objects
  <2>2. \A x \in Clients : kpc[x] = "done" => kpc'[x] = "done"
    BY <1>8 DEF RemoveUnlink, RemoveSwap, RemovePop, TypeOK
  <2>. QED  BY <1>2, <2>1, <2>2
<1>9. CASE AddClientNew
  <2>1. /\ lclient \in Clients /\ life[lclient] = "none" /\ kpc' = kpc
        /\ life' = [life EXCEPT ![lclient] = "alive"]
    BY <1>9 DEF AddClientNew, TableInv, ListenerInv, remover
  <2>2. Leaving' = Leaving
    BY <2>1 DEF Leaving, TypeOK
  <2>. QED  BY <1>9, <2>1, <2>2 DEF TypeOK
<1>10. UNCHANGED <<life, kpc>>
         => /\ \A c \in Clients : life'[c] = "alive" => life[c] = "alive"
            /\ \A c \in Clients : kpc[c] = "done" => kpc'[c] = "done"
            /\ Leaving' = Leaving
  BY <1>2
<1>11. CASE \/ \E c \in Clients : ListenerAccept(c)
            \/ AddClientRegister \/ ListenerTalks \/ OthersTalk \/ UNCHANGED vars
  <2>1. UNCHANGED <<life, kpc>>
    BY <1>11 DEF ListenerAccept, AddClientRegister, ListenerTalks, ListenerIntroduce,
      ListenerShipIds, ListenerAnnounce, SnapshotTest, SnapshotCompare, SnapshotRead,
      SnapshotTell, OthersTalk, ClientHello, BroadcastNext, UdpReceive, AppLookup, AppUse,
      AppBroadcast, vars, objects, remover
  <2>. QED  BY <2>1, <1>10
<1>. QED  BY <1>7, <1>8, <1>9, <1>11, NextCases

\* The listener goes back to the first entry for each new client.
LEMMA NextStarts ==
  ASSUME StartsAtFirst, [Next]_vars
  PROVE  StartsAtFirst'
<1>. USE DEF StartsAtFirst
<1>1. UNCHANGED <<lpc, lidx>> => StartsAtFirst'
  OBVIOUS
<1>2. CASE OthersTalk
  BY <1>1, <1>2 DEF OthersTalk, ClientHello, BroadcastNext, UdpReceive, AppLookup,
     AppUse, AppBroadcast, listener
<1>3. CASE \E c \in Clients : \/ Wake(c) \/ RemoveFind(c) \/ DestroyClient(c)
                              \/ RemoveUnlink(c) \/ RemoveSwap(c) \/ RemovePop(c)
  BY <1>1, <1>3 DEF Wake, RemoveFind, DestroyClient, RemoveUnlink, RemoveSwap, RemovePop,
     listener
<1>4. CASE ListenerTalks
  BY <1>4 DEF ListenerTalks, ListenerIntroduce, ListenerShipIds, ListenerAnnounce,
     SnapshotTest, SnapshotCompare, SnapshotRead, SnapshotTell, AcceptNext
<1>5. CASE (\E c \in Clients : ListenerAccept(c)) \/ AddClientNew \/ AddClientRegister
  BY <1>5 DEF ListenerAccept, AddClientNew, AddClientRegister
<1>. QED  BY <1>1, <1>2, <1>3, <1>4, <1>5, NextCases DEF vars

\* The newest client stays the last entry until another has left.
LEMMA NextNewest ==
  ASSUME TypeOK, TableInv, FreshInv, NewestIsLast, [Next]_vars
  PROVE  NewestIsLast'
<1>. USE RegistryAssumption
<1>1. ASSUME UNCHANGED <<lclient, lids>>,
             lpc' \in {"intro", "ship", "announce", "test", "compare", "read", "tell"} =>
               lpc \in {"intro", "ship", "announce", "test", "compare", "read", "tell"},
             slots'[count'] = slots[count], ~AddClientNew
      PROVE  NewestIsLast'
  <2>1. lpc # "accept" => lclient \in Clients
    BY DEF TableInv, ListenerInv
  <2>. QED  BY <1>1, <2>1, LivesGoOn DEF NewestIsLast
<1>2. CASE AddClientRegister
  <2>1. lids \in IdPairs /\ slots \in Seq(IdPairs) /\ count \in 0 .. Len(slots)
    BY <1>2 DEF AddClientRegister, TableInv, ListenerInv, TypeOK
  <2>2. slots'[count'] = lids'
    BY <1>2, <2>1 DEF AddClientRegister
  <2>. QED  BY <2>2 DEF NewestIsLast
<1>3. ASSUME NEW c \in Clients, RemovePop(c)
      PROVE  NewestIsLast'
  BY <1>3 DEF RemovePop, NewestIsLast, TypeOK
<1>4. ASSUME NEW c \in Clients, RemoveSwap(c)
      PROVE  NewestIsLast'
  <2>1. count \in DOMAIN slots /\ ri \in Listed
    BY <1>4, RemoverFacts DEF RemoveSwap, TypeOK, Listed
  <2>2. slots'[count'] = slots[count]
    BY <1>4, <2>1 DEF RemoveSwap
  <2>. QED  BY <1>1, <1>4, <2>2 DEF RemoveSwap, listener, AddClientNew
<1>5. CASE \E c \in Clients : Wake(c) \/ RemoveFind(c) \/ DestroyClient(c) \/ RemoveUnlink(c)
  BY <1>1, <1>5 DEF Wake, RemoveFind, DestroyClient, RemoveUnlink, listener, table,
     AddClientNew
<1>6. CASE OthersTalk \/ UNCHANGED vars
  BY <1>1, <1>6 DEF OthersTalk, ClientHello, BroadcastNext, UdpReceive, AppLookup,
     AppUse, AppBroadcast, vars, listener, table, AddClientNew
<1>7. CASE ListenerTalks
  <2>1. CASE lpc' = "accept"
    BY <2>1 DEF NewestIsLast
  <2>2. CASE lpc' # "accept"
    BY <1>1, <1>7, <2>2 DEF ListenerTalks, ListenerIntroduce, ListenerShipIds,
       ListenerAnnounce, SnapshotTest, SnapshotCompare, SnapshotRead, SnapshotTell,
       AcceptNext, table, AddClientNew
  <2>. QED  BY <2>1, <2>2
<1>8. CASE (\E c \in Clients : ListenerAccept(c)) \/ AddClientNew
  BY <1>8 DEF ListenerAccept, AddClientNew, NewestIsLast
<1>. QED  BY <1>2, <1>3, <1>4, <1>5, <1>6, <1>7, <1>8, NextCases

\* The identifiers of a client that stays do not change.
LEMMA AliveKeep ==
  ASSUME TypeOK, TableInv, FreshInv, [Next]_vars, NEW d \in Clients, life'[d] = "alive",
         ~(AddClientNew /\ d = lclient)
  PROVE  life[d] = "alive" /\ ids'[d] = ids[d] /\ ids[d] \in IdPairs
<1>1. life[d] = "alive"
  BY LivesGoOn
<1>2. ids[d] \in IdPairs
  BY <1>1, AliveFacts
<1>3. ids[d] # None
  BY <1>2, RegistryAssumption DEF IdPairs
<1>. QED  BY <1>1, <1>2, <1>3, ObjectsKeep

\* The removal of a former owner of an id stays in front of the new announcement.
LEMMA NextRemovals ==
  ASSUME TypeOK, TableInv, FreshInv, RemovalsFirst, ~Vendor, [Next]_vars
  PROVE  RemovalsFirst'
<1>. USE RegistryAssumption
<1>0. bq \in Seq(BroadcastMessages)
  BY DEF TypeOK, BroadcastMessages
<1>. SUFFICES ASSUME NEW d \in Clients, life'[d] = "alive", NEW j \in DOMAIN bq',
                     bq'[j].op = "REMOVE", bq'[j].id = ids'[d].pub
              PROVE  Unannounced(d)' \/ Behind(bq', j, ids'[d])
  BY DEF RemovalsFirst
<1>1. CASE AddClientNew /\ d = lclient
  BY <1>1 DEF AddClientNew, Unannounced
<1>. SUFFICES ASSUME ~(AddClientNew /\ d = lclient)
              PROVE  Unannounced(d)' \/ Behind(bq', j, ids'[d])
  BY <1>1
<1>2. life[d] = "alive" /\ ids'[d] = ids[d] /\ ids[d] \in IdPairs
  BY AliveKeep
<1>3. ASSUME bq' = bq, Unannounced(d) => Unannounced(d)'
      PROVE  Unannounced(d)' \/ Behind(bq', j, ids'[d])
  BY <1>2, <1>3 DEF RemovalsFirst
<1>4. ASSUME NEW m \in BroadcastMessages, bq' = Append(bq, m),
             m.op = "REMOVE" => m.id # ids[d].pub \/ Unannounced(d),
             Unannounced(d) => Unannounced(d)' \/ m = Announcement(ids[d])
      PROVE  Unannounced(d)' \/ Behind(bq', j, ids'[d])
  <2>1. Len(bq) \in Nat /\ j \in 1 .. Len(bq) + 1
    BY <1>0, <1>4
  <2>2. CASE j \in 1 .. Len(bq)
    <3>1. j \in DOMAIN bq /\ bq'[j] = bq[j]
      BY <1>0, <1>4, <2>2
    <3>2. Unannounced(d) \/ Behind(bq, j, ids[d])
      BY <1>2, <3>1 DEF RemovalsFirst
    <3>3. Behind(bq, j, ids[d]) => Behind(bq', j, ids[d])
      BY <1>0, <1>4, BehindAppend
    <3>4. m = Announcement(ids[d]) => Behind(bq', j, ids[d])
      BY <1>0, <1>4, <2>2, BehindAppend
    <3>. QED  BY <1>2, <1>4, <3>2, <3>3, <3>4
  <2>3. CASE j = Len(bq) + 1
    <3>1. bq'[j] = m
      BY <1>0, <1>4, <2>1, <2>3
    <3>2. Unannounced(d) /\ m.op = "REMOVE"
      BY <1>2, <1>4, <3>1
    <3>. QED  BY <1>4, <3>2 DEF Announcement
  <2>. QED  BY <2>1, <2>2, <2>3
<1>5. CASE BroadcastNext
  <2>1. bq # <<>> /\ bq' = Tail(bq) /\ Unannounced(d)' = Unannounced(d)
    BY <1>5 DEF BroadcastNext, Unannounced, listener
  <2>2. j \in Nat /\ j + 1 \in DOMAIN bq /\ bq[j + 1] = bq'[j]
    BY <1>0, <2>1
  <2>3. Unannounced(d) \/ Behind(bq, j + 1, ids[d])
    BY <1>2, <2>2 DEF RemovalsFirst
  <2>4. Behind(bq, j + 1, ids[d]) => Behind(Tail(bq), j, ids[d])
    <3>1. j + 1 \in Nat /\ j + 1 # 0 /\ (j + 1) - 1 = j
      BY <2>2
    <3>. QED  BY <1>0, <2>1, <3>1, BehindTail
  <2>. QED  BY <1>2, <2>1, <2>3, <2>4
<1>6. ASSUME NEW c \in Clients, DestroyClient(c)
      PROVE  Unannounced(d)' \/ Behind(bq', j, ids'[d])
  <2>1. /\ Victim = c /\ ids[c] \in IdPairs /\ lpc # "register" /\ mutex = c
        /\ Unannounced(d)' = Unannounced(d)
        /\ bq' = Append(bq, [op |-> "REMOVE", id |-> ids[c].pub, exclude |-> {}])
    BY <1>6, DestroyFacts DEF DestroyClient, Unannounced, listener
  <2>2. [op |-> "REMOVE", id |-> ids[c].pub, exclude |-> {}] \in BroadcastMessages
    BY <2>1 DEF BroadcastMessages, IdPairs
  <2>3. pubMap[ids[d].pub] = d /\ d # c
    BY <1>2, <2>1, AliveFacts
  <2>4. pubMap[ids[c].pub] = c
    BY <1>6, <2>1 DEF DestroyClient, TableInv, RemoverInv
  <2>. QED  BY <1>4, <2>1, <2>2, <2>3, <2>4
<1>7. CASE ListenerAnnounce
  <2>1. /\ lids \in IdPairs /\ lclient \in Clients /\ ids[lclient] = lids
        /\ bq' = Append(bq, Announcement(lids))
    BY <1>7 DEF ListenerAnnounce, TableInv, ListenerInv, Announcement
  <2>2. Announcement(lids) \in BroadcastMessages /\ Announcement(lids).op # "REMOVE"
    BY <2>1 DEF BroadcastMessages, IdPairs, Announcement
  <2>3. Unannounced(d) => Announcement(lids) = Announcement(ids[d])
    BY <2>1 DEF Unannounced
  <2>. QED  BY <1>4, <2>1, <2>2, <2>3
<1>8. CASE AppBroadcast
  <2>1. PICK exclude \in SUBSET PrivateIds :
          bq' = Append(bq, [op |-> "APP", id |-> None, exclude |-> exclude])
    BY <1>8 DEF AppBroadcast
  <2>2. [op |-> "APP", id |-> None, exclude |-> exclude] \in BroadcastMessages
    BY DEF BroadcastMessages
  <2>3. Unannounced(d)' = Unannounced(d)
    BY <1>8 DEF AppBroadcast, Unannounced, listener
  <2>. QED  BY <1>4, <2>1, <2>2, <2>3
<1>9. CASE \/ \E c \in Clients : \/ Wake(c) \/ RemoveFind(c) \/ RemoveUnlink(c)
                                 \/ RemoveSwap(c) \/ RemovePop(c) \/ ClientHello(c)
           \/ \E e \in net : UdpReceive(e)
           \/ \E p \in PrivateIds : AppLookup(p)
           \/ AppUse \/ UNCHANGED vars
  BY <1>3, <1>9 DEF Wake, RemoveFind, RemoveUnlink, RemoveSwap, RemovePop, ClientHello,
     UdpReceive, AppLookup, AppUse, vars, listener, messages, Unannounced
<1>10. CASE \/ \E c \in Clients : ListenerAccept(c)
            \/ AddClientNew \/ AddClientRegister \/ ListenerIntroduce
            \/ SnapshotTest \/ SnapshotCompare \/ SnapshotRead \/ SnapshotTell
  BY <1>3, <1>10 DEF ListenerAccept, AddClientNew, AddClientRegister, ListenerIntroduce,
     SnapshotTest, SnapshotCompare, SnapshotRead, SnapshotTell, messages, Unannounced
<1>11. CASE ListenerShipIds
  BY <1>3, <1>11 DEF ListenerShipIds, AcceptNext, Unannounced
<1>. QED
  BY <1>5, <1>6, <1>7, <1>8, <1>9, <1>10, <1>11, NextCases DEF ListenerTalks, OthersTalk

\* Taking an entry out of the vector does not take another client out of the listener's
\* sight: if the entry that moves is not the newest, it has moved before.
LEMMA RemovalsKeepView ==
  ASSUME TypeOK, TableInv, NewestIsLast, OneLeaves, NEW x \in Clients,
         RemoveSwap(x) \/ RemovePop(x),
         NEW c \in Clients, NEW d \in Clients, c # d,
         life[c] = "alive", life[d] = "alive", InView(c, d)
  PROVE  InView(c, d)'
<1>. USE RegistryAssumption
<1>0. /\ UNCHANGED <<lpc, lclient, lids, lidx, ltold, ids>>
      /\ kpc[x] \in {"swap", "pop"}
  BY DEF RemoveSwap, RemovePop, listener, objects
<1>1. /\ mutex = x /\ lpc # "register" /\ ids[x] \in IdPairs /\ ri \in Listed
      /\ pubMap[ids[x].pub] = None
      /\ kpc[x] = "swap" => slots[ri] = ids[x]
  BY <1>0, RemoverFacts
<1>2. CASE ~\E i \in Listed : /\ slots[i] = ids[d] /\ lidx <= i
                              /\ lpc = "tell" => lidx < i
  BY <1>0, <1>2 DEF InView
<1>3. CASE lpc \in {"register", "intro", "ship", "announce"}
  BY <1>0, <1>3 DEF InView
<1>4. ASSUME NEW i \in Listed, slots[i] = ids[d], lidx <= i, lpc = "tell" => lidx < i,
             lpc \in {"test", "compare", "read", "tell"}
      PROVE  InView(c, d)'
  <2>1. lclient = c
    BY DEF InView
  <2>2. /\ pubMap[ids[d].pub] = d /\ ids[d] # ids[c]
    BY <1>4, AliveFacts
  <2>3. ids[c] = lids
    BY <1>4, <2>1 DEF TableInv, ListenerInv
  <2>4. \A y \in Clients : kpc[y] # "done"
    <3>1. ASSUME NEW y \in Clients, kpc[y] = "done" PROVE FALSE
      <4>1. x \in Leaving /\ y \in Leaving
        BY <1>0, <3>1 DEF TableInv, LifeInv, Leaving, TypeOK
      <4>. QED  BY <1>0, <3>1, <4>1 DEF OneLeaves
    <3>. QED  BY <3>1
  <2>5. slots[count] = lids
    BY <1>4, <2>1, <2>4 DEF NewestIsLast
  <2>6. i # count
    BY <1>4, <2>2, <2>3, <2>5
  <2>7. i \in Listed' /\ slots'[i] = slots[i]
    <3>1. CASE RemoveSwap(x)
      <4>1. i # ri
        BY <1>1, <1>4, <2>2, <3>1 DEF RemoveSwap
      <4>2. i \in DOMAIN slots
        BY DEF Listed, TypeOK
      <4>. QED  BY <3>1, <4>1, <4>2 DEF RemoveSwap, Listed
    <3>2. CASE RemovePop(x)
      BY <2>6, <3>2 DEF RemovePop, Listed, TypeOK
    <3>. QED  BY <3>1, <3>2
  <2>. QED  BY <1>0, <1>4, <2>1, <2>7 DEF InView
<1>. QED  BY <1>2, <1>3, <1>4 DEF InView

\* The snapshot passes nobody over.
LEMMA SnapshotKeepsView ==
  ASSUME TypeOK, TableInv, StartsAtFirst, ~Vendor, ListenerTalks,
         NEW c \in Clients, NEW d \in Clients, c # d,
         life[c] = "alive", life[d] = "alive", InView(c, d)
  PROVE  InView(c, d)' \/ Tells(inbox'[c], ids[d].pub)
<1>. USE RegistryAssumption
<1>0. lclient = c /\ ids' = ids /\ slots' = slots /\ Listed' = Listed
  BY DEF InView, ListenerTalks, ListenerIntroduce, ListenerShipIds, ListenerAnnounce,
     SnapshotTest, SnapshotCompare, SnapshotRead, SnapshotTell, table, objects, Listed
<1>1. lpc # "register" /\ ids[c] = lids
  BY <1>0 DEF ListenerTalks, ListenerIntroduce, ListenerShipIds, ListenerAnnounce,
     SnapshotTest, SnapshotCompare, SnapshotRead, SnapshotTell, TableInv, ListenerInv
<1>2. /\ ids[d].pub # ids[c].pub
      /\ \E i \in Listed : slots[i] = ids[d]
  BY <1>1, AliveFacts
<1>3. \A i \in Listed : i \in Nat /\ i >= 1 /\ lidx \in Nat /\ lidx >= 1
  BY DEF Listed, TypeOK
<1>4. CASE ListenerIntroduce
  BY <1>0, <1>4 DEF ListenerIntroduce, InView
<1>5. CASE ListenerShipIds
  BY <1>0, <1>5 DEF ListenerShipIds, InView
<1>6. CASE ListenerAnnounce
  BY <1>0, <1>2, <1>3, <1>6 DEF ListenerAnnounce, InView, StartsAtFirst
<1>7. ASSUME lpc \in {"test", "compare", "read"}
      PROVE  \E i \in Listed : slots[i] = ids[d] /\ lidx <= i
  BY <1>7 DEF InView
<1>8. CASE SnapshotTest
  <2>1. PICK i \in Listed : slots[i] = ids[d] /\ lidx <= i
    BY <1>7, <1>8 DEF SnapshotTest
  <2>2. lidx \in Listed
    BY <2>1 DEF Listed, TypeOK
  <2>. QED  BY <1>0, <1>8, <2>1, <2>2 DEF SnapshotTest, InView
<1>9. CASE SnapshotCompare
  <2>1. PICK i \in Listed : slots[i] = ids[d] /\ lidx <= i
    BY <1>7, <1>9 DEF SnapshotCompare
  <2>2. slots[lidx].pub = lids.pub => lidx + 1 <= i
    BY <1>1, <1>2, <1>3, <2>1
  <2>. QED  BY <1>0, <1>9, <2>1, <2>2 DEF SnapshotCompare, InView
<1>10. CASE SnapshotRead
  <2>1. PICK i \in Listed : slots[i] = ids[d] /\ lidx <= i
    BY <1>7, <1>10 DEF SnapshotRead
  <2>2. i = lidx \/ lidx < i
    BY <1>3, <2>1
  <2>. QED  BY <1>0, <1>10, <2>1, <2>2 DEF SnapshotRead, InView
<1>11. CASE SnapshotTell
  <2>1. CASE ltold = ids[d].pub
    <3>1. [op |-> "ADD", id |-> ltold] \in InboxMessages /\ inbox[c] \in Seq(InboxMessages)
      BY <1>11 DEF SnapshotTell, InboxMessages, TypeOK
    <3>2. inbox'[c] = Append(inbox[c], [op |-> "ADD", id |-> ltold])
      BY <1>0, <1>11 DEF SnapshotTell, Queue, Unsafe, TypeOK
    <3>. QED  BY <2>1, <3>1, <3>2, TellsAppend
  <2>2. CASE ltold # ids[d].pub
    <3>1. PICK i \in Listed : slots[i] = ids[d] /\ lidx < i
      BY <1>11, <2>2 DEF SnapshotTell, InView
    <3>2. lidx + 1 <= i
      BY <1>3, <3>1
    <3>. QED  BY <1>0, <1>11, <3>1, <3>2 DEF SnapshotTell, InView
  <2>. QED  BY <2>1, <2>2
<1>. QED  BY <1>4, <1>5, <1>6, <1>8, <1>9, <1>10, <1>11 DEF ListenerTalks

\* What the listener says to a new client takes nothing back.
LEMMA ListenerKeepsTold ==
  ASSUME TypeOK, TableInv, ListenerTalks, NEW c \in Clients, NEW p, Tells(inbox[c], p)
  PROVE  Tells(inbox'[c], p)
<1>1. inbox[c] \in Seq(InboxMessages)
  BY DEF TypeOK
<1>2. ASSUME NEW m \in InboxMessages, m.op # "REMOVE", Queue(lclient, m)
      PROVE  Tells(inbox'[c], p)
  <2>1. inbox'[c] = inbox[c] \/ inbox'[c] = Append(inbox[c], m)
    BY <1>2 DEF Queue, TypeOK
  <2>. QED  BY <1>1, <1>2, <2>1, TellsAppend
<1>3. CASE ListenerShipIds
  <2>1. [op |-> "GET_ID", id |-> lids.pub] \in InboxMessages
    BY <1>3 DEF ListenerShipIds, TableInv, ListenerInv, InboxMessages, IdPairs
  <2>. QED  BY <1>2, <1>3, <2>1 DEF ListenerShipIds
<1>4. CASE SnapshotTell
  <2>1. [op |-> "ADD", id |-> ltold] \in InboxMessages
    BY <1>4 DEF SnapshotTell, InboxMessages, TypeOK
  <2>. QED  BY <1>2, <1>4, <2>1 DEF SnapshotTell
<1>. QED
  BY <1>3, <1>4 DEF ListenerTalks, ListenerIntroduce, ListenerAnnounce, SnapshotTest,
     SnapshotCompare, SnapshotRead, messages

\* A broadcast is heard by every client that stays and is not left out.
LEMMA BroadcastHeard ==
  ASSUME TypeOK, TableInv, BroadcastNext, NEW c \in Clients, life[c] = "alive"
  PROVE  \E m \in InboxMessages :
           /\ m = [op |-> Head(bq).op, id |-> Head(bq).id]
           /\ inbox'[c] = inbox[c] \/ inbox'[c] = Append(inbox[c], m)
           /\ ids[c].priv \notin Head(bq).exclude => inbox'[c] = Append(inbox[c], m)
<1>. USE RegistryAssumption
<1>1. bq \in Seq(BroadcastMessages) /\ bq # <<>>
  BY DEF TypeOK, BroadcastMessages, BroadcastNext
<1>2. Head(bq) \in BroadcastMessages
  BY <1>1
<1>3. PICK m \in InboxMessages : m = [op |-> Head(bq).op, id |-> Head(bq).id]
  BY <1>2 DEF BroadcastMessages, InboxMessages
<1>4. \/ inbox'[c] = inbox[c] /\ c \notin Recipients(Head(bq))
      \/ inbox'[c] = Append(inbox[c], m)
  BY <1>3 DEF BroadcastNext, Unsafe
<1>5. ids[c].priv \notin Head(bq).exclude => c \in Recipients(Head(bq))
  <2>1. lpc # "register"
    BY DEF BroadcastNext, TableInv, ListenerInv
  <2>2. privMap[ids[c].priv] = c /\ \E i \in Listed : slots[i] = ids[c]
    BY <2>1, AliveFacts
  <2>. QED  BY <2>2 DEF Recipients
<1>. QED  BY <1>3, <1>4, <1>5

\* News that is on its way for a client that stays gets there.
LEMMA BroadcastNews ==
  ASSUME TypeOK, TableInv, RemovalsFirst, NewsArrives, BroadcastNext,
         NEW c \in Clients, NEW d \in Clients, c # d,
         life[c] = "alive", life[d] = "alive"
  PROVE  NewsOf(c, d)'
<1>. USE RegistryAssumption
<1>1. /\ Unannounced(d)' = Unannounced(d) /\ InView(c, d)' = InView(c, d)
      /\ ids' = ids /\ bq' = Tail(bq) /\ bq # <<>> /\ lpc # "register"
  BY DEF BroadcastNext, Unannounced, InView, listener, table, objects, Listed, TableInv,
     ListenerInv
<1>2. bq \in Seq(BroadcastMessages) /\ inbox[c] \in Seq(InboxMessages)
  BY DEF TypeOK, BroadcastMessages
<1>3. PICK m \in InboxMessages :
        /\ m = [op |-> Head(bq).op, id |-> Head(bq).id]
        /\ inbox'[c] = inbox[c] \/ inbox'[c] = Append(inbox[c], m)
        /\ ids[c].priv \notin Head(bq).exclude => inbox'[c] = Append(inbox[c], m)
  BY BroadcastHeard
<1>4. CASE Unannounced(d) \/ InView(c, d)
  BY <1>1, <1>4 DEF NewsOf
<1>5. CASE Behind(bq, 0, ids[d])
  <2>1. CASE Behind(bq', 0, ids[d])
    BY <1>1, <2>1 DEF NewsOf
  <2>2. CASE Head(bq) = Announcement(ids[d])
    <3>1. ids[c].priv # ids[d].priv
      BY <1>1, AliveFacts
    <3>2. m = [op |-> "ADD", id |-> ids[d].pub] /\ ids[c].priv \notin Head(bq).exclude
      BY <1>3, <2>2, <3>1 DEF Announcement
    <3>3. Tells(inbox'[c], ids[d].pub)
      BY <1>2, <1>3, <3>2, TellsAppend
    <3>. QED  BY <1>1, <3>3 DEF NewsOf
  <2>. QED  BY <1>1, <1>2, <1>5, <2>1, <2>2, BehindTail
<1>6. CASE Tells(inbox[c], ids[d].pub)
  <2>1. CASE m.op = "REMOVE" /\ m.id = ids[d].pub
    <3>1. 1 \in DOMAIN bq /\ bq[1] = Head(bq)
      BY <1>1, <1>2
    <3>2. Head(bq).op = "REMOVE" /\ Head(bq).id = ids[d].pub
      BY <1>3, <2>1
    <3>3. Unannounced(d) \/ Behind(bq, 1, ids[d])
      BY <3>1, <3>2 DEF RemovalsFirst
    <3>4. Behind(bq, 1, ids[d]) => Behind(bq', 0, ids[d])
      BY <1>1, <1>2, BehindTail
    <3>. QED  BY <1>1, <3>3, <3>4 DEF NewsOf
  <2>2. CASE ~(m.op = "REMOVE" /\ m.id = ids[d].pub)
    <3>1. Tells(inbox'[c], ids[d].pub)
      BY <1>2, <1>3, <1>6, <2>2, TellsAppend
    <3>. QED  BY <1>1, <3>1 DEF NewsOf
  <2>. QED  BY <2>1, <2>2
<1>. QED  BY <1>4, <1>5, <1>6 DEF NewsArrives, NewsOf

\* While one client leaves at most, no step loses the news of another.
LEMMA NextNews ==
  ASSUME TypeOK, TableInv, FreshInv, StartsAtFirst, NewestIsLast, RemovalsFirst,
         NewsArrives, ~Vendor, OneLeaves, [Next]_vars
  PROVE  NewsArrives'
<1>. USE RegistryAssumption
<1>0. bq \in Seq(BroadcastMessages)
  BY DEF TypeOK, BroadcastMessages
<1>. SUFFICES ASSUME NEW c \in Clients, NEW d \in Clients, c # d,
                     life'[c] = "alive", life'[d] = "alive"
              PROVE  NewsOf(c, d)'
  BY DEF NewsArrives
<1>1. CASE AddClientNew /\ lclient \in {c, d}
  BY <1>1 DEF AddClientNew, NewsOf, Unannounced, InView
<1>. SUFFICES ASSUME ~(AddClientNew /\ lclient \in {c, d})
              PROVE  NewsOf(c, d)'
  BY <1>1
<1>2. /\ life[c] = "alive" /\ life[d] = "alive"
      /\ ids'[d] = ids[d] /\ ids[d] \in IdPairs
  BY AliveKeep
<1>3. NewsOf(c, d)
  BY <1>2 DEF NewsArrives
<1>4. ASSUME Unannounced(d) => Unannounced(d)' \/ Behind(bq', 0, ids[d]),
             bq' = bq \/ \E m \in BroadcastMessages : bq' = Append(bq, m),
             InView(c, d) => InView(c, d)' \/ Tells(inbox'[c], ids[d].pub),
             Tells(inbox[c], ids[d].pub) => Tells(inbox'[c], ids[d].pub)
      PROVE  NewsOf(c, d)'
  <2>1. Behind(bq, 0, ids[d]) => Behind(bq', 0, ids[d])
    <3>1. ASSUME NEW m \in BroadcastMessages
          PROVE  Behind(bq, 0, ids[d]) => Behind(Append(bq, m), 0, ids[d])
      BY <1>0, BehindAppend
    <3>. QED  BY <1>4, <3>1
  <2>. QED  BY <1>2, <1>3, <1>4, <2>1 DEF NewsOf
<1>5. UNCHANGED <<slots, count, ids, listener>>
        => Unannounced(d)' = Unannounced(d) /\ InView(c, d)' = InView(c, d)
  BY DEF listener, Unannounced, InView, Listed
<1>6. CASE BroadcastNext
  BY <1>2, <1>6, BroadcastNews
<1>7. ASSUME NEW x \in Clients, RemoveSwap(x) \/ RemovePop(x)
      PROVE  NewsOf(c, d)'
  <2>1. InView(c, d) => InView(c, d)'
    BY <1>2, <1>7, RemovalsKeepView
  <2>. QED
    BY <1>4, <1>7, <2>1 DEF RemoveSwap, RemovePop, listener, messages, Unannounced
<1>8. CASE \/ \E x \in Clients : \/ Wake(x) \/ RemoveFind(x) \/ RemoveUnlink(x)
                                 \/ ClientHello(x)
           \/ \E e \in net : UdpReceive(e)
           \/ \E p \in PrivateIds : AppLookup(p)
           \/ AppUse \/ UNCHANGED vars
  <2>1. UNCHANGED <<slots, count, ids, listener, bq, inbox>>
    BY <1>8 DEF Wake, RemoveFind, RemoveUnlink, ClientHello, UdpReceive, AppLookup, AppUse,
       vars, listener, messages, table, objects
  <2>. QED  BY <1>4, <1>5, <2>1
<1>9. ASSUME NEW x \in Clients, DestroyClient(x)
      PROVE  NewsOf(c, d)'
  <2>1. ids[x] \in IdPairs /\ Victim = x
    BY <1>9, DestroyFacts
  <2>2. [op |-> "REMOVE", id |-> ids[x].pub, exclude |-> {}] \in BroadcastMessages
    BY <2>1 DEF BroadcastMessages, IdPairs
  <2>3. \E m \in BroadcastMessages : bq' = Append(bq, m)
    BY <1>9, <2>1, <2>2 DEF DestroyClient
  <2>4. UNCHANGED <<slots, count, ids, listener, inbox>>
    BY <1>9 DEF DestroyClient, table
  <2>. QED  BY <1>4, <1>5, <2>3, <2>4
<1>10. CASE AppBroadcast
  <2>1. PICK exclude \in SUBSET PrivateIds :
          bq' = Append(bq, [op |-> "APP", id |-> None, exclude |-> exclude])
    BY <1>10 DEF AppBroadcast
  <2>2. [op |-> "APP", id |-> None, exclude |-> exclude] \in BroadcastMessages
    BY DEF BroadcastMessages
  <2>3. UNCHANGED <<slots, count, ids, listener, inbox>>
    BY <1>10 DEF AppBroadcast, table, objects
  <2>. QED  BY <1>4, <1>5, <2>1, <2>2, <2>3
<1>11. CASE (\E x \in Clients : ListenerAccept(x)) \/ AddClientNew
  <2>1. ~Unannounced(d) /\ ~InView(c, d) /\ bq' = bq /\ inbox' = inbox
    BY <1>11 DEF ListenerAccept, AddClientNew, Unannounced, InView, messages
  <2>. QED  BY <1>4, <2>1
<1>12. CASE AddClientRegister
  BY <1>4, <1>12 DEF AddClientRegister, Unannounced, InView, messages
<1>13. CASE ListenerTalks
  <2>1. InView(c, d) => InView(c, d)' \/ Tells(inbox'[c], ids[d].pub)
    BY <1>2, <1>13, SnapshotKeepsView
  <2>2. Tells(inbox[c], ids[d].pub) => Tells(inbox'[c], ids[d].pub)
    BY <1>13, ListenerKeepsTold
  <2>3. CASE ListenerAnnounce
    <3>1. /\ lids \in IdPairs /\ ids[lclient] = lids
          /\ bq' = Append(bq, Announcement(lids))
      BY <2>3 DEF ListenerAnnounce, TableInv, ListenerInv, Announcement
    <3>2. Announcement(lids) \in BroadcastMessages
      BY <3>1 DEF BroadcastMessages, IdPairs, Announcement
    <3>3. 0 \in 0 .. Len(bq)
      BY <1>0
    <3>4. Unannounced(d) => Behind(bq', 0, ids[d])
      BY <1>0, <3>1, <3>2, <3>3, BehindAppend DEF Unannounced
    <3>. QED  BY <1>4, <2>1, <2>2, <3>1, <3>2, <3>4
  <2>4. CASE ~ListenerAnnounce
    <3>1. bq' = bq /\ (Unannounced(d) => Unannounced(d)')
      BY <1>13, <2>4 DEF ListenerTalks, ListenerIntroduce, ListenerShipIds, SnapshotTest,
         SnapshotCompare, SnapshotRead, SnapshotTell, Unannounced, messages
    <3>. QED  BY <1>4, <2>1, <2>2, <3>1
  <2>. QED  BY <2>3, <2>4
<1>. QED
  BY <1>6, <1>7, <1>8, <1>9, <1>10, <1>11, <1>12, <1>13, NextCases DEF OthersTalk

-----------------------------------------------------------------------------
(* The theorems.                                                           *)

\* The invariant is inductive.
LEMMA Inductive == Spec => []IInv
<1>1. IInv /\ [Next]_vars => IInv'
  BY NextTypeOK, NextTableInv, NextHeard, ReadersSafe DEF IInv
<1>. QED  BY InitIInv, <1>1, PTL DEF Spec

\* The variables of the registry always have their types; in particular the
\* unlocked snapshot never indexes past the storage of m_ClientIds.
THEOREM TypeCorrect == Spec => []TypeOK
<1>1. IInv => TypeOK
  BY DEF IInv
<1>. QED  BY Inductive, <1>1, PTL

\* Whoever takes m_ClientAccessMutex finds m_ClientIds and the two maps in
\* agreement.
THEOREM TablesAlwaysAgree == Spec => []TablesAgree
<1>1. IInv => TablesAgree
  <2>. SUFFICES ASSUME IInv, mutex = None PROVE TablesAgree
    BY DEF TablesAgree
  <2>. USE RegistryAssumption DEF IInv, TableInv
  <2>1. \A c \in Clients : Live(c) => \A i \in Listed :
          slots[i] = ids[c] => EntryOf(i, c)
    BY DEF LiveIsListed, EntryOf
  <2>2. \A i \in Listed : \E c \in Clients :
          EntryOf(i, c) /\ life[c] \in {"alive", "woken"}
    BY <2>1 DEF EntriesNameClients, Live
  <2>3. \A i, j \in Listed :
          slots[i].pub = slots[j].pub \/ slots[i].priv = slots[j].priv => i = j
    BY DEF EntriesDiffer
  <2>4. \A c \in Clients : Live(c) => \E i \in Listed : EntryOf(i, c)
    BY <2>1 DEF LiveIsListed
  <2>5. /\ \A p \in PublicIds : pubMap[p] # None =>
             pubMap[p] \in Clients /\ Live(pubMap[p])
        /\ \A p \in PrivateIds : privMap[p] # None =>
             privMap[p] \in Clients /\ Live(privMap[p])
    BY DEF MapsNameClients, TypeOK
  <2>. QED  BY <2>2, <2>3, <2>4, <2>5 DEF TablesAgree
<1>. QED  BY Inductive, <1>1, PTL

\* AddClient overwrites no entry of the maps, although the identifiers were
\* chosen before it took the mutex.
THEOREM NeverOverwrites == Spec => []NoOverwrite
<1>1. IInv => NoOverwrite
  BY DEF IInv, TableInv
<1>. QED  BY Inductive, <1>1, PTL

\* The broadcaster and the UDP receiver never meet a client that is being, or
\* has been, deleted.
THEOREM LockedReaders == Spec => []LockedReadersSafe
<1>1. IInv => LockedReadersSafe
  BY DEF IInv
<1>. QED  BY Inductive, <1>1, PTL

\* RemoveClient deletes the client whose KeepAlive thread called it.
THEOREM AlwaysRemovesItself == Spec => []RemovesItself
<1>1. IInv => RemovesItself
  <2>. SUFFICES ASSUME IInv, NEW c \in Clients
                PROVE  /\ kpc[c] = "joining" => Victim = c /\ life[c] = "dying"
                       /\ life[c] \in {"dying", "freed"} => kpc[c] # "idle"
    BY DEF RemovesItself
  <2>1. kpc[c] = "joining" => mutex = c
    BY DEF IInv, TableInv, RemoverInv
  <2>2. kpc[c] = "joining" => Victim = c
    BY <2>1 DEF IInv, TableInv, RemoverInv, Victim
  <2>. QED  BY <2>2 DEF IInv, TableInv, LifeInv
<1>. QED  BY Inductive, <1>1, PTL

\* RemoveClient's search always finds the client.
THEOREM SearchSucceeds == Spec => []AlwaysFound
<1>1. IInv => AlwaysFound
  BY RegistryAssumption
  DEF IInv, TableInv, ListenerInv, LiveIsListed, Live, AlwaysFound
<1>. QED  BY Inductive, <1>1, PTL

\* What is said of clients is true of them, too.
LEMMA TalkInductive == Spec => [](IInv /\ TalkInv)
<1>1. Init => TalkInv
  BY DEF Init, TalkInv, FreshInv, GoneInv, SenderInv, Range
<1>2. IInv /\ TalkInv /\ [Next]_vars => TalkInv'
  BY ObjectsKeep, NextGone, NextSender DEF IInv, TalkInv
<1>3. Spec => []TalkInv
  BY Inductive, <1>1, <1>2, PTL DEF Spec
<1>. QED  BY Inductive, <1>3, PTL

\* A client is told of a removal only when a client of that public id has been
\* deleted.
THEOREM RemovalsAreTrue == Spec => []RemovalIsTrue
<1>1. IInv /\ TalkInv => RemovalIsTrue
  BY DEF TalkInv, GoneInv, Gone, RemovalIsTrue, Told
<1>. QED  BY TalkInductive, <1>1, PTL

\* The UDP address of a client is its own, or comes from another client with the
\* same private id.
THEOREM OriginIsItsOwn == Spec => []OriginIsOwnUnlessReused
<1>1. IInv /\ TalkInv => OriginIsOwnUnlessReused
  BY DEF IInv, TypeOK, TalkInv, SenderInv, OriginIsOwnUnlessReused
<1>. QED  BY TalkInductive, <1>1, PTL

\* The news is inductive, for as long as it is promised.
LEMMA NewsInductive == Spec => [](IInv /\ NewsInv)
<1>1. Init => NewsInv
  <2>. SUFFICES ASSUME Init PROVE NewsInv
    OBVIOUS
  <2>1. Leaving = {}
    BY DEF Init, Leaving
  <2>2. RemovalsFirst /\ NewsArrives /\ NewestIsLast /\ StartsAtFirst
    BY DEF Init, RemovalsFirst, NewsArrives, NewestIsLast, StartsAtFirst
  <2>. QED  BY <2>1, <2>2, FS_EmptySet DEF NewsInv
<1>2. IInv /\ TalkInv /\ NewsInv /\ [Next]_vars => NewsInv'
  <2>. SUFFICES ASSUME IInv, TalkInv, NewsInv, [Next]_vars PROVE NewsInv'
    OBVIOUS
  <2>1. TypeOK /\ TableInv /\ FreshInv /\ StartsAtFirst /\ NewestIsLast
    BY DEF IInv, TalkInv, NewsInv
  <2>2. IsFiniteSet(Leaving') /\ StartsAtFirst' /\ NewestIsLast'
    BY <2>1, LivesGoOn, NextStarts, NextNewest DEF NewsInv
  <2>3. OneLeaves' => OneLeaves
    BY <2>1, LivesGoOn DEF OneLeaves
  <2>4. ~Vendor /\ OneLeaves' => RemovalsFirst' /\ NewsArrives'
    BY <2>1, <2>3, NextRemovals, NextNews DEF NewsInv
  <2>. QED  BY <2>2, <2>4 DEF NewsInv
<1>. QED  BY TalkInductive, <1>1, <1>2, PTL DEF Spec

\* As long as one client leaves at most, every client that stays knows of every other as
\* soon as all has been delivered, whatever the order in which they came, and however
\* their identifiers were used before.
THEOREM AlwaysKnowsOthers == Spec => []KnowsOthersIfOneLeaves
<1>1. IInv /\ NewsInv => KnowsOthersIfOneLeaves
  <2>. SUFFICES ASSUME IInv, NewsInv, Cardinality(Leaving) <= 1, Quiet, ~Vendor,
                       NEW c \in Clients, NEW d \in Clients, c # d,
                       life[c] = "alive", life[d] = "alive"
                PROVE  LastWord(c, ids[d].pub) = "ADD"
    BY DEF KnowsOthersIfOneLeaves, KnowsOthers
  <2>. DEFINE p == ids[d].pub
              s == inbox[c]
              about == {k \in DOMAIN s : s[k].id = p /\ s[k].op \in {"ADD", "REMOVE"}}
  <2>1. OneLeaves
    <3>1. Cardinality(Leaving) = 0 \/ Cardinality(Leaving) = 1
      BY FS_CardinalityType DEF NewsInv
    <3>2. CASE Cardinality(Leaving) = 0
      BY <3>2, FS_EmptySet DEF NewsInv, OneLeaves
    <3>3. CASE Cardinality(Leaving) = 1
      BY <3>3, FS_Singleton DEF NewsInv, OneLeaves
    <3>. QED  BY <3>1, <3>2, <3>3
  <2>2. NewsOf(c, d)
    BY <2>1 DEF NewsInv, NewsArrives
  <2>3. Tells(s, p)
    BY <2>2 DEF Quiet, NewsOf, Unannounced, InView, Behind
  <2>4. PICK k \in DOMAIN s :
          /\ s[k] = [op |-> "ADD", id |-> p]
          /\ \A j \in DOMAIN s : j > k => s[j].id # p \/ s[j].op \notin {"ADD", "REMOVE"}
    BY <2>3 DEF Tells
  <2>5. s \in Seq(InboxMessages)
    BY DEF IInv, TypeOK
  <2>6. k \in about /\ \A j \in about : j <= k
    BY <2>4, <2>5
  <2>7. \A i \in about : (\A j \in about : j <= i) => i = k
    BY <2>5, <2>6
  <2>8. (CHOOSE i \in about : \A j \in about : j <= i) = k
    BY <2>6, <2>7
  <2>9. LastWord(c, p) = s[k].op
    BY <2>6, <2>8 DEF LastWord
  <2>. QED  BY <2>4, <2>9
<1>. QED  BY NewsInductive, <1>1, PTL
=============================================================================
