--------------------------- MODULE ClientRegistry ---------------------------
(***************************************************************************)
(* The server's table of clients and every thread that touches it.         *)
(*                                                                         *)
(* NetworkControl keeps a vector of identifier pairs (m_ClientIds) and two *)
(* maps from identifiers to Client objects, under m_ClientAccessMutex.     *)
(* The listener adds clients, each client's KeepAlive thread removes its   *)
(* own client, the broadcaster and the UDP receiver read under the mutex;  *)
(* the listener's snapshot loop and the application's SendTCP/SendUDP read *)
(* without it.                                                             *)
(*                                                                         *)
(* The critical sections of the two locked readers are single actions: no  *)
(* unlocked thread writes what they read.  A thread that uses an object    *)
(* whose destructor has begun is recorded in `dangling' and goes on, as it *)
(* does when the freed memory still holds the old values.                  *)
(***************************************************************************)
EXTENDS Naturals, Sequences, FiniteSets, Functions

CONSTANTS
  Clients,      \* the Client objects that the listener may create
  PublicIds,    \* what RandomID can return for a public id, ...
  PrivateIds,   \* ... and for a private id
  None,         \* the null pointer
  Listener,     \* the listener, as an owner of the mutex
  Vendor,       \* the VENDOR_MODE flag
  Udp,          \* the PROTOCOL_UDP flag
  AppSends,     \* the application calls SendTCP or SendUDP
  MayLeave       \* bound: the clients whose KeepAlive wakes in this run

ASSUME RegistryAssumption ==
  /\ None \notin Clients /\ None \notin [pub : PublicIds, priv : PrivateIds]
  /\ Listener \notin Clients \cup {None}
  /\ Vendor \in BOOLEAN /\ Udp \in BOOLEAN /\ AppSends \in BOOLEAN
  /\ MayLeave \subseteq Clients

VARIABLES
  mutex,        \* m_ClientAccessMutex: its owner, or None
  slots,        \* the storage of m_ClientIds, popped elements included
  count,        \* m_ClientIds.size()
  pubMap,       \* m_PublicIdClientMap
  privMap,      \* m_PrivateIdClientMap
  ids,          \* m_PublicId and m_PrivateId of every object
  life,         \* none, alive, woken (KeepAlive has ended its wait), dying, freed
  kpc,          \* where KeepAlive, inside RemoveClient, is
  ri,           \* the loop variable i of RemoveClient
  lpc,          \* where the listener is
  lclient,      \* newClientObj
  lids,         \* publicId and privateId of the listener
  lidx,         \* the loop variable i of the listener's snapshot
  ltold,        \* the identifier written into the snapshot packet `pack'
  bq,           \* the broadcaster's queue
  inbox,        \* what was queued for each client, in order
  net,          \* UDP datagrams sent by client processes
  origin,       \* m_UDPOrigin of every object, None until m_UDPInitialized
  appPtr,       \* the pointer SendTCP has looked up
  dangling      \* history: who has used an object under or after destruction

table    == <<slots, count, pubMap, privMap>>
objects  == <<ids, life>>
remover  == <<kpc, ri>>
listener == <<lpc, lclient, lids, lidx, ltold>>
messages == <<bq, inbox>>
udp      == <<net, origin>>
vars     == <<mutex, slots, count, pubMap, privMap, ids, life, kpc, ri, lpc,
              lclient, lids, lidx, ltold, bq, inbox, net, origin, appPtr,
              dangling>>

IdPairs == [pub : PublicIds, priv : PrivateIds]

Listed == 1 .. count

Init ==
  /\ mutex = None
  /\ slots = <<>> /\ count = 0
  /\ pubMap = [p \in PublicIds |-> None]
  /\ privMap = [p \in PrivateIds |-> None]
  /\ ids = [c \in Clients |-> None]
  /\ life = [c \in Clients |-> "none"]
  /\ kpc = [c \in Clients |-> "idle"] /\ ri = 0
  /\ lpc = "accept" /\ lclient = None /\ lids = None /\ lidx = 1 /\ ltold = None
  /\ bq = <<>> /\ inbox = [c \in Clients |-> <<>>]
  /\ net = {} /\ origin = [c \in Clients |-> None]
  /\ appPtr = None
  /\ dangling = {}

\* Using an object whose destructor has begun.
Unsafe(c) == c \in Clients /\ life[c] \in {"dying", "freed"}

Touch(site, c) ==
  dangling' = IF Unsafe(c) THEN dangling \cup {site} ELSE dangling

\* GetSenderObject()->AddToQueue( m ).
Queue(c, m) ==
  inbox' = IF Unsafe(c) THEN inbox ELSE [inbox EXCEPT ![c] = Append(@, m)]

\* The message m has been queued for client c.
Told(c, m) == m \in Range(inbox[c])

-----------------------------------------------------------------------------
(* The listener: ListenerEntry and AddClient.                              *)

\* Mutant: the identifiers are drawn without looking at the maps.
AcceptUnchecked(c) ==
  /\ lpc = "accept" /\ life[c] = "none"
  /\ lids' \in IdPairs
  /\ lclient' = c /\ lpc' = "add"
  /\ UNCHANGED <<mutex, table, objects, remover, lidx, ltold, messages, udp,
                 appPtr, dangling>>

\* accept(), and two identifiers not in use, drawn without the mutex.
ListenerAccept(c) ==
  /\ lpc = "accept" /\ life[c] = "none"
  /\ lids' \in {d \in IdPairs : pubMap[d.pub] = None /\ privMap[d.priv] = None}
  /\ lclient' = c /\ lpc' = "add"
  /\ UNCHANGED <<mutex, table, objects, remover, lidx, ltold, messages, udp,
                 appPtr, dangling>>

\* AddClient: Lock, new Client (its threads run from here on), ...
AddClientNew ==
  /\ lpc = "add" /\ mutex = None
  /\ mutex' = Listener
  /\ ids' = [ids EXCEPT ![lclient] = lids]
  /\ life' = [life EXCEPT ![lclient] = "alive"]
  /\ lpc' = "register"
  /\ UNCHANGED <<table, remover, lclient, lids, lidx, ltold, messages, udp,
                 appPtr, dangling>>

\* ... the two maps, push_back, Unlock.
AddClientRegister ==
  /\ lpc = "register"
  /\ pubMap' = [pubMap EXCEPT ![lids.pub] = lclient]
  /\ privMap' = [privMap EXCEPT ![lids.priv] = lclient]
  /\ slots' = IF count = Len(slots) THEN Append(slots, lids)
                                    ELSE [slots EXCEPT ![count + 1] = lids]
  /\ count' = count + 1
  /\ mutex' = None
  /\ lpc' = "intro"
  /\ UNCHANGED <<objects, remover, lclient, lids, lidx, ltold, messages, udp,
                 appPtr, dangling>>

\* The IP address is stored in the new object; the OnAddClient callback.
ListenerIntroduce ==
  /\ lpc = "intro"
  /\ Touch("listener", lclient)
  /\ lpc' = "ship"
  /\ UNCHANGED <<mutex, table, objects, remover, lclient, lids, lidx, ltold,
                 messages, udp, appPtr>>

AcceptNext ==
  /\ lpc' = "accept" /\ lclient' = None /\ lids' = None
  /\ lidx' = 1 /\ ltold' = None

\* "Ship the new client's IDs back."
ListenerShipIds ==
  /\ lpc = "ship"
  /\ Touch("listener", lclient)
  /\ Queue(lclient, [op |-> "GET_ID", id |-> lids.pub])
  /\ IF Vendor THEN AcceptNext
               ELSE lpc' = "announce" /\ UNCHANGED <<lclient, lids, lidx, ltold>>
  /\ UNCHANGED <<mutex, table, objects, remover, bq, udp, appPtr>>

\* "Broadcast the public ID to all other clients."  On the way SetUDPEnabled is called
\* on the packet with the ids, which the new client's sender may have sent and
\* deleted by now.
ListenerAnnounce ==
  /\ lpc = "announce"
  /\ \E sent \in BOOLEAN :
       dangling' = dangling \cup {x \in {"listener"} : Unsafe(lclient)}
                            \cup {x \in {"packet"} : sent}
  /\ bq' = Append(bq, [op |-> "ADD", id |-> lids.pub, exclude |-> {lids.priv}])
  /\ lpc' = "test"
  /\ UNCHANGED <<mutex, table, objects, remover, lclient, lids, lidx, ltold,
                 inbox, udp, appPtr>>

\* Mutant: the loop runs to one past the end.
SnapshotTestOneTooFar ==
  /\ lpc = "test"
  /\ IF lidx <= count + 1
     THEN lpc' = "compare" /\ UNCHANGED <<lclient, lids, lidx, ltold>>
     ELSE AcceptNext
  /\ UNCHANGED <<mutex, table, objects, remover, messages, udp, appPtr, dangling>>

\* The snapshot loop tells the new client about the others, without the mutex:
\* the size is tested, the element compared, and the element read again.
SnapshotTest ==
  /\ lpc = "test"
  /\ IF lidx \in Listed
     THEN lpc' = "compare" /\ UNCHANGED <<lclient, lids, lidx, ltold>>
     ELSE AcceptNext
  /\ UNCHANGED <<mutex, table, objects, remover, messages, udp, appPtr, dangling>>

SnapshotCompare ==
  /\ lpc = "compare"
  /\ IF slots[lidx].pub # lids.pub
     THEN lpc' = "read" /\ UNCHANGED lidx
     ELSE lpc' = "test" /\ lidx' = lidx + 1
  /\ UNCHANGED <<mutex, table, objects, remover, lclient, lids, ltold,
                 messages, udp, appPtr, dangling>>

SnapshotRead ==
  /\ lpc = "read"
  /\ ltold' = slots[lidx].pub
  /\ lpc' = "tell"
  /\ UNCHANGED <<mutex, table, objects, remover, lclient, lids, lidx, messages,
                 udp, appPtr, dangling>>

SnapshotTell ==
  /\ lpc = "tell"
  /\ Touch("listener", lclient)
  /\ Queue(lclient, [op |-> "ADD", id |-> ltold])
  /\ lpc' = "test" /\ lidx' = lidx + 1 /\ ltold' = None
  /\ UNCHANGED <<mutex, table, objects, remover, lclient, lids, bq, udp, appPtr>>

ListenerStep ==
  \/ \E c \in Clients : ListenerAccept(c)
  \/ AddClientNew \/ AddClientRegister \/ ListenerIntroduce \/ ListenerShipIds
  \/ ListenerAnnounce
  \/ SnapshotTest \/ SnapshotCompare \/ SnapshotRead \/ SnapshotTell

-----------------------------------------------------------------------------
(* The KeepAlive thread of a client wakes and removes it: RemoveClient.    *)

\* Mutant: the removal is announced when KeepAlive wakes.
WakeAnnounces(c) ==
  /\ c \in MayLeave /\ life[c] = "alive"
  /\ life' = [life EXCEPT ![c] = "woken"]
  /\ bq' = Append(bq, [op |-> "REMOVE", id |-> ids[c].pub, exclude |-> {}])
  /\ UNCHANGED <<mutex, table, ids, remover, listener, inbox, udp, appPtr,
                 dangling>>

\* KeepAlive's m_StopEvent.Wait( INFINITE ) ends: the event was set, by the receiver
\* at the end of the connection or by SetStop; or, on Linux, by itself.  A client whose
\* stop is lost there (ClientThreads) is one that does not wake.
Wake(c) ==
  /\ c \in MayLeave /\ life[c] = "alive"
  /\ life' = [life EXCEPT ![c] = "woken"]
  /\ UNCHANGED <<mutex, table, ids, remover, listener, messages, udp, appPtr,
                 dangling>>

\* The object RemoveClient deletes: found by public id, named by private id.
Victim == privMap[slots[ri].priv]

\* Lock, and the search: the first entry with the client's public id.  (A
\* search that fails changes nothing; AlwaysFound says that none does.)
RemoveFind(c) ==
  /\ kpc[c] = "idle" /\ life[c] = "woken" /\ mutex = None
  /\ \E i \in Listed :
       /\ slots[i].pub = ids[c].pub
       /\ \A j \in 1 .. i - 1 : slots[j].pub # ids[c].pub
       /\ ri' = i
  /\ mutex' = c
  /\ life' = [x \in Clients |-> IF x = privMap[slots[ri'].priv]
                                THEN "dying" ELSE life[x]]
  /\ kpc' = [kpc EXCEPT ![c] = "joining"]
  /\ UNCHANGED <<table, ids, listener, messages, udp, appPtr, dangling>>

\* Mutant: the removal is not announced.
DestroyQuietly(c) ==
  /\ kpc[c] = "joining"
  /\ life' = [x \in Clients |-> IF x = Victim THEN "freed" ELSE life[x]]
  /\ kpc' = [kpc EXCEPT ![c] = "unlink"]
  /\ UNCHANGED <<mutex, table, ids, ri, listener, messages, udp, appPtr, dangling>>

\* ~Client: its threads are joined, the OnRemoveClient callback is called,
\* the removal is broadcast, the object is freed.
DestroyClient(c) ==
  /\ kpc[c] = "joining"
  /\ life' = [x \in Clients |-> IF x = Victim THEN "freed" ELSE life[x]]
  /\ bq' = Append(bq, [op |-> "REMOVE", id |-> ids[Victim].pub, exclude |-> {}])
  /\ kpc' = [kpc EXCEPT ![c] = "unlink"]
  /\ UNCHANGED <<mutex, table, ids, ri, listener, inbox, udp, appPtr, dangling>>

\* Mutant: the entry of the private map is forgotten.
RemoveUnlinkPublicOnly(c) ==
  /\ kpc[c] = "unlink"
  /\ pubMap' = [pubMap EXCEPT ![slots[ri].pub] = None]
  /\ kpc' = [kpc EXCEPT ![c] = "swap"]
  /\ UNCHANGED <<mutex, slots, count, privMap, objects, ri, listener, messages,
                 udp, appPtr, dangling>>

\* The maps forget the client, ...
RemoveUnlink(c) ==
  /\ kpc[c] = "unlink"
  /\ privMap' = [privMap EXCEPT ![slots[ri].priv] = None]
  /\ pubMap' = [pubMap EXCEPT ![slots[ri].pub] = None]
  /\ kpc' = [kpc EXCEPT ![c] = "swap"]
  /\ UNCHANGED <<mutex, slots, count, objects, ri, listener, messages, udp,
                 appPtr, dangling>>

\* ... the last element of the vector takes its place, ...
RemoveSwap(c) ==
  /\ kpc[c] = "swap"
  /\ slots' = [slots EXCEPT ![ri] = slots[count]]
  /\ kpc' = [kpc EXCEPT ![c] = "pop"]
  /\ UNCHANGED <<mutex, count, pubMap, privMap, objects, ri, listener, messages,
                 udp, appPtr, dangling>>

\* Mutant: the mutex is not given back.
RemovePopKeepsMutex(c) ==
  /\ kpc[c] = "pop"
  /\ count' = count - 1
  /\ kpc' = [kpc EXCEPT ![c] = "done"]
  /\ UNCHANGED <<mutex, slots, pubMap, privMap, objects, ri, listener, messages,
                 udp, appPtr, dangling>>

\* ... pop_back, Unlock.
RemovePop(c) ==
  /\ kpc[c] = "pop"
  /\ count' = count - 1
  /\ mutex' = None
  /\ kpc' = [kpc EXCEPT ![c] = "done"]
  /\ UNCHANGED <<slots, pubMap, privMap, objects, ri, listener, messages, udp,
                 appPtr, dangling>>

Remove(c) == RemoveFind(c) \/ RemoveUnlink(c) \/ RemoveSwap(c) \/ RemovePop(c)

-----------------------------------------------------------------------------
(* The broadcaster, the UDP receiver and the application.                  *)

\* Mutant: PF_EXCLUDEORIGIN is taken for PF_SPECIFIC.
RecipientsSpecific(m) ==
  {privMap[slots[i].priv] : i \in {j \in Listed : slots[j].priv \in m.exclude}}
    \ {None}

\* The clients a broadcast goes to; PF_EXCLUDEORIGIN leaves one out.
Recipients(m) ==
  {privMap[slots[i].priv] : i \in {j \in Listed : slots[j].priv \notin m.exclude}}
    \ {None}

\* Broadcaster::ProcessLoop takes one packet and queues a copy for each
\* recipient, under the mutex.
BroadcastNext ==
  LET m == Head(bq) IN
  /\ bq # <<>> /\ mutex = None
  /\ bq' = Tail(bq)
  /\ inbox' = [c \in Clients |->
                IF c \in Recipients(m) /\ ~Unsafe(c)
                THEN Append(inbox[c], [op |-> m.op, id |-> m.id]) ELSE inbox[c]]
  /\ dangling' = dangling \cup
                 {s \in {"broadcaster"} : \E c \in Recipients(m) : Unsafe(c)}
  /\ UNCHANGED <<mutex, table, objects, remover, listener, udp, appPtr>>

\* A client process that has learnt its identifiers sends a datagram with its
\* private id.  The network may delay it, repeat it or drop it.
ClientHello(c) ==
  /\ Udp
  /\ \E k \in DOMAIN inbox[c] : inbox[c][k].op = "GET_ID"
  /\ net' = net \cup {[priv |-> ids[c].priv, from |-> c]}
  /\ UNCHANGED <<mutex, table, objects, remover, listener, messages, origin,
                 appPtr, dangling>>

\* Mutant: every client without an address takes the datagram's.
UdpReceiveEverybody(d) ==
  LET c == privMap[d.priv] IN
  /\ mutex = None /\ c # None
  /\ Touch("udp", c)
  /\ origin' = [x \in Clients |-> IF origin[x] = None THEN d.from ELSE origin[x]]
  /\ UNCHANGED <<mutex, table, objects, remover, listener, messages, net, appPtr>>

\* UDPReceiver::ProcessLoop hands the datagram to the client the private id
\* names, under the mutex; the first one gives the client its UDP address.
UdpReceive(d) ==
  LET c == privMap[d.priv] IN
  /\ mutex = None /\ c # None
  /\ Touch("udp", c)
  /\ origin' = [origin EXCEPT ![c] = IF @ = None THEN d.from ELSE @]
  /\ UNCHANGED <<mutex, table, objects, remover, listener, messages, net, appPtr>>

\* ServerSide::SendTCP and SendUDP look the client up, ...
AppLookup(p) ==
  /\ AppSends /\ appPtr = None
  /\ appPtr' = privMap[p]
  /\ UNCHANGED <<mutex, table, objects, remover, listener, messages, udp, dangling>>

\* ... and use its sender; no mutex is taken.
AppUse ==
  /\ appPtr # None
  /\ Touch("application", appPtr)
  /\ appPtr' = None
  /\ UNCHANGED <<mutex, table, objects, remover, listener, messages, udp>>

\* ServerSide::Broadcast: the application's packet is PF_FREE, PF_EXCLUDEORIGIN
\* or PF_SPECIFIC.  Bounds: all clients have connected, no datagram has been sent;
\* a broadcast that has reached somebody is the last.
AppBroadcast ==
  /\ AppSends /\ appPtr = None
  /\ net = {} /\ \A c \in Clients : life[c] # "none"
  /\ \A m \in Range(bq) : m.op # "APP"
  /\ \A c \in Clients : ~Told(c, [op |-> "APP", id |-> None])
  /\ \E p \in PrivateIds, exclude \in SUBSET PrivateIds :
       /\ exclude \in {{}, {p}, PrivateIds \ {p}}
       /\ bq' = Append(bq, [op |-> "APP", id |-> None, exclude |-> exclude])
  /\ UNCHANGED <<mutex, table, objects, remover, listener, inbox, udp, appPtr, dangling>>

-----------------------------------------------------------------------------
Next ==
  \/ ListenerStep
  \/ \E c \in Clients : Wake(c) \/ Remove(c) \/ DestroyClient(c) \/ ClientHello(c)
  \/ BroadcastNext
  \/ \E d \in net : UdpReceive(d)
  \/ \E p \in PrivateIds : AppLookup(p)
  \/ AppUse \/ AppBroadcast

Spec == Init /\ [][Next]_vars

\* The threads are scheduled.  accept() may block for ever, as may the joins
\* of ~Client, which wait for recv() and send().
Fairness ==
  /\ WF_vars(ListenerStep /\ lpc # "accept")
  /\ \A c \in Clients : WF_vars(Remove(c))
  /\ WF_vars(BroadcastNext)

FairSpec == Spec /\ Fairness

-----------------------------------------------------------------------------
(* Properties.                                                             *)

InboxMessages == [op : {"GET_ID", "ADD", "REMOVE", "APP"}, id : PublicIds \cup {None}]

\* The registry's variables have the shape the declarations give them; an
\* index into m_ClientIds never leaves the storage of the vector.
TypeOK ==
  /\ mutex \in Clients \cup {None, Listener}
  /\ slots \in Seq(IdPairs) /\ count \in 0 .. Len(slots)
  /\ pubMap \in [PublicIds -> Clients \cup {None}]
  /\ privMap \in [PrivateIds -> Clients \cup {None}]
  /\ ids \in [Clients -> IdPairs \cup {None}]
  /\ life \in [Clients -> {"none", "alive", "woken", "dying", "freed"}]
  /\ kpc \in [Clients -> {"idle", "joining", "unlink", "swap", "pop", "done"}]
  /\ ri \in 0 .. Len(slots)
  /\ lpc \in {"accept", "add", "register", "intro", "ship", "announce", "test",
              "compare", "read", "tell"}
  /\ lclient \in Clients \cup {None}
  /\ lids \in IdPairs \cup {None}
  /\ lidx \in Nat \ {0} /\ (lpc \in {"compare", "read"} => lidx <= Len(slots))
  /\ ltold \in PublicIds \cup {None} /\ (lpc = "tell" => ltold \in PublicIds)
  /\ bq \in Seq([op : {"ADD", "REMOVE", "APP"}, id : PublicIds \cup {None},
                 exclude : SUBSET PrivateIds])
  /\ inbox \in [Clients -> Seq(InboxMessages)]
  /\ net \subseteq [priv : PrivateIds, from : Clients]
  /\ origin \in [Clients -> Clients \cup {None}]
  /\ appPtr \in Clients \cup {None}
  /\ dangling \subseteq {"listener", "packet", "broadcaster", "udp", "application"}

\* Entry i of m_ClientIds belongs to client c.
EntryOf(i, c) ==
  /\ ids[c] = slots[i]
  /\ pubMap[slots[i].pub] = c /\ privMap[slots[i].priv] = c

\* Whoever takes m_ClientAccessMutex finds the three tables in agreement:
\* every entry of the vector is one live client, known to both maps under the
\* entry's ids, no client has two entries, and the maps hold nothing else.
TablesAgree ==
  mutex = None =>
    /\ \A i \in Listed : \E c \in Clients :
         EntryOf(i, c) /\ life[c] \in {"alive", "woken"}
    /\ \A i, j \in Listed :
         slots[i].pub = slots[j].pub \/ slots[i].priv = slots[j].priv => i = j
    /\ \A p \in PublicIds : pubMap[p] # None =>
         \E i \in Listed : EntryOf(i, pubMap[p])
    /\ \A p \in PrivateIds : privMap[p] # None =>
         \E i \in Listed : EntryOf(i, privMap[p])

\* The identifiers are drawn before AddClient takes the mutex and are still
\* free when it writes the maps: no client's map entry is overwritten.
NoOverwrite ==
  lpc \in {"add", "register"} =>
    pubMap[lids.pub] = None /\ privMap[lids.priv] = None

\* The readers that take the mutex never meet a client that is being deleted.
LockedReadersSafe == dangling \cap {"broadcaster", "udp"} = {}

\* RemoveClient searches by public id and deletes by private id: what it
\* deletes is the client whose KeepAlive thread called it, once, and only
\* after that thread's wait has ended.
RemovesItself ==
  \A c \in Clients :
    /\ kpc[c] = "joining" => Victim = c /\ life[c] = "dying"
    /\ life[c] \in {"dying", "freed"} => kpc[c] # "idle"

\* RemoveClient's search never fails: a client that is to leave is still in the vector
\* when its KeepAlive thread gets the mutex, wherever the removals of others
\* have moved it, so that it is deleted and not forgotten.
AlwaysFound ==
  \A c \in Clients :
    (mutex = None /\ kpc[c] = "idle" /\ life[c] = "woken") =>
      \E i \in Listed : slots[i].pub = ids[c].pub

\* A client is told that another one left only when some client of that id
\* has been deleted.
RemovalIsTrue ==
  \A c \in Clients, p \in PublicIds :
    Told(c, [op |-> "REMOVE", id |-> p]) =>
      \E d \in Clients : ids[d] # None /\ ids[d].pub = p /\ life[d] = "freed"

\* Nothing is on its way to the clients, and nobody is coming or going.
Quiet == lpc = "accept" /\ bq = <<>> /\ mutex = None
         /\ \A c \in Clients : life[c] # "woken"

\* What a client has been told last about the public id p.
LastWord(c, p) ==
  LET about == {k \in DOMAIN inbox[c] :
                  inbox[c][k].id = p /\ inbox[c][k].op \in {"ADD", "REMOVE"}}
  IN  IF about = {} THEN "nothing"
      ELSE inbox[c][CHOOSE k \in about : \A j \in about : j <= k].op

\* "By default, every client has information about the other clients on the
\* server": once everything has been delivered, each live client has been
\* told of each other one and its last word about it is that it is there.
KnowsOthers ==
  (Quiet /\ ~Vendor) =>
    \A c, d \in Clients :
      (c # d /\ life[c] = "alive" /\ life[d] = "alive") =>
        LastWord(c, ids[d].pub) = "ADD"

\* The clients whose KeepAlive has woken, or which are being or have been deleted.
Leaving == {c \in Clients : life[c] \in {"woken", "dying", "freed"}}

\* So it is as long as no more than one client leaves: the entry it leaves
\* behind in m_ClientIds, while the listener goes through them, hides no other.
KnowsOthersIfOneLeaves == Cardinality(Leaving) <= 1 => KnowsOthers

\* "We need to know the UDP origin to send UDP data back": the address a
\* client's UDP packets go to is its own, as long as no private id has been
\* given to two clients.
OriginIsOwnUnlessReused ==
  \A c \in Clients :
    origin[c] \in {c, None} \/ \E d \in Clients \ {c} :
      ids[c] # None /\ ids[d] # None /\ ids[d].priv = ids[c].priv

\* A client whose KeepAlive has ended its wait is deleted, whoever else is removed and
\* wherever that moves its entry, provided the joins in ~Client return.
WokenIsFreed ==
  (\A c \in Clients : []<>(kpc[c] # "joining")) =>
    \A c \in Clients : life[c] = "woken" ~> life[c] = "freed"

\* Every client in the table while another one is deleted hears of it, unless
\* it leaves as well.
RemovalIsTold ==
  (\A c \in Clients : []<>(kpc[c] # "joining")) =>
    \A c, d \in Clients :
      (kpc[d] = "unlink" /\ c # d /\ life[c] = "alive"
         /\ \E i \in Listed : ids[c] = slots[i])
        ~> \/ life[c] # "alive"
           \/ ids[d] # None /\ Told(c, [op |-> "REMOVE", id |-> ids[d].pub])
=============================================================================
