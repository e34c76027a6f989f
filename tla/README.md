# IceNet in TLA+

IceNet (`src/IceNetLib`) is a C++ library for client/server games and chat: a
server accepts TCP connections, gives every connection a `Client` object with
threads of its own, keeps the clients in a table, and hands packets to functions
of the application by operation code; a client process has one `Client`, its
connection to the server, and a proxy for every other client. There are no
tests in the repository, and almost everything that can go wrong is a matter of
threads. This directory models the library in TLA+, checks the models with TLC
and proves what matters most about them with TLAPS.

## The system

| part | state | operations | works with |
|---|---|---|---|
| `PacketSender` | a queue, its mutex and semaphore, a thread | `AddToQueue`, the loop, the destructor | fed by listener, broadcaster, application; `SendTo...` of `NetworkControl` |
| `PacketReceiver` | a thread | the loop: header, body, hand over | feeds `PacketHandler`; sets the client's stop event |
| `PacketHandler` | a queue, a thread under `HANDLER_ASYNC` | `AddToQueue`, the loop, `HandlePackets` | fed by receiver and `UDPReceiver`; calls `OpCodeHandler` |
| `Client` | ids, stop event, UDP origin, the three objects above, KeepAlive thread | construction, `KeepAlive`, destruction, `SetStop` | removed from the table by its own thread |
| `NetworkControl` | vector of ids, maps from ids to clients and proxies, a mutex; sockets; singleton and init count | `AddClient`, `RemoveClient`, the proxies, `SendTo...`, initialise, deinitialise | everybody |
| listener (`ClientListener.cpp`) | the socket | accept, choose ids, add, introduce | table, broadcaster, the new client's sender |
| `Broadcaster` | a queue, a thread, a stop event | `AddToList`, the loop | table, every client's sender |
| `UDPReceiver` | a socket | read a datagram, find its client | table, handlers |
| `ClientEntry`, `ServerEntry` | threads | connect, start the others, wait for the stop | all |
| `ClientSide`, `ServerSide` | callbacks | `Connect`, `Disconnect`, `SendTCP`, ... | `NetworkControl`, without its mutex |
| `Packet` | a growing byte buffer with a header | streaming in and out, copy | |
| `OpCodeHandler` | a table of functions | link, call | |
| `Event`, `Semaphore`, `Mutex`, `Thread` | one system object each | wait, set, ... | Win32 and Linux differ |

What is hard in it:

- **Lifetimes.** `Client` objects are freed by their own KeepAlive thread under
  `m_ClientAccessMutex`; listener, broadcaster, UDP receiver, application,
  sender, receiver and handler all hold pointers to them.
- **Three tables that must agree**, searched by one id and freed by another,
  one of them a vector whose elements move.
- **Wake-ups**: a null packet and a flag end each loop, in an order that
  matters; `Event` behaves differently on the two platforms.
- **Messages by two ways** (broadcast and snapshot) about the same clients, and
  datagrams that come late while ids are given out again.
- **Locks held while joining threads** and, under `HANDLER_SYNC`, while calling
  the application.
- **Sixteen-bit sizes and indices** in packets, ids and operation codes.

`PROJECT.json` lists each of these hazards at its line with the properties that
guard it, or says why no property can.

## Modules

| module | models | how |
|---|---|---|
| `PacketFifo` | what any packet queue promises | abstract: `accepted`, `delivered`, the second a prefix of the first |
| `PacketQueue` | `m_PacketQueue`, `m_PacketAdditionMutex`, `m_PacketQueueSemaphore` | `AddToQueue` in two steps (lock and push; notify and unlock), a wait, a pop |
| `PacketSender` | class `PacketSender` | one action per step of `PacketSenderLoop` and of the destructor, which may come unasked; `AddToQueue` beside the destructor and after it; `stop` is the disjunction the loop tests |
| `PacketSenderProofs` | | theorems about it |
| `ClientRegistry` | the server's table and whoever touches it | listener step by step up to the three steps of its unlocked loop; `RemoveClient` step by step with `~Client` inside; the locked readers as single actions; `SendTCP`, `SendUDP` and `Broadcast` of the application |
| `ClientRegistryProofs` | | theorems about it |
| `ExtEvent` | class `Event` | `Set`, and `Wait` as a beginning and an end; the variable `linux`, which never changes, chooses the implementation |
| `ClientThreads` | one `Client` from construction to end | the constructing thread, receiver, handler, KeepAlive, `ClientEntry` and `SetStop` (of `Disconnect`, or of a `~NetworkControl` that takes no mutex), interleaved |
| `ClientThreadsProofs` | | theorems about it |
| `PacketBuffer` | class `Packet` | numbers only: `m_MaxSize`, the allocation, the stream position, the size field; `ResizeCheck` turn by turn with the conversion of `sizeof( T )`, `SetFromDataStream`, `GetCopy`, the way over the wire, reading back; what lies behind the allocation is lost |
| `PacketBufferProofs` | | theorems about it |
| `PacketStream` | a TCP connection between a `PacketSender` and a `PacketReceiver` | a byte is known by its place in the stream; `send()` and the network in pieces of every size, the header peeked at, the sizes calculated, the body read |
| `PacketStreamProofs` | | theorems about it |
| `OpCodeTable` | class `OpCodeHandler` | operators: the table as the object in memory that it is, with the cell behind it that an index can reach; the test and the shift in sixteen bits |
| `ProxyTable` | `m_ClientProxyIds`, `m_PublicIdClientProxyMap` | operators: `AddClientProxy`, `RemoveClientProxy`, the end of `~NetworkControl`; how often each proxy was deleted |
| `ClientDispatch` | a client process that handles its packets, under `HANDLER_SYNC` or `HANDLER_ASYNC` | linking, connecting, the two feeders, `HandlePackets` or the loop, the library's functions on the proxies, both mutexes, `Disconnect` |
| `ClientDispatchProofs` | | theorems about it |
| `ServerLife` | a server from `InitializeServer` to the end of `~NetworkControl`, twice | `Deinitialize`, `ServerEntry`, the broadcaster, the listener (which goes on using the client it has added), the UDP receiver (poll, `recvfrom()` that may block, lookup) and each client's KeepAlive, step by step where they touch what another deletes |
| `ServerLifeProofs` | | theorems about it |
| `ClientSession` | a client process: `Connect`, `ClientEntry`, `DisconnectAsync`, `Disconnect` | the same for the client's side, with `m_InitCount`, `m_RecycleConnection`, each step of `Deinitialize`, which callers may enter together, and the local client's threads, which outlive a session |
| `ClientSessionProofs` | | theorems about it |
| `MCPacketSender`, `MCClientRegistry`, `MCClientThreads`, `MCPacketBuffer`, `MCPacketStream`, `MCClientDispatch`, `MCServerLife`, `MCClientSession` | | model values, symmetry, starting states |

`PacketSender` is one client's sender in full with everything around it free to
happen at any time. `PacketStream` is what happens to the bytes between a sender
and a receiver, `ClientDispatch` what happens to the packets after the receiver.
`ClientRegistry` is all the clients of a server with their
threads reduced to "awake", when KeepAlive has ended its wait, and "removed". `ClientThreads` is one client with all
its threads, and the table reduced to whether it is in it. `ServerLife` and
`ClientSession` are what is around all that: they start the threads and take the
`NetworkControl` away under them. `ClientThreads` and `ServerLife` extend
`ExtEvent`; `PacketSender` extends `PacketQueue`; `ClientDispatch` extends
`OpCodeTable` and `ProxyTable`; `PacketSender` and the handler
of `ClientThreads` are each shown to implement `PacketFifo`.

Undefined behaviour is not followed. In `PacketSender`, `ClientThreads`,
`ClientDispatch`, `ServerLife` and `ClientSession` a use of a null or freed object, or `front()` of
an empty queue, ends the behaviour (`crashed`, `fault`), so that a liveness
property reads "or something was misused on the way". In `ClientRegistry` it is
recorded in `dangling` and the thread goes on, as happens when the freed memory
still holds the old values, so that the consequences of later steps are seen
too. A second `pthread_join` of a thread may return or not (`JoinedTwice`).

Definitions whose comment begins "Mutant" are wrong on purpose and used by
nothing. Each replaces one definition in a test that the properties notice.

## Runs

Runs that hold:

| run | question | instance |
|---|---|---|
| `sender` | can the loop pop an empty queue, dereference the null packet, lose or free a packet twice? is it a FIFO, is a packet sent at last, does the destructor wait for its thread and return? | 2 producers, 3 packets (1 UDP), 1 `SetStop`, destruction with and without a stop; waits that end by themselves |
| `registry` | do the tables agree, does everyone remove itself, is what clients are told of removals true, whose address does a client learn? | 3 clients over 2 public and 2 private ids, 2 leave; broadcasts of the application with each flag; datagrams delayed and repeated |
| `registry_crowd` | is a client whose KeepAlive is awake freed and its removal told, does everybody know everybody? | starts with 3 clients, a fourth may come, 2 may leave |
| `threads` | who can reach the handler when it is freed, are packets handled in order, does the removal return? | one client; Linux and Win32, server and client process; 1 packet, garbage and a datagram |
| `packet` | is the size true, is the buffer respected but for one byte, does a packet arrive as it was built, does adding to it return? | a word of 7 bits, a first buffer of 16 bytes, an 11-byte header, 2 pieces of data of every size up to 8 beyond the word, streams of 14 and 60 bytes |
| `stream` | are the packets handed over those that were sent, is a connection given up only at its end, is everything handed over? | 3 packets of 4, 8 and 4 bytes, pieces of every size, a close at any place |
| `dispatch` | do proxies tell what the server told, is each deleted once, does a code reach its function at both ends of the range, does handling end? | both handler settings, 4 packets over TCP and 1 datagram about 2 clients, 4-bit operation codes |
| `server_life` | are its own threads down when the `NetworkControl` is gone, what is misused, and by whom? | 2 lives, 2 clients, 1 broadcast; Linux and Win32; waits that end by themselves |
| `session` | when does `m_InitCount` tell the truth, is a signal left over, does `Disconnect` return? | 2 sessions, 1 packet each; Linux and Win32 |

Runs that end in a counterexample, each against a sentence of the code or of
the repository's README (quoted in `PROJECT.json`, "findings"):

| run | what happens |
|---|---|
| `registry_missed` | two removals during the listener's unlocked loop hide a client from the new one for good |
| `threads_lost_stop` | on Linux `Event::Wait` does not look at the flag: a connection that ends before KeepAlive waits is never removed |
| `dispatch_crossed` | under `HANDLER_SYNC`, `HandlePackets` and the UDP receiver take `m_ClientAccessMutex` and the queue's mutex in opposite orders, and wait for each other |

Deadlock is not checked: every one of these systems comes to rest when the
peers are silent or an application has called all it is allowed to, and the
threads that must not rest are named by the liveness properties.

### What the code does not keep

The following were met while modelling. The models contain them, since they
contain every step; the properties above are stated around them, in the form
that does hold, and nothing here should be read as excluding them.

- `~PacketSender`, `~PacketHandler` and `~Broadcaster` delete only half of what
  is left in their queues (PacketSender.cpp:46). `OnePlace` says that the rest is
  in the queue still.
- Nothing keeps the listener and the application out of `AddToQueue` while
  `~PacketSender` drains the queue, nor after it (ClientListener.cpp:110, 137,
  IceNetServer.cpp:57): `StrayAdd`, the faults "raced" and "freed" of `PacketSender`, hence "unless
  something is misused" in its liveness properties. `JoinedBeforeDrain` is about the
  sender's own thread.
- A wait without limit may end by itself on Linux (Event.cpp:109). KeepAlive then removes a client that nobody has
  stopped, and the null packet of `~PacketSender`, whose stop flag is down, is sent:
  `unasked` in `PacketSender`, `lapsed` in `ClientThreads`.
- A stop that comes before KeepAlive waits is lost on Linux (`threads_lost_stop`); hence
  `WokenIsFreed` begins where KeepAlive is awake.
- A UDP packet sent to a client before its first datagram ends that client's
  sender thread (NetworkControl.cpp:404, PacketSender.cpp:94); hence "or the
  thread has ended" in `EventuallySent`.
- The listener (ClientListener.cpp:96) and `SendTCP`, `SendUDP` (IceNetServer.cpp:53)
  use a client that its KeepAlive thread may have freed; the theorem `LockedReaders`
  is about the others. The listener also changes the packet with the `GET_ID` after it has queued
  it, when it may have been sent and deleted (ClientListener.cpp:121): "packet" in `dangling`.
- `~NetworkControl` calls `SetStop` of a server's clients without the mutex: its event wakes KeepAlive, which
  may free the sender and the handler that the next two lines use (Client.cpp:187-190). That is the one way to a
  freed handler (`OnlyStopMeetsFreed`).
- The semaphore of the handler may let its thread go on without a token, which then takes
  the front of an empty queue (Semaphore.cpp:80, PacketHandler.cpp:83); `HandleLapse`.
- A client may be told of another twice, of itself, or of one that has left
  already; `KnowsOthersIfOneLeaves`, `RemovalIsTrue`
  and `RemovalIsTold` are what remains. Private ids come back, and a late datagram of
  the former owner then gives the new one the wrong address
  (`OriginIsOwnUnlessReused`).
- The receiver runs before the handler it feeds is assigned (Client.cpp:50-54), and `~PacketHandler` does not join its thread, because
  `HANDLER_ASYNC` is 0 (PacketHandler.cpp:42).
- On Win32 the KeepAlive thread waits for itself in `~Client`, with
  `m_ClientAccessMutex` held (Client.cpp:87); `RemovalReturnsOnLinux` is about the
  other platform.
- A copy of a packet has 256 bytes, whatever its length (Packet.cpp:53), and
  `AddDataStreaming` does not return once `m_MaxSize` has become 0 (`ArrivesIntact`,
  `AddReturns`).
- `~NetworkControl` walks the table without the mutex while clients remove
  themselves, and deletes again what they have not (NetworkControl.cpp:261, 280);
  a KeepAlive thread may outlive it. `ServicesAreDown` is about the other
  threads, `MisusesAreKnown` says what goes wrong and whom it takes.
- The broadcaster keeps its stop event: in a second life the first packet ends it
  (Broadcaster.cpp:96).
- `ResizeCheck` leaves out two bytes, and one is written past the buffer
  (Packet.cpp:187): `OneByteOver` says that it is never more, in a packet that was built. That byte is lost by the next
  `realloc`, and whatever stands there is sent; hence `overrun = 0` in `ArrivesIntact`.
- Adding to a packet that was received or set from a stream writes past its end, since `m_MaxSize` is
  kept (Packet.cpp:161, 167). Adding a `T` of 65536 bytes or more, whose size `ResizeCheck` sees modulo 65536
  (Packet.h:87), does so anywhere and wraps the counters; hence `oversized`.
- A header that arrives in two parts is peeked at from its start again
  (PacketReceiver.cpp:65). Of a torn header the first bytes stand twice: with one byte the magic
  number fails and the connection is dropped, with two the size is the magic
  number, with three the high byte of the size is 'I'. Then packets may be
  swallowed or the receiver waits for ever, hence `split` in the properties of
  `PacketStream`.
- A client that is announced twice has two entries in the vector and one proxy
  that nobody deletes; after it is removed one entry is left
  (NetworkControl.cpp:498). Hence `toldTwice`.
- The operation code 65279 passes the test and its data lie one cell behind the
  object (OpCodeHandler.cpp:50); `LinksHold` says that no other code does that.
- Under `HANDLER_SYNC` `SetStop` calls through a null handler (Client.cpp:190).
- A connection that fails at once is deinitialized before `InitializeClient` has
  counted it, against the assertion in `Deinitialize` (NetworkControl.cpp:246, 301).
- `recvfrom()` may block after `select()` (a datagram dropped for its checksum), and
  the UDP receiver then sees no stop (UDPReceiver.cpp:107): on Linux `Deinitialize`
  need not return.
- `Deinitialize` takes no mutex. Between the deletion and `--m_InitCount` `Connect` refuses though there is
  no `NetworkControl` (NetworkControl.cpp:303-306). After a failed connection on Linux the application and
  `DisconnectAsync` may both be in it: the second is in the destructor of an object that the first frees, or it
  finds 0, deletes nothing, sets a new session's `m_Singleton` to 0 and counts to -1, after which `Connect` refuses
  for good. Hence `crowded` in `CountTellsLive`.
- `Disconnect` may delete `NetworkControl` while a handler is in a function that uses
  it; the `fault` of `ClientDispatch`.
- On Linux `Disconnect` sets the recycle event and then waits for it, and does not
  return; nor does `accept()` end when its socket is closed. On Win32 a connection that
  fails leaves two threads waiting for each other (EntryPoints.cpp:87). Hence the
  platforms in the names of those properties.
- The threads of a local client go on after `Disconnect` and use `m_Singleton`; a
  handler may call `ReceiveID` before `m_LocalClient` is assigned.

### Bounds

- Packets are few and distinct; queue lengths follow from them. Two producers
  are enough for two pushes to race with each other and with the consumer, and
  three packets for a queue from which the drain loop leaves something behind.
- `MaxStops` bounds how often `SetStop` pushes its null packet.
- Three clients on two ids make ids come back; two removals during a snapshot
  need a fourth client, hence the runs that start with three connected ones
  (`CrowdInit`: the state after three connections whose packets have all been
  delivered).
- `MayLeave` bounds who leaves. `Clients` bounds how many connect: each object
  is used once.
- `Wire` and `Datagrams` are what a peer sends: a packet, a bad header, a datagram.
- `Word` is 128 instead of 65536, and INITIAL_ALLOC 16 instead of 256. The proofs
  are for every value; the run needs room for doublings, for the overflow of the
  doubling, and for data of every length at each. `MaxData` bounds the size of a piece at 136, above the
  word; `Streams` are two lengths given to `SetFromDataStream`, below the first buffer and far above it.
- `Base` is 4 instead of 256, and the sizes of the three packets are such that a
  header torn after three bytes, misread, spans exactly two packets: the receiver
  then goes on undisturbed with one packet lost, which is the worst case. The
  proofs are for every value.
- Operation codes have four bits, of which the library keeps four codes instead of 256;
  the application uses 11, the last that is accepted, and 12, the first that is
  refused. `MaxPackets` 4 allows two announcements of one client and its removal
  besides another packet; `MaxQueue` bounds only the packets over TCP.
- `Broadcast` of the application: one packet at a time, with each of the three flags, once all clients of the
  instance have connected and before the first datagram (`AppBroadcast`); none after
  one that has reached somebody.
- `MaxClients`, `MaxLives`, `MaxSessions`: two, so that what a first life leaves behind meets a
  second. Clients of `ServerLife` are numbered in the order in which they connect.
- `MaxPackets`: the broadcasts of an application, the packets of a session.

Symmetry is used in `registry` only, which has no liveness, over clients that
stop, clients that do not, and ids. `PacketSender` uses none.

### Fairness

Weak fairness for the threads of the library once they are started: they are
scheduled by the system, and every mutex here is held for a bounded number of
steps, except across joins, where the properties say so as an assumption
(`[]<>(pc # "send")`, `[]<>(kpc[c] # "joining")`). Nothing is assumed of what
waits for the outside: `accept()`, `connect()`, `recv()` with an open silent peer,
`send()` (except that `PacketStream` assumes TCP to deliver what was written while the
connection lasts, and says so), functions of the application, a `Wait` that runs out of time; nor that an
application calls anything (in `ClientDispatch` neither `HandlePackets` nor `Disconnect`
need be called; what has been begun is ended). `ServerLife` states no fairness. `RemovalReturnsOnLinux` assumes that the peer closes its end, since nothing in the code wakes a
receiver that sits in `recv()`.

## Theorems

Proved for every set of packets, producers, clients and ids, not only the small ones.

`PacketSenderProofs`
- `TypeCorrect`: `Spec => []TypeOK`.
- `AlwaysJoinedBeforeDrain`: from the invariant that ties the destructor's phase to
  the owner of the mutex and to the thread's program counter (`PhaseOwner`), whoever else is in `AddToQueue`.
- `AlwaysTakesPackets`: that the loop never pops an empty queue or dereferences the
  null packet is not inductive. The strengthening counts: the length of the queue is the
  number of tokens, plus one for a push not yet notified, plus one for a token the loop
  has taken and not used; and the queue has a null packet in it only if `stop` is set or the
  destructor came unasked.
- `ImplementsFifo`: every step appends to `log`, or to `sent` the element of
  `log` that is next, or changes neither; from the invariant that `log` is
  `sent`, what the thread holds, and the queue, one after the other, until
  something fails.
- `AlwaysOnePlace`, from the invariant `PlaceInv`: a packet stands at most once in the queue, there only if it is
  neither in the thread's hands nor deleted, in the thread's hands only if it is not
  deleted, and in one of the three exactly if it has been pushed.

`ClientRegistryProofs`, all from one inductive invariant `IInv`: the types, the
tables in the middle of an addition or a removal as well as between them
(`TableInv`), who may write (`RemoverInv`, `ListenerInv`, `LifeInv`), and who has
been told (`HeardInv`). The named theorems follow from it: `TypeCorrect`,
`TablesAlwaysAgree`, `NeverOverwrites`, `LockedReaders`, `AlwaysRemovesItself`,
`SearchSucceeds` (the search of `RemoveClient` never fails). `NoOverwrite` needs the fact that the listener is the
only thread that adds, and carries in turn the uniqueness of ids that the search by
public id and the deletion by private id rely on. `NeverOverwrites`, `LockedReaders`
and `SearchSucceeds` state invariants that no run checks. `RemovalsAreTrue` and
`OriginIsItsOwn` are about what was said and sent, and need a second invariant,
`TalkInv`: a removal that is on its way or has arrived names a client that is gone, and a
datagram, or the address it has taught, comes from a client with that private id
(`TalkInductive`). `AlwaysKnowsOthers` (`KnowsOthersIfOneLeaves`) needs a third,
`NewsInv`: for every two clients that stay, the news of the one for the other is somewhere on its way, or
has arrived and no removal after it: not yet announced, in the broadcaster's queue, still before the listener in
its snapshot, or in the inbox (`NewsArrives`). That it is not lost rests on
two facts: the removal of a former owner of an id is in the queue before the
announcement of the present one (`RemovalsFirst`), and the entry that a removal moves is that of
the newest client, for which the snapshot is made (`NewestIsLast`). The second ends with
the first removal, which is why the property ends with the second, and what
`registry_missed` shows.

`PacketBufferProofs`: `TypeCorrect`; `AtMostOneByte` and `SizeNeverWraps` from the
invariant `Built`, which ties the size field, the position and the furthest write of
a packet that is being built to its allocation: the allocation is `m_MaxSize` except
while the loop doubles it, and the loop is left only with a sum below `m_MaxSize`, so
that no counter wraps. `AlwaysArrivesIntact` needs two more: `m_MaxSize` is a
multiple of INITIAL_ALLOC (`Rounded`), and so leaves room for the last doubling; and until the
packet is received its size field counts what was written, all of which is intact if
nothing but appending was done to it (`IntactInv`). Its arithmetic is in lemmas of its
own (`RemainderSmall`, `RemainderTwice`, `Apart`, `RoundedBound`), which is all the solver can take of `%`.

`PacketStreamProofs`: `TypeCorrect` and `FramingAlwaysHolds`. The invariant `FrameInv`
says where the receiver is while no header was torn: before the packet after those it
has handed over, or inside it with its true size, so that a header which is judged is
that of this packet or none at all. The lemmas before it are about the stream: every
place belongs to exactly one packet (`PlaceOf`, `ByteOf`), and the two bytes of a size give
the size (`Halves`).

`ClientDispatchProofs`: `LinksAlwaysHold`, from an invariant about every cell of the table
(`CellsInv`) and the lemma `AcceptsFits`, that the test in sixteen bits is the one that
was meant; `MapAlwaysTellsLast` and `ToldOnceIsAlwaysKeptOnce`, from the invariant
that whoever has a proxy is in the vector and has it alone (`Kept`), that a function of the library
does not run once `NetworkControl` is deleted (`Gone`), and what `RemoveClientProxy` leaves of
a vector (`TakenOut`); `TypeCorrect`, which says who holds which mutex (`Locks`).

`ClientThreadsProofs`, from one inductive invariant `IInv`, for whatever a peer sends
(`Wire`) and every kind of build:
- `TypeCorrect`, which says besides the types that the sender never has two null packets.
- `OnlyStopEverMeetsFreed`: `KeeperInv` says how far the removal has come by where
  the KeepAlive thread is, `JoinInv` that what it has joined has ended; nobody is left
  who could call the handler that is freed but `~NetworkControl`, which takes no mutex.
- `MisusesAreAlwaysKnown`: the ways in which a missing or freed object or a null packet is used are
  these alone: before the constructor has assigned the handler, after a
  wait of KeepAlive or of the handler has ended by itself, and while `~NetworkControl` is inside `SetStop`
  of a client that KeepAlive frees. It rests on
  `WakeInv` (nobody goes on after a wait that was neither signalled nor ran out of time),
  `NullsInv` (who has sent the null packet) and `TokenInv` (there is a token for each packet
  in the handler's queue, one of which its thread may have taken).
- `ImplementsFifo`: as for the sender; what was handed over is what was handled, what is
  being handled, and the queue (`FifoInv`).

`ServerLifeProofs`, from one inductive invariant, for any number of lives, clients
and packets:
- `TypeCorrect`.
- `ServicesAreAlwaysDown`: `ThreadsInv` ties the places of `Deinitialize` to those of
  `ServerEntry` and these to the services: who is past a join has seen the other end.
- `MisusesAreAlwaysKnown`: every misuse takes a client's KeepAlive. The listener and `SetStop` lose a client to it,
  `~NetworkControl` deletes a client again only beside it, and it goes wrong itself only once `~NetworkControl`
  has deleted its client or is gone. It rests on who is in the vector and the map while one client is being
  removed and another deleted, at every step of either (`HomeInv`).

`ClientSessionProofs`, for any number of sessions and packets:
- `TypeCorrect`; `CountAlwaysTellsLive` and `RecycleIsAlwaysConsumed`, from what the singleton,
  the count and the recycle event are at each place of `Disconnect` (`CountInv`, `OneDeletes`, `RecycleInv`).
- `NetworkThreadIsAlwaysDown`: until two callers have been in `Deinitialize` at once,
  a `NetworkControl` that is gone has left no network thread and no UDP receiver
  (the local client's threads it does leave).
- `DisconnectIsAlwaysSafe`: the assertion and the null singleton of "What the code does not
  keep" need a connection that fails, and so do two callers in `Deinitialize`. While none has, only the application disconnects,
  and from an open session (`AloneInv`).

The assumptions are those of the constants (`SenderAssumption`,
`RegistryAssumption`, `BufferAssumption`, `RoundAssumption`, `StreamAssumption`, `TableAssumption`,
`DispatchAssumption`, `ThreadsAssumption`, `LifeAssumption`, `SessionAssumption`), which TLC evaluates in every run
of the module. `RoundAssumption` says that the range of the counters is a multiple of
INITIAL_ALLOC, as 65536 is of 256. The invariants `IInv` were checked with TLC on the
instances of the runs before they were proved.

Only model-checked: liveness (`ENABLED` and fairness are outside what the prover
handles). Every invariant and every refinement that a run checks has a theorem. The prover cannot apply a theorem that takes an operator, and so
no induction theorem of the library; where an induction is needed it is made by taking the least
element of a set of numbers (`Smallest`). A theorem about a RECURSIVE operator
is outside the prover as well; none is needed here.

## Not modelled

- Getters, setters and callbacks without effect on the state; build files;
  examples; sockets beyond "it arrives, it fails, it blocks".
- A server under `HANDLER_SYNC`. It has one queue for all its clients, and
  `HandlePackets` is that of `ClientDispatch`; no function of the library is linked there, so that the
  calls take no other mutex unless the application's do.
- The contents of packets in flight, but for what clients are told by them.
- The arithmetic of `RandomID`, and a table with all 65279 clients in it.
- The ids and the flag in the header of a `Packet`, which its buffer does not look at.

## Plan

Done: all modules above, with proofs of every invariant and every refinement that a run checks.

1. The stream of `PacketStream` and the queue of `ClientDispatch` as further refinements of `PacketFifo`,
   so that the way of a packet from one `AddToQueue` to the function it calls is one abstract channel.
2. What `MisusesAreAlwaysKnown` says of `ClientThreads` and `ServerLife`, for `ClientDispatch` and `ClientSession`: in which
   circumstances something can be misused, and that there are no others.

Deeper runs take the place of shallower ones; runs whose question a stronger
module answers are merged into it.
