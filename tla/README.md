# Verification of netsvr-business-go

netsvr-business-go is the Go library by which a business process talks to the
gateways of a netsvr deployment. This directory holds TLA+ models of its
parts, the TLC runs that check them and TLAPS proofs about all of them.
`PROJECT.json` lists components, runs, mutated forms, the lines
each definition models, findings, hazards and theorems.

## 1. The system

| component | source | state | operations | interacts with |
|---|---|---|---|---|
| socket | `socket/socket.go` | a three-valued atomic flag (no, connecting, yes), the connection and its reader | Connect, Send, Receive, Close, IsConnected | the gateway over TCP; used by everything below |
| task connection pool | `taskSocket/taskSocketPool.go`, `taskSocketFactory.go`, `taskSocket.go` | channel `pool` of idle connections, channel `size` of tokens for connections that may still be opened, `closedCh` | Get, release, heartbeat (its own goroutine), Close | sockets, borrowers, the pool manager |
| pool manager | `taskSocket/taskSocketPoolManger.go` | a map from gateway to pool | GetSockets, GetSocket, Close, AddSocket, Count | one pool per gateway, NetBus |
| NetBus | `netBus.go` | none of its own | about 20 send and 16 query methods, Close | pool manager, routing, results |
| routing | `contract/func.go` | none | AddrConvertToHex, UniqIdConvertToAddrAsHex | NetBus, both managers |
| results | `ret/*.go` | the gateways' answers to one query | Count, Has, UniqIds, ToMap and the like | callers of NetBus |
| long connection | `mainSocket/mainSocket.go` | a socket, `closedCh` (one token), a WaitGroup of handlers, connId | Connect, Register, LoopReceive, LoopHeartbeat, Unregister, Close | the gateway, the application's event handler |
| long connection manager | `mainSocket/mainSocketManager.go` | a map of MainSockets, an atomic flag | Start with rollback, Close, AddSocket | MainSockets |
| event handler | `contract/eventInterface.go` | the application's | OnOpen, OnMessage, OnClose | started by LoopReceive |
| log | `log/logger.go` | a logger | | everything |

### What is hard about it

- **Pool**: everything is channel operations that several goroutines interleave,
  and decisions on reads that are stale when acted on (`len(t.pool)`). A slot
  lost is a pool that shrinks for ever; one made up is a send that blocks for
  ever. It is correct if slots are conserved, a connection has one owner, no
  connection leaks, a borrower gets an open connection, and a blocked Get is
  served.
- **Pool manager**: GetSockets holds connections while it waits for others, in
  the arbitrary order of a map. It is correct if it delivers all or nothing and
  keeps nothing, and if it returns.
- **Long connection**: three goroutines and the handlers share a connection and
  one channel that carries three kinds of signal and is closed in the end, while
  the connection may be lost and re-established at any moment. It is correct if
  an Unregister that returned true is final, nobody sends on the closed channel,
  and Unregister and Close return.
- **Long connection manager**: several steps of which each may fail, with a
  rollback, over objects whose Close is final. It is correct if Start leaves
  everything registered or nothing connected, and Close leaves nothing; all this
  while connections are lost and LoopReceive reconnects.
- **Socket**: a connect window (the flag says connected before the connection is
  assigned) and a compare-and-swap that may act on a later Connect; framing
  after a partial write.
- **NetBus**: answers matched to requests only by their order on a connection,
  ids grouped by gateway, gateways that fail one by one.
- **Results**: maps ranged over in any order, duplicates per topic, int32 sums.
  They are correct if every item the gateways sent is in the result once, under
  its key, and the methods that count or look up agree with those that merge.

`PROJECT.json` lists these hazards one by one at their lines.

## 2. Modules

| module | models | kind |
|---|---|---|
| `TaskSocketPool` | one task connection pool with its borrowers, heartbeat and closers | detailed specification |
| `ConnectionLease` | what a pool promises to borrowers: at most Size connections lent, none twice | abstract specification |
| `TaskSocketPoolProofs` | theorems about `TaskSocketPool` and the refinement | proofs |
| `TaskSocketManger` | GetSockets, GetSocket and Close over several pools, each as `ConnectionLease` describes it | specification |
| `TaskSocketMangerProofs` | theorems about it, and that it uses every pool as `ConnectionLease` allows | proofs |
| `NetBus` | the calls of NetBus over those pools: routing by id, the exchange of requests and answers, merging | specification, composed with `TaskSocketManger` |
| `NetBusProofs`, `NetBusAnswersProofs` | theorems about it | proofs |
| `Ret` | the results: merging the answers of the gateways, and the methods that only look at them | specification |
| `RetProofs` | theorems about it | proofs |
| `Socket` | one socket at the grain of its flag, with the three goroutines of a MainSocket | specification |
| `AtomicSocket` | what a socket promises to the goroutines that share it: Connect and close() have one decisive step each | abstract specification |
| `SocketProofs` | theorems about it | proofs |
| `MainSocket` | one long connection, its goroutines, and the gateway's end of it | specification |
| `MainSocketProofs` | theorems about it | proofs |
| `MainSocketManager` | Start, its rollback, and Close over several long connections, by what survives a call of their methods | specification |
| `MainSocketManagerProofs` | theorems about it | proofs |
| `MC...` | the symmetries for TLC | |

A definition called "Mutated form" is not part of a specification. It stands
before the action it deforms, and shows that a property would notice the bug.

### TaskSocketPool

`pool` and `size` are the two channels, `closed` is closedCh. A goroutine blocked
on `<-t.pool` is in `waiters`: Go passes a value that is sent to the oldest
blocked receiver directly, so `PutIdle` is either `PutInBuffer` or `HandOver`.
`hand[p]` is the local variable `socket` of goroutine p. `connected[s]` is
`IsConnected()` of a connection object; objects that nobody refers to any more
are garbage and their identity may be used again by the next `DialSucceeds`.
Each of Get, release, heartbeat and Close is cut at every channel operation and
every network call: `GetLooks` (the test of `len(t.pool)`), then `GetTakesSlot`
or `GetFindsNoSlot`, `DialSucceeds` or `DialFails`, `GetTakesIdle`, `GetParks`,
`GetTimesOut`; `Tick`, `HeartbeatTakes`, `HeartbeatSkips`, `ProbeSucceeds`,
`ProbeFails`, `RoundEnds`; `CloseEnters`, `ClosesChannel`, `DrainTakes`,
`Discards`, `DrainSkips`, `DrainEnds`. A borrower is an atomic user of its
connection: it may break (`UseBreaks`) and is released. After a panic in Close
(`ClosePanics`) the other goroutines go on, as they do when the caller recovers.

### TaskSocketManger

`lease[p][c]` is the connection of pool p that client c has. `todo` is what is
left of the range over the map, which the range statement evaluated once; Close
replaces the map. A Get of a pool either returns a connection within Size
(`Lend`) or nil (`ReturnsNil`: the timer, or a slot was free and the gateway
could not be reached). That a pool is no worse than this is what
`ImplementsLease` of `TaskSocketPool` shows and `PoolImplementsLease` proves;
that the manager in turn takes no more from a pool than `ConnectionLease` allows
is `UsesLeases`.

### NetBus

`NetBus` instantiates `TaskSocketManger` as M: its clients obtain and release
connections by the steps of M, and every such step is conjoined with what it
means for the call. A call is of one of three kinds: all (GetSockets and the same
request to everyone), one (GetSocket and one request) and split (the ids grouped
by gateway, one GetSocket per group), each as a send or as a query; the 36 methods
differ in the command and its payload only. `Home` is UniqIdConvertToAddrAsHex:
an id names a gateway, which may or may not be deployed, or is malformed. There
may be no gateway at all.
`rest` is what is left of the loop, `awaits` says that a Receive is under way.
`wire[g][s]` is a connection with the queries and answers in transit; requests
without an answer leave no trace there. A message carries the number of its call,
which nothing but the properties reads. The gateway answers queries in order,
and nothing else: it must not answer the heartbeat of the pool, because nobody
receives there. `sent` and `lost` are histories. That an answer cannot be parsed
is not modelled; the gateway answers with what was asked for.

### Ret

`data` is what the gateways answered: items filed under keys, an entry `<<g, k>>`
for what gateway g has under key k. A list of uniqIds or topics is one key; the
topics, the customers, or both are keys otherwise. What the methods do with an
entry is one of three things: append its items (`AppendEntry`: UniqIds,
TopicUniqIds, CustomerUniqIds, ToMap of the infos by customer), append what the
key does not have yet (`DedupBegins`, `DedupItem`, `DedupReturns`: customers and
topics) or assign (`AssignEntry`: ToMap of the infos). The gateways come in any
order and so do the keys of an answer, one gateway after the other. `Possible`
is what the comments take for granted of the first and third kind: a connection
belongs to one gateway. `Has`, `LenSum`, `LenDedup` are the methods that make no
list; `count` is the sum of Count, in `CountBits` bits, over lists of the same
length. That TopicCount counts a topic of two gateways twice is what its comment
says, so `ReadersAgree` speaks of counts only where nothing repeats.

### Socket

`connected` is the flag, changed by compare-and-swap only; `socket` is the field,
read and written without synchronisation; `open` are the connections open at
this end, `live` those the network still carries, `torn` those with half a frame
in them. Connect is cut where the flag and the field change (`ConnectBegins`,
`DialSucceeds`, `Assigns`, `Deferred`), close() where it swaps the flag and where
it reads the field (`CloseSwaps`, `CloseHits`), Close where it looks whether a
Connect is under way (`CloseCancels`). Send and Receive work on the connection
the field held when they began (`local`), and what they do after a failure hits
the flag and the field as they are then: a Send that fails late closes the
connection another goroutine has made meanwhile. The owner connects, sends,
closes and connects again (the manager may be started again); it sends in
Unregister without asking IsConnected, as the heartbeat does first, and the two
may be in Send at once. Whoever fails goes on where `then` says. A connection nobody
refers to is garbage and closed by Go, which is what `Unused` is about.
`Socket` implements `AtomicSocket` in every step that does not go astray
(`ActsAtomically`): a Connect takes effect where it sets the flag to yes, although
the field follows later (`Meant` is the connection the flag then stands for), and
a close() where it resets the flag, although the connection is closed later.
`astray` is a history: a close() fell between the two steps of a Connect, or a
Connect between the two steps of a close(). The field and its reader
(`socketBufIO`) are read as one; a Receive that finds them of two connections
fails, and then does what a late failure does.

### MainSocket

`sock` is the flag of the socket, `live` and `registered` are the gateway's end,
`inbox` is what the gateway sent and nobody received. `token` and `shut` are
closedCh. `handlers` is the counter of the WaitGroup. Wait is three steps, as it
is in the library: the counter is zero and Close goes on; or it waits and the
handler that brings the counter to zero wakes it (`WaitsForHandlers`, `Wakens`);
then it returns (`HandlersDone`), or panics if LoopReceive has started another
handler by then (`WaitIsMisused`). The connection may be lost at any time
(`Drops`), noticed by nobody until a Receive fails. Send is `SendArrives` or
`SendFails`; a failure may close the connection. What this does to the flag and
the connection is no more than `AtomicSocket` allows (`UsesAtomicSocket`), which
`Socket` in turn implements. The gateway answers Register with success or
refusal, and Unregister with its answer; how it treats a stale connId is not
visible in the source and not modelled. `RegisterReceives` takes whatever
message comes first for the answer, as the code does.

### MainSocketManager

Per socket: the flag, whether it is registered, how many LoopReceive goroutines
it has, whether its heartbeat runs and whether closedCh is closed. Each call of a
MainSocket method in a loop of the manager is one step, in any order of the
sockets (a map). Meanwhile a connection may be lost at any time (`Loses`: the loop
that notices it closes the socket) and LoopReceive connects again and ignores
whether it could register (`Reconnects`). A Start that finds the flag set and a
Close that finds it not set return at once (`StartReturnsAtOnce`,
`CloseReturnsAtOnce`). `failures` and `lost` are histories which only the
properties read: the calls that failed, and the sockets that lost the connection
they were started on. That Close may wait for ever, or panic in Wait, is
`MainSocket`'s business.

## 3. Runs

| run | instance | what it shows |
|---|---|---|
| `pool` | 3 clients, heartbeat, 1 closer, 3 identities of connections, Size 2, wait timeout | all invariants of the pool, `GetReturnsConnected`, the refinement of `ConnectionLease`, `EveryGetReturns`, `CloseStopsHeartbeat` |
| `pool_wait_forever` | 3 clients, heartbeat, 2 closers, 1 identity, Size 1, no wait timeout | `ParkedIsServed` with two callers of Close |
| `manger` | 3 clients, 2 pools of Size 1, 2 identities, wait timeout | `NothingKept`, `UsesLeases`, `AllOrNothing`, `EveryGetReturns` |
| `netbus` | 2 clients, at most 2 gateways with pools of Size 1, 2 calls of any kind, an id at each gateway and a malformed one | `AnswerIsMine`, `IdleIsQuiet`, `EachToItsGateway`, `QueryIsComplete` |
| `ret` | 3 gateways, 2 keys, 2 items, answers of up to 2 items, counts of 2 bits | `MergedExactly`, `ReadersAgree` |
| `socket` | owner, receiver, heartbeat, 3 identities of connections, 1 loss, 1 Close | `FlagMatches`, `TornIsClosed`, the refinement of `AtomicSocket` (`ActsAtomically`), `Recovers` |
| `main` | connection lost up to 4 times, up to 4 events pending at once | `NoSendAfterClose`, `UnregisteredForGood`, `ClosedForGood`, `QuietAfterUnregister`, the refinement of `AtomicSocket` (`UsesAtomicSocket`), `CloseEnds`, `UnregisterReturns` |
| `manager` | 3 sockets, 1 caller | `StartedIsRegistered`, `RolledBack`, `CloseLeavesNothing` |

Four runs expect a violation: the property is what a comment says and the code
does something else.

| run | the comment | what the code does |
|---|---|---|
| `pool_close_comment` | Close closes all connections in the pool | a connection released after Close stays open for good |
| `manger_hold_and_wait` | all methods may be used concurrently | without wait timeout two GetSockets deadlock |
| `main_unregister_hangs` | Unregister waits for the answer and returns | if the connection is lost after the request it waits for ever |
| `manager_restart` | a failed Start is rolled back and returns false | the rollback closed closedCh for good: after the next Start, its rollback or Close panics |

Other disagreements the models contain, without a run of their own:

- on a single gateway CheckOnline and ConnInfo go to the gateway that the first id
  names (`netBus.go:250`): if that one is malformed or names another gateway the
  result is empty even if the other ids are online, unlike with two gateways
  (`netBus.go:244` says it checks the given ids). `EachToItsGateway` and
  `QueryIsComplete` except it;
- Unregister puts a token into closedCh to stop the heartbeat before it writes
  (`mainSocket.go:205`), but may take its own token back, so both may be in Send
  (`Retakes`). The frames do not mix, because net.Conn locks a Write;
- a Close that falls between the two steps of a Connect leaves the new connection
  open in a socket that says it is not connected, although `socket.go:72` says it
  closes the connection; on the first Connect it would call Close on nil. This is
  what `FlagMatches` excepts as `astray`. A MainSocket that is unregistered
  before it is closed does not reach it;
- a Send that fails late closes the healthy connection of a reconnection
  (`socket.go:151`, `SendFails` then `CloseSwaps`); LoopReceive connects again;
- two concurrent calls of Pool.Close both pass the select, the second panics
  (`ClosePanics`), although `netBus.go:34` calls all methods safe to use
  concurrently;
- a Get that waits is not woken when a slot becomes free, so it may time out
  below the limit (`taskSocketPool.go:57` says it waits at the limit). This is
  why `ParkedIsServed` says "or a slot is free";
- MainSocket.Close without a successful Unregister leaves LoopReceive running,
  which connects again (`mainSocket.go:227` says it waits for the goroutines).
  This is why `ClosedForGood` presupposes `answered`. LoopReceive also goes on
  starting handlers under the Wait of Close (`mainSocket.go:125`, `230`). As long
  as handlers overlap Wait never returns, and when one is started just after the
  last of the others has ended Wait panics in the caller of Close. This is why
  `CloseEnds` presupposes `answered`, or that no more handlers are started, and
  admits the panic in the latter case;
- LoopReceive ignores what Register returned after a reconnection
  (`mainSocket.go:93` says it registers again): the socket then receives nothing
  until the connection is lost again, and Manager.Start still returns true. This
  is why `StartedIsRegistered` excepts the sockets that lost a connection;
- an Unregister whose request overtakes a Register of LoopReceive on a new
  connection waits for ever, because Register takes the answer. This is why
  `UnregisterReturns` presupposes that LoopReceive is receiving;
- Manager.Start, when a Register fails, leaves connections open: the refused one
  and those not registered yet are not closed, and the closed ones are connected
  again by LoopReceive. Only the heartbeats are gone for good. This is why
  `RolledBack` speaks of connections only as long as nothing but Connect failed;
- Manager.Close after such a Start returns at once (`mainSocketManager.go:97`) and
  leaves all that as it is, although `mainSocketManager.go:95` says that it
  unregisters and closes all connections: `CloseLeavesNothing` speaks of such a
  Close only as long as nothing but Connect failed;
- a socket that could not be unregistered is closed, but its LoopReceive goes on
  and connects again: `CloseLeavesNothing` excepts that socket, and no other;
- Manager.Start called during another Start returns true at once. The runs of
  `MainSocketManager` therefore have one caller.

### Bounds

Pool: three clients and two slots are the smallest instance in which one client
waits while two others hold connections, and one waiter is overtaken by a
borrower, the heartbeat or Close; the second run has two closers and one slot
that everyone contends for. The third identity lets a connection too many show
(`MaxConnections`). For other sizes there are the proofs. The run `pool` has one
closer, so nobody panics in it; that the survivors of a panic keep the slots is
proved for any number of closers. Manger: two pools give the two opposite
orders, three clients that hold one and wait for the other. NetBus: two calls
are what it takes to leave something on a connection and to find it, or to be
under way at once; an id at each gateway makes two groups, and with one gateway
deployed the other id names an unknown one. `UsesLeases` says that the manager
takes no second connection of a pool; the rest of it restates the step of a
pool, so its mutated form is one of `Lend`. Main: `MaxDrops` 4 loses the
connection before, during and after an Unregister and again after each
reconnection. `MaxEvents` 4 bounds the events that are under way and the
handlers that run, not how many come in all: events may come for ever, overlap
for ever, and stand before and after every answer. Socket: with three identities
the owner and the heartbeat may be in Send on connections of the past while the
field holds a third; one loss and one Close make a failure late. Its invariants
are proved for any number of connections, losses and Closes. Ret: two gateways
that share an item and a third that may or may not, two keys whose items repeat,
and sums that pass the largest count of two bits. Manager: three sockets have
one step done, one failing and one not tried.

### Fairness

A goroutine that can run does run (weak fairness of its own steps), and every
network call ends, because every call has a timeout. Where a `select` chooses
between a tick and the closed channel, Go chooses uniformly, so a case that is
ready again and again is chosen: strong fairness of `HeartbeatQuits` and
`HeartSeesClosed`. A borrower releases what it borrowed, as the comment on
TaskSocket demands. In `TaskSocketManger` a Get is strongly fair, because a pool
serves its waiters in turn, which `ParkedIsServed` shows. In `Socket` a gateway that is
dialled again and again is reached in the end (strong fairness of
`DialSucceeds`): without it nothing could recover. The application's
handlers return, but not before others have been started. Nobody is obliged to
call anything, no ticker to tick, no gateway to send events, to stop sending
them or to drop connections.

CHECK_DEADLOCK is FALSE where the system really may stop: long connections after
Close, a merge that is done, and a pool without wait timeout whose clients all
wait.

## 4. Proofs

`TaskSocketPoolProofs` proves for every number of clients, closers and
connections and every Size, under `PoolAssumption` (the sets of processes are
finite and disjoint, there are at least Size identities of connections):

| theorem | property |
|---|---|
| `TypeCorrect` | `TypeOK` |
| `SlotsAreConserved` | `SlotConservation` |
| `OwnershipIsExclusive` | `ExclusiveOwnership` |
| `NothingLeaks` | `NoLeakedConnection` |
| `PuttingBackNeverBlocks` | whoever owns a slot finds room in both channels: no send in Get, release, heartbeat or Close blocks |
| `NobodyWaitsInVain` | a waiting Get is in the queue, no connection is idle beside it, and unless a slot is free some goroutine owns one |
| `AtMostSizeConnections` | `MaxConnections` |
| `GetReturnsOpenOnes` | `GetReturnsConnected` |
| `PoolImplementsLease` | `ImplementsLease` |

The inductive invariant `IInv` strengthens these. Beside the types it says that
whoever holds a connection is at a place of the code where its local variable is
set (`HandsMatch`), that the queue of waiters holds parked clients only,
each once (`WaitersAreParked`: without it a hand-over could overwrite a
connection somebody has), that slots are conserved, and that every connection has
at most one place, an open one exactly one, and an idle one is open. The actions
are grouped into ten moves by what they do to the channels and hands (for
example Takes: something leaves `pool` for a hand); `StepIsMove` shows that every
step is a move, and each part of the invariant is proved once per move.
`PuttingBackNeverBlocks` follows from slot conservation, since a busy goroutine's slot
is in neither channel; `MaxConnections` from counting the places. That every parked client is in the
queue as well (`ParkedAreWaiters`) is a further invariant of the moves: it is what
`NobodyWaitsInVain` adds, the half of `ParkedIsServed` that is not liveness.

The other modules, for every value of their constants and whatever the bounds:

| module | theorem | property |
|---|---|---|
| `TaskSocketMangerProofs` | `TypeCorrect` | `TypeOK` |
| | `NothingIsKept` | `NothingKept` |
| | `GetSocketsIsAtomic` | `AllOrNothing` |
| | `LeasesAreKept` | `UsesLeases` |
| | `MangerImplementsLeases` | the refinement of `ConnectionLease` by every pool, initial state included |
| `NetBusProofs` | `TypeCorrect` | `TypeOK` |
| | `AnswersAreMine` | `AnswerIsMine` |
| | `IdleStaysQuiet` | `IdleIsQuiet` |
| | `MovesAsTheManger` | NetBus obtains and gives back connections by the steps of `TaskSocketManger` only |
| | `CallsKeepNothing` | a call that has returned keeps no connection of any gateway |
| | `NetBusImplementsLeases` | the refinement of `ConnectionLease` by what the clients have of the pool of any gateway |
| `NetBusAnswersProofs` | `IdsReachTheirGateway` | `EachToItsGateway` |
| | `QueriesAreComplete` | `QueryIsComplete` |
| `RetProofs` | `MergesExactly` | `MergedExactly` |
| | `ResultIsUnion` | at the end a key has the items of all answers under it, each once |
| | `TypeCorrect` | `TypeOK` |
| | `ReadersAgreeWithMerge` | `ReadersAgree` |
| `SocketProofs` | `TypeCorrect` | `TypeOK` |
| | `FlagTellsTheTruth` | `FlagMatches` |
| | `TornStreamsAreClosed` | `TornIsClosed` |
| | `ConnectAndCloseAreAtomic` | `ActsAtomically` |
| | `SocketIsAtomic` | as long as nothing goes astray the socket implements `AtomicSocket`, initial state included |
| | `TalksOverTheConnection` | a frame is written or received only over the connection the flag stands for, or one about to be closed |
| `MainSocketProofs` | `TypeCorrect` | `TypeOK` |
| | `NobodySendsAfterClose` | `NoSendAfterClose` |
| | `StaysUnregistered` | `UnregisteredForGood` |
| | `StaysClosed` | `ClosedForGood` |
| | `StaysQuiet` | `QuietAfterUnregister` |
| | `UsesTheSocketAtomically` | `UsesAtomicSocket` |
| `MainSocketManagerProofs` | `TypeCorrect` | `TypeOK` |
| | `StartKeepsItsPromise` | `StartedIsRegistered` |
| | `StartUndoes` | `RolledBack` |
| | `CloseKeepsItsPromise` | `CloseLeavesNothing` |

The assumptions are those on the constants, and in `MainSocketManagerProofs`,
for all but the types, `OneCaller`: at most one goroutine calls Start and Close.
With two, the code does not keep these promises (see above). Each module has an
inductive invariant `IInv`, which a run with larger or equal bounds confirmed
first; what it adds to the properties, and why they are not inductive alone:

- `TaskSocketManger`: Close forgets all pools at once (`PoolsOrNone`), and while
  GetSockets is at work it has a connection of exactly those pools of the map it
  found that are neither left to visit nor being waited for (`CollectsInOrder`).
  Without that the end of the loop would not mean a connection of every pool.
- `NetBus`: no connection is lent to two clients (`Exclusive`), who awaits an
  answer has the connection it will come on (`AwaitsOn`), and on every connection
  there is nothing, or the query or the answer of the client that awaits it
  (`Clean`). Receive takes whatever comes first for the answer, so `AnswerIsMine`
  is no stronger than `Clean`, and a failed Receive keeps `Clean` only because
  it closes the connection. For the two properties of a whole call,
  `NetBusAnswersProofs` adds each client's books (`BInv`, which TLC confirmed
  at the bounds of `netbus`): every id is yet to be sent, was sent or is lost (`Planned`), a
  gateway that was asked answered, is awaited or is lost (`SentKnown`), what is
  awaited, and what answered, has the right ids (`AwaitsKnown`, `AnswersKnown`),
  and no gateway is in two of these states. What the properties say of the end
  of a call holds in the middle only in this form. That the clients use the
  pools as `ConnectionLease` has it needs `AsksOnce`: GetSockets has nothing of
  the pools it has yet to visit, and a client outside a call has nothing at all.
  `StepOfManger` shows that every step of NetBus is one of `TaskSocketManger` or
  leaves its variables alone; the argument is then that of the manager, with the
  gateways deployed in place of all. A query of one gateway owes
  its completeness to there being no other, hence the finite set of gateways in
  `NetBusAssumption`.
- `Ret`: `seen` is what is in the list (`Dedups`); `MergedExactly` is inductive
  with it, because it speaks of the items met so far and not only of the end.
  `ReadersAgree` needs `Sizes`: a list is as long as there are places in the
  answers merged so far (`LengthIs`, a set, so that the sum over the gateways is
  the cardinality of a union of disjoint sets), and a count differs from that by a
  multiple of 2^CountBits (`CountIs`). That a power of two is positive and doubles
  is proved from the number of subsets of a set (`PowerOfTwo`).
- `Socket`: while nothing is astray, at most one goroutine is between the flag
  and the field, with a connection that is not yet in the field (`Assigning`),
  nobody is about to close the connection the flag stands for (`OthersAreHit`),
  and nobody but the owner moves before the first Connect has assigned (`Early`).
  The refinement of `AtomicSocket` follows step by step: while nothing is astray,
  the connection that the flag stands for (`Meant`) changes only in the step that
  sets the flag (`MeantStays`), so `Assigns` and `CloseHits` are invisible.
- `MainSocket`: at most one token is out, and Unregister will take it, because it
  is its own or the one LoopReceive left when it ended (`TokenHasTaker`);
  LoopReceive ends only because of an answer to Unregister (`EndsUnregistered`),
  of which there is at most one, awaited by both (`AnswerIsAwaited`); after it
  only Close is left, and LoopReceive starts no handler under its Wait
  (`AnsweredIsOver`).
- `MainSocketManager`: what the loops of Start and Close have achieved for the
  sockets visited (`Visits`: a socket is received from, and has lost its
  connection or is registered), where heartbeats run whatever has failed
  (`Hearts`), where connections and receivers can be as long as nothing but
  Connect has failed (`NothingFailed`), and for a socket whose Unregister has not
  failed (`NoUnregisterFailed`). A socket is registered on the connection it has
  (`RegisteredIsConnected`). A loss and a reconnection disturb each of these only
  where something still receives or beats.

Only model-checked: the liveness properties (`EveryGetReturns`, `ParkedIsServed`,
`CloseStopsHeartbeat`, `CloseEnds`, `UnregisterReturns`, `Recovers`). Liveness
under fairness is out of the prover's reach, as are ENABLED and induction over
data. Every invariant and every action property of the runs, and every
refinement, is proved.

## 5. Not modelled

- The five results without a method (limits, metrics, three counts), which only
  carry what the gateways answered; that Get of the infos stops at the first
  gateway that knows a uniqId.
- The hexadecimal digits of `contract/func.go`: an id names a gateway (`Home`).
- Bytes: a frame is written, not written or written in part, and received or not.
- The order in which two sends reach a gateway: they may use different
  connections, and the code promises none.
- A request that cannot be marshalled (`pack` then returns nil, and an empty frame
  is sent). That Limit of one gateway returns nil, and not an empty result, when
  it has no connection to it.
- The other misuse that sync.WaitGroup detects, an Add at the very moment at which
  a Done wakes the waiter, which panics in the handler.
- Torn reads of unsynchronised variables (`t.pools`, `connId`): read atomically.
- The application's handlers beyond that they end or panic; logging; the wording
  and encoding of messages.

## 6. Plan

Done: every component that keeps state, and the results. What remains:

1. `MainSocket` and `Socket` meet in `AtomicSocket`, which says what becomes of
   the flag and the connection, not which frames get through; and `Socket`
   implements it only up to the first step that goes astray. A MainSocket that
   is closed while it connects is beyond both.
2. `MainSocketManager` with two callers, once the code says what a Start during a
   Start or a Close promises.
