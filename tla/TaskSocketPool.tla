--------------------------- MODULE TaskSocketPool ---------------------------
(***************************************************************************)
(* The task connection pool of one gateway (taskSocket/taskSocketPool.go). *)
(*                                                                         *)
(* Goroutines that call Get and Release, goroutines that call Close and    *)
(* the heartbeat goroutine interleave at every channel operation and every *)
(* network call.  The two channels of the pool are `pool`, a FIFO of idle  *)
(* connections, and `size`, a counter of connections that may still be     *)
(* opened.  A process owns a slot from the moment it takes something out   *)
(* of either channel until it puts something back into one of them.        *)
(***************************************************************************)
EXTENDS Naturals, Sequences, FiniteSets

CONSTANTS
  Clients,      \* goroutines that borrow connections
  Closers,      \* goroutines that call Close
  Heartbeat,    \* the goroutine started by LoopHeartbeat
  Sockets,      \* identities of connection objects; garbage ones are reused
  NoSocket,     \* the nil pointer
  Size,         \* the argument `size` of NewPool
  WaitTimeout   \* TRUE iff the argument `waitTimeout` of NewPool is not 0

Loopers == Closers \cup {Heartbeat}
Procs == Clients \cup Loopers

ASSUME PoolAssumption ==
  /\ IsFiniteSet(Clients) /\ IsFiniteSet(Closers) /\ IsFiniteSet(Sockets)
  /\ Clients \cap Closers = {} /\ Heartbeat \notin Clients \cup Closers
  /\ NoSocket \notin Sockets
  /\ Size \in Nat /\ Size <= Cardinality(Sockets)
  /\ WaitTimeout \in BOOLEAN

VARIABLES
  pc,        \* where each goroutine is
  hand,      \* the connection each goroutine holds, NoSocket if none
  left,      \* iterations left of the loops of heartbeat() and Close()
  pool,      \* the buffer of the channel `pool`
  waiters,   \* clients blocked on a receive from `pool`, oldest first
  size,      \* tokens in the channel `size`
  closed,    \* TRUE once `closedCh` is closed
  connected  \* IsConnected() of each connection

vars == <<pc, hand, left, pool, waiters, size, closed, connected>>

ClientPC == {"idle", "trySize", "wait", "parked", "dial", "using"}
HeartbeatPC == {"sleep", "loop", "probe", "quit"}
CloserPC == {"idle", "closing", "drain", "discard", "done", "panicked"}

\* Processes that hold a connection, and processes that own a slot: a client
\* that dials owns one without having a connection yet.
Holding == {p \in Procs : pc[p] \in {"using", "probe", "discard"}}
Busy == {p \in Procs : pc[p] \in {"dial", "using", "probe", "discard"}}

Idle == {pool[i] : i \in 1..Len(pool)}
InUse == Idle \cup {hand[p] : p \in Procs}

Init ==
  /\ pc = [p \in Procs |-> IF p = Heartbeat THEN "sleep" ELSE "idle"]
  /\ hand = [p \in Procs |-> NoSocket]
  /\ left = [p \in Loopers |-> 0]
  /\ pool = <<>>
  /\ waiters = <<>>
  /\ size = Size
  /\ closed = FALSE
  /\ connected = [s \in Sockets |-> FALSE]

Goto(p, label) == pc' = [pc EXCEPT ![p] = label]

-----------------------------------------------------------------------------
(* Channel operations.  A send to a channel with blocked receivers passes  *)
(* the value to the oldest of them and never shows in the buffer; a send   *)
(* blocks while the buffer is full.                                        *)

TakeIdle(p, label) ==
  /\ pool # <<>>
  /\ pool' = Tail(pool)
  /\ hand' = [hand EXCEPT ![p] = Head(pool)]
  /\ Goto(p, label)

PutInBuffer(p, label) ==
  /\ waiters = <<>>
  /\ Len(pool) < Size
  /\ pool' = Append(pool, hand[p])
  /\ hand' = [hand EXCEPT ![p] = NoSocket]
  /\ Goto(p, label)
  /\ UNCHANGED waiters

HandOver(p, label) ==
  /\ waiters # <<>>
  /\ waiters' = Tail(waiters)
  /\ hand' = [hand EXCEPT ![p] = NoSocket, ![Head(waiters)] = hand[p]]
  /\ pc' = [pc EXCEPT ![p] = label, ![Head(waiters)] = "using"]
  /\ UNCHANGED pool

PutIdle(p, label) == PutInBuffer(p, label) \/ HandOver(p, label)

FreeSlot(p, label) ==
  /\ size < Size
  /\ size' = size + 1
  /\ hand' = [hand EXCEPT ![p] = NoSocket]
  /\ Goto(p, label)

\* The receiver c gives up: it leaves the queue of blocked receivers.
StopWaiting(c) ==
  \E i \in 1..Len(waiters) :
    /\ waiters[i] = c
    /\ waiters' = SubSeq(waiters, 1, i - 1) \o SubSeq(waiters, i + 1, Len(waiters))

-----------------------------------------------------------------------------
(* Get and Release, called by a client.                                    *)

\* The test len(t.pool) == 0; what it saw may be stale at the next step.
GetLooks(c) ==
  /\ pc[c] = "idle"
  /\ Goto(c, IF pool = <<>> THEN "trySize" ELSE "wait")
  /\ UNCHANGED <<hand, left, pool, waiters, size, closed, connected>>

GetTakesSlot(c) ==
  /\ pc[c] = "trySize"
  /\ size > 0
  /\ size' = size - 1
  /\ Goto(c, "dial")
  /\ UNCHANGED <<hand, left, pool, waiters, closed, connected>>

GetFindsNoSlot(c) ==
  /\ pc[c] = "trySize"
  /\ size = 0
  /\ Goto(c, "wait")
  /\ UNCHANGED <<hand, left, pool, waiters, size, closed, connected>>

\* factory.Make succeeds: a new connection object, connected.
DialSucceeds(c) ==
  /\ pc[c] = "dial"
  /\ \E s \in Sockets \ InUse :
       /\ hand' = [hand EXCEPT ![c] = s]
       /\ connected' = [connected EXCEPT ![s] = TRUE]
  /\ Goto(c, "using")
  /\ UNCHANGED <<left, pool, waiters, size, closed>>

\* Mutated form: the token is not given back when Make returns nil.
DialFailsKeepsSlot(c) ==
  /\ pc[c] = "dial"
  /\ Goto(c, "idle")
  /\ UNCHANGED <<hand, left, pool, waiters, size, closed, connected>>

\* factory.Make returns nil: the slot is given back and Get returns nil.
DialFails(c) ==
  /\ pc[c] = "dial"
  /\ FreeSlot(c, "idle")
  /\ UNCHANGED <<left, pool, waiters, closed, connected>>

GetTakesIdle(c) ==
  /\ pc[c] = "wait"
  /\ TakeIdle(c, "using")
  /\ UNCHANGED <<left, waiters, size, closed, connected>>

GetParks(c) ==
  /\ pc[c] = "wait"
  /\ pool = <<>>
  /\ waiters' = Append(waiters, c)
  /\ Goto(c, "parked")
  /\ UNCHANGED <<hand, left, pool, size, closed, connected>>

\* Mutated form: the timer is not a case of the select that blocks.
GetTimesOutUnlessParked(c) ==
  /\ WaitTimeout
  /\ pc[c] = "wait"
  /\ Goto(c, "idle")
  /\ UNCHANGED <<hand, left, pool, waiters, size, closed, connected>>

\* The timer fires, possibly before the select sees a connection.
GetTimesOut(c) ==
  /\ WaitTimeout
  /\ \/ pc[c] = "wait" /\ UNCHANGED waiters
     \/ pc[c] = "parked" /\ StopWaiting(c)
  /\ Goto(c, "idle")
  /\ UNCHANGED <<hand, left, pool, size, closed, connected>>

\* A Send or Receive of the borrower fails and closes the connection.
UseBreaks(c) ==
  /\ pc[c] = "using"
  /\ connected[hand[c]]
  /\ connected' = [connected EXCEPT ![hand[c]] = FALSE]
  /\ UNCHANGED <<pc, hand, left, pool, waiters, size, closed>>

\* Mutated form: release() does not ask IsConnected().
ReleaseUnchecked(c) ==
  /\ pc[c] = "using"
  /\ PutIdle(c, "idle")
  /\ UNCHANGED <<left, size, closed, connected>>

ReleaseConnected(c) ==
  /\ pc[c] = "using"
  /\ connected[hand[c]]
  /\ PutIdle(c, "idle")
  /\ UNCHANGED <<left, size, closed, connected>>

\* Mutated form: release() returns early and forgets the token.
ReleaseBrokenKeepsSlot(c) ==
  /\ pc[c] = "using"
  /\ ~connected[hand[c]]
  /\ hand' = [hand EXCEPT ![c] = NoSocket]
  /\ Goto(c, "idle")
  /\ UNCHANGED <<left, pool, waiters, size, closed, connected>>

ReleaseBroken(c) ==
  /\ pc[c] = "using"
  /\ ~connected[hand[c]]
  /\ FreeSlot(c, "idle")
  /\ UNCHANGED <<left, pool, waiters, closed, connected>>

-----------------------------------------------------------------------------
(* The heartbeat goroutine.                                                *)

\* The ticker fires and heartbeat() reads len(t.pool) for its loop.
Tick ==
  /\ pc[Heartbeat] = "sleep"
  /\ left' = [left EXCEPT ![Heartbeat] = Len(pool)]
  /\ Goto(Heartbeat, "loop")
  /\ UNCHANGED <<hand, pool, waiters, size, closed, connected>>

\* Mutated form: the goroutine only leaves when no connection is idle.
HeartbeatQuitsWhenEmpty ==
  /\ pc[Heartbeat] = "sleep"
  /\ closed
  /\ pool = <<>>
  /\ Goto(Heartbeat, "quit")
  /\ UNCHANGED <<hand, left, pool, waiters, size, closed, connected>>

HeartbeatQuits ==
  /\ pc[Heartbeat] = "sleep"
  /\ closed
  /\ Goto(Heartbeat, "quit")
  /\ UNCHANGED <<hand, left, pool, waiters, size, closed, connected>>

\* heartbeat() returns: its loop is over or it chose the case on closedCh.
RoundEnds ==
  /\ pc[Heartbeat] = "loop"
  /\ left[Heartbeat] = 0 \/ closed
  /\ Goto(Heartbeat, "sleep")
  /\ UNCHANGED <<hand, left, pool, waiters, size, closed, connected>>

\* Mutated form: the connection is probed while it stays in the channel.
HeartbeatPeeks ==
  /\ pc[Heartbeat] = "loop"
  /\ left[Heartbeat] > 0
  /\ pool # <<>>
  /\ hand' = [hand EXCEPT ![Heartbeat] = Head(pool)]
  /\ Goto(Heartbeat, "probe")
  /\ UNCHANGED <<left, pool, waiters, size, closed, connected>>

HeartbeatTakes ==
  /\ pc[Heartbeat] = "loop"
  /\ left[Heartbeat] > 0
  /\ TakeIdle(Heartbeat, "probe")
  /\ UNCHANGED <<left, waiters, size, closed, connected>>

HeartbeatSkips ==
  /\ pc[Heartbeat] = "loop"
  /\ left[Heartbeat] > 0
  /\ pool = <<>>
  /\ ~closed
  /\ left' = [left EXCEPT ![Heartbeat] = @ - 1]
  /\ UNCHANGED <<pc, hand, pool, waiters, size, closed, connected>>

ProbeSucceeds ==
  /\ pc[Heartbeat] = "probe"
  /\ connected[hand[Heartbeat]]
  /\ PutIdle(Heartbeat, "loop")
  /\ left' = [left EXCEPT ![Heartbeat] = @ - 1]
  /\ UNCHANGED <<size, closed, connected>>

\* Mutated form: the connection is dropped without Close.
ProbeFailsUnclosed ==
  /\ pc[Heartbeat] = "probe"
  /\ FreeSlot(Heartbeat, "loop")
  /\ left' = [left EXCEPT ![Heartbeat] = @ - 1]
  /\ UNCHANGED <<pool, waiters, closed, connected>>

\* Not connected or the Send fails: Close the connection, release(nil).
ProbeFails ==
  /\ pc[Heartbeat] = "probe"
  /\ connected' = [connected EXCEPT ![hand[Heartbeat]] = FALSE]
  /\ FreeSlot(Heartbeat, "loop")
  /\ left' = [left EXCEPT ![Heartbeat] = @ - 1]
  /\ UNCHANGED <<pool, waiters, closed>>

-----------------------------------------------------------------------------
(* Close.  The select on closedCh and the close(closedCh) in its default   *)
(* branch are two steps: a second closer may pass the select in between.   *)

CloseReturns(k) ==
  /\ pc[k] = "idle"
  /\ closed
  /\ Goto(k, "done")
  /\ UNCHANGED <<hand, left, pool, waiters, size, closed, connected>>

CloseEnters(k) ==
  /\ pc[k] = "idle"
  /\ ~closed
  /\ Goto(k, "closing")
  /\ UNCHANGED <<hand, left, pool, waiters, size, closed, connected>>

ClosesChannel(k) ==
  /\ pc[k] = "closing"
  /\ ~closed
  /\ closed' = TRUE
  /\ left' = [left EXCEPT ![k] = Size]
  /\ Goto(k, "drain")
  /\ UNCHANGED <<hand, pool, waiters, size, connected>>

\* close of a closed channel.
ClosePanics(k) ==
  /\ pc[k] = "closing"
  /\ closed
  /\ Goto(k, "panicked")
  /\ UNCHANGED <<hand, left, pool, waiters, size, closed, connected>>

DrainTakes(k) ==
  /\ pc[k] = "drain"
  /\ left[k] > 0
  /\ TakeIdle(k, "discard")
  /\ UNCHANGED <<left, waiters, size, closed, connected>>

\* Mutated form: the loop runs for i <= cap(t.size).
DrainSkipsOnceMore(k) ==
  /\ pc[k] = "drain"
  /\ pool = <<>>
  /\ left' = [left EXCEPT ![k] = @ - 1]
  /\ UNCHANGED <<pc, hand, pool, waiters, size, closed, connected>>

DrainSkips(k) ==
  /\ pc[k] = "drain"
  /\ left[k] > 0
  /\ pool = <<>>
  /\ left' = [left EXCEPT ![k] = @ - 1]
  /\ UNCHANGED <<pc, hand, pool, waiters, size, closed, connected>>

\* Mutated form: Close forgets to close the connection it takes out.
DiscardsUnclosed(k) ==
  /\ pc[k] = "discard"
  /\ FreeSlot(k, "drain")
  /\ left' = [left EXCEPT ![k] = @ - 1]
  /\ UNCHANGED <<pool, waiters, closed, connected>>

Discards(k) ==
  /\ pc[k] = "discard"
  /\ connected' = [connected EXCEPT ![hand[k]] = FALSE]
  /\ FreeSlot(k, "drain")
  /\ left' = [left EXCEPT ![k] = @ - 1]
  /\ UNCHANGED <<pool, waiters, closed>>

DrainEnds(k) ==
  /\ pc[k] = "drain"
  /\ left[k] = 0
  /\ Goto(k, "done")
  /\ UNCHANGED <<hand, left, pool, waiters, size, closed, connected>>

-----------------------------------------------------------------------------
\* What a client inside Get, or holding a connection, does of itself.
GetStep(c) ==
  \/ GetTakesSlot(c) \/ GetFindsNoSlot(c) \/ DialSucceeds(c) \/ DialFails(c)
  \/ GetTakesIdle(c) \/ GetParks(c) \/ GetTimesOut(c)
Release(c) == ReleaseConnected(c) \/ ReleaseBroken(c)
RoundStep ==
  RoundEnds \/ HeartbeatTakes \/ HeartbeatSkips \/ ProbeSucceeds \/ ProbeFails
CloseStep(k) ==
  \/ ClosesChannel(k) \/ ClosePanics(k)
  \/ DrainTakes(k) \/ DrainSkips(k) \/ Discards(k) \/ DrainEnds(k)

Next ==
  \/ \E c \in Clients : GetLooks(c) \/ GetStep(c) \/ UseBreaks(c) \/ Release(c)
  \/ Tick \/ HeartbeatQuits \/ RoundStep
  \/ \E k \in Closers : CloseReturns(k) \/ CloseEnters(k) \/ CloseStep(k)

Spec == Init /\ [][Next]_vars

(***************************************************************************)
(* A goroutine that can run does run, every network call ends (each has a  *)
(* timeout) and a borrower releases what it borrowed, as TaskSocket asks   *)
(* of it.  Nobody is obliged to call Get or Close, and no timer is obliged *)
(* to tick.  The choice between a tick and a closed channel is the select  *)
(* of LoopHeartbeat: select picks uniformly among ready cases, so a case   *)
(* that is ready again and again is picked eventually.                     *)
(***************************************************************************)
Fairness ==
  /\ \A c \in Clients : WF_vars(GetStep(c)) /\ WF_vars(Release(c))
  /\ WF_vars(RoundStep) /\ SF_vars(HeartbeatQuits)
  /\ \A k \in Closers : WF_vars(CloseStep(k))

FairSpec == Spec /\ Fairness

-----------------------------------------------------------------------------
(* Properties.                                                             *)

TypeOK ==
  /\ pc \in [Procs -> ClientPC \cup HeartbeatPC \cup CloserPC]
  /\ \A c \in Clients : pc[c] \in ClientPC
  /\ pc[Heartbeat] \in HeartbeatPC
  /\ \A k \in Closers : pc[k] \in CloserPC
  /\ hand \in [Procs -> Sockets \cup {NoSocket}]
  /\ left \in [Loopers -> 0..Size]
  /\ pool \in Seq(Sockets) /\ Len(pool) <= Size
  /\ waiters \in Seq(Clients)
  /\ size \in 0..Size
  /\ closed \in BOOLEAN
  /\ connected \in [Sockets -> BOOLEAN]

\* Whatever Get, Release, heartbeat and Close do to the two channels, and
\* wherever they are interrupted, every one of the Size slots is in exactly
\* one of them or with one goroutine: none is lost, none is made up.
SlotConservation == size + Len(pool) + Cardinality(Busy) = Size

\* A connection is idle once or with one goroutine, never both: a borrower,
\* the heartbeat and Close never write to the same connection.
ExclusiveOwnership ==
  /\ \A p \in Procs : p \in Holding <=> hand[p] # NoSocket
  /\ \A p, q \in Holding : hand[p] = hand[q] => p = q
  /\ \A p \in Holding : hand[p] \notin Idle
  /\ \A i, j \in 1..Len(pool) : pool[i] = pool[j] => i = j

\* An open connection is always idle or with a goroutine that will put it
\* back or close it: no path through Release, heartbeat or Close drops one.
NoLeakedConnection == \A s \in Sockets : connected[s] => s \in InUse

\* NewPool's comment: `size` is the maximal number of connections.
MaxConnections == Cardinality({s \in Sockets : connected[s]}) <= Size

\* A connection that Get returns, newly opened, idle or handed over by another
\* goroutine, is connected when the borrower gets it.
GetReturnsConnected ==
  [][\A c \in Clients :
       pc[c] # "using" /\ pc'[c] = "using" => connected'[hand'[c]]]_vars

\* With a wait timeout every Get returns, with a connection or with nil,
\* whatever the gateway, the other borrowers, the heartbeat and Close do.
EveryGetReturns ==
  \A c \in Clients :
    pc[c] \in {"trySize", "wait", "parked", "dial"} ~> pc[c] \in {"idle", "using"}

\* Without one, a Get stays blocked only while a connection may be opened: it
\* is never overtaken for ever by other borrowers or by the heartbeat.
ParkedIsServed ==
  \A c \in Clients : pc[c] = "parked" ~> pc[c] # "parked" \/ size > 0

\* Close ends the heartbeat goroutine, even if its ticker never stops firing
\* and connections come back to the pool after Close.
CloseStopsHeartbeat == closed ~> pc[Heartbeat] = "quit"

\* The comment and the test of Close: it closes the pool and all connections
\* in it.  So when Close has returned, the heartbeat is gone and nobody has a
\* connection in hand any more, no connection is left open.
CloseLeavesNothingOpen ==
  /\ closed
  /\ \A k \in Closers : pc[k] \in {"idle", "done"}
  /\ pc[Heartbeat] = "quit"
  /\ Busy = {}
  => \A s \in Sockets : ~connected[s]

-----------------------------------------------------------------------------
(* The pool implements ConnectionLease: its borrowers are the clients, and *)
(* what the heartbeat and Close do with idle connections is invisible.     *)

Lease == INSTANCE ConnectionLease
           WITH Borrowers <- Clients, Conns <- Sockets, None <- NoSocket,
                lease <- [c \in Clients |-> hand[c]]

\* Seen from the borrowers, every step of any goroutine lends one connection
\* within the limit, takes one back, passes one on, or does nothing.
ImplementsLease == Lease!Spec
=============================================================================
