-------------------------- MODULE TaskSocketManger -------------------------
(***************************************************************************)
(* The manager of the task connection pools, one pool per gateway          *)
(* (taskSocket/taskSocketPoolManger.go), and the calls GetSockets and      *)
(* GetSocket by which NetBus takes connections out of several pools.       *)
(*                                                                         *)
(* Each pool is what ConnectionLease promises and TaskSocketPool keeps: it *)
(* lends at most Size connections.  GetSockets visits the pools in the     *)
(* order of a Go map, which is arbitrary and new in each call, and keeps   *)
(* what it has while it waits for the next one.                            *)
(***************************************************************************)
EXTENDS Naturals, FiniteSets

CONSTANTS
  Clients,      \* goroutines that use the NetBus
  Pools,        \* the gateways, registered with AddSocket before anything else
  Conns,        \* connections
  None,         \* neither a connection nor a pool
  Size,         \* the size of every pool
  WaitTimeout   \* TRUE iff the pools have a wait timeout

ASSUME MangerAssumption ==
  /\ None \notin Conns /\ None \notin Pools
  /\ Size \in Nat \ {0} /\ Size <= Cardinality(Conns)
  /\ WaitTimeout \in BOOLEAN

VARIABLES
  pools,   \* the map t.pools, as the set of its values
  pc,      \* where each client is
  todo,    \* the pools its GetSockets has not visited yet
  want,    \* the pool whose Get it is in
  lease    \* the connection of each pool that each client has

vars == <<pools, pc, todo, want, lease>>

ClientPC == {"idle", "get", "getOne", "giveBack", "using"}

Mine(c) == {p \in Pools : lease[p][c] # None}
Lent(p) == {c \in Clients : lease[p][c] # None}

Init ==
  /\ pools = Pools
  /\ pc = [c \in Clients |-> "idle"]
  /\ todo = [c \in Clients |-> {}]
  /\ want = [c \in Clients |-> None]
  /\ lease = [p \in Pools |-> [c \in Clients |-> None]]

Goto(c, label) == pc' = [pc EXCEPT ![c] = label]

\* Mutated form: the pool opens one connection too many.
LendsOneMore(c, p) ==
  /\ Cardinality(Lent(p)) <= Size
  /\ \E s \in Conns :
       /\ \A d \in Clients : lease[p][d] # s
       /\ lease' = [lease EXCEPT ![p][c] = s]

\* The Get of pool p returns a connection; TaskSocketPool says when it may.
Lend(c, p) ==
  /\ Cardinality(Lent(p)) < Size
  /\ \E s \in Conns :
       /\ \A d \in Clients : lease[p][d] # s
       /\ lease' = [lease EXCEPT ![p][c] = s]

GiveBack(c, p) ==
  /\ p \in Mine(c)
  /\ lease' = [lease EXCEPT ![p][c] = None]

\* Mutated form: the Get of pool p has no timer.
ReturnsNilOnlyOnFailure(p) == Cardinality(Lent(p)) < Size

\* The Get of pool p returns nil: the timer fired, or a slot was free and the
\* gateway could not be reached.
ReturnsNil(p) == WaitTimeout \/ Cardinality(Lent(p)) < Size

-----------------------------------------------------------------------------
(* GetSockets and GetSocket.                                               *)

\* The range statement evaluates t.pools once.
GetSocketsBegins(c) ==
  /\ pc[c] = "idle"
  /\ todo' = [todo EXCEPT ![c] = pools]
  /\ Goto(c, "get")
  /\ UNCHANGED <<pools, want, lease>>

NextPool(c) ==
  /\ pc[c] = "get" /\ want[c] = None
  /\ \E p \in todo[c] :
       /\ todo' = [todo EXCEPT ![c] = @ \ {p}]
       /\ want' = [want EXCEPT ![c] = p]
  /\ UNCHANGED <<pools, pc, lease>>

GetReturns(c) ==
  /\ pc[c] = "get" /\ want[c] # None
  /\ Lend(c, want[c])
  /\ want' = [want EXCEPT ![c] = None]
  /\ UNCHANGED <<pools, pc, todo>>

\* Mutated form: nil is returned without releasing what was collected.
GetFailsKeeping(c) ==
  /\ pc[c] = "get" /\ want[c] # None
  /\ ReturnsNil(want[c])
  /\ want' = [want EXCEPT ![c] = None]
  /\ todo' = [todo EXCEPT ![c] = {}]
  /\ Goto(c, "idle")
  /\ UNCHANGED <<pools, lease>>

GetFails(c) ==
  /\ pc[c] = "get" /\ want[c] # None
  /\ ReturnsNil(want[c])
  /\ want' = [want EXCEPT ![c] = None]
  /\ todo' = [todo EXCEPT ![c] = {}]
  /\ Goto(c, "giveBack")
  /\ UNCHANGED <<pools, lease>>

\* Mutated form: the loop ends at the first connection.
GetSocketsReturnsEarly(c) ==
  /\ pc[c] = "get" /\ want[c] = None
  /\ Mine(c) # {}
  /\ Goto(c, "using")
  /\ UNCHANGED <<pools, todo, want, lease>>

GetSocketsReturns(c) ==
  /\ pc[c] = "get" /\ want[c] = None
  /\ todo[c] = {}
  /\ Goto(c, "using")
  /\ UNCHANGED <<pools, todo, want, lease>>

\* Mutated form: the address is not looked up, an unknown one yields nil.
GetSocketBeginsUnchecked(c) ==
  /\ pc[c] = "idle"
  /\ \E p \in pools \cup {None} : want' = [want EXCEPT ![c] = p]
  /\ Goto(c, "getOne")
  /\ UNCHANGED <<pools, todo, lease>>

\* GetSocket with an address; an unknown one yields nil at once.
GetSocketBegins(c) ==
  /\ pc[c] = "idle"
  /\ \E p \in pools : want' = [want EXCEPT ![c] = p]
  /\ Goto(c, "getOne")
  /\ UNCHANGED <<pools, todo, lease>>

GetSocketReturns(c) ==
  /\ pc[c] = "getOne"
  /\ \/ Lend(c, want[c]) /\ Goto(c, "using")
     \/ ReturnsNil(want[c]) /\ Goto(c, "idle") /\ UNCHANGED lease
  /\ want' = [want EXCEPT ![c] = None]
  /\ UNCHANGED <<pools, todo>>

-----------------------------------------------------------------------------
\* GetSockets releases what it collected, or the caller what it got, one after
\* the other.
Releases(c) ==
  /\ pc[c] \in {"giveBack", "using"}
  /\ \E p \in Pools : GiveBack(c, p)
  /\ UNCHANGED <<pools, pc, todo, want>>

AllReleased(c) ==
  /\ pc[c] \in {"giveBack", "using"}
  /\ Mine(c) = {}
  /\ Goto(c, "idle")
  /\ UNCHANGED <<pools, todo, want, lease>>

\* Manger.Close forgets the pools and then closes them; closing a pool takes
\* nothing from borrowers and does not make a Get under way return.
Close ==
  /\ pools' = {}
  /\ UNCHANGED <<pc, todo, want, lease>>

-----------------------------------------------------------------------------
Calls(c) == GetSocketsBegins(c) \/ GetSocketBegins(c)
GetStep(c) ==
  \/ NextPool(c) \/ GetReturns(c) \/ GetFails(c) \/ GetSocketsReturns(c)
  \/ GetSocketReturns(c)
ReleaseStep(c) == Releases(c) \/ AllReleased(c)

Next ==
  \/ \E c \in Clients : Calls(c) \/ GetStep(c) \/ ReleaseStep(c)
  \/ Close

Spec == Init /\ [][Next]_vars

\* A Get that can return again and again does so: TaskSocketPool shows that its
\* waiters are served in turn.  A borrower releases what it has.
FairSpec ==
  Spec /\ \A c \in Clients : SF_vars(GetStep(c)) /\ WF_vars(ReleaseStep(c))

-----------------------------------------------------------------------------
\* What the clients have of pool p.
PoolLease(p) == INSTANCE ConnectionLease WITH Borrowers <- Clients, lease <- lease[p]

\* The manager uses each pool as its contract, which TaskSocketPool implements,
\* has it: whatever GetSockets and GetSocket do at the same time, nobody takes
\* a second connection of a pool, and none is lent twice or given back twice.
UsesLeases ==
  [][\A p \in Pools : PoolLease(p)!Next \/ UNCHANGED lease[p]]_vars

TypeOK ==
  /\ pools \subseteq Pools
  /\ pc \in [Clients -> ClientPC]
  /\ todo \in [Clients -> SUBSET Pools]
  /\ want \in [Clients -> Pools \cup {None}]
  /\ \A c \in Clients : pc[c] = "getOne" => want[c] # None
  /\ lease \in [Pools -> [Clients -> Conns \cup {None}]]

\* A client that returned from GetSockets with nil, or that released what it
\* got, has no connection of any pool left.
NothingKept == \A c \in Clients : pc[c] \in {"idle", "getOne"} => Mine(c) = {}

\* GetSockets returns a connection of every pool or none: when it returns a
\* list, the list has one of each pool the manager had when it was called, and
\* Close in between changes nothing about it.
AllOrNothing ==
  [][\A c \in Clients :
       pc[c] = "get" /\ pc'[c] = "using" => Mine(c) \in {{}, Pools}]_vars

\* GetSockets and GetSocket return, although each call may hold connections
\* that another one waits for.
EveryGetReturns ==
  \A c \in Clients :
    pc[c] \in {"get", "getOne", "giveBack"} ~> pc[c] \in {"idle", "using"}
=============================================================================
