----------------------- MODULE TaskSocketMangerProofs ----------------------
(***************************************************************************)
(* Proofs about TaskSocketManger, for any number of clients and pools, and *)
(* any Size, with or without a wait timeout.                               *)
(***************************************************************************)
EXTENDS TaskSocketManger, TLAPS

\* Close forgets all pools at once: the map is what AddSocket made or empty.
PoolsOrNone == pools \in {{}, Pools}

\* GetSockets has a connection of just those pools that it has dealt with, out
\* of the map it found when it was called.
CollectsInOrder(c) ==
  pc[c] = "get" =>
    \E P \in {{}, Pools} :
      /\ todo[c] \subseteq P /\ want[c] \in (P \cup {None}) \ todo[c]
      /\ Mine(c) = P \ (todo[c] \cup {want[c]})

\* A call of GetSocket starts with nothing and waits for one pool; whoever is in
\* no call waits for none.
AsksOnlyInGet(c) ==
  /\ pc[c] \in {"idle", "getOne"} => Mine(c) = {}
  /\ pc[c] = "getOne" <=> pc[c] # "get" /\ want[c] # None

IInv ==
  /\ TypeOK /\ PoolsOrNone
  /\ \A c \in Clients : CollectsInOrder(c) /\ AsksOnlyInGet(c)

-----------------------------------------------------------------------------
LEMMA InitIInv == Init => IInv
<1> SUFFICES ASSUME Init PROVE IInv
  OBVIOUS
<1> USE MangerAssumption DEF MangerAssumption
<1>1. TypeOK BY DEF Init, TypeOK, ClientPC
<1>2. ASSUME NEW c \in Clients PROVE Mine(c) = {} BY DEF Init, Mine
<1>3. PoolsOrNone /\ \A c \in Clients : CollectsInOrder(c) /\ AsksOnlyInGet(c)
  BY <1>2 DEF Init, PoolsOrNone, CollectsInOrder, AsksOnlyInGet
<1> QED BY <1>1, <1>3 DEF IInv

\* What becomes of the connections that the clients have.
LEMMA LendMine ==
  ASSUME TypeOK, NEW c \in Clients, NEW p \in Pools, Lend(c, p)
  PROVE  /\ lease' \in [Pools -> [Clients -> Conns \cup {None}]]
         /\ Mine(c)' = Mine(c) \cup {p}
         /\ \A d \in Clients \ {c} : Mine(d)' = Mine(d)
<1> PICK s \in Conns : lease' = [lease EXCEPT ![p][c] = s]
  BY DEF Lend
<1>1. s # None BY MangerAssumption DEF MangerAssumption
<1> QED BY <1>1 DEF TypeOK, Mine

LEMMA GiveBackMine ==
  ASSUME TypeOK, NEW c \in Clients, NEW p \in Pools, GiveBack(c, p)
  PROVE  /\ lease' \in [Pools -> [Clients -> Conns \cup {None}]]
         /\ Mine(c)' = Mine(c) \ {p}
         /\ \A d \in Clients \ {c} : Mine(d)' = Mine(d)
BY DEF GiveBack, TypeOK, Mine

\* A step of client c leaves the others what they have.
LEMMA StepOfClient ==
  ASSUME IInv, NEW c \in Clients,
         TypeOK', PoolsOrNone',
         \A d \in Clients \ {c} :
           pc'[d] = pc[d] /\ todo'[d] = todo[d] /\ want'[d] = want[d] /\ Mine(d)' = Mine(d),
         CollectsInOrder(c)', AsksOnlyInGet(c)'
  PROVE  IInv'
<1> SUFFICES ASSUME NEW d \in Clients, d # c
             PROVE  CollectsInOrder(d)' /\ AsksOnlyInGet(d)'
  BY DEF IInv
<1> QED BY DEF IInv, CollectsInOrder, AsksOnlyInGet

LEMMA StepIInv == IInv /\ [Next]_vars => IInv'
<1> SUFFICES ASSUME IInv, [Next]_vars PROVE IInv'
  OBVIOUS
<1> USE DEF Goto
<1>a. TypeOK /\ PoolsOrNone BY DEF IInv
<1>b. None \notin Pools /\ None \notin Conns BY MangerAssumption DEF MangerAssumption
<1>1. ASSUME NEW c \in Clients, GetSocketsBegins(c) PROVE IInv'
  <2>1. Mine(c) = {} /\ want[c] = None
    BY <1>1 DEF GetSocketsBegins, IInv, AsksOnlyInGet
  <2>2. \A d \in Clients : Mine(d)' = Mine(d) BY <1>1 DEF GetSocketsBegins, Mine
  <2>3. TypeOK' /\ PoolsOrNone'
    BY <1>1, <1>a DEF GetSocketsBegins, TypeOK, ClientPC, PoolsOrNone
  <2>4. todo'[c] = pools /\ pc'[c] = "get" /\ want'[c] = None
    BY <1>1, <1>a, <2>1 DEF GetSocketsBegins, TypeOK
  <2>5. CollectsInOrder(c)' /\ AsksOnlyInGet(c)'
    BY <1>b, <1>a, <2>1, <2>2, <2>4 DEF CollectsInOrder, AsksOnlyInGet, PoolsOrNone
  <2> QED BY <1>1, <1>a, <2>2, <2>3, <2>5, StepOfClient DEF GetSocketsBegins, TypeOK
<1>2. ASSUME NEW c \in Clients, GetSocketBegins(c) PROVE IInv'
  <2>1. Mine(c) = {} BY <1>2 DEF GetSocketBegins, IInv, AsksOnlyInGet
  <2>2. \A d \in Clients : Mine(d)' = Mine(d) BY <1>2 DEF GetSocketBegins, Mine
  <2>3. TypeOK' /\ PoolsOrNone'
    BY <1>2, <1>a, <1>b DEF GetSocketBegins, TypeOK, ClientPC, PoolsOrNone
  <2>4. want'[c] \in Pools /\ pc'[c] = "getOne"
    BY <1>2, <1>a DEF GetSocketBegins, TypeOK
  <2>5. CollectsInOrder(c)' /\ AsksOnlyInGet(c)'
    BY <1>b, <2>1, <2>2, <2>4 DEF CollectsInOrder, AsksOnlyInGet
  <2> QED BY <1>2, <1>a, <2>2, <2>3, <2>5, StepOfClient DEF GetSocketBegins, TypeOK
<1>3. ASSUME NEW c \in Clients, NextPool(c) PROVE IInv'
  <2> PICK p \in todo[c] : /\ todo' = [todo EXCEPT ![c] = @ \ {p}]
                           /\ want' = [want EXCEPT ![c] = p]
    BY <1>3 DEF NextPool
  <2>1. \A d \in Clients : Mine(d)' = Mine(d) BY <1>3 DEF NextPool, Mine
  <2>2. p \in Pools BY <1>a DEF TypeOK
  <2>3. TypeOK' /\ PoolsOrNone'
    BY <1>3, <1>a, <2>2, <1>b DEF NextPool, TypeOK, ClientPC, PoolsOrNone
  <2>4. todo'[c] = todo[c] \ {p} /\ want'[c] = p /\ pc'[c] = "get" /\ want[c] = None
    BY <1>3, <1>a DEF NextPool, TypeOK
  <2>5. PICK P \in {{}, Pools} : /\ todo[c] \subseteq P
                                 /\ Mine(c) = P \ (todo[c] \cup {want[c]})
    BY <1>3 DEF NextPool, IInv, CollectsInOrder
  <2>6. CollectsInOrder(c)'
    <3>1. todo'[c] \subseteq P /\ want'[c] \in (P \cup {None}) \ todo'[c]
      BY <2>4, <2>5
    <3>2. Mine(c)' = P \ (todo'[c] \cup {want'[c]})
      BY <2>1, <2>4, <2>5, <1>b
    <3> QED BY <3>1, <3>2 DEF CollectsInOrder
  <2>7. AsksOnlyInGet(c)' BY <2>4 DEF AsksOnlyInGet
  <2> QED BY <1>3, <1>a, <2>1, <2>3, <2>6, <2>7, StepOfClient DEF NextPool, TypeOK
<1>4. ASSUME NEW c \in Clients, GetReturns(c) PROVE IInv'
  <2>1. want[c] \in Pools BY <1>4, <1>a DEF GetReturns, TypeOK
  <2>2. /\ lease' \in [Pools -> [Clients -> Conns \cup {None}]]
        /\ Mine(c)' = Mine(c) \cup {want[c]}
        /\ \A d \in Clients \ {c} : Mine(d)' = Mine(d)
    BY <1>4, <1>a, <2>1, LendMine DEF GetReturns
  <2>3. TypeOK' /\ PoolsOrNone'
    BY <1>4, <1>a, <2>2 DEF GetReturns, TypeOK, ClientPC, PoolsOrNone
  <2>4. todo'[c] = todo[c] /\ want'[c] = None /\ pc'[c] = "get"
    BY <1>4, <1>a DEF GetReturns, TypeOK
  <2>5. PICK P \in {{}, Pools} : /\ todo[c] \subseteq P
                                 /\ want[c] \in (P \cup {None}) \ todo[c]
                                 /\ Mine(c) = P \ (todo[c] \cup {want[c]})
    BY <1>4 DEF GetReturns, IInv, CollectsInOrder
  <2>6. CollectsInOrder(c)'
    <3>1. todo'[c] \subseteq P /\ want'[c] \in (P \cup {None}) \ todo'[c]
      BY <2>4, <2>5, <1>b
    <3>2. Mine(c)' = P \ (todo'[c] \cup {want'[c]})
      BY <2>1, <2>2, <2>4, <2>5, <1>b
    <3> QED BY <3>1, <3>2 DEF CollectsInOrder
  <2>7. AsksOnlyInGet(c)' BY <2>4 DEF AsksOnlyInGet
  <2> QED BY <1>4, <1>a, <2>2, <2>3, <2>6, <2>7, StepOfClient DEF GetReturns, TypeOK
<1>5. ASSUME NEW c \in Clients, GetFails(c) PROVE IInv'
  <2>1. \A d \in Clients : Mine(d)' = Mine(d) BY <1>5 DEF GetFails, Mine
  <2>2. TypeOK' /\ PoolsOrNone'
    BY <1>5, <1>a DEF GetFails, TypeOK, ClientPC, PoolsOrNone
  <2>3. want'[c] = None /\ pc'[c] = "giveBack"
    BY <1>5, <1>a DEF GetFails, TypeOK
  <2>4. CollectsInOrder(c)' /\ AsksOnlyInGet(c)'
    BY <2>3 DEF CollectsInOrder, AsksOnlyInGet
  <2> QED BY <1>5, <1>a, <2>1, <2>2, <2>4, StepOfClient DEF GetFails, TypeOK
<1>6. ASSUME NEW c \in Clients, GetSocketsReturns(c) PROVE IInv'
  <2>1. \A d \in Clients : Mine(d)' = Mine(d) BY <1>6 DEF GetSocketsReturns, Mine
  <2>2. TypeOK' /\ PoolsOrNone'
    BY <1>6, <1>a DEF GetSocketsReturns, TypeOK, ClientPC, PoolsOrNone
  <2>3. want'[c] = None /\ pc'[c] = "using"
    BY <1>6, <1>a DEF GetSocketsReturns, TypeOK
  <2>4. CollectsInOrder(c)' /\ AsksOnlyInGet(c)'
    BY <2>3 DEF CollectsInOrder, AsksOnlyInGet
  <2> QED BY <1>6, <1>a, <2>1, <2>2, <2>4, StepOfClient DEF GetSocketsReturns, TypeOK
<1>7. ASSUME NEW c \in Clients, GetSocketReturns(c) PROVE IInv'
  <2>1. want[c] \in Pools /\ Mine(c) = {}
    BY <1>7, <1>a DEF GetSocketReturns, TypeOK, IInv, AsksOnlyInGet
  <2>2. /\ lease' \in [Pools -> [Clients -> Conns \cup {None}]]
        /\ \A d \in Clients \ {c} : Mine(d)' = Mine(d)
        /\ pc'[c] = "using" \/ (pc'[c] = "idle" /\ Mine(c)' = {})
        /\ pc' = [pc EXCEPT ![c] = pc'[c]]
    <3>1. CASE Lend(c, want[c]) /\ Goto(c, "using")
      BY <3>1, <1>a, <2>1, LendMine DEF TypeOK
    <3>2. CASE Goto(c, "idle") /\ UNCHANGED lease
      BY <3>2, <1>a, <2>1 DEF TypeOK, Mine
    <3> QED BY <1>7, <3>1, <3>2 DEF GetSocketReturns
  <2>3. TypeOK' /\ PoolsOrNone'
    BY <1>7, <1>a, <2>2 DEF GetSocketReturns, TypeOK, ClientPC, PoolsOrNone
  <2>4. want'[c] = None BY <1>7, <1>a DEF GetSocketReturns, TypeOK
  <2>5. CollectsInOrder(c)' /\ AsksOnlyInGet(c)'
    BY <2>2, <2>4 DEF CollectsInOrder, AsksOnlyInGet
  <2> QED BY <1>7, <1>a, <2>2, <2>3, <2>5, StepOfClient DEF GetSocketReturns, TypeOK
<1>8. ASSUME NEW c \in Clients, Releases(c) PROVE IInv'
  <2> PICK p \in Pools : GiveBack(c, p) BY <1>8 DEF Releases
  <2>1. /\ lease' \in [Pools -> [Clients -> Conns \cup {None}]]
        /\ \A d \in Clients \ {c} : Mine(d)' = Mine(d)
    BY <1>a, GiveBackMine
  <2>2. TypeOK' /\ PoolsOrNone'
    BY <1>8, <1>a, <2>1 DEF Releases, TypeOK, PoolsOrNone
  <2>3. CollectsInOrder(c)' /\ AsksOnlyInGet(c)'
    BY <1>8 DEF Releases, IInv, CollectsInOrder, AsksOnlyInGet
  <2> QED BY <1>8, <2>1, <2>2, <2>3, StepOfClient DEF Releases
<1>9. ASSUME NEW c \in Clients, AllReleased(c) PROVE IInv'
  <2>1. \A d \in Clients : Mine(d)' = Mine(d) BY <1>9 DEF AllReleased, Mine
  <2>2. TypeOK' /\ PoolsOrNone'
    BY <1>9, <1>a DEF AllReleased, TypeOK, ClientPC, PoolsOrNone
  <2>3. want'[c] = None /\ pc'[c] = "idle" /\ Mine(c) = {}
    BY <1>9, <1>a DEF AllReleased, TypeOK, IInv, AsksOnlyInGet
  <2>4. CollectsInOrder(c)' /\ AsksOnlyInGet(c)'
    BY <2>1, <2>3 DEF CollectsInOrder, AsksOnlyInGet
  <2> QED BY <1>9, <1>a, <2>1, <2>2, <2>4, StepOfClient DEF AllReleased, TypeOK
<1>10. CASE Close
  <2>1. \A d \in Clients : Mine(d)' = Mine(d) BY <1>10 DEF Close, Mine
  <2> QED BY <1>10, <2>1
       DEF Close, IInv, TypeOK, PoolsOrNone, CollectsInOrder, AsksOnlyInGet
<1>11. CASE UNCHANGED vars
  <2>1. \A d \in Clients : Mine(d)' = Mine(d) BY <1>11 DEF vars, Mine
  <2> QED BY <1>11, <2>1
       DEF vars, IInv, TypeOK, PoolsOrNone, CollectsInOrder, AsksOnlyInGet
<1> QED
  BY <1>1, <1>2, <1>3, <1>4, <1>5, <1>6, <1>7, <1>8, <1>9, <1>10, <1>11
  DEF Next, Calls, GetStep, ReleaseStep

LEMMA Invariance == Spec => []IInv
BY InitIInv, StepIInv, PTL DEF Spec

-----------------------------------------------------------------------------
\* The variables keep their types; in particular GetSocket always knows the
\* pool it waits for.
THEOREM TypeCorrect == Spec => []TypeOK
<1>1. IInv => TypeOK BY DEF IInv
<1> QED BY <1>1, Invariance, PTL

\* However many pools there are and wherever GetSockets fails: who has returned
\* with nil, or has released what it got, keeps no connection.
THEOREM NothingIsKept == Spec => []NothingKept
<1>1. IInv => NothingKept BY DEF IInv, AsksOnlyInGet, NothingKept
<1> QED BY <1>1, Invariance, PTL

\* GetSockets returns a connection of every pool there was when it was called;
\* no call of another client and no Close comes in between.
THEOREM GetSocketsIsAtomic == Spec => AllOrNothing
<1> DEFINE Whole == \A c \in Clients :
                      pc[c] = "get" /\ pc'[c] = "using" => Mine(c) \in {{}, Pools}
<1>1. IInv /\ [Next]_vars => [Whole]_vars
  <2> SUFFICES ASSUME IInv, Next, NEW c \in Clients, pc[c] = "get", pc'[c] = "using"
               PROVE  Mine(c) \in {{}, Pools}
    OBVIOUS
  <2>0. pc \in [Clients -> ClientPC] BY DEF IInv, TypeOK
  <2>1. GetSocketsReturns(c)
    BY <2>0 DEF Next, Calls, GetStep, ReleaseStep, Goto, GetSocketsBegins, GetSocketBegins,
       NextPool, GetReturns, GetFails, GetSocketsReturns, GetSocketReturns,
       Releases, AllReleased, Close
  <2>2. todo[c] = {} /\ want[c] = None BY <2>1 DEF GetSocketsReturns
  <2>3. PICK P \in {{}, Pools} : Mine(c) = P \ {None}
    BY <2>2 DEF IInv, CollectsInOrder
  <2>4. P \ {None} = P BY MangerAssumption DEF MangerAssumption
  <2> QED BY <2>3, <2>4
<1> QED BY <1>1, Invariance, PTL DEF Spec, AllOrNothing
-----------------------------------------------------------------------------
(* The manager and the pools.                                              *)

\* A client asks a pool only when it has no connection of it.
LEMMA LendIsLease ==
  ASSUME IInv, NEW c \in Clients, NEW p \in Pools, NEW q \in Pools,
         p \notin Mine(c), Lend(c, p)
  PROVE  PoolLease(q)!Next \/ UNCHANGED lease[q]
<1> PICK s \in Conns : /\ \A d \in Clients : lease[p][d] # s
                       /\ lease' = [lease EXCEPT ![p][c] = s]
  BY DEF Lend
<1>0. lease \in [Pools -> [Clients -> Conns \cup {None}]] BY DEF IInv, TypeOK
<1>1. CASE q = p
  <2>1. Lent(p) = PoolLease(p)!Lent BY DEF Lent, PoolLease!Lent
  <2>2. lease[p][c] = None BY DEF Mine
  <2>3. lease'[p] = [lease[p] EXCEPT ![c] = s] BY <1>0
  <2>4. \A S : Cardinality(S) = PoolLease(p)!Cardinality(S)
    BY DEF Cardinality, PoolLease!Cardinality
  <2>5. PoolLease(p)!Lend(c, s) BY <2>1, <2>2, <2>3, <2>4 DEF PoolLease!Lend, Lend
  <2> QED BY <1>1, <2>5 DEF PoolLease!Next
<1>2. CASE q # p BY <1>0, <1>2
<1> QED BY <1>1, <1>2

LEMMA StepIsLease ==
  ASSUME IInv, [Next]_vars, NEW q \in Pools
  PROVE  PoolLease(q)!Next \/ UNCHANGED lease[q]
<1> USE DEF Goto
<1>a. TypeOK BY DEF IInv
<1>b. None \notin Pools BY MangerAssumption DEF MangerAssumption
<1>1. ASSUME NEW c \in Clients, GetReturns(c)
      PROVE  PoolLease(q)!Next \/ UNCHANGED lease[q]
  <2>1. want[c] \in Pools BY <1>1, <1>a DEF GetReturns, TypeOK
  <2>2. want[c] \notin Mine(c) BY <1>1, <2>1 DEF GetReturns, IInv, CollectsInOrder
  <2> QED BY <1>1, <2>1, <2>2, LendIsLease DEF GetReturns
<1>2. ASSUME NEW c \in Clients, GetSocketReturns(c)
      PROVE  PoolLease(q)!Next \/ UNCHANGED lease[q]
  <2>1. want[c] \in Pools /\ Mine(c) = {}
    BY <1>2, <1>a DEF GetSocketReturns, TypeOK, IInv, AsksOnlyInGet
  <2>2. CASE Lend(c, want[c]) BY <2>1, <2>2, LendIsLease
  <2> QED BY <1>2, <2>2 DEF GetSocketReturns
<1>3. ASSUME NEW c \in Clients, Releases(c)
      PROVE  PoolLease(q)!Next \/ UNCHANGED lease[q]
  <2> PICK p \in Pools : GiveBack(c, p) BY <1>3 DEF Releases
  <2>1. CASE q = p
    <3>1. PoolLease(p)!GiveBack(c)
      BY <1>a DEF GiveBack, Mine, PoolLease!GiveBack, TypeOK
    <3> QED BY <2>1, <3>1 DEF PoolLease!Next
  <2>2. CASE q # p BY <1>a, <2>2 DEF GiveBack, TypeOK
  <2> QED BY <2>1, <2>2
<1>4. CASE Close \/ UNCHANGED vars BY <1>4 DEF Close, vars
<1>5. ASSUME NEW c \in Clients,
             \/ Calls(c) \/ NextPool(c) \/ GetFails(c) \/ GetSocketsReturns(c)
             \/ AllReleased(c)
      PROVE  PoolLease(q)!Next \/ UNCHANGED lease[q]
  BY <1>5 DEF Calls, GetSocketsBegins, GetSocketBegins, NextPool, GetFails,
     GetSocketsReturns, AllReleased
<1> QED BY <1>1, <1>2, <1>3, <1>4, <1>5 DEF Next, GetStep, ReleaseStep

\* Calls of GetSockets and GetSocket by any number of clients treat every pool
\* as its contract has it: no client takes two connections of a pool.
THEOREM LeasesAreKept == Spec => UsesLeases
<1> DEFINE Kept == \A p \in Pools : PoolLease(p)!Next \/ UNCHANGED lease[p]
<1>1. IInv /\ [Next]_vars => [Kept]_vars BY StepIsLease
<1> QED BY <1>1, Invariance, PTL DEF Spec, UsesLeases

\* Seen through what the clients have of one pool, the manager implements
\* ConnectionLease, which TaskSocketPool implements as well: the two compose.
THEOREM MangerImplementsLeases ==
  ASSUME NEW p \in Pools
  PROVE  Spec => PoolLease(p)!Spec
<1>1. Init => PoolLease(p)!Init BY DEF Init, PoolLease!Init
<1>2. IInv /\ [Next]_vars => [PoolLease(p)!Next]_(lease[p]) BY StepIsLease
<1> QED BY <1>1, <1>2, Invariance, PTL DEF Spec, PoolLease!Spec
=============================================================================
