------------------------ MODULE NetBusAnswersProofs ------------------------
(***************************************************************************)
(* Proofs about NetBus: which ids a call sends to which gateway, and what  *)
(* a query returns.  They build on NetBusProofs, where every answer is     *)
(* shown to be the answer to its own request.                              *)
(***************************************************************************)
EXTENDS NetBusProofs, FiniteSetTheorems

\* The manager has the gateways that were registered until it is closed, and
\* nobody has to do with others.
Within ==
  /\ pools \in {deployed, {}}
  /\ \A c \in Clients :
       /\ todo[c] \subseteq deployed /\ M!Mine(c) \subseteq deployed
       /\ want[c] \in deployed \cup {None}

\* Every id of c's call is yet to be sent, was sent, or cannot be.
Accounted(c) ==
  \A u \in job[c].ids :
    Home[u] \in deployed =>
      Home[u] \in rest[c] \cup lost[c] \/ <<Home[u], u>> \in sent[c]

\* A query of one gateway accounts for its ids only if there is no other.
Planned(c) ==
  pools = deployed =>
    IF job[c].kind = "one" /\ job[c].query
    THEN job[c].ids = {} \/ \E g : deployed = {g}
    ELSE Accounted(c)

Answered(c, g) == \E a \in answers[c] : a[1] = g

\* A request went out whole, to a gateway that is to answer it if it was a
\* query.
SentKnown(c) ==
  \A x \in sent[c] :
    /\ x[1] \in deployed /\ x[2] \in Part(c, x[1])
    /\ \A u \in Part(c, x[1]) : <<x[1], u>> \in sent[c]
    /\ job[c].query =>
         awaits[c] = x[1] \/ x[1] \in lost[c] \/ Answered(c, x[1])

\* What gateway g answers to the request of c's call.
Due(c, g) == {u \in Part(c, g) \cap Online : Home[u] = g}

\* A gateway that answered is done with, and its answer was the right one.
AnswersKnown(c) ==
  \A a \in answers[c] :
    /\ a[1] \in deployed /\ a[1] \notin rest[c] \cup lost[c] \cup {awaits[c]}
    /\ a[2].ids = Due(c, a[1])

\* What is in transit on w is the request of c to gateway g, or its answer.
Concerns(w, c, g) ==
  /\ ~Empty(w) => g \notin lost[c]
  /\ w.out # <<>> => w.out[1].ids = Part(c, g)
  /\ w.in # <<>> => w.in[1].ids = Due(c, g)

AwaitsKnown(c) ==
  \A g \in Pools :
    awaits[c] = g => g \notin rest[c] /\ Concerns(wire[g][lease[g][c]], c, g)

\* No gateway is both given up and yet to be asked; the one GetSocket is asked
\* for is.
RestKept(c) ==
  /\ rest[c] \cap lost[c] = {}
  /\ pc[c] = "getOne" => want[c] \in rest[c]

Books(c) ==
  /\ Planned(c) /\ SentKnown(c) /\ AnswersKnown(c) /\ AwaitsKnown(c) /\ RestKept(c)

BInv == Within /\ \A c \in Clients : Books(c)

-----------------------------------------------------------------------------
\* SinglePoint, in the words of the definitions above.
LEMMA OnlyGateway ==
  ASSUME IInv, SinglePoint
  PROVE  \E g : pools = {g}
<1>1. pools \in SUBSET Pools BY DEF IInv, M!TypeOK
<1>2. IsFiniteSet(pools) BY <1>1, NetBusAssumption, FS_Subset DEF NetBusAssumption
<1>3. Cardinality(pools) = 1 BY DEF SinglePoint
<1>4. \A S : IsFiniteSet(S) /\ Cardinality(S) = 1 => \E g : S = {g}
  BY FS_Singleton
<1> QED BY <1>2, <1>3, <1>4, Zenon

LEMMA InitBInv == Init => BInv
<1> SUFFICES ASSUME Init PROVE BInv
  OBVIOUS
<1> USE DEF Init
<1>1. Within BY DEF Within, M!Mine
<1>2. ASSUME NEW c \in Clients PROVE Books(c)
  <2>1. job[c].ids = {} /\ job[c].kind = "all" OBVIOUS
  <2>2. Planned(c) BY <2>1 DEF Planned, Accounted
  <2>3. SentKnown(c) /\ AnswersKnown(c) /\ RestKept(c)
    BY DEF SentKnown, AnswersKnown, RestKept
  <2>4. AwaitsKnown(c) BY NetBusAssumption DEF NetBusAssumption, AwaitsKnown
  <2> QED BY <2>2, <2>3, <2>4 DEF Books
<1> QED BY <1>1, <1>2 DEF BInv

\* What a step of client c does to the variables of the manager.
LEMMA MangerWithin ==
  ASSUME IInv, Within, NEW c \in Clients,
         M!Calls(c) \/ M!GetStep(c) \/ M!ReleaseStep(c)
  PROVE  /\ todo'[c] \subseteq deployed /\ M!Mine(c)' \subseteq deployed
         /\ want'[c] \in deployed \cup {None}
         /\ \A d \in Clients \ {c} : todo'[d] = todo[d] /\ want'[d] = want[d]
<1> USE DEF Within, M!Goto
<1>0. M!TypeOK BY DEF IInv
<1>1. CASE M!GetSocketsBegins(c)
  BY <1>0, <1>1 DEF M!GetSocketsBegins, M!TypeOK, M!Mine
<1>2. CASE M!GetSocketBegins(c)
  BY <1>0, <1>2 DEF M!GetSocketBegins, M!TypeOK, M!Mine
<1>3. CASE M!NextPool(c)
  BY <1>0, <1>3 DEF M!NextPool, M!TypeOK, M!Mine
<1>4. ASSUME want[c] # None, M!Lend(c, want[c])
      PROVE  M!Mine(c)' \subseteq deployed
  <2>1. want[c] \in Pools BY <1>0, <1>4 DEF M!TypeOK
  <2>2. \A q \in Pools : q # want[c] => lease'[q][c] = lease[q][c]
    BY <1>0, <1>4, <2>1, LendKeeps DEF IInv
  <2> QED BY <1>4, <2>2 DEF M!Mine
<1>5. CASE M!GetReturns(c)
  BY <1>0, <1>4, <1>5 DEF M!GetReturns, M!TypeOK
<1>6. CASE M!GetFails(c)
  BY <1>0, <1>6 DEF M!GetFails, M!TypeOK, M!Mine
<1>7. CASE M!GetSocketsReturns(c)
  BY <1>0, <1>7 DEF M!GetSocketsReturns, M!TypeOK, M!Mine
<1>8. CASE M!GetSocketReturns(c)
  <2>1. want[c] # None BY <1>0, <1>8 DEF M!GetSocketReturns, M!TypeOK
  <2>2. M!Mine(c)' \subseteq deployed
    BY <1>0, <1>4, <1>8, <2>1 DEF M!GetSocketReturns, M!Mine
  <2> QED BY <1>0, <1>8, <2>2 DEF M!GetSocketReturns, M!TypeOK
<1>9. CASE M!Releases(c)
  <2> PICK p \in Pools : lease' = [lease EXCEPT ![p][c] = None]
    BY <1>9 DEF M!Releases, M!GiveBack
  <2>1. M!Mine(c)' \subseteq M!Mine(c) BY <1>0 DEF M!Mine, M!TypeOK
  <2> QED BY <1>9, <2>1 DEF M!Releases
<1>10. CASE M!AllReleased(c)
  BY <1>0, <1>10 DEF M!AllReleased, M!TypeOK, M!Mine
<1> QED
  BY <1>1, <1>2, <1>3, <1>5, <1>6, <1>7, <1>8, <1>9, <1>10
  DEF M!Calls, M!GetStep, M!ReleaseStep

\* What a step of client c leaves alone.
LEMMA ClientStep ==
  ASSUME IInv, Within, NEW c \in Clients, BeginsSome(c) \/ Gets(c) \/ Exchanges(c)
  PROVE  /\ Within' /\ UNCHANGED <<pools, deployed>>
         /\ \A d \in Clients \ {c} :
              /\ pc'[d] = pc[d] /\ want'[d] = want[d]
              /\ \A q \in Pools : lease'[q][d] = lease[q][d]
              /\ job'[d] = job[d] /\ rest'[d] = rest[d] /\ awaits'[d] = awaits[d]
              /\ answers'[d] = answers[d] /\ sent'[d] = sent[d] /\ lost'[d] = lost[d]
<1>0. M!TypeOK /\ Exclusive /\ ClientTypes BY DEF IInv
<1>1. M!Calls(c) \/ M!GetStep(c) \/ M!ReleaseStep(c) \/ UNCHANGED mangerVars
  <2>1. CASE BeginsSome(c) BY <2>1 DEF BeginsSome, M!Calls
  <2>2. CASE Gets(c)
    BY <2>2 DEF Gets, GetsConnections, GetSocketsFails, AsksGroup, SkipsGroup,
       GetSocketFails, M!Calls, M!GetStep
  <2>3. CASE Exchanges(c)
    BY <2>3, Zenon DEF Exchanges, SendWrites, SendTimesOut, SendBreaks, Receives,
       ReceiveFails, Releases, SendsTo
  <2> QED BY <2>1, <2>2, <2>3
<1>2. /\ UNCHANGED pools
      /\ \A d \in Clients \ {c} :
           /\ pc'[d] = pc[d] /\ todo'[d] = todo[d] /\ want'[d] = want[d]
           /\ \A q \in Pools : lease'[q][d] = lease[q][d]
      /\ todo'[c] \subseteq deployed /\ M!Mine(c)' \subseteq deployed
      /\ want'[c] \in deployed \cup {None}
  <2>1. CASE UNCHANGED mangerVars BY <2>1 DEF mangerVars, Within, M!Mine
  <2>2. CASE M!Calls(c) \/ M!GetStep(c) \/ M!ReleaseStep(c)
    BY <1>0, <2>2, MangerStep, MangerWithin
  <2> QED BY <1>1, <2>1, <2>2
<1>3. /\ UNCHANGED deployed
      /\ \A d \in Clients \ {c} :
           /\ job'[d] = job[d] /\ rest'[d] = rest[d] /\ awaits'[d] = awaits[d]
           /\ answers'[d] = answers[d] /\ sent'[d] = sent[d] /\ lost'[d] = lost[d]
  <2> USE <1>0 DEF ClientTypes, callVars, history
  <2>1. CASE BeginsSome(c) BY <2>1 DEF BeginsSome, Begins
  <2>2. CASE Gets(c)
    BY <2>2 DEF Gets, GetsConnections, GetSocketsFails, AsksGroup, SkipsGroup,
       GetSocketFails
  <2>3. CASE SendWrites(c) BY <2>3 DEF SendWrites, SendsTo
  <2>4. CASE SendTimesOut(c) \/ SendBreaks(c)
    BY <2>4 DEF SendTimesOut, SendBreaks, SendsTo
  <2>5. CASE Receives(c) \/ ReceiveFails(c) BY <2>5, Zenon DEF Receives, ReceiveFails
  <2>6. CASE Releases(c) BY <2>6 DEF Releases
  <2> QED BY <2>1, <2>2, <2>3, <2>4, <2>5, <2>6 DEF Exchanges
<1>4. \A d \in Clients \ {c} : M!Mine(d)' = M!Mine(d) BY <1>2 DEF M!Mine
<1>5. Within' BY <1>2, <1>3, <1>4 DEF Within
<1> QED BY <1>2, <1>3, <1>5

\* The books of a client depend on its own variables, and on the connection
\* on which it awaits an answer.
LEMMA OthersKeep ==
  ASSUME Within, NEW d \in Clients, Books(d), pools' \in {pools, {}},
         UNCHANGED deployed, pc'[d] = pc[d], want'[d] = want[d],
         job'[d] = job[d], rest'[d] = rest[d], awaits'[d] = awaits[d],
         answers'[d] = answers[d], sent'[d] = sent[d], lost'[d] = lost[d],
         \A q \in Pools : lease'[q][d] = lease[q][d],
         \A g \in Pools :
           awaits[d] = g =>
             \/ wire'[g][lease[g][d]] = wire[g][lease[g][d]]
             \/ Empty(wire'[g][lease[g][d]])
             \/ Concerns(wire'[g][lease[g][d]], d, g)
  PROVE  Books(d)'
<1>0. \A g : Part(d, g)' = Part(d, g) /\ Due(d, g)' = Due(d, g) BY DEF Part, Due
<1>1. Planned(d)' BY DEF Books, Planned, Accounted, Within
<1>2. SentKnown(d)' BY <1>0 DEF Books, SentKnown, Answered
<1>3. AnswersKnown(d)' BY <1>0 DEF Books, AnswersKnown
<1>4. AwaitsKnown(d)'
  <2> SUFFICES ASSUME NEW g \in Pools, awaits[d] = g
               PROVE  g \notin rest[d] /\ Concerns(wire[g][lease[g][d]], d, g)'
    BY DEF AwaitsKnown
  <2>1. g \notin rest[d] /\ Concerns(wire[g][lease[g][d]], d, g)
    BY DEF Books, AwaitsKnown
  <2>2. Concerns(wire'[g][lease[g][d]], d, g)
    BY <2>1 DEF Concerns, Empty
  <2> QED BY <1>0, <2>1, <2>2, Zenon DEF Concerns, Empty
<1>5. RestKept(d)' BY DEF Books, RestKept
<1> QED BY <1>1, <1>2, <1>3, <1>4, <1>5 DEF Books

\* A step of client c keeps the books of the others: it changes no connection
\* that one of them has.
LEMMA OthersStep ==
  ASSUME IInv, BInv, NEW c \in Clients, BeginsSome(c) \/ Gets(c) \/ Exchanges(c),
         NEW d \in Clients \ {c}
  PROVE  Books(d)'
<1> USE DEF callVars, history, mangerVars
<1>0. WireTypes /\ Exclusive /\ Within /\ Books(d) /\ AwaitsOn(d)
  BY DEF IInv, Exchange, BInv
<1>1. /\ UNCHANGED <<pools, deployed>>
      /\ pc'[d] = pc[d] /\ want'[d] = want[d]
      /\ \A q \in Pools : lease'[q][d] = lease[q][d]
      /\ job'[d] = job[d] /\ rest'[d] = rest[d] /\ awaits'[d] = awaits[d]
      /\ answers'[d] = answers[d] /\ sent'[d] = sent[d] /\ lost'[d] = lost[d]
  BY <1>0, ClientStep
<1>2. ASSUME NEW g \in Pools, awaits[d] = g
      PROVE  \/ wire'[g][lease[g][d]] = wire[g][lease[g][d]]
             \/ Empty(wire'[g][lease[g][d]])
  <2>1. lease[g][d] \in Conns /\ lease[g][d] # lease[g][c]
    BY <1>0, <1>2, NetBusAssumption
    DEF NetBusAssumption, AwaitsOn, M!Mine, Exclusive, IInv, M!TypeOK
  <2>2. CASE UNCHANGED wire BY <2>2
  <2>3. CASE Opens(c)
    BY <2>1, <2>3 DEF Opens, Fresh, Empty
  <2>4. ASSUME NEW h \in Pools, NEW w, wire' = [wire EXCEPT ![h][lease[h][c]] = w]
        PROVE  wire'[g][lease[g][d]] = wire[g][lease[g][d]]
    BY <1>0, <2>1, <2>4 DEF WireTypes
  <2>5. CASE BeginsSome(c) BY <2>2, <2>5 DEF BeginsSome, Begins
  <2>6. CASE Gets(c)
    BY <2>2, <2>3, <2>6 DEF Gets, GetsConnections, GetSocketsFails, AsksGroup,
       SkipsGroup, GetSocketFails
  <2>7. CASE SendWrites(c)
    <3> PICK h \in Pools : \/ UNCHANGED wire
                           \/ wire' = [wire EXCEPT ![h][lease[h][c]].out =
                                Append(@, [call |-> job[c].call, ids |-> Part(c, h)])]
      BY <2>7, Zenon DEF SendWrites
    <3> QED BY <2>2, <2>4
  <2>8. CASE SendTimesOut(c) \/ SendBreaks(c)
    BY <2>2, <2>4, <2>8 DEF SendTimesOut, SendBreaks
  <2>9. CASE Receives(c) \/ ReceiveFails(c)
    <3> PICK h \in Pools : \/ wire' = [wire EXCEPT ![h][lease[h][c]] = Closed]
                           \/ wire' = [wire EXCEPT ![h][lease[h][c]].in = Tail(@)]
      BY <2>9, Zenon DEF Receives, ReceiveFails
    <3> QED BY <2>4
  <2>10. CASE Releases(c) BY <2>2, <2>10 DEF Releases
  <2> QED BY <2>5, <2>6, <2>7, <2>8, <2>9, <2>10 DEF Exchanges
<1> QED BY <1>0, <1>1, <1>2, OthersKeep

-----------------------------------------------------------------------------
LEMMA BooksBegin ==
  ASSUME IInv, BInv, NEW c \in Clients, BeginsSome(c)
  PROVE  Books(c)'
<1> PICK kind \in {"all", "one", "split"}, query \in BOOLEAN, ids \in SUBSET UniqIds,
         gateways \in SUBSET (Pools \cup {None}) :
      /\ Begins(c, kind, query, ids, gateways)
      /\ M!GetSocketsBegins(c) \/ UNCHANGED mangerVars
      /\ kind = "one" /\ query => SinglePoint \/ ids = {}
      /\ (kind = "one" /\ query) \/ \A u \in ids : Home[u] \in pools => Home[u] \in gateways
  BY DEF BeginsSome
<1> USE DEF Begins
<1>0. M!TypeOK /\ ClientTypes /\ AwaitsOn(c) BY DEF IInv, Exchange
<1>1. UNCHANGED <<pools, deployed>> BY ClientStep DEF BInv
<1>2. /\ job'[c].kind = kind /\ job'[c].query = query /\ job'[c].ids = ids
      /\ rest'[c] = gateways /\ answers'[c] = {} /\ sent'[c] = {} /\ lost'[c] = {}
      /\ awaits'[c] = None
  BY <1>0 DEF ClientTypes, AwaitsOn, Done
<1>3. Planned(c)' BY <1>1, <1>2, OnlyGateway DEF Planned, Accounted
<1>4. SentKnown(c)' /\ AnswersKnown(c)' BY <1>2 DEF SentKnown, AnswersKnown
<1>5. AwaitsKnown(c)' BY <1>2, NetBusAssumption DEF NetBusAssumption, AwaitsKnown
<1>6. pc'[c] # "getOne"
  BY <1>0 DEF Done, M!GetSocketsBegins, M!Goto, M!TypeOK, mangerVars
<1>7. RestKept(c)' BY <1>2, <1>6 DEF RestKept
<1> QED BY <1>3, <1>4, <1>5, <1>7 DEF Books

\* A step that gives up some of the gateways yet to be asked.
LEMMA GivesUp ==
  ASSUME IInv, BInv, NEW c \in Clients, NEW gs \in SUBSET rest[c],
         UNCHANGED <<callVars, answers, deployed, sent>>, awaits[c] = None,
         awaits'[c] = None, pools' = pools,
         rest'[c] = rest[c] \ gs, lost'[c] = lost[c] \cup (gs \cap Pools),
         pc'[c] = "getOne" => want'[c] \in rest'[c]
  PROVE  Books(c)'
<1> USE DEF callVars, BInv, Books
<1>1. \A g : Part(c, g)' = Part(c, g) /\ Due(c, g)' = Due(c, g) BY DEF Part, Due
<1>2. deployed \subseteq Pools BY DEF IInv, ClientTypes
<1>3. Planned(c)' BY <1>2 DEF Planned, Accounted
<1>4. SentKnown(c)' BY <1>1 DEF SentKnown, Answered
<1>5. AnswersKnown(c)'
  BY <1>1, <1>2, NetBusAssumption DEF NetBusAssumption, AnswersKnown
<1>6. AwaitsKnown(c)' BY NetBusAssumption DEF NetBusAssumption, AwaitsKnown
<1>7. RestKept(c)' BY DEF RestKept
<1> QED BY <1>3, <1>4, <1>5, <1>6, <1>7

LEMMA BooksGets ==
  ASSUME IInv, BInv, NEW c \in Clients, Gets(c)
  PROVE  Books(c)'
<1> USE DEF callVars, history, mangerVars
<1>0. M!TypeOK /\ ClientTypes /\ RestKnown /\ Books(c) BY DEF IInv, BInv
<1>1. awaits[c] = None /\ UNCHANGED awaits
  BY DEF IInv, Exchange, AwaitsOn, Gets, GetsConnections, GetSocketsFails, AsksGroup,
     SkipsGroup, GetSocketFails, M!NextPool, M!GetReturns, M!GetSocketsReturns,
     M!GetSocketReturns, M!GetFails
<1>2. UNCHANGED <<pools, deployed>> BY ClientStep DEF BInv
<1>3. CASE GetsConnections(c)
  <2>1. pc'[c] # "getOne"
    BY <1>0, <1>3 DEF GetsConnections, M!NextPool, M!GetReturns, M!GetSocketsReturns,
       M!Goto, M!TypeOK
  <2>2. UNCHANGED <<callVars, answers, deployed, sent, rest, lost>>
    BY <1>3 DEF GetsConnections
  <2>3. /\ {} \in SUBSET rest[c] /\ rest'[c] = rest[c] \ {}
        /\ lost'[c] = lost[c] \cup ({} \cap Pools)
    BY <2>2
  <2> QED BY <1>1, <1>2, <2>1, <2>2, <2>3, GivesUp
<1>4. CASE AsksGroup(c)
  <2>1. want'[c] \in rest[c] /\ UNCHANGED <<callVars, answers, deployed, sent, rest, lost>>
    BY <1>4 DEF AsksGroup
  <2>2. /\ {} \in SUBSET rest[c] /\ rest'[c] = rest[c] \ {}
        /\ lost'[c] = lost[c] \cup ({} \cap Pools)
    BY <2>1
  <2> QED BY <1>1, <1>2, <2>1, <2>2, GivesUp
<1>5. CASE GetSocketsFails(c)
  <2>1. /\ rest[c] \in SUBSET rest[c] /\ rest[c] \in SUBSET Pools /\ pc'[c] # "getOne"
        /\ rest'[c] = rest[c] \ rest[c]
        /\ UNCHANGED <<callVars, answers, deployed, sent>>
    BY <1>0, <1>5 DEF GetSocketsFails, M!GetFails, M!Goto, RestKnown, M!TypeOK, ClientTypes
  <2>2. lost'[c] = lost[c] \cup (rest[c] \cap Pools)
    BY <1>0, <1>5, <2>1 DEF GetSocketsFails, ClientTypes
  <2> QED BY <1>1, <1>2, <2>1, <2>2, GivesUp
<1>6. CASE SkipsGroup(c)
  <2> PICK g \in rest[c] \ pools :
        /\ rest' = [rest EXCEPT ![c] = @ \ {g}]
        /\ lost' = [lost EXCEPT ![c] = @ \cup ({g} \cap Pools)]
    BY <1>6 DEF SkipsGroup
  <2>1. /\ {g} \in SUBSET rest[c] /\ rest'[c] = rest[c] \ {g}
        /\ lost'[c] = lost[c] \cup ({g} \cap Pools)
    BY <1>0 DEF ClientTypes
  <2>2. UNCHANGED <<callVars, answers, deployed, sent>> /\ pc'[c] # "getOne"
    BY <1>6 DEF SkipsGroup
  <2> QED BY <1>1, <1>2, <2>1, <2>2, GivesUp
<1>7. CASE GetSocketFails(c)
  <2>1. want[c] \in Pools /\ want[c] \in rest[c] /\ pc'[c] # "getOne"
    BY <1>0, <1>7 DEF GetSocketFails, M!GetSocketReturns, M!TypeOK, Books, RestKept
  <2>2. /\ {want[c]} \in SUBSET rest[c] /\ rest'[c] = rest[c] \ {want[c]}
        /\ lost'[c] = lost[c] \cup ({want[c]} \cap Pools)
        /\ UNCHANGED <<callVars, answers, deployed, sent>>
    BY <1>0, <1>7, <2>1 DEF GetSocketFails, ClientTypes
  <2> QED BY <1>1, <1>2, <2>1, <2>2, GivesUp
<1> QED BY <1>3, <1>4, <1>5, <1>6, <1>7 DEF Gets

LEMMA BooksSends ==
  ASSUME IInv, BInv, NEW c \in Clients, SendWrites(c) \/ SendTimesOut(c) \/ SendBreaks(c)
  PROVE  Books(c)'
<1> USE NetBusAssumption DEF NetBusAssumption, callVars, mangerVars
<1>0. /\ M!TypeOK /\ ClientTypes /\ WireTypes /\ Within
      /\ Planned(c) /\ SentKnown(c) /\ AnswersKnown(c) /\ RestKept(c)
  BY DEF IInv, BInv, Books
<1> DEFINE Query(g) == [call |-> job[c].call, ids |-> Part(c, g)]
           Writes(g) == /\ wire' =
                             IF job[c].query /\ wire[g][lease[g][c]].live
                             THEN [wire EXCEPT ![g][lease[g][c]].out =
                                     Append(@, Query(g))]
                             ELSE wire
                        /\ sent' = [sent EXCEPT ![c] = @ \cup ({g} \X Part(c, g))]
                        /\ UNCHANGED lost
           Fails(g) == /\ wire' = wire \/ wire' = [wire EXCEPT ![g][lease[g][c]] = Closed]
                       /\ lost' = [lost EXCEPT ![c] = @ \cup {g}]
                       /\ UNCHANGED sent
<1> PICK g \in Pools : SendsTo(c, g) /\ (Writes(g) \/ Fails(g))
  BY Zenon DEF SendWrites, SendTimesOut, SendBreaks
<1> DEFINE s == lease[g][c]
<1>1. /\ g \in M!Mine(c) /\ g \in rest[c] /\ g \in deployed /\ g \notin lost[c]
      /\ awaits[c] = None /\ pc[c] = "using"
      /\ UNCHANGED <<mangerVars, callVars, answers, deployed>>
  BY <1>0 DEF SendsTo, Within, RestKept
<1>2. s \in Conns /\ Empty(wire[g][s]) BY <1>1, OwnWire
<1>3. /\ rest'[c] = rest[c] \ {g}
      /\ awaits'[c] = IF job[c].query THEN g ELSE None
  BY <1>0 DEF SendsTo, ClientTypes
<1>4. \A h : Part(c, h)' = Part(c, h) /\ Due(c, h)' = Due(c, h)
  BY <1>1 DEF Part, Due
<1>5. \/ /\ sent'[c] = sent[c] \cup ({g} \X Part(c, g)) /\ lost'[c] = lost[c]
      \/ /\ sent'[c] = sent[c] /\ lost'[c] = lost[c] \cup {g}
  BY <1>0 DEF ClientTypes
<1>6. Planned(c)'
  <2> SUFFICES ASSUME pools = deployed, ~(job[c].kind = "one" /\ job[c].query)
               PROVE  Accounted(c)'
    BY <1>0, <1>1 DEF Planned
  <2> SUFFICES ASSUME NEW u \in job[c].ids, Home[u] \in deployed
               PROVE  Home[u] \in rest'[c] \cup lost'[c] \/ <<Home[u], u>> \in sent'[c]
    BY <1>1 DEF Accounted
  <2>1. Home[u] \in rest[c] \cup lost[c] \/ <<Home[u], u>> \in sent[c]
    BY <1>0 DEF Planned, Accounted
  <2>2. Home[u] = g => u \in Part(c, g) BY DEF Part
  <2> QED BY <1>3, <1>5, <2>1, <2>2
<1>7. SentKnown(c)'
  <2> SUFFICES ASSUME NEW x \in sent'[c]
               PROVE  /\ x[1] \in deployed /\ x[2] \in Part(c, x[1])
                      /\ \A u \in Part(c, x[1]) : <<x[1], u>> \in sent'[c]
                      /\ job[c].query => \/ awaits'[c] = x[1] \/ x[1] \in lost'[c]
                                         \/ Answered(c, x[1])
    BY <1>1, <1>4 DEF SentKnown, Answered
  <2>1. CASE x \in sent[c]
    <3>1. x[1] # None BY <1>0, <2>1 DEF SentKnown, ClientTypes
    <3> QED BY <1>0, <1>1, <1>5, <2>1, <3>1 DEF SentKnown
  <2>2. CASE x \notin sent[c]
    <3>1. /\ x[1] = g /\ x[2] \in Part(c, g)
          /\ sent'[c] = sent[c] \cup ({g} \X Part(c, g))
      BY <1>5, <2>2
    <3> QED BY <1>1, <1>3, <3>1
  <2> QED BY <2>1, <2>2
<1>8. AnswersKnown(c)' BY <1>0, <1>1, <1>3, <1>4, <1>5 DEF AnswersKnown, ClientTypes
<1>9. AwaitsKnown(c)'
  <2> SUFFICES ASSUME awaits'[c] = g
               PROVE  /\ ~Empty(wire'[g][s]) => g \notin lost'[c]
                      /\ wire'[g][s].out # <<>> => wire'[g][s].out[1].ids = Part(c, g)
                      /\ wire'[g][s].in # <<>> => wire'[g][s].in[1].ids = Due(c, g)
    BY <1>1, <1>3, <1>4, Zenon DEF AwaitsKnown, Concerns, Empty
  <2>1. CASE Empty(wire'[g][s]) BY <2>1 DEF Empty
  <2>2. CASE /\ wire' = [wire EXCEPT ![g][s].out = Append(@, Query(g))]
             /\ lost'[c] = lost[c]
    <3>1. wire[g][s].out = <<>> /\ wire[g][s].in = <<>> BY <1>2 DEF Empty
    <3>2. Append(<<>>, Query(g)) = <<Query(g)>> /\ <<Query(g)>>[1] = Query(g)
      OBVIOUS
    <3>3. wire'[g][s].out = <<Query(g)>> /\ wire'[g][s].in = <<>>
      BY <1>0, <1>2, <2>2, <3>1, <3>2 DEF WireTypes, Ends
    <3>4. Query(g).ids = Part(c, g) OBVIOUS
    <3> HIDE DEF Query
    <3> QED BY <1>1, <2>2, <3>2, <3>3, <3>4, Zenon
  <2>3. CASE wire' = wire \/ wire' = [wire EXCEPT ![g][s] = Closed]
    BY <1>0, <1>2, <2>1, <2>3, ClosedEnds DEF WireTypes
  <2> QED BY <1>0, <2>2, <2>3, Zenon DEF ClientTypes
<1>10. RestKept(c)' BY <1>0, <1>1, <1>3, <1>5 DEF RestKept
<1> QED BY <1>6, <1>7, <1>8, <1>9, <1>10 DEF Books

LEMMA BooksReceives ==
  ASSUME IInv, BInv, NEW c \in Clients, Receives(c) \/ ReceiveFails(c)
  PROVE  Books(c)'
<1> USE NetBusAssumption DEF NetBusAssumption, callVars, mangerVars, history
<1>0. /\ M!TypeOK /\ ClientTypes /\ WireTypes /\ AwaitsOn(c) /\ Within
      /\ Planned(c) /\ SentKnown(c) /\ AnswersKnown(c) /\ AwaitsKnown(c) /\ RestKept(c)
  BY DEF IInv, Exchange, BInv, Books
<1> PICK g \in Pools : awaits[c] = g
  BY Zenon DEF Receives, ReceiveFails
<1> DEFINE s == lease[g][c]
<1>1. /\ g \in M!Mine(c) /\ g \in deployed /\ pc[c] = "using" /\ g \notin rest[c]
      /\ Concerns(wire[g][s], c, g)
  BY <1>0 DEF AwaitsOn, Within, AwaitsKnown
<1>2. /\ awaits'[c] = None /\ UNCHANGED <<mangerVars, callVars, rest, deployed, sent>>
  BY <1>0, Zenon DEF Receives, ReceiveFails, ClientTypes
<1>3. \A h : Part(c, h)' = Part(c, h) /\ Due(c, h)' = Due(c, h)
  BY <1>2 DEF Part, Due
<1>4. \/ answers'[c] = answers[c] /\ lost'[c] = lost[c] \cup {g}
      \/ \E m : /\ answers'[c] = answers[c] \cup {<<g, m>>} /\ m.ids = Due(c, g)
                /\ lost'[c] = lost[c] /\ g \notin lost[c]
  <2>1. CASE ReceiveFails(c) BY <1>0, <2>1 DEF ReceiveFails, ClientTypes
  <2>2. CASE Receives(c)
    <3>1. /\ wire[g][s].in # <<>> /\ lost'[c] = lost[c]
          /\ answers'[c] = answers[c] \cup {<<g, Head(wire[g][s].in)>>}
      <4>1. /\ wire[g][s].in # <<>> /\ UNCHANGED lost
            /\ answers' = [answers EXCEPT ![c] = @ \cup {<<g, Head(wire[g][s].in)>>}]
        BY <2>2, Zenon DEF Receives
      <4>2. \A m : answers' = [answers EXCEPT ![c] = @ \cup {m}]
                    => answers'[c] = answers[c] \cup {m}
        BY <1>0 DEF ClientTypes
      <4> QED BY <4>1, <4>2
    <3>2. s \in Conns BY <1>1, OwnWire
    <3>3. wire[g][s].in \in Seq(Messages) BY <1>0, <3>2 DEF WireTypes, Ends
    <3>4. Head(wire[g][s].in) = wire[g][s].in[1] BY <3>1, <3>3, HeadTailProperties
    <3>5. wire[g][s].in[1].ids = Due(c, g) /\ g \notin lost[c]
      BY <1>1, <3>1 DEF Concerns, Empty
    <3> QED BY <3>1, <3>4, <3>5
  <2> QED BY <2>1, <2>2
<1>5. Planned(c)' BY <1>0, <1>2, <1>4 DEF Planned, Accounted
<1>6. SentKnown(c)'
  <2> SUFFICES ASSUME NEW x \in sent[c], job[c].query
               PROVE  x[1] \in lost'[c] \/ \E a \in answers'[c] : a[1] = x[1]
    BY <1>0, <1>2, <1>3 DEF SentKnown, Answered
  <2>1. g = x[1] \/ x[1] \in lost[c] \/ \E a \in answers[c] : a[1] = x[1]
    BY <1>0 DEF SentKnown, Answered
  <2>2. answers[c] \subseteq answers'[c] /\ lost[c] \subseteq lost'[c] BY <1>4
  <2>3. g \in lost'[c] \/ \E a \in answers'[c] : a[1] = g
    <3>1. ASSUME NEW m, answers'[c] = answers[c] \cup {<<g, m>>}
          PROVE  \E a \in answers'[c] : a[1] = g
      <4>1. <<g, m>> \in answers'[c] /\ <<g, m>>[1] = g BY <3>1
      <4> QED BY <4>1
    <3> QED BY <1>4, <3>1
  <2> QED BY <2>1, <2>2, <2>3
<1>7. AnswersKnown(c)'
  <2> SUFFICES ASSUME NEW a \in answers'[c]
               PROVE  /\ a[1] \in deployed
                      /\ a[1] \notin rest[c] \cup lost'[c] \cup {None}
                      /\ a[2].ids = Due(c, a[1])
    BY <1>2, <1>3 DEF AnswersKnown
  <2>1. CASE a \in answers[c] BY <1>0, <1>4, <2>1 DEF AnswersKnown, ClientTypes
  <2>2. CASE a \notin answers[c] BY <1>1, <1>4, <2>2
  <2> QED BY <2>1, <2>2
<1>8. AwaitsKnown(c)' BY <1>2 DEF AwaitsKnown
<1>9. RestKept(c)' BY <1>0, <1>1, <1>2, <1>4 DEF RestKept
<1> QED BY <1>5, <1>6, <1>7, <1>8, <1>9 DEF Books

LEMMA BooksReleases ==
  ASSUME IInv, BInv, NEW c \in Clients, Releases(c)
  PROVE  Books(c)'
<1> USE DEF Releases, callVars, history
<1>1. UNCHANGED pools BY ClientStep DEF BInv, Exchanges
<1>2. pc'[c] # "getOne"
  BY DEF M!ReleaseStep, M!Releases, M!AllReleased, M!Goto, M!TypeOK, IInv
<1>3. /\ {} \in SUBSET rest[c] /\ rest'[c] = rest[c] \ {}
      /\ lost'[c] = lost[c] \cup ({} \cap Pools)
  OBVIOUS
<1> QED BY <1>1, <1>2, <1>3, GivesUp

LEMMA BooksWire ==
  ASSUME IInv, BInv, NEW g \in Pools, NEW s \in Conns,
         Handles(g, s) \/ Drops(g, s) \/ IdleCloses(g, s),
         NEW c \in Clients
  PROVE  Books(c)'
<1> USE DEF mangerVars, callVars, history
<1>0. WireTypes /\ AwaitsOn(c) /\ Books(c) /\ Within
  BY DEF IInv, Exchange, BInv
<1>1. UNCHANGED <<mangerVars, callVars, rest, awaits, answers, history>>
  BY DEF Handles, Drops, IdleCloses
<1>2. ASSUME NEW h \in Pools, awaits[c] = h
      PROVE  \/ wire'[h][lease[h][c]] = wire[h][lease[h][c]]
             \/ Empty(wire'[h][lease[h][c]])
             \/ Concerns(wire'[h][lease[h][c]], c, h)
  <2>1. h \in M!Mine(c)
    BY <1>0, <1>2, NetBusAssumption DEF NetBusAssumption, AwaitsOn
  <2>2. CASE h # g \/ lease[h][c] # s
    <3>1. \E w : wire' = [wire EXCEPT ![g][s] = w]
      BY DEF Handles, Drops, IdleCloses
    <3> QED BY <1>0, <2>2, <3>1 DEF WireTypes
  <2>3. CASE h = g /\ lease[h][c] = s
    <3>1. /\ Concerns(wire[g][s], c, g)
          /\ Empty(wire[g][s]) \/ Carries(wire[g][s], job[c].call)
      BY <1>0, <1>2, <2>1, <2>3, OwnWire DEF Books, AwaitsKnown
    <3>2. wire[g][s] \in Ends BY <1>0 DEF WireTypes
    <3>3. CASE IdleCloses(g, s)
      BY <1>0, <2>3, <3>3, ClosedEnds DEF IdleCloses, WireTypes
    <3>4. CASE Drops(g, s)
      <4>1. wire'[g][s].out = <<>> /\ wire'[g][s].in = wire[g][s].in
        BY <1>0, <3>2, <3>4 DEF Drops, WireTypes, Ends
      <4> QED BY <2>3, <3>1, <4>1 DEF Concerns, Empty
    <3>5. CASE Handles(g, s)
      <4> DEFINE asked == wire[g][s].out
                 q == Head(asked)
                 answer == [q EXCEPT !.ids = {u \in @ \cap Online : Home[u] = g}]
      <4>1. asked # <<>> /\ wire' = [wire EXCEPT ![g][s] =
              [wire[g][s] EXCEPT !.out = Tail(asked), !.in = Append(@, answer)]]
        BY <3>5 DEF Handles
      <4>2. Len(asked) = 1 /\ wire[g][s].in = <<>> /\ asked \in Seq(Messages)
        BY <3>1, <3>2, <4>1 DEF Empty, Carries, Ends
      <4>3. q \in Messages /\ q = asked[1] /\ Tail(asked) = <<>>
        BY <4>2, OnlyOne
      <4>4. asked[1].ids = Part(c, g) /\ g \notin lost[c]
        BY <3>1, <4>1 DEF Concerns, Empty
      <4>5. answer.ids = Due(c, g) BY <4>3, <4>4 DEF Due, Messages
      <4>6. Append(<<>>, answer) = <<answer>> /\ <<answer>>[1] = answer
        OBVIOUS
      <4> HIDE DEF answer
      <4>7. wire'[g][s].out = <<>> /\ wire'[g][s].in = <<answer>>
        BY <1>0, <3>2, <4>1, <4>2, <4>3, <4>6 DEF WireTypes, Ends
      <4> QED BY <2>3, <4>4, <4>5, <4>6, <4>7 DEF Concerns
    <3> QED BY <3>3, <3>4, <3>5
  <2> QED BY <2>2, <2>3
<1> QED BY <1>0, <1>1, <1>2, OthersKeep

LEMMA StepBInv == IInv /\ BInv /\ [Next]_vars => BInv'
<1> SUFFICES ASSUME IInv, BInv, [Next]_vars PROVE BInv'
  OBVIOUS
<1> USE DEF BInv
<1>1. ASSUME NEW c \in Clients, Calls(c) \/ Gets(c) \/ Exchanges(c) PROVE BInv'
  <2>1. BeginsSome(c) \/ Gets(c) \/ Exchanges(c) BY <1>1, CallsBegin
  <2>2. Books(c)'
    BY <2>1, BooksBegin, BooksGets, BooksSends, BooksReceives, BooksReleases
    DEF Exchanges
  <2>3. \A d \in Clients \ {c} : Books(d)' BY <2>1, OthersStep
  <2>4. Within' BY <2>1, ClientStep
  <2> QED BY <2>2, <2>3, <2>4
<1>2. ASSUME NEW g \in Pools, NEW s \in Conns,
             Handles(g, s) \/ Drops(g, s) \/ IdleCloses(g, s)
      PROVE  BInv'
  <2>1. Within'
    BY <1>2 DEF Handles, Drops, IdleCloses, mangerVars, history, Within, M!Mine
  <2> QED BY <1>2, <2>1, BooksWire
<1>3. CASE Close \/ UNCHANGED vars
  <2> USE <1>3 DEF Close, M!Close, vars, mangerVars, callVars, history
  <2>1. Within' BY DEF Within, M!Mine
  <2>2. pools' \in {pools, {}} OBVIOUS
  <2>3. ASSUME NEW d \in Clients PROVE Books(d)' BY <2>2, OthersKeep
  <2> QED BY <2>1, <2>3
<1> QED BY <1>1, <1>2, <1>3 DEF Next

LEMMA BooksAreKept == Spec => [](IInv /\ BInv)
<1>1. Init => BInv BY InitBInv
<1>2. IInv /\ BInv /\ [Next]_vars => BInv' BY StepBInv
<1> QED BY <1>1, <1>2, Invariance, PTL DEF Spec

-----------------------------------------------------------------------------
\* When a call returns, every id it was given was sent to the gateway it names,
\* unless that gateway could not be reached, and among several gateways to no
\* other: neither malformed ids and unknown gateways nor failures of other
\* gateways keep one from it.
THEOREM IdsReachTheirGateway == Spec => []EachToItsGateway
<1>1. IInv /\ BInv => EachToItsGateway
  <2> SUFFICES ASSUME IInv, BInv, NEW c \in Clients, Returned(c),
                      job[c].kind = "one" /\ job[c].query => sent[c] # {}
               PROVE  /\ \A u \in job[c].ids : Home[u] \in deployed \ lost[c] =>
                           <<Home[u], u>> \in sent[c]
                      /\ job[c].kind = "split" => \A x \in sent[c] : x[1] = Home[x[2]]
    BY DEF EachToItsGateway
  <2>1. Planned(c) /\ SentKnown(c) /\ rest[c] = {} /\ pools = deployed
    BY DEF BInv, Books, Returned, Done
  <2>2. ASSUME NEW u \in job[c].ids, Home[u] \in deployed \ lost[c]
        PROVE  <<Home[u], u>> \in sent[c]
    <3>1. CASE job[c].kind = "one" /\ job[c].query
      <4>1. PICK x \in sent[c] : TRUE BY <3>1
      <4>2. Home[u] = x[1] BY <2>1, <2>2, <3>1 DEF Planned, SentKnown
      <4>3. u \in Part(c, x[1]) BY <3>1 DEF Part
      <4> QED BY <2>1, <4>2, <4>3 DEF SentKnown
    <3>2. CASE ~(job[c].kind = "one" /\ job[c].query)
      BY <2>1, <2>2, <3>2 DEF Planned, Accounted
    <3> QED BY <3>1, <3>2
  <2>3. ASSUME job[c].kind = "split", NEW x \in sent[c] PROVE x[1] = Home[x[2]]
    BY <2>1, <2>3 DEF SentKnown, Part
  <2> QED BY <2>2, <2>3
<1> QED BY <1>1, BooksAreKept, PTL

\* When a query returns, the answers merged are exactly the ids it was asked
\* for that are online, less those of the gateways that did not answer.
THEOREM QueriesAreComplete == Spec => []QueryIsComplete
<1>1. IInv /\ BInv => QueryIsComplete
  <2> SUFFICES ASSUME IInv, BInv, NEW c \in Clients, Returned(c), job[c].query,
                      job[c].kind = "one" => sent[c] # {}
               PROVE  UNION {a[2].ids : a \in answers[c]} =
                        {u \in job[c].ids \cap Online : Home[u] \in deployed \ lost[c]}
    BY DEF QueryIsComplete
  <2>1. /\ Planned(c) /\ SentKnown(c) /\ AnswersKnown(c) /\ rest[c] = {}
        /\ pools = deployed /\ pc[c] = "idle"
    BY DEF BInv, Books, Returned, Done
  <2>2. awaits[c] = None BY <2>1 DEF IInv, Exchange, AwaitsOn
  <2>3. ASSUME NEW a \in answers[c], NEW u \in a[2].ids
        PROVE  u \in job[c].ids \cap Online /\ Home[u] \in deployed \ lost[c]
    BY <2>1, <2>3 DEF AnswersKnown, Due, Part
  <2>4. ASSUME NEW u \in job[c].ids \cap Online, Home[u] \in deployed \ lost[c]
        PROVE  \E a \in answers[c] : u \in a[2].ids
    <3>1. PICK x \in sent[c] : x[1] = Home[u]
      <4>1. CASE job[c].kind = "one"
        <5>1. PICK x \in sent[c] : TRUE BY <4>1
        <5> QED BY <2>1, <2>4, <4>1, <5>1 DEF Planned, SentKnown
      <4>2. CASE job[c].kind # "one"
        <5>1. <<Home[u], u>> \in sent[c]
          BY <2>1, <2>4, <4>2 DEF Planned, Accounted
        <5> QED BY <5>1
      <4> QED BY <4>1, <4>2
    <3>2. Home[u] # None
      BY <2>4, NetBusAssumption DEF NetBusAssumption, IInv, ClientTypes
    <3>3. PICK a \in answers[c] : a[1] = Home[u]
      BY <2>1, <2>2, <2>4, <3>1, <3>2 DEF SentKnown, Answered
    <3>4. u \in Due(c, Home[u]) BY <2>4 DEF Due, Part
    <3> QED BY <2>1, <3>3, <3>4 DEF AnswersKnown
  <2> QED BY <2>3, <2>4
<1> QED BY <1>1, BooksAreKept, PTL
=============================================================================
