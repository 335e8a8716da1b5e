---------------------------- MODULE NetBusProofs ---------------------------
(***************************************************************************)
(* Proofs about NetBus, for any number of clients, gateways, connections,  *)
(* ids and calls.                                                          *)
(***************************************************************************)
EXTENDS NetBus, SequenceTheorems, TLAPS

\* No connection is lent to two clients.
Exclusive ==
  \A g \in Pools, c, d \in Clients :
    c # d /\ lease[g][c] # None => lease[g][c] # lease[g][d]

\* A client that awaits an answer is exchanging, on a connection it has.
AwaitsOn(c) == awaits[c] # None => pc[c] = "using" /\ awaits[c] \in M!Mine(c)

Awaited(c, g, s) == awaits[c] = g /\ lease[g][c] = s

Empty(w) == w.out = <<>> /\ w.in = <<>>

\* Either the query of call n is in transit, or its answer is.
Carries(w, n) ==
  \/ Len(w.out) = 1 /\ w.out[1].call = n /\ w.in = <<>>
  \/ Len(w.in) = 1 /\ w.in[1].call = n /\ w.out = <<>>

\* Nothing is on a connection but what the client that has it waits for.
Clean(g, s) ==
  \/ Empty(wire[g][s])
  \/ \E c \in Clients : Awaited(c, g, s) /\ Carries(wire[g][s], job[c].call)

ClientTypes ==
  /\ calls \in Nat
  /\ job \in [Clients -> Jobs]
  /\ rest \in [Clients -> SUBSET (Pools \cup {None})]
  /\ awaits \in [Clients -> Pools \cup {None}]
  /\ answers \in [Clients -> SUBSET (Pools \X Messages)]
  /\ deployed \in SUBSET Pools
  /\ sent \in [Clients -> SUBSET (Pools \X UniqIds)]
  /\ lost \in [Clients -> SUBSET Pools]

Ends == [open : BOOLEAN, live : BOOLEAN, out : Seq(Messages), in : Seq(Messages)]
WireTypes == wire \in [Pools -> [Conns -> Ends]]

Exchange ==
  /\ \A c \in Clients : AwaitsOn(c)
  /\ \A g \in Pools, s \in Conns : Clean(g, s)
  /\ AnswerIsMine

\* What GetSockets collects connections of are gateways.
RestKnown == \A c \in Clients : pc[c] = "get" => rest[c] \in SUBSET Pools

IInv ==
  M!TypeOK /\ Exclusive /\ ClientTypes /\ RestKnown /\ WireTypes /\ Exchange

LEMMA TypeOKParts == IInv => TypeOK
BY DEF IInv, TypeOK, ClientTypes, WireTypes, Ends, Exchange, AwaitsOn

-----------------------------------------------------------------------------
LEMMA InitIInv == Init => IInv
<1> SUFFICES ASSUME Init PROVE IInv
  OBVIOUS
<1> USE NetBusAssumption DEF NetBusAssumption, Init
<1>1. M!TypeOK BY DEF M!TypeOK, M!ClientPC
<1>2. Exclusive BY DEF Exclusive
<1>3. ClientTypes
  <2>1. [kind |-> "all", query |-> FALSE, ids |-> {}, call |-> 0] \in Jobs
    BY DEF Jobs
  <2> QED BY <2>1 DEF ClientTypes
<1>4. WireTypes
  <2>1. <<>> \in Seq(Messages)
    OBVIOUS
  <2>2. Closed \in Ends BY <2>1 DEF Closed, Ends
  <2> QED BY <2>2 DEF WireTypes
<1>5. \A c \in Clients : AwaitsOn(c) BY DEF AwaitsOn
<1>6. \A g \in Pools, s \in Conns : Clean(g, s) BY DEF Clean, Empty, Closed
<1>7. AnswerIsMine BY DEF AnswerIsMine
<1> QED BY <1>1, <1>2, <1>3, <1>4, <1>5, <1>6, <1>7 DEF IInv, RestKnown, Exchange

\* A pool lends nothing that is lent.
LEMMA LendKeeps ==
  ASSUME M!TypeOK, Exclusive, NEW c \in Clients, NEW p \in Pools, M!Lend(c, p)
  PROVE  /\ lease' \in [Pools -> [Clients -> Conns \cup {None}]]
         /\ Exclusive'
         /\ \A q \in Pools, d \in Clients : d # c => lease'[q][d] = lease[q][d]
         /\ \A q \in Pools : q # p => lease'[q][c] = lease[q][c]
<1> PICK s \in Conns : /\ \A d \in Clients : lease[p][d] # s
                       /\ lease' = [lease EXCEPT ![p][c] = s]
  BY DEF M!Lend
<1>0. lease \in [Pools -> [Clients -> Conns \cup {None}]] BY DEF M!TypeOK
<1>1. lease' \in [Pools -> [Clients -> Conns \cup {None}]] BY <1>0
<1>2. \A q \in Pools, d \in Clients :
        lease'[q][d] = IF q = p /\ d = c THEN s ELSE lease[q][d]
  BY <1>0
<1>3. Exclusive' BY <1>2 DEF Exclusive
<1> QED BY <1>1, <1>2, <1>3

\* What GetSockets, GetSocket and Release leave alone.
LEMMA MangerStep ==
  ASSUME M!TypeOK, Exclusive, NEW c \in Clients,
         M!Calls(c) \/ M!GetStep(c) \/ M!ReleaseStep(c)
  PROVE  /\ M!TypeOK' /\ Exclusive' /\ pools' = pools
         /\ \A d \in Clients \ {c} :
              pc'[d] = pc[d] /\ \A q \in Pools : lease'[q][d] = lease[q][d]
<1> USE NetBusAssumption DEF NetBusAssumption, M!Goto
<1>1. CASE M!GetSocketsBegins(c)
  BY <1>1 DEF M!GetSocketsBegins, M!TypeOK, M!ClientPC, Exclusive
<1>2. CASE M!GetSocketBegins(c)
  BY <1>2 DEF M!GetSocketBegins, M!TypeOK, M!ClientPC, Exclusive
<1>3. CASE M!NextPool(c)
  BY <1>3 DEF M!NextPool, M!TypeOK, M!ClientPC, Exclusive
<1>4. CASE M!GetReturns(c)
  <2>1. want[c] \in Pools BY <1>4 DEF M!GetReturns, M!TypeOK
  <2> QED BY <1>4, <2>1, LendKeeps DEF M!GetReturns, M!TypeOK
<1>5. CASE M!GetFails(c)
  BY <1>5 DEF M!GetFails, M!TypeOK, M!ClientPC, Exclusive
<1>6. CASE M!GetSocketsReturns(c)
  BY <1>6 DEF M!GetSocketsReturns, M!TypeOK, M!ClientPC, Exclusive
<1>7. CASE M!GetSocketReturns(c)
  <2>1. want[c] \in Pools BY <1>7 DEF M!GetSocketReturns, M!TypeOK
  <2>2. CASE M!Lend(c, want[c]) /\ M!Goto(c, "using")
    BY <1>7, <2>1, <2>2, LendKeeps DEF M!GetSocketReturns, M!TypeOK, M!ClientPC
  <2>3. CASE UNCHANGED lease /\ M!Goto(c, "idle")
    BY <1>7, <2>3 DEF M!GetSocketReturns, M!TypeOK, M!ClientPC, Exclusive
  <2> QED BY <1>7, <2>2, <2>3 DEF M!GetSocketReturns
<1>8. CASE M!Releases(c)
  <2> PICK p \in Pools : lease' = [lease EXCEPT ![p][c] = None]
    BY <1>8 DEF M!Releases, M!GiveBack
  <2>1. \A q \in Pools, d \in Clients :
          lease'[q][d] = IF q = p /\ d = c THEN None ELSE lease[q][d]
    BY DEF M!TypeOK
  <2>2. Exclusive' BY <2>1 DEF Exclusive
  <2>3. M!TypeOK' BY <1>8 DEF M!Releases, M!TypeOK
  <2> QED BY <1>8, <2>1, <2>2, <2>3 DEF M!Releases
<1>9. CASE M!AllReleased(c)
  BY <1>9 DEF M!AllReleased, M!TypeOK, M!ClientPC, Exclusive
<1> QED
  BY <1>1, <1>2, <1>3, <1>4, <1>5, <1>6, <1>7, <1>8, <1>9
  DEF M!Calls, M!GetStep, M!ReleaseStep

\* A step of a client that awaits nothing, neither before nor after, disturbs
\* no exchange.
LEMMA NoExchange ==
  ASSUME IInv, NEW c \in Clients, awaits[c] = None, UNCHANGED awaits,
         \A d \in Clients \ {c} :
           /\ job'[d] = job[d] /\ answers'[d] = answers[d] /\ pc'[d] = pc[d]
           /\ \A q \in Pools : lease'[q][d] = lease[q][d],
         answers'[c] = {} \/ (answers'[c] = answers[c] /\ job'[c] = job[c]),
         \A g \in Pools, s \in Conns :
           wire'[g][s] = wire[g][s] \/ Empty(wire'[g][s])
  PROVE  Exchange'
<1>1. ASSUME NEW d \in Clients PROVE AwaitsOn(d)'
  <2>1. CASE d = c BY <2>1 DEF AwaitsOn
  <2>2. CASE d # c
    BY <2>2 DEF IInv, Exchange, AwaitsOn, M!Mine
  <2> QED BY <2>1, <2>2
<1>2. ASSUME NEW g \in Pools, NEW s \in Conns PROVE Clean(g, s)'
  <2>1. CASE Empty(wire'[g][s]) BY <2>1 DEF Clean, Empty
  <2>2. CASE wire'[g][s] = wire[g][s] /\ ~Empty(wire[g][s])
    <3>1. PICK d \in Clients : Awaited(d, g, s) /\ Carries(wire[g][s], job[d].call)
      BY <2>2 DEF IInv, Exchange, Clean
    <3>2. d # c BY <3>1, NetBusAssumption DEF NetBusAssumption, Awaited
    <3>3. Awaited(d, g, s)' BY <3>1, <3>2 DEF Awaited
    <3>4. Carries(wire[g][s], job[d].call)' BY <3>1, <3>2, <2>2 DEF Carries
    <3> QED BY <3>3, <3>4 DEF Clean
  <2> QED BY <2>1, <2>2 DEF Empty
<1>3. AnswerIsMine'
  <2> SUFFICES ASSUME NEW d \in Clients, NEW a \in answers'[d]
               PROVE  a[2].call = job'[d].call
    BY DEF AnswerIsMine
  <2> QED BY DEF IInv, Exchange, AnswerIsMine
<1> QED BY <1>1, <1>2, <1>3 DEF Exchange

-----------------------------------------------------------------------------
\* What all calls begin with.
BeginsSome(c) ==
  \E kind \in {"all", "one", "split"}, query \in BOOLEAN, ids \in SUBSET UniqIds,
     gateways \in SUBSET (Pools \cup {None}) :
    /\ Begins(c, kind, query, ids, gateways)
    /\ \/ M!GetSocketsBegins(c) /\ gateways = pools
       \/ UNCHANGED mangerVars
    /\ kind = "one" /\ query => SinglePoint \/ ids = {}
    /\ (kind = "one" /\ query) \/ \A u \in ids : Home[u] \in pools => Home[u] \in gateways

LEMMA CallsBegin ==
  ASSUME IInv, NEW c \in Clients, Calls(c)
  PROVE  BeginsSome(c)
<1>1. \A u \in UniqIds : Home[u] \in Pools \cup {None}
  BY NetBusAssumption DEF NetBusAssumption
<1>2. pools \in SUBSET (Pools \cup {None}) BY DEF IInv, M!TypeOK
<1>3. ASSUME NEW query \in BOOLEAN, NEW ids \in SUBSET UniqIds, CallsAll(c, query, ids)
      PROVE  BeginsSome(c)
  BY <1>2, <1>3 DEF CallsAll, BeginsSome
<1>4. ASSUME NEW query \in BOOLEAN, NEW ids \in SUBSET UniqIds,
             NEW g \in Pools \cup {None}, CallsOne(c, query, ids, g),
             query => SinglePoint \/ ids = {},
             query \/ \A u \in ids : Home[u] = g
      PROVE  BeginsSome(c)
  <2>1. {g} \in SUBSET (Pools \cup {None}) OBVIOUS
  <2> QED BY <1>4, <2>1 DEF CallsOne, BeginsSome
<1>5. ASSUME NEW query \in BOOLEAN, NEW ids \in SUBSET UniqIds, CallsSplit(c, query, ids)
      PROVE  BeginsSome(c)
  <2>1. {Home[u] : u \in ids} \in SUBSET (Pools \cup {None}) BY <1>1
  <2> QED BY <1>5, <2>1 DEF CallsSplit, BeginsSome
<1>6. CASE SendsToAll(c)
  <2>1. UniqIds \in SUBSET UniqIds OBVIOUS
  <2> QED BY <1>6, <2>1, <1>3 DEF SendsToAll
<1>7. CASE QueriesAll(c)
  <2>1. UniqIds \in SUBSET UniqIds OBVIOUS
  <2> QED BY <1>7, <2>1, <1>3 DEF QueriesAll
<1>8. CASE SendsByUniqId(c) BY <1>8, <1>3, <1>5 DEF SendsByUniqId
<1>9. CASE QueriesByUniqId(c)
  <2> PICK ids \in SUBSET UniqIds :
        \/ SinglePoint /\ \E first \in ids : CallsOne(c, TRUE, ids, Home[first])
        \/ CallsSplit(c, TRUE, ids)
    BY <1>9 DEF QueriesByUniqId
  <2> QED BY <1>1, <1>4, <1>5
<1>10. CASE SendsToUniqId(c)
  <2> PICK u \in UniqIds : CallsOne(c, FALSE, {u}, Home[u])
    BY <1>10 DEF SendsToUniqId
  <2>1. {u} \in SUBSET UniqIds OBVIOUS
  <2> QED BY <1>1, <1>4, <2>1
<1>11. CASE Limits(c)
  <2> PICK g \in Pools : CallsOne(c, TRUE, {}, g)
    BY <1>11 DEF Limits
  <2>1. {} \in SUBSET UniqIds OBVIOUS
  <2> QED BY <1>4, <2>1
<1> QED BY <1>6, <1>7, <1>8, <1>9, <1>10, <1>11 DEF Calls

LEMMA StepCalls ==
  ASSUME IInv, NEW c \in Clients, BeginsSome(c)
  PROVE  IInv'
<1> PICK kind \in {"all", "one", "split"}, query \in BOOLEAN, ids \in SUBSET UniqIds,
         gateways \in SUBSET (Pools \cup {None}) :
      /\ Begins(c, kind, query, ids, gateways)
      /\ \/ M!GetSocketsBegins(c) /\ gateways = pools
         \/ UNCHANGED mangerVars
  BY DEF BeginsSome
<1> USE DEF Begins
<1>0. M!TypeOK /\ Exclusive /\ ClientTypes /\ WireTypes BY DEF IInv
<1>1. /\ M!TypeOK' /\ Exclusive'
      /\ \A d \in Clients \ {c} :
           pc'[d] = pc[d] /\ \A q \in Pools : lease'[q][d] = lease[q][d]
  <2>1. CASE M!GetSocketsBegins(c) BY <1>0, <2>1, MangerStep DEF M!Calls
  <2>2. CASE UNCHANGED mangerVars
    BY <1>0, <2>2 DEF mangerVars, M!TypeOK, Exclusive
  <2> QED BY <2>1, <2>2
<1>2. ClientTypes'
  <2>1. calls' \in Nat BY <1>0 DEF ClientTypes
  <2>2. [kind |-> kind, query |-> query, ids |-> ids, call |-> calls'] \in Jobs
    BY <2>1 DEF Jobs
  <2>3. job' \in [Clients -> Jobs] BY <1>0, <2>2 DEF ClientTypes
  <2>4. rest' \in [Clients -> SUBSET (Pools \cup {None})] BY <1>0 DEF ClientTypes
  <2>5. /\ answers' \in [Clients -> SUBSET (Pools \X Messages)]
        /\ sent' \in [Clients -> SUBSET (Pools \X UniqIds)]
        /\ lost' \in [Clients -> SUBSET Pools]
        /\ awaits' \in [Clients -> Pools \cup {None}] /\ deployed' \in SUBSET Pools
    BY <1>0 DEF ClientTypes
  <2> QED BY <2>1, <2>3, <2>4, <2>5 DEF ClientTypes
<1>3. WireTypes' BY <1>0 DEF WireTypes
<1>4. Exchange'
  <2>1. awaits[c] = None BY DEF Done, IInv, Exchange, AwaitsOn
  <2> QED BY <1>0, <1>1, <2>1, NoExchange DEF ClientTypes
<1>5. RestKnown'
  <2> SUFFICES ASSUME NEW d \in Clients, pc'[d] = "get" PROVE rest'[d] \in SUBSET Pools
    BY DEF RestKnown
  <2>1. CASE d # c
    BY <1>0, <1>1, <2>1 DEF IInv, RestKnown, ClientTypes
  <2>2. CASE d = c
    <3>1. pc[c] = "idle" BY DEF Done
    <3>2. gateways = pools BY <2>2, <3>1 DEF mangerVars
    <3> QED BY <1>0, <2>2, <3>2 DEF ClientTypes, M!TypeOK
  <2> QED BY <2>1, <2>2
<1> QED BY <1>1, <1>2, <1>3, <1>4, <1>5 DEF IInv

LEMMA StepGets ==
  ASSUME IInv, NEW c \in Clients, Gets(c)
  PROVE  IInv'
<1> USE DEF mangerVars, callVars, history
<1>0. M!TypeOK /\ Exclusive /\ ClientTypes /\ WireTypes BY DEF IInv
<1>1. awaits[c] = None
  BY DEF IInv, Exchange, AwaitsOn, Gets, GetsConnections, GetSocketsFails, AsksGroup,
     SkipsGroup, GetSocketFails, M!NextPool, M!GetReturns, M!GetSocketsReturns,
     M!GetSocketReturns, M!GetFails
<1>2. /\ M!TypeOK' /\ Exclusive'
      /\ \A d \in Clients \ {c} :
           pc'[d] = pc[d] /\ \A q \in Pools : lease'[q][d] = lease[q][d]
  <2>1. CASE M!Calls(c) \/ M!GetStep(c) \/ M!ReleaseStep(c)
    BY <1>0, <2>1, MangerStep
  <2>2. CASE UNCHANGED mangerVars
    BY <1>0, <2>2 DEF M!TypeOK, Exclusive
  <2> QED
    BY <2>1, <2>2 DEF Gets, GetsConnections, GetSocketsFails, AsksGroup, SkipsGroup,
       GetSocketFails, M!Calls, M!GetStep
<1>3. /\ UNCHANGED <<callVars, awaits, answers, deployed, sent>>
      /\ rest' \in [Clients -> SUBSET (Pools \cup {None})]
      /\ lost' \in [Clients -> SUBSET Pools]
  <2>1. CASE GetsConnections(c) \/ AsksGroup(c)
    BY <1>0, <2>1 DEF GetsConnections, AsksGroup, ClientTypes
  <2>2. CASE GetSocketsFails(c)
    <3>1. rest[c] \in SUBSET Pools
      BY <2>2 DEF GetSocketsFails, M!GetFails, IInv, RestKnown
    <3> QED BY <1>0, <2>2, <3>1 DEF GetSocketsFails, ClientTypes
  <2>3. CASE SkipsGroup(c)
    BY <1>0, <2>3 DEF SkipsGroup, ClientTypes
  <2>4. CASE GetSocketFails(c)
    <3>1. want[c] \in Pools
      BY <1>0, <2>4 DEF GetSocketFails, M!GetSocketReturns, M!TypeOK
    <3> QED BY <1>0, <2>4, <3>1 DEF GetSocketFails, ClientTypes
  <2> QED BY <2>1, <2>2, <2>3, <2>4 DEF Gets
<1>4. /\ WireTypes'
      /\ \A g \in Pools, s \in Conns : wire'[g][s] = wire[g][s] \/ Empty(wire'[g][s])
  <2>1. CASE Opens(c)
    <3>1. <<>> \in Seq(Messages) OBVIOUS
    <3>2. Fresh \in Ends /\ Empty(Fresh) BY <3>1 DEF Fresh, Ends, Empty
    <3> QED BY <1>0, <2>1, <3>2 DEF Opens, WireTypes
  <2>2. CASE UNCHANGED wire BY <1>0, <2>2 DEF WireTypes
  <2> QED
    BY <2>1, <2>2 DEF Gets, GetsConnections, GetSocketsFails, AsksGroup, SkipsGroup,
       GetSocketFails
<1>5. ClientTypes' BY <1>0, <1>3 DEF ClientTypes
<1>6. Exchange' BY <1>1, <1>2, <1>3, <1>4, NoExchange
<1>7. RestKnown'
  <2>1. \A d \in Clients : rest'[d] \subseteq rest[d]
    BY <1>0 DEF Gets, GetsConnections, GetSocketsFails, AsksGroup, SkipsGroup,
       GetSocketFails, ClientTypes
  <2>2. pc'[c] = "get" => pc[c] = "get"
    BY <1>0 DEF Gets, GetsConnections, GetSocketsFails, AsksGroup, SkipsGroup,
       GetSocketFails, M!TypeOK, M!Goto, M!NextPool, M!GetReturns, M!GetFails,
       M!GetSocketsReturns, M!GetSocketReturns, M!GetSocketBegins
  <2> QED BY <1>2, <2>1, <2>2 DEF IInv, RestKnown
<1> QED BY <1>2, <1>4, <1>5, <1>6, <1>7 DEF IInv

-----------------------------------------------------------------------------
LEMMA OnlyOne ==
  ASSUME NEW S, NEW seq \in Seq(S), Len(seq) = 1
  PROVE  /\ seq # <<>> /\ Tail(seq) = <<>> /\ <<>> \in Seq(S)
         /\ Head(seq) = seq[1] /\ seq[1] \in S
<1>1. seq # <<>> /\ <<>> \in Seq(S) BY EmptySeq
<1>2. Tail(seq) \in Seq(S) /\ Len(Tail(seq)) = 0 BY <1>1, HeadTailProperties
<1>3. Tail(seq) = <<>> BY <1>2, EmptySeq
<1>4. Head(seq) = seq[1] /\ seq[1] \in S BY <1>1, HeadTailProperties
<1> QED BY <1>1, <1>3, <1>4

\* What is on a connection that a client has concerns that client only.
LEMMA OwnWire ==
  ASSUME IInv, NEW c \in Clients, NEW g \in M!Mine(c)
  PROVE  /\ g \in Pools /\ lease[g][c] \in Conns
         /\ \A d \in Clients : Awaited(d, g, lease[g][c]) => d = c
         /\ awaits[c] = None => Empty(wire[g][lease[g][c]])
         /\ \/ Empty(wire[g][lease[g][c]])
            \/ Carries(wire[g][lease[g][c]], job[c].call)
<1>1. g \in Pools /\ lease[g][c] \in Conns /\ lease[g][c] # None /\ g # None
  BY NetBusAssumption DEF NetBusAssumption, IInv, M!TypeOK, M!Mine
<1>2. \A d \in Clients : Awaited(d, g, lease[g][c]) => d = c
  BY <1>1 DEF IInv, Exclusive, Awaited
<1>3. Clean(g, lease[g][c]) BY <1>1 DEF IInv, Exchange
<1> QED BY <1>1, <1>2, <1>3 DEF Clean, Awaited

\* A step of an exchange of client c with gateway g.
LEMMA OneExchange ==
  ASSUME IInv, NEW c \in Clients, NEW g \in M!Mine(c), pc[c] = "using",
         awaits[c] \in {None, g}, awaits'[c] \in {None, g},
         \A d \in Clients \ {c} : awaits'[d] = awaits[d],
         UNCHANGED <<mangerVars, callVars>>,
         \A h \in Pools, t \in Conns :
           ~(h = g /\ t = lease[g][c]) => wire'[h][t] = wire[h][t],
         \/ Empty(wire'[g][lease[g][c]])
         \/ awaits'[c] = g /\ Carries(wire'[g][lease[g][c]], job[c].call),
         AnswerIsMine'
  PROVE  Exchange' /\ M!TypeOK' /\ Exclusive'
<1> USE DEF mangerVars, callVars
<1>1. ASSUME NEW d \in Clients PROVE AwaitsOn(d)'
  <2>1. M!Mine(d)' = M!Mine(d) BY DEF M!Mine
  <2>2. CASE d = c BY <2>1, <2>2 DEF AwaitsOn
  <2>3. CASE d # c BY <2>1, <2>3 DEF IInv, Exchange, AwaitsOn
  <2> QED BY <2>2, <2>3
<1>2. ASSUME NEW h \in Pools, NEW t \in Conns PROVE Clean(h, t)'
  <2>1. CASE h = g /\ t = lease[g][c]
    <3>1. CASE Empty(wire'[g][lease[g][c]]) BY <2>1, <3>1 DEF Clean, Empty
    <3>2. CASE awaits'[c] = g /\ Carries(wire'[g][lease[g][c]], job[c].call)
      BY <2>1, <3>2 DEF Clean, Carries, Awaited
    <3> QED BY <3>1, <3>2
  <2>2. CASE wire'[h][t] = wire[h][t] /\ ~(h = g /\ t = lease[g][c])
    <3>1. CASE Empty(wire[h][t]) BY <2>2, <3>1 DEF Clean, Empty
    <3>2. CASE ~Empty(wire[h][t])
      <4>1. PICK d \in Clients : Awaited(d, h, t) /\ Carries(wire[h][t], job[d].call)
        BY <3>2 DEF IInv, Exchange, Clean
      <4>2. d # c BY <4>1, <2>2, NetBusAssumption DEF NetBusAssumption, Awaited
      <4> QED BY <2>2, <4>1, <4>2 DEF Clean, Awaited, Carries
    <3> QED BY <3>1, <3>2
  <2> QED BY <2>1, <2>2
<1>3. M!TypeOK' /\ Exclusive' BY DEF IInv, M!TypeOK, Exclusive
<1> QED BY <1>1, <1>2, <1>3 DEF Exchange

LEMMA ClosedEnds == Closed \in Ends /\ Empty(Closed)
<1>1. <<>> \in Seq(Messages) OBVIOUS
<1> QED BY <1>1 DEF Closed, Ends, Empty

LEMMA StepSends ==
  ASSUME IInv, NEW c \in Clients, SendWrites(c) \/ SendTimesOut(c) \/ SendBreaks(c)
  PROVE  IInv'
<1> USE DEF mangerVars, callVars
<1>0. M!TypeOK /\ Exclusive /\ ClientTypes /\ WireTypes /\ AnswerIsMine
  BY DEF IInv, Exchange
<1> DEFINE Query(g) == [call |-> job[c].call, ids |-> Part(c, g)]
           Writes(g) == /\ wire' =
                             IF job[c].query /\ wire[g][lease[g][c]].live
                             THEN [wire EXCEPT ![g][lease[g][c]].out =
                                     Append(@, Query(g))]
                             ELSE wire
                        /\ sent' = [sent EXCEPT ![c] = @ \cup ({g} \X Part(c, g))]
                        /\ UNCHANGED lost
           Fails(g) == /\ wire' = wire \/ wire' = [wire EXCEPT ![g][lease[g][c]] = Closed]
                       /\ lost' = [lost EXCEPT ![c] = @ \cup {g}]
                       /\ UNCHANGED sent
<1> PICK g \in Pools : SendsTo(c, g) /\ (Writes(g) \/ Fails(g))
  BY DEF SendWrites, SendTimesOut, SendBreaks
<1> DEFINE s == lease[g][c]
<1>1. /\ g \in M!Mine(c) /\ pc[c] = "using" /\ awaits[c] = None
      /\ UNCHANGED <<mangerVars, callVars, answers, deployed>>
  BY DEF SendsTo
<1>2. s \in Conns /\ Empty(wire[g][s]) BY <1>1, OwnWire
<1>3. /\ awaits'[c] = IF job[c].query THEN g ELSE None
      /\ \A d \in Clients \ {c} : awaits'[d] = awaits[d]
      /\ \A d \in Clients : rest'[d] \subseteq rest[d]
  BY <1>0 DEF SendsTo, ClientTypes
<1>4. Part(c, g) \in SUBSET UniqIds /\ job[c].call \in Nat /\ job[c].query \in BOOLEAN
  BY <1>0 DEF Part, ClientTypes, Jobs
<1>5. Query(g) \in Messages BY <1>4 DEF Messages
<1>6. ClientTypes'
  <2>1. /\ calls' \in Nat /\ job' \in [Clients -> Jobs]
        /\ answers' \in [Clients -> SUBSET (Pools \X Messages)]
        /\ deployed' \in SUBSET Pools
    BY <1>0, <1>1 DEF ClientTypes
  <2>2. /\ rest' \in [Clients -> SUBSET (Pools \cup {None})]
        /\ awaits' \in [Clients -> Pools \cup {None}]
    BY <1>0 DEF SendsTo, ClientTypes
  <2>3. sent' \in [Clients -> SUBSET (Pools \X UniqIds)]
    BY <1>0, <1>4 DEF ClientTypes
  <2>4. lost' \in [Clients -> SUBSET Pools]
    BY <1>0 DEF ClientTypes
  <2> QED BY <2>1, <2>2, <2>3, <2>4 DEF ClientTypes
<1>7. /\ WireTypes'
      /\ \A h \in Pools, t \in Conns : ~(h = g /\ t = s) => wire'[h][t] = wire[h][t]
      /\ \/ Empty(wire'[g][s])
         \/ awaits'[c] = g /\ Carries(wire'[g][s], job[c].call)
  <2>1. CASE wire' = wire BY <1>0, <1>2, <2>1 DEF WireTypes
  <2>2. CASE wire' = [wire EXCEPT ![g][s] = Closed]
    BY <1>0, <1>2, <2>2, ClosedEnds DEF WireTypes
  <2>3. CASE job[c].query /\ wire' = [wire EXCEPT ![g][s].out = Append(@, Query(g))]
    <3>1. wire[g][s].out = <<>> /\ wire[g][s].in = <<>> BY <1>2 DEF Empty
    <3>2. Append(<<>>, Query(g)) = <<Query(g)>> /\ <<Query(g)>> \in Seq(Messages)
      BY <1>5
    <3>3. wire[g][s] \in Ends BY <1>0, <1>2 DEF WireTypes
    <3>4. [wire[g][s] EXCEPT !.out = <<Query(g)>>] \in Ends BY <3>2, <3>3 DEF Ends
    <3>5. wire' = [wire EXCEPT ![g][s] = [wire[g][s] EXCEPT !.out = <<Query(g)>>]]
      BY <1>0, <1>2, <2>3, <3>1, <3>2 DEF WireTypes
    <3>6. WireTypes' /\ wire'[g][s] = [wire[g][s] EXCEPT !.out = <<Query(g)>>]
      BY <1>0, <1>2, <3>4, <3>5 DEF WireTypes
    <3>7. Carries(wire'[g][s], job[c].call)
      <4>1. wire'[g][s].out = <<Query(g)>> /\ wire'[g][s].in = <<>>
        BY <3>1, <3>3, <3>6 DEF Ends
      <4>2. Len(<<Query(g)>>) = 1 /\ <<Query(g)>>[1] = Query(g) OBVIOUS
      <4>3. Query(g).call = job[c].call OBVIOUS
      <4> QED BY <4>1, <4>2, <4>3 DEF Carries
    <3>8. \A h \in Pools, t \in Conns : ~(h = g /\ t = s) => wire'[h][t] = wire[h][t]
      BY <1>0, <3>5 DEF WireTypes
    <3>9. awaits'[c] = g BY <1>3, <2>3
    <3> HIDE DEF s
    <3> QED BY <3>6, <3>7, <3>8, <3>9
  <2> QED BY <2>1, <2>2, <2>3
<1>8. AnswerIsMine' BY <1>0, <1>1 DEF AnswerIsMine
<1>9. Exchange' /\ M!TypeOK' /\ Exclusive'
  BY <1>1, <1>3, <1>7, <1>8, OneExchange
<1>10. RestKnown' BY <1>1, <1>3 DEF IInv, RestKnown
<1> QED BY <1>6, <1>7, <1>9, <1>10 DEF IInv

LEMMA StepReceives ==
  ASSUME IInv, NEW c \in Clients, Receives(c) \/ ReceiveFails(c)
  PROVE  IInv'
<1> USE DEF mangerVars, callVars, history
<1>0. /\ M!TypeOK /\ Exclusive /\ ClientTypes /\ WireTypes /\ RestKnown
      /\ AwaitsOn(c) /\ AnswerIsMine
  BY DEF IInv, Exchange
<1> PICK g \in Pools : awaits[c] = g
  BY DEF Receives, ReceiveFails
<1> DEFINE s == lease[g][c]
<1>1. g \in M!Mine(c) /\ pc[c] = "using"
  BY <1>0, NetBusAssumption DEF NetBusAssumption, AwaitsOn
<1>2. /\ s \in Conns
      /\ Empty(wire[g][s]) \/ Carries(wire[g][s], job[c].call)
  BY <1>1, OwnWire
<1>3. /\ awaits' = [awaits EXCEPT ![c] = None]
      /\ UNCHANGED <<mangerVars, callVars, rest, deployed, sent>>
  BY DEF Receives, ReceiveFails
<1>4. /\ WireTypes' /\ Empty(wire'[g][s])
      /\ \A h \in Pools, t \in Conns : ~(h = g /\ t = s) => wire'[h][t] = wire[h][t]
      /\ lost' \in [Clients -> SUBSET Pools]
      /\ answers' \in [Clients -> SUBSET (Pools \X Messages)]
      /\ AnswerIsMine'
  <2>1. CASE ReceiveFails(c)
    <3>1. wire' = [wire EXCEPT ![g][s] = Closed] /\ UNCHANGED answers
      BY <2>1, NetBusAssumption DEF ReceiveFails, NetBusAssumption
    <3>2. WireTypes' /\ wire'[g][s] = Closed
      BY <1>0, <1>2, <3>1, ClosedEnds DEF WireTypes
    <3>3. \A h \in Pools, t \in Conns : ~(h = g /\ t = s) => wire'[h][t] = wire[h][t]
      BY <1>0, <3>1 DEF WireTypes
    <3>4. lost' \in [Clients -> SUBSET Pools]
      BY <1>0, <2>1 DEF ReceiveFails, ClientTypes
    <3>5. answers' \in [Clients -> SUBSET (Pools \X Messages)] /\ AnswerIsMine'
      BY <1>0, <1>3, <3>1 DEF ClientTypes, AnswerIsMine
    <3> QED BY <3>2, <3>3, <3>4, <3>5, ClosedEnds
  <2>2. CASE Receives(c)
    <3>1. /\ wire[g][s].in # <<>>
          /\ wire' = [wire EXCEPT ![g][s].in = Tail(@)]
          /\ answers' = [answers EXCEPT ![c] = @ \cup {<<g, Head(wire[g][s].in)>>}]
          /\ UNCHANGED lost
      BY <2>2 DEF Receives
    <3>2. wire[g][s] \in Ends BY <1>0, <1>2 DEF WireTypes
    <3> DEFINE arrived == wire[g][s].in
    <3>3. arrived \in Seq(Messages) BY <3>2 DEF Ends
    <3>4. Len(arrived) = 1 /\ arrived[1].call = job[c].call /\ wire[g][s].out = <<>>
      BY <1>2, <3>1 DEF Empty, Carries
    <3>5. /\ Tail(arrived) = <<>> /\ <<>> \in Seq(Messages)
          /\ Head(arrived) = arrived[1] /\ arrived[1] \in Messages
      BY <3>1, <3>3, <3>4, OnlyOne
    <3>6. wire' = [wire EXCEPT ![g][s] = [wire[g][s] EXCEPT !.in = <<>>]]
      BY <1>0, <1>2, <3>1, <3>5 DEF WireTypes
    <3>7. [wire[g][s] EXCEPT !.in = <<>>] \in Ends BY <3>2, <3>5 DEF Ends
    <3>8. /\ WireTypes' /\ wire'[g][s] = [wire[g][s] EXCEPT !.in = <<>>]
          /\ \A h \in Pools, t \in Conns :
               ~(h = g /\ t = s) => wire'[h][t] = wire[h][t]
      BY <1>0, <1>2, <3>6, <3>7 DEF WireTypes
    <3>9. Empty(wire'[g][s]) BY <3>2, <3>4, <3>8 DEF Empty, Ends
    <3>10. lost' \in [Clients -> SUBSET Pools] BY <1>0, <3>1 DEF ClientTypes
    <3>11. answers' \in [Clients -> SUBSET (Pools \X Messages)]
      BY <1>0, <3>1, <3>5 DEF ClientTypes
    <3>12. AnswerIsMine'
      <4> SUFFICES ASSUME NEW d \in Clients, NEW a \in answers'[d]
                   PROVE  a[2].call = job[d].call
        BY <1>3 DEF AnswerIsMine
      <4>1. a \in answers[d] \/ (d = c /\ a = <<g, arrived[1]>>)
        BY <1>0, <3>1, <3>5 DEF ClientTypes
      <4> QED BY <1>0, <3>4, <4>1 DEF AnswerIsMine
    <3> QED BY <3>8, <3>9, <3>10, <3>11, <3>12
  <2> QED BY <2>1, <2>2
<1>5. awaits' \in [Clients -> Pools \cup {None}] BY <1>0, <1>3 DEF ClientTypes
<1>6. ClientTypes' BY <1>0, <1>3, <1>4, <1>5 DEF ClientTypes
<1>7. awaits'[c] = None /\ \A d \in Clients \ {c} : awaits'[d] = awaits[d]
  BY <1>0, <1>3 DEF ClientTypes
<1>8. Exchange' /\ M!TypeOK' /\ Exclusive'
  BY <1>1, <1>3, <1>4, <1>7, OneExchange
<1>9. RestKnown' BY <1>0, <1>3 DEF RestKnown
<1> QED BY <1>4, <1>6, <1>8, <1>9 DEF IInv

LEMMA StepReleases ==
  ASSUME IInv, NEW c \in Clients, Releases(c)
  PROVE  IInv'
<1> USE DEF callVars, history, Releases
<1>0. M!TypeOK /\ Exclusive /\ ClientTypes /\ WireTypes /\ RestKnown
  BY DEF IInv
<1>1. /\ M!TypeOK' /\ Exclusive'
      /\ \A d \in Clients \ {c} :
           pc'[d] = pc[d] /\ \A q \in Pools : lease'[q][d] = lease[q][d]
  BY <1>0, MangerStep
<1>2. ClientTypes' BY <1>0 DEF ClientTypes
<1>3. WireTypes' BY <1>0 DEF WireTypes
<1>4. Exchange' BY <1>1, NoExchange
<1>5. pc'[c] # "get"
  BY <1>0 DEF M!ReleaseStep, M!Releases, M!AllReleased, M!Goto, M!TypeOK
<1>6. RestKnown' BY <1>0, <1>1, <1>5 DEF RestKnown
<1> QED BY <1>1, <1>2, <1>3, <1>4, <1>6 DEF IInv

LEMMA StepWire ==
  ASSUME IInv, NEW g \in Pools, NEW s \in Conns,
         Handles(g, s) \/ Drops(g, s) \/ IdleCloses(g, s)
  PROVE  IInv'
<1> USE DEF mangerVars, callVars, history
<1>0. /\ M!TypeOK /\ Exclusive /\ ClientTypes /\ WireTypes /\ RestKnown
      /\ Clean(g, s)
  BY DEF IInv, Exchange
<1>1. UNCHANGED <<mangerVars, callVars, rest, awaits, answers, history>>
  BY DEF Handles, Drops, IdleCloses
<1>2. wire[g][s] \in Ends BY <1>0 DEF WireTypes
<1>3. \E w \in Ends :
        /\ wire' = [wire EXCEPT ![g][s] = w]
        /\ \/ Empty(w)
           \/ \E c \in Clients : Awaited(c, g, s) /\ Carries(w, job[c].call)
  <2>1. CASE IdleCloses(g, s) BY <2>1, ClosedEnds DEF IdleCloses
  <2>2. CASE Drops(g, s)
    <3> DEFINE w == [wire[g][s] EXCEPT !.live = FALSE, !.out = <<>>]
    <3>1. wire' = [wire EXCEPT ![g][s] = w] BY <1>0, <2>2 DEF Drops, WireTypes
    <3>2. <<>> \in Seq(Messages) OBVIOUS
    <3>3. w \in Ends /\ w.out = <<>> /\ w.in = wire[g][s].in BY <1>2, <3>2 DEF Ends
    <3>4. \A n : Carries(wire[g][s], n) => Empty(w) \/ Carries(w, n)
      BY <3>3 DEF Carries, Empty
    <3>5. Empty(wire[g][s]) => Empty(w) BY <3>3 DEF Empty
    <3> QED BY <1>0, <3>1, <3>3, <3>4, <3>5 DEF Clean
  <2>3. CASE Handles(g, s)
    <3> DEFINE asked == wire[g][s].out
               q == Head(asked)
               answer == [q EXCEPT !.ids = {u \in @ \cap Online : Home[u] = g}]
               w == [wire[g][s] EXCEPT !.out = Tail(@), !.in = Append(@, answer)]
    <3>1. asked # <<>> /\ wire' = [wire EXCEPT ![g][s] = w] BY <2>3 DEF Handles
    <3>2. PICK c \in Clients : /\ Awaited(c, g, s) /\ Len(asked) = 1
                               /\ asked[1].call = job[c].call /\ wire[g][s].in = <<>>
      BY <1>0, <3>1 DEF Clean, Empty, Carries
    <3>3. asked \in Seq(Messages) BY <1>2 DEF Ends
    <3>4. q \in Messages /\ Tail(asked) = <<>> /\ <<>> \in Seq(Messages) /\ q = asked[1]
      BY <3>2, <3>3, OnlyOne
    <3>5. answer \in Messages /\ answer.call = q.call BY <3>4 DEF Messages
    <3>6. /\ Append(<<>>, answer) = <<answer>> /\ <<answer>> \in Seq(Messages)
          /\ Len(<<answer>>) = 1 /\ <<answer>>[1] = answer
      BY <3>5
    <3>7. w.out = <<>> /\ w.in = <<answer>> /\ w \in Ends
      BY <1>2, <3>2, <3>4, <3>6 DEF Ends
    <3>8. Carries(w, job[c].call) BY <3>2, <3>4, <3>5, <3>6, <3>7 DEF Carries
    <3> QED BY <3>1, <3>2, <3>7, <3>8
  <2> QED BY <2>1, <2>2, <2>3
<1> PICK w \in Ends : /\ wire' = [wire EXCEPT ![g][s] = w]
                      /\ \/ Empty(w)
                         \/ \E c \in Clients : Awaited(c, g, s) /\ Carries(w, job[c].call)
  BY <1>3
<1>4. WireTypes' BY <1>0 DEF WireTypes
<1>5. ASSUME NEW h \in Pools, NEW t \in Conns PROVE Clean(h, t)'
  <2>1. CASE h = g /\ t = s
    <3>1. wire'[h][t] = w BY <1>0, <2>1 DEF WireTypes
    <3> QED BY <1>1, <2>1, <3>1 DEF Clean, Empty, Awaited, Carries
  <2>2. CASE ~(h = g /\ t = s)
    <3>1. wire'[h][t] = wire[h][t] BY <1>0, <2>2 DEF WireTypes
    <3>2. Clean(h, t) BY DEF IInv, Exchange
    <3> QED BY <1>1, <3>1, <3>2 DEF Clean, Empty, Awaited, Carries
  <2> QED BY <2>1, <2>2
<1>6. M!TypeOK' /\ Exclusive' /\ ClientTypes' /\ RestKnown'
  BY <1>0, <1>1 DEF M!TypeOK, Exclusive, ClientTypes, RestKnown
<1>7. (\A c \in Clients : AwaitsOn(c))' /\ AnswerIsMine'
  BY <1>1 DEF IInv, Exchange, AwaitsOn, AnswerIsMine, M!Mine
<1> QED BY <1>4, <1>5, <1>6, <1>7 DEF IInv, Exchange

LEMMA StepRest ==
  ASSUME IInv, Close \/ UNCHANGED vars
  PROVE  IInv'
<1> USE DEF mangerVars, callVars, history, vars, Close, M!Close
<1>1. M!TypeOK' /\ Exclusive' /\ ClientTypes' /\ RestKnown' /\ WireTypes'
  BY DEF IInv, M!TypeOK, Exclusive, ClientTypes, RestKnown, WireTypes
<1>2. Exchange'
  BY DEF IInv, Exchange, AwaitsOn, M!Mine, Clean, Empty, Awaited, Carries, AnswerIsMine
<1> QED BY <1>1, <1>2 DEF IInv

LEMMA StepIInv == IInv /\ [Next]_vars => IInv'
BY CallsBegin, StepCalls, StepGets, StepSends, StepReceives, StepReleases, StepWire,
   StepRest
DEF Next, Exchanges

LEMMA Invariance == Spec => []IInv
BY InitIInv, StepIInv, PTL DEF Spec

-----------------------------------------------------------------------------
\* The variables keep their types, and a client that awaits an answer has the
\* connection on which it is to come.
THEOREM TypeCorrect == Spec => []TypeOK
BY Invariance, TypeOKParts, PTL

\* However calls time out, connections break and answers are late: what a call
\* takes for an answer is the answer to its own request.
THEOREM AnswersAreMine == Spec => []AnswerIsMine
<1>1. IInv => AnswerIsMine BY DEF IInv, Exchange
<1> QED BY <1>1, Invariance, PTL

\* No call leaves an answer, or a query that will be answered, on an open
\* connection that it gives back.
THEOREM IdleStaysQuiet == Spec => []IdleIsQuiet
<1>1. IInv => IdleIsQuiet
  <2> SUFFICES ASSUME IInv, NEW g \in Pools, NEW s \in Conns,
                      \A c \in Clients : lease[g][c] # s
               PROVE  wire[g][s].in = <<>> /\ wire[g][s].out = <<>>
    BY DEF IdleIsQuiet
  <2> QED BY DEF IInv, Exchange, Clean, Awaited, Empty
<1> QED BY <1>1, Invariance, PTL

-----------------------------------------------------------------------------
(* NetBus and the manager of the pools, NetBus and the pools.              *)

\* Every step of NetBus, seen from the manager, is one of its own or none.
LEMMA StepOfManger ==
  ASSUME IInv, [Next]_vars
  PROVE  \/ \E c \in Clients : M!Calls(c) \/ M!GetStep(c) \/ M!ReleaseStep(c)
         \/ M!Close
         \/ UNCHANGED mangerVars
<1>1. ASSUME NEW c \in Clients, Calls(c)
      PROVE  M!Calls(c) \/ UNCHANGED mangerVars
  BY <1>1, CallsBegin DEF BeginsSome, M!Calls
<1>2. ASSUME NEW c \in Clients, Gets(c)
      PROVE  M!Calls(c) \/ M!GetStep(c) \/ UNCHANGED mangerVars
  BY <1>2 DEF Gets, GetsConnections, GetSocketsFails, AsksGroup, SkipsGroup,
     GetSocketFails, M!Calls, M!GetStep
<1>3. ASSUME NEW c \in Clients, Exchanges(c)
      PROVE  M!ReleaseStep(c) \/ UNCHANGED mangerVars
  BY <1>3 DEF Exchanges, SendWrites, SendTimesOut, SendBreaks, SendsTo, Receives,
     ReceiveFails, Releases
<1>4. ASSUME NEW g \in Pools, NEW s \in Conns,
             Handles(g, s) \/ Drops(g, s) \/ IdleCloses(g, s)
      PROVE  UNCHANGED mangerVars
  BY <1>4 DEF Handles, Drops, IdleCloses
<1>5. CASE Close BY <1>5 DEF Close
<1>6. CASE UNCHANGED vars BY <1>6 DEF vars
<1> QED BY <1>1, <1>2, <1>3, <1>4, <1>5, <1>6 DEF Next

\* A client asks a pool only when it has no connection of it, and has none at
\* all before and after its calls.
AsksOnce(c) ==
  /\ pc[c] \in {"idle", "getOne"} => M!Mine(c) = {}
  /\ pc[c] = "get" => /\ want[c] \notin todo[c]
                      /\ M!Mine(c) \cap (todo[c] \cup {want[c]}) = {}
  /\ pc[c] \notin {"get", "getOne"} => want[c] = None

LInv == IInv /\ \A c \in Clients : AsksOnce(c)

LEMMA InitLInv == Init => LInv
<1> SUFFICES ASSUME Init, NEW c \in Clients PROVE AsksOnce(c)
  BY InitIInv DEF LInv
<1>1. M!Mine(c) = {} BY DEF Init, M!Mine
<1> QED BY <1>1 DEF Init, AsksOnce

LEMMA AsksOnceStays ==
  ASSUME M!TypeOK, Exclusive, NEW c \in Clients, AsksOnce(c),
         M!Calls(c) \/ M!GetStep(c) \/ M!ReleaseStep(c)
  PROVE  AsksOnce(c)' /\ \A d \in Clients \ {c} : want'[d] = want[d] /\ todo'[d] = todo[d]
<1> USE NetBusAssumption DEF NetBusAssumption, M!Goto, AsksOnce
<1>a. None \notin M!Mine(c) BY DEF M!Mine
<1>1. CASE M!GetSocketsBegins(c)
  <2>1. M!Mine(c)' = M!Mine(c) BY <1>1 DEF M!GetSocketsBegins, M!Mine
  <2> QED BY <1>1, <2>1 DEF M!GetSocketsBegins, M!TypeOK
<1>2. CASE M!GetSocketBegins(c)
  <2>1. M!Mine(c)' = M!Mine(c) BY <1>2 DEF M!GetSocketBegins, M!Mine
  <2> QED BY <1>2, <2>1 DEF M!GetSocketBegins, M!TypeOK
<1>3. CASE M!NextPool(c)
  <2>1. M!Mine(c)' = M!Mine(c) BY <1>3 DEF M!NextPool, M!Mine
  <2> QED BY <1>3, <2>1 DEF M!NextPool, M!TypeOK
<1>4. CASE M!GetReturns(c)
  <2>1. want[c] \in Pools BY <1>4 DEF M!GetReturns, M!TypeOK
  <2>2. \A q \in Pools : q # want[c] => lease'[q][c] = lease[q][c]
    BY <1>4, <2>1, LendKeeps DEF M!GetReturns
  <2>3. M!Mine(c)' \subseteq M!Mine(c) \cup {want[c]} BY <2>2 DEF M!Mine
  <2>4. None \notin M!Mine(c)' BY DEF M!Mine
  <2> QED BY <1>4, <2>3, <2>4 DEF M!GetReturns, M!TypeOK
<1>5. CASE M!GetFails(c)
  BY <1>5 DEF M!GetFails, M!TypeOK
<1>6. CASE M!GetSocketsReturns(c)
  BY <1>6 DEF M!GetSocketsReturns, M!TypeOK
<1>7. CASE M!GetSocketReturns(c)
  <2>1. CASE M!Goto(c, "using")
    BY <1>7, <2>1 DEF M!GetSocketReturns, M!TypeOK
  <2>2. CASE M!Goto(c, "idle") /\ UNCHANGED lease
    <3>1. M!Mine(c)' = M!Mine(c) BY <2>2 DEF M!Mine
    <3> QED BY <1>7, <2>2, <3>1 DEF M!GetSocketReturns, M!TypeOK
  <2> QED BY <1>7, <2>1, <2>2 DEF M!GetSocketReturns
<1>8. CASE M!Releases(c)
  BY <1>8 DEF M!Releases, M!TypeOK
<1>9. CASE M!AllReleased(c)
  <2>1. M!Mine(c)' = M!Mine(c) BY <1>9 DEF M!AllReleased, M!Mine
  <2> QED BY <1>9, <2>1 DEF M!AllReleased, M!TypeOK
<1> QED
  BY <1>1, <1>2, <1>3, <1>4, <1>5, <1>6, <1>7, <1>8, <1>9
  DEF M!Calls, M!GetStep, M!ReleaseStep

LEMMA StepLInv == LInv /\ [Next]_vars => LInv'
<1> SUFFICES ASSUME LInv, [Next]_vars, NEW d \in Clients PROVE AsksOnce(d)'
  BY StepIInv DEF LInv
<1>0. M!TypeOK /\ Exclusive /\ AsksOnce(d) BY DEF LInv, IInv
<1>1. ASSUME NEW c \in Clients, M!Calls(c) \/ M!GetStep(c) \/ M!ReleaseStep(c)
      PROVE  AsksOnce(d)'
  <2>1. CASE d = c BY <1>0, <1>1, <2>1, AsksOnceStays
  <2>2. CASE d # c
    <3>1. AsksOnce(c) BY DEF LInv
    <3>2. pc'[d] = pc[d] /\ want'[d] = want[d] /\ todo'[d] = todo[d]
      BY <1>0, <1>1, <2>2, <3>1, AsksOnceStays, MangerStep
    <3>3. M!Mine(d)' = M!Mine(d) BY <1>0, <1>1, <2>2, MangerStep DEF M!Mine
    <3> QED BY <1>0, <3>2, <3>3 DEF AsksOnce
  <2> QED BY <2>1, <2>2
<1>2. CASE M!Close \/ UNCHANGED mangerVars
  <2>1. UNCHANGED <<pc, todo, want, lease>> BY <1>2 DEF M!Close, mangerVars
  <2> QED BY <1>0, <2>1 DEF AsksOnce, M!Mine
<1> QED BY <1>1, <1>2, StepOfManger DEF LInv

LEMMA LeasesInvariance == Spec => []LInv
BY InitLInv, StepLInv, PTL DEF Spec

\* NetBus obtains and gives back connections only as TaskSocketManger has it:
\* what it does in between, whatever gateways, the network and the pools do,
\* leaves the manager alone.
THEOREM MovesAsTheManger == Spec => [][M!Next]_mangerVars
<1>1. IInv /\ [Next]_vars => [M!Next]_mangerVars BY StepOfManger DEF M!Next
<1> QED BY <1>1, Invariance, PTL DEF Spec

\* A call of NetBus that has returned keeps no connection of any gateway,
\* wherever it failed.
THEOREM CallsKeepNothing == Spec => [](\A c \in Clients : pc[c] = "idle" => M!Mine(c) = {})
<1>1. LInv => \A c \in Clients : pc[c] = "idle" => M!Mine(c) = {}
  BY DEF LInv, AsksOnce
<1> QED BY <1>1, LeasesInvariance, PTL

\* What the clients of NetBus have of the pool of gateway p.
PoolLease(p) == INSTANCE ConnectionLease WITH Borrowers <- Clients, lease <- lease[p]

LEMMA LendIsLease ==
  ASSUME M!TypeOK, NEW c \in Clients, NEW p \in Pools, NEW q \in Pools,
         p \notin M!Mine(c), M!Lend(c, p)
  PROVE  PoolLease(q)!Next \/ UNCHANGED lease[q]
<1> PICK s \in Conns : /\ \A d \in Clients : lease[p][d] # s
                       /\ lease' = [lease EXCEPT ![p][c] = s]
  BY DEF M!Lend
<1>0. lease \in [Pools -> [Clients -> Conns \cup {None}]] BY DEF M!TypeOK
<1>1. CASE q = p
  <2>1. M!Lent(p) = PoolLease(p)!Lent BY DEF M!Lent, PoolLease!Lent
  <2>2. lease[p][c] = None BY DEF M!Mine
  <2>3. lease'[p] = [lease[p] EXCEPT ![c] = s] BY <1>0
  <2>4. \A S : M!Cardinality(S) = PoolLease(p)!Cardinality(S)
    BY DEF M!Cardinality, PoolLease!Cardinality
  <2>5. PoolLease(p)!Lend(c, s) BY <2>1, <2>2, <2>3, <2>4 DEF PoolLease!Lend, M!Lend
  <2> QED BY <1>1, <2>5 DEF PoolLease!Next
<1>2. CASE q # p BY <1>0, <1>2
<1> QED BY <1>1, <1>2

LEMMA StepIsLease ==
  ASSUME LInv, [Next]_vars, NEW q \in Pools
  PROVE  PoolLease(q)!Next \/ UNCHANGED lease[q]
<1>0. M!TypeOK /\ \A c \in Clients : AsksOnce(c) BY DEF LInv, IInv
<1>1. ASSUME NEW c \in Clients, M!GetReturns(c)
      PROVE  PoolLease(q)!Next \/ UNCHANGED lease[q]
  <2>1. want[c] \in Pools /\ want[c] \notin M!Mine(c)
    BY <1>0, <1>1 DEF M!GetReturns, M!TypeOK, AsksOnce
  <2> QED BY <1>0, <1>1, <2>1, LendIsLease DEF M!GetReturns
<1>2. ASSUME NEW c \in Clients, M!GetSocketReturns(c)
      PROVE  PoolLease(q)!Next \/ UNCHANGED lease[q]
  <2>1. want[c] \in Pools /\ want[c] \notin M!Mine(c)
    BY <1>0, <1>2 DEF M!GetSocketReturns, M!TypeOK, AsksOnce
  <2>2. CASE M!Lend(c, want[c]) BY <1>0, <2>1, <2>2, LendIsLease
  <2> QED BY <1>2, <2>2 DEF M!GetSocketReturns
<1>3. ASSUME NEW c \in Clients, M!Releases(c)
      PROVE  PoolLease(q)!Next \/ UNCHANGED lease[q]
  <2> PICK p \in Pools : M!GiveBack(c, p) BY <1>3 DEF M!Releases
  <2>1. CASE q = p
    <3>1. PoolLease(p)!GiveBack(c)
      BY <1>0 DEF M!GiveBack, M!Mine, PoolLease!GiveBack, M!TypeOK
    <3> QED BY <2>1, <3>1 DEF PoolLease!Next
  <2>2. CASE q # p BY <1>0, <2>2 DEF M!GiveBack, M!TypeOK
  <2> QED BY <2>1, <2>2
<1>4. ASSUME NEW c \in Clients,
             \/ M!Calls(c) \/ M!NextPool(c) \/ M!GetFails(c)
             \/ M!GetSocketsReturns(c) \/ M!AllReleased(c)
      PROVE  UNCHANGED lease
  BY <1>4 DEF M!Calls, M!GetSocketsBegins, M!GetSocketBegins, M!NextPool, M!GetFails,
     M!GetSocketsReturns, M!AllReleased
<1>5. CASE M!Close \/ UNCHANGED mangerVars BY <1>5 DEF M!Close, mangerVars
<1> QED
  BY <1>1, <1>2, <1>3, <1>4, <1>5, StepOfManger
  DEF LInv, M!GetStep, M!ReleaseStep

\* What the clients of NetBus have of the pool of any one gateway is what
\* ConnectionLease allows, from the first state on: the calls ask no more of a
\* pool than TaskSocketPool, which implements ConnectionLease, promises.
THEOREM NetBusImplementsLeases ==
  ASSUME NEW p \in Pools
  PROVE  Spec => PoolLease(p)!Spec
<1>1. Init => PoolLease(p)!Init BY DEF Init, PoolLease!Init
<1>2. LInv /\ [Next]_vars => [PoolLease(p)!Next]_(lease[p]) BY StepIsLease
<1> QED BY <1>1, <1>2, LeasesInvariance, PTL DEF Spec, PoolLease!Spec
=============================================================================
