------------------------------- MODULE NetBus ------------------------------
(***************************************************************************)
(* The calls of netBus.go: which gateways a call talks to, and how it      *)
(* exchanges requests and answers over connections of their pools.         *)
(*                                                                         *)
(* Connections are obtained and released as TaskSocketManger has it (M).   *)
(* An answer carries nothing that names its request: the first message     *)
(* that arrives after a query is taken for its answer.                     *)
(*                                                                         *)
(* A call is one of three kinds:                                           *)
(*   all    GetSockets, and the same request to every gateway;             *)
(*   one    GetSocket, and one request;                                    *)
(*   split  the ids are grouped by the gateway that their first 12 digits  *)
(*          name, GetSocket and a request with its group for each of them. *)
(***************************************************************************)
EXTENDS Naturals, FiniteSets, Sequences

CONSTANTS
  Clients, Pools, Conns, None, Size, WaitTimeout,  \* see TaskSocketManger
  UniqIds,   \* ids of connections to gateways
  Home,      \* the gateway an id names, None if it has not 28 digits
  Online,    \* the ids that are online
  MaxCalls   \* bound: how many calls are made

ASSUME NetBusAssumption ==
  /\ None \notin Pools /\ None \notin Conns
  /\ IsFiniteSet(Pools)
  /\ Home \in [UniqIds -> Pools \cup {None}]
  /\ Online \subseteq {u \in UniqIds : Home[u] # None}
  /\ MaxCalls \in Nat

VARIABLES
  pools, pc, todo, want, lease,   \* see TaskSocketManger
  calls,     \* how many calls were made
  job,       \* the call each client is in, or was in last
  rest,      \* the gateways it still has to talk to
  awaits,    \* the gateway whose answer it awaits
  answers,   \* res.Data of its call
  wire,      \* the connections, and what is in transit on them
  deployed,  \* history: the gateways registered with AddSocket
  sent,      \* history: the ids its call sent, each with the gateway
  lost       \* history: the gateways its call failed to reach

mangerVars == <<pools, pc, todo, want, lease>>
callVars == <<calls, job>>
history == <<deployed, sent, lost>>
vars == <<mangerVars, callVars, rest, awaits, answers, wire, history>>

M == INSTANCE TaskSocketManger

\* A query, or its answer, with the ids it names.
Messages == [call : Nat, ids : SUBSET UniqIds]
Jobs == [kind : {"all", "one", "split"}, query : BOOLEAN,
         ids : SUBSET UniqIds, call : Nat]

\* open is the client's end (IsConnected), live the network and the gateway's;
\* out holds the queries the gateway has yet to answer, in the answers that
\* nobody has received.
Fresh == [open |-> TRUE, live |-> TRUE, out |-> <<>>, in |-> <<>>]

\* What is in transit on a connection the client closed can no longer matter.
Closed == [open |-> FALSE, live |-> FALSE, out |-> <<>>, in |-> <<>>]

Init ==
  /\ pools \in SUBSET Pools /\ deployed = pools
  /\ pc = [c \in Clients |-> "idle"]
  /\ todo = [c \in Clients |-> {}]
  /\ want = [c \in Clients |-> None]
  /\ lease = [p \in Pools |-> [c \in Clients |-> None]]
  /\ calls = 0
  /\ job = [c \in Clients |->
              [kind |-> "all", query |-> FALSE, ids |-> {}, call |-> 0]]
  /\ rest = [c \in Clients |-> {}]
  /\ awaits = [c \in Clients |-> None]
  /\ answers = [c \in Clients |-> {}]
  /\ wire = [p \in Pools |-> [s \in Conns |-> Closed]]
  /\ sent = [c \in Clients |-> {}]
  /\ lost = [c \in Clients |-> {}]

\* The call c was in last has returned.
Done(c) == pc[c] = "idle" /\ rest[c] = {}

SinglePoint == Cardinality(pools) = 1

\* The ids in the request of c's call to gateway g.
Part(c, g) ==
  IF job[c].kind = "split" THEN {u \in job[c].ids : Home[u] = g} ELSE job[c].ids

-----------------------------------------------------------------------------
(* Calls.                                                                  *)

Begins(c, kind, query, ids, gateways) ==
  /\ Done(c)
  /\ calls < MaxCalls
  /\ calls' = calls + 1
  /\ job' = [job EXCEPT ![c] =
               [kind |-> kind, query |-> query, ids |-> ids, call |-> calls']]
  /\ rest' = [rest EXCEPT ![c] = gateways]
  /\ answers' = [answers EXCEPT ![c] = {}]
  /\ sent' = [sent EXCEPT ![c] = {}]
  /\ lost' = [lost EXCEPT ![c] = {}]
  /\ UNCHANGED <<awaits, wire, deployed>>

CallsAll(c, query, ids) ==
  Begins(c, "all", query, ids, pools) /\ M!GetSocketsBegins(c)

CallsOne(c, query, ids, g) ==
  Begins(c, "one", query, ids, {g}) /\ UNCHANGED mangerVars

CallsSplit(c, query, ids) ==
  /\ Begins(c, "split", query, ids, {Home[u] : u \in ids})
  /\ UNCHANGED mangerVars

\* Broadcasts, topics, and whatever goes by customer.
SendsToAll(c) == CallsAll(c, FALSE, UniqIds)

\* The lists, counts and metrics.
QueriesAll(c) == CallsAll(c, TRUE, UniqIds)

\* Single casts and forced logouts.
SendsByUniqId(c) ==
  \E ids \in (SUBSET UniqIds) \ {{}} :
    \/ SinglePoint /\ CallsAll(c, FALSE, ids)
    \/ ~SinglePoint /\ CallsSplit(c, FALSE, ids)

\* CheckOnline and ConnInfo: on a single gateway the first id decides.
QueriesByUniqId(c) ==
  \E ids \in (SUBSET UniqIds) \ {{}} :
    \/ SinglePoint /\ \E first \in ids : CallsOne(c, TRUE, ids, Home[first])
    \/ ~SinglePoint /\ CallsSplit(c, TRUE, ids)

\* Connection info and subscriptions of one id.
SendsToUniqId(c) == \E u \in UniqIds : CallsOne(c, FALSE, {u}, Home[u])

\* Limit with an address.  (When the gateway is not reached it returns nil, the
\* other queries an empty result: to the caller of either, no answers.)
Limits(c) == \E g \in Pools : CallsOne(c, TRUE, {}, g)

-----------------------------------------------------------------------------
(* Obtaining connections.                                                  *)

\* What Get returns is an open connection: an idle one or a new one.
Opens(c) ==
  wire' = [p \in Pools |-> [s \in Conns |->
             IF lease'[p][c] = s /\ lease[p][c] # s /\ ~wire[p][s].open
             THEN Fresh ELSE wire[p][s]]]

GetsConnections(c) ==
  /\ \/ M!NextPool(c) \/ M!GetReturns(c) \/ M!GetSocketsReturns(c)
     \/ M!GetSocketReturns(c) /\ pc'[c] = "using"
  /\ Opens(c)
  /\ UNCHANGED <<callVars, rest, awaits, answers, history>>

\* GetSockets found a pool without a connection for it.
GetSocketsFails(c) ==
  /\ M!GetFails(c)
  /\ lost' = [lost EXCEPT ![c] = @ \cup rest[c]]
  /\ rest' = [rest EXCEPT ![c] = {}]
  /\ UNCHANGED <<callVars, awaits, answers, wire, deployed, sent>>

\* The loop over the groups gets to one whose gateway is known.
AsksGroup(c) ==
  /\ pc[c] = "idle"
  /\ M!GetSocketBegins(c)
  /\ want'[c] \in rest[c]
  /\ UNCHANGED <<callVars, rest, awaits, answers, wire, history>>

\* Mutated form: an unknown gateway ends the loop.
SkipsAllGroups(c) ==
  /\ pc[c] = "idle"
  /\ \E g \in rest[c] \ pools : lost' = [lost EXCEPT ![c] = @ \cup ({g} \cap Pools)]
  /\ rest' = [rest EXCEPT ![c] = {}]
  /\ UNCHANGED <<mangerVars, callVars, awaits, answers, wire, deployed, sent>>

\* GetSocket returned nil because the gateway is unknown.
SkipsGroup(c) ==
  /\ pc[c] = "idle"
  /\ \E g \in rest[c] \ pools :
       /\ rest' = [rest EXCEPT ![c] = @ \ {g}]
       /\ lost' = [lost EXCEPT ![c] = @ \cup ({g} \cap Pools)]
  /\ UNCHANGED <<mangerVars, callVars, awaits, answers, wire, deployed, sent>>

\* GetSocket returned nil because the pool has no connection for it.
GetSocketFails(c) ==
  /\ M!GetSocketReturns(c) /\ pc'[c] = "idle"
  /\ rest' = [rest EXCEPT ![c] = @ \ {want[c]}]
  /\ lost' = [lost EXCEPT ![c] = @ \cup {want[c]}]
  /\ UNCHANGED <<callVars, awaits, answers, wire, deployed, sent>>

-----------------------------------------------------------------------------
(* Exchanging.  The result of Send is ignored: a query goes on to Receive. *)

\* c is about to send its request to gateway g.
SendsTo(c, g) ==
  /\ pc[c] = "using" /\ awaits[c] = None
  /\ g \in rest[c] \cap M!Mine(c)
  /\ rest' = [rest EXCEPT ![c] = @ \ {g}]
  /\ awaits' = [awaits EXCEPT ![c] = IF job[c].query THEN g ELSE None]
  /\ UNCHANGED <<mangerVars, callVars, answers, deployed>>

\* The request is written.  Requests without an answer leave no trace in wire.
SendWrites(c) ==
  \E g \in Pools :
    /\ SendsTo(c, g)
    /\ LET query == [call |-> job[c].call, ids |-> Part(c, g)]
           s == lease[g][c]
       IN wire' = IF job[c].query /\ wire[g][s].live
                  THEN [wire EXCEPT ![g][s].out = Append(@, query)] ELSE wire
    /\ sent' = [sent EXCEPT ![c] = @ \cup ({g} \X Part(c, g))]
    /\ UNCHANGED lost

\* Nothing could be written in time; the connection stays as it is.
SendTimesOut(c) ==
  \E g \in Pools :
    /\ SendsTo(c, g)
    /\ lost' = [lost EXCEPT ![c] = @ \cup {g}]
    /\ UNCHANGED <<wire, sent>>

SendBreaks(c) ==
  \E g \in Pools :
    /\ SendsTo(c, g)
    /\ wire' = [wire EXCEPT ![g][lease[g][c]] = Closed]
    /\ lost' = [lost EXCEPT ![c] = @ \cup {g}]
    /\ UNCHANGED sent

Receives(c) ==
  \E g \in Pools :
    /\ awaits[c] = g
    /\ LET s == lease[g][c] IN
       /\ wire[g][s].open /\ wire[g][s].in # <<>>
       /\ wire' = [wire EXCEPT ![g][s].in = Tail(@)]
       /\ answers' = [answers EXCEPT ![c] = @ \cup {<<g, Head(wire[g][s].in)>>}]
    /\ awaits' = [awaits EXCEPT ![c] = None]
    /\ UNCHANGED <<mangerVars, callVars, rest, history>>

\* Mutated form: a timeout of Receive leaves the connection open.
ReceiveFailsOpen(c) ==
  \E g \in Pools :
    /\ awaits[c] = g
    /\ lost' = [lost EXCEPT ![c] = @ \cup {g}]
    /\ awaits' = [awaits EXCEPT ![c] = None]
    /\ UNCHANGED <<mangerVars, callVars, rest, answers, wire, deployed, sent>>

\* Mutated form: the query gives up the other gateways, too.
ReceiveFailsForAll(c) ==
  \E g \in Pools :
    /\ awaits[c] = g
    /\ wire' = [wire EXCEPT ![g][lease[g][c]] = Closed]
    /\ lost' = [lost EXCEPT ![c] = @ \cup {g}]
    /\ rest' = [rest EXCEPT ![c] = {}]
    /\ awaits' = [awaits EXCEPT ![c] = None]
    /\ UNCHANGED <<mangerVars, callVars, answers, deployed, sent>>

\* Receive times out or finds the connection lost, and closes it; the answer
\* may be on its way.
ReceiveFails(c) ==
  \E g \in Pools :
    /\ awaits[c] = g
    /\ wire' = [wire EXCEPT ![g][lease[g][c]] = Closed]
    /\ lost' = [lost EXCEPT ![c] = @ \cup {g}]
    /\ awaits' = [awaits EXCEPT ![c] = None]
    /\ UNCHANGED <<mangerVars, callVars, rest, answers, deployed, sent>>

\* Mutated form: connections are released when the requests are out.
ReleasesEarly(c) ==
  /\ rest[c] \cap M!Mine(c) = {}
  /\ M!ReleaseStep(c)
  /\ UNCHANGED <<callVars, rest, awaits, answers, wire, history>>

\* The deferred Releases.
Releases(c) ==
  /\ rest[c] \cap M!Mine(c) = {} /\ awaits[c] = None
  /\ M!ReleaseStep(c)
  /\ UNCHANGED <<callVars, rest, awaits, answers, wire, history>>

-----------------------------------------------------------------------------
(* The gateways, the network, and the pools.                               *)

\* The gateway takes the next query and answers it.
Handles(g, s) ==
  LET w == wire[g][s] IN
  /\ w.live /\ w.out # <<>>
  /\ LET q == Head(w.out)
         answer == [q EXCEPT !.ids = {u \in @ \cap Online : Home[u] = g}]
     IN wire' = [wire EXCEPT ![g][s] =
                   [w EXCEPT !.out = Tail(@), !.in = Append(@, answer)]]
  /\ UNCHANGED <<mangerVars, callVars, rest, awaits, answers, history>>

\* The connection is lost; what has arrived can still be read.
Drops(g, s) ==
  /\ wire[g][s].live
  /\ wire' = [wire EXCEPT ![g][s] = [@ EXCEPT !.live = FALSE, !.out = <<>>]]
  /\ UNCHANGED <<mangerVars, callVars, rest, awaits, answers, history>>

\* The heartbeat fails on an idle connection, or Close drains it.
IdleCloses(g, s) ==
  /\ wire[g][s].open /\ \A c \in Clients : lease[g][c] # s
  /\ wire' = [wire EXCEPT ![g][s] = Closed]
  /\ UNCHANGED <<mangerVars, callVars, rest, awaits, answers, history>>

Close ==
  /\ M!Close
  /\ UNCHANGED <<callVars, rest, awaits, answers, wire, history>>

-----------------------------------------------------------------------------
Calls(c) ==
  \/ SendsToAll(c) \/ QueriesAll(c) \/ SendsByUniqId(c) \/ QueriesByUniqId(c)
  \/ SendsToUniqId(c) \/ Limits(c)
Gets(c) ==
  \/ GetsConnections(c) \/ GetSocketsFails(c) \/ AsksGroup(c) \/ SkipsGroup(c)
  \/ GetSocketFails(c)
Exchanges(c) ==
  \/ SendWrites(c) \/ SendTimesOut(c) \/ SendBreaks(c)
  \/ Receives(c) \/ ReceiveFails(c) \/ Releases(c)

Next ==
  \/ \E c \in Clients : Calls(c) \/ Gets(c) \/ Exchanges(c)
  \/ \E g \in Pools, s \in Conns : Handles(g, s) \/ Drops(g, s) \/ IdleCloses(g, s)
  \/ Close

Spec == Init /\ [][Next]_vars

-----------------------------------------------------------------------------
\* Types; and a client that awaits an answer has the connection on which it is
\* to come.
TypeOK ==
  /\ M!TypeOK
  /\ calls \in Nat
  /\ job \in [Clients -> Jobs]
  /\ rest \in [Clients -> SUBSET (Pools \cup {None})]
  /\ awaits \in [Clients -> Pools \cup {None}]
  /\ answers \in [Clients -> SUBSET (Pools \X Messages)]
  /\ wire \in [Pools -> [Conns -> [open : BOOLEAN, live : BOOLEAN,
                                   out : Seq(Messages), in : Seq(Messages)]]]
  /\ deployed \in SUBSET Pools
  /\ sent \in [Clients -> SUBSET (Pools \X UniqIds)]
  /\ lost \in [Clients -> SUBSET Pools]
  /\ \A c \in Clients : awaits[c] # None => awaits[c] \in M!Mine(c)

\* What a call takes for an answer is the answer to its own request, never one
\* that another call, or an earlier one that timed out, left on the connection.
AnswerIsMine ==
  \A c \in Clients : \A a \in answers[c] : a[2].call = job[c].call

\* An idle connection that is open is clean: no answer waits on it and no query
\* that is yet to be answered, whatever became of the calls that used it.
IdleIsQuiet ==
  \A g \in Pools, s \in Conns :
    (wire[g][s].open /\ \A c \in Clients : lease[g][c] # s) =>
      wire[g][s].in = <<>> /\ wire[g][s].out = <<>>

\* The SDK was not closed, and c's call has returned.
Returned(c) == Done(c) /\ pools = deployed

\* When a call returns, every id it was given went to the gateway the id names,
\* unless that one could not be reached: an id that is malformed or names an
\* unknown gateway, and a gateway that fails, keep no other id from being sent.
\* Among several gateways, an id goes to no other than its own.  (A query of a
\* single gateway goes where its first id says: see the README.)
EachToItsGateway ==
  \A c \in Clients :
    Returned(c) /\ (job[c].kind = "one" /\ job[c].query => sent[c] # {}) =>
      /\ \A u \in job[c].ids :
           Home[u] \in deployed \ lost[c] => <<Home[u], u>> \in sent[c]
      /\ job[c].kind = "split" => \A x \in sent[c] : x[1] = Home[x[2]]

\* When a query returns, the answers merged are exactly the ids asked for that
\* are online, less those of the gateways that did not answer.
QueryIsComplete ==
  \A c \in Clients :
    Returned(c) /\ job[c].query /\ (job[c].kind = "one" => sent[c] # {}) =>
      UNION {a[2].ids : a \in answers[c]} =
        {u \in job[c].ids \cap Online : Home[u] \in deployed \ lost[c]}
=============================================================================
