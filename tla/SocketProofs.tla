---------------------------- MODULE SocketProofs ----------------------------
(***************************************************************************)
(* Proofs about Socket, for any number of connections and whatever the     *)
(* bounds on losses and calls of Close.                                    *)
(***************************************************************************)
EXTENDS Socket, TLAPS

\* Where a goroutine goes on after a call, what it works on, and that nobody
\* but the owner has started before the owner's first Connect has assigned.
Afterwards == {"idle", "closed", "loop", "reconnect"}

Typed ==
  /\ TypeOK
  /\ \A p \in Procs : pc[p] = "assign" => local[p] # None
  /\ then \in [Procs -> Afterwards]

Early ==
  socket = None =>
    /\ pc[Receiver] = "loop" /\ pc[Heart] = "idle"
    /\ pc[Owner] \in {"closed", "dial", "assign", "lost"}
    /\ pc[Owner] \in {"dial", "lost"} => then[Owner] = "closed"

\* At most one goroutine is between the two steps of Connect, with the
\* connection that the flag stands for; and nobody is about to close that.
Assigning ==
  /\ \A p, q \in Procs : pc[p] = "assign" /\ pc[q] = "assign" => p = q
  /\ \A p \in Procs : pc[p] = "assign" => connected = "yes" /\ local[p] # socket

OthersAreHit ==
  connected = "yes" => \A p \in Procs : pc[p] = "hit" => local[p] # Meant

Coherent == Assigning /\ OthersAreHit

Agrees == (~astray => Coherent) /\ FlagMatches /\ TornIsClosed

IInv == Typed /\ Early /\ Agrees

LEMMA TypedFunctions ==
  Typed => /\ pc \in [Procs -> Labels] /\ local \in [Procs -> Conns \cup {None}]
           /\ then \in [Procs -> Afterwards]
BY DEF Typed, TypeOK

LEMMA InitIInv == Init => IInv
<1> SUFFICES ASSUME Init PROVE IInv
  OBVIOUS
<1>1. Typed
  <2>1. pc \in [Procs -> Labels] /\ \A p \in Procs : pc[p] \in {"idle", "closed", "loop"}
    BY DEF Init, Labels
  <2>2. then \in [Procs -> Afterwards] /\ then \in [Procs -> Labels]
    BY DEF Init, Afterwards, Labels
  <2>3. drops \in 0..MaxDrops /\ closes \in 0..MaxCloses
    BY SocketAssumption DEF Init
  <2> QED BY <2>1, <2>2, <2>3 DEF Init, Typed, TypeOK
<1>2. Early BY SocketAssumption DEF Init, Early, Procs
<1>3. Coherent BY DEF Init, Coherent, Assigning, OthersAreHit
<1>4. FlagMatches /\ TornIsClosed BY DEF Init, FlagMatches, TornIsClosed
<1> QED BY <1>1, <1>2, <1>3, <1>4 DEF IInv, Agrees

\* What "yes" stands for, before and after a step.
LEMMA MeantNow ==
  ASSUME \A p, q \in Procs : pc[p] = "assign" /\ pc[q] = "assign" => p = q
  PROVE  /\ \A p \in Procs : pc[p] = "assign" => Meant = local[p]
         /\ (\A p \in Procs : pc[p] # "assign") => Meant = socket
BY DEF Meant

LEMMA MeantNext ==
  ASSUME \A p, q \in Procs : pc'[p] = "assign" /\ pc'[q] = "assign" => p = q
  PROVE  /\ \A p \in Procs : pc'[p] = "assign" => Meant' = local'[p]
         /\ (\A p \in Procs : pc'[p] # "assign") => Meant' = socket'
BY DEF Meant

-----------------------------------------------------------------------------
\* The steps that neither assign nor close anything: one goroutine moves, and
\* what the invariant says about the others and the connections is untouched.
Calm(p) ==
  /\ pc[p] \notin {"assign", "hit", "fail"} /\ pc'[p] \notin {"assign", "hit"}
  /\ \A q \in Procs \ {p} : pc'[q] = pc[q] /\ local'[q] = local[q]
  /\ UNCHANGED <<socket, open, torn, astray>>
  /\ connected' = "yes" <=> connected = "yes"

LEMMA CalmStep ==
  ASSUME Agrees, NEW p \in Procs, Calm(p)
  PROVE  Agrees'
<1> SUFFICES ASSUME ~astray PROVE Coherent' /\ FlagMatches' /\ TornIsClosed'
  BY DEF Agrees, Calm, FlagMatches, TornIsClosed
<1>0. /\ Assigning /\ OthersAreHit
      /\ connected = "yes" => Meant \in open
      /\ \A x \in open : (connected = "yes" /\ x = Meant) \/ Closing(x)
      /\ \A x \in torn \cap open :
           Closing(x) \/ \E q \in Procs : pc[q] = "fail" /\ local[q] = x
  BY DEF Agrees, Coherent, FlagMatches, TornIsClosed
<1>1. ASSUME NEW q \in Procs
      PROVE  /\ pc'[q] = "assign" <=> pc[q] = "assign"
             /\ pc'[q] = "hit" <=> pc[q] = "hit"
             /\ pc[q] \in {"assign", "hit", "fail"} => pc'[q] = pc[q] /\ local'[q] = local[q]
  BY DEF Calm
<1>2. Assigning' BY <1>0, <1>1 DEF Assigning, Calm
<1>3. Meant' = Meant
  <2>1. CASE \E q \in Procs : pc[q] = "assign"
    BY <1>0, <1>1, <1>2, <2>1, MeantNow, MeantNext DEF Assigning
  <2>2. CASE \A q \in Procs : pc[q] # "assign"
    BY <1>0, <1>1, <1>2, <2>2, MeantNow, MeantNext DEF Assigning, Calm
  <2> QED BY <2>1, <2>2
<1>4. \A x : Closing(x)' <=> Closing(x) BY <1>1 DEF Closing
<1>5. OthersAreHit' BY <1>0, <1>1, <1>3 DEF OthersAreHit, Calm
<1>6. FlagMatches' BY <1>0, <1>3, <1>4 DEF FlagMatches, Calm
<1>7. TornIsClosed' BY <1>0, <1>1, <1>4 DEF TornIsClosed, Calm
<1> QED BY <1>2, <1>5, <1>6, <1>7 DEF Coherent

\* A connection is lost, or nothing happens: nothing the invariant looks at.
LEMMA StillStep ==
  ASSUME Agrees, UNCHANGED <<connected, socket, open, torn, pc, local, astray>>
  PROVE  Agrees'
<1>1. Meant' = Meant BY DEF Meant
<1> QED
  BY <1>1 DEF Agrees, Coherent, Assigning, OthersAreHit, FlagMatches, TornIsClosed, Closing

LEMMA TearsAgrees ==
  ASSUME Typed, Agrees, NEW p \in Procs, SendTears(p)
  PROVE  Agrees'
<1> SUFFICES ASSUME ~astray PROVE Coherent' /\ FlagMatches' /\ TornIsClosed'
  BY DEF Agrees, SendTears, FlagMatches, TornIsClosed
<1>0. /\ Assigning /\ OthersAreHit
      /\ connected = "yes" => Meant \in open
      /\ \A x \in open : (connected = "yes" /\ x = Meant) \/ Closing(x)
      /\ \A x \in torn \cap open :
           Closing(x) \/ \E q \in Procs : pc[q] = "fail" /\ local[q] = x
  BY DEF Agrees, Coherent, FlagMatches, TornIsClosed
<1>1. /\ pc[p] = "write" /\ pc'[p] = "fail"
      /\ \A q \in Procs \ {p} : pc'[q] = pc[q]
      /\ torn' = torn \cup {local[p]}
      /\ UNCHANGED <<connected, socket, open, local, astray>>
  BY TypedFunctions DEF SendTears, Goto
<1>2. Assigning' BY <1>0, <1>1 DEF Assigning
<1>3. Meant' = Meant
  <2>1. CASE \E q \in Procs : pc[q] = "assign"
    BY <1>0, <1>1, <1>2, <2>1, MeantNow, MeantNext DEF Assigning
  <2>2. CASE \A q \in Procs : pc[q] # "assign"
    BY <1>0, <1>1, <1>2, <2>2, MeantNow, MeantNext DEF Assigning
  <2> QED BY <2>1, <2>2
<1>4. \A x : Closing(x)' <=> Closing(x) BY <1>1 DEF Closing
<1>5. OthersAreHit' BY <1>0, <1>1, <1>3 DEF OthersAreHit
<1>6. FlagMatches' BY <1>0, <1>1, <1>3, <1>4 DEF FlagMatches
<1>7. TornIsClosed' BY <1>0, <1>1, <1>4 DEF TornIsClosed
<1> QED BY <1>2, <1>5, <1>6, <1>7 DEF Coherent

\* The new connection is one that nobody has, so nobody is about to close it.
LEMMA DialAgrees ==
  ASSUME Typed, Agrees, NEW p \in Procs, DialSucceeds(p)
  PROVE  Agrees'
<1> SUFFICES ASSUME ~astray PROVE Coherent' /\ FlagMatches' /\ TornIsClosed'
  BY DEF Agrees, DialSucceeds, FlagMatches, TornIsClosed
<1>0. /\ Assigning
      /\ \A x \in open : (connected = "yes" /\ x = Meant) \/ Closing(x)
      /\ \A x \in torn \cap open :
           Closing(x) \/ \E q \in Procs : pc[q] = "fail" /\ local[q] = x
  BY DEF Agrees, Coherent, FlagMatches, TornIsClosed
<1>1. PICK x \in Unused : /\ open' = open \cup {x} /\ torn' = torn \ {x}
                          /\ local' = [local EXCEPT ![p] = x]
  BY DEF DialSucceeds
<1>2. /\ pc[p] = "dial" /\ connected = "ing" /\ connected' = "yes"
      /\ pc'[p] = "assign" /\ local'[p] = x
      /\ \A q \in Procs \ {p} : pc'[q] = pc[q] /\ local'[q] = local[q]
      /\ x # socket /\ \A q \in Procs : local[q] # x
      /\ UNCHANGED <<socket, astray>>
  BY <1>1, TypedFunctions DEF DialSucceeds, Goto, Unused
<1>3. \A q \in Procs : pc[q] # "assign" BY <1>0, <1>2 DEF Assigning
<1>4. Assigning' /\ Meant' = x
  <2>1. Assigning' BY <1>2, <1>3 DEF Assigning
  <2> QED BY <1>2, <2>1, MeantNext DEF Assigning
<1>5. \A y : Closing(y) => Closing(y)' BY <1>2 DEF Closing
<1>6. OthersAreHit' BY <1>2, <1>4 DEF OthersAreHit
<1>7. FlagMatches' BY <1>0, <1>1, <1>2, <1>4, <1>5 DEF FlagMatches
<1>8. TornIsClosed'
  <2> SUFFICES ASSUME NEW y \in torn' \cap open'
               PROVE  Closing(y)' \/ \E q \in Procs : pc'[q] = "fail" /\ local'[q] = y
    BY DEF TornIsClosed
  <2>1. y \in torn \cap open BY <1>1
  <2>2. CASE Closing(y) BY <1>5, <2>2
  <2>3. CASE \E q \in Procs : pc[q] = "fail" /\ local[q] = y BY <1>2, <2>3
  <2> QED BY <1>0, <2>1, <2>2, <2>3
<1> QED BY <1>4, <1>6, <1>7, <1>8 DEF Coherent

LEMMA AssignsAgrees ==
  ASSUME Typed, Agrees, NEW p \in Procs, Assigns(p)
  PROVE  Agrees'
<1> SUFFICES ASSUME ~astray PROVE Coherent' /\ FlagMatches' /\ TornIsClosed'
  BY DEF Agrees, Assigns, FlagMatches, TornIsClosed
<1>0. /\ Assigning /\ OthersAreHit
      /\ connected = "yes" => Meant \in open
      /\ \A x \in open : (connected = "yes" /\ x = Meant) \/ Closing(x)
      /\ \A x \in torn \cap open :
           Closing(x) \/ \E q \in Procs : pc[q] = "fail" /\ local[q] = x
  BY DEF Agrees, Coherent, FlagMatches, TornIsClosed
<1>1. /\ pc[p] = "assign" /\ pc'[p] = "won" /\ socket' = local[p]
      /\ \A q \in Procs \ {p} : pc'[q] = pc[q] /\ local'[q] = local[q]
      /\ UNCHANGED <<connected, open, torn, astray>>
  BY TypedFunctions DEF Assigns, Goto, conns
<1>2. \A q \in Procs : pc'[q] # "assign" BY <1>0, <1>1 DEF Assigning
<1>3. Assigning' /\ Meant' = Meant
  <2>1. Meant = local[p] BY <1>0, <1>1, MeantNow DEF Assigning
  <2>2. Meant' = socket' BY <1>2, MeantNext
  <2> QED BY <1>1, <1>2, <2>1, <2>2 DEF Assigning
<1>4. \A x : Closing(x)' <=> Closing(x) BY <1>1 DEF Closing
<1>5. OthersAreHit' BY <1>0, <1>1, <1>3 DEF OthersAreHit
<1>6. FlagMatches' BY <1>0, <1>1, <1>3, <1>4 DEF FlagMatches
<1>7. TornIsClosed' BY <1>0, <1>1, <1>4 DEF TornIsClosed
<1> QED BY <1>3, <1>5, <1>6, <1>7 DEF Coherent

\* The flag is reset: what it stood for is about to be closed.
LEMMA SwapsAgrees ==
  ASSUME Typed, Agrees, NEW p \in Procs, CloseSwaps(p)
  PROVE  Agrees'
<1> SUFFICES ASSUME ~astray, socket = Meant PROVE Coherent' /\ FlagMatches' /\ TornIsClosed'
  BY DEF Agrees, CloseSwaps, FlagMatches, TornIsClosed
<1>0. /\ Assigning
      /\ \A x \in open : (connected = "yes" /\ x = Meant) \/ Closing(x)
  BY DEF Agrees, Coherent, FlagMatches
<1>1. /\ pc[p] = "fail" /\ pc'[p] = "hit" /\ local'[p] = Meant /\ connected' = "no"
      /\ \A q \in Procs \ {p} : pc'[q] = pc[q] /\ local'[q] = local[q]
      /\ UNCHANGED <<socket, open, torn>>
  BY TypedFunctions DEF CloseSwaps, Goto, conns
<1>2. \A q \in Procs : pc[q] # "assign" BY <1>0, MeantNow DEF Assigning
<1>3. Coherent' BY <1>1, <1>2 DEF Coherent, Assigning, OthersAreHit
<1>4. \A x \in open : Closing(x)'
  <2> TAKE x \in open
  <2>1. CASE x = Meant BY <1>1, <2>1 DEF Closing
  <2>2. CASE Closing(x) BY <1>1, <2>2 DEF Closing
  <2> QED BY <1>0, <2>1, <2>2
<1>5. FlagMatches' /\ TornIsClosed' BY <1>1, <1>4 DEF FlagMatches, TornIsClosed
<1> QED BY <1>3, <1>5

\* Nothing is found: whatever is open is about to be closed by somebody else.
LEMMA FindsAgrees ==
  ASSUME Typed, Agrees, NEW p \in Procs, CloseFindsNothing(p)
  PROVE  Agrees'
<1> SUFFICES ASSUME ~astray PROVE Coherent' /\ FlagMatches' /\ TornIsClosed'
  BY DEF Agrees, CloseFindsNothing, FlagMatches, TornIsClosed
<1>0. Assigning /\ \A x \in open : Closing(x)
  BY DEF Agrees, Coherent, FlagMatches, CloseFindsNothing
<1>1. /\ pc[p] = "fail" /\ pc'[p] \in Afterwards /\ connected # "yes"
      /\ \A q \in Procs \ {p} : pc'[q] = pc[q] /\ local'[q] = local[q]
      /\ UNCHANGED <<connected, socket, open, torn, astray>>
  BY TypedFunctions DEF CloseFindsNothing, Fails, Returns, Goto, conns
<1>2. Coherent' BY <1>0, <1>1 DEF Coherent, Assigning, OthersAreHit, Afterwards
<1>3. \A x \in open : Closing(x)' BY <1>0, <1>1 DEF Closing
<1>4. FlagMatches' /\ TornIsClosed' BY <1>1, <1>3 DEF FlagMatches, TornIsClosed
<1> QED BY <1>2, <1>4

\* The connection that was to be closed is, unless the step goes astray.
LEMMA HitsAgrees ==
  ASSUME Typed, Agrees, NEW p \in Procs, CloseHits(p)
  PROVE  Agrees'
<1> SUFFICES ASSUME ~astray, socket = local[p]
             PROVE  Coherent' /\ FlagMatches' /\ TornIsClosed'
  BY DEF Agrees, CloseHits, FlagMatches, TornIsClosed
<1>0. /\ Assigning /\ OthersAreHit
      /\ connected = "yes" => Meant \in open
      /\ \A x \in open : (connected = "yes" /\ x = Meant) \/ Closing(x)
      /\ \A x \in torn \cap open :
           Closing(x) \/ \E q \in Procs : pc[q] = "fail" /\ local[q] = x
  BY DEF Agrees, Coherent, FlagMatches, TornIsClosed
<1>1. /\ pc[p] = "hit" /\ pc'[p] \in Afterwards
      /\ open' = open \ {socket} /\ torn' = torn \ {socket}
      /\ \A q \in Procs \ {p} : pc'[q] = pc[q] /\ local'[q] = local[q]
      /\ UNCHANGED <<connected, socket>> /\ ~astray'
  BY TypedFunctions DEF CloseHits, Fails, Returns, Goto
<1>2. ASSUME NEW q \in Procs
      PROVE  /\ pc'[q] = "assign" <=> pc[q] = "assign"
             /\ pc'[q] \in {"hit", "assign"} => pc'[q] = pc[q] /\ local'[q] = local[q]
  BY <1>1 DEF Afterwards
<1>3. Assigning' BY <1>0, <1>1, <1>2 DEF Assigning
<1>4. Meant' = Meant
  <2>1. CASE \E q \in Procs : pc[q] = "assign"
    BY <1>0, <1>1, <1>2, <1>3, <2>1, MeantNow, MeantNext DEF Assigning
  <2>2. CASE \A q \in Procs : pc[q] # "assign"
    BY <1>0, <1>1, <1>2, <1>3, <2>2, MeantNow, MeantNext DEF Assigning
  <2> QED BY <2>1, <2>2
<1>5. \A x : Closing(x) /\ x # socket => Closing(x)' BY <1>1 DEF Closing
<1>6. connected = "yes" => Meant # socket BY <1>0, <1>1 DEF OthersAreHit
<1>7. OthersAreHit' BY <1>0, <1>1, <1>2, <1>4 DEF OthersAreHit
<1>8. FlagMatches' BY <1>0, <1>1, <1>4, <1>5, <1>6 DEF FlagMatches
<1>9. TornIsClosed' BY <1>0, <1>1, <1>5 DEF TornIsClosed
<1> QED BY <1>3, <1>7, <1>8, <1>9 DEF Coherent

-----------------------------------------------------------------------------
\* Who is past the first Connect has a connection in the field.
LEMMA Started ==
  ASSUME Typed, Early, NEW p \in Procs,
         pc[p] \in {"won", "write", "read", "fail", "hit", "shut", "register",
                    "reconnect", "response"}
  PROVE  socket # None
BY SocketAssumption DEF Early, Procs

\* The types after a step of p.
Moved(p) ==
  /\ pc' \in [Procs -> Labels] /\ then' \in [Procs -> Afterwards]
  /\ local' \in [Procs -> Conns \cup {None}]
  /\ \A q \in Procs \ {p} : pc'[q] = pc[q] /\ local'[q] = local[q] /\ then'[q] = then[q]
  /\ pc'[p] \in {"write", "read", "assign"} => local'[p] # None
  /\ pc'[p] = "hit" => socket # None

LEMMA MovedTyped ==
  ASSUME Typed, NEW p \in Procs, Moved(p),
         connected' \in {"no", "ing", "yes"}, socket' \in Conns \/ UNCHANGED socket,
         open' \subseteq Conns, live' \subseteq Conns, torn' \subseteq Conns,
         UNCHANGED <<drops, closes>>, astray' \in BOOLEAN
  PROVE  Typed'
<1>1. /\ \A q \in Procs : pc[q] \in {"write", "read", "assign"} => local[q] # None
      /\ (\E q \in Procs : pc[q] = "hit") => socket # None
      /\ socket \in Conns \cup {None}
  BY DEF Typed, TypeOK
<1>2. None \notin Conns BY DEF None, Conns
<1>3. \A q \in Procs : pc'[q] \in {"write", "read", "assign"} => local'[q] # None
  BY <1>1 DEF Moved
<1>4. (\E q \in Procs : pc'[q] = "hit") => socket' # None
  BY <1>1, <1>2 DEF Moved
<1>5. then' \in [Procs -> Labels] BY DEF Moved, Afterwards, Labels
<1>6. drops' \in 0..MaxDrops /\ closes' \in 0..MaxCloses
  BY DEF Typed, TypeOK
<1>7. socket' \in Conns \cup {None} BY <1>1
<1> QED BY <1>3, <1>4, <1>5, <1>6, <1>7 DEF Moved, Typed, TypeOK

LEMMA ConnectBeginsStep ==
  ASSUME Typed, Early, NEW p \in Procs, ConnectBegins(p)
  PROVE  Typed' /\ Early' /\ Calm(p)
<1> USE DEF ConnectBegins, Connects, Goto, Returns, Fails, conns, counters
<1>2. Moved(p) BY TypedFunctions DEF Moved, Labels, Afterwards
<1>3. Typed' BY <1>2, MovedTyped DEF Typed, TypeOK
<1>4. Early' BY SocketAssumption, TypedFunctions DEF Early, Procs
<1>5. Calm(p) BY TypedFunctions DEF Calm, Afterwards
<1> QED BY <1>3, <1>4, <1>5

LEMMA ConnectRefusedStep ==
  ASSUME Typed, Early, NEW p \in Procs, ConnectRefused(p)
  PROVE  Typed' /\ Early' /\ Calm(p)
<1> USE DEF ConnectRefused, Connects, Goto, Returns, Fails, conns, counters
<1>2. Moved(p) BY TypedFunctions DEF Moved, Labels, Afterwards
<1>3. Typed' BY <1>2, MovedTyped DEF Typed, TypeOK
<1>4. Early' BY SocketAssumption, TypedFunctions DEF Early, Procs
<1>5. Calm(p) BY TypedFunctions DEF Calm, Afterwards
<1> QED BY <1>3, <1>4, <1>5

LEMMA DialFailsStep ==
  ASSUME Typed, Early, NEW p \in Procs, DialFails(p)
  PROVE  Typed' /\ Early' /\ Calm(p)
<1> USE DEF DialFails, Goto, Returns, Fails, conns, counters
<1>2. Moved(p) BY TypedFunctions DEF Moved, Labels, Afterwards
<1>3. Typed' BY <1>2, MovedTyped DEF Typed, TypeOK
<1>4. Early' BY SocketAssumption, TypedFunctions DEF Early, Procs
<1>5. Calm(p) BY TypedFunctions DEF Calm, Afterwards
<1> QED BY <1>3, <1>4, <1>5

LEMMA DeferredStep ==
  ASSUME Typed, Early, NEW p \in Procs, Deferred(p)
  PROVE  Typed' /\ Early' /\ Calm(p)
<1> USE DEF Deferred, Goto, Returns, Fails, conns, counters
<1>2. Moved(p) BY TypedFunctions DEF Moved, Labels, Afterwards
<1>3. Typed' BY <1>2, MovedTyped DEF Typed, TypeOK
<1>4. Early' BY SocketAssumption, TypedFunctions DEF Early, Procs
<1>5. Calm(p) BY TypedFunctions DEF Calm, Afterwards
<1> QED BY <1>3, <1>4, <1>5

LEMMA SendRefusedStep ==
  ASSUME Typed, Early, NEW p \in Procs, SendRefused(p)
  PROVE  Typed' /\ Early' /\ Calm(p)
<1> USE DEF SendRefused, Sends, Goto, Returns, Fails, conns, counters
<1>1. socket # None BY Started DEF Sends
<1>2. Moved(p) BY <1>1, TypedFunctions DEF Moved, Labels, Afterwards
<1>3. Typed' BY <1>2, MovedTyped DEF Typed, TypeOK
<1>4. Early' BY <1>1 DEF Early
<1>5. Calm(p) BY TypedFunctions DEF Calm, Afterwards
<1> QED BY <1>3, <1>4, <1>5

LEMMA SendBeginsStep ==
  ASSUME Typed, Early, NEW p \in Procs, SendBegins(p)
  PROVE  Typed' /\ Early' /\ Calm(p)
<1> USE DEF SendBegins, Sends, Goto, Returns, Fails, conns, counters
<1>1. socket # None /\ socket \in Conns BY DEF Typed, TypeOK
<1>2. Moved(p) BY <1>1, TypedFunctions DEF Moved, Labels, Afterwards
<1>3. Typed' BY <1>2, MovedTyped DEF Typed, TypeOK
<1>4. Early' BY <1>1 DEF Early
<1>5. Calm(p) BY TypedFunctions DEF Calm, Afterwards
<1> QED BY <1>3, <1>4, <1>5

LEMMA SendWritesStep ==
  ASSUME Typed, Early, NEW p \in Procs, SendWrites(p)
  PROVE  Typed' /\ Early' /\ Calm(p)
<1> USE DEF SendWrites, Goto, Returns, Fails, conns, counters
<1>1. socket # None BY Started
<1>2. Moved(p) BY <1>1, TypedFunctions DEF Moved, Labels, Afterwards
<1>3. Typed' BY <1>2, MovedTyped DEF Typed, TypeOK
<1>4. Early' BY <1>1 DEF Early
<1>5. Calm(p) BY TypedFunctions DEF Calm, Afterwards
<1> QED BY <1>3, <1>4, <1>5

LEMMA SendTimesOutStep ==
  ASSUME Typed, Early, NEW p \in Procs, SendTimesOut(p)
  PROVE  Typed' /\ Early' /\ Calm(p)
<1> USE DEF SendTimesOut, Goto, Returns, Fails, conns, counters
<1>1. socket # None BY Started
<1>2. Moved(p) BY <1>1, TypedFunctions DEF Moved, Labels, Afterwards
<1>3. Typed' BY <1>2, MovedTyped DEF Typed, TypeOK
<1>4. Early' BY <1>1 DEF Early
<1>5. Calm(p) BY TypedFunctions DEF Calm, Afterwards
<1> QED BY <1>3, <1>4, <1>5

LEMMA SendFailsStep ==
  ASSUME Typed, Early, NEW p \in Procs, SendFails(p)
  PROVE  Typed' /\ Early' /\ Calm(p)
<1> USE DEF SendFails, Goto, Returns, Fails, conns, counters
<1>1. socket # None BY Started
<1>2. Moved(p) BY <1>1, TypedFunctions DEF Moved, Labels, Afterwards
<1>3. Typed' BY <1>2, MovedTyped DEF Typed, TypeOK
<1>4. Early' BY <1>1 DEF Early
<1>5. Calm(p) BY TypedFunctions DEF Calm, Afterwards
<1> QED BY <1>3, <1>4, <1>5

LEMMA ReceiveBeginsStep ==
  ASSUME Typed, Early, ReceiveBegins
  PROVE  Typed' /\ Early' /\ Calm(Receiver)
<1> USE DEF ReceiveBegins, Goto, Returns, Fails, conns, counters
<1>0. Receiver \in Procs BY DEF Procs
<1>1. socket # None /\ socket \in Conns BY DEF Typed, TypeOK
<1>2. Moved(Receiver) BY <1>0, <1>1, TypedFunctions DEF Moved, Labels, Afterwards
<1>3. Typed' BY <1>0, <1>2, MovedTyped DEF Typed, TypeOK
<1>4. Early' BY <1>1 DEF Early
<1>5. Calm(Receiver) BY <1>0, TypedFunctions DEF Calm, Afterwards
<1> QED BY <1>3, <1>4, <1>5

LEMMA ReceiveReturnsStep ==
  ASSUME Typed, Early, ReceiveReturns
  PROVE  Typed' /\ Early' /\ Calm(Receiver)
<1> USE DEF ReceiveReturns, Goto, Returns, Fails, conns, counters
<1>0. Receiver \in Procs BY DEF Procs
<1>1. socket # None BY <1>0, Started
<1>2. Moved(Receiver) BY <1>0, <1>1, TypedFunctions DEF Moved, Labels, Afterwards
<1>3. Typed' BY <1>0, <1>2, MovedTyped DEF Typed, TypeOK
<1>4. Early' BY <1>1 DEF Early
<1>5. Calm(Receiver) BY <1>0, TypedFunctions DEF Calm, Afterwards
<1> QED BY <1>3, <1>4, <1>5

LEMMA ReceiveFailsStep ==
  ASSUME Typed, Early, ReceiveFails
  PROVE  Typed' /\ Early' /\ Calm(Receiver)
<1> USE DEF ReceiveFails, Goto, Returns, Fails, conns, counters
<1>0. Receiver \in Procs BY DEF Procs
<1>1. socket # None BY <1>0, Started
<1>2. Moved(Receiver) BY <1>0, <1>1, TypedFunctions DEF Moved, Labels, Afterwards
<1>3. Typed' BY <1>0, <1>2, MovedTyped DEF Typed, TypeOK
<1>4. Early' BY <1>1 DEF Early
<1>5. Calm(Receiver) BY <1>0, TypedFunctions DEF Calm, Afterwards
<1> QED BY <1>3, <1>4, <1>5

LEMMA CloseCancelsStep ==
  ASSUME Typed, Early, CloseCancels
  PROVE  Typed' /\ Early' /\ Calm(Owner)
<1> USE DEF CloseCancels, Goto, Returns, Fails, conns, counters
<1>0. Owner \in Procs BY DEF Procs
<1>1. socket # None BY <1>0, Started
<1>2. Moved(Owner) BY <1>0, <1>1, TypedFunctions DEF Moved, Labels, Afterwards
<1>3. Typed' BY <1>0, <1>2, MovedTyped DEF Typed, TypeOK
<1>4. Early' BY <1>1 DEF Early
<1>5. Calm(Owner) BY <1>0, TypedFunctions DEF Calm, Afterwards
<1> QED BY <1>3, <1>4, <1>5

LEMMA SendTearsTyped ==
  ASSUME Typed, Early, NEW p \in Procs, SendTears(p)
  PROVE  Typed' /\ Early'
<1> USE DEF SendTears, Goto, Returns, Fails, conns, counters
<1>1. socket # None BY Started
<1>2. Moved(p) BY <1>1, TypedFunctions DEF Moved, Labels, Afterwards
<1>3. Typed' BY <1>2, MovedTyped DEF Typed, TypeOK
<1>4. Early' BY <1>1 DEF Early
<1> QED BY <1>3, <1>4

LEMMA CloseFindsNothingTyped ==
  ASSUME Typed, Early, NEW p \in Procs, CloseFindsNothing(p)
  PROVE  Typed' /\ Early'
<1> USE DEF CloseFindsNothing, Goto, Returns, Fails, conns, counters
<1>1. socket # None BY Started
<1>2. Moved(p) BY <1>1, TypedFunctions DEF Moved, Labels, Afterwards
<1>3. Typed' BY <1>2, MovedTyped DEF Typed, TypeOK
<1>4. Early' BY <1>1 DEF Early
<1> QED BY <1>3, <1>4

LEMMA CloseHitsTyped ==
  ASSUME Typed, Early, NEW p \in Procs, CloseHits(p)
  PROVE  Typed' /\ Early'
<1> USE DEF CloseHits, Goto, Returns, Fails, conns, counters
<1>1. socket # None BY Started
<1>2. Moved(p) BY <1>1, TypedFunctions DEF Moved, Labels, Afterwards
<1>3. astray' \in BOOLEAN OBVIOUS
<1>4. Typed' BY <1>2, <1>3, MovedTyped DEF Typed, TypeOK
<1>5. Early' BY <1>1 DEF Early
<1> QED BY <1>4, <1>5

LEMMA MeantType == Typed => Meant \in Conns \cup {None}
<1> SUFFICES ASSUME Typed PROVE Meant \in Conns \cup {None}
  OBVIOUS
<1>1. CASE \E q \in Procs : pc[q] = "assign"
  <2>1. (CHOOSE q \in Procs : pc[q] = "assign") \in Procs BY <1>1
  <2> QED BY <1>1, <2>1, TypedFunctions DEF Meant
<1>2. CASE ~ \E q \in Procs : pc[q] = "assign"
  BY <1>2 DEF Meant, Typed, TypeOK
<1> QED BY <1>1, <1>2

LEMMA CloseSwapsTyped ==
  ASSUME Typed, Early, NEW p \in Procs, CloseSwaps(p)
  PROVE  Typed' /\ Early'
<1> USE DEF CloseSwaps, Goto, conns, counters
<1>1. socket # None BY Started
<1>2. Moved(p) BY <1>1, TypedFunctions, MeantType DEF Moved, Labels, Afterwards
<1>3. astray' \in BOOLEAN OBVIOUS
<1>4. Typed' BY <1>2, <1>3, MovedTyped DEF Typed, TypeOK
<1>5. Early' BY <1>1 DEF Early
<1> QED BY <1>4, <1>5

LEMMA DialSucceedsTyped ==
  ASSUME Typed, Early, NEW p \in Procs, DialSucceeds(p)
  PROVE  Typed' /\ Early'
<1> USE DEF DialSucceeds, Goto, conns, counters
<1>1. PICK x \in Conns : /\ open' = open \cup {x} /\ live' = live \cup {x}
                         /\ torn' = torn \ {x} /\ local' = [local EXCEPT ![p] = x]
  BY DEF Unused
<1>2. x # None BY DEF Conns, None
<1>3. Moved(p) BY <1>1, <1>2, TypedFunctions DEF Moved, Labels
<1>4. Typed' BY <1>1, <1>3, MovedTyped DEF Typed, TypeOK
<1>5. Early' BY SocketAssumption, TypedFunctions DEF Early, Procs
<1> QED BY <1>4, <1>5

LEMMA AssignsTyped ==
  ASSUME Typed, Early, NEW p \in Procs, Assigns(p)
  PROVE  Typed' /\ Early'
<1> USE DEF Assigns, Goto, conns, counters
<1>1. local[p] \in Conns BY TypedFunctions DEF Typed
<1>2. Moved(p) BY TypedFunctions DEF Moved, Labels
<1>3. Typed' BY <1>1, <1>2, MovedTyped DEF Typed, TypeOK
<1>4. socket' # None BY <1>1 DEF Conns, None
<1> QED BY <1>3, <1>4 DEF Early

\* The steps that count.
LEMMA CallsCloseStep ==
  ASSUME Typed, Early, CallsClose
  PROVE  Typed' /\ Early' /\ Calm(Owner)
<1> USE DEF CallsClose, Goto, conns
<1>0. Owner \in Procs BY DEF Procs
<1>1. socket # None BY DEF Early
<1>2. /\ pc' \in [Procs -> Labels] /\ then' \in [Procs -> Afterwards]
      /\ pc'[Owner] = "shut" /\ \A q \in Procs \ {Owner} : pc'[q] = pc[q]
  BY <1>0, TypedFunctions DEF Labels, Afterwards
<1>3. closes' \in 0..MaxCloses BY SocketAssumption DEF Typed, TypeOK
<1>4. then' \in [Procs -> Labels] BY <1>2 DEF Afterwards, Labels
<1>5. /\ \A q \in Procs : pc'[q] \in {"write", "read", "assign"} => local[q] # None
  BY <1>2 DEF Typed, TypeOK
<1>6. Typed' BY <1>1, <1>2, <1>3, <1>4, <1>5 DEF Typed, TypeOK
<1>7. Early' BY <1>1 DEF Early
<1>8. Calm(Owner) BY <1>2 DEF Calm
<1> QED BY <1>6, <1>7, <1>8

LEMMA DropsStep ==
  ASSUME Typed, Early, Drops
  PROVE  Typed' /\ Early' /\ UNCHANGED <<connected, socket, open, torn, pc, local, astray>>
<1> USE DEF Drops
<1>1. drops' \in 0..MaxDrops BY SocketAssumption DEF Typed, TypeOK
<1>2. live' \subseteq Conns BY DEF Typed, TypeOK
<1>3. Typed' BY <1>1, <1>2 DEF Typed, TypeOK
<1> QED BY <1>3 DEF Early

-----------------------------------------------------------------------------
LEMMA Invariance == Spec => []IInv
<1>1. IInv /\ [Next]_vars => IInv'
  <2> SUFFICES ASSUME Typed, Early, Agrees, [Next]_vars
               PROVE  Typed' /\ Early' /\ Agrees'
    BY DEF IInv
  <2>0. Owner \in Procs /\ Receiver \in Procs /\ Heart \in Procs BY DEF Procs
  <2>1. ASSUME NEW p \in Procs, ConnectBegins(p) \/ ConnectRefused(p) \/ Connecting(p)
        PROVE  Typed' /\ Early' /\ Agrees'
    <3>1. CASE ConnectBegins(p) BY <3>1, ConnectBeginsStep, CalmStep
    <3>2. CASE ConnectRefused(p) BY <3>2, ConnectRefusedStep, CalmStep
    <3>3. CASE DialSucceeds(p) BY <3>3, DialSucceedsTyped, DialAgrees
    <3>4. CASE DialFails(p) BY <3>4, DialFailsStep, CalmStep
    <3>5. CASE Assigns(p) BY <3>5, AssignsTyped, AssignsAgrees
    <3>6. CASE Deferred(p) BY <3>6, DeferredStep, CalmStep
    <3> QED BY <2>1, <3>1, <3>2, <3>3, <3>4, <3>5, <3>6 DEF Connecting
  <2>2. ASSUME NEW p \in Procs, SendRefused(p) \/ SendBegins(p) \/ Sending(p)
        PROVE  Typed' /\ Early' /\ Agrees'
    <3>1. CASE SendRefused(p) BY <3>1, SendRefusedStep, CalmStep
    <3>2. CASE SendBegins(p) BY <3>2, SendBeginsStep, CalmStep
    <3>3. CASE SendWrites(p) BY <3>3, SendWritesStep, CalmStep
    <3>4. CASE SendTimesOut(p) BY <3>4, SendTimesOutStep, CalmStep
    <3>5. CASE SendTears(p) BY <3>5, SendTearsTyped, TearsAgrees
    <3>6. CASE SendFails(p) BY <3>6, SendFailsStep, CalmStep
    <3> QED BY <2>2, <3>1, <3>2, <3>3, <3>4, <3>5, <3>6 DEF Sending
  <2>3. ASSUME NEW p \in Procs, Tearing(p)
        PROVE  Typed' /\ Early' /\ Agrees'
    <3>1. CASE CloseSwaps(p) BY <3>1, CloseSwapsTyped, SwapsAgrees
    <3>2. CASE CloseFindsNothing(p) BY <3>2, CloseFindsNothingTyped, FindsAgrees
    <3>3. CASE CloseHits(p) BY <3>3, CloseHitsTyped, HitsAgrees
    <3> QED BY <2>3, <3>1, <3>2, <3>3 DEF Tearing
  <2>4. CASE Receiving
    <3>1. CASE ReceiveBegins BY <2>0, <3>1, ReceiveBeginsStep, CalmStep
    <3>2. CASE ReceiveReturns BY <2>0, <3>2, ReceiveReturnsStep, CalmStep
    <3>3. CASE ReceiveFails BY <2>0, <3>3, ReceiveFailsStep, CalmStep
    <3> QED BY <2>4, <3>1, <3>2, <3>3 DEF Receiving
  <2>5. CASE CallsClose BY <2>0, <2>5, CallsCloseStep, CalmStep
  <2>6. CASE CloseCancels BY <2>0, <2>6, CloseCancelsStep, CalmStep
  <2>7. CASE Drops BY <2>7, DropsStep, StillStep
  <2>8. CASE UNCHANGED vars
    <3>1. Typed' /\ Early' BY <2>8 DEF vars, Typed, TypeOK, Early
    <3> QED BY <2>8, <3>1, StillStep DEF vars
  <2> QED BY <2>0, <2>1, <2>2, <2>3, <2>4, <2>5, <2>6, <2>7, <2>8
          DEF Next, ReceiverStep, OwnerStep, HeartStep
<1> QED BY <1>1, InitIInv, PTL DEF Spec

-----------------------------------------------------------------------------
\* Types, and that nobody sends, receives or closes before there is a
\* connection in the field.
THEOREM TypeCorrect == Spec => []TypeOK
<1>1. IInv => TypeOK BY DEF IInv, Typed
<1> QED BY <1>1, Invariance, PTL

\* The flag tells the truth and no connection is left open, however many
\* Connects and Closes overlap, unless one of them went astray.
THEOREM FlagTellsTheTruth == Spec => []FlagMatches
<1>1. IInv => FlagMatches BY DEF IInv, Agrees
<1> QED BY <1>1, Invariance, PTL

\* A stream with half a frame in it is closed by the call that tore it.
THEOREM TornStreamsAreClosed == Spec => []TornIsClosed
<1>1. IInv => TornIsClosed BY DEF IInv, Agrees
<1> QED BY <1>1, Invariance, PTL

-----------------------------------------------------------------------------
(* The socket implements AtomicSocket.                                     *)

LEMMA MeantStays ==
  ASSUME Assigning, Assigning', UNCHANGED socket, NEW p \in Procs,
         pc[p] # "assign", pc'[p] # "assign",
         \A q \in Procs \ {p} : pc'[q] = pc[q] /\ local'[q] = local[q]
  PROVE  Meant' = Meant
<1>1. CASE \E q \in Procs : pc[q] = "assign"
  <2>1. PICK q \in Procs : pc[q] = "assign" BY <1>1
  <2>2. pc'[q] = "assign" /\ local'[q] = local[q] BY <2>1
  <2> QED BY <2>1, <2>2, MeantNow, MeantNext DEF Assigning
<1>2. CASE \A q \in Procs : pc[q] # "assign"
  <2>1. \A q \in Procs : pc'[q] # "assign" BY <1>2
  <2> QED BY <1>2, <2>1, MeantNow, MeantNext DEF Assigning
<1> QED BY <1>1, <1>2

\* A step that closes nothing and opens nothing starts an attempt to connect,
\* ends one in vain, or is invisible.
Quiet ==
  /\ UNCHANGED <<open, live, astray>>
  /\ \/ UNCHANGED connected
     \/ connected = "no" /\ connected' = "ing"
     \/ connected = "ing" /\ connected' = "no"

Acts == Atomic!Next \/ UNCHANGED <<connected, End>>

LEMMA QuietActs ==
  ASSUME Quiet, Meant' = Meant
  PROVE  Acts
<1>1. UNCHANGED End BY DEF Quiet, End
<1> QED BY <1>1 DEF Quiet, Acts, Atomic!Next, Atomic!Connect, Atomic!Fail

LEMMA CalmActs ==
  ASSUME IInv, IInv', ~astray, ~astray', NEW p \in Procs, Calm(p), Quiet
  PROVE  Acts
<1>1. Assigning /\ Assigning' BY DEF IInv, Agrees, Coherent
<1>2. Meant' = Meant BY <1>1, MeantStays DEF Calm
<1> QED BY <1>2, QuietActs

LEMMA DialActs ==
  ASSUME IInv, IInv', ~astray, ~astray', NEW p \in Procs, DialSucceeds(p)
  PROVE  Acts
<1>1. PICK x \in Unused : /\ open' = open \cup {x} /\ live' = live \cup {x}
                          /\ local' = [local EXCEPT ![p] = x]
  BY DEF DialSucceeds
<1>2. /\ connected = "ing" /\ connected' = "yes"
      /\ pc'[p] = "assign" /\ local'[p] = x
  BY <1>1, TypedFunctions DEF DialSucceeds, Goto, IInv
<1>3. Meant' = x BY <1>2, MeantNext DEF IInv, Agrees, Coherent, Assigning
<1>4. End = "shut" /\ End' = "open" BY <1>1, <1>2, <1>3 DEF End
<1> QED BY <1>2, <1>4 DEF Acts, Atomic!Next, Atomic!Succeed

LEMMA AssignsActs ==
  ASSUME IInv, IInv', ~astray, ~astray', NEW p \in Procs, Assigns(p)
  PROVE  Acts
<1>0. Assigning /\ Assigning' BY DEF IInv, Agrees, Coherent
<1>1. /\ pc[p] = "assign" /\ pc'[p] = "won" /\ socket' = local[p]
      /\ \A q \in Procs \ {p} : pc'[q] = pc[q]
  BY TypedFunctions DEF Assigns, Goto, IInv
<1>2. \A q \in Procs : pc'[q] # "assign" BY <1>0, <1>1 DEF Assigning
<1>3. Meant' = Meant
  <2>1. Meant = local[p] BY <1>0, <1>1, MeantNow DEF Assigning
  <2>2. Meant' = socket' BY <1>2, MeantNext
  <2> QED BY <1>1, <2>1, <2>2
<1>4. Quiet BY DEF Assigns, Quiet, conns
<1> QED BY <1>3, <1>4, QuietActs

LEMMA TearsActs ==
  ASSUME IInv, IInv', ~astray, ~astray', NEW p \in Procs,
         SendTears(p) \/ CloseFindsNothing(p)
  PROVE  Acts
<1>1. /\ pc[p] \in {"write", "fail"} /\ pc'[p] # "assign"
      /\ \A q \in Procs \ {p} : pc'[q] = pc[q] /\ local'[q] = local[q]
      /\ UNCHANGED socket
  BY TypedFunctions
  DEF SendTears, CloseFindsNothing, Fails, Returns, Goto, IInv, Afterwards
<1>2. Assigning /\ Assigning' BY DEF IInv, Agrees, Coherent
<1>3. Meant' = Meant BY <1>1, <1>2, MeantStays
<1>4. Quiet BY DEF SendTears, CloseFindsNothing, Quiet, conns
<1> QED BY <1>3, <1>4, QuietActs

\* close() takes effect where it resets the flag ...
LEMMA SwapsActs ==
  ASSUME NEW p \in Procs, CloseSwaps(p)
  PROVE  Acts
<1>1. connected = "yes" /\ connected' = "no" BY DEF CloseSwaps
<1>2. End' = "shut" BY <1>1 DEF End
<1> QED BY <1>1, <1>2 DEF Acts, Atomic!Next, Atomic!Close

\* ... and what it does to the connection afterwards cannot be seen: if the
\* flag is set again, it stands for another connection.
LEMMA HitsActs ==
  ASSUME IInv, IInv', ~astray, ~astray', NEW p \in Procs, CloseHits(p)
  PROVE  Acts
<1>0. Assigning /\ Assigning' /\ OthersAreHit BY DEF IInv, Agrees, Coherent
<1>1. /\ pc[p] = "hit" /\ pc'[p] # "assign" /\ socket = local[p]
      /\ open' = open \ {socket} /\ live' = live \ {socket}
      /\ \A q \in Procs \ {p} : pc'[q] = pc[q] /\ local'[q] = local[q]
      /\ UNCHANGED <<connected, socket>>
  BY TypedFunctions DEF CloseHits, Fails, Returns, Goto, IInv, Afterwards
<1>2. Meant' = Meant BY <1>0, <1>1, MeantStays
<1>3. connected = "yes" => Meant # socket BY <1>0, <1>1 DEF OthersAreHit
<1>4. UNCHANGED End BY <1>1, <1>2, <1>3 DEF End
<1> QED BY <1>1, <1>4 DEF Acts

LEMMA DropsActs ==
  ASSUME IInv, IInv', ~astray, ~astray', Drops
  PROVE  Acts
<1>1. PICK x \in live \cap open : live' = live \ {x} BY DEF Drops
<1>2. UNCHANGED <<connected, open>> /\ Meant' = Meant BY DEF Drops, Meant
<1>3. CASE connected = "yes" /\ x = Meant
  <2>1. End = "open" /\ End' = "lost" BY <1>1, <1>2, <1>3 DEF End
  <2> QED BY <1>2, <2>1 DEF Acts, Atomic!Next, Atomic!Lose
<1>4. CASE connected # "yes" \/ x # Meant
  <2>1. UNCHANGED End BY <1>1, <1>2, <1>4 DEF End
  <2> QED BY <1>2, <2>1 DEF Acts
<1> QED BY <1>3, <1>4

LEMMA NextActs ==
  ASSUME IInv, IInv', [Next]_vars, ~astray'
  PROVE  Acts
<1> USE DEF IInv
<1>0. /\ Owner \in Procs /\ Receiver \in Procs /\ Heart \in Procs
  BY DEF Procs
<1>1. ASSUME NEW p \in Procs,
             ConnectBegins(p) \/ ConnectRefused(p) \/ Connecting(p)
      PROVE  Acts
  <2>0. ~astray
    BY <1>1 DEF ConnectBegins, ConnectRefused, Connecting, DialSucceeds, DialFails,
                Assigns, Deferred
  <2>1. CASE DialSucceeds(p) BY <2>0, <2>1, DialActs
  <2>2. CASE Assigns(p) BY <2>0, <2>2, AssignsActs
  <2>3. CASE ConnectBegins(p) \/ ConnectRefused(p) \/ DialFails(p) \/ Deferred(p)
    <3>1. Calm(p)
      BY <2>3, ConnectBeginsStep, ConnectRefusedStep, DialFailsStep, DeferredStep
    <3>2. Quiet
      BY <2>3 DEF ConnectBegins, ConnectRefused, DialFails, Deferred, Quiet, conns
    <3> QED BY <2>0, <3>1, <3>2, CalmActs
  <2> QED BY <1>1, <2>1, <2>2, <2>3 DEF Connecting
<1>2. ASSUME NEW p \in Procs, SendRefused(p) \/ SendBegins(p) \/ Sending(p)
      PROVE  Acts
  <2>0. ~astray
    BY <1>2 DEF SendRefused, SendBegins, Sending, SendWrites, SendTimesOut,
                SendTears, SendFails
  <2>1. CASE SendTears(p) BY <2>0, <2>1, TearsActs
  <2>2. CASE \/ SendRefused(p) \/ SendBegins(p) \/ SendWrites(p)
             \/ SendTimesOut(p) \/ SendFails(p)
    <3>1. Calm(p)
      BY <2>2, SendRefusedStep, SendBeginsStep, SendWritesStep, SendTimesOutStep,
         SendFailsStep
    <3>2. Quiet
      BY <2>2 DEF SendRefused, SendBegins, SendWrites, SendTimesOut, SendFails,
                  Quiet, conns
    <3> QED BY <2>0, <3>1, <3>2, CalmActs
  <2> QED BY <1>2, <2>1, <2>2 DEF Sending
<1>3. ASSUME NEW p \in Procs, Tearing(p)
      PROVE  Acts
  <2>0. ~astray
    BY <1>3 DEF Tearing, CloseSwaps, CloseFindsNothing, CloseHits
  <2>1. CASE CloseSwaps(p) BY <2>1, SwapsActs
  <2>2. CASE CloseFindsNothing(p) BY <2>0, <2>2, TearsActs
  <2>3. CASE CloseHits(p) BY <2>0, <2>3, HitsActs
  <2> QED BY <1>3, <2>1, <2>2, <2>3 DEF Tearing
<1>4. CASE Receiving
  <2>0. ~astray
    BY <1>4 DEF Receiving, ReceiveBegins, ReceiveReturns, ReceiveFails
  <2>1. Calm(Receiver)
    BY <1>4, ReceiveBeginsStep, ReceiveReturnsStep, ReceiveFailsStep DEF Receiving
  <2>2. Quiet
    BY <1>4 DEF Receiving, ReceiveBegins, ReceiveReturns, ReceiveFails, Quiet, conns
  <2> QED BY <1>0, <2>0, <2>1, <2>2, CalmActs
<1>5. CASE CallsClose \/ CloseCancels
  <2>0. ~astray BY <1>5 DEF CallsClose, CloseCancels
  <2>1. Calm(Owner) BY <1>5, CallsCloseStep, CloseCancelsStep
  <2>2. Quiet BY <1>5 DEF CallsClose, CloseCancels, Quiet, conns
  <2> QED BY <1>0, <2>0, <2>1, <2>2, CalmActs
<1>6. CASE Drops
  <2>1. ~astray BY <1>6 DEF Drops
  <2> QED BY <1>6, <2>1, DropsActs
<1>7. CASE UNCHANGED vars
  <2>1. Meant' = Meant BY <1>7 DEF vars, Meant
  <2>2. Quiet BY <1>7 DEF vars, Quiet
  <2> QED BY <2>1, <2>2, QuietActs
<1> QED BY <1>0, <1>1, <1>2, <1>3, <1>4, <1>5, <1>6, <1>7
        DEF Next, ReceiverStep, OwnerStep, HeartStep

\* Connect and close() take effect in one step each, whoever else is between
\* the two halves of such a call: a socket never shows its goroutines more
\* than AtomicSocket allows, unless a step has gone astray.
THEOREM ConnectAndCloseAreAtomic == Spec => ActsAtomically
<1>1. IInv /\ IInv' /\ [Next]_vars
        => [~astray' => Atomic!Next \/ UNCHANGED <<connected, End>>]_vars
  BY NextActs DEF Acts
<1> QED BY <1>1, Invariance, PTL DEF Spec, ActsAtomically

\* As long as no close and no Connect have met between their two steps, the
\* socket implements AtomicSocket, from the first state on.
THEOREM SocketIsAtomic == Spec /\ []~astray => Atomic!Spec
<1>1. Init => Atomic!Init BY DEF Init, Atomic!Init, End
<1>2. [~astray' => Atomic!Next \/ UNCHANGED <<connected, End>>]_vars /\ ~astray'
        => [Atomic!Next]_<<connected, End>>
  <2>1. UNCHANGED vars => UNCHANGED <<connected, End>> BY DEF vars, End, Meant
  <2> QED BY <2>1
<1> QED BY <1>1, <1>2, ConnectAndCloseAreAtomic, PTL
        DEF Spec, ActsAtomically, Atomic!Spec

\* What is written and what is received goes over the connection that the flag
\* stands for, or over one that somebody is about to close: never, unless a
\* step has gone astray, over one that has been given up.
THEOREM TalksOverTheConnection ==
  Spec => [][\A p \in Procs :
               ~astray /\ (SendWrites(p) \/ (p = Receiver /\ ReceiveReturns)) =>
                 (connected = "yes" /\ local[p] = Meant) \/ Closing(local[p])]_vars
<1>1. ASSUME IInv, NEW p \in Procs, ~astray,
             SendWrites(p) \/ (p = Receiver /\ ReceiveReturns)
      PROVE  (connected = "yes" /\ local[p] = Meant) \/ Closing(local[p])
  <2>1. local[p] \in open BY <1>1 DEF SendWrites, ReceiveReturns
  <2> QED BY <1>1, <2>1 DEF IInv, Agrees, FlagMatches
<1>2. IInv =>
        \A p \in Procs :
          ~astray /\ (SendWrites(p) \/ (p = Receiver /\ ReceiveReturns)) =>
            (connected = "yes" /\ local[p] = Meant) \/ Closing(local[p])
  BY <1>1
<1> QED BY <1>2, Invariance, PTL
=============================================================================
