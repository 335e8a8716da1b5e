------------------------------- MODULE Socket ------------------------------
(***************************************************************************)
(* socket/socket.go at the grain of its atomic flag, used as a MainSocket  *)
(* uses it: by the goroutine that owns it (Connect, Send, Close, and       *)
(* Connect again when the manager is started again), by LoopReceive        *)
(* (Receive, Connect, Send) and by LoopHeartbeat (Send).                   *)
(*                                                                         *)
(* The flag `connected` is changed by compare-and-swap only; the field     *)
(* `socket` is read and written without synchronisation.  Connect sets the *)
(* flag first and the field afterwards, close() resets the flag first and  *)
(* calls Close on whatever the field holds afterwards.                     *)
(***************************************************************************)
EXTENDS Naturals

CONSTANTS
  Owner, Receiver, Heart,   \* the goroutines
  MaxConns,    \* identities of connections; one that is garbage is used again
  MaxDrops,    \* bound: how often a connection is lost
  MaxCloses    \* bound: how often the owner calls Close

ASSUME SocketAssumption ==
  /\ Owner # Receiver /\ Owner # Heart /\ Receiver # Heart
  /\ MaxConns \in Nat \ {0} /\ MaxDrops \in Nat /\ MaxCloses \in Nat

Procs == {Owner, Receiver, Heart}
Conns == 1..MaxConns
None == 0

VARIABLES
  connected,  \* the flag: "no", "ing" or "yes"
  socket,     \* the field: a connection or None
  open,       \* the connections that are open at this end
  live,       \* ... that the network still carries
  torn,       \* ... on which a frame was written in part
  pc,         \* where each goroutine is
  then,       \* where it goes on after the call it is in has failed
  local,      \* the connection it works on, see its uses
  drops, closes,
  astray      \* history: a close() and a Connect met between their two steps

vars == <<connected, socket, open, live, torn, pc, then, local, drops, closes,
          astray>>
counters == <<drops, closes>>
conns == <<open, live, torn>>

Labels == {"idle", "closed", "shut", "loop", "reconnect", "register",
           "response", "dial", "assign", "won", "lost", "write", "read", "fail",
           "hit"}

\* LoopReceive and LoopHeartbeat start after the first Connect of the owner.
Init ==
  /\ connected = "no" /\ socket = None
  /\ open = {} /\ live = {} /\ torn = {}
  /\ pc = [p \in Procs |-> IF p = Receiver THEN "loop"
                           ELSE IF p = Owner THEN "closed" ELSE "idle"]
  /\ then = [p \in Procs |-> "idle"]
  /\ local = [p \in Procs |-> None]
  /\ drops = 0 /\ closes = 0 /\ astray = FALSE

Goto(p, label) == pc' = [pc EXCEPT ![p] = label]

\* The call p is in returns, and p goes on at the label.
Returns(p, label) ==
  /\ Goto(p, label)
  /\ local' = [local EXCEPT ![p] = None] /\ then' = [then EXCEPT ![p] = "idle"]

\* The call p is in fails.
Fails(p) == Returns(p, then[p])

\* The connections nobody has: an open one among them is garbage, and Go's
\* finalizer closes it, so its identity may be used again.
Unused == {x \in Conns : x # socket /\ \A p \in Procs : local[p] # x}

-----------------------------------------------------------------------------
(* Connect.                                                                *)

Connects(p) == pc[p] = IF p = Receiver THEN "reconnect" ELSE "closed"

ConnectBegins(p) ==
  /\ Connects(p)
  /\ connected = "no"
  /\ connected' = "ing"
  /\ Goto(p, "dial")
  /\ then' = [then EXCEPT ![p] = IF p = Receiver THEN "loop" ELSE "closed"]
  /\ UNCHANGED <<socket, conns, local, counters, astray>>

\* Somebody else is connecting, or has connected.
ConnectRefused(p) ==
  /\ Connects(p)
  /\ connected # "no"
  /\ Goto(p, IF p = Receiver THEN "loop" ELSE "closed")
  /\ UNCHANGED <<connected, socket, conns, then, local, counters, astray>>

\* Mutated form: the flag is stored and not swapped.
DialStores(p) ==
  /\ pc[p] = "dial"
  /\ connected' = "yes"
  /\ \E x \in Unused :
       /\ \A y \in Unused : x <= y
       /\ open' = open \cup {x} /\ live' = live \cup {x} /\ torn' = torn \ {x}
       /\ local' = [local EXCEPT ![p] = x]
  /\ Goto(p, "assign")
  /\ UNCHANGED <<socket, then, counters, astray>>

DialSucceeds(p) ==
  /\ pc[p] = "dial"
  /\ connected = "ing"
  /\ connected' = "yes"
  /\ \E x \in Unused :
       /\ \A y \in Unused : x <= y
       /\ open' = open \cup {x} /\ live' = live \cup {x} /\ torn' = torn \ {x}
       /\ local' = [local EXCEPT ![p] = x]
  /\ Goto(p, "assign")
  /\ UNCHANGED <<socket, then, counters, astray>>

\* The dial fails, or Close came in between and what was dialled is closed.
DialFails(p) ==
  /\ pc[p] = "dial"
  /\ Goto(p, "lost")
  /\ UNCHANGED <<connected, socket, conns, then, local, counters, astray>>

Assigns(p) ==
  /\ pc[p] = "assign"
  /\ socket' = local[p] /\ local' = [local EXCEPT ![p] = None]
  /\ Goto(p, "won")
  /\ UNCHANGED <<connected, conns, then, counters, astray>>

\* Mutated form: the flag is not reset when the dial fails.
NotDeferred(p) ==
  /\ pc[p] \in {"won", "lost"}
  /\ Returns(p, IF pc[p] = "lost" THEN then[p]
                ELSE IF p = Receiver THEN "register" ELSE "idle")
  /\ UNCHANGED <<connected, socket, conns, counters, astray>>

\* The deferred compare-and-swap, which cannot tell whose Connect it resets.
Deferred(p) ==
  /\ pc[p] \in {"won", "lost"}
  /\ connected' = IF connected = "ing" THEN "no" ELSE connected
  /\ Returns(p, IF pc[p] = "lost" THEN then[p]
                ELSE IF p = Receiver THEN "register" ELSE "idle")
  /\ UNCHANGED <<socket, conns, counters, astray>>

-----------------------------------------------------------------------------
(* close, and Close of the owner.                                          *)

\* The connection that "yes" stands for: the field will be set to it shortly
\* if a Connect is between its two steps.
Meant ==
  IF \E p \in Procs : pc[p] = "assign"
  THEN local[CHOOSE p \in Procs : pc[p] = "assign"] ELSE socket

CloseSwaps(p) ==
  /\ pc[p] = "fail"
  /\ connected = "yes"
  /\ connected' = "no"
  /\ local' = [local EXCEPT ![p] = Meant]
  /\ astray' = (astray \/ socket # Meant)
  /\ Goto(p, "hit")
  /\ UNCHANGED <<socket, conns, then, counters>>

\* Somebody else has closed it.
CloseFindsNothing(p) ==
  /\ pc[p] = "fail"
  /\ connected # "yes"
  /\ Fails(p)
  /\ UNCHANGED <<connected, socket, conns, counters, astray>>

\* Mutated form: the flag is reset, but the connection is not closed.
CloseForgets(p) ==
  /\ pc[p] = "hit"
  /\ Fails(p)
  /\ UNCHANGED <<connected, socket, conns, counters, astray>>

CloseHits(p) ==
  /\ pc[p] = "hit"
  /\ open' = open \ {socket} /\ live' = live \ {socket} /\ torn' = torn \ {socket}
  /\ astray' = (astray \/ socket # local[p])
  /\ Fails(p)
  /\ UNCHANGED <<connected, socket, counters>>

CallsClose ==
  /\ pc[Owner] = "idle"
  /\ closes < MaxCloses
  /\ closes' = closes + 1
  /\ Goto(Owner, "shut")
  /\ then' = [then EXCEPT ![Owner] = "closed"]
  /\ UNCHANGED <<connected, socket, conns, local, drops, astray>>

\* Close makes a Connect under way fail, or else goes on to close().
CloseCancels ==
  /\ pc[Owner] = "shut"
  /\ IF connected = "ing"
     THEN connected' = "no" /\ Fails(Owner)
     ELSE Goto(Owner, "fail") /\ UNCHANGED <<connected, then, local>>
  /\ UNCHANGED <<socket, conns, counters, astray>>

-----------------------------------------------------------------------------
(* Send.                                                                   *)

\* Mutated form: the goroutines are started before the first Connect.
SendsUnconnected(p) ==
  \/ p = Receiver /\ pc[p] = "register"
  \/ p = Owner /\ pc[p] = "idle"
  \/ p = Heart /\ pc[p] = "idle" /\ connected = "yes"

\* LoopReceive sends when it has connected, the owner when it unregisters; the
\* heartbeat asks IsConnected first.  All run only after the owner's first
\* Connect has returned.
Sends(p) ==
  /\ socket # None
  /\ \/ p = Receiver /\ pc[p] = "register"
     \/ p = Owner /\ pc[p] = "idle"
     \/ p = Heart /\ pc[p] = "idle" /\ connected = "yes"

\* The write deadline cannot be set on a closed connection; nothing is closed.
SendRefused(p) ==
  /\ Sends(p)
  /\ socket \notin open
  /\ Goto(p, IF p = Receiver THEN "loop" ELSE "idle")
  /\ UNCHANGED <<connected, socket, conns, then, local, counters, astray>>

SendBegins(p) ==
  /\ Sends(p)
  /\ local' = [local EXCEPT ![p] = socket]
  /\ then' = [then EXCEPT ![p] = IF p = Receiver THEN "loop" ELSE "idle"]
  /\ Goto(p, "write")
  /\ UNCHANGED <<connected, socket, conns, counters, astray>>

\* The frame is written.
SendWrites(p) ==
  /\ pc[p] = "write" /\ local[p] \in open
  /\ Returns(p, IF p = Receiver THEN "response" ELSE "idle")
  /\ UNCHANGED <<connected, socket, conns, counters, astray>>

\* A timeout with nothing written: the connection is kept.
SendTimesOut(p) ==
  /\ pc[p] = "write" /\ local[p] \in open
  /\ Fails(p)
  /\ UNCHANGED <<connected, socket, conns, counters, astray>>

\* Mutated form: every timeout keeps the connection.
SendTearsAndReturns(p) ==
  /\ pc[p] = "write" /\ local[p] \in open
  /\ torn' = torn \cup {local[p]}
  /\ Fails(p)
  /\ UNCHANGED <<connected, socket, open, live, counters, astray>>

\* A part is written and then nothing more.
SendTears(p) ==
  /\ pc[p] = "write" /\ local[p] \in open
  /\ torn' = torn \cup {local[p]}
  /\ Goto(p, "fail")
  /\ UNCHANGED <<connected, socket, open, live, then, local, counters, astray>>

\* The connection was closed here, or reset.
SendFails(p) ==
  /\ pc[p] = "write" /\ local[p] \notin open \cap live
  /\ Goto(p, "fail") /\ local' = [local EXCEPT ![p] = None]
  /\ UNCHANGED <<connected, socket, conns, then, counters, astray>>

-----------------------------------------------------------------------------
(* Receive.                                                                *)

ReceiveBegins ==
  /\ socket # None
  /\ pc[Receiver] \in {"loop", "response"}
  /\ local' = [local EXCEPT ![Receiver] = socket]
  /\ then' = [then EXCEPT ![Receiver] =
                IF pc[Receiver] = "loop" THEN "reconnect" ELSE "loop"]
  /\ Goto(Receiver, "read")
  /\ UNCHANGED <<connected, socket, conns, counters, astray>>

ReceiveReturns ==
  /\ pc[Receiver] = "read" /\ local[Receiver] \in open \cap live
  /\ Returns(Receiver, "loop")
  /\ UNCHANGED <<connected, socket, conns, counters, astray>>

\* Receive closes the connection if IsConnected.
ReceiveFails ==
  /\ pc[Receiver] = "read" /\ local[Receiver] \notin open \cap live
  /\ local' = [local EXCEPT ![Receiver] = None]
  /\ IF connected = "yes"
     THEN Goto(Receiver, "fail") /\ UNCHANGED then
     ELSE Fails(Receiver)
  /\ UNCHANGED <<connected, socket, conns, counters, astray>>

-----------------------------------------------------------------------------
\* The connection is lost, or silent for longer than the receive timeout.
Drops ==
  /\ drops < MaxDrops
  /\ drops' = drops + 1
  /\ \E x \in live \cap open : live' = live \ {x}
  /\ UNCHANGED <<connected, socket, open, torn, pc, then, local, closes, astray>>

\* What a goroutine does of itself once it is in a call.
Connecting(p) == DialSucceeds(p) \/ DialFails(p) \/ Assigns(p) \/ Deferred(p)
Tearing(p) == CloseSwaps(p) \/ CloseFindsNothing(p) \/ CloseHits(p)
Sending(p) == SendWrites(p) \/ SendTimesOut(p) \/ SendTears(p) \/ SendFails(p)
Receiving == ReceiveBegins \/ ReceiveReturns \/ ReceiveFails

ReceiverStep ==
  \/ ConnectBegins(Receiver) \/ ConnectRefused(Receiver) \/ Connecting(Receiver)
  \/ SendRefused(Receiver) \/ SendBegins(Receiver) \/ Sending(Receiver)
  \/ Receiving \/ Tearing(Receiver)
OwnerStep == Connecting(Owner) \/ CloseCancels \/ Sending(Owner) \/ Tearing(Owner)
HeartStep == Sending(Heart) \/ Tearing(Heart)

Next ==
  \/ ReceiverStep \/ OwnerStep \/ HeartStep
  \/ ConnectBegins(Owner) \/ ConnectRefused(Owner) \/ CallsClose
  \/ \E p \in {Owner, Heart} : SendRefused(p) \/ SendBegins(p)
  \/ Drops

Spec == Init /\ [][Next]_vars

\* Every call ends, LoopReceive goes on for ever, and a gateway that is dialled
\* again and again is reached in the end.  Nobody is obliged to call anything.
FairSpec ==
  /\ Spec
  /\ WF_vars(ReceiverStep) /\ WF_vars(OwnerStep) /\ WF_vars(HeartStep)
  /\ SF_vars(\E p \in Procs : DialSucceeds(p))

-----------------------------------------------------------------------------
TypeOK ==
  /\ connected \in {"no", "ing", "yes"}
  /\ socket \in Conns \cup {None}
  /\ open \subseteq Conns /\ live \subseteq Conns /\ torn \subseteq Conns
  /\ pc \in [Procs -> Labels] /\ then \in [Procs -> Labels]
  /\ local \in [Procs -> Conns \cup {None}]
  /\ drops \in 0..MaxDrops /\ closes \in 0..MaxCloses /\ astray \in BOOLEAN
  /\ \A p \in Procs : pc[p] \in {"write", "read"} => local[p] # None
  /\ (\E p \in Procs : pc[p] = "hit") => socket # None

\* Somebody has reset the flag and is about to close connection x.
Closing(x) == \E p \in Procs : pc[p] = "hit" /\ local[p] = x

\* The flag tells the truth, and nothing is left open: the connection that
\* "yes" stands for is open, and any other open one is about to be closed.  So
\* after a Close, or a failure that closes, nothing remains, in whatever order
\* the three goroutines connect and close.  The exception is a close() that
\* falls between the two steps of a Connect, or a Connect that falls between
\* the two steps of a close(): it goes astray.
FlagMatches ==
  ~astray =>
    /\ connected = "yes" => Meant \in open
    /\ \A x \in open : (connected = "yes" /\ x = Meant) \/ Closing(x)

\* A stream with half a frame in it does not outlive the call that tore it:
\* while it is open, that call is about to close it or somebody else is.
TornIsClosed ==
  ~astray =>
    \A x \in torn \cap open :
      Closing(x) \/ \E p \in Procs : pc[p] = "fail" /\ local[p] = x

\* The socket implements AtomicSocket, unless a step goes astray: Connect is
\* decided by the swap that sets the flag, although the field is set later,
\* and close() by the swap that resets it, although the connection is closed
\* later.
End ==
  IF connected # "yes" \/ Meant \notin open THEN "shut"
  ELSE IF Meant \in live THEN "open" ELSE "lost"

Atomic == INSTANCE AtomicSocket WITH state <- connected, end <- End

\* Every step of any goroutine is, for the others, one decisive step of
\* AtomicSocket or none, whoever is between the two halves of a call: no two
\* Connects succeed together, none succeeds after a Close has cancelled it, and
\* nobody sees a connection half made or half closed.  Which of several calls
\* decides is left open: AtomicSocket lets anyone close or fail at any time, so
\* a failure that is late may close a good connection.
ActsAtomically ==
  [][~astray' => Atomic!Next \/ UNCHANGED <<connected, End>>]_vars

\* LoopReceive connects again whatever happened to the flag and the field: the
\* socket has a connection that works, again and again.
Usable == socket \in open \cap live
Recovers == socket # None /\ ~Usable ~> Usable
=============================================================================
