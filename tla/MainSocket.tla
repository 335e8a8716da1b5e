---------------------------- MODULE MainSocket -----------------------------
(***************************************************************************)
(* The long connection to one gateway (mainSocket/mainSocket.go): the      *)
(* goroutine that owns it and calls Connect, Register, Unregister and      *)
(* Close, the goroutines of LoopReceive and LoopHeartbeat, and one         *)
(* goroutine per event that runs the application's handler.                *)
(*                                                                         *)
(* They interact through the connection, whose gateway end is modelled as  *)
(* far as these calls use it, through the WaitGroup, and through closedCh. *)
(* closedCh, a channel with room for one token, has three uses: a token    *)
(* stops the heartbeat, a token tells Unregister that its answer is here,  *)
(* and closing it stops the heartbeat again.                               *)
(***************************************************************************)
EXTENDS Naturals, Sequences

CONSTANTS
  MaxDrops,   \* bound: how often the connection is lost
  MaxEvents   \* bound: messages not received and handlers not ended at a time,
              \* beyond which the gateway forwards no event

ASSUME MainSocketAssumption == MaxDrops \in Nat /\ MaxEvents \in Nat

VARIABLES
  pc,          \* where the three goroutines are
  sock,        \* the state of socket.Socket: "no", "ing" or "yes"
  live,        \* the gateway still holds the other end of the connection
  registered,  \* ... and forwards events on it
  inbox,       \* what it sent on the connection and nobody received yet
  token,       \* tokens in the buffer of closedCh
  shut,        \* closedCh is closed
  handlers,    \* the counter of wg: handler goroutines that have not ended
  answered,    \* Unregister has returned true
  drops

vars == <<pc, sock, live, registered, inbox, token, shut, handlers, answered,
          drops>>
wire == <<sock, live, registered, inbox, drops>>
signals == <<token, shut>>

Owner == "owner"
Receiver == "receiver"
Heart == "heart"

OwnerPC == {"new", "dialing", "register", "response", "failed", "running",
            "notify", "retake", "request", "await", "unregistered",
            "close", "waitHandlers", "waiting", "woken", "misused",
            "hangup", "closed", "panicked"}
ReceiverPC == {"off", "receive", "connect", "dialing", "register", "response",
               "backoff", "signal", "quit", "panicked"}
HeartPC == {"off", "sleep", "beat", "putBack", "quit", "panicked"}

Message == {"registered", "refused", "unregistered", "event"}

Init ==
  /\ pc = [p \in {Owner, Receiver, Heart} |-> IF p = Owner THEN "new" ELSE "off"]
  /\ sock = "no" /\ live = FALSE /\ registered = FALSE /\ inbox = <<>>
  /\ token = 0 /\ shut = FALSE
  /\ handlers = 0 /\ answered = FALSE
  /\ drops = 0

Goto(p, label) == pc' = [pc EXCEPT ![p] = label]

-----------------------------------------------------------------------------
(* socket.Socket, as these goroutines use it.                              *)

HangUp ==
  /\ sock' = "no" /\ live' = FALSE /\ registered' = FALSE /\ inbox' = <<>>
  /\ UNCHANGED drops

\* Send writes everything; the gateway acts on it if it is still there.
SendArrives(gatewayActs) ==
  /\ sock = "yes"
  /\ \/ live /\ gatewayActs
     \/ ~live /\ UNCHANGED <<registered, inbox>>
  /\ UNCHANGED <<sock, live, drops>>

\* Send returns false: nothing was written, or a part and the connection is
\* closed, which counts as a loss.
SendFails ==
  \/ UNCHANGED wire
  \/ /\ sock = "yes" /\ (live => drops < MaxDrops)
     /\ sock' = "no" /\ live' = FALSE /\ registered' = FALSE /\ inbox' = <<>>
     /\ drops' = IF live THEN drops + 1 ELSE drops

\* Receive returns nil and has closed the connection.
ReceiveFails == (sock # "yes" \/ ~live) /\ HangUp

Receives(m) ==
  /\ sock = "yes" /\ inbox # <<>>
  /\ m = Head(inbox)
  /\ inbox' = Tail(inbox)
  /\ UNCHANGED <<sock, live, registered, drops>>

-----------------------------------------------------------------------------
(* The gateway, as far as src/ relies on it.                               *)

Forwards ==
  /\ live /\ registered /\ Len(inbox) + handlers < MaxEvents
  /\ inbox' = Append(inbox, "event")
  /\ UNCHANGED <<pc, sock, live, registered, signals, handlers, answered, drops>>

\* The connection is lost, or silent for longer than the receive timeout.
Drops ==
  /\ live /\ drops < MaxDrops
  /\ drops' = drops + 1
  /\ live' = FALSE /\ registered' = FALSE
  /\ UNCHANGED <<pc, sock, inbox, signals, handlers, answered>>

Registers ==
  \/ registered' = TRUE /\ inbox' = Append(inbox, "registered")
  \/ registered' = FALSE /\ inbox' = Append(inbox, "refused")

Unregisters == registered' = FALSE /\ inbox' = Append(inbox, "unregistered")

-----------------------------------------------------------------------------
(* Connect and Register, called by the owner and then by LoopReceive.      *)

ConnectBegins(p) ==
  /\ pc[p] = IF p = Owner THEN "new" ELSE "connect"
  /\ sock = "no"
  /\ sock' = "ing"
  /\ Goto(p, "dialing")
  /\ UNCHANGED <<live, registered, inbox, signals, handlers, answered, drops>>

\* Mutated form: the flag is stored and not swapped.
DialStores(p) ==
  /\ pc[p] = "dialing"
  /\ sock' = "yes" /\ live' = TRUE /\ registered' = FALSE /\ inbox' = <<>>
  /\ Goto(p, "register")
  /\ UNCHANGED <<signals, handlers, answered, drops>>

DialSucceeds(p) ==
  /\ pc[p] = "dialing" /\ sock = "ing"
  /\ sock' = "yes" /\ live' = TRUE /\ registered' = FALSE /\ inbox' = <<>>
  /\ Goto(p, "register")
  /\ UNCHANGED <<signals, handlers, answered, drops>>

\* Dial fails, or Close came in between and the new connection is closed.
ConnectFails(p) ==
  /\ pc[p] = "dialing"
  /\ sock' = "no"
  /\ Goto(p, IF p = Owner THEN "new" ELSE "backoff")
  /\ UNCHANGED <<live, registered, inbox, signals, handlers, answered, drops>>

RegisterSends(p) ==
  /\ pc[p] = "register"
  /\ SendArrives(Registers)
  /\ Goto(p, "response")
  /\ UNCHANGED <<signals, handlers, answered>>

\* Register returns.  The owner then starts the loops, or may try again;
\* LoopReceive goes on receiving whatever Register returned.
RegisterReturns(p, ok) ==
  pc' = IF p = Receiver THEN [pc EXCEPT ![p] = "receive"]
        ELSE IF ok
        THEN [pc EXCEPT ![p] = "running", ![Receiver] = "receive", ![Heart] = "sleep"]
        ELSE [pc EXCEPT ![p] = "failed"]

RegisterFails(p) ==
  /\ \/ pc[p] = "register" /\ SendFails
     \/ pc[p] = "response" /\ ReceiveFails
  /\ RegisterReturns(p, FALSE)
  /\ UNCHANGED <<signals, handlers, answered>>

\* Whatever comes first is taken for the answer: its command is not read.
RegisterReceives(p) ==
  /\ pc[p] = "response"
  /\ \E m \in Message : Receives(m) /\ RegisterReturns(p, m # "refused")
  /\ UNCHANGED <<signals, handlers, answered>>

OwnerRetries ==
  /\ pc[Owner] = "failed"
  /\ Goto(Owner, "register")
  /\ UNCHANGED <<wire, signals, handlers, answered>>

-----------------------------------------------------------------------------
(* LoopReceive and the handlers.                                           *)

ReceivesNothing ==
  /\ pc[Receiver] = "receive"
  /\ ReceiveFails
  /\ Goto(Receiver, "connect")
  /\ UNCHANGED <<signals, handlers, answered>>

Wakes ==
  /\ pc[Receiver] = "backoff"
  /\ Goto(Receiver, "receive")
  /\ UNCHANGED <<wire, signals, handlers, answered>>

ReceivesEvent ==
  /\ pc[Receiver] = "receive"
  /\ \E m \in Message \ {"unregistered"} : Receives(m)
  /\ handlers' = handlers + 1
  /\ UNCHANGED <<pc, signals, answered>>

\* The goroutine that waits is woken when the counter comes down to zero,
\* whatever the counter is when it runs.
Wakens(count) ==
  pc' = IF count = 0 /\ pc[Owner] = "waiting"
        THEN [pc EXCEPT ![Owner] = "woken"] ELSE pc

\* Mutated form: wg.Done is called on return and again by the deferred call.
HandlerEndsTwice ==
  /\ handlers > 0
  /\ handlers' = handlers - 2
  /\ Wakens(handlers')
  /\ UNCHANGED <<wire, signals, answered>>

\* Mutated form: wg.Done is skipped when the handler panics.
HandlerPanicsUndone ==
  /\ handlers > 0
  /\ UNCHANGED vars

HandlerEnds ==
  /\ handlers > 0
  /\ handlers' = handlers - 1
  /\ Wakens(handlers')
  /\ UNCHANGED <<wire, signals, answered>>

ReceivesUnregistered ==
  /\ pc[Receiver] = "receive"
  /\ Receives("unregistered")
  /\ Goto(Receiver, "signal")
  /\ UNCHANGED <<signals, handlers, answered>>

\* A send on closedCh panics once it is closed.
PutsToken(p, label) ==
  /\ \/ shut /\ Goto(p, "panicked") /\ UNCHANGED token
     \/ ~shut /\ token = 0 /\ token' = 1 /\ Goto(p, label)
  /\ UNCHANGED <<wire, shut, handlers, answered>>

TakesToken(p, label) ==
  /\ token = 1
  /\ token' = 0
  /\ Goto(p, label)
  /\ UNCHANGED <<wire, shut, handlers>>

\* Mutated form: LoopReceive returns without telling Unregister.
SignalsNobody ==
  /\ pc[Receiver] = "signal"
  /\ Goto(Receiver, "quit")
  /\ UNCHANGED <<wire, signals, handlers, answered>>

Signals == pc[Receiver] = "signal" /\ PutsToken(Receiver, "quit")

-----------------------------------------------------------------------------
(* LoopHeartbeat.                                                          *)

Beats ==
  /\ pc[Heart] = "sleep"
  /\ sock = "yes"
  /\ Goto(Heart, "beat")
  /\ UNCHANGED <<wire, signals, handlers, answered>>

BeatEnds ==
  /\ pc[Heart] = "beat"
  /\ SendArrives(UNCHANGED <<registered, inbox>>) \/ SendFails
  /\ Goto(Heart, "sleep")
  /\ UNCHANGED <<signals, handlers, answered>>

HeartTakesToken ==
  /\ pc[Heart] = "sleep"
  /\ TakesToken(Heart, "putBack")
  /\ UNCHANGED answered

HeartPutsBack == pc[Heart] = "putBack" /\ PutsToken(Heart, "quit")

HeartSeesClosed ==
  /\ pc[Heart] = "sleep"
  /\ shut /\ token = 0
  /\ Goto(Heart, "quit")
  /\ UNCHANGED <<wire, signals, handlers, answered>>

-----------------------------------------------------------------------------
(* Unregister and Close.                                                   *)

CallsUnregister ==
  /\ pc[Owner] = "running"
  /\ Goto(Owner, "notify")
  /\ UNCHANGED <<wire, signals, handlers, answered>>

Notifies == pc[Owner] = "notify" /\ PutsToken(Owner, "retake")

\* Mutated form: Unregister does not wait for the token to come back.
RetakesNothing ==
  /\ pc[Owner] = "retake"
  /\ Goto(Owner, "request")
  /\ UNCHANGED <<wire, signals, handlers, answered>>

\* Nothing says that the heartbeat had the token in the meantime.
Retakes ==
  /\ pc[Owner] = "retake"
  /\ TakesToken(Owner, "request")
  /\ UNCHANGED answered

Requests ==
  /\ pc[Owner] = "request"
  /\ SendArrives(Unregisters)
  /\ Goto(Owner, "await")
  /\ UNCHANGED <<signals, handlers, answered>>

\* Unregister returns false; the owner may call it again.
RequestFails ==
  /\ pc[Owner] = "request"
  /\ SendFails
  /\ Goto(Owner, "running")
  /\ UNCHANGED <<signals, handlers, answered>>

\* Mutated form: Unregister returns true once the request is sent.
IsAnsweredAtOnce ==
  /\ pc[Owner] = "await"
  /\ Goto(Owner, "unregistered")
  /\ answered' = TRUE
  /\ UNCHANGED <<wire, signals, handlers>>

IsAnswered ==
  /\ pc[Owner] = "await"
  /\ TakesToken(Owner, "unregistered")
  /\ answered' = TRUE

\* The manager's Start also undoes a Connect by it, before any Register.
CallsClose ==
  /\ pc[Owner] \in {"register", "running", "unregistered", "failed"}
  /\ Goto(Owner, "close")
  /\ UNCHANGED <<wire, signals, handlers, answered>>

ClosesChannel ==
  /\ pc[Owner] = "close"
  /\ shut' = TRUE
  /\ Goto(Owner, "waitHandlers")
  /\ UNCHANGED <<wire, token, handlers, answered>>

\* Mutated form: Close does not wait for the handlers.
HandlersIgnored ==
  /\ pc[Owner] = "waitHandlers"
  /\ Goto(Owner, "hangup")
  /\ UNCHANGED <<wire, signals, handlers, answered>>

WaitsForHandlers ==
  /\ pc[Owner] = "waitHandlers"
  /\ handlers > 0
  /\ Goto(Owner, "waiting")
  /\ UNCHANGED <<wire, signals, handlers, answered>>

HandlersDone ==
  /\ pc[Owner] \in {"waitHandlers", "woken"}
  /\ handlers = 0
  /\ Goto(Owner, "hangup")
  /\ UNCHANGED <<wire, signals, handlers, answered>>

\* LoopReceive has called Add since Wait was woken: Wait panics in the caller
\* of Close, as "WaitGroup is reused before previous Wait has returned".
WaitIsMisused ==
  /\ pc[Owner] = "woken"
  /\ handlers > 0
  /\ Goto(Owner, "misused")
  /\ UNCHANGED <<wire, signals, handlers, answered>>

\* socket.Socket.Close also makes a Connect under way fail.
HangsUp ==
  /\ pc[Owner] = "hangup"
  /\ HangUp
  /\ Goto(Owner, "closed")
  /\ UNCHANGED <<signals, handlers, answered>>

-----------------------------------------------------------------------------
\* What each goroutine does of itself once it runs or has called a method.
Registering(p) ==
  \/ DialSucceeds(p) \/ ConnectFails(p)
  \/ RegisterSends(p) \/ RegisterFails(p) \/ RegisterReceives(p)
OwnerStep ==
  \/ Registering(Owner)
  \/ Notifies \/ Retakes \/ Requests \/ RequestFails \/ IsAnswered
  \/ ClosesChannel \/ WaitsForHandlers \/ HandlersDone \/ WaitIsMisused \/ HangsUp
ReceiverStep ==
  \/ ReceivesNothing \/ ConnectBegins(Receiver) \/ Registering(Receiver) \/ Wakes
  \/ ReceivesEvent \/ ReceivesUnregistered \/ Signals
HeartStep == BeatEnds \/ HeartTakesToken \/ HeartPutsBack \/ HeartSeesClosed

Next ==
  \/ ConnectBegins(Owner) \/ OwnerRetries \/ CallsUnregister \/ CallsClose
  \/ OwnerStep \/ ReceiverStep \/ Beats \/ HeartStep \/ HandlerEnds
  \/ Forwards \/ Drops

Spec == Init /\ [][Next]_vars

(***************************************************************************)
(* A goroutine that can run does run, network calls end because they have  *)
(* timeouts, and the application's handlers return.  The application need  *)
(* not call anything, the gateway need not send events and the ticker need *)
(* not tick.  LoopHeartbeat chooses between a tick and closedCh with a     *)
(* select, which picks uniformly: what is ready again and again is picked. *)
(***************************************************************************)
FairSpec ==
  /\ Spec
  /\ WF_vars(OwnerStep) /\ WF_vars(ReceiverStep)
  /\ WF_vars(BeatEnds \/ HeartPutsBack) /\ SF_vars(HeartSeesClosed)
  /\ WF_vars(HandlerEnds)

-----------------------------------------------------------------------------
(* Properties.                                                             *)

TypeOK ==
  /\ pc \in [{Owner, Receiver, Heart} -> OwnerPC \cup ReceiverPC \cup HeartPC]
  /\ pc[Owner] \in OwnerPC /\ pc[Receiver] \in ReceiverPC /\ pc[Heart] \in HeartPC
  /\ sock \in {"no", "ing", "yes"}
  /\ live \in BOOLEAN /\ registered \in BOOLEAN
  /\ inbox \in Seq(Message)
  /\ token \in 0..1 /\ shut \in BOOLEAN
  /\ handlers \in Nat /\ answered \in BOOLEAN
  /\ drops \in 0..MaxDrops

\* closedCh is closed by Close while it is still used to pass tokens: nobody
\* is ever caught by that, wherever Unregister stopped before Close.
NoSendAfterClose == \A p \in {Owner, Receiver, Heart} : pc[p] # "panicked"

\* These goroutines use the connection as AtomicSocket has it, which Socket
\* implements: the end of the connection is lost when the gateway has let go.
Atomic ==
  INSTANCE AtomicSocket
    WITH state <- sock,
         end <- IF sock # "yes" THEN "shut" ELSE IF live THEN "open" ELSE "lost"

\* Once Close has hung up nothing but another Connect revives the connection:
\* a reconnection that was under way then, or a failing Send or Receive of
\* another loop, never does.
UsesAtomicSocket == Atomic!Spec

\* When Unregister returns true the gateway has let go of this process: no
\* reconnection that went on at the same time has registered it again.
UnregisteredForGood == answered => ~registered

\* Unregister returned true: no handler is started any more, although events
\* may have been under way and the connection may have been lost meanwhile.
QuietAfterUnregister == [][answered => handlers' <= handlers]_vars

\* Close after Unregister returned true leaves nothing behind: the connection
\* stays closed, no handler runs, LoopReceive has ended; and no handler is
\* started under it that would make its Wait panic.
ClosedForGood ==
  answered =>
    /\ pc[Owner] # "misused"
    /\ pc[Owner] = "closed" => sock = "no" /\ handlers = 0 /\ pc[Receiver] = "quit"

\* Unregister returns when LoopReceive waits on a good connection at the call
\* and the connection is not lost before it returns: the token for it reaches
\* it, even by way of the heartbeat.
UnregisterReturns ==
  \A n \in 0..MaxDrops :
    pc[Owner] = "notify" /\ pc[Receiver] = "receive" /\ live /\ drops = n ~>
      pc[Owner] \in {"running", "unregistered"} \/ drops > n

\* The comments in Unregister: it waits until the answer is there.  So it
\* returns, true or false, whatever becomes of the connection.
UnregisterAlwaysReturns ==
  pc[Owner] \in {"notify", "retake", "request", "await"} ~>
    pc[Owner] \in {"running", "unregistered"}

\* Close ends the heartbeat, whether or not Unregister did and whatever the
\* gateway sends.  It returns if Unregister has returned true, and otherwise
\* if events come to an end: either way the handlers that run at the call do
\* not keep it.  Without the first, LoopReceive goes on starting handlers, so
\* Close may wait for ever, or panic when one is started just after the last
\* of the others has ended.
CloseEnds ==
  /\ pc[Owner] = "close" ~> pc[Heart] \in {"off", "quit"}
  /\ pc[Owner] = "close" /\ answered ~> pc[Owner] = "closed"
  /\ <>[][handlers' <= handlers]_handlers =>
       (pc[Owner] = "close" ~> pc[Owner] \in {"closed", "misused"})
=============================================================================
