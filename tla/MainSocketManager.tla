------------------------- MODULE MainSocketManager -------------------------
(***************************************************************************)
(* The manager of the long connections (mainSocket/mainSocketManager.go):  *)
(* Start connects and registers one MainSocket per gateway and undoes what *)
(* it did when a step fails, Close unregisters and closes all of them.     *)
(*                                                                         *)
(* A MainSocket is reduced to what survives a call of one of its methods,  *)
(* and to its LoopReceive, which may find the connection lost at any time, *)
(* connects again and ignores whether it could register.  Module           *)
(* MainSocket has the steps inside the methods, among them the waiting and *)
(* the panic of a Close under which handlers are started.  A panic in a    *)
(* caller ends the process.                                                *)
(***************************************************************************)
EXTENDS Naturals, FiniteSets

CONSTANTS
  Sockets,     \* the MainSockets, one per gateway, given to AddSocket
  Callers      \* goroutines that call Start and Close

VARIABLES
  connected,   \* the flag m.connected
  pc, todo, completed,   \* per caller: place, sockets to visit, `completed`
  result,      \* what the last call of each caller returned
  conn,        \* per socket: "nil" (never connected), "yes" or "no"
  registered,  \* per socket: it registered on its connection
  receivers,   \* per socket: goroutines of LoopReceive
  beating,     \* per socket: LoopHeartbeat runs
  shut,        \* per socket: closedCh is closed
  failures,    \* <<"register", s>> and <<"unregister", s>>: it failed for s
               \* under Start or Close
  lost         \* sockets that lost the connection they were started on; this
               \* and failures are there for the properties only

callers == <<connected, pc, todo, completed, result>>
sockets == <<conn, registered, receivers, beating, shut>>
history == <<failures, lost>>
vars == <<callers, sockets, history>>

CallerPC == {"idle", "connect", "undo", "register", "stored", "unregister",
             "close", "panicked"}

Init ==
  /\ connected = FALSE
  /\ pc = [c \in Callers |-> "idle"]
  /\ todo = [c \in Callers |-> {}]
  /\ completed = [c \in Callers |-> {}]
  /\ result = [c \in Callers |-> "none"]
  /\ conn = [s \in Sockets |-> "nil"]
  /\ registered = [s \in Sockets |-> FALSE]
  /\ receivers = [s \in Sockets |-> 0]
  /\ beating = [s \in Sockets |-> FALSE]
  /\ shut = [s \in Sockets |-> FALSE]
  /\ failures = {} /\ lost = {}

Alive == \A c \in Callers : pc[c] # "panicked"

\* The caller goes on to a loop over the sockets S.
Loops(c, label, S) ==
  /\ pc' = [pc EXCEPT ![c] = label]
  /\ todo' = [todo EXCEPT ![c] = S]
  /\ completed' = [completed EXCEPT ![c] = {}]
  /\ UNCHANGED result

Completes(c, s) ==
  /\ todo' = [todo EXCEPT ![c] = @ \ {s}]
  /\ completed' = [completed EXCEPT ![c] = @ \cup {s}]
  /\ UNCHANGED <<connected, pc, result>>

\* A call on socket s failed; its connection may be lost with it.
MayLose(s) ==
  \/ UNCHANGED <<conn, registered>>
  \/ /\ conn' = [conn EXCEPT ![s] = "no"]
     /\ registered' = [registered EXCEPT ![s] = FALSE]

Panics(c) ==
  /\ pc' = [pc EXCEPT ![c] = "panicked"]
  /\ UNCHANGED <<connected, todo, completed, result, sockets, history>>

Returns(c, r) ==
  /\ pc' = [pc EXCEPT ![c] = "idle"]
  /\ result' = [result EXCEPT ![c] = r]
  /\ UNCHANGED <<todo, completed>>

-----------------------------------------------------------------------------
(* Start.                                                                  *)

StartBegins(c) ==
  /\ pc[c] = "idle" /\ ~connected
  /\ connected' = TRUE
  /\ Loops(c, "connect", Sockets)
  /\ UNCHANGED <<sockets, history>>

StartReturnsAtOnce(c) ==
  /\ pc[c] = "idle" /\ connected
  /\ Returns(c, "true")
  /\ UNCHANGED <<connected, sockets, history>>

Connects(c) ==
  /\ pc[c] = "connect"
  /\ \E s \in todo[c] :
       /\ conn[s] # "yes"
       /\ conn' = [conn EXCEPT ![s] = "yes"]
       /\ registered' = [registered EXCEPT ![s] = FALSE]
       /\ Completes(c, s)
  /\ UNCHANGED <<receivers, beating, shut, history>>

\* Mutated form: connect() returns false without closing what it connected.
ConnectFailsBare(c) ==
  /\ pc[c] = "connect" /\ todo[c] # {}
  /\ Loops(c, "undo", {})
  /\ UNCHANGED <<connected, sockets, history>>

\* Connect returns false, as it does when the socket is connected already.
ConnectFails(c) ==
  /\ pc[c] = "connect" /\ todo[c] # {}
  /\ Loops(c, "undo", completed[c])
  /\ UNCHANGED <<connected, sockets, history>>

AllConnected(c) ==
  /\ pc[c] = "connect" /\ todo[c] = {}
  /\ Loops(c, "register", Sockets)
  /\ UNCHANGED <<connected, sockets, history>>

\* Register, LoopReceive and LoopHeartbeat, which ends at once if closedCh is
\* closed since an earlier Close.
Registers(c) ==
  /\ pc[c] = "register"
  /\ \E s \in todo[c] :
       /\ conn[s] = "yes"
       /\ registered' = [registered EXCEPT ![s] = TRUE]
       /\ receivers' = [receivers EXCEPT ![s] = @ + 1]
       /\ beating' = [beating EXCEPT ![s] = ~shut[s]]
       /\ lost' = lost \ {s}
       /\ Completes(c, s)
  /\ UNCHANGED <<conn, shut, failures>>

\* Send or Receive failed, or the gateway refused: the connection is closed
\* by the first two only.
RegisterFails(c) ==
  /\ pc[c] = "register"
  /\ \E s \in todo[c] :
       MayLose(s) /\ failures' = failures \cup {<<"register", s>>}
  /\ Loops(c, "undo", completed[c])
  /\ UNCHANGED <<connected, receivers, beating, shut, lost>>

\* Mutated form: Start reports success whether or not Register succeeded.
AllRegisteredEarly(c) ==
  /\ pc[c] = "register"
  /\ connected' = TRUE
  /\ Loops(c, "stored", {})
  /\ UNCHANGED <<sockets, history>>

AllRegistered(c) ==
  /\ pc[c] = "register" /\ todo[c] = {}
  /\ connected' = TRUE
  /\ Loops(c, "stored", {})
  /\ UNCHANGED <<sockets, history>>

Undone(c) ==
  /\ pc[c] = "undo" /\ todo[c] = {}
  /\ connected' = FALSE
  /\ Loops(c, "stored", {})
  /\ UNCHANGED <<sockets, history>>

\* Mutated form: the result of connect() is never returned to the caller.
StartReturnsNothing(c) ==
  /\ pc[c] = "stored"
  /\ pc' = [pc EXCEPT ![c] = "done"]
  /\ UNCHANGED <<connected, todo, completed, result, sockets, history>>

\* Start returns what the flag says by then.
StartReturns(c) ==
  /\ pc[c] = "stored"
  /\ Returns(c, IF connected THEN "true" ELSE "false")
  /\ UNCHANGED <<connected, sockets, history>>

-----------------------------------------------------------------------------
(* Close, and MainSocket.Close as the undoing of Start uses it.            *)

CloseBegins(c) ==
  /\ pc[c] = "idle" /\ connected
  /\ connected' = FALSE
  /\ Loops(c, "unregister", Sockets)
  /\ UNCHANGED <<sockets, history>>

\* The flag is not set: nothing is done about what a failed Start left behind.
CloseReturnsAtOnce(c) ==
  /\ pc[c] = "idle" /\ ~connected
  /\ Returns(c, "skipped")
  /\ UNCHANGED <<connected, sockets, history>>

\* Mutated form: LoopReceive goes on after the answer to Unregister.
UnregistersOnly(c) ==
  /\ pc[c] = "unregister"
  /\ \E s \in todo[c] :
       /\ ~shut[s] /\ conn[s] = "yes" /\ receivers[s] > 0
       /\ registered' = [registered EXCEPT ![s] = FALSE]
       /\ Completes(c, s)
  /\ UNCHANGED <<conn, receivers, beating, shut, history>>

\* The receiver hands the answer to Unregister and ends.
Unregisters(c) ==
  /\ pc[c] = "unregister"
  /\ \E s \in todo[c] :
       /\ ~shut[s] /\ conn[s] = "yes" /\ receivers[s] > 0
       /\ registered' = [registered EXCEPT ![s] = FALSE]
       /\ receivers' = [receivers EXCEPT ![s] = @ - 1]
       /\ Completes(c, s)
  /\ UNCHANGED <<conn, beating, shut, history>>

\* Unregister returns false, which Close ignores.
UnregisterFails(c) ==
  /\ pc[c] = "unregister"
  /\ \E s \in todo[c] :
       /\ ~shut[s] /\ conn[s] # "nil"
       /\ MayLose(s)
       /\ failures' = failures \cup {<<"unregister", s>>}
       /\ Completes(c, s)
  /\ UNCHANGED <<receivers, beating, shut, lost>>

\* A send on the closed closedCh, or a Send on a connection that is nil.
UnregisterPanics(c) ==
  /\ pc[c] = "unregister"
  /\ \E s \in todo[c] : shut[s] \/ conn[s] = "nil"
  /\ Panics(c)

AllUnregistered(c) ==
  /\ pc[c] = "unregister" /\ todo[c] = {}
  /\ Loops(c, "close", Sockets)
  /\ UNCHANGED <<connected, sockets, history>>

Closes(c) ==
  /\ pc[c] \in {"undo", "close"}
  /\ \E s \in todo[c] :
       /\ ~shut[s]
       /\ shut' = [shut EXCEPT ![s] = TRUE]
       /\ beating' = [beating EXCEPT ![s] = FALSE]
       /\ conn' = [conn EXCEPT ![s] = IF @ = "yes" THEN "no" ELSE @]
       /\ registered' = [registered EXCEPT ![s] = FALSE]
       /\ Completes(c, s)
  /\ UNCHANGED <<receivers, history>>

ClosePanics(c) ==
  /\ pc[c] \in {"undo", "close"}
  /\ \E s \in todo[c] : shut[s]
  /\ Panics(c)

CloseReturns(c) ==
  /\ pc[c] = "close" /\ todo[c] = {}
  /\ Returns(c, "closed")
  /\ UNCHANGED <<connected, sockets, history>>

-----------------------------------------------------------------------------
(* What happens to the sockets while nobody calls Start or Close, or while *)
(* somebody does.                                                          *)

\* The connection is lost, and a loop of the socket has closed it.
Loses(s) ==
  /\ conn[s] = "yes" /\ (receivers[s] > 0 \/ beating[s])
  /\ conn' = [conn EXCEPT ![s] = "no"]
  /\ registered' = [registered EXCEPT ![s] = FALSE]
  /\ lost' = lost \cup {s}
  /\ UNCHANGED <<callers, receivers, beating, shut, failures>>

\* LoopReceive of a socket that is not connected connects and registers, and
\* goes on receiving whether or not Register succeeded.
Reconnects(s) ==
  /\ receivers[s] > 0 /\ conn[s] = "no"
  /\ conn' = [conn EXCEPT ![s] = "yes"]
  /\ \E r \in BOOLEAN : registered' = [registered EXCEPT ![s] = r]
  /\ UNCHANGED <<callers, receivers, beating, shut, history>>

Step(c) ==
  \/ StartBegins(c) \/ StartReturnsAtOnce(c) \/ Connects(c) \/ ConnectFails(c)
  \/ AllConnected(c) \/ Registers(c) \/ RegisterFails(c) \/ AllRegistered(c)
  \/ Undone(c) \/ StartReturns(c)
  \/ CloseBegins(c) \/ CloseReturnsAtOnce(c) \/ Unregisters(c) \/ UnregisterFails(c)
  \/ UnregisterPanics(c) \/ AllUnregistered(c) \/ Closes(c) \/ ClosePanics(c)
  \/ CloseReturns(c)

Next ==
  /\ Alive
  /\ (\E c \in Callers : Step(c)) \/ (\E s \in Sockets : Loses(s) \/ Reconnects(s))

Spec == Init /\ [][Next]_vars

-----------------------------------------------------------------------------
TypeOK ==
  /\ connected \in BOOLEAN
  /\ pc \in [Callers -> CallerPC]
  /\ todo \in [Callers -> SUBSET Sockets]
  /\ completed \in [Callers -> SUBSET Sockets]
  /\ result \in [Callers -> {"none", "true", "false", "closed", "skipped"}]
  /\ conn \in [Sockets -> {"nil", "yes", "no"}]
  /\ registered \in [Sockets -> BOOLEAN]
  /\ receivers \in [Sockets -> Nat]
  /\ beating \in [Sockets -> BOOLEAN]
  /\ shut \in [Sockets -> BOOLEAN]
  /\ failures \subseteq {"register", "unregister"} \X Sockets
  /\ lost \subseteq Sockets

\* Nobody is inside Start or Close, and c was the last one that was.
LastCall(c, r) == result[c] = r /\ \A d \in Callers : pc[d] = "idle"

\* The comment of Start: it connects and registers all sockets and starts their
\* loops, and returns true at once when that has been done.  So after a Start
\* that returned true, and until Close, every socket is being received from and
\* is registered, unless its connection has been lost since; its heartbeat runs,
\* unless an earlier Start closed it.  A lost connection is left to LoopReceive:
\* if Register fails then, the socket stays as it is and Start returns true.
StartedIsRegistered ==
  \A c \in Callers :
    pc[c] = "idle" /\ result[c] = "true" /\ connected =>
      \A s \in Sockets :
        /\ receivers[s] > 0 /\ (beating[s] \/ shut[s])
        /\ s \in lost \/ registered[s]

\* The comment of Start: when a step fails what was done is undone.  Whichever
\* step it was, no heartbeat is left.  No connection is left either, as long as
\* only Connect has ever failed: when Register fails, the socket that failed and
\* those that were not registered yet stay connected.
RolledBack ==
  \A c \in Callers :
    LastCall(c, "false") =>
      \A s \in Sockets : ~beating[s] /\ (failures = {} => conn[s] # "yes")

\* Nothing is left of socket s that is connected or would connect again.
NothingLeft(s) ==
  conn[s] # "yes" /\ ~registered[s] /\ receivers[s] = 0 /\ ~beating[s]

\* The comment of Close: it unregisters and closes all connections.  So all
\* heartbeats end, and nothing is left of a socket unless it could not be
\* unregistered, whatever happened to the others.  A Close that finds the flag
\* not set does nothing, which leaves nothing only as long as nothing but
\* Connect has ever failed.
CloseLeavesNothing ==
  \A c \in Callers, s \in Sockets :
    /\ LastCall(c, "closed") =>
         ~beating[s] /\ (<<"unregister", s>> \notin failures => NothingLeft(s))
    /\ LastCall(c, "skipped") /\ failures = {} => NothingLeft(s)

\* The comment of Close again: it can be called after every Start that
\* returned true, and so can Start after one that returned false.
NeverPanics == Alive
=============================================================================
