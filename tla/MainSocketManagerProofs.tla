---------------------- MODULE MainSocketManagerProofs ----------------------
(***************************************************************************)
(* Proofs about MainSocketManager, for any number of gateways.  What is    *)
(* proved beyond the types assumes that one goroutine at most calls Start  *)
(* and Close: with two the flag of one call is overtaken by the other.     *)
(***************************************************************************)
EXTENDS MainSocketManager, TLAPS

OneCaller == \A c, d \in Callers : c = d

\* Start has returned true, or is about to, and Close has not been called.
Serving(c) == pc[c] \in {"idle", "stored"} /\ connected

Served(s) ==
  /\ receivers[s] > 0 /\ (beating[s] \/ shut[s])
  /\ s \in lost \/ registered[s]
Gone(s) == conn[s] # "yes" /\ receivers[s] = 0

\* What the flag and the loops of Start and Close have achieved.
Visits(c) ==
  /\ todo[c] \cap completed[c] = {}
  /\ pc[c] \in {"register", "unregister", "close"} => todo[c] \cup completed[c] = Sockets
  /\ pc[c] = "register" => \A s \in completed[c] : Served(s)
  /\ pc[c] \in {"unregister", "close"} => ~connected
  /\ Serving(c) => \A s \in Sockets : Served(s)
  /\ Serving(c) /\ pc[c] = "idle" => result[c] = "true"

\* A socket is registered on the connection it has.
RegisteredIsConnected == \A s \in Sockets : registered[s] => conn[s] = "yes"

\* Where heartbeats run, whatever has failed.
Hearts(c) ==
  /\ pc[c] \in {"idle", "stored"} /\ ~connected => \A s \in Sockets : ~beating[s]
  /\ pc[c] = "connect" => \A s \in Sockets : ~beating[s]
  /\ pc[c] = "register" => \A s \in Sockets : beating[s] => s \in completed[c]
  /\ pc[c] \in {"undo", "close"} => \A s \in Sockets : beating[s] => s \in todo[c]

\* Where connections and receivers can be as long as nothing has failed but
\* Connect.
NothingFailed(c) ==
  /\ pc[c] \in {"idle", "stored"} /\ ~connected => \A s \in Sockets : Gone(s)
  /\ pc[c] = "connect" => /\ \A s \in Sockets : receivers[s] = 0
                          /\ \A s \in Sockets : conn[s] = "yes" => s \in completed[c]
  /\ pc[c] = "undo" => /\ \A s \in Sockets : receivers[s] = 0
                       /\ \A s \in Sockets : conn[s] = "yes" => s \in todo[c]
  /\ pc[c] = "register" =>
       \A s \in Sockets : receivers[s] = IF s \in todo[c] THEN 0 ELSE 1
  /\ Serving(c) => \A s \in Sockets : receivers[s] = 1
  /\ pc[c] = "unregister" =>
       \A s \in Sockets : receivers[s] = IF s \in todo[c] THEN 1 ELSE 0

\* A receiver of a socket that was never closed: the call c that started it has
\* not ended, or has succeeded, or Close is about to end it; or the process
\* itself has ended.
HasPurpose(c, s) ==
  \/ pc[c] = "panicked"
  \/ Serving(c)
  \/ pc[c] = "register" /\ s \in completed[c]
  \/ pc[c] \in {"undo", "unregister"} /\ s \in todo[c]

\* Where they can be for a socket whose Unregister has not failed.
NoUnregisterFailed(c, s) ==
  /\ ~shut[s] /\ receivers[s] # 0 => receivers[s] = 1 /\ HasPurpose(c, s)
  /\ pc[c] = "unregister" /\ s \in completed[c] => receivers[s] = 0
  /\ pc[c] = "close" => /\ receivers[s] = 0
                        /\ s \in completed[c] => conn[s] # "yes"
  /\ pc[c] = "idle" /\ result[c] = "closed" => Gone(s)

Unfailed(c) ==
  \A s \in Sockets : <<"unregister", s>> \notin failures => NoUnregisterFailed(c, s)

IInv ==
  /\ TypeOK /\ RegisteredIsConnected
  /\ \A c \in Callers :
       /\ Visits(c) /\ Hearts(c)
       /\ failures = {} => NothingFailed(c)
       /\ Unfailed(c)

-----------------------------------------------------------------------------
LEMMA InitIInv == Init => IInv
<1> SUFFICES ASSUME Init PROVE IInv
  OBVIOUS
<1>1. TypeOK BY DEF Init, TypeOK, CallerPC
<1>2. ASSUME NEW c \in Callers
      PROVE  Visits(c) /\ Hearts(c) /\ NothingFailed(c) /\ Unfailed(c)
  BY DEF Init, Visits, Hearts, Serving, NothingFailed, Gone, Unfailed,
     NoUnregisterFailed
<1>3. RegisteredIsConnected BY DEF Init, RegisteredIsConnected
<1> QED BY <1>1, <1>2, <1>3 DEF IInv

\* TypeOK in three parts.
CallerTypes ==
  /\ pc \in [Callers -> CallerPC]
  /\ todo \in [Callers -> SUBSET Sockets]
  /\ completed \in [Callers -> SUBSET Sockets]
  /\ result \in [Callers -> {"none", "true", "false", "closed", "skipped"}]
  /\ failures \subseteq {"register", "unregister"} \X Sockets
SocketFlags ==
  /\ connected \in BOOLEAN
  /\ conn \in [Sockets -> {"nil", "yes", "no"}]
  /\ registered \in [Sockets -> BOOLEAN]
  /\ beating \in [Sockets -> BOOLEAN]
  /\ shut \in [Sockets -> BOOLEAN]
  /\ lost \subseteq Sockets
Counts == receivers \in [Sockets -> Nat]

LEMMA LoopsTypes ==
  ASSUME CallerTypes, NEW c, NEW label \in CallerPC, NEW S \in SUBSET Sockets,
         Loops(c, label, S), failures' \subseteq {"register", "unregister"} \X Sockets
  PROVE  CallerTypes'
<1>1. pc' \in [Callers -> CallerPC] BY DEF CallerTypes, Loops
<1>2. todo' \in [Callers -> SUBSET Sockets] BY DEF CallerTypes, Loops
<1>3. completed' \in [Callers -> SUBSET Sockets] BY DEF CallerTypes, Loops
<1> QED BY <1>1, <1>2, <1>3 DEF CallerTypes, Loops

LEMMA StepTypeOK == TypeOK /\ [Next]_vars => TypeOK'
<1> SUFFICES ASSUME CallerTypes, SocketFlags, Counts, [Next]_vars
             PROVE  CallerTypes' /\ SocketFlags' /\ Counts'
  BY DEF TypeOK, CallerTypes, SocketFlags, Counts
<1> USE DEF callers, sockets, history
<1>1. ASSUME NEW c \in Callers,
            StartBegins(c) \/ AllConnected(c) \/ AllRegistered(c) \/ Undone(c)
      PROVE  CallerTypes' /\ SocketFlags' /\ Counts'
  <2>1. CallerTypes'
    <3>1. \E label \in CallerPC, S \in SUBSET Sockets : Loops(c, label, S)
      BY <1>1 DEF StartBegins, AllConnected, AllRegistered, Undone, CallerTypes, CallerPC
    <3>2. failures' \subseteq {"register", "unregister"} \X Sockets
      BY <1>1 DEF StartBegins, AllConnected, AllRegistered, Undone, CallerTypes
    <3> QED BY <3>1, <3>2, LoopsTypes
  <2>2. SocketFlags'
    BY <1>1 DEF StartBegins, AllConnected, AllRegistered, Undone, Loops, CallerTypes,
       SocketFlags
  <2>3. Counts'
    BY <1>1 DEF StartBegins, AllConnected, AllRegistered, Undone, Loops, CallerTypes,
       Counts
  <2> QED BY <2>1, <2>2, <2>3
<1>2. ASSUME NEW c \in Callers,
            StartReturnsAtOnce(c) \/ StartReturns(c) \/ CloseReturnsAtOnce(c)
              \/ CloseReturns(c)
      PROVE  CallerTypes' /\ SocketFlags' /\ Counts'
  <2>1. CallerTypes'
    BY <1>2
    DEF StartReturnsAtOnce, StartReturns, CloseReturnsAtOnce, CloseReturns, Returns,
       CallerTypes,
       CallerPC
  <2>2. SocketFlags'
    BY <1>2
    DEF StartReturnsAtOnce, StartReturns, CloseReturnsAtOnce, CloseReturns, Returns,
       CallerTypes,
       SocketFlags
  <2>3. Counts'
    BY <1>2
    DEF StartReturnsAtOnce, StartReturns, CloseReturnsAtOnce, CloseReturns, Returns,
       CallerTypes,
       Counts
  <2> QED BY <2>1, <2>2, <2>3
<1>3. ASSUME NEW c \in Callers, ConnectFails(c) \/ RegisterFails(c)
      PROVE  CallerTypes' /\ SocketFlags' /\ Counts'
  <2>1. CallerTypes'
    <3>1. \E label \in CallerPC, S \in SUBSET Sockets : Loops(c, label, S)
      BY <1>3 DEF ConnectFails, RegisterFails, CallerTypes, CallerPC
    <3>2. failures' \subseteq {"register", "unregister"} \X Sockets
      BY <1>3 DEF ConnectFails, RegisterFails, CallerTypes
    <3> QED BY <3>1, <3>2, LoopsTypes
  <2>2. SocketFlags'
    <3>1. UNCHANGED <<conn, registered>> \/ \E s \in Sockets : MayLose(s)
      BY <1>3 DEF ConnectFails, RegisterFails, MayLose, CallerTypes
    <3>2. UNCHANGED <<connected, beating, shut, lost>>
      BY <1>3 DEF ConnectFails, RegisterFails
    <3> QED BY <3>1, <3>2 DEF MayLose, SocketFlags
  <2>3. Counts'
    BY <1>3 DEF ConnectFails, RegisterFails, Loops, MayLose, CallerTypes, Counts
  <2> QED BY <2>1, <2>2, <2>3
<1>4. ASSUME NEW c \in Callers, Connects(c)
      PROVE  CallerTypes' /\ SocketFlags' /\ Counts'
  <2>1. CallerTypes' BY <1>4 DEF Connects, Completes, CallerTypes, CallerPC
  <2>2. SocketFlags' BY <1>4 DEF Connects, Completes, CallerTypes, SocketFlags
  <2>3. Counts' BY <1>4 DEF Connects, Completes, CallerTypes, Counts
  <2> QED BY <2>1, <2>2, <2>3
<1>5. ASSUME NEW c \in Callers, Registers(c)
      PROVE  CallerTypes' /\ SocketFlags' /\ Counts'
  <2>1. CallerTypes' BY <1>5 DEF Registers, Completes, CallerTypes, CallerPC
  <2>2. SocketFlags' BY <1>5 DEF Registers, Completes, CallerTypes, SocketFlags
  <2>3. Counts' BY <1>5 DEF Registers, Completes, CallerTypes, Counts
  <2> QED BY <2>1, <2>2, <2>3
<1>6. ASSUME NEW c \in Callers, CloseBegins(c) \/ AllUnregistered(c)
      PROVE  CallerTypes' /\ SocketFlags' /\ Counts'
  <2>1. CallerTypes'
    <3>1. \E label \in CallerPC, S \in SUBSET Sockets : Loops(c, label, S)
      BY <1>6 DEF CloseBegins, AllUnregistered, CallerTypes, CallerPC
    <3>2. failures' \subseteq {"register", "unregister"} \X Sockets
      BY <1>6 DEF CloseBegins, AllUnregistered, CallerTypes
    <3> QED BY <3>1, <3>2, LoopsTypes
  <2>2. SocketFlags'
    BY <1>6 DEF CloseBegins, AllUnregistered, Loops, CallerTypes, SocketFlags
  <2>3. Counts' BY <1>6 DEF CloseBegins, AllUnregistered, Loops, CallerTypes, Counts
  <2> QED BY <2>1, <2>2, <2>3
<1>7. ASSUME NEW c \in Callers, Unregisters(c)
      PROVE  CallerTypes' /\ SocketFlags' /\ Counts'
  <2>1. CallerTypes' BY <1>7 DEF Unregisters, Completes, CallerTypes, CallerPC
  <2>2. SocketFlags' BY <1>7 DEF Unregisters, Completes, CallerTypes, SocketFlags
  <2>3. Counts' BY <1>7 DEF Unregisters, Completes, CallerTypes, Counts
  <2> QED BY <2>1, <2>2, <2>3
<1>8. ASSUME NEW c \in Callers, UnregisterFails(c)
      PROVE  CallerTypes' /\ SocketFlags' /\ Counts'
  <2>1. CallerTypes'
    BY <1>8 DEF UnregisterFails, Completes, MayLose, CallerTypes, CallerPC
  <2>2. SocketFlags'
    BY <1>8 DEF UnregisterFails, Completes, MayLose, CallerTypes, SocketFlags
  <2>3. Counts' BY <1>8 DEF UnregisterFails, Completes, MayLose, CallerTypes, Counts
  <2> QED BY <2>1, <2>2, <2>3
<1>9. ASSUME NEW c \in Callers, UnregisterPanics(c) \/ ClosePanics(c)
      PROVE  CallerTypes' /\ SocketFlags' /\ Counts'
  <2>1. CallerTypes'
    BY <1>9 DEF UnregisterPanics, ClosePanics, Panics, CallerTypes, CallerPC
  <2>2. SocketFlags'
    BY <1>9 DEF UnregisterPanics, ClosePanics, Panics, CallerTypes, SocketFlags
  <2>3. Counts' BY <1>9 DEF UnregisterPanics, ClosePanics, Panics, CallerTypes, Counts
  <2> QED BY <2>1, <2>2, <2>3
<1>10. ASSUME NEW c \in Callers, Closes(c)
      PROVE  CallerTypes' /\ SocketFlags' /\ Counts'
  <2>1. CallerTypes' BY <1>10 DEF Closes, Completes, CallerTypes, CallerPC
  <2>2. SocketFlags' BY <1>10 DEF Closes, Completes, CallerTypes, SocketFlags
  <2>3. Counts' BY <1>10 DEF Closes, Completes, CallerTypes, Counts
  <2> QED BY <2>1, <2>2, <2>3
<1>11. ASSUME NEW s \in Sockets, Loses(s) \/ Reconnects(s)
      PROVE  CallerTypes' /\ SocketFlags' /\ Counts'
  <2>1. CallerTypes' BY <1>11 DEF Loses, Reconnects, CallerTypes
  <2>2. SocketFlags' BY <1>11 DEF Loses, Reconnects, SocketFlags
  <2>3. Counts' BY <1>11 DEF Loses, Reconnects, Counts
  <2> QED BY <2>1, <2>2, <2>3
<1>12. CASE UNCHANGED vars
  BY <1>12 DEF vars, CallerTypes, SocketFlags, Counts
<1> QED
  BY <1>1, <1>2, <1>3, <1>4, <1>5, <1>6, <1>7, <1>8, <1>9, <1>10, <1>11, <1>12
  DEF Next, Step

LEMMA StepRegistered ==
  ASSUME IInv, [Next]_vars
  PROVE  RegisteredIsConnected'
<1> USE DEF callers, sockets, history
<1>0. TypeOK /\ RegisteredIsConnected
  BY DEF IInv
<1>1. ASSUME NEW c \in Callers, Connects(c) \/ Registers(c) \/ Unregisters(c) \/ Closes(c)
      PROVE  RegisteredIsConnected'
  BY <1>0, <1>1 DEF Connects, Registers, Unregisters, Closes, Completes, TypeOK,
     RegisteredIsConnected
<1>2. ASSUME NEW c \in Callers, RegisterFails(c) \/ UnregisterFails(c)
      PROVE  RegisteredIsConnected'
  <2>1. \E s \in Sockets : MayLose(s)
    BY <1>0, <1>2 DEF RegisterFails, UnregisterFails, TypeOK
  <2> QED BY <1>0, <2>1 DEF MayLose, TypeOK, RegisteredIsConnected
<1>3. ASSUME NEW s \in Sockets, Loses(s) \/ Reconnects(s)
      PROVE  RegisteredIsConnected'
  BY <1>0, <1>3 DEF Loses, Reconnects, TypeOK, RegisteredIsConnected
<1>4. CASE UNCHANGED <<conn, registered>>
  BY <1>0, <1>4 DEF RegisteredIsConnected
<1>5. CASE UNCHANGED vars
  BY <1>4, <1>5 DEF vars
<1>6. ASSUME NEW c \in Callers,
             \/ StartBegins(c) \/ StartReturnsAtOnce(c) \/ ConnectFails(c)
             \/ AllConnected(c) \/ AllRegistered(c) \/ Undone(c) \/ StartReturns(c)
             \/ CloseBegins(c) \/ CloseReturnsAtOnce(c) \/ UnregisterPanics(c)
             \/ AllUnregistered(c) \/ ClosePanics(c) \/ CloseReturns(c)
      PROVE  RegisteredIsConnected'
  BY <1>4, <1>6
  DEF StartBegins, StartReturnsAtOnce, ConnectFails, AllConnected, AllRegistered,
      Undone, StartReturns, CloseBegins, CloseReturnsAtOnce, UnregisterPanics, Panics,
      AllUnregistered, ClosePanics, CloseReturns
<1> QED BY <1>1, <1>2, <1>3, <1>5, <1>6 DEF Next, Step

LEMMA StepVisits ==
  ASSUME OneCaller, IInv, [Next]_vars, NEW c \in Callers
  PROVE  Visits(c)'
<1> USE DEF callers, sockets, history
<1>0. /\ TypeOK /\ RegisteredIsConnected /\ Visits(c) /\ Hearts(c)
      /\ failures = {} => NothingFailed(c)
      /\ Unfailed(c)
  BY DEF IInv
<1>1. CASE StartBegins(c) \/ AllConnected(c) \/ AllRegistered(c) \/ Undone(c)
  BY <1>0, <1>1
  DEF StartBegins, AllConnected, AllRegistered, Undone, Loops, TypeOK,
     Visits, Serving, Served
<1>2. CASE StartReturnsAtOnce(c) \/ StartReturns(c) \/ CloseReturnsAtOnce(c)
              \/ CloseReturns(c)
  BY <1>0, <1>2
  DEF StartReturnsAtOnce, StartReturns, CloseReturnsAtOnce, CloseReturns, Returns, TypeOK,
     Visits, Serving, Served
<1>3. CASE ConnectFails(c) \/ RegisterFails(c)
  BY <1>0, <1>3
  DEF ConnectFails, RegisterFails, Loops, MayLose, TypeOK,
     Visits, Serving, Served
<1>4. CASE Connects(c)
  BY <1>0, <1>4
  DEF Connects, Completes, TypeOK,
     Visits, Serving, Served
<1>5. CASE Registers(c)
  <2>1. PICK s \in todo[c] :
           /\ receivers' = [receivers EXCEPT ![s] = @ + 1]
           /\ registered' = [registered EXCEPT ![s] = TRUE]
           /\ beating' = [beating EXCEPT ![s] = ~shut[s]]
           /\ lost' = lost \ {s}
           /\ Completes(c, s)
    BY <1>5 DEF Registers
  <2>2. s \in Sockets /\ shut' = shut /\ pc[c] = "register" /\ UNCHANGED <<pc, connected>>
    BY <1>0, <1>5, <2>1 DEF Registers, Completes, TypeOK
  <2>3. ASSUME NEW t \in completed[c] \cup {s}
        PROVE  Served(t)'
    <3>1. t \in Sockets BY <1>0, <2>2 DEF TypeOK
    <3>2. (receivers[t] > 0)'
      BY <1>0, <2>1, <2>2, <2>3, <3>1 DEF TypeOK, Visits, Served
    <3>3. (beating[t] \/ shut[t])'
      BY <1>0, <2>1, <2>2, <2>3, <3>1, Zenon DEF TypeOK, Visits, Served
    <3>4. (t \in lost \/ registered[t])'
      BY <1>0, <2>1, <2>2, <2>3, <3>1, Zenon DEF TypeOK, Visits, Served
    <3> QED BY <3>2, <3>3, <3>4 DEF Served
  <2> QED BY <1>0, <2>1, <2>2, <2>3 DEF Completes, TypeOK, Visits, Serving
<1>6. CASE CloseBegins(c) \/ AllUnregistered(c)
  BY <1>0, <1>6
  DEF CloseBegins, AllUnregistered, Loops, TypeOK,
     Visits, Serving, Served
<1>7. CASE Unregisters(c)
  BY <1>0, <1>7
  DEF Unregisters, Completes, TypeOK,
     Visits, Serving, Served
<1>8. CASE UnregisterFails(c)
  BY <1>0, <1>8
  DEF UnregisterFails, Completes, MayLose, TypeOK,
     Visits, Serving, Served
<1>9. CASE UnregisterPanics(c) \/ ClosePanics(c)
  BY <1>0, <1>9
  DEF UnregisterPanics, ClosePanics, Panics, TypeOK,
     Visits, Serving, Served
<1>10. CASE Closes(c)
  BY <1>0, <1>10
  DEF Closes, Completes, TypeOK,
     Visits, Serving, Served
<1>11. ASSUME NEW s \in Sockets, Loses(s) \/ Reconnects(s)
      PROVE  Visits(c)'
  BY <1>0, <1>11
  DEF Loses, Reconnects, TypeOK, Visits, Serving, Served, RegisteredIsConnected
<1>12. CASE UNCHANGED vars
  BY <1>0, <1>12 DEF vars, Visits, Serving, Served
<1> QED
  BY <1>1, <1>2, <1>3, <1>4, <1>5, <1>6, <1>7, <1>8, <1>9, <1>10, <1>11, <1>12
  DEF OneCaller, Next, Step

LEMMA StepHearts ==
  ASSUME OneCaller, IInv, [Next]_vars, NEW c \in Callers
  PROVE  Hearts(c)'
<1> USE DEF callers, sockets, history
<1>0. /\ TypeOK /\ RegisteredIsConnected /\ Visits(c) /\ Hearts(c)
      /\ failures = {} => NothingFailed(c)
      /\ Unfailed(c)
  BY DEF IInv
<1>1. CASE StartBegins(c) \/ AllConnected(c) \/ AllRegistered(c) \/ Undone(c)
  BY <1>0, <1>1
  DEF StartBegins, AllConnected, AllRegistered, Undone, Loops, TypeOK,
     Hearts, Visits, Serving
<1>2. CASE StartReturnsAtOnce(c) \/ StartReturns(c) \/ CloseReturnsAtOnce(c)
              \/ CloseReturns(c)
  BY <1>0, <1>2
  DEF StartReturnsAtOnce, StartReturns, CloseReturnsAtOnce, CloseReturns, Returns, TypeOK,
     Hearts, Visits, Serving
<1>3. CASE ConnectFails(c) \/ RegisterFails(c)
  BY <1>0, <1>3
  DEF ConnectFails, RegisterFails, Loops, MayLose, TypeOK,
     Hearts, Visits, Serving
<1>4. CASE Connects(c)
  BY <1>0, <1>4
  DEF Connects, Completes, TypeOK,
     Hearts, Visits, Serving
<1>5. CASE Registers(c)
  BY <1>0, <1>5
  DEF Registers, Completes, TypeOK,
     Hearts, Visits, Serving
<1>6. CASE CloseBegins(c) \/ AllUnregistered(c)
  BY <1>0, <1>6
  DEF CloseBegins, AllUnregistered, Loops, TypeOK,
     Hearts, Visits, Serving
<1>7. CASE Unregisters(c)
  BY <1>0, <1>7
  DEF Unregisters, Completes, TypeOK,
     Hearts, Visits, Serving
<1>8. CASE UnregisterFails(c)
  BY <1>0, <1>8
  DEF UnregisterFails, Completes, MayLose, TypeOK,
     Hearts, Visits, Serving
<1>9. CASE UnregisterPanics(c) \/ ClosePanics(c)
  BY <1>0, <1>9
  DEF UnregisterPanics, ClosePanics, Panics, TypeOK,
     Hearts, Visits, Serving
<1>10. CASE Closes(c)
  BY <1>0, <1>10
  DEF Closes, Completes, TypeOK,
     Hearts, Visits, Serving
<1>11. ASSUME NEW s \in Sockets, Loses(s) \/ Reconnects(s)
      PROVE  Hearts(c)'
  BY <1>0, <1>11 DEF Loses, Reconnects, TypeOK, Hearts, Visits, Serving
<1>12. CASE UNCHANGED vars
  BY <1>0, <1>12 DEF vars, Hearts, Visits, Serving
<1> QED
  BY <1>1, <1>2, <1>3, <1>4, <1>5, <1>6, <1>7, <1>8, <1>9, <1>10, <1>11, <1>12
  DEF OneCaller, Next, Step

LEMMA StepNothingFailed ==
  ASSUME OneCaller, IInv, [Next]_vars, NEW c \in Callers
  PROVE  failures' = {} => NothingFailed(c)'
<1> USE DEF callers, sockets, history
<1>0. /\ TypeOK /\ RegisteredIsConnected /\ Visits(c) /\ Hearts(c)
      /\ failures = {} => NothingFailed(c)
      /\ Unfailed(c)
  BY DEF IInv
<1>1. CASE StartBegins(c) \/ AllConnected(c) \/ AllRegistered(c) \/ Undone(c)
  BY <1>0, <1>1
  DEF StartBegins, AllConnected, AllRegistered, Undone, Loops, TypeOK,
     NothingFailed, Serving, Served, Gone, Visits
<1>2. CASE StartReturnsAtOnce(c) \/ StartReturns(c) \/ CloseReturnsAtOnce(c)
              \/ CloseReturns(c)
  <2>1. CASE StartReturnsAtOnce(c) \/ StartReturns(c) \/ CloseReturnsAtOnce(c)
    BY <1>0, <2>1
    DEF StartReturnsAtOnce, StartReturns, CloseReturnsAtOnce, Returns, TypeOK,
       NothingFailed, Serving, Served, Gone, Visits
  <2>2. CASE CloseReturns(c)
    <3>1. failures' = {} => \A s \in Sockets : NoUnregisterFailed(c, s)
      BY <1>0, <2>2 DEF CloseReturns, Unfailed
    <3> QED
      BY <1>0, <2>2, <3>1
      DEF CloseReturns, Returns, TypeOK, NoUnregisterFailed, NothingFailed, Serving,
         Gone, Visits
  <2> QED BY <1>2, <2>1, <2>2
<1>3. CASE ConnectFails(c) \/ RegisterFails(c)
  <2>1. CASE ConnectFails(c)
    BY <1>0, <2>1
    DEF ConnectFails, Loops, TypeOK, NothingFailed, Serving, Served, Gone, Visits
  <2>2. CASE RegisterFails(c)
    <3>1. PICK s \in todo[c] : failures' = failures \cup {<<"register", s>>}
      BY <2>2 DEF RegisterFails
    <3> QED BY <3>1
  <2> QED BY <1>3, <2>1, <2>2
<1>4. CASE Connects(c)
  BY <1>0, <1>4
  DEF Connects, Completes, TypeOK,
     NothingFailed, Serving, Served, Gone, Visits
<1>5. CASE Registers(c)
  BY <1>0, <1>5
  DEF Registers, Completes, TypeOK,
     NothingFailed, Serving, Served, Gone, Visits
<1>6. CASE CloseBegins(c) \/ AllUnregistered(c)
  BY <1>0, <1>6
  DEF CloseBegins, AllUnregistered, Loops, TypeOK,
     NothingFailed, Serving, Served, Gone, Visits
<1>7. CASE Unregisters(c)
  BY <1>0, <1>7
  DEF Unregisters, Completes, TypeOK,
     NothingFailed, Serving, Served, Gone, Visits
<1>8. CASE UnregisterFails(c)
  BY <1>0, <1>8
  DEF UnregisterFails, Completes, MayLose, TypeOK,
     NothingFailed, Serving, Served, Gone, Visits
<1>9. CASE UnregisterPanics(c) \/ ClosePanics(c)
  BY <1>0, <1>9
  DEF UnregisterPanics, ClosePanics, Panics, TypeOK,
     NothingFailed, Serving, Served, Gone, Visits
<1>10. CASE Closes(c)
  BY <1>0, <1>10
  DEF Closes, Completes, TypeOK,
     NothingFailed, Serving, Served, Gone, Visits
<1>11. ASSUME NEW s \in Sockets, Loses(s) \/ Reconnects(s)
      PROVE  failures' = {} => NothingFailed(c)'
  BY <1>0, <1>11
  DEF Loses, Reconnects, TypeOK, NothingFailed, Serving, Served, Gone, Visits
<1>12. CASE UNCHANGED vars
  BY <1>0, <1>12
  DEF vars, NothingFailed, Serving, Served, Gone, Visits
<1> QED
  BY <1>1, <1>2, <1>3, <1>4, <1>5, <1>6, <1>7, <1>8, <1>9, <1>10, <1>11, <1>12
  DEF OneCaller, Next, Step

LEMMA StepUnfailed ==
  ASSUME OneCaller, IInv, [Next]_vars, NEW c \in Callers
  PROVE  Unfailed(c)'
<1> USE DEF callers, sockets, history
<1>0. /\ TypeOK /\ RegisteredIsConnected /\ Visits(c) /\ Hearts(c)
      /\ failures = {} => NothingFailed(c)
      /\ Unfailed(c)
  BY DEF IInv
<1>1. CASE StartBegins(c) \/ AllConnected(c) \/ AllRegistered(c) \/ Undone(c)
  BY <1>0, <1>1
  DEF StartBegins, AllConnected, AllRegistered, Undone, Loops, TypeOK,
     Unfailed, NoUnregisterFailed, HasPurpose, Serving, Served, Gone, Visits
<1>2. CASE StartReturnsAtOnce(c) \/ StartReturns(c) \/ CloseReturnsAtOnce(c)
              \/ CloseReturns(c)
  BY <1>0, <1>2
  DEF StartReturnsAtOnce, StartReturns, CloseReturnsAtOnce, CloseReturns, Returns, TypeOK,
     Unfailed, NoUnregisterFailed, HasPurpose, Serving, Served, Gone, Visits
<1>3. CASE ConnectFails(c) \/ RegisterFails(c)
  BY <1>0, <1>3
  DEF ConnectFails, RegisterFails, Loops, MayLose, TypeOK,
     Unfailed, NoUnregisterFailed, HasPurpose, Serving, Served, Gone, Visits
<1>4. CASE Connects(c)
  BY <1>0, <1>4
  DEF Connects, Completes, TypeOK,
     Unfailed, NoUnregisterFailed, HasPurpose, Serving, Served, Gone, Visits
<1>5. CASE Registers(c)
  BY <1>0, <1>5
  DEF Registers, Completes, TypeOK,
     Unfailed, NoUnregisterFailed, HasPurpose, Serving, Served, Gone, Visits
<1>6. CASE CloseBegins(c) \/ AllUnregistered(c)
  BY <1>0, <1>6
  DEF CloseBegins, AllUnregistered, Loops, TypeOK,
     Unfailed, NoUnregisterFailed, HasPurpose, Serving, Served, Gone, Visits
<1>7. CASE Unregisters(c)
  BY <1>0, <1>7
  DEF Unregisters, Completes, TypeOK,
     Unfailed, NoUnregisterFailed, HasPurpose, Serving, Served, Gone, Visits
<1>8. CASE UnregisterFails(c)
  BY <1>0, <1>8
  DEF UnregisterFails, Completes, MayLose, TypeOK,
     Unfailed, NoUnregisterFailed, HasPurpose, Serving, Served, Gone, Visits
<1>9. CASE UnregisterPanics(c) \/ ClosePanics(c)
  BY <1>0, <1>9
  DEF UnregisterPanics, ClosePanics, Panics, TypeOK,
     Unfailed, NoUnregisterFailed, HasPurpose, Serving, Served, Gone, Visits
<1>10. CASE Closes(c)
  BY <1>0, <1>10
  DEF Closes, Completes, TypeOK,
     Unfailed, NoUnregisterFailed, HasPurpose, Serving, Served, Gone, Visits
<1>11. ASSUME NEW s \in Sockets, Loses(s) \/ Reconnects(s)
      PROVE  Unfailed(c)'
  BY <1>0, <1>11
  DEF Loses, Reconnects, TypeOK,
     Unfailed, NoUnregisterFailed, HasPurpose, Serving, Served, Gone, Visits
<1>12. CASE UNCHANGED vars
  BY <1>0, <1>12
  DEF vars, Unfailed, NoUnregisterFailed, HasPurpose, Serving, Served, Gone, Visits
<1> QED
  BY <1>1, <1>2, <1>3, <1>4, <1>5, <1>6, <1>7, <1>8, <1>9, <1>10, <1>11, <1>12
  DEF OneCaller, Next, Step

LEMMA Invariance == ASSUME OneCaller PROVE Spec => []IInv
<1>1. Init => IInv
  BY InitIInv
<1>2. ASSUME IInv, [Next]_vars PROVE IInv'
  <2>1. TypeOK' /\ RegisteredIsConnected'
    BY <1>2, StepTypeOK, StepRegistered DEF IInv
  <2>2. ASSUME NEW c \in Callers
        PROVE  /\ Visits(c)' /\ Hearts(c)'
               /\ failures' = {} => NothingFailed(c)'
               /\ Unfailed(c)'
    BY <1>2, OneCaller, StepVisits, StepHearts, StepNothingFailed, StepUnfailed
  <2> QED BY <2>1, <2>2 DEF IInv
<1> QED BY <1>1, <1>2, PTL DEF Spec

-----------------------------------------------------------------------------
\* Every variable keeps its type, whatever goroutines call Start and Close: no
\* receiver ends that was not started.
THEOREM TypeCorrect == Spec => []TypeOK
<1>1. Init => TypeOK
  BY InitIInv DEF IInv
<1> QED BY <1>1, StepTypeOK, PTL DEF Spec

\* After a Start that returned true, and until Close, every gateway is received
\* from and beaten to, and registered unless its connection has been lost since,
\* whatever failed before.
THEOREM StartKeepsItsPromise == ASSUME OneCaller PROVE Spec => []StartedIsRegistered
<1>1. IInv => StartedIsRegistered
  BY DEF IInv, Visits, Serving, Served, StartedIsRegistered, TypeOK
<1> QED BY <1>1, Invariance, PTL

\* A Start that returned false has ended every heartbeat, and has closed what it
\* had connected as long as nothing but Connect has failed.
THEOREM StartUndoes == ASSUME OneCaller PROVE Spec => []RolledBack
<1>1. IInv => RolledBack
  BY DEF IInv, Visits, Hearts, NothingFailed, Serving, Gone, LastCall, RolledBack, TypeOK
<1> QED BY <1>1, Invariance, PTL

\* Close ends every heartbeat, and leaves nothing of a socket that is connected,
\* registered or would connect again unless that socket could not be
\* unregistered; a Close that returns at once leaves nothing as long as nothing
\* but Connect has failed.
THEOREM CloseKeepsItsPromise == ASSUME OneCaller PROVE Spec => []CloseLeavesNothing
<1>1. ASSUME IInv, NEW c \in Callers, NEW s \in Sockets,
             LastCall(c, "closed") \/ LastCall(c, "skipped")
      PROVE  /\ ~beating[s]
             /\ \/ LastCall(c, "closed") /\ <<"unregister", s>> \notin failures
                \/ LastCall(c, "skipped") /\ failures = {}
                => Gone(s)
  <2>1. pc[c] = "idle" /\ result[c] \in {"closed", "skipped"}
    BY <1>1 DEF LastCall
  <2>2. ~connected
    BY <1>1, <2>1 DEF IInv, Visits, Serving
  <2>3. ~beating[s]
    BY <1>1, <2>1, <2>2 DEF IInv, Hearts
  <2>4. LastCall(c, "closed") /\ <<"unregister", s>> \notin failures => Gone(s)
    BY <1>1, <2>1 DEF IInv, Unfailed, NoUnregisterFailed, LastCall
  <2>5. failures = {} => Gone(s)
    BY <1>1, <2>1, <2>2 DEF IInv, NothingFailed
  <2> QED BY <2>3, <2>4, <2>5
<1>2. IInv => CloseLeavesNothing
  BY <1>1 DEF IInv, RegisteredIsConnected, Gone, NothingLeft, CloseLeavesNothing, TypeOK
<1> QED BY <1>2, Invariance, PTL
=============================================================================
