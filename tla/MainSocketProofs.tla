-------------------------- MODULE MainSocketProofs -------------------------
(***************************************************************************)
(* Proofs about MainSocket, for any number of lost connections and events. *)
(***************************************************************************)
EXTENDS MainSocket, SequenceTheorems, TLAPS

Shutting == {"waitHandlers", "waiting", "woken", "misused", "hangup", "closed"}
Asked == {"await", "unregistered", "close"} \cup Shutting

\* closedCh is closed by Close and by nothing else.
ShutByClose == shut <=> pc[Owner] \in Shutting

\* A token is out: in the buffer of closedCh, or in the hand of the heartbeat,
\* which is about to put it back.
TokenOut == token = 1 \/ pc[Heart] = "putBack"

\* There is one token at most, and Unregister will take it: it is its own, or
\* the one that LoopReceive left when it ended.
TokenHasTaker ==
  /\ ~(token = 1 /\ pc[Heart] = "putBack")
  /\ TokenOut => \/ pc[Owner] = "retake"
                 \/ pc[Owner] = "await" /\ pc[Receiver] = "quit"

\* The loops are started when Register has returned true to the owner.
LoopsStartLater ==
  pc[Owner] \in {"new", "dialing", "register", "response", "failed"} =>
    pc[Receiver] = "off"

\* LoopReceive ends because of an answer to Unregister, and not before the
\* gateway has let go of this process.
EndsUnregistered ==
  /\ pc[Receiver] = "signal" => pc[Owner] = "await"
  /\ pc[Receiver] = "quit" => pc[Owner] \in Asked
  /\ pc[Receiver] \in {"signal", "quit"} => ~registered

IsAnswer(i) == i \in 1..Len(inbox) /\ inbox[i] = "unregistered"

\* At most one answer to Unregister is on its way, Unregister and LoopReceive
\* are waiting for it, and the gateway has let go of this process - but for a
\* Register that came in between and will take the answer for its own.
AnswerIsAwaited ==
  /\ \A i, j \in Nat : IsAnswer(i) /\ IsAnswer(j) => i = j
  /\ \A i \in Nat : IsAnswer(i) =>
       /\ pc[Owner] = "await" /\ pc[Receiver] \notin {"signal", "quit"}
       /\ registered => pc[Receiver] = "response" /\ i = 1

\* LoopReceive registers on a connection on which nothing has happened yet,
\* except that Unregister may have been faster.
RegistersFirst ==
  pc[Receiver] = "register" =>
    ~registered /\ \A i \in 1..Len(inbox) : IsAnswer(i)

\* Once Unregister has returned true only Close is left.
AnsweredIsOver ==
  /\ answered => pc[Receiver] = "quit" /\ pc[Owner] \in Asked \ {"await", "misused"}
  /\ answered /\ pc[Owner] \in {"woken", "hangup", "closed"} => handlers = 0
  /\ answered /\ pc[Owner] = "closed" => sock = "no"

Tokens == NoSendAfterClose /\ ShutByClose /\ TokenHasTaker /\ LoopsStartLater
Ends == EndsUnregistered /\ AnsweredIsOver
Answers == AnswerIsAwaited /\ RegistersFirst
Protocol == Tokens /\ Ends /\ Answers

IInv == TypeOK /\ Protocol

-----------------------------------------------------------------------------
\* TypeOK in parts.
Flags ==
  /\ sock \in {"no", "ing", "yes"}
  /\ live \in BOOLEAN /\ registered \in BOOLEAN
  /\ shut \in BOOLEAN /\ answered \in BOOLEAN
Labels ==
  /\ pc \in [{Owner, Receiver, Heart} -> OwnerPC \cup ReceiverPC \cup HeartPC]
  /\ pc[Owner] \in OwnerPC /\ pc[Receiver] \in ReceiverPC /\ pc[Heart] \in HeartPC
Queue == inbox \in Seq(Message)
Numbers ==
  /\ token \in 0..1 /\ handlers \in Nat
  /\ drops \in 0..MaxDrops

LEMMA TypeOKParts == TypeOK <=> Labels /\ Queue /\ Numbers /\ Flags
BY DEF TypeOK, Labels, Queue, Numbers, Flags

LEMMA InitIInv == Init => IInv
<1> SUFFICES ASSUME Init PROVE IInv
  OBVIOUS
<1> USE MainSocketAssumption DEF MainSocketAssumption, Init, Owner, Receiver, Heart
<1>1. Flags BY DEF Flags
<1>2. Labels /\ Queue /\ Numbers
  BY DEF Labels, Queue, Numbers, OwnerPC, ReceiverPC, HeartPC
<1>3. Protocol
  BY DEF Protocol, Tokens, Ends, Answers, NoSendAfterClose, ShutByClose, Shutting,
     TokenHasTaker, TokenOut, LoopsStartLater, EndsUnregistered, AnswerIsAwaited,
     IsAnswer,
     RegistersFirst, AnsweredIsOver
<1> QED BY <1>1, <1>2, <1>3, TypeOKParts DEF IInv

\* What arrives, is received or is thrown away keeps inbox a queue of messages.
LEMMA Inbox ==
  ASSUME inbox \in Seq(Message)
  PROVE  /\ \A m \in Message : /\ Append(inbox, m) \in Seq(Message)
                               /\ Len(Append(inbox, m)) = Len(inbox) + 1
                               /\ \A i \in 1..Len(inbox) :
                                    Append(inbox, m)[i] = inbox[i]
                               /\ Append(inbox, m)[Len(inbox) + 1] = m
         /\ inbox # <<>> => /\ Tail(inbox) \in Seq(Message)
                            /\ Len(inbox) \in Nat \ {0}
                            /\ Len(Tail(inbox)) = Len(inbox) - 1
                            /\ \A i \in 1..Len(inbox) - 1 : Tail(inbox)[i] = inbox[i + 1]
                            /\ Head(inbox) = inbox[1] /\ inbox[1] \in Message
OBVIOUS

LEMMA GotoLabels ==
  ASSUME Labels, NEW p, NEW label, Goto(p, label),
         \/ p = Owner /\ label \in OwnerPC
         \/ p = Receiver /\ label \in ReceiverPC
         \/ p = Heart /\ label \in HeartPC
  PROVE  Labels'
<1> USE DEF Owner, Receiver, Heart
<1>1. CASE p = Owner BY <1>1 DEF Labels, Goto
<1>2. CASE p = Receiver BY <1>2 DEF Labels, Goto
<1>3. CASE p = Heart BY <1>3 DEF Labels, Goto
<1> QED BY <1>1, <1>2, <1>3

LEMMA StepTypeOK == TypeOK /\ [Next]_vars => TypeOK'
<1> SUFFICES ASSUME Labels, Queue, Numbers, Flags, [Next]_vars
             PROVE  Labels' /\ Queue' /\ Numbers' /\ Flags'
  BY DEF TypeOK, Labels, Queue, Numbers, Flags
<1> USE MainSocketAssumption
    DEF MainSocketAssumption, Owner, Receiver, Heart, wire, signals, HangUp
<1>0. /\ \A m \in {"registered", "refused", "unregistered", "event"} : m \in Message
      /\ inbox \in Seq(Message) /\ <<>> \in Seq(Message)
  BY DEF Message, Queue
<1>1. ASSUME NEW p \in {Owner, Receiver},
             ConnectBegins(p) \/ DialSucceeds(p) \/ ConnectFails(p)
      PROVE  Labels' /\ Queue' /\ Numbers' /\ Flags'
  <2>1. Labels'
    BY <1>1, GotoLabels
    DEF ConnectBegins, DialSucceeds, ConnectFails,
       Labels, OwnerPC, ReceiverPC, HeartPC
  <2>2. Queue'
    BY <1>0, <1>1 DEF ConnectBegins, DialSucceeds, ConnectFails, Queue
  <2>3. Numbers'
    BY <1>1 DEF ConnectBegins, DialSucceeds, ConnectFails, Numbers
  <2>4. Flags'
    BY <1>1 DEF ConnectBegins, DialSucceeds, ConnectFails, Flags
  <2> QED BY <2>1, <2>2, <2>3, <2>4
<1>2. ASSUME NEW p \in {Owner, Receiver}, RegisterSends(p)
      PROVE  Labels' /\ Queue' /\ Numbers' /\ Flags'
  <2>1. Labels'
    BY <1>2, GotoLabels
    DEF RegisterSends, SendArrives, Registers,
       Labels, OwnerPC, ReceiverPC, HeartPC
  <2>2. Queue'
    BY <1>0, <1>2, Inbox DEF RegisterSends, SendArrives, Registers, Queue
  <2>3. Numbers'
    BY <1>2 DEF RegisterSends, SendArrives, Registers, Numbers
  <2>4. Flags'
    BY <1>2 DEF RegisterSends, SendArrives, Registers, Flags
  <2> QED BY <2>1, <2>2, <2>3, <2>4
<1>3. ASSUME NEW p \in {Owner, Receiver}, RegisterFails(p)
      PROVE  Labels' /\ Queue' /\ Numbers' /\ Flags'
  <2>1. Labels'
    <3>1. \E ok \in BOOLEAN : RegisterReturns(p, ok) BY <1>3 DEF RegisterFails,
    SendFails, ReceiveFails
    <3> QED BY <3>1 DEF Labels, RegisterReturns, OwnerPC, ReceiverPC, HeartPC
  <2>2. Queue'
    BY <1>0, <1>3 DEF RegisterFails, SendFails, ReceiveFails, Queue
  <2>3. Numbers'
    BY <1>3 DEF RegisterFails, SendFails, ReceiveFails, Numbers
  <2>4. Flags'
    BY <1>3 DEF RegisterFails, SendFails, ReceiveFails, Flags
  <2> QED BY <2>1, <2>2, <2>3, <2>4
<1>4. ASSUME NEW p \in {Owner, Receiver}, RegisterReceives(p)
      PROVE  Labels' /\ Queue' /\ Numbers' /\ Flags'
  <2>1. Labels'
    <3>1. \E ok \in BOOLEAN : RegisterReturns(p, ok) BY <1>4 DEF RegisterReceives,
    Receives
    <3> QED BY <3>1 DEF Labels, RegisterReturns, OwnerPC, ReceiverPC, HeartPC
  <2>2. Queue'
    BY <1>0, <1>4, Inbox DEF RegisterReceives, Receives, Queue
  <2>3. Numbers'
    BY <1>4 DEF RegisterReceives, Receives, Numbers
  <2>4. Flags'
    BY <1>4 DEF RegisterReceives, Receives, Flags
  <2> QED BY <2>1, <2>2, <2>3, <2>4
<1>5. CASE OwnerRetries \/ Wakes \/ ReceivesNothing \/ HandlerEnds
  <2>1. Labels'
    BY <1>5, GotoLabels
    DEF OwnerRetries, Wakes, ReceivesNothing, ReceiveFails, HandlerEnds, Wakens,
       Labels, OwnerPC, ReceiverPC, HeartPC
  <2>2. Queue'
    BY <1>0, <1>5 DEF OwnerRetries, Wakes, ReceivesNothing, ReceiveFails, HandlerEnds,
       Wakens,
    Queue
  <2>3. Numbers'
    BY <1>5 DEF OwnerRetries, Wakes, ReceivesNothing, ReceiveFails, HandlerEnds,
       Wakens, Numbers
  <2>4. Flags'
    BY <1>5 DEF OwnerRetries, Wakes, ReceivesNothing, ReceiveFails, HandlerEnds,
       Wakens, Flags
  <2> QED BY <2>1, <2>2, <2>3, <2>4
<1>6. CASE ReceivesEvent \/ ReceivesUnregistered
  <2>1. Labels'
    BY <1>6, GotoLabels
    DEF ReceivesEvent, ReceivesUnregistered, Receives,
       Labels, OwnerPC, ReceiverPC, HeartPC
  <2>2. Queue'
    BY <1>0, <1>6, Inbox DEF ReceivesEvent, ReceivesUnregistered, Receives, Queue
  <2>3. Numbers'
    BY <1>6 DEF ReceivesEvent, ReceivesUnregistered, Receives, Numbers
  <2>4. Flags'
    BY <1>6 DEF ReceivesEvent, ReceivesUnregistered, Receives, Flags
  <2> QED BY <2>1, <2>2, <2>3, <2>4
<1>7. CASE Signals \/ HeartPutsBack \/ Notifies
  <2>1. Labels'
    BY <1>7, GotoLabels
    DEF Signals, HeartPutsBack, Notifies, PutsToken,
       Labels, OwnerPC, ReceiverPC, HeartPC
  <2>2. Queue'
    BY <1>0, <1>7 DEF Signals, HeartPutsBack, Notifies, PutsToken, Queue
  <2>3. Numbers'
    BY <1>7 DEF Signals, HeartPutsBack, Notifies, PutsToken, Numbers
  <2>4. Flags'
    BY <1>7 DEF Signals, HeartPutsBack, Notifies, PutsToken, Flags
  <2> QED BY <2>1, <2>2, <2>3, <2>4
<1>8. CASE HeartTakesToken \/ Retakes \/ IsAnswered
  <2>1. Labels'
    BY <1>8, GotoLabels
    DEF HeartTakesToken, Retakes, IsAnswered, TakesToken,
       Labels, OwnerPC, ReceiverPC, HeartPC
  <2>2. Queue'
    BY <1>0, <1>8 DEF HeartTakesToken, Retakes, IsAnswered, TakesToken, Queue
  <2>3. Numbers'
    BY <1>8 DEF HeartTakesToken, Retakes, IsAnswered, TakesToken, Numbers
  <2>4. Flags'
    BY <1>8 DEF HeartTakesToken, Retakes, IsAnswered, TakesToken, Flags
  <2> QED BY <2>1, <2>2, <2>3, <2>4
<1>9. CASE \/ Beats \/ HeartSeesClosed \/ CallsUnregister \/ CallsClose
           \/ ClosesChannel \/ WaitsForHandlers \/ HandlersDone
           \/ WaitIsMisused \/ HangsUp
  <2>1. Labels'
    BY <1>9, GotoLabels
    DEF Beats, HeartSeesClosed, CallsUnregister, CallsClose, ClosesChannel,
       WaitsForHandlers, HandlersDone, WaitIsMisused, HangsUp,
       Labels, OwnerPC, ReceiverPC, HeartPC
  <2>2. Queue'
    BY <1>0, <1>9 DEF Beats, HeartSeesClosed, CallsUnregister, CallsClose,
    ClosesChannel,
       WaitsForHandlers, HandlersDone, WaitIsMisused, HangsUp, Queue
  <2>3. Numbers'
    BY <1>9 DEF Beats, HeartSeesClosed, CallsUnregister, CallsClose, ClosesChannel,
       WaitsForHandlers, HandlersDone, WaitIsMisused, HangsUp, Numbers
  <2>4. Flags'
    BY <1>9 DEF Beats, HeartSeesClosed, CallsUnregister, CallsClose, ClosesChannel,
       WaitsForHandlers, HandlersDone, WaitIsMisused, HangsUp, Flags
  <2> QED BY <2>1, <2>2, <2>3, <2>4
<1>10. CASE BeatEnds
  <2>1. Labels'
    BY <1>10, GotoLabels
    DEF BeatEnds, SendArrives, SendFails,
       Labels, OwnerPC, ReceiverPC, HeartPC
  <2>2. Queue'
    BY <1>0, <1>10 DEF BeatEnds, SendArrives, SendFails, Queue
  <2>3. Numbers'
    BY <1>10 DEF BeatEnds, SendArrives, SendFails, Numbers
  <2>4. Flags'
    BY <1>10 DEF BeatEnds, SendArrives, SendFails, Flags
  <2> QED BY <2>1, <2>2, <2>3, <2>4
<1>11. CASE Requests \/ RequestFails
  <2>1. Labels'
    BY <1>11, GotoLabels
    DEF Requests, RequestFails, SendArrives, Unregisters, SendFails,
       Labels, OwnerPC, ReceiverPC, HeartPC
  <2>2. Queue'
    BY <1>0, <1>11, Inbox DEF Requests, RequestFails, SendArrives, Unregisters,
    SendFails, Queue
  <2>3. Numbers'
    BY <1>11 DEF Requests, RequestFails, SendArrives, Unregisters, SendFails, Numbers
  <2>4. Flags'
    BY <1>11 DEF Requests, RequestFails, SendArrives, Unregisters, SendFails, Flags
  <2> QED BY <2>1, <2>2, <2>3, <2>4
<1>12. CASE Forwards \/ Drops
  <2>1. Labels'
    BY <1>12 DEF Forwards, Drops, Labels
  <2>2. Queue'
    BY <1>0, <1>12, Inbox DEF Forwards, Drops, Queue
  <2>3. Numbers'
    BY <1>12 DEF Forwards, Drops, Numbers
  <2>4. Flags'
    BY <1>12 DEF Forwards, Drops, Flags
  <2> QED BY <2>1, <2>2, <2>3, <2>4
<1>13. CASE UNCHANGED vars
  BY <1>13 DEF vars, Labels, Queue, Numbers, Flags
<1> QED
  BY <1>1, <1>2, <1>3, <1>4, <1>5, <1>6, <1>7, <1>8, <1>9, <1>10, <1>11, <1>12, <1>13
  DEF Next, OwnerStep, ReceiverStep, HeartStep, Registering

\* The answers among the messages, when one is sent or received.
LEMMA SentAnswers ==
  ASSUME Queue, NEW m \in Message, inbox' = Append(inbox, m)
  PROVE  \A i \in Nat : IsAnswer(i)' <=>
           IsAnswer(i) \/ (i = Len(inbox) + 1 /\ m = "unregistered")
BY Inbox DEF Queue, IsAnswer

LEMMA ReceivedAnswers ==
  ASSUME Queue, inbox # <<>>, inbox' = Tail(inbox)
  PROVE  /\ \A i \in Nat : IsAnswer(i)' => IsAnswer(i + 1)
         /\ inbox[1] = "unregistered" => IsAnswer(1)
BY Inbox DEF Queue, IsAnswer

LEMMA StepProtocol == IInv /\ [Next]_vars => Protocol'
<1> SUFFICES ASSUME IInv, [Next]_vars PROVE Tokens' /\ Ends' /\ Answers'
  BY DEF Protocol
<1> USE DEF Owner, Receiver, Heart, wire, signals, HangUp, Goto
<1>0. Labels /\ Queue /\ Numbers /\ Flags /\ Tokens /\ Ends /\ Answers
  BY TypeOKParts DEF IInv, Protocol
<1>1. ASSUME NEW p \in {Owner, Receiver},
             ConnectBegins(p) \/ DialSucceeds(p) \/ ConnectFails(p)
      PROVE  Tokens' /\ Ends' /\ Answers'
  <2>1. Tokens'
    BY <1>0, <1>1
    DEF ConnectBegins, DialSucceeds, ConnectFails, Labels, Tokens, NoSendAfterClose,
        ShutByClose, Shutting,
        TokenHasTaker, TokenOut, LoopsStartLater, Ends, EndsUnregistered, Asked
  <2>2. Ends'
    BY <1>0, <1>1
    DEF ConnectBegins, DialSucceeds, ConnectFails, Labels, Numbers, Ends,
        EndsUnregistered, AnsweredIsOver, Asked,
        Tokens, NoSendAfterClose, ShutByClose, Shutting,
        TokenHasTaker, TokenOut, LoopsStartLater, Queue, Answers, AnswerIsAwaited,
        RegistersFirst, IsAnswer
  <2>3. Answers'
    BY <1>0, <1>1
    DEF ConnectBegins, DialSucceeds, ConnectFails, Labels, Answers, AnswerIsAwaited,
        RegistersFirst, IsAnswer,
        Queue, Tokens, NoSendAfterClose, ShutByClose, Shutting,
        TokenHasTaker, TokenOut, LoopsStartLater, Ends, EndsUnregistered,
        AnsweredIsOver, Asked, Message
  <2> QED BY <2>1, <2>2, <2>3
<1>2. ASSUME NEW p \in {Owner, Receiver}, RegisterSends(p)
      PROVE  Tokens' /\ Ends' /\ Answers'
  <2>1. Tokens'
    BY <1>0, <1>2
    DEF RegisterSends, SendArrives, Registers, Labels, Tokens, NoSendAfterClose,
        ShutByClose, Shutting,
        TokenHasTaker, TokenOut, LoopsStartLater, Ends, EndsUnregistered, Asked
  <2>2. Ends'
    BY <1>0, <1>2
    DEF RegisterSends, SendArrives, Registers, Labels, Numbers, Ends,
        EndsUnregistered, AnsweredIsOver, Asked,
        Tokens, NoSendAfterClose, ShutByClose, Shutting,
        TokenHasTaker, TokenOut, LoopsStartLater, Queue, Answers, AnswerIsAwaited,
        RegistersFirst, IsAnswer
  <2>3. Answers'
    <3>1. CASE UNCHANGED <<registered, inbox>>
      BY <1>0, <1>2, <3>1
      DEF RegisterSends, SendArrives, Labels, Answers, AnswerIsAwaited,
          RegistersFirst, IsAnswer, Tokens, LoopsStartLater, Ends, EndsUnregistered,
          Asked
    <3>2. ASSUME NEW m \in {"registered", "refused"}, inbox' = Append(inbox, m)
          PROVE  Answers'
      <4>1. \A i \in Nat : IsAnswer(i)' <=> IsAnswer(i)
        BY <1>0, <3>2, SentAnswers DEF Message
      <4>2. \A i \in Nat : IsAnswer(i) => p = Receiver /\ i = 1
        BY <1>0, <1>2 DEF RegisterSends, Queue, Answers, AnswerIsAwaited,
        RegistersFirst,
           IsAnswer, Labels, Tokens, LoopsStartLater
      <4>3. AnswerIsAwaited'
        BY <1>0, <1>2, <4>1, <4>2
        DEF RegisterSends, SendArrives, Labels, Answers, AnswerIsAwaited
      <4>4. RegistersFirst'
        BY <1>0, <1>2, <4>1, <4>2
        DEF RegisterSends, Labels, RegistersFirst, Tokens, LoopsStartLater
      <4> QED BY <4>3, <4>4 DEF Answers
    <3> QED BY <1>2, <3>1, <3>2 DEF RegisterSends, SendArrives, Registers
  <2> QED BY <2>1, <2>2, <2>3
<1>3. ASSUME NEW p \in {Owner, Receiver}, RegisterFails(p)
      PROVE  Tokens' /\ Ends' /\ Answers'
  <2>1. Tokens'
    BY <1>0, <1>3
    DEF RegisterFails, RegisterReturns, SendFails, ReceiveFails, Labels, Tokens,
        NoSendAfterClose, ShutByClose, Shutting,
        TokenHasTaker, TokenOut, LoopsStartLater, Ends, EndsUnregistered, Asked
  <2>2. Ends'
    BY <1>0, <1>3
    DEF RegisterFails, RegisterReturns, SendFails, ReceiveFails, Labels, Numbers,
        Ends, EndsUnregistered, AnsweredIsOver, Asked,
        Tokens, NoSendAfterClose, ShutByClose, Shutting,
        TokenHasTaker, TokenOut, LoopsStartLater, Queue, Answers, AnswerIsAwaited,
        RegistersFirst, IsAnswer
  <2>3. Answers'
    BY <1>0, <1>3
    DEF RegisterFails, RegisterReturns, SendFails, ReceiveFails, Labels, Answers,
        AnswerIsAwaited, RegistersFirst, IsAnswer,
        Queue, Tokens, NoSendAfterClose, ShutByClose, Shutting,
        TokenHasTaker, TokenOut, LoopsStartLater, Ends, EndsUnregistered,
        AnsweredIsOver, Asked, Message
  <2> QED BY <2>1, <2>2, <2>3
<1>4. ASSUME NEW p \in {Owner, Receiver}, RegisterReceives(p)
      PROVE  Tokens' /\ Ends' /\ Answers'
  <2>1. Tokens'
    BY <1>0, <1>4
    DEF RegisterReceives, RegisterReturns, Receives, Labels, Tokens, NoSendAfterClose,
        ShutByClose, Shutting,
        TokenHasTaker, TokenOut, LoopsStartLater, Ends, EndsUnregistered, Asked
  <2>2. Ends'
    BY <1>0, <1>4
    DEF RegisterReceives, RegisterReturns, Receives, Labels, Numbers, Ends,
        EndsUnregistered, AnsweredIsOver, Asked,
        Tokens, NoSendAfterClose, ShutByClose, Shutting,
        TokenHasTaker, TokenOut, LoopsStartLater, Queue, Answers, AnswerIsAwaited,
        RegistersFirst, IsAnswer
  <2>3. Answers'
    BY <1>0, <1>4, Inbox
    DEF RegisterReceives, RegisterReturns, Receives, Labels, Answers, AnswerIsAwaited,
        RegistersFirst, IsAnswer,
        Queue, Tokens, NoSendAfterClose, ShutByClose, Shutting,
        TokenHasTaker, TokenOut, LoopsStartLater, Ends, EndsUnregistered,
        AnsweredIsOver, Asked, Message
  <2> QED BY <2>1, <2>2, <2>3
<1>5. CASE OwnerRetries \/ Wakes \/ ReceivesNothing \/ HandlerEnds
  <2>1. Tokens'
    BY <1>0, <1>5
    DEF OwnerRetries, Wakes, ReceivesNothing, ReceiveFails, HandlerEnds, Wakens, Labels,
        Tokens, NoSendAfterClose, ShutByClose, Shutting,
        TokenHasTaker, TokenOut, LoopsStartLater, Ends, EndsUnregistered, Asked
  <2>2. Ends'
    BY <1>0, <1>5
    DEF OwnerRetries, Wakes, ReceivesNothing, ReceiveFails, HandlerEnds, Wakens, Labels,
        Numbers, Ends, EndsUnregistered, AnsweredIsOver, Asked,
        Tokens, NoSendAfterClose, ShutByClose, Shutting,
        TokenHasTaker, TokenOut, LoopsStartLater, Queue, Answers, AnswerIsAwaited,
        RegistersFirst, IsAnswer
  <2>3. Answers'
    BY <1>0, <1>5
    DEF OwnerRetries, Wakes, ReceivesNothing, ReceiveFails, HandlerEnds, Wakens, Labels,
        Answers, AnswerIsAwaited, RegistersFirst, IsAnswer,
        Queue, Tokens, NoSendAfterClose, ShutByClose, Shutting,
        TokenHasTaker, TokenOut, LoopsStartLater, Ends, EndsUnregistered,
        AnsweredIsOver, Asked, Message
  <2> QED BY <2>1, <2>2, <2>3
<1>6. CASE ReceivesEvent \/ ReceivesUnregistered
  <2>1. Tokens'
    BY <1>0, <1>6
    DEF ReceivesEvent, ReceivesUnregistered, Receives, Labels, Tokens,
        NoSendAfterClose, ShutByClose, Shutting,
        TokenHasTaker, TokenOut, LoopsStartLater, Ends, EndsUnregistered, Asked
  <2>2. Ends'
    BY <1>0, <1>6, Inbox
    DEF ReceivesEvent, ReceivesUnregistered, Receives, Labels, Numbers, Ends,
        EndsUnregistered, AnsweredIsOver, Asked,
        Tokens, NoSendAfterClose, ShutByClose, Shutting,
        TokenHasTaker, TokenOut, LoopsStartLater, Queue, Answers, AnswerIsAwaited,
        RegistersFirst, IsAnswer
  <2>3. Answers'
    <3>1. /\ pc[Receiver] = "receive" /\ inbox # <<>> /\ inbox' = Tail(inbox)
          /\ UNCHANGED registered
          /\ \/ pc' = pc
             \/ pc' = [pc EXCEPT ![Receiver] = "signal"] /\ inbox[1] = "unregistered"
      BY <1>0, <1>6, Inbox DEF ReceivesEvent, ReceivesUnregistered, Receives, Queue
    <3>2. \A i \in Nat : IsAnswer(i)' => IsAnswer(i + 1) /\ ~IsAnswer(1)
      <4>1. SUFFICES ASSUME NEW i \in Nat, IsAnswer(i)' PROVE IsAnswer(i + 1) /\
      ~IsAnswer(1)
        OBVIOUS
      <4>2. IsAnswer(i + 1) /\ i \in 1..Len(inbox')
        BY <1>0, <3>1, <4>1, ReceivedAnswers DEF IsAnswer
      <4> QED
        BY <1>0, <4>2 DEF Answers, AnswerIsAwaited
    <3>3. inbox[1] = "unregistered" => IsAnswer(1)
      BY <1>0, <3>1, ReceivedAnswers
    <3>4. AnswerIsAwaited'
      BY <1>0, <3>1, <3>2, <3>3 DEF Labels, Answers, AnswerIsAwaited
    <3>5. RegistersFirst'
      BY <1>0, <3>1 DEF Labels, RegistersFirst
    <3> QED BY <3>4, <3>5 DEF Answers
  <2> QED BY <2>1, <2>2, <2>3
<1>7. CASE Signals \/ HeartPutsBack \/ Notifies
  <2>1. Tokens'
    BY <1>0, <1>7
    DEF Signals, HeartPutsBack, Notifies, PutsToken, Labels, Tokens, NoSendAfterClose,
        ShutByClose, Shutting,
        TokenHasTaker, TokenOut, LoopsStartLater, Ends, EndsUnregistered, Asked
  <2>2. Ends'
    BY <1>0, <1>7
    DEF Signals, HeartPutsBack, Notifies, PutsToken, Labels, Numbers, Ends,
        EndsUnregistered, AnsweredIsOver, Asked,
        Tokens, NoSendAfterClose, ShutByClose, Shutting,
        TokenHasTaker, TokenOut, LoopsStartLater, Queue, Answers, AnswerIsAwaited,
        RegistersFirst, IsAnswer
  <2>3. Answers'
    BY <1>0, <1>7
    DEF Signals, HeartPutsBack, Notifies, PutsToken, Labels, Answers, AnswerIsAwaited,
        RegistersFirst, IsAnswer,
        Queue, Tokens, NoSendAfterClose, ShutByClose, Shutting,
        TokenHasTaker, TokenOut, LoopsStartLater, Ends, EndsUnregistered,
        AnsweredIsOver, Asked, Message
  <2> QED BY <2>1, <2>2, <2>3
<1>8. CASE HeartTakesToken \/ Retakes \/ IsAnswered
  <2>1. Tokens'
    BY <1>0, <1>8
    DEF HeartTakesToken, Retakes, IsAnswered, TakesToken, Labels, Tokens,
        NoSendAfterClose, ShutByClose, Shutting,
        TokenHasTaker, TokenOut, LoopsStartLater, Ends, EndsUnregistered, Asked
  <2>2. Ends'
    BY <1>0, <1>8
    DEF HeartTakesToken, Retakes, IsAnswered, TakesToken, Labels, Numbers, Ends,
        EndsUnregistered, AnsweredIsOver, Asked,
        Tokens, NoSendAfterClose, ShutByClose, Shutting,
        TokenHasTaker, TokenOut, LoopsStartLater, Queue, Answers, AnswerIsAwaited,
        RegistersFirst, IsAnswer
  <2>3. Answers'
    BY <1>0, <1>8
    DEF HeartTakesToken, Retakes, IsAnswered, TakesToken, Labels, Answers,
        AnswerIsAwaited, RegistersFirst, IsAnswer,
        Queue, Tokens, NoSendAfterClose, ShutByClose, Shutting,
        TokenHasTaker, TokenOut, LoopsStartLater, Ends, EndsUnregistered,
        AnsweredIsOver, Asked, Message
  <2> QED BY <2>1, <2>2, <2>3
<1>9. CASE \/ Beats \/ HeartSeesClosed \/ CallsUnregister \/ CallsClose
           \/ ClosesChannel \/ WaitsForHandlers \/ HandlersDone
           \/ WaitIsMisused \/ HangsUp
  <2>1. Tokens'
    BY <1>0, <1>9
    DEF Beats, HeartSeesClosed, CallsUnregister, CallsClose,
        ClosesChannel, WaitsForHandlers, HandlersDone, WaitIsMisused, HangsUp, Labels,
        Tokens, NoSendAfterClose,
        ShutByClose, Shutting,
        TokenHasTaker, TokenOut, LoopsStartLater, Ends, EndsUnregistered, Asked
  <2>2. Ends'
    BY <1>0, <1>9
    DEF Beats, HeartSeesClosed, CallsUnregister, CallsClose,
        ClosesChannel, WaitsForHandlers, HandlersDone, WaitIsMisused, HangsUp, Labels,
        Numbers, Ends, EndsUnregistered,
        AnsweredIsOver, Asked,
        Tokens, NoSendAfterClose, ShutByClose, Shutting,
        TokenHasTaker, TokenOut, LoopsStartLater, Queue, Answers, AnswerIsAwaited,
        RegistersFirst, IsAnswer
  <2>3. Answers'
    BY <1>0, <1>9
    DEF Beats, HeartSeesClosed, CallsUnregister, CallsClose,
        ClosesChannel, WaitsForHandlers, HandlersDone, WaitIsMisused, HangsUp, Labels,
        Answers, AnswerIsAwaited,
        RegistersFirst, IsAnswer,
        Queue, Tokens, NoSendAfterClose, ShutByClose, Shutting,
        TokenHasTaker, TokenOut, LoopsStartLater, Ends, EndsUnregistered,
        AnsweredIsOver, Asked, Message
  <2> QED BY <2>1, <2>2, <2>3
<1>10. CASE BeatEnds
  <2>1. Tokens'
    BY <1>0, <1>10
    DEF BeatEnds, SendArrives, SendFails, Labels, Tokens, NoSendAfterClose,
        ShutByClose, Shutting,
        TokenHasTaker, TokenOut, LoopsStartLater, Ends, EndsUnregistered, Asked
  <2>2. Ends'
    BY <1>0, <1>10
    DEF BeatEnds, SendArrives, SendFails, Labels, Numbers, Ends, EndsUnregistered,
        AnsweredIsOver, Asked,
        Tokens, NoSendAfterClose, ShutByClose, Shutting,
        TokenHasTaker, TokenOut, LoopsStartLater, Queue, Answers, AnswerIsAwaited,
        RegistersFirst, IsAnswer
  <2>3. Answers'
    BY <1>0, <1>10
    DEF BeatEnds, SendArrives, SendFails, Labels, Answers, AnswerIsAwaited,
        RegistersFirst, IsAnswer,
        Queue, Tokens, NoSendAfterClose, ShutByClose, Shutting,
        TokenHasTaker, TokenOut, LoopsStartLater, Ends, EndsUnregistered,
        AnsweredIsOver, Asked, Message
  <2> QED BY <2>1, <2>2, <2>3
<1>11. CASE Requests \/ RequestFails
  <2>1. Tokens'
    BY <1>0, <1>11
    DEF Requests, RequestFails, SendArrives, Unregisters, SendFails, Labels, Tokens,
        NoSendAfterClose, ShutByClose, Shutting,
        TokenHasTaker, TokenOut, LoopsStartLater, Ends, EndsUnregistered, Asked
  <2>2. Ends'
    BY <1>0, <1>11
    DEF Requests, RequestFails, SendArrives, Unregisters, SendFails, Labels, Numbers,
        Ends, EndsUnregistered, AnsweredIsOver, Asked,
        Tokens, NoSendAfterClose, ShutByClose, Shutting,
        TokenHasTaker, TokenOut, LoopsStartLater, Queue, Answers, AnswerIsAwaited,
        RegistersFirst, IsAnswer
  <2>3. Answers'
    <3>1. CASE \/ UNCHANGED <<registered, inbox>>
               \/ inbox' = <<>> /\ registered' = FALSE
      BY <1>0, <1>11, <3>1
      DEF Requests, RequestFails, Labels, Answers, AnswerIsAwaited,
          RegistersFirst, IsAnswer
    <3>2. CASE Requests /\ Unregisters
      <4>1. \A i \in Nat : IsAnswer(i)' <=> i = Len(inbox) + 1
        BY <1>0, <3>2, SentAnswers
        DEF Requests, Unregisters, Message, Answers, AnswerIsAwaited
      <4>2. AnswerIsAwaited'
        BY <1>0, <3>2, <4>1
        DEF Requests, Unregisters, Labels, AnswerIsAwaited, Ends, EndsUnregistered,
            Asked, Shutting
      <4>3. RegistersFirst'
        <5>1. SUFFICES ASSUME pc[Receiver] = "register", NEW i \in 1..Len(inbox')
                       PROVE  inbox'[i] = "unregistered"
          BY <1>0, <3>2 DEF Requests, Unregisters, Labels, RegistersFirst, IsAnswer
        <5>2. ~IsAnswer(i) => i = Len(inbox) + 1
          BY <1>0, <3>2, <5>1, Inbox
          DEF Unregisters, Message, Queue, Answers, RegistersFirst
        <5> QED BY <1>0, <3>2, <5>2, Inbox DEF Unregisters, Message, Queue, IsAnswer
      <4> QED BY <4>2, <4>3 DEF Answers
    <3> QED BY <1>11, <3>1, <3>2 DEF Requests, RequestFails, SendArrives, SendFails
  <2> QED BY <2>1, <2>2, <2>3
<1>12. CASE Forwards \/ Drops
  <2>1. Tokens'
    BY <1>0, <1>12
    DEF Forwards, Drops, Labels, Tokens, NoSendAfterClose, ShutByClose, Shutting,
        TokenHasTaker, TokenOut, LoopsStartLater, Ends, EndsUnregistered, Asked
  <2>2. Ends'
    BY <1>0, <1>12
    DEF Forwards, Drops, Labels, Numbers, Ends, EndsUnregistered, AnsweredIsOver, Asked,
        Tokens, NoSendAfterClose, ShutByClose, Shutting,
        TokenHasTaker, TokenOut, LoopsStartLater, Queue, Answers, AnswerIsAwaited,
        RegistersFirst, IsAnswer
  <2>3. Answers'
    BY <1>0, <1>12, Inbox
    DEF Forwards, Drops, Labels, Answers, AnswerIsAwaited, RegistersFirst, IsAnswer,
        Queue, Tokens, NoSendAfterClose, ShutByClose, Shutting,
        TokenHasTaker, TokenOut, LoopsStartLater, Ends, EndsUnregistered,
        AnsweredIsOver, Asked, Message
  <2> QED BY <2>1, <2>2, <2>3
<1>13. CASE UNCHANGED vars
  BY <1>0, <1>13 DEF vars, Tokens, NoSendAfterClose, ShutByClose, TokenHasTaker,
     TokenOut, LoopsStartLater, Ends, EndsUnregistered, AnsweredIsOver,
     Answers, AnswerIsAwaited, RegistersFirst, IsAnswer
<1> QED
  BY <1>1, <1>2, <1>3, <1>4, <1>5, <1>6, <1>7, <1>8, <1>9, <1>10, <1>11, <1>12, <1>13
  DEF Next, OwnerStep, ReceiverStep, HeartStep, Registering

LEMMA Invariance == Spec => []IInv
<1>1. Init => IInv
  BY InitIInv
<1>2. IInv /\ [Next]_vars => IInv'
  BY StepTypeOK, StepProtocol DEF IInv
<1> QED BY <1>1, <1>2, PTL DEF Spec

-----------------------------------------------------------------------------
\* Every variable keeps its type: closedCh never holds a second token, the
\* WaitGroup of the handlers never goes negative.
THEOREM TypeCorrect == Spec => []TypeOK
BY Invariance, PTL DEF IInv

\* No goroutine ever sends on closedCh after Close has closed it.
THEOREM NobodySendsAfterClose == Spec => []NoSendAfterClose
<1>1. IInv => NoSendAfterClose
  BY DEF IInv, Protocol, Tokens
<1> QED BY <1>1, Invariance, PTL

\* No reconnection registers this process again once Unregister has returned
\* true.
THEOREM StaysUnregistered == Spec => []UnregisteredForGood
<1>1. IInv => UnregisteredForGood
  BY DEF IInv, Protocol, Ends, EndsUnregistered, AnsweredIsOver, UnregisteredForGood
<1> QED BY <1>1, Invariance, PTL

\* Close after an Unregister that returned true leaves nothing behind: no
\* connection, no handler, no receive loop; and its Wait does not panic.
THEOREM StaysClosed == Spec => []ClosedForGood
<1>1. IInv => ClosedForGood
  BY DEF IInv, Protocol, Ends, AnsweredIsOver, ClosedForGood
<1> QED BY <1>1, Invariance, PTL

\* Once Unregister has returned true no handler is started any more.
THEOREM StaysQuiet == Spec => QuietAfterUnregister
<1>1. IInv /\ [Next]_vars => [answered => handlers' <= handlers]_vars
  <2> SUFFICES ASSUME IInv, Next, answered PROVE handlers' <= handlers
    OBVIOUS
  <2> USE DEF wire, signals
  <2>1. handlers \in Nat /\ pc[Receiver] = "quit"
    BY DEF IInv, TypeOK, Protocol, Ends, AnsweredIsOver
  <2>2. CASE ReceivesEvent
    BY <2>1, <2>2 DEF ReceivesEvent
  <2>3. CASE HandlerEnds
    BY <2>1, <2>3 DEF HandlerEnds
  <2>4. CASE ~ReceivesEvent /\ ~HandlerEnds
    <3>1. UNCHANGED handlers
      BY <2>4
      DEF Next, OwnerStep, ReceiverStep, HeartStep, Registering, ConnectBegins,
          DialSucceeds, ConnectFails, RegisterSends, RegisterFails, RegisterReceives,
          OwnerRetries, ReceivesNothing, Wakes, ReceivesUnregistered, Signals,
          PutsToken, TakesToken, Beats, BeatEnds, HeartTakesToken, HeartPutsBack,
          HeartSeesClosed, CallsUnregister, Notifies, Retakes, Requests, RequestFails,
          IsAnswered, CallsClose, ClosesChannel, WaitsForHandlers, HandlersDone,
          WaitIsMisused, HangsUp, Forwards, Drops
    <3> QED BY <2>1, <3>1
  <2> QED BY <2>2, <2>3, <2>4
<1> QED BY <1>1, Invariance, PTL DEF Spec, QuietAfterUnregister

-----------------------------------------------------------------------------
(* The connection is used as AtomicSocket has it.                          *)

End == IF sock # "yes" THEN "shut" ELSE IF live THEN "open" ELSE "lost"

Acts == Atomic!Next \/ UNCHANGED <<sock, End>>

\* Whatever makes the state "no" ends an attempt to connect or closes.
LEMMA HangUpActs ==
  ASSUME TypeOK, sock' = "no"
  PROVE  Acts
<1>1. sock \in {"no", "ing", "yes"} BY DEF TypeOK
<1>2. CASE sock = "no" BY <1>2 DEF Acts, End
<1>3. CASE sock = "ing" BY <1>3 DEF Acts, End, Atomic!Next, Atomic!Fail
<1>4. CASE sock = "yes" BY <1>4 DEF Acts, End, Atomic!Next, Atomic!Close
<1> QED BY <1>1, <1>2, <1>3, <1>4

LEMMA KeptActs ==
  ASSUME UNCHANGED <<sock, live>>
  PROVE  Acts
BY DEF Acts, End

LEMMA SendActs ==
  ASSUME TypeOK,
         SendArrives(Registers) \/ SendArrives(Unregisters)
           \/ SendArrives(UNCHANGED <<registered, inbox>>) \/ SendFails
  PROVE  Acts
<1>1. CASE SendFails
  <2>1. UNCHANGED <<sock, live>> \/ sock' = "no" BY <1>1 DEF SendFails, wire
  <2> QED BY <2>1, HangUpActs, KeptActs
<1>2. CASE ~SendFails
  <2>1. UNCHANGED <<sock, live>> BY <1>2 DEF SendArrives
  <2> QED BY <2>1, KeptActs
<1> QED BY <1>1, <1>2

LEMMA ReceiveActs ==
  ASSUME TypeOK, ReceiveFails \/ \E m \in Message : Receives(m)
  PROVE  Acts
<1>1. CASE ReceiveFails BY <1>1, HangUpActs DEF ReceiveFails, HangUp
<1>2. CASE \E m \in Message : Receives(m) BY <1>2, KeptActs DEF Receives
<1> QED BY <1>1, <1>2

LEMMA NextActs ==
  ASSUME TypeOK, [Next]_vars
  PROVE  Acts
<1>1. ASSUME NEW p \in {Owner, Receiver},
             ConnectBegins(p) \/ Registering(p)
      PROVE  Acts
  <2>1. CASE ConnectBegins(p)
    BY <2>1 DEF ConnectBegins, Acts, End, Atomic!Next, Atomic!Connect
  <2>2. CASE DialSucceeds(p)
    BY <2>2 DEF DialSucceeds, Acts, End, Atomic!Next, Atomic!Succeed
  <2>3. CASE ConnectFails(p) BY <2>3, HangUpActs DEF ConnectFails
  <2>4. CASE RegisterSends(p) BY <2>4, SendActs DEF RegisterSends
  <2>5. CASE RegisterFails(p) BY <2>5, SendActs, ReceiveActs DEF RegisterFails
  <2>6. CASE RegisterReceives(p) BY <2>6, ReceiveActs DEF RegisterReceives
  <2> QED BY <1>1, <2>1, <2>2, <2>3, <2>4, <2>5, <2>6 DEF Registering
<1>2. CASE ReceivesNothing \/ ReceivesEvent \/ ReceivesUnregistered
  BY <1>2, ReceiveActs DEF ReceivesNothing, ReceivesEvent, ReceivesUnregistered, Message
<1>3. CASE Requests \/ RequestFails \/ BeatEnds
  BY <1>3, SendActs DEF Requests, RequestFails, BeatEnds
<1>4. CASE HangsUp BY <1>4, HangUpActs DEF HangsUp, HangUp
<1>5. CASE Drops
  <2>1. live /\ ~live' /\ UNCHANGED sock BY <1>5 DEF Drops
  <2> QED BY <2>1 DEF Acts, End, Atomic!Next, Atomic!Lose
<1>6. CASE \/ OwnerRetries \/ CallsUnregister \/ CallsClose \/ Notifies \/ Retakes
           \/ IsAnswered \/ ClosesChannel \/ WaitsForHandlers
           \/ HandlersDone \/ WaitIsMisused \/ Wakes \/ Signals \/ Beats
           \/ HeartTakesToken \/ HeartPutsBack \/ HeartSeesClosed \/ HandlerEnds
           \/ Forwards \/ UNCHANGED vars
  <2>1. UNCHANGED <<sock, live>>
    BY <1>6
    DEF OwnerRetries, CallsUnregister, CallsClose, Notifies, Retakes, IsAnswered,
        ClosesChannel, WaitsForHandlers, HandlersDone, WaitIsMisused, Wakes, Signals,
        Beats, HeartTakesToken,
        HeartPutsBack, HeartSeesClosed, HandlerEnds, Wakens, Forwards, PutsToken,
        TakesToken,
        wire, vars
  <2> QED BY <2>1, KeptActs
<1> QED BY <1>1, <1>2, <1>3, <1>4, <1>5, <1>6
        DEF Next, OwnerStep, ReceiverStep, HeartStep

\* What the owner and the two loops do to the connection is what AtomicSocket
\* allows, and Socket implements: once Close has hung up, no reconnection that
\* was under way brings the connection back.
THEOREM UsesTheSocketAtomically == Spec => UsesAtomicSocket
<1>1. Init => Atomic!Init BY DEF Init, Atomic!Init
<1>2. TypeOK /\ [Next]_vars => [Atomic!Next]_<<sock, End>> BY NextActs DEF Acts
<1> QED BY <1>1, <1>2, TypeCorrect, PTL DEF Spec, UsesAtomicSocket, Atomic!Spec, End
=============================================================================
