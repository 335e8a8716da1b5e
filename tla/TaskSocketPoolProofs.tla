----------------------- MODULE TaskSocketPoolProofs ------------------------
(***************************************************************************)
(* Proofs about TaskSocketPool, for any number of borrowers and closers,   *)
(* any Size and any set of connections.                                    *)
(***************************************************************************)
EXTENDS TaskSocketPool, FiniteSetTheorems, SequenceTheorems, TLAPS

USE DEF Procs, Loopers

(***************************************************************************)
(* The inductive invariant, in the order in which its parts are proved.    *)
(***************************************************************************)

\* A goroutine has a connection exactly where it ought to: without this,
\* release() could put nil in the channel and TypeOK is not inductive.
HandsMatch == \A p \in Procs : p \in Holding <=> hand[p] # NoSocket

\* The blocked receivers are parked clients, each once, and there are none
\* while a connection is idle.
WaitersAreParked ==
  /\ \A i \in 1..Len(waiters) : pc[waiters[i]] = "parked"
  /\ \A i, j \in 1..Len(waiters) : waiters[i] = waiters[j] => i = j
  /\ waiters # <<>> => pool = <<>>

\* The loops of heartbeat() and Close count one iteration per connection.
LoopsCount == \A p \in Loopers : pc[p] \in {"probe", "discard"} => left[p] > 0

TypeInv == TypeOK /\ HandsMatch /\ LoopsCount

-----------------------------------------------------------------------------
LEMMA Constants ==
  /\ \A c \in Clients : c # Heartbeat /\ c \notin Closers
  /\ \A k \in Closers : k # Heartbeat
  /\ NoSocket \notin Sockets
  /\ Size \in Nat
BY PoolAssumption DEF PoolAssumption

\* Type correctness; what it says about the code is that no nil connection
\* ever travels through the channel `pool`.
LEMMA TypeInvInit == Init => TypeInv
<1> SUFFICES ASSUME Init PROVE TypeInv
  OBVIOUS
<1> USE Constants
<1>1. pool \in Seq(Sockets) /\ Len(pool) <= Size /\ waiters \in Seq(Clients) BY DEF Init
<1>2. left \in [Loopers -> 0..Size] /\ size \in 0..Size BY DEF Init
<1>3. connected \in [Sockets -> BOOLEAN] BY DEF Init
<1>4. hand \in [Procs -> Sockets \cup {NoSocket}] BY DEF Init
<1>5. TypeOK
  BY <1>1, <1>2, <1>3, <1>4 DEF Init, TypeOK, ClientPC, HeartbeatPC, CloserPC
<1>6. HandsMatch BY DEF Init, HandsMatch, Holding
<1>7. LoopsCount BY DEF Init, LoopsCount
<1> QED BY <1>5, <1>6, <1>7 DEF TypeInv

\* The queue of blocked receivers without its i-th member.
LEMMA WithoutOne ==
  ASSUME NEW S, NEW q \in Seq(S), NEW i \in 1..Len(q),
         NEW r, r = SubSeq(q, 1, i - 1) \o SubSeq(q, i + 1, Len(q))
  PROVE  /\ r \in Seq(S)
         /\ Len(r) = Len(q) - 1
         /\ \A j \in 1..Len(r) : r[j] = q[IF j < i THEN j ELSE j + 1]
<1> DEFINE a == SubSeq(q, 1, i - 1)
           b == SubSeq(q, i + 1, Len(q))
<1>1. a \in Seq(S) /\ Len(a) = i - 1 /\ \A j \in 1..(i - 1) : a[j] = q[j]
  OBVIOUS
<1>2. /\ b \in Seq(S)
      /\ Len(b) = Len(q) - i
      /\ \A j \in 1..(Len(q) - i) : b[j] = q[i + j]
  OBVIOUS
<1> HIDE DEF a, b
<1>3. /\ a \o b \in Seq(S)
      /\ Len(a \o b) = Len(a) + Len(b)
      /\ \A j \in 1..(Len(a) + Len(b)) :
           (a \o b)[j] = IF j <= Len(a) THEN a[j] ELSE b[j - Len(a)]
  BY <1>1, <1>2, ConcatProperties
<1>4. Len(a \o b) = Len(q) - 1
  BY <1>1, <1>2, <1>3
<1>5. ASSUME NEW j \in 1..(Len(q) - 1)
      PROVE  (a \o b)[j] = q[IF j < i THEN j ELSE j + 1]
  <2>1. CASE j < i BY <2>1, <1>1, <1>2, <1>3
  <2>2. CASE ~(j < i)
    <3>1. j - (i - 1) \in 1..(Len(q) - i) /\ i + (j - (i - 1)) = j + 1 BY <2>2
    <3>2. j \in 1..(Len(a) + Len(b)) /\ ~(j <= Len(a)) /\ j - Len(a) = j - (i - 1)
      BY <2>2, <1>1, <1>2
    <3>3. (a \o b)[j] = b[j - (i - 1)] BY <3>2, <1>3
    <3>4. b[j - (i - 1)] = q[j + 1] BY <3>1, <1>2
    <3> QED BY <3>3, <3>4, <2>2
  <2> QED BY <2>1, <2>2
<1> QED BY <1>3, <1>4, <1>5 DEF a, b

LEMMA StepTypeInv == TypeInv /\ [Next]_vars => TypeInv'
<1> SUFFICES ASSUME TypeInv, [Next]_vars PROVE TypeInv'
  OBVIOUS
<1> USE Constants DEF TypeInv, TypeOK, HandsMatch, LoopsCount, Holding, Goto,
        ClientPC, HeartbeatPC, CloserPC
<1>1. ASSUME NEW c \in Clients, GetLooks(c) PROVE TypeInv'
  BY <1>1 DEF GetLooks
<1>2. ASSUME NEW c \in Clients, GetTakesSlot(c) PROVE TypeInv'
  BY <1>2 DEF GetTakesSlot
<1>3. ASSUME NEW c \in Clients, GetFindsNoSlot(c) PROVE TypeInv'
  BY <1>3 DEF GetFindsNoSlot
<1>4. ASSUME NEW c \in Clients, DialSucceeds(c) PROVE TypeInv'
  BY <1>4 DEF DialSucceeds
<1>5. ASSUME NEW c \in Clients, DialFails(c) PROVE TypeInv'
  BY <1>5 DEF DialFails, FreeSlot
<1>6. ASSUME NEW c \in Clients, GetTakesIdle(c) PROVE TypeInv'
  BY <1>6 DEF GetTakesIdle, TakeIdle
<1>7. ASSUME NEW c \in Clients, GetParks(c) PROVE TypeInv'
  BY <1>7 DEF GetParks
<1>8. ASSUME NEW c \in Clients, GetTimesOut(c) PROVE TypeInv'
  <2>1. waiters' \in Seq(Clients)
    <3>1. CASE UNCHANGED waiters BY <3>1
    <3>2. CASE StopWaiting(c) BY <3>2, WithoutOne DEF StopWaiting
    <3> QED BY <1>8, <3>1, <3>2 DEF GetTimesOut
  <2> QED BY <1>8, <2>1 DEF GetTimesOut
<1>9. ASSUME NEW c \in Clients, UseBreaks(c) PROVE TypeInv'
  BY <1>9 DEF UseBreaks
<1>10. ASSUME NEW c \in Clients, ReleaseConnected(c) PROVE TypeInv'
  <2>1. CASE PutInBuffer(c, "idle")
    BY <1>10, <2>1 DEF ReleaseConnected, PutInBuffer
  <2>2. CASE HandOver(c, "idle")
    <3> DEFINE w == Head(waiters)
    <3>1. w \in Clients /\ waiters' \in Seq(Clients) BY <2>2 DEF HandOver
    <3> HIDE DEF w
    <3>2. /\ hand' = [hand EXCEPT ![c] = NoSocket, ![w] = hand[c]]
          /\ pc' = [pc EXCEPT ![c] = "idle", ![w] = "using"]
          /\ UNCHANGED pool
      BY <2>2 DEF HandOver, w
    <3>3. hand[c] \in Sockets BY <1>10 DEF ReleaseConnected
    <3> QED BY <1>10, <3>1, <3>2, <3>3 DEF ReleaseConnected
  <2> QED BY <1>10, <2>1, <2>2 DEF ReleaseConnected, PutIdle
<1>11. ASSUME NEW c \in Clients, ReleaseBroken(c) PROVE TypeInv'
  BY <1>11 DEF ReleaseBroken, FreeSlot
<1>12. ASSUME Tick PROVE TypeInv'
  BY <1>12 DEF Tick
<1>13. ASSUME HeartbeatQuits PROVE TypeInv'
  BY <1>13 DEF HeartbeatQuits
<1>14. ASSUME RoundEnds PROVE TypeInv'
  BY <1>14 DEF RoundEnds
<1>15. ASSUME HeartbeatTakes PROVE TypeInv'
  BY <1>15 DEF HeartbeatTakes, TakeIdle
<1>16. ASSUME HeartbeatSkips PROVE TypeInv'
  BY <1>16 DEF HeartbeatSkips
<1>17. ASSUME ProbeSucceeds PROVE TypeInv'
  <2>1. CASE PutInBuffer(Heartbeat, "loop")
    BY <1>17, <2>1 DEF ProbeSucceeds, PutInBuffer
  <2>2. CASE HandOver(Heartbeat, "loop")
    <3> DEFINE w == Head(waiters)
    <3>1. w \in Clients /\ waiters' \in Seq(Clients) BY <2>2 DEF HandOver
    <3> HIDE DEF w
    <3>2. /\ hand' = [hand EXCEPT ![Heartbeat] = NoSocket, ![w] = hand[Heartbeat]]
          /\ pc' = [pc EXCEPT ![Heartbeat] = "loop", ![w] = "using"]
          /\ UNCHANGED pool
      BY <2>2 DEF HandOver, w
    <3>3. hand[Heartbeat] \in Sockets BY <1>17 DEF ProbeSucceeds
    <3> QED BY <1>17, <3>1, <3>2, <3>3 DEF ProbeSucceeds
  <2> QED BY <1>17, <2>1, <2>2 DEF ProbeSucceeds, PutIdle
<1>18. ASSUME ProbeFails PROVE TypeInv'
  BY <1>18 DEF ProbeFails, FreeSlot
<1>19. ASSUME NEW k \in Closers, CloseReturns(k) PROVE TypeInv'
  BY <1>19 DEF CloseReturns
<1>20. ASSUME NEW k \in Closers, CloseEnters(k) PROVE TypeInv'
  BY <1>20 DEF CloseEnters
<1>21. ASSUME NEW k \in Closers, ClosesChannel(k) PROVE TypeInv'
  BY <1>21 DEF ClosesChannel
<1>22. ASSUME NEW k \in Closers, ClosePanics(k) PROVE TypeInv'
  BY <1>22 DEF ClosePanics
<1>23. ASSUME NEW k \in Closers, DrainTakes(k) PROVE TypeInv'
  BY <1>23 DEF DrainTakes, TakeIdle
<1>24. ASSUME NEW k \in Closers, DrainSkips(k) PROVE TypeInv'
  BY <1>24 DEF DrainSkips
<1>25. ASSUME NEW k \in Closers, Discards(k) PROVE TypeInv'
  BY <1>25 DEF Discards, FreeSlot
<1>26. ASSUME NEW k \in Closers, DrainEnds(k) PROVE TypeInv'
  BY <1>26 DEF DrainEnds
<1>27. ASSUME UNCHANGED vars PROVE TypeInv'
  BY <1>27 DEF vars
<1> HIDE DEF TypeInv
<1> QED
  BY <1>1, <1>2, <1>3, <1>4, <1>5, <1>6, <1>7, <1>8, <1>9, <1>10, <1>11, <1>12,
     <1>13, <1>14, <1>15, <1>16, <1>17, <1>18, <1>19, <1>20, <1>21, <1>22,
     <1>23, <1>24, <1>25, <1>26, <1>27
  DEF Next, GetStep, Release, RoundStep, CloseStep

LEMMA TypeAlways == Spec => []TypeInv
<1>1. Init => TypeInv BY TypeInvInit
<1>2. TypeInv /\ [Next]_vars => TypeInv' BY StepTypeInv
<1> QED BY <1>1, <1>2, PTL DEF Spec

\* The state always has the type TypeOK says; in particular no nil connection
\* ever goes through the channel `pool`, and the loops of heartbeat() and of
\* Close never count below zero.
THEOREM TypeCorrect == Spec => []TypeOK
<1>1. TypeInv => TypeOK BY DEF TypeInv
<1> QED BY <1>1, TypeAlways, PTL

-----------------------------------------------------------------------------
(***************************************************************************)
(* As far as slots and connections go, every step is one of ten moves.     *)
(* The other invariants are proved of the moves.                           *)
(***************************************************************************)
SlotPC == {"dial", "using", "probe", "discard"}
FreePC == (ClientPC \cup HeartbeatPC \cup CloserPC) \ (SlotPC \cup {"parked"})

\* p goes from a place without a slot to another one.
Walks(p) ==
  /\ pc[p] \in FreePC
  /\ \E l \in FreePC : Goto(p, l)
  /\ UNCHANGED <<hand, pool, waiters, size, connected>>

Takes(p) ==
  /\ pc[p] \in FreePC
  /\ \E l \in {"using", "probe", "discard"} : TakeIdle(p, l)
  /\ UNCHANGED <<waiters, size, connected>>

\* p gives its slot back; the connection it had, if any, is closed.
Frees(p) ==
  /\ pc[p] \in SlotPC
  /\ \E l \in FreePC : FreeSlot(p, l)
  /\ connected' \in {connected, [connected EXCEPT ![hand[p]] = FALSE]}
  /\ hand[p] \in Sockets => ~connected'[hand[p]]
  /\ UNCHANGED <<pool, waiters>>

\* p puts back a connection that is connected.
Buffers(p) ==
  /\ pc[p] \in {"using", "probe"}
  /\ connected[hand[p]]
  /\ \E l \in FreePC : PutInBuffer(p, l)
  /\ UNCHANGED <<size, connected>>

Passes(p) ==
  /\ pc[p] \in {"using", "probe"}
  /\ connected[hand[p]]
  /\ \E l \in FreePC : HandOver(p, l)
  /\ UNCHANGED <<size, connected>>

GivesUp(c) ==
  /\ pc[c] = "parked"
  /\ StopWaiting(c)
  /\ Goto(c, "idle")
  /\ UNCHANGED <<hand, pool, size, connected>>

Move ==
  \/ \E p \in Procs : Walks(p) \/ Takes(p) \/ Frees(p) \/ Buffers(p) \/ Passes(p)
  \/ \E c \in Clients : \/ GetTakesSlot(c) \/ DialSucceeds(c) \/ GetParks(c)
                        \/ GivesUp(c) \/ UseBreaks(c)
  \/ UNCHANGED <<pc, hand, pool, waiters, size, connected>>

LEMMA StepIsMove == TypeInv /\ [Next]_vars => Move
<1> SUFFICES ASSUME TypeInv, [Next]_vars PROVE Move
  OBVIOUS
<1> USE DEF SlotPC, FreePC, ClientPC, HeartbeatPC, CloserPC, Goto
<1>1. ASSUME NEW c \in Clients, GetLooks(c) \/ GetFindsNoSlot(c) PROVE Walks(c)
  BY <1>1 DEF GetLooks, GetFindsNoSlot, Walks
<1>2. ASSUME NEW c \in Clients, DialFails(c) PROVE Frees(c)
  <2>1. hand[c] \notin Sockets
    BY <1>2, Constants DEF DialFails, TypeInv, HandsMatch, Holding
  <2> QED BY <1>2, <2>1 DEF DialFails, Frees
<1>3. ASSUME NEW c \in Clients, GetTakesIdle(c) PROVE Takes(c)
  BY <1>3 DEF GetTakesIdle, Takes
<1>4. ASSUME NEW c \in Clients, GetTimesOut(c) PROVE Walks(c) \/ GivesUp(c)
  BY <1>4 DEF GetTimesOut, Walks, GivesUp
<1>5. ASSUME NEW c \in Clients, ReleaseConnected(c) PROVE Buffers(c) \/ Passes(c)
  BY <1>5 DEF ReleaseConnected, PutIdle, Buffers, Passes
<1>6. ASSUME NEW c \in Clients, ReleaseBroken(c) PROVE Frees(c)
  BY <1>6 DEF ReleaseBroken, Frees
<1>7. ASSUME Tick \/ HeartbeatQuits \/ RoundEnds PROVE Walks(Heartbeat)
  BY <1>7 DEF Tick, HeartbeatQuits, RoundEnds, Walks
<1>8. ASSUME HeartbeatSkips
      PROVE  UNCHANGED <<pc, hand, pool, waiters, size, connected>>
  BY <1>8 DEF HeartbeatSkips
<1>9. ASSUME HeartbeatTakes PROVE Takes(Heartbeat)
  BY <1>9 DEF HeartbeatTakes, Takes
<1>10. ASSUME ProbeSucceeds PROVE Buffers(Heartbeat) \/ Passes(Heartbeat)
  BY <1>10 DEF ProbeSucceeds, PutIdle, Buffers, Passes
<1>11. ASSUME NEW p \in Loopers, connected' = [connected EXCEPT ![hand[p]] = FALSE]
       PROVE  hand[p] \in Sockets => ~connected'[hand[p]]
  BY <1>11 DEF TypeInv, TypeOK
<1>12. ASSUME ProbeFails PROVE Frees(Heartbeat)
  BY <1>12, <1>11 DEF ProbeFails, Frees
<1>13. ASSUME NEW k \in Closers,
              CloseReturns(k) \/ CloseEnters(k) \/ ClosesChannel(k)
              \/ ClosePanics(k) \/ DrainEnds(k)
       PROVE  Walks(k)
  BY <1>13 DEF CloseReturns, CloseEnters, ClosesChannel, ClosePanics, DrainEnds,
               Walks
<1>14. ASSUME NEW k \in Closers, DrainSkips(k)
       PROVE  UNCHANGED <<pc, hand, pool, waiters, size, connected>>
  BY <1>14 DEF DrainSkips
<1>15. ASSUME NEW k \in Closers, DrainTakes(k) PROVE Takes(k)
  BY <1>15 DEF DrainTakes, Takes
<1>16. ASSUME NEW k \in Closers, Discards(k) PROVE Frees(k)
  BY <1>16, <1>11 DEF Discards, Frees
<1>17. CASE UNCHANGED vars BY <1>17 DEF vars, Move
<1> QED
  BY <1>1, <1>2, <1>3, <1>4, <1>5, <1>6, <1>7, <1>8, <1>9, <1>10, <1>12, <1>13,
     <1>14, <1>15, <1>16, <1>17
  DEF Next, GetStep, Release, RoundStep, CloseStep, Move

-----------------------------------------------------------------------------
(* Blocked receivers.                                                      *)

LEMMA GivesUpShape ==
  ASSUME waiters \in Seq(Clients), NEW c \in Clients, GivesUp(c)
  PROVE  \E i \in 1..Len(waiters) :
           /\ waiters[i] = c
           /\ Len(waiters') = Len(waiters) - 1
           /\ \A j \in 1..Len(waiters') :
                waiters'[j] = waiters[IF j < i THEN j ELSE j + 1]
<1>1. PICK i \in 1..Len(waiters) :
        /\ waiters[i] = c
        /\ waiters' = SubSeq(waiters, 1, i - 1) \o SubSeq(waiters, i + 1, Len(waiters))
  BY DEF GivesUp, StopWaiting
<1>2. /\ Len(waiters') = Len(waiters) - 1
      /\ \A j \in 1..Len(waiters') : waiters'[j] = waiters[IF j < i THEN j ELSE j + 1]
  BY <1>1, WithoutOne
<1> QED BY <1>1, <1>2

LEMMA StepQueue ==
  ASSUME TypeInv, WaitersAreParked, Move
  PROVE  WaitersAreParked'
<1> USE Constants DEF TypeInv, TypeOK, WaitersAreParked, SlotPC, FreePC, Goto
<1>1. ASSUME NEW p \in Procs, Walks(p) PROVE WaitersAreParked'
  BY <1>1 DEF Walks
<1>2. ASSUME NEW p \in Procs, Takes(p) PROVE WaitersAreParked'
  BY <1>2 DEF Takes, TakeIdle
<1>3. ASSUME NEW p \in Procs, Frees(p) PROVE WaitersAreParked'
  BY <1>3 DEF Frees, FreeSlot
<1>4. ASSUME NEW p \in Procs, Buffers(p) PROVE WaitersAreParked'
  BY <1>4 DEF Buffers, PutInBuffer
<1>5. ASSUME NEW p \in Procs, Passes(p) PROVE WaitersAreParked'
  <2> DEFINE w == Head(waiters)
  <2>1. /\ waiters # <<>> /\ waiters' = Tail(waiters) /\ pool' = pool
        /\ \A q \in Procs \ {p, w} : pc'[q] = pc[q]
    BY <1>5 DEF Passes, HandOver
  <2>2. \A i \in 1..Len(waiters') : i + 1 \in 1..Len(waiters) /\ waiters'[i] = waiters[i + 1]
    BY <2>1
  <2>3. 1 \in 1..Len(waiters) /\ w = waiters[1] BY <2>1
  <2>4. pc[p] # "parked" BY <1>5 DEF Passes
  <2> HIDE DEF w
  <2>5. ASSUME NEW i \in 1..Len(waiters') PROVE waiters'[i] \in Procs \ {p, w}
    <3>1. i + 1 \in 1..Len(waiters) /\ i + 1 # 1 /\ waiters'[i] = waiters[i + 1]
      BY <2>1, <2>2
    <3>2. waiters[i + 1] # w BY <3>1, <2>3
    <3>3. waiters[i + 1] # p BY <3>1, <2>4
    <3>4. waiters[i + 1] \in Clients BY <3>1
    <3> QED BY <3>1, <3>2, <3>3, <3>4
  <2> QED BY <2>1, <2>2, <2>5
<1>6. ASSUME NEW c \in Clients, GetTakesSlot(c) PROVE WaitersAreParked'
  BY <1>6 DEF GetTakesSlot
<1>7. ASSUME NEW c \in Clients, DialSucceeds(c) PROVE WaitersAreParked'
  BY <1>7 DEF DialSucceeds
<1>8. ASSUME NEW c \in Clients, GetParks(c) PROVE WaitersAreParked'
  BY <1>8 DEF GetParks
<1>9. ASSUME NEW c \in Clients, GivesUp(c) PROVE WaitersAreParked'
  <2>1. PICK i \in 1..Len(waiters) :
          /\ waiters[i] = c
          /\ Len(waiters') = Len(waiters) - 1
          /\ \A j \in 1..Len(waiters') :
               waiters'[j] = waiters[IF j < i THEN j ELSE j + 1]
    BY <1>9, GivesUpShape
  <2>2. \A j \in 1..Len(waiters') :
          LET m == IF j < i THEN j ELSE j + 1
          IN  m \in 1..Len(waiters) /\ m # i /\ waiters'[j] = waiters[m]
    BY <2>1
  <2>3. \A j \in 1..Len(waiters') : waiters'[j] \in Procs \ {c}
    BY <2>1, <2>2
  <2>4. \A q \in Procs \ {c} : pc'[q] = pc[q]
    BY <1>9 DEF GivesUp
  <2>5. ASSUME NEW j \in 1..Len(waiters') PROVE pc'[waiters'[j]] = "parked"
    <3> DEFINE m == IF j < i THEN j ELSE j + 1
    <3>1. m \in 1..Len(waiters) /\ waiters'[j] = waiters[m]
      BY <2>2
    <3> HIDE DEF m
    <3>2. pc[waiters'[j]] = "parked"
      BY <3>1
    <3>3. pc'[waiters'[j]] = pc[waiters'[j]]
      BY <2>3, <2>4
    <3> QED BY <3>2, <3>3
  <2>6. ASSUME NEW j \in 1..Len(waiters'), NEW k \in 1..Len(waiters'),
               waiters'[j] = waiters'[k]
        PROVE  j = k
    <3> DEFINE m == IF j < i THEN j ELSE j + 1
               n == IF k < i THEN k ELSE k + 1
    <3>1. m \in 1..Len(waiters) /\ n \in 1..Len(waiters)
      BY <2>2
    <3>2. waiters[m] = waiters[n]
      BY <2>2, <2>6
    <3>3. m = n
      BY <3>1, <3>2
    <3> QED BY <3>3
  <2>7. waiters' # <<>> => pool' = <<>>
    BY <1>9, <2>1 DEF GivesUp
  <2> QED BY <2>5, <2>6, <2>7
<1>10. ASSUME NEW c \in Clients, UseBreaks(c) PROVE WaitersAreParked'
  BY <1>10 DEF UseBreaks
<1>11. CASE UNCHANGED <<pc, hand, pool, waiters, size, connected>>
  BY <1>11
<1> QED
  BY <1>1, <1>2, <1>3, <1>4, <1>5, <1>6, <1>7, <1>8, <1>9, <1>10, <1>11 DEF Move

-----------------------------------------------------------------------------
(* Slots.                                                                  *)

LEMMA BusyFacts ==
  /\ Busy = {p \in Procs : pc[p] \in SlotPC}
  /\ IsFiniteSet(Busy)
  /\ Cardinality(Busy) \in Nat
<1>1. IsFiniteSet(Procs)
  <2>1. IsFiniteSet(Closers \cup {Heartbeat})
    BY PoolAssumption, FS_AddElement DEF PoolAssumption
  <2> QED BY <2>1, PoolAssumption, FS_Union DEF PoolAssumption
<1>2. IsFiniteSet(Busy) BY <1>1, FS_Subset DEF Busy
<1> QED BY <1>2, FS_CardinalityType DEF Busy, SlotPC

LEMMA StepSlots ==
  ASSUME TypeInv, WaitersAreParked, SlotConservation, Move
  PROVE  SlotConservation'
<1> USE Constants DEF TypeInv, TypeOK
<1> DEFINE B == Busy
           n == Cardinality(B)
<1>1. B = {p \in Procs : pc[p] \in SlotPC} /\ IsFiniteSet(B) /\ n \in Nat
  BY BusyFacts
<1>2. B' = {p \in Procs : pc'[p] \in SlotPC}
  BY DEF Busy, SlotPC
<1>3. size + Len(pool) + n = Size BY DEF SlotConservation
<1>4. SUFFICES size' + Len(pool') + Cardinality(B') = Size
  BY DEF SlotConservation
<1> HIDE DEF B
<1>5. ASSUME NEW p \in Procs, p \notin B PROVE Cardinality(B \cup {p}) = n + 1
  BY <1>5, <1>1, FS_AddElement
<1>6. ASSUME NEW p \in B PROVE Cardinality(B \ {p}) = n - 1
  BY <1>1, FS_RemoveElement
<1>7. ASSUME NEW p \in Procs, Walks(p) PROVE size' + Len(pool') + Cardinality(B') = Size
  <2>1. B' = B BY <1>7, <1>1, <1>2 DEF Walks, FreePC, Goto
  <2> QED BY <1>7, <1>3, <2>1 DEF Walks
<1>8. ASSUME NEW p \in Procs, Takes(p) PROVE size' + Len(pool') + Cardinality(B') = Size
  <2>1. B' = B \cup {p} /\ p \notin B
    BY <1>8, <1>1, <1>2 DEF Takes, TakeIdle, FreePC, SlotPC, Goto
  <2>2. size' = size /\ Len(pool') = Len(pool) - 1 BY <1>8 DEF Takes, TakeIdle
  <2> QED BY <1>1, <1>3, <1>5, <2>1, <2>2
<1>9. ASSUME NEW p \in Procs, Frees(p) PROVE size' + Len(pool') + Cardinality(B') = Size
  <2>1. B' = B \ {p} /\ p \in B
    BY <1>9, <1>1, <1>2 DEF Frees, FreeSlot, FreePC, Goto
  <2>2. size' = size + 1 /\ pool' = pool BY <1>9 DEF Frees, FreeSlot
  <2>3. Cardinality(B') = n - 1 BY <1>6, <2>1
  <2> QED BY <1>1, <1>3, <2>2, <2>3
<1>10. ASSUME NEW p \in Procs, Buffers(p) PROVE size' + Len(pool') + Cardinality(B') = Size
  <2>1. B' = B \ {p} /\ p \in B
    BY <1>10, <1>1, <1>2 DEF Buffers, PutInBuffer, FreePC, SlotPC, Goto
  <2>2. hand[p] \in Sockets BY <1>10 DEF Buffers, HandsMatch, Holding
  <2>3. size' = size /\ Len(pool') = Len(pool) + 1
    BY <1>10, <2>2 DEF Buffers, PutInBuffer
  <2> QED BY <1>1, <1>3, <1>6, <2>1, <2>3
<1>11. ASSUME NEW p \in Procs, Passes(p) PROVE size' + Len(pool') + Cardinality(B') = Size
  <2> DEFINE w == Head(waiters)
  <2>1. w \in Clients /\ pc[w] = "parked"
    BY <1>11 DEF Passes, HandOver, WaitersAreParked
  <2>2. \E l \in FreePC : pc' = [pc EXCEPT ![p] = l, ![w] = "using"]
    BY <1>11 DEF Passes, HandOver
  <2> HIDE DEF w
  <2>3. p \in B /\ w \notin B /\ p # w
    BY <1>11, <1>1, <2>1 DEF Passes, SlotPC
  <2>4. B' = (B \ {p}) \cup {w}
    BY <1>1, <1>2, <2>1, <2>2, <2>3 DEF FreePC, SlotPC
  <2>5. IsFiniteSet(B \ {p}) BY <1>1, FS_RemoveElement
  <2>6. Cardinality((B \ {p}) \cup {w}) = Cardinality(B \ {p}) + 1
    BY <2>3, <2>5, FS_AddElement
  <2>7. Cardinality(B') = n BY <1>1, <1>6, <2>3, <2>4, <2>6
  <2> QED BY <1>11, <1>3, <2>7 DEF Passes, HandOver
<1>12. ASSUME NEW c \in Clients, GetTakesSlot(c)
       PROVE  size' + Len(pool') + Cardinality(B') = Size
  <2>1. B' = B \cup {c} /\ c \notin B
    BY <1>12, <1>1, <1>2 DEF GetTakesSlot, SlotPC, Goto
  <2>2. size' = size - 1 /\ pool' = pool BY <1>12 DEF GetTakesSlot
  <2> QED BY <1>1, <1>3, <1>5, <2>1, <2>2
<1>13. ASSUME NEW c \in Clients, DialSucceeds(c)
       PROVE  size' + Len(pool') + Cardinality(B') = Size
  <2>1. B' = B BY <1>13, <1>1, <1>2 DEF DialSucceeds, SlotPC, Goto
  <2> QED BY <1>13, <1>3, <2>1 DEF DialSucceeds
<1>14. ASSUME NEW c \in Clients, GetParks(c)
       PROVE  size' + Len(pool') + Cardinality(B') = Size
  <2>1. B' = B BY <1>14, <1>1, <1>2 DEF GetParks, SlotPC, Goto
  <2> QED BY <1>14, <1>3, <2>1 DEF GetParks
<1>15. ASSUME NEW c \in Clients, GivesUp(c)
       PROVE  size' + Len(pool') + Cardinality(B') = Size
  <2>1. B' = B BY <1>15, <1>1, <1>2 DEF GivesUp, SlotPC, Goto
  <2> QED BY <1>15, <1>3, <2>1 DEF GivesUp
<1>16. ASSUME NEW c \in Clients, UseBreaks(c)
       PROVE  size' + Len(pool') + Cardinality(B') = Size
  BY <1>16, <1>1, <1>2, <1>3 DEF UseBreaks
<1>17. CASE UNCHANGED <<pc, hand, pool, waiters, size, connected>>
  BY <1>17, <1>1, <1>2, <1>3
<1> QED
  BY <1>7, <1>8, <1>9, <1>10, <1>11, <1>12, <1>13, <1>14, <1>15, <1>16, <1>17
  DEF Move

-----------------------------------------------------------------------------
(* Connections: who has them, and whether they are open.                   *)


\* ExclusiveOwnership, NoLeakedConnection and IdleIsConnected, said of the hands
\* and of the places of the buffer without regard to where goroutines are.
OnePlace ==
  /\ \A p, q \in Procs : hand[p] # NoSocket /\ hand[p] = hand[q] => p = q
  /\ \A p \in Procs : \A i \in 1..Len(pool) : hand[p] # pool[i]
  /\ \A i, j \in 1..Len(pool) : pool[i] = pool[j] => i = j
OpenHasPlace ==
  \A s \in Sockets : connected[s] => \/ \E i \in 1..Len(pool) : pool[i] = s
                                    \/ \E p \in Procs : hand[p] = s
IdleIsOpen == \A i \in 1..Len(pool) : connected[pool[i]]

ConnectionInv == OnePlace /\ OpenHasPlace /\ IdleIsOpen

LEMMA StepConnections ==
  ASSUME TypeInv, TypeInv', WaitersAreParked, ConnectionInv, Move
  PROVE  ConnectionInv'
<1> USE Constants DEF TypeInv, TypeOK, ConnectionInv, OnePlace, OpenHasPlace, IdleIsOpen
<1>1. ASSUME NEW p \in Procs, Walks(p) PROVE ConnectionInv'
  BY <1>1 DEF Walks
<1>2. ASSUME NEW p \in Procs, Takes(p) PROVE ConnectionInv'
  <2>1. /\ pool # <<>> /\ hand' = [hand EXCEPT ![p] = pool[1]]
        /\ pool' = Tail(pool) /\ connected' = connected
    BY <1>2 DEF Takes, TakeIdle
  <2>2. /\ Len(pool') = Len(pool) - 1
        /\ \A i \in 1..Len(pool') : i + 1 \in 1..Len(pool) /\ pool'[i] = pool[i + 1]
        /\ \A i \in 1..Len(pool) : i = 1 \/ (i - 1 \in 1..Len(pool') /\ pool[i] = pool'[i - 1])
        /\ 1 \in 1..Len(pool)
    BY <2>1
  <2>3. hand[p] = NoSocket
    BY <1>2 DEF Takes, FreePC, SlotPC, HandsMatch, Holding
  <2>4. OnePlace'
    <3>1. \A q \in Procs : hand'[q] = IF q = p THEN pool[1] ELSE hand[q]
      BY <2>1
    <3>2. \A q, r \in Procs : hand'[q] # NoSocket /\ hand'[q] = hand'[r] => q = r
      BY <3>1, <2>2
    <3>3. ASSUME NEW q \in Procs, NEW i \in 1..Len(pool')
          PROVE  hand'[q] # pool'[i]
      <4>1. pool'[i] = pool[i + 1] /\ i + 1 \in 1..Len(pool) /\ i + 1 # 1 BY <2>2
      <4> QED BY <4>1, <3>1, <2>2
    <3>4. ASSUME NEW i \in 1..Len(pool'), NEW j \in 1..Len(pool'), pool'[i] = pool'[j]
          PROVE  i = j
      <4>1. pool[i + 1] = pool[j + 1] BY <3>4, <2>2
      <4>2. i + 1 \in 1..Len(pool) /\ j + 1 \in 1..Len(pool) BY <2>2
      <4>3. i + 1 = j + 1 BY <4>1, <4>2
      <4> QED BY <4>3
    <3> QED BY <3>2, <3>3, <3>4
  <2>5. OpenHasPlace'
    <3> SUFFICES ASSUME NEW s \in Sockets, connected[s]
                 PROVE  \/ \E i \in 1..Len(pool') : pool'[i] = s
                        \/ \E q \in Procs : hand'[q] = s
      BY <2>1
    <3>1. ASSUME NEW i \in 1..Len(pool), pool[i] = s
          PROVE  \/ \E j \in 1..Len(pool') : pool'[j] = s
                 \/ \E q \in Procs : hand'[q] = s
      <4>1. CASE i = 1 BY <4>1, <3>1, <2>1
      <4>2. CASE i # 1 BY <4>2, <3>1, <2>2
      <4> QED BY <4>1, <4>2
    <3>2. CASE \E q \in Procs : hand[q] = s BY <3>2, <2>1, <2>3
    <3> QED BY <3>1, <3>2
  <2>6. IdleIsOpen' BY <2>1, <2>2
  <2> QED BY <2>4, <2>5, <2>6
<1>3. ASSUME NEW p \in Procs, Frees(p) PROVE ConnectionInv'
  <2>1. hand' = [hand EXCEPT ![p] = NoSocket] /\ pool' = pool
    BY <1>3 DEF Frees, FreeSlot
  <2>2. /\ \A s \in Sockets : s # hand[p] => connected'[s] = connected[s]
        /\ hand[p] \in Sockets => ~connected'[hand[p]]
    BY <1>3 DEF Frees
  <2>3. OnePlace' BY <2>1
  <2>4. OpenHasPlace' BY <2>1, <2>2
  <2>5. IdleIsOpen' BY <2>1, <2>2
  <2> QED BY <2>3, <2>4, <2>5
<1>4. ASSUME NEW p \in Procs, Buffers(p) PROVE ConnectionInv'
  <2>1. /\ hand' = [hand EXCEPT ![p] = NoSocket] /\ pool' = Append(pool, hand[p])
        /\ connected' = connected /\ connected[hand[p]]
    BY <1>4 DEF Buffers, PutInBuffer
  <2>2. hand[p] \in Sockets
    BY <1>4 DEF Buffers, HandsMatch, Holding
  <2>3. /\ Len(pool') = Len(pool) + 1
        /\ pool'[Len(pool) + 1] = hand[p]
        /\ \A i \in 1..Len(pool) : pool'[i] = pool[i]
    BY <2>1, <2>2
  <2>4. OnePlace' BY <2>1, <2>2, <2>3
  <2>5. OpenHasPlace'
    <3> SUFFICES ASSUME NEW s \in Sockets, connected[s]
                 PROVE  \/ \E i \in 1..Len(pool') : pool'[i] = s
                        \/ \E q \in Procs : hand'[q] = s
      BY <2>1
    <3>1. CASE \E i \in 1..Len(pool) : pool[i] = s BY <3>1, <2>3
    <3>2. CASE \E q \in Procs : hand[q] = s BY <3>2, <2>1, <2>3
    <3> QED BY <3>1, <3>2
  <2>6. IdleIsOpen' BY <2>1, <2>2, <2>3
  <2> QED BY <2>4, <2>5, <2>6
<1>5. ASSUME NEW p \in Procs, Passes(p) PROVE ConnectionInv'
  <2>1. PICK w \in Clients :
          /\ pc[w] = "parked"
          /\ hand' = [hand EXCEPT ![p] = NoSocket, ![w] = hand[p]]
          /\ pool' = pool /\ connected' = connected
    <3>1. Head(waiters) \in Clients /\ pc[Head(waiters)] = "parked"
      BY <1>5 DEF Passes, HandOver, WaitersAreParked
    <3> QED BY <1>5, <3>1 DEF Passes, HandOver
  <2>2. hand[w] = NoSocket /\ hand[p] \in Sockets /\ w # p
    BY <1>5, <2>1 DEF Passes, HandsMatch, Holding
  <2>3. OnePlace' BY <2>1, <2>2
  <2>4. OpenHasPlace' BY <2>1, <2>2
  <2>5. IdleIsOpen' BY <2>1
  <2> QED BY <2>3, <2>4, <2>5
<1>6. ASSUME NEW c \in Clients, GetTakesSlot(c) PROVE ConnectionInv'
  BY <1>6 DEF GetTakesSlot
<1>7. ASSUME NEW c \in Clients, DialSucceeds(c) PROVE ConnectionInv'
  <2>1. PICK s \in Sockets \ InUse :
          /\ hand' = [hand EXCEPT ![c] = s]
          /\ connected' = [connected EXCEPT ![s] = TRUE]
          /\ pool' = pool
    BY <1>7 DEF DialSucceeds
  <2>2. /\ \A i \in 1..Len(pool) : pool[i] # s
        /\ \A p \in Procs : hand[p] # s
    BY <2>1 DEF InUse, Idle
  <2>3. hand[c] = NoSocket
    BY <1>7 DEF DialSucceeds, HandsMatch, Holding
  <2>4. OnePlace' BY <2>1, <2>2
  <2>5. OpenHasPlace' BY <2>1, <2>2, <2>3
  <2>6. IdleIsOpen' BY <2>1, <2>2
  <2> QED BY <2>4, <2>5, <2>6
<1>8. ASSUME NEW c \in Clients, GetParks(c) PROVE ConnectionInv'
  BY <1>8 DEF GetParks
<1>9. ASSUME NEW c \in Clients, GivesUp(c) PROVE ConnectionInv'
  BY <1>9 DEF GivesUp
<1>10. ASSUME NEW c \in Clients, UseBreaks(c) PROVE ConnectionInv'
  <2>1. connected' = [connected EXCEPT ![hand[c]] = FALSE] /\ UNCHANGED <<hand, pool>>
    BY <1>10 DEF UseBreaks
  <2>2. OnePlace' BY <2>1
  <2>3. \A s \in Sockets : connected'[s] => connected[s] BY <2>1
  <2>4. OpenHasPlace' BY <2>1, <2>3
  <2>5. hand[c] # NoSocket
    BY <1>10 DEF UseBreaks, HandsMatch, Holding
  <2>6. IdleIsOpen' BY <2>1, <2>5
  <2> QED BY <2>2, <2>4, <2>6
<1>11. CASE UNCHANGED <<pc, hand, pool, waiters, size, connected>>
  BY <1>11
<1> QED
  BY <1>1, <1>2, <1>3, <1>4, <1>5, <1>6, <1>7, <1>8, <1>9, <1>10, <1>11 DEF Move

-----------------------------------------------------------------------------
(* The theorems.                                                           *)

IInv == TypeInv /\ WaitersAreParked /\ SlotConservation /\ ConnectionInv

LEMMA InitIInv == Init => IInv
<1> SUFFICES ASSUME Init PROVE IInv
  OBVIOUS
<1>1. TypeInv BY TypeInvInit
<1>2. Len(pool) = 0 /\ Len(waiters) = 0 BY DEF Init
<1>3. WaitersAreParked BY <1>2 DEF Init, WaitersAreParked
<1>4. SlotConservation
  <2>1. Busy = {} BY DEF Init, Busy
  <2>2. Cardinality(Busy) = 0 BY <2>1, FS_EmptySet
  <2> QED BY <1>2, <2>2, Constants DEF Init, SlotConservation
<1>5. ConnectionInv
  BY <1>2, Constants DEF Init, ConnectionInv, OnePlace, OpenHasPlace, IdleIsOpen
<1> QED BY <1>1, <1>3, <1>4, <1>5 DEF IInv

LEMMA NextIInv == IInv /\ [Next]_vars => IInv'
<1> SUFFICES ASSUME IInv, [Next]_vars PROVE IInv'
  OBVIOUS
<1>1. TypeInv' BY StepTypeInv DEF IInv
<1>2. Move BY StepIsMove DEF IInv
<1>3. WaitersAreParked' BY <1>2, StepQueue DEF IInv
<1>4. SlotConservation' BY <1>2, StepSlots DEF IInv
<1>5. ConnectionInv' BY <1>1, <1>2, StepConnections DEF IInv
<1> QED BY <1>1, <1>3, <1>4, <1>5 DEF IInv

LEMMA IInvAlways == Spec => []IInv
<1> QED BY InitIInv, NextIInv, PTL DEF Spec

\* No interleaving of Get, Release, heartbeat and Close loses or invents a
\* slot of the pool.
THEOREM SlotsAreConserved == Spec => []SlotConservation
<1>1. IInv => SlotConservation BY DEF IInv
<1> QED BY <1>1, IInvAlways, PTL

\* No two goroutines ever use the same connection, and nobody uses an idle one.
THEOREM OwnershipIsExclusive == Spec => []ExclusiveOwnership
<1>1. IInv => ExclusiveOwnership
  BY DEF IInv, TypeInv, HandsMatch, ConnectionInv, OnePlace, ExclusiveOwnership,
         Holding, Idle
<1> QED BY <1>1, IInvAlways, PTL

\* No path through Release, heartbeat or Close drops an open connection.
THEOREM NothingLeaks == Spec => []NoLeakedConnection
<1>1. IInv => NoLeakedConnection
  BY DEF IInv, ConnectionInv, OpenHasPlace, NoLeakedConnection, InUse, Idle
<1> QED BY <1>1, IInvAlways, PTL

\* The sends in Get, release, heartbeat and Close are written as if they could
\* not block: whoever owns a slot finds room in both channels.
SendsNeverBlock == Busy # {} => size < Size /\ Len(pool) < Size

\* A goroutine that puts a connection or a token back never blocks.
THEOREM PuttingBackNeverBlocks == Spec => []SendsNeverBlock
<1>1. IInv => SendsNeverBlock
  <2> SUFFICES ASSUME IInv, Busy # {} PROVE size < Size /\ Len(pool) < Size
    BY DEF SendsNeverBlock
  <2>1. Cardinality(Busy) \in Nat /\ Cardinality(Busy) # 0
    BY BusyFacts, FS_EmptySet
  <2>2. size \in Nat /\ Len(pool) \in Nat
    BY Constants DEF IInv, TypeInv, TypeOK
  <2>3. size + Len(pool) + Cardinality(Busy) = Size
    BY DEF IInv, SlotConservation
  <2> QED BY <2>1, <2>2, <2>3, Constants
<1> QED BY <1>1, IInvAlways, PTL

\* There are never more than Size open connections to the gateway.
THEOREM AtMostSizeConnections == Spec => []MaxConnections
<1>1. IInv => MaxConnections
  <2> SUFFICES ASSUME IInv PROVE MaxConnections
    OBVIOUS
  <2> DEFINE Held == {hand[p] : p \in Holding}
             Open == {s \in Sockets : connected[s]}
  <2>1. /\ pool \in Seq(Sockets) /\ Len(pool) \in Nat
        /\ size \in Nat /\ size + Len(pool) + Cardinality(Busy) = Size
    BY Constants DEF IInv, TypeInv, TypeOK, SlotConservation
  <2>2. IsFiniteSet(Idle) /\ Cardinality(Idle) <= Len(pool)
    <3>1. [i \in 1..Len(pool) |-> pool[i]] \in Surjection(1..Len(pool), Idle)
      BY DEF Idle, Surjection
    <3>2. IsFiniteSet(1..Len(pool)) /\ Cardinality(1..Len(pool)) = Len(pool)
      <4>1. ASSUME NEW n \in Nat PROVE IsFiniteSet(1..n) /\ Cardinality(1..n) = n
        <5>1. IsFiniteSet(1..n) /\ Cardinality(1..n) = IF 1 > n THEN 0 ELSE n - 1 + 1
          BY FS_Interval
        <5> QED BY <5>1
      <4> QED BY <4>1, <2>1
    <3> QED BY <3>1, <3>2, FS_Surjection
  <2>3. IsFiniteSet(Held) /\ Cardinality(Held) <= Cardinality(Busy)
    <3>1. [p \in Holding |-> hand[p]] \in Surjection(Holding, Held)
      BY DEF Surjection
    <3>2. Holding \in SUBSET Busy BY DEF Holding, Busy
    <3>3. IsFiniteSet(Holding) /\ Cardinality(Holding) <= Cardinality(Busy)
      BY <3>2, BusyFacts, FS_Subset
    <3>4. IsFiniteSet(Held) /\ Cardinality(Held) <= Cardinality(Holding)
      BY <3>1, <3>3, FS_Surjection
    <3>5. Cardinality(Held) \in Nat /\ Cardinality(Holding) \in Nat
      BY <3>3, <3>4, FS_CardinalityType
    <3> QED BY <3>3, <3>4, <3>5, BusyFacts
  <2>4. Open \in SUBSET (Idle \cup Held)
    BY Constants DEF IInv, TypeInv, HandsMatch, ConnectionInv, OpenHasPlace, Idle
  <2> HIDE DEF Held, Open
  <2>5. /\ IsFiniteSet(Idle \cup Held)
        /\ Cardinality(Idle \cup Held) <= Cardinality(Idle) + Cardinality(Held)
    <3>1. Cardinality(Idle \cup Held) =
            Cardinality(Idle) + Cardinality(Held) - Cardinality(Idle \cap Held)
      BY <2>2, <2>3, FS_Union
    <3>2. Cardinality(Idle \cap Held) \in Nat
      BY <2>2, FS_Subset, FS_CardinalityType
    <3>3. Cardinality(Idle) \in Nat /\ Cardinality(Held) \in Nat
      BY <2>2, <2>3, FS_CardinalityType
    <3>4. IsFiniteSet(Idle \cup Held) BY <2>2, <2>3, FS_Union
    <3> QED BY <3>1, <3>2, <3>3, <3>4
  <2>6. IsFiniteSet(Open) /\ Cardinality(Open) <= Cardinality(Idle \cup Held)
    BY <2>4, <2>5, FS_Subset
  <2>7. /\ Cardinality(Open) \in Nat /\ Cardinality(Idle \cup Held) \in Nat
        /\ Cardinality(Idle) \in Nat /\ Cardinality(Held) \in Nat
    BY <2>2, <2>3, <2>5, <2>6, FS_CardinalityType
  <2>8. Cardinality(Open) <= Size
    BY <2>1, <2>2, <2>3, <2>5, <2>6, <2>7, BusyFacts, Constants
  <2> QED BY <2>8 DEF MaxConnections, Open
<1> QED BY <1>1, IInvAlways, PTL

\* A borrower never gets a connection that is not connected.
THEOREM GetReturnsOpenOnes == Spec => GetReturnsConnected
<1>1. IInv /\ [Next]_vars =>
        [\A c \in Clients :
           pc[c] # "using" /\ pc'[c] = "using" => connected'[hand'[c]]]_vars
  <2> SUFFICES ASSUME IInv, [Next]_vars, NEW c \in Clients,
                      pc[c] # "using", pc'[c] = "using"
               PROVE  connected'[hand'[c]]
    OBVIOUS
  <2> USE DEF IInv, TypeInv, TypeOK
  <2>1. Move BY StepIsMove
  <2>2. ASSUME NEW p \in Procs, Walks(p) PROVE FALSE
    BY <2>2 DEF Walks, FreePC, SlotPC, Goto
  <2>3. ASSUME NEW p \in Procs, Takes(p) PROVE connected'[hand'[c]]
    <3>1. p = c BY <2>3 DEF Takes, TakeIdle, Goto
    <3>2. hand'[c] = pool[1] /\ 1 \in 1..Len(pool) /\ connected' = connected
      BY <2>3, <3>1 DEF Takes, TakeIdle
    <3> QED BY <3>2 DEF ConnectionInv, IdleIsOpen
  <2>4. ASSUME NEW p \in Procs, Frees(p) PROVE FALSE
    BY <2>4 DEF Frees, FreeSlot, FreePC, SlotPC, Goto
  <2>5. ASSUME NEW p \in Procs, Buffers(p) PROVE FALSE
    BY <2>5 DEF Buffers, PutInBuffer, FreePC, SlotPC, Goto
  <2>6. ASSUME NEW p \in Procs, Passes(p) PROVE connected'[hand'[c]]
    <3>1. Head(waiters) = c /\ c # p
      BY <2>6 DEF Passes, HandOver, FreePC, SlotPC
    <3>2. hand'[c] = hand[p] /\ connected' = connected
      BY <2>6, <3>1 DEF Passes, HandOver
    <3> QED BY <2>6, <3>2 DEF Passes
  <2>7. ASSUME NEW d \in Clients, DialSucceeds(d) PROVE connected'[hand'[c]]
    <3>1. d = c BY <2>7 DEF DialSucceeds, Goto
    <3> QED BY <2>7, <3>1 DEF DialSucceeds
  <2>8. ASSUME NEW d \in Clients,
               GetTakesSlot(d) \/ GetParks(d) \/ GivesUp(d) \/ UseBreaks(d)
        PROVE  FALSE
    BY <2>8 DEF GetTakesSlot, GetParks, GivesUp, UseBreaks, Goto
  <2>9. CASE UNCHANGED <<pc, hand, pool, waiters, size, connected>>
    BY <2>9
  <2> QED
    BY <2>1, <2>2, <2>3, <2>4, <2>5, <2>6, <2>7, <2>8, <2>9 DEF Move
<1> QED BY <1>1, IInvAlways, PTL DEF Spec, GetReturnsConnected

-----------------------------------------------------------------------------
(* No wake-up is lost.                                                     *)

\* Whoever is parked is in the queue, where a connection put back finds it.
ParkedAreWaiters ==
  \A c \in Clients : pc[c] = "parked" => \E i \in 1..Len(waiters) : waiters[i] = c

LEMMA StepParked ==
  ASSUME IInv, ParkedAreWaiters, Move
  PROVE  ParkedAreWaiters'
<1> USE Constants DEF SlotPC, FreePC, Goto
<1>0. waiters \in Seq(Clients) /\ pc \in [Procs -> ClientPC \cup HeartbeatPC \cup CloserPC]
  BY DEF IInv, TypeInv, TypeOK, ClientPC, HeartbeatPC, CloserPC
<1>1. ASSUME UNCHANGED waiters,
             \A c \in Clients : pc'[c] = "parked" => pc[c] = "parked"
      PROVE  ParkedAreWaiters'
  BY <1>1 DEF ParkedAreWaiters
<1>2. ASSUME NEW p \in Procs, Walks(p) \/ Takes(p) \/ Frees(p) \/ Buffers(p)
      PROVE  ParkedAreWaiters'
  <2>1. \E l \in FreePC \cup {"using", "probe", "discard"} : Goto(p, l)
    BY <1>2 DEF Walks, Takes, TakeIdle, Frees, FreeSlot, Buffers, PutInBuffer
  <2>2. UNCHANGED waiters
    BY <1>2 DEF Walks, Takes, Frees, Buffers, PutInBuffer
  <2> QED BY <1>0, <1>1, <2>1, <2>2
<1>3. ASSUME NEW p \in Procs, Passes(p) PROVE ParkedAreWaiters'
  <2> SUFFICES ASSUME NEW c \in Clients, pc'[c] = "parked"
               PROVE  \E i \in 1..Len(waiters') : waiters'[i] = c
    BY DEF ParkedAreWaiters
  <2>1. waiters # <<>> /\ waiters' = Tail(waiters) /\ Head(waiters) = waiters[1]
    BY <1>0, <1>3 DEF Passes, HandOver
  <2>2. pc[c] = "parked" /\ c # Head(waiters)
    BY <1>0, <1>3 DEF Passes, HandOver
  <2>3. PICK i \in 1..Len(waiters) : waiters[i] = c BY <2>2 DEF ParkedAreWaiters
  <2>4. i # 1 BY <2>1, <2>2, <2>3
  <2>5. i - 1 \in 1..Len(waiters') /\ waiters'[i - 1] = waiters[i]
    BY <1>0, <2>1, <2>4
  <2> QED BY <2>3, <2>5
<1>4. ASSUME NEW c \in Clients, GetTakesSlot(c) \/ DialSucceeds(c) \/ UseBreaks(c)
      PROVE  ParkedAreWaiters'
  BY <1>0, <1>1, <1>4 DEF GetTakesSlot, DialSucceeds, UseBreaks
<1>5. ASSUME NEW c \in Clients, GetParks(c) PROVE ParkedAreWaiters'
  <2>1. waiters' = Append(waiters, c) /\ \A d \in Clients \ {c} : pc'[d] = pc[d]
    BY <1>0, <1>5 DEF GetParks
  <2>2. /\ Len(waiters') = Len(waiters) + 1 /\ waiters'[Len(waiters) + 1] = c
        /\ \A i \in 1..Len(waiters) : waiters'[i] = waiters[i]
    BY <1>0, <2>1
  <2>3. Len(waiters) \in Nat BY <1>0
  <2> QED BY <2>1, <2>2, <2>3 DEF ParkedAreWaiters
<1>6. ASSUME NEW c \in Clients, GivesUp(c) PROVE ParkedAreWaiters'
  <2> SUFFICES ASSUME NEW d \in Clients, pc'[d] = "parked"
               PROVE  \E j \in 1..Len(waiters') : waiters'[j] = d
    BY DEF ParkedAreWaiters
  <2>1. d # c /\ pc[d] = "parked" BY <1>0, <1>6 DEF GivesUp
  <2>2. PICK i \in 1..Len(waiters) :
          /\ waiters[i] = c
          /\ Len(waiters') = Len(waiters) - 1
          /\ \A j \in 1..Len(waiters') :
               waiters'[j] = waiters[IF j < i THEN j ELSE j + 1]
    BY <1>0, <1>6, GivesUpShape
  <2>3. PICK k \in 1..Len(waiters) : waiters[k] = d BY <2>1 DEF ParkedAreWaiters
  <2>4. k # i /\ Len(waiters) \in Nat BY <1>0, <2>1, <2>2, <2>3
  <2>5. CASE k < i
    <3>1. k \in 1..Len(waiters') BY <2>2, <2>4, <2>5
    <3> QED BY <2>2, <2>3, <2>5, <3>1
  <2>6. CASE k > i
    <3>1. k - 1 \in 1..Len(waiters') /\ ~(k - 1 < i) /\ (k - 1) + 1 = k
      BY <2>2, <2>4, <2>6
    <3> QED BY <2>2, <2>3, <3>1
  <2> QED BY <2>4, <2>5, <2>6
<1>7. CASE UNCHANGED <<pc, hand, pool, waiters, size, connected>>
  BY <1>1, <1>7
<1> QED BY <1>2, <1>3, <1>4, <1>5, <1>6, <1>7 DEF Move

\* A Get that waits is in the queue, no connection is idle beside it, and
\* unless a slot is free some goroutine owns one that it will put back or free.
NoVainWait ==
  \A c \in Clients : pc[c] = "parked" =>
    /\ \E i \in 1..Len(waiters) : waiters[i] = c
    /\ pool = <<>>
    /\ Size > 0 => size > 0 \/ Busy # {}

\* No wake-up of a waiting Get is lost, whoever times out, puts back or takes
\* at the same time: what the liveness of Get rests on, for any Size.
THEOREM NobodyWaitsInVain == Spec => []NoVainWait
<1>1. Init => ParkedAreWaiters
  BY Constants DEF Init, ParkedAreWaiters
<1>2. IInv /\ ParkedAreWaiters /\ [Next]_vars => ParkedAreWaiters'
  BY StepIsMove, StepParked DEF IInv
<1>3. ASSUME IInv, ParkedAreWaiters, NEW c \in Clients, pc[c] = "parked"
      PROVE  /\ \E i \in 1..Len(waiters) : waiters[i] = c
             /\ pool = <<>>
             /\ Size > 0 => size > 0 \/ Busy # {}
  <2>1. PICK i \in 1..Len(waiters) : waiters[i] = c
    BY <1>3 DEF ParkedAreWaiters
  <2>2. waiters \in Seq(Clients) /\ size \in Nat
    BY <1>3, Constants DEF IInv, TypeInv, TypeOK
  <2>3. waiters # <<>> BY <2>1, <2>2
  <2>4. pool = <<>> BY <1>3, <2>3 DEF IInv, WaitersAreParked
  <2>5. Len(pool) = 0 BY <2>4
  <2>6. size + Cardinality(Busy) = Size
    BY <1>3, <2>2, <2>5, BusyFacts DEF IInv, SlotConservation
  <2>7. Size > 0 => size > 0 \/ Busy # {}
    <3>1. Busy = {} => Cardinality(Busy) = 0 BY FS_EmptySet
    <3> QED BY <2>2, <2>6, <3>1, Constants
  <2> QED BY <2>1, <2>4, <2>7
<1>4. IInv /\ ParkedAreWaiters => NoVainWait BY <1>3 DEF NoVainWait
<1> QED BY <1>1, <1>2, <1>4, IInvAlways, PTL DEF Spec

-----------------------------------------------------------------------------
(* The pool implements ConnectionLease.                                    *)

leased == [c \in Clients |-> hand[c]]

LEMMA SameCardinality == \A S : Lease!Cardinality(S) = Cardinality(S)
BY DEF Lease!Cardinality, Cardinality

\* A connection may be lent whenever somebody other than a borrower owns a
\* slot, or a borrower does that has no connection yet, or one is idle.
LEMMA RoomToLend ==
  ASSUME IInv, pool # <<>> \/ \E p \in Busy : p \notin {c \in Clients : hand[c] # NoSocket}
  PROVE  Cardinality(Lease!Lent) < Size
<1> DEFINE L == {c \in Clients : hand[c] # NoSocket}
<1>1. Lease!Lent = L BY DEF Lease!Lent
<1>2. L \in SUBSET Busy
  BY DEF IInv, TypeInv, HandsMatch, Holding, Busy
<1> HIDE DEF L
<1>3. IsFiniteSet(L) /\ Cardinality(L) \in Nat /\ Cardinality(L) <= Cardinality(Busy)
  BY <1>2, BusyFacts, FS_Subset, FS_CardinalityType
<1>4. /\ pool \in Seq(Sockets) /\ size \in Nat /\ Size \in Nat
      /\ size + Len(pool) + Cardinality(Busy) = Size /\ Cardinality(Busy) \in Nat
  BY Constants, BusyFacts DEF IInv, TypeInv, TypeOK, SlotConservation
<1>5. CASE pool # <<>>
  <2>1. Len(pool) \in Nat /\ Len(pool) >= 1 BY <1>4, <1>5
  <2> QED BY <2>1, <1>1, <1>3, <1>4
<1>6. CASE \E p \in Busy : p \notin L
  <2>1. L # Busy BY <1>6
  <2>2. Cardinality(L) # Cardinality(Busy) BY <2>1, <1>2, BusyFacts, FS_Subset
  <2>3. Len(pool) \in Nat BY <1>4
  <2> QED BY <2>2, <2>3, <1>1, <1>3, <1>4
<1> QED BY <1>5, <1>6 DEF L

LEMMA StepIsLease ==
  ASSUME IInv, [Next]_vars
  PROVE  [Lease!Next]_leased
<1> USE Constants DEF IInv, TypeInv, TypeOK, leased
<1>1. Move BY StepIsMove
<1>2. ASSUME UNCHANGED hand PROVE UNCHANGED leased
  BY <1>2
<1>3. ASSUME NEW c \in Clients, NEW s \in Sockets, hand[c] = NoSocket,
             \A d \in Clients : hand[d] # s, Cardinality(Lease!Lent) < Size,
             \A d \in Clients : hand'[d] = IF d = c THEN s ELSE hand[d]
      PROVE  Lease!Next
  <2>1. leased' = [leased EXCEPT ![c] = s] BY <1>3
  <2>2. Lease!Lend(c, s) BY <1>3, <2>1, SameCardinality DEF Lease!Lend, Lease!Lent
  <2> QED BY <2>2 DEF Lease!Next
<1>4. ASSUME NEW c \in Clients, hand[c] # NoSocket,
             \A d \in Clients : hand'[d] = IF d = c THEN NoSocket ELSE hand[d]
      PROVE  Lease!Next
  <2>1. leased' = [leased EXCEPT ![c] = NoSocket] BY <1>4
  <2>2. Lease!GiveBack(c) BY <1>4, <2>1 DEF Lease!GiveBack
  <2> QED BY <2>2 DEF Lease!Next
<1>5. ASSUME NEW p \in Procs, Takes(p) PROVE [Lease!Next]_leased
  <2>1. /\ pool # <<>> /\ pool[1] \in Sockets /\ 1 \in 1..Len(pool)
        /\ hand' = [hand EXCEPT ![p] = pool[1]]
    BY <1>5 DEF Takes, TakeIdle
  <2>2. hand[p] = NoSocket
    BY <1>5 DEF Takes, FreePC, SlotPC, HandsMatch, Holding
  <2>3. \A d \in Clients : hand[d] # pool[1] BY <2>1 DEF ConnectionInv, OnePlace
  <2>4. CASE p \in Clients BY <2>1, <2>2, <2>3, <2>4, <1>3, RoomToLend
  <2>5. CASE p \notin Clients
    <3>1. \A d \in Clients : hand'[d] = hand[d] BY <2>1, <2>5
    <3>2. leased' = leased BY <3>1
    <3> QED BY <3>2
  <2> QED BY <2>4, <2>5
<1>6. ASSUME NEW p \in Procs, Frees(p) \/ Buffers(p) PROVE [Lease!Next]_leased
  <2>1. hand' = [hand EXCEPT ![p] = NoSocket]
    BY <1>6 DEF Frees, FreeSlot, Buffers, PutInBuffer
  <2>2. CASE p \in Clients /\ hand[p] # NoSocket BY <2>1, <2>2, <1>4
  <2>3. CASE ~(p \in Clients /\ hand[p] # NoSocket)
    <3>1. \A d \in Clients : hand'[d] = hand[d] BY <2>1, <2>3
    <3>2. leased' = leased BY <3>1
    <3> QED BY <3>2
  <2> QED BY <2>2, <2>3
<1>7. ASSUME NEW p \in Procs, Passes(p) PROVE [Lease!Next]_leased
  <2>1. PICK w \in Clients :
          /\ pc[w] = "parked"
          /\ hand' = [hand EXCEPT ![p] = NoSocket, ![w] = hand[p]]
    <3>1. Head(waiters) \in Clients /\ pc[Head(waiters)] = "parked"
      BY <1>7 DEF Passes, HandOver, WaitersAreParked
    <3> QED BY <1>7, <3>1 DEF Passes, HandOver
  <2>2. hand[w] = NoSocket /\ hand[p] \in Sockets /\ w # p
    BY <1>7, <2>1 DEF Passes, HandsMatch, Holding
  <2>3. CASE p \in Clients
    <3>1. leased' = [leased EXCEPT ![p] = NoSocket, ![w] = hand[p]]
      BY <2>1, <2>2, <2>3
    <3>2. Lease!Pass(p, w) BY <2>2, <2>3, <3>1 DEF Lease!Pass
    <3> QED BY <2>3, <3>2 DEF Lease!Next
  <2>4. CASE p \notin Clients
    <3>1. p \in Busy BY <1>7 DEF Passes, Busy
    <3>2. Cardinality(Lease!Lent) < Size BY <3>1, <2>4, RoomToLend
    <3>3. \A d \in Clients : hand[d] # hand[p]
      BY <2>2, <2>4 DEF ConnectionInv, OnePlace
    <3>4. \A d \in Clients : hand'[d] = IF d = w THEN hand[p] ELSE hand[d]
      BY <2>1, <2>2, <2>4
    <3> QED BY <2>2, <3>2, <3>3, <3>4, <1>3
  <2> QED BY <2>3, <2>4
<1>8. ASSUME NEW c \in Clients, DialSucceeds(c) PROVE [Lease!Next]_leased
  <2>1. PICK s \in Sockets \ InUse : hand' = [hand EXCEPT ![c] = s]
    BY <1>8 DEF DialSucceeds
  <2>2. hand[c] = NoSocket /\ c \in Busy
    BY <1>8 DEF DialSucceeds, HandsMatch, Holding, Busy
  <2>3. \A d \in Clients : hand[d] # s BY <2>1 DEF InUse
  <2>4. Cardinality(Lease!Lent) < Size BY <2>2, RoomToLend
  <2> QED BY <2>1, <2>2, <2>3, <2>4, <1>3
<1>9. ASSUME NEW p \in Procs, Walks(p) PROVE UNCHANGED leased
  BY <1>9 DEF Walks
<1>10. ASSUME NEW c \in Clients,
              GetTakesSlot(c) \/ GetParks(c) \/ GivesUp(c) \/ UseBreaks(c)
       PROVE  UNCHANGED leased
  BY <1>10 DEF GetTakesSlot, GetParks, GivesUp, UseBreaks
<1>11. CASE UNCHANGED <<pc, hand, pool, waiters, size, connected>>
  BY <1>11
<1> QED
  BY <1>1, <1>5, <1>6, <1>7, <1>8, <1>9, <1>10, <1>11 DEF Move

\* The pool implements ConnectionLease: at most Size connections are lent at
\* any time and no connection to two borrowers, whatever its heartbeat, its
\* Close and the waiting borrowers do in between.
THEOREM PoolImplementsLease == Spec => ImplementsLease
<1>1. Init => Lease!Init BY DEF Init, Lease!Init
<1>2. IInv /\ [Next]_vars => [Lease!Next]_leased BY StepIsLease
<1> QED BY <1>1, <1>2, IInvAlways, PTL DEF Spec, ImplementsLease, Lease!Spec, leased

============================================================================
