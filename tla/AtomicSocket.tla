---------------------------- MODULE AtomicSocket ----------------------------
(***************************************************************************)
(* What a socket promises to the goroutines that share it: Connect and     *)
(* Close act as if each had one decisive step.  A Connect is won by one of *)
(* them and decided once, for or against; Close, and every failure that    *)
(* closes, ends the connection there is or the attempt to open one, and    *)
(* nothing but the next Connect brings a connection back.  How the flag    *)
(* and the connection behind it are changed one after the other is left    *)
(* open.                                                                   *)
(***************************************************************************)
VARIABLES
  state,  \* "no", "ing" or "yes"
  end     \* the connection: "shut", "open", or "lost" by the network

Init == state = "no" /\ end = "shut"

Connect == state = "no" /\ state' = "ing" /\ UNCHANGED end

Succeed == state = "ing" /\ state' = "yes" /\ end' = "open"

\* The dial fails, or Close comes before its success.
Fail == state = "ing" /\ state' = "no" /\ UNCHANGED end

Close == state = "yes" /\ state' = "no" /\ end' = "shut"

Lose == end = "open" /\ end' = "lost" /\ UNCHANGED state

Next == Connect \/ Succeed \/ Fail \/ Close \/ Lose

Spec == Init /\ [][Next]_<<state, end>>
=============================================================================
