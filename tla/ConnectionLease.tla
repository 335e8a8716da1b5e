-------------------------- MODULE ConnectionLease --------------------------
(***************************************************************************)
(* What a pool of connections promises to its borrowers: at most Size      *)
(* connections are lent at any time, and never one to two borrowers.  How  *)
(* connections are opened, kept alive, closed and waited for is left open. *)
(***************************************************************************)
EXTENDS Naturals, FiniteSets

CONSTANTS
  Borrowers,
  Conns,
  None,      \* not a connection
  Size

VARIABLE lease    \* the connection lent to each borrower, None if there is none

Lent == {c \in Borrowers : lease[c] # None}

Init == lease = [c \in Borrowers |-> None]

Lend(c, s) ==
  /\ lease[c] = None
  /\ \A d \in Borrowers : lease[d] # s
  /\ Cardinality(Lent) < Size
  /\ lease' = [lease EXCEPT ![c] = s]

GiveBack(c) ==
  /\ lease[c] # None
  /\ lease' = [lease EXCEPT ![c] = None]

\* The connection goes from one borrower straight to another that waits.
Pass(c, d) ==
  /\ lease[c] # None /\ lease[d] = None
  /\ lease' = [lease EXCEPT ![c] = None, ![d] = lease[c]]

Next ==
  \/ \E c \in Borrowers, s \in Conns : Lend(c, s)
  \/ \E c \in Borrowers : GiveBack(c)
  \/ \E c, d \in Borrowers : Pass(c, d)

Spec == Init /\ [][Next]_lease
=============================================================================
