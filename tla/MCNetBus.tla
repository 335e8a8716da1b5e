------------------------------ MODULE MCNetBus -----------------------------
(* Two gateways g1 and g2, an id that is online at each, and a malformed   *)
(* one.                                                                    *)
EXTENDS NetBus, TLC

CONSTANTS g1, g2, u1, u2, u3

MCPools == {g1, g2}
MCUniqIds == {u1, u2, u3}
MCHome == (u1 :> g1) @@ (u2 :> g2) @@ (u3 :> None)
MCOnline == {u1, u2}

\* Exchanging the gateways together with their ids changes nothing either.
Swap == (g1 :> g2) @@ (g2 :> g1) @@ (u1 :> u2) @@ (u2 :> u1)
Symmetry == Permutations(Clients) \cup {p @@ Swap : p \in Permutations(Clients)}
=============================================================================
