---------------------------- MODULE MCMainSocket ----------------------------
(* MainSocket for TLC: its bounds are given in the configurations.         *)
EXTENDS MainSocket
=============================================================================
