------------------------------ MODULE MCSocket -----------------------------
(* The instance of Socket that TLC checks; its values are in socket.cfg.   *)
EXTENDS Socket
=============================================================================
