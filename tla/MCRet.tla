------------------------------- MODULE MCRet -------------------------------
(* The instance of Ret that TLC checks; its values are in ret.cfg.  The    *)
(* keys are alike, and so are the gateways and the items.                  *)
EXTENDS Ret, TLC

RetSymmetry ==
  Permutations(Gateways) \cup Permutations(Keys) \cup Permutations(Items)
=============================================================================
