------------------------------- MODULE MCEnv -------------------------------
(***************************************************************************)
(* Three entries, two of them in use at boot.  The third is there to fork  *)
(* into, the second can be destroyed and used again.                       *)
(***************************************************************************)
EXTENDS Env

Generations == [e \in Slots |-> IF e = 1 THEN 2 ELSE 1]
============================================================================
