---------------------------- MODULE MCSetupProgram ----------------------------
(***************************************************************************)
(* An instance of SetupProgram for TLC: three runs.  r1 tops up for a file *)
(* larger than the program deployed, r3 for one that asks for just as much *)
(* as deploying takes, and r2 has no file and cannot pay.                  *)
(***************************************************************************)
EXTENDS SetupProgram

CONSTANTS r1, r2, r3

MCTarget == [r \in HasElf |-> IF r = r1 THEN 5 ELSE 3]
=============================================================================
