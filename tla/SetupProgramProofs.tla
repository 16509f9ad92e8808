--------------------------- MODULE SetupProgramProofs ---------------------------
(***************************************************************************)
(* Proofs about SetupProgram: for any number of runs, any faucet and any   *)
(* cost of deploying, examples/.env names only a program that was deployed *)
(* before it.  The file is written last, so the inductive invariant only   *)
(* has to follow a run from its deployment to the file.                    *)
(***************************************************************************)
EXTENDS SetupProgram, TLAPS

LEMMA SetupInitIInv == SetupInit => SetupIInv
  BY SetupAssumption DEF SetupInit, SetupIInv, SetupTypeOK, EnvNamesDeployed

LEMMA SetupNextIInv ==
    ASSUME SetupIInv, [SetupNext]_setup
    PROVE  SetupIInv'
  <1> USE SetupAssumption DEF SetupIInv, SetupTypeOK, EnvNamesDeployed, Moves
  <1>1. ASSUME NEW r \in Runs, Fund(r) PROVE SetupIInv'
    <2>1. PICK given \in {0, Airdrop} :
             /\ lamports' = [lamports EXCEPT ![r] = given]
             /\ stage[r] = "start"
             /\ stage' = [stage EXCEPT ![r] = IF given = 0 THEN "failed" ELSE "funded"]
      BY <1>1 DEF Fund
    <2> QED
      BY <1>1, <2>1 DEF Fund
  <1>2. ASSUME NEW r \in Runs, TopUp(r) PROVE SetupIInv'
    BY <1>2 DEF TopUp
  <1>3. ASSUME NEW r \in Runs, Deploy(r) PROVE SetupIInv'
    BY <1>3 DEF Deploy
  <1>4. ASSUME NEW r \in Runs, OpenEnv(r) PROVE SetupIInv'
    BY <1>4 DEF OpenEnv
  <1>5. ASSUME NEW r \in Runs, WriteEnv(r) PROVE SetupIInv'
    BY <1>5 DEF WriteEnv
  <1>6. ASSUME NEW r \in Runs, Stop(r) PROVE SetupIInv'
    BY <1>6 DEF Stop
  <1>7. CASE UNCHANGED setup
    BY <1>7 DEF setup
  <1> QED
    BY <1>1, <1>2, <1>3, <1>4, <1>5, <1>6, <1>7 DEF SetupNext, Continue

\* A run that has reached the file has deployed, in every interleaving of runs and
\* however they fail or are killed.
THEOREM SetupInvariant == SetupSpec => []SetupIInv
  BY SetupInitIInv, SetupNextIInv, PTL DEF SetupSpec

\* A tour that can read examples/.env finds the program it names on the node.
THEOREM EnvNamesProgram == SetupSpec => []EnvNamesDeployed
  <1>1. SetupIInv => EnvNamesDeployed
    BY DEF SetupIInv
  <1> QED
    BY <1>1, SetupInvariant, PTL
=============================================================================
