------------------------------ MODULE SetupProgram ------------------------------
(***************************************************************************)
(* setup-payer-and-program: each run generates a payer and a program key,  *)
(* has the faucet fund the payer, deploys the program the ELF crate holds  *)
(* and only then writes examples/.env, from which the tours take the       *)
(* payer's secret and the program id.  Runs may overlap, any call may      *)
(* fail, and a run may be killed between any two of its steps.  The        *)
(* faucet, the node and the deployer of arch_sdk are external.             *)
(***************************************************************************)
EXTENDS Integers

CONSTANTS
    Runs,          \* the runs of the program
    HasElf,        \* those started with ARCH_METADATA_ELF set
    Airdrop,       \* what the faucet gives at a time
    DeployCost,    \* what deploying the program the ELF crate holds takes
    Target,        \* Target[r]: the rent of the file ARCH_METADATA_ELF names, and fees
    NoEnv, Partial \* no examples/.env; one that was opened and not written

ASSUME SetupAssumption ==
    /\ HasElf \subseteq Runs
    /\ Airdrop \in Nat \ {0}
    /\ DeployCost \in Nat
    /\ Target \in [HasElf -> Nat]
    /\ {NoEnv, Partial} \cap Runs = {}

VARIABLES
    stage,         \* stage[r]: how far run r has come
    lamports,      \* lamports[r]: those of its payer
    deployed,      \* the runs whose program is on the node
    env            \* the run examples/.env names, NoEnv or Partial

setup == <<stage, lamports, deployed, env>>

SetupInit ==
    /\ stage = [r \in Runs |-> "start"]
    /\ lamports = [r \in Runs |-> 0]
    /\ deployed = {}
    /\ env = NoEnv

Moves(r, from, to) ==
    /\ stage[r] = from
    /\ stage' = [stage EXCEPT ![r] = to]

\* create_and_fund_account_with_faucet; a payer with nothing ends the run.
Fund(r) ==
    /\ \E given \in {0, Airdrop} :
          /\ lamports' = [lamports EXCEPT ![r] = given]
          /\ Moves(r, "start", IF given = 0 THEN "failed" ELSE "funded")
    /\ UNCHANGED <<deployed, env>>

\* Only a run that was given a file compares, and with the rent of that file, which
\* need not be the program it deploys.
Short(r) == r \in HasElf /\ lamports[r] < Target[r]

\* Mutant of TopUp: the balance is not read again.
TopUpUnread(r) ==
    /\ stage[r] = "funded" /\ Short(r)
    /\ UNCHANGED setup

TopUp(r) ==
    /\ stage[r] = "funded" /\ Short(r)
    /\ lamports' = [lamports EXCEPT ![r] = @ + Airdrop]
    /\ UNCHANGED <<stage, deployed, env>>

\* try_deploy_program fails for a payer who cannot pay.
Deploy(r) ==
    /\ ~Short(r)
    /\ \/ /\ lamports[r] >= DeployCost
          /\ Moves(r, "funded", "deployed")
          /\ lamports' = [lamports EXCEPT ![r] = @ - DeployCost]
          /\ deployed' = deployed \cup {r}
       \/ /\ lamports[r] < DeployCost
          /\ Moves(r, "funded", "failed")
          /\ UNCHANGED <<lamports, deployed>>
    /\ UNCHANGED env

\* Mutant of OpenEnv: the file is written as soon as the keys are known.
OpenEnvFirst(r) ==
    /\ Moves(r, "funded", "writing")
    /\ env' = Partial
    /\ UNCHANGED <<lamports, deployed>>

\* fs::write opens and truncates the file ...
OpenEnv(r) ==
    /\ Moves(r, "deployed", "writing")
    /\ env' = Partial
    /\ UNCHANGED <<lamports, deployed>>

\* ... and then writes all of it at once.
WriteEnv(r) ==
    /\ Moves(r, "writing", "done")
    /\ env' = r
    /\ UNCHANGED <<lamports, deployed>>

\* A call fails, or the run is killed.
Stop(r) ==
    /\ stage[r] \in {"start", "funded", "deployed", "writing"}
    /\ stage' = [stage EXCEPT ![r] = "failed"]
    /\ UNCHANGED <<lamports, deployed, env>>

Continue(r) == Fund(r) \/ TopUp(r) \/ Deploy(r) \/ OpenEnv(r) \/ WriteEnv(r)

SetupNext == \E r \in Runs : Continue(r) \/ Stop(r)

\* A run that is not killed goes on: every call it makes is a blocking one.
SetupSpec == SetupInit /\ [][SetupNext]_setup /\ \A r \in Runs : WF_setup(Continue(r))

-----------------------------------------------------------------------------
(* Properties *)

SetupTypeOK ==
    /\ stage \in [Runs -> {"start", "funded", "deployed", "writing", "done", "failed"}]
    /\ lamports \in [Runs -> Nat]
    /\ deployed \in SUBSET Runs
    /\ env \in Runs \cup {NoEnv, Partial}

\* Whatever runs overlap, fail or are killed, examples/.env never names a program that
\* is not there: a tour that can read it meets the program.
EnvNamesDeployed == env \in Runs => env \in deployed

\* Topping up ends, and so does every run.
SetupEnds == \A r \in Runs : <>(stage[r] \in {"done", "failed"})

\* What makes EnvNamesDeployed inductive: a run that has reached the file has deployed.
SetupIInv ==
    /\ SetupTypeOK
    /\ EnvNamesDeployed
    /\ \A r \in Runs : stage[r] \in {"deployed", "writing", "done"} => r \in deployed
=============================================================================
