----------------------------- MODULE HostPrograms -----------------------------
(***************************************************************************)
(* The two programs the token metadata program relies on, as far as the    *)
(* repository uses them: the system program's create_account (called by    *)
(* CPI from the processor and by the SDKs to allocate a mint), and the     *)
(* token program's initialize_mint2 and set_authority(MintTokens).  Their  *)
(* code is not in the repository.                                          *)
(*                                                                         *)
(* An instruction is checked by a sequence of early returns: each check    *)
(* says when it fails and the error it then returns, in the order of the   *)
(* code.  The instruction passes when no check fails; otherwise the first  *)
(* failing check gives its error.  Every condition is total, because an    *)
(* earlier check may be the one that fails.                                *)
(***************************************************************************)
EXTENDS MetadataState

Check(fails, error) == [fails |-> fails, error |-> error]

Passes(checks) == \A i \in DOMAIN checks : ~checks[i].fails

FirstError(checks) ==
    checks[Min({i \in DOMAIN checks : checks[i].fails})].error

-----------------------------------------------------------------------------
(* System program *)

InUse(accounts, a) == accounts[a] # Vacant

\* The payer is a plain system account with the lamports asked of it.
CanPay(accounts, payer, lamports) ==
    /\ accounts[payer].owner = SystemProgram
    /\ accounts[payer].data = Empty
    /\ accounts[payer].lamports >= lamports

CreateAccount(accounts, payer, new, lamports, space, owner) ==
    [accounts EXCEPT
       ![payer].lamports = @ - lamports,
       ![new] = [owner |-> owner, lamports |-> lamports,
                 data |-> [kind |-> "zeroed", len |-> space]]]

\* create_account as a top-level instruction: both accounts sign.
CreateMintAccountChecks(accounts, signers, ix) == <<
    Check(ix.payer \notin signers \/ ix.mint \notin signers, "MissingRequiredSignature"),
    Check(InUse(accounts, ix.mint), "AccountInUse"),
    Check(~CanPay(accounts, ix.payer, MinimumRent[MINT_LEN]), "InsufficientFunds")
>>

CreateMintAccountEffect(accounts, ix) ==
    CreateAccount(accounts, ix.payer, ix.mint, MinimumRent[MINT_LEN], MINT_LEN, TokenProgram)

-----------------------------------------------------------------------------
(* Token program *)

InitializeMint2Checks(accounts, ix) == <<
    Check(accounts[ix.mint].owner # TokenProgram, "IncorrectProgramId"),
    Check(HoldsMint(accounts, ix.mint), "AlreadyInUse")
>>

InitializeMint2Effect(accounts, ix) ==
    [accounts EXCEPT ![ix.mint].data =
       [kind |-> "mint", mint_authority |-> ix.mint_authority,
        freeze_authority |-> ix.freeze_authority]]

MintAuthority(accounts, a) ==
    IF HoldsMint(accounts, a) THEN accounts[a].data.mint_authority ELSE NoKey

\* A mint whose authority is None has a fixed supply: the authority stays None.
SetMintAuthorityChecks(accounts, signers, ix) == <<
    Check(~HoldsMint(accounts, ix.mint), "UninitializedAccount"),
    Check(MintAuthority(accounts, ix.mint) = NoKey, "FixedSupply"),
    Check(MintAuthority(accounts, ix.mint) # ix.authority, "OwnerMismatch"),
    Check(ix.authority \notin signers, "MissingRequiredSignature")
>>

SetMintAuthorityEffect(accounts, ix) ==
    [accounts EXCEPT ![ix.mint].data.mint_authority = ix.new_authority]
=============================================================================
