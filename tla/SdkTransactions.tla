---------------------------- MODULE SdkTransactions ----------------------------
(***************************************************************************)
(* Callers of the Rust SDK's transaction builders beside the node: a call  *)
(* whose arguments the validators accept is built, signed by every key its *)
(* instructions mark as a signer, and sent.  Signing and sending are left  *)
(* to the caller (sdk-rs/src/lib.rs, "Transaction patterns").              *)
(***************************************************************************)
EXTENDS MetadataNode, TokenMetadataClient

\* A call: the name of the builder, its parameters `p' and its budget.
Builders ==
    {"create_token_with_metadata", "create_token_with_metadata_and_attributes",
     "create_token_with_freeze_auth_metadata", "create_attributes", "replace_attributes",
     "transfer_authority_then_update", "make_immutable"}

Creates(c) ==
    c.builder \in {"create_token_with_metadata", "create_token_with_metadata_and_attributes",
                   "create_token_with_freeze_auth_metadata"}

WithAttributes(c) == c.builder = "create_token_with_metadata_and_attributes"
Frozen(c) == c.builder = "create_token_with_freeze_auth_metadata"
Transfers(c) == c.builder = "transfer_authority_then_update"

\* What the validators are given of its parameters.
Texts(c) ==
    IF Creates(c) \/ Transfers(c) THEN c.p.text ELSE <<>>

Entries(c) ==
    IF WithAttributes(c) \/ c.builder \in {"create_attributes", "replace_attributes"}
    THEN c.p.attributes ELSE <<>>

Accepted(c) == validate_metadata_fields(Texts(c)) /\ validate_attributes(Entries(c))

BuiltInstructions(c) ==
    CASE c.builder = "create_token_with_metadata" -> create_token_with_metadata_tx(c.p)
      [] c.builder = "create_token_with_metadata_and_attributes" ->
           create_token_with_metadata_and_attributes_tx(c.p)
      [] c.builder = "create_token_with_freeze_auth_metadata" ->
           create_token_with_freeze_auth_metadata_tx(c.p)
      [] c.builder = "create_attributes" -> create_attributes_tx(c.p)
      [] c.builder = "replace_attributes" -> replace_attributes_tx(c.p)
      [] c.builder = "transfer_authority_then_update" -> transfer_authority_then_update_tx(c.p)
      [] c.builder = "make_immutable" -> make_immutable_tx(c.p)

\* The accounts an instruction marks as signers.
SignerMetas(ix) ==
    CASE ix.op \in {"CreateMetadata", "CreateAttributes"} -> {ix.payer, ix.authority}
      [] ix.op = "CreateMintAccount" -> {ix.payer, ix.mint}
      [] ix.op = "InitializeMint2" -> {}
      [] OTHER -> {ix.authority}

\* The transaction of a call, with the `_with_budget' builder when it has a budget.
TransactionOf(c) ==
    [call |-> c, prelude |-> compute_budget_ixs(c.budget),
     instructions |-> BuiltInstructions(c),
     signers |-> UNION {SignerMetas(ix) : ix \in ToSet(BuiltInstructions(c))}]

ASSUME CallsAssumption ==
    \A t \in Transactions :
        /\ t.call.builder \in Builders /\ t.call.p.mint \in Mints
        /\ t = TransactionOf(t.call)

-----------------------------------------------------------------------------
(* What the callers rely on: when a built transaction works, and what it does *)

TokenRent == MinimumRent[MINT_LEN] + MinimumRent[TOKEN_METADATA_MAX_LEN]

Rent(c) ==
    IF ~Creates(c) THEN MinimumRent[TOKEN_METADATA_ATTRIBUTES_MAX_LEN]
    ELSE IF ~WithAttributes(c) THEN TokenRent
    ELSE TokenRent + MinimumRent[TOKEN_METADATA_ATTRIBUTES_MAX_LEN]

\* A new mint, and another key with lamports for every account.
Creatable(accounts, c) ==
    /\ accounts[c.p.mint] = Vacant
    /\ c.p.payer # c.p.mint
    /\ CanPay(accounts, c.p.payer, Rent(c))

Controls(accounts, m, k) == MetadataExists(accounts, m) /\ Authority(accounts, m) = k

Ready(accounts, c) ==
    LET m == c.p.mint
    IN  /\ Creates(c) => Creatable(accounts, c) /\ (WithAttributes(c) => ~c.p.immutable)
        /\ c.builder = "create_attributes" =>
              /\ Controls(accounts, m, c.p.update_authority)
              /\ ~AttributesExist(accounts, m)
              /\ CanPay(accounts, c.p.payer, Rent(c))
        /\ c.builder = "replace_attributes" =>
              Controls(accounts, m, c.p.update_authority) /\ AttributesExist(accounts, m)
        /\ Transfers(c) \/ c.builder = "make_immutable" =>
              Controls(accounts, m, c.p.current_update_authority)

TokenIs(accounts, m, text, k) ==
    /\ MetadataExists(accounts, m)
    /\ accounts[MetadataPda(m)].data.text = text
    /\ Authority(accounts, m) = k

\* The key a builder makes the update authority of a new token.
Creator(c) == IF Frozen(c) THEN c.p.freeze_authority ELSE c.p.mint_authority

\* What the transaction is for, given the accounts before it.
Done(before, accounts, c) ==
    LET m == c.p.mint
        old == before[MetadataPda(m)].data.text
    IN  /\ Creates(c) =>
              /\ TokenIs(accounts, m, c.p.text, IF c.p.immutable THEN NoKey ELSE Creator(c))
              /\ AttributesExist(accounts, m) <=> WithAttributes(c)
        /\ WithAttributes(c) \/ c.builder \in {"create_attributes", "replace_attributes"} =>
              accounts[AttributesPda(m)].data.entries = c.p.attributes
        /\ Transfers(c) =>
              TokenIs(accounts, m, UpdatedText(old, c.p.text), c.p.new_authority)
        /\ c.builder = "make_immutable" => TokenIs(accounts, m, old, NoKey)

-----------------------------------------------------------------------------
(* Properties *)

Ends == running # NoTx /\ running' = NoTx

\* A transaction whose sizes the Rust validators accept succeeds exactly when the token,
\* or the room for it, was there as its parameters say when the node took it up, and then
\* leaves what it is for: the instructions of one builder never get in each other's way,
\* in whatever order transactions of other calls come before it, up to every limit.  A
\* token created immutable and with attributes is never there.
BuildersDeliver ==
    [][Ends =>
         LET c == running.call
             ready == Accepted(c) /\ Ready(ledger, c)
         IN  IF running \in failed' THEN ~ready
             ELSE ready /\ Done(ledger, ledger', c)]_nodeVars

\* What makes BuildersDeliver inductive.  Nothing is at a derived address before the program
\* creates its account, so it is never in anybody's use.
Unclaimed(accounts) ==
    \A m \in Mints : \A a \in {MetadataPda(m), AttributesPda(m)} :
        NeedsCreation(accounts, a) => accounts[a] = Vacant

\* The instructions before the one that creates the metadata.
MintSteps(c) == IF Frozen(c) THEN 3 ELSE 2

\* What the instructions after the first n need beside what those have done.
Rest(accounts, c, n) ==
    /\ n = 0 => Accepted(c) /\ Ready(accounts, c)
    /\ Transfers(c) /\ n = 1 => Accepted(c)
    /\ Creates(c) /\ n \in 1..MintSteps(c) =>
          /\ Accepted(c) /\ (WithAttributes(c) => ~c.p.immutable)
          /\ CanPay(accounts, c.p.payer, Rent(c) - MinimumRent[MINT_LEN])
    /\ WithAttributes(c) /\ n = 3 =>
          /\ validate_attributes(Entries(c)) /\ ~c.p.immutable
          /\ CanPay(accounts, c.p.payer, MinimumRent[TOKEN_METADATA_ATTRIBUTES_MAX_LEN])

\* The authority a new token has before and after its builder gives it up.
MintAuthorityAt(c, n) ==
    IF ~Frozen(c) THEN c.p.mint_authority
    ELSE IF n = 2 THEN c.p.initial_mint_authority ELSE NoKey

\* What the first n have done.
Achieved(before, accounts, c, n) ==
    LET m == c.p.mint
    IN  /\ n = 0 => accounts = before
        /\ Transfers(c) /\ n = 1 =>
              TokenIs(accounts, m, before[MetadataPda(m)].data.text, c.p.new_authority)
        /\ Creates(c) /\ n = 1 => accounts[m].owner = TokenProgram /\ ~HoldsMint(accounts, m)
        /\ Creates(c) /\ n \in 2..MintSteps(c) =>
              /\ HoldsMint(accounts, m)
              /\ accounts[m].data.mint_authority = MintAuthorityAt(c, n)
              /\ accounts[m].data.freeze_authority = c.p.freeze_authority
              /\ ~MetadataExists(accounts, m)
        /\ WithAttributes(c) /\ n = 3 =>
              /\ TokenIs(accounts, m, c.p.text, IF c.p.immutable THEN NoKey ELSE c.p.mint_authority)
              /\ ~AttributesExist(accounts, m)
        /\ n = Len(BuiltInstructions(c)) => Done(before, accounts, c)

\* At each point of a transaction the ledger was ready for the whole of it exactly when the
\* bank is ready for what is left, and what is done so far is done.
BuildersKept ==
    /\ Unclaimed(ledger) /\ Unclaimed(bank)
    /\ running # NoTx =>
          LET c == running.call
          IN  /\ executed <= Len(running.instructions)
              /\ Accepted(c) /\ Ready(ledger, c) <=> Rest(bank, c, executed)
              /\ Achieved(ledger, bank, c, executed)

SizeErrors == {"StringTooLong", "TooManyAttributes", "InvalidInstructionData"}

RefusedForSize == Ends /\ running \in failed' /\ outcome' \in SizeErrors

\* What the validators accept, the program never refuses for its size: not one check of
\* the handlers, in any of a transaction's instructions, is stricter than the SDK's.
ValidatedNotOversize == [][RefusedForSize => ~Accepted(running.call)]_nodeVars
=============================================================================
