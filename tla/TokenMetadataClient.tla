-------------------------- MODULE TokenMetadataClient --------------------------
(***************************************************************************)
(* The Rust SDK's TokenMetadataClient: builders of one instruction,        *)
(* builders of the instructions of a whole transaction, and the validators *)
(* both run before they build anything.  The client keeps no state; a      *)
(* builder that refuses its arguments is an operator that is not applied   *)
(* (Accepted).  Compute-budget instructions, which no account sees, are    *)
(* the prelude of a transaction.                                           *)
(***************************************************************************)
EXTENDS MetadataProcessor

-----------------------------------------------------------------------------
(* Instructions *)

create_metadata_ix(payer, m, k, text, immutable) ==
    [op |-> "CreateMetadata", payer |-> payer, system_program |-> SystemProgram, mint |-> m,
     metadata |-> MetadataPda(m), authority |-> k, text |-> text, immutable |-> immutable]

update_metadata_ix(m, k, given) ==
    [op |-> "UpdateMetadata", metadata |-> MetadataPda(m), authority |-> k, text |-> given]

create_attributes_ix(payer, m, k, entries) ==
    [op |-> "CreateAttributes", payer |-> payer, system_program |-> SystemProgram, mint |-> m,
     attributes |-> AttributesPda(m), authority |-> k, metadata |-> MetadataPda(m),
     entries |-> entries]

replace_attributes_ix(m, k, entries) ==
    [op |-> "ReplaceAttributes", attributes |-> AttributesPda(m), authority |-> k,
     metadata |-> MetadataPda(m), entries |-> entries]

transfer_authority_ix(m, k, new) ==
    [op |-> "TransferAuthority", metadata |-> MetadataPda(m), authority |-> k,
     new_authority |-> new]

make_immutable_ix(m, k) ==
    [op |-> "MakeImmutable", metadata |-> MetadataPda(m), authority |-> k]

create_mint_account_ix(payer, m) ==
    [op |-> "CreateMintAccount", payer |-> payer, mint |-> m]

initialize_mint2_ix(m, k, freeze) ==
    [op |-> "InitializeMint2", mint |-> m, mint_authority |-> k, freeze_authority |-> freeze]

set_mint_authority_ix(m, k, new) ==
    [op |-> "SetMintAuthority", mint |-> m, authority |-> k, new_authority |-> new]

-----------------------------------------------------------------------------
(* Validators *)

\* Also validate_optional_metadata_fields: `text' holds the fields given.
validate_metadata_fields(text) ==
    \A f \in DOMAIN text : ByteLen[text[f]] <= FieldMaxLen[f]

\* Mutant of validate_attributes: keys may be as long as values.
KeysAsValues(entries) ==
    /\ Len(entries) <= MAX_ATTRIBUTES
    /\ \A i \in DOMAIN entries :
          /\ ByteLen[entries[i][1]] \in 1..MAX_VALUE_LENGTH
          /\ ByteLen[entries[i][2]] \in 1..MAX_VALUE_LENGTH

validate_attributes(entries) ==
    /\ Len(entries) <= MAX_ATTRIBUTES
    /\ \A i \in DOMAIN entries :
          /\ ByteLen[entries[i][1]] \in 1..MAX_KEY_LENGTH
          /\ ByteLen[entries[i][2]] \in 1..MAX_VALUE_LENGTH

-----------------------------------------------------------------------------
(* Transactions: the instructions a builder returns for its parameters *)

create_token_with_metadata_tx(p) == <<
    create_mint_account_ix(p.payer, p.mint),
    initialize_mint2_ix(p.mint, p.mint_authority, p.freeze_authority),
    create_metadata_ix(p.payer, p.mint, p.mint_authority, p.text, p.immutable)
>>

create_token_with_metadata_and_attributes_tx(p) ==
    Append(create_token_with_metadata_tx(p),
           create_attributes_ix(p.payer, p.mint, p.mint_authority, p.attributes))

\* The freeze authority may create metadata once the mint authority is given up.
create_token_with_freeze_auth_metadata_tx(p) == <<
    create_mint_account_ix(p.payer, p.mint),
    initialize_mint2_ix(p.mint, p.initial_mint_authority, p.freeze_authority),
    set_mint_authority_ix(p.mint, p.initial_mint_authority, NoKey),
    create_metadata_ix(p.payer, p.mint, p.freeze_authority, p.text, p.immutable)
>>

create_attributes_tx(p) ==
    <<create_attributes_ix(p.payer, p.mint, p.update_authority, p.attributes)>>

replace_attributes_tx(p) ==
    <<replace_attributes_ix(p.mint, p.update_authority, p.attributes)>>

\* Mutant of transfer_authority_then_update_tx: the old authority signs the update.
OldAuthorityUpdates(p) == <<
    transfer_authority_ix(p.mint, p.current_update_authority, p.new_authority),
    update_metadata_ix(p.mint, p.current_update_authority, p.text)
>>

\* Mutant of transfer_authority_then_update_tx: the update comes first.
UpdateThenTransfer(p) == <<
    update_metadata_ix(p.mint, p.current_update_authority, p.text),
    transfer_authority_ix(p.mint, p.current_update_authority, p.new_authority)
>>

transfer_authority_then_update_tx(p) == <<
    transfer_authority_ix(p.mint, p.current_update_authority, p.new_authority),
    update_metadata_ix(p.mint, p.new_authority, p.text)
>>

make_immutable_tx(p) == <<make_immutable_ix(p.mint, p.current_update_authority)>>

\* The `_with_budget' variants put these before the same instructions.
compute_budget_ixs(budget) ==
    SelectSeq(<<"set_compute_unit_limit", "request_heap_frame">>, LAMBDA b : b \in budget)
=============================================================================
