-------------------------- MODULE MetadataProcessor --------------------------
(***************************************************************************)
(* The six instruction handlers of the token metadata program              *)
(* (programs/arch-token-metadata/src/processor.rs).  Each handler is the   *)
(* sequence of its early returns, in the order of the code, and the effect *)
(* it has on the accounts when none of them is taken.                      *)
(***************************************************************************)
EXTENDS HostPrograms

-----------------------------------------------------------------------------
(* What the handlers read *)

\* The stored update authority; NoKey when the metadata is immutable.
UpdateAuthority(accounts, a) ==
    IF HoldsMetadata(accounts, a) THEN accounts[a].data.update_authority ELSE NoKey

\* Mutant of AuthorityAccepted: only an authority that is there is compared, so
\* immutable metadata accepts any key.
AuthorityAcceptedUnlessOther(accounts, metadata, key) ==
    UpdateAuthority(accounts, metadata) \in {NoKey, key}

\* The handlers' `match metadata.update_authority': it is Some and is the key given.
AuthorityAccepted(accounts, metadata, key) ==
    /\ UpdateAuthority(accounts, metadata) # NoKey
    /\ UpdateAuthority(accounts, metadata) = key

\* The key whose signature creates metadata for a mint: the mint authority and,
\* only when there is none, the freeze authority.
CreationAuthority(accounts, mint) ==
    IF ~HoldsMint(accounts, mint) THEN NoKey
    ELSE IF accounts[mint].data.mint_authority # NoKey
         THEN accounts[mint].data.mint_authority
         ELSE accounts[mint].data.freeze_authority

\* Mutant of CreationAuthorityAccepted: either authority of the mint will do.
EitherAuthorityAccepted(accounts, mint, key) ==
    /\ HoldsMint(accounts, mint)
    /\ key \in {accounts[mint].data.mint_authority, accounts[mint].data.freeze_authority}

CreationAuthorityAccepted(accounts, mint, key) ==
    /\ CreationAuthority(accounts, mint) # NoKey
    /\ CreationAuthority(accounts, mint) = key

-----------------------------------------------------------------------------
(* Limits on what is written *)

\* `text' holds the fields given: all four, or those an update sets.
TextTooLong(text) == \E f \in DOMAIN text : ByteLen[text[f]] > FieldMaxLen[f]

\* The element loop stops at the first offending pair; for one pair the empty
\* test comes first.
EntryEmpty(e) == ByteLen[e[1]] = 0 \/ ByteLen[e[2]] = 0

EntryTooLong(e) ==
    ByteLen[e[1]] > MAX_KEY_LENGTH \/ ByteLen[e[2]] > MAX_VALUE_LENGTH

TooManyEntries(entries) == Len(entries) > MAX_ATTRIBUTES

EmptyEntryFirst(entries) ==
    \E i \in DOMAIN entries :
        /\ EntryEmpty(entries[i])
        /\ \A j \in 1..(i - 1) : ~EntryTooLong(entries[j])

SomeEntryTooLong(entries) == \E i \in DOMAIN entries : EntryTooLong(entries[i])

-----------------------------------------------------------------------------
(* The create_account CPI of the two creating handlers *)

NeedsCreation(accounts, a) == accounts[a].owner # MetadataProgram

\* Mutant of CannotPay: the payer is asked for the rent of a smaller account.
CannotPayMint(accounts, ix, a, space) ==
    NeedsCreation(accounts, a) /\ ~CanPay(accounts, ix.payer, MinimumRent[MINT_LEN])

CannotPay(accounts, ix, a, space) ==
    NeedsCreation(accounts, a) /\ ~CanPay(accounts, ix.payer, MinimumRent[space])

\* Mutant of Created: every account is funded for the size of metadata.
CreatedWithMetadataRent(accounts, ix, a, space) ==
    IF NeedsCreation(accounts, a)
    THEN CreateAccount(accounts, ix.payer, a, MinimumRent[TOKEN_METADATA_MAX_LEN], space,
                       MetadataProgram)
    ELSE accounts

Created(accounts, ix, a, space) ==
    IF NeedsCreation(accounts, a)
    THEN CreateAccount(accounts, ix.payer, a, MinimumRent[space], space, MetadataProgram)
    ELSE accounts

\* Mutant of AlreadyInitialized: only accounts not owned by the program are looked at.
NeverInitialized(accounts, a) ==
    NeedsCreation(accounts, a) /\ FirstByteSet(accounts[a].data)

\* "Ensure not already initialized": the account just created has only zeroes.
AlreadyInitialized(accounts, a) ==
    ~NeedsCreation(accounts, a) /\ FirstByteSet(accounts[a].data)

\* pack_into_slice copies into dst[..len] and panics when dst is shorter.
Overflows(packed_len, accounts, a, space) ==
    packed_len > IF NeedsCreation(accounts, a) THEN space ELSE DataLen(accounts[a].data)

-----------------------------------------------------------------------------
(* process_create_metadata *)

NewMetadata(accounts, ix) ==
    [kind |-> "metadata", mint |-> ix.mint, text |-> ix.text,
     update_authority |-> IF ix.immutable THEN NoKey
                          ELSE CreationAuthority(accounts, ix.mint)]

CreateMetadataChecks(accounts, signers, ix) == <<
    Check(accounts[ix.mint].owner # TokenProgram, "IncorrectProgramId"),
    Check(~HoldsMint(accounts, ix.mint), "InvalidAccountData"),
    Check(~CreationAuthorityAccepted(accounts, ix.mint, ix.authority), "InvalidAuthority"),
    Check(ix.authority \notin signers, "InvalidAuthority"),
    Check(ix.metadata # MetadataPda(ix.mint), "InvalidSeeds"),
    Check(TextTooLong(ix.text), "StringTooLong"),
    Check(NeedsCreation(accounts, ix.metadata) /\ ix.system_program # SystemProgram,
          "IncorrectProgramId"),
    Check(NeedsCreation(accounts, ix.metadata) /\ ix.payer \notin signers,
          "MissingRequiredSignature"),
    Check(NeedsCreation(accounts, ix.metadata) /\ InUse(accounts, ix.metadata), "AccountInUse"),
    Check(CannotPay(accounts, ix, ix.metadata, TOKEN_METADATA_MAX_LEN), "InsufficientFunds"),
    Check(AlreadyInitialized(accounts, ix.metadata), "MetadataAlreadyExists"),
    Check(Overflows(PackedMetadataLen(NewMetadata(accounts, ix)),
                    accounts, ix.metadata, TOKEN_METADATA_MAX_LEN), "Panicked")
>>

CreateMetadataEffect(accounts, ix) ==
    [Created(accounts, ix, ix.metadata, TOKEN_METADATA_MAX_LEN) EXCEPT
       ![ix.metadata].data = NewMetadata(accounts, ix)]

-----------------------------------------------------------------------------
(* process_update_metadata *)

\* Mutant of UpdatedText: a field not given takes the place of one that is.
NameForSymbol(text, given) ==
    [f \in Field |->
       IF f \notin DOMAIN given THEN text[f]
       ELSE IF f = "symbol" THEN text["name"] ELSE given[f]]

\* An update names the fields it sets; the others keep their text.
UpdatedText(text, given) ==
    [f \in Field |-> IF f \in DOMAIN given THEN given[f] ELSE text[f]]

Updated(accounts, ix) ==
    [accounts[ix.metadata].data EXCEPT !.text = UpdatedText(@, ix.text)]

\* Mutant of UpdateMetadataChecks: the size is left to pack_into_slice.
UpdateChecksTotalOnly(accounts, signers, ix) == <<
    Check(ix.authority \notin signers, "MissingRequiredSignature"),
    Check(~HoldsMetadata(accounts, ix.metadata), "InvalidAccountData"),
    Check(~AuthorityAccepted(accounts, ix.metadata, ix.authority), "InvalidAuthority"),
    Check(HoldsMetadata(accounts, ix.metadata)
            /\ PackedMetadataLen(Updated(accounts, ix)) > TOKEN_METADATA_MAX_LEN,
          "Panicked")
>>

UpdateMetadataChecks(accounts, signers, ix) == <<
    Check(ix.authority \notin signers, "MissingRequiredSignature"),
    Check(~HoldsMetadata(accounts, ix.metadata), "InvalidAccountData"),
    Check(~AuthorityAccepted(accounts, ix.metadata, ix.authority), "InvalidAuthority"),
    Check(TextTooLong(ix.text), "StringTooLong"),
    Check(HoldsMetadata(accounts, ix.metadata)
            /\ PackedMetadataLen(Updated(accounts, ix)) > TOKEN_METADATA_MAX_LEN,
          "Panicked")
>>

UpdateMetadataEffect(accounts, ix) ==
    [accounts EXCEPT ![ix.metadata].data = Updated(accounts, ix)]

-----------------------------------------------------------------------------
(* process_create_attributes *)

\* Mutant of MetadataIsOfMint: metadata of any mint will do.
MetadataOfAnyMint(accounts, metadata, mint) == HoldsMetadata(accounts, metadata)

MetadataIsOfMint(accounts, metadata, mint) ==
    HoldsMetadata(accounts, metadata) /\ accounts[metadata].data.mint = mint

\* Mutant of NewAttributes: it records the metadata's address as the mint.
AttributesOfMetadata(ix) ==
    [kind |-> "attributes", mint |-> ix.metadata, entries |-> ix.entries]

NewAttributes(ix) ==
    [kind |-> "attributes", mint |-> ix.mint, entries |-> ix.entries]

CreateAttributesChecks(accounts, signers, ix) == <<
    Check(ix.payer \notin signers \/ ix.authority \notin signers,
          "MissingRequiredSignature"),
    Check(ix.attributes # AttributesPda(ix.mint), "InvalidSeeds"),
    Check(~MetadataIsOfMint(accounts, ix.metadata, ix.mint), "InvalidAccountData"),
    Check(~AuthorityAccepted(accounts, ix.metadata, ix.authority), "InvalidAuthority"),
    Check(TooManyEntries(ix.entries), "TooManyAttributes"),
    Check(EmptyEntryFirst(ix.entries), "InvalidInstructionData"),
    Check(SomeEntryTooLong(ix.entries), "StringTooLong"),
    Check(NeedsCreation(accounts, ix.attributes) /\ ix.system_program # SystemProgram,
          "IncorrectProgramId"),
    Check(NeedsCreation(accounts, ix.attributes) /\ ix.payer \notin signers,
          "MissingRequiredSignature"),
    Check(NeedsCreation(accounts, ix.attributes) /\ InUse(accounts, ix.attributes),
          "AccountInUse"),
    Check(CannotPay(accounts, ix, ix.attributes, TOKEN_METADATA_ATTRIBUTES_MAX_LEN),
          "InsufficientFunds"),
    Check(~NeedsCreation(accounts, ix.attributes)
            /\ DataLen(accounts[ix.attributes].data) # TOKEN_METADATA_ATTRIBUTES_MAX_LEN,
          "InvalidAccountData"),
    Check(AlreadyInitialized(accounts, ix.attributes), "MetadataAlreadyExists"),
    Check(Overflows(PackedAttributesLen(ix.entries),
                    accounts, ix.attributes, TOKEN_METADATA_ATTRIBUTES_MAX_LEN), "Panicked")
>>

CreateAttributesEffect(accounts, ix) ==
    [Created(accounts, ix, ix.attributes, TOKEN_METADATA_ATTRIBUTES_MAX_LEN) EXCEPT
       ![ix.attributes].data = NewAttributes(ix)]

-----------------------------------------------------------------------------
(* process_replace_attributes *)

\* The attributes address is derived from the mint the metadata names.
AttributesOf(accounts, metadata) ==
    IF HoldsMetadata(accounts, metadata)
    THEN AttributesPda(accounts[metadata].data.mint) ELSE NoKey

ReplaceAttributesChecks(accounts, signers, ix) == <<
    Check(ix.authority \notin signers, "MissingRequiredSignature"),
    Check(~HoldsMetadata(accounts, ix.metadata), "InvalidAccountData"),
    Check(~AuthorityAccepted(accounts, ix.metadata, ix.authority), "InvalidAuthority"),
    Check(ix.attributes # AttributesOf(accounts, ix.metadata), "InvalidSeeds"),
    Check(~HoldsAttributes(accounts, ix.attributes), "InvalidAccountData"),
    Check(TooManyEntries(ix.entries), "TooManyAttributes"),
    Check(EmptyEntryFirst(ix.entries), "InvalidInstructionData"),
    Check(SomeEntryTooLong(ix.entries), "StringTooLong"),
    Check(PackedAttributesLen(ix.entries) > TOKEN_METADATA_ATTRIBUTES_MAX_LEN, "Panicked")
>>

\* Mutant of ReplaceAttributesEffect: new entries are added to the old ones.
AppendAttributesEffect(accounts, ix) ==
    [accounts EXCEPT ![ix.attributes].data.entries = @ \o ix.entries]

ReplaceAttributesEffect(accounts, ix) ==
    [accounts EXCEPT ![ix.attributes].data.entries = ix.entries]

-----------------------------------------------------------------------------
(* process_transfer_authority and process_make_immutable check alike *)

\* Neither has a row for a panic of pack_into_slice: what they pack are the texts they have
\* just unpacked from the same account, and an authority it has room for.
AuthorityChangeChecks(accounts, signers, ix) == <<
    Check(ix.authority \notin signers, "MissingRequiredSignature"),
    Check(~HoldsMetadata(accounts, ix.metadata), "InvalidAccountData"),
    Check(~AuthorityAccepted(accounts, ix.metadata, ix.authority), "InvalidAuthority")
>>

TransferAuthorityEffect(accounts, ix) ==
    [accounts EXCEPT ![ix.metadata].data.update_authority = ix.new_authority]

MakeImmutableEffect(accounts, ix) ==
    [accounts EXCEPT ![ix.metadata].data.update_authority = NoKey]
=============================================================================
