---------------------------- MODULE MetadataLedger ----------------------------
(***************************************************************************)
(* The token metadata program under the runtime that executes it: signed   *)
(* transactions of several instructions over one committed set of          *)
(* accounts.  A transaction works on a copy of the accounts (the bank);    *)
(* every instruction runs its handler on that copy, the first error rolls  *)
(* the whole transaction back, and a transaction whose instructions all    *)
(* succeed is committed at once.  The runtime is not in the repository; it *)
(* is modelled as the tests and SDKs use it (ArchMessage of several        *)
(* instructions, Status::Processed or Status::Failed).                     *)
(***************************************************************************)
EXTENDS MetadataProcessor

CONSTANTS
    Instructions,        \* the instructions clients may send, see Instruction
    Genesis,             \* the lamports each wallet starts with
    MaxInstructions      \* bound: instructions in one transaction

-----------------------------------------------------------------------------
(* Instructions: the accounts each handler reads, by role, and its data.    *)
(* Any address may stand in any role.                                       *)

PartialText == UNION {[fs -> Text] : fs \in SUBSET Field}

Instruction ==
    [op : {"CreateMetadata"}, payer : Address, system_program : Address \cup Programs,
     mint : Address, metadata : Address, authority : Address,
     text : [Field -> Text], immutable : BOOLEAN]
    \cup
    [op : {"UpdateMetadata"}, metadata : Address, authority : Address, text : PartialText]
    \cup
    [op : {"CreateAttributes"}, payer : Address, system_program : Address \cup Programs,
     mint : Address, attributes : Address, authority : Address, metadata : Address,
     entries : Seq(Entry)]
    \cup
    [op : {"ReplaceAttributes"}, attributes : Address, authority : Address,
     metadata : Address, entries : Seq(Entry)]
    \cup
    [op : {"TransferAuthority"}, metadata : Address, authority : Address,
     new_authority : Keys]
    \cup
    [op : {"MakeImmutable"}, metadata : Address, authority : Address]
    \cup
    [op : {"CreateMintAccount"}, payer : Address, mint : Mints]
    \cup
    [op : {"InitializeMint2"}, mint : Mints, mint_authority : Keys,
     freeze_authority : Keys \cup {NoKey}]
    \cup
    [op : {"SetMintAuthority"}, mint : Mints, authority : Address,
     new_authority : Keys \cup {NoKey}]

ASSUME InstructionsAssumption == Instructions \subseteq Instruction
ASSUME GenesisAssumption == Genesis \in [Wallets -> Nat \ {0}]
ASSUME MaxInstructionsAssumption == MaxInstructions \in Nat \ {0}

Sent(op) == {ix \in Instructions : ix.op = op}

-----------------------------------------------------------------------------

VARIABLES
    ledger,      \* the committed accounts
    bank,        \* the accounts as the open transaction sees them
    signers,     \* the keys that signed the open transaction
    executed,    \* how many of its instructions have succeeded
    outcome      \* "open", or how the last transaction ended

vars == <<ledger, bank, signers, executed, outcome>>

Errors == {
    \* ProgramError
    "IncorrectProgramId", "InvalidAccountData", "InvalidSeeds", "MissingRequiredSignature",
    \* MetadataError
    "InvalidAuthority", "StringTooLong", "MetadataAlreadyExists", "InvalidInstructionData",
    "TooManyAttributes",
    \* the system and the token program, and a panic of the handler
    "AccountInUse", "InsufficientFunds", "AlreadyInUse", "UninitializedAccount",
    "FixedSupply", "OwnerMismatch", "Panicked"}

Open == outcome = "open"

Init ==
    /\ ledger = [a \in Address |->
                   IF a \in Wallets THEN [Vacant EXCEPT !.lamports = Genesis[a]]
                   ELSE Vacant]
    /\ bank = ledger
    /\ signers = {}
    /\ executed = 0
    /\ outcome = "none"

Begin(keys) ==
    /\ ~Open
    /\ signers' = keys
    /\ outcome' = "open"
    /\ UNCHANGED <<ledger, bank, executed>>

Commit ==
    /\ Open
    /\ executed > 0
    /\ ledger' = bank
    /\ outcome' = "Processed"
    /\ signers' = {}
    /\ executed' = 0
    /\ UNCHANGED bank

\* An instruction succeeds with this effect on the bank ...
Succeed(effect) ==
    /\ executed < MaxInstructions
    /\ executed' = executed + 1
    /\ bank' = effect
    /\ UNCHANGED <<ledger, signers, outcome>>

\* ... or fails with an error, and what the transaction did so far is undone.
Fail(error) ==
    /\ executed < MaxInstructions
    /\ outcome' = error
    /\ bank' = ledger
    /\ signers' = {}
    /\ executed' = 0
    /\ UNCHANGED ledger

\* One instruction of the open transaction.
Execute(checks, effect) ==
    /\ Open
    /\ \/ Passes(checks) /\ Succeed(effect)
       \/ ~Passes(checks) /\ Fail(FirstError(checks))

CreateMetadata(ix) ==
    Execute(CreateMetadataChecks(bank, signers, ix), CreateMetadataEffect(bank, ix))

UpdateMetadata(ix) ==
    Execute(UpdateMetadataChecks(bank, signers, ix), UpdateMetadataEffect(bank, ix))

CreateAttributes(ix) ==
    Execute(CreateAttributesChecks(bank, signers, ix), CreateAttributesEffect(bank, ix))

ReplaceAttributes(ix) ==
    Execute(ReplaceAttributesChecks(bank, signers, ix), ReplaceAttributesEffect(bank, ix))

TransferAuthority(ix) ==
    Execute(AuthorityChangeChecks(bank, signers, ix), TransferAuthorityEffect(bank, ix))

MakeImmutable(ix) ==
    Execute(AuthorityChangeChecks(bank, signers, ix), MakeImmutableEffect(bank, ix))

CreateMintAccount(ix) ==
    Execute(CreateMintAccountChecks(bank, signers, ix), CreateMintAccountEffect(bank, ix))

InitializeMint2(ix) ==
    Execute(InitializeMint2Checks(bank, ix), InitializeMint2Effect(bank, ix))

SetMintAuthority(ix) ==
    Execute(SetMintAuthorityChecks(bank, signers, ix), SetMintAuthorityEffect(bank, ix))

Next ==
    \/ \E keys \in SUBSET Keys : Begin(keys)
    \/ Commit
    \/ \E ix \in Sent("CreateMetadata") : CreateMetadata(ix)
    \/ \E ix \in Sent("UpdateMetadata") : UpdateMetadata(ix)
    \/ \E ix \in Sent("CreateAttributes") : CreateAttributes(ix)
    \/ \E ix \in Sent("ReplaceAttributes") : ReplaceAttributes(ix)
    \/ \E ix \in Sent("TransferAuthority") : TransferAuthority(ix)
    \/ \E ix \in Sent("MakeImmutable") : MakeImmutable(ix)
    \/ \E ix \in Sent("CreateMintAccount") : CreateMintAccount(ix)
    \/ \E ix \in Sent("InitializeMint2") : InitializeMint2(ix)
    \/ \E ix \in Sent("SetMintAuthority") : SetMintAuthority(ix)

Spec == Init /\ [][Next]_vars

-----------------------------------------------------------------------------
(* Properties *)

\* Every variable has its type; in particular no payer's lamports go below zero
\* and stored metadata always has all four texts.
TypeOK ==
    /\ ledger \in [Address -> Account]
    /\ bank \in [Address -> Account]
    /\ signers \in SUBSET Keys
    /\ executed \in 0..MaxInstructions
    /\ outcome \in {"none", "open", "Processed"} \cup Errors

MetadataExists(accounts, m) == HoldsMetadata(accounts, MetadataPda(m))
AttributesExist(accounts, m) == HoldsAttributes(accounts, AttributesPda(m))
Authority(accounts, m) == UpdateAuthority(accounts, MetadataPda(m))

\* No transaction, whatever it does between the CPI that creates an account and
\* its last instruction, commits a half-made account: every account the program
\* owns is initialised and sits at the address derived from the mint recorded in
\* it, and metadata or attributes exist nowhere else.
Complete(accounts) ==
    \A a \in Address :
        /\ accounts[a].owner = MetadataProgram =>
              HoldsMetadata(accounts, a) \/ HoldsAttributes(accounts, a)
        /\ HoldsMetadata(accounts, a) =>
              /\ accounts[a].owner = MetadataProgram
              /\ a = MetadataPda(accounts[a].data.mint)
        /\ HoldsAttributes(accounts, a) =>
              /\ accounts[a].owner = MetadataProgram
              /\ a = AttributesPda(accounts[a].data.mint)

AccountsComplete == Complete(ledger)

\* An account of the program holds the minimum rent of its own size, which the
\* handler computes and the payer transfers before the data is written.
Paid(accounts) ==
    \A a \in Address :
        accounts[a].owner = MetadataProgram =>
            accounts[a].lamports >= MinimumRent[DataLen(accounts[a].data)]

RentPaid == Paid(ledger)

\* Beside attributes there is the metadata of their mint, and beside metadata an
\* initialised mint of the token program.  Of the accounts of Programs, that is: the
\* attributes handlers check neither owner nor address of the metadata they are given.
Backed(accounts) ==
    \A m \in Mints :
        /\ AttributesExist(accounts, m) => MetadataExists(accounts, m)
        /\ MetadataExists(accounts, m) => HoldsMint(accounts, m)
        /\ HoldsMint(accounts, m) => accounts[m].owner = TokenProgram

\* The caps checked before a write are enough for pack_into_slice: its copy never
\* runs past the account, which would abort the transaction with a panic.
NeverPanics == outcome # "Panicked"

\* No text over its cap is ever stored, nor held by an open transaction, though an update
\* checks only the fields it is given and keeps the others unchecked; nor are more entries
\* than the program takes, or one that is empty or too long, wherever it stands in a list.
WithinCaps(data) ==
    /\ data.kind = "metadata" => ~TextTooLong(data.text)
    /\ data.kind = "attributes" =>
          /\ ~TooManyEntries(data.entries)
          /\ \A i \in DOMAIN data.entries :
                ~EntryEmpty(data.entries[i]) /\ ~EntryTooLong(data.entries[i])

FitTexts(accounts) == \A a \in Address : WithinCaps(accounts[a].data)

TextsFit == FitTexts(ledger) /\ FitTexts(bank)

TokenUnchanged(m) ==
    /\ ledger'[MetadataPda(m)] = ledger[MetadataPda(m)]
    /\ ledger'[AttributesPda(m)] = ledger[AttributesPda(m)]

\* MakeImmutable, and creation with `immutable', are irreversible: from then on
\* no transaction changes the metadata or its attributes, or adds attributes.
ImmutableForever ==
    [][\A m \in Mints :
          MetadataExists(ledger, m) /\ Authority(ledger, m) = NoKey => TokenUnchanged(m)]_vars

\* Metadata and attributes change only in a transaction signed by the update
\* authority stored before the transaction, also when authority moves between
\* its instructions, when the mint's authorities sign, or when metadata or
\* attributes of the mint are created again.
ChangesAuthorised ==
    [][\A m \in Mints :
          MetadataExists(ledger, m) /\ ~TokenUnchanged(m) => Authority(ledger, m) \in signers]_vars

\* Metadata for a committed mint appears only in a transaction signed by its mint
\* authority or, when the mint has none, by its freeze authority: a signature of
\* the freeze authority alone does not do while there is a mint authority.
CreationAuthorised ==
    [][\A m \in Mints :
          /\ HoldsMint(ledger, m)
          /\ ~MetadataExists(ledger, m)
          /\ MetadataExists(ledger', m)
          => CreationAuthority(ledger, m) \in signers]_vars

-----------------------------------------------------------------------------
(* Refinement: the committed accounts as a registry of tokens *)

RegisteredMints(accounts) ==
    [m \in {n \in Mints : HoldsMint(accounts, n)} |->
       [mint_authority |-> accounts[m].data.mint_authority,
        freeze_authority |-> accounts[m].data.freeze_authority]]

RegisteredMetadata(accounts) ==
    [m \in {n \in Mints : MetadataExists(accounts, n)} |->
       [text |-> accounts[MetadataPda(m)].data.text,
        update_authority |-> accounts[MetadataPda(m)].data.update_authority]]

RegisteredAttributes(accounts) ==
    [m \in {n \in Mints : AttributesExist(accounts, n)} |->
       accounts[AttributesPda(m)].data.entries]

Registry == INSTANCE TokenRegistry WITH
    Contents <- [Field -> Text],
    Lists <- Seq(Entry),
    mints <- RegisteredMints(ledger),
    metadata <- RegisteredMetadata(ledger),
    attributes <- RegisteredAttributes(ledger)

\* The program keeps the promises of TokenRegistry: seen through the committed
\* accounts, every transaction is one lawful step of its signers, however many
\* instructions it has, in whatever order and with whatever accounts.
ImplementsRegistry == Registry!Spec

-----------------------------------------------------------------------------
(* The inductive invariant *)

\* Accounts as every transaction leaves them.
Legal(A) ==
    /\ A \in [Address -> Account]
    /\ Complete(A)
    /\ Paid(A)
    /\ Backed(A)

\* From A to B nothing is removed, no freeze authority changes, and a mint changes
\* only if its mint authority is in S.
Kept(A, S, B) ==
    \A m \in Mints :
        /\ MetadataExists(A, m) => MetadataExists(B, m)
        /\ AttributesExist(A, m) => AttributesExist(B, m)
        /\ HoldsMint(A, m) =>
              /\ HoldsMint(B, m)
              /\ B[m].data.freeze_authority = A[m].data.freeze_authority
              /\ MintAuthority(A, m) \notin S => B[m].data = A[m].data

\* ... and a token changes only if the key that controls it is in S: the update
\* authority once there is metadata, the creation authority before.
Controlled(A, S, B) ==
    /\ Kept(A, S, B)
    /\ \A m \in Mints :
          /\ MetadataExists(A, m) /\ Authority(A, m) \notin S =>
                /\ B[MetadataPda(m)] = A[MetadataPda(m)]
                /\ B[AttributesPda(m)] = A[AttributesPda(m)]
          /\ HoldsMint(A, m) /\ ~MetadataExists(A, m) /\ CreationAuthority(A, m) \notin S =>
                /\ B[m].data = A[m].data
                /\ ~MetadataExists(B, m)

\* What every step relies on: the committed accounts and those of the open
\* transaction are both legal, the transaction has so far changed only what its
\* signers control, and between transactions nothing is pending.
IInv ==
    /\ TypeOK
    /\ Legal(ledger)
    /\ Legal(bank)
    /\ Controlled(ledger, signers, bank)
    /\ ~Open => bank = ledger /\ executed = 0 /\ signers = {}
=============================================================================
