------------------------- MODULE SdkTransactionsProofs -------------------------
(***************************************************************************)
(* Proofs about SdkTransactions, for every set of calls, texts of any      *)
(* length, keys and rents.                                                 *)
(*                                                                         *)
(* First, what the validators accept, no handler refuses for its size: a   *)
(* size error is traced back to the check that gave it, the check to the   *)
(* instruction, the instruction to the parameters the validators saw.      *)
(*                                                                         *)
(* Second, a built transaction works exactly when it should, and then does *)
(* what it is for.  For each handler there is a lemma that says when all   *)
(* its checks pass on accounts that are as transactions leave them         *)
(* (...Works); for each instruction of each builder one that says that it  *)
(* carries the call one step on (...Carries): it passes if the rest of the *)
(* call can be done, and asks no more and no less of what comes after it   *)
(* (Rest), with what has been done so far as it should be (Achieved).      *)
(*                                                                         *)
(* Last, TypeScriptClient: a transaction of the TypeScript builders is     *)
(* refused for a size only if one of its strings has more bytes than       *)
(* UTF-16 units.                                                           *)
(***************************************************************************)
EXTENDS TypeScriptClient, MetadataNodeProofs

\* The instructions of a call carry the text and the entries the validators saw.
LEMMA CarriesParameters ==
    ASSUME NEW c, c.builder \in Builders, NEW i \in DOMAIN BuiltInstructions(c)
    PROVE  LET ix == BuiltInstructions(c)[i]
           IN  /\ ix.op \in TextOps => ix.text = Texts(c)
               /\ ix.op \in EntryOps => ix.entries = Entries(c)
  <1> USE DEF TextOps, EntryOps, Texts, Entries, BuiltInstructions, Creates, WithAttributes,
      Transfers,
      create_metadata_ix, update_metadata_ix, create_attributes_ix, replace_attributes_ix,
      transfer_authority_ix, make_immutable_ix, create_mint_account_ix, initialize_mint2_ix,
      set_mint_authority_ix
  <1>1. CASE c.builder = "create_token_with_metadata"
    BY <1>1 DEF create_token_with_metadata_tx
  <1>2. CASE c.builder = "create_token_with_metadata_and_attributes"
    <2> DEFINE a1 == create_mint_account_ix(c.p.payer, c.p.mint)
               a2 == initialize_mint2_ix(c.p.mint, c.p.mint_authority, c.p.freeze_authority)
               a3 == create_metadata_ix(c.p.payer, c.p.mint, c.p.mint_authority, c.p.text,
                                        c.p.immutable)
               a4 == create_attributes_ix(c.p.payer, c.p.mint, c.p.mint_authority,
                                          c.p.attributes)
    <2>1. BuiltInstructions(c) = Append(<<a1, a2, a3>>, a4)
      BY <1>2 DEF create_token_with_metadata_and_attributes_tx, create_token_with_metadata_tx
    <2>2. /\ a1.op = "CreateMintAccount" /\ a2.op = "InitializeMint2"
          /\ a3.op = "CreateMetadata" /\ a3.text = c.p.text
          /\ a4.op = "CreateAttributes" /\ a4.entries = c.p.attributes
      OBVIOUS
    <2>3. Texts(c) = c.p.text /\ Entries(c) = c.p.attributes
      BY <1>2
    <2> HIDE DEF a1, a2, a3, a4, Texts, Entries, BuiltInstructions
    <2>4. <<a1, a2, a3>> \in Seq({a1, a2, a3, a4}) /\ Len(<<a1, a2, a3>>) = 3
      OBVIOUS
    <2>5. /\ DOMAIN BuiltInstructions(c) = 1..4
          /\ BuiltInstructions(c)[1] = a1 /\ BuiltInstructions(c)[2] = a2
          /\ BuiltInstructions(c)[3] = a3 /\ BuiltInstructions(c)[4] = a4
      BY <2>1, <2>4
    <2> DEFINE ix == BuiltInstructions(c)[i]
    <2>6. ix = a1 \/ ix = a2 \/ ix = a3 \/ ix = a4
      BY <2>5
    <2> HIDE DEF ix
    <2> QED
      BY <2>2, <2>3, <2>6 DEF ix
  <1>3. CASE c.builder = "create_token_with_freeze_auth_metadata"
    BY <1>3 DEF create_token_with_freeze_auth_metadata_tx
  <1>4. CASE c.builder = "create_attributes"
    BY <1>4 DEF create_attributes_tx
  <1>5. CASE c.builder = "replace_attributes"
    BY <1>5 DEF replace_attributes_tx
  <1>6. CASE c.builder = "transfer_authority_then_update"
    BY <1>6 DEF transfer_authority_then_update_tx
  <1>7. CASE c.builder = "make_immutable"
    BY <1>7 DEF make_immutable_tx
  <1> QED
    BY <1>1, <1>2, <1>3, <1>4, <1>5, <1>6, <1>7 DEF Builders

\* A transaction refused for a size has an instruction of its call that is oversize.
LEMMA RefusedIsOversize ==
    ASSUME IInv, NodeTypeOK, executed \in Nat, [NodeNext]_nodeVars, RefusedForSize
    PROVE  LET c == running.call
           IN  \/ Texts(c) \in PartialText /\ TextTooLong(Texts(c))
               \/ Entries(c) \in Seq(Entry) /\ EntriesRefused(Entries(c))
  <1>1. running \in Transactions /\ running # NoTx /\ running' = NoTx
    BY DEF RefusedForSize, Ends, NodeTypeOK
  <1>2. Advance
    <2>1. ~ UNCHANGED nodeVars
      BY <1>1 DEF nodeVars, node
    <2>2. ASSUME NEW tx \in Transactions, Receive(tx) PROVE FALSE
      BY <1>1, <2>2 DEF Receive
    <2>3. ASSUME NEW tx \in pending, Start(tx) PROVE FALSE
      BY <1>1, <2>3 DEF Start
    <2>4. ASSUME Finish PROVE FALSE
      BY <2>4 DEF Finish, Commit, RefusedForSize, SizeErrors
    <2> QED
      BY <2>1, <2>2, <2>3, <2>4 DEF NodeNext, Work
  <1> DEFINE c == running.call
             n == executed + 1
             ix == BuiltInstructions(c)[n]
  <1>3. /\ c.builder \in Builders /\ running.instructions = BuiltInstructions(c)
        /\ n \in DOMAIN BuiltInstructions(c) /\ ix \in Instructions
    <2>1. executed < Len(running.instructions)
      BY <1>2 DEF Advance
    <2>2. running.instructions \in Seq(Instructions)
      BY <1>1, TransactionsAssumption
    <2> QED
      BY <1>1, <2>1, <2>2, CallsAssumption DEF TransactionOf
  <1>4. Oversize(ix)
    <2>1. outcome' \in OfSizes /\ outcome' \in Errors
      BY DEF RefusedForSize, SizeErrors, OfSizes, Errors
    <2>2. Run(ix)
      BY <1>2, <1>3 DEF Advance
    <2>3. RefusedFor(ix, signers, outcome')
      BY <1>3, <2>1, <2>2, RefusalMeans
    <2> QED
      BY <2>1, <2>3 DEF RefusedFor
  <1>5. /\ ix.op \in TextOps => ix.text = Texts(c)
        /\ ix.op \in EntryOps => ix.entries = Entries(c)
    BY <1>3, CarriesParameters
  <1> HIDE DEF ix, c
  <1> QED
    BY <1>3, <1>4, <1>5, MeasuredTyped DEF Oversize, c

\* What the Rust SDK's validators accept, the program never refuses for its size.
THEOREM ValidatedIsAccepted == NodeSafety => ValidatedNotOversize
  <1>1. ASSUME IInv, NodeTypeOK, executed \in Nat, [NodeNext]_nodeVars
        PROVE  RefusedForSize => ~Accepted(running.call)
    <2> SUFFICES ASSUME RefusedForSize PROVE ~Accepted(running.call)
      OBVIOUS
    <2> DEFINE c == running.call
    <2>1. \/ Texts(c) \in PartialText /\ TextTooLong(Texts(c))
          \/ Entries(c) \in Seq(Entry) /\ EntriesRefused(Entries(c))
      BY <1>1, RefusedIsOversize
    <2>2. Texts(c) \in PartialText /\ TextTooLong(Texts(c))
            => ~validate_metadata_fields(Texts(c))
      BY MetadataValidatorExact
    <2>3. Entries(c) \in Seq(Entry) /\ EntriesRefused(Entries(c))
            => ~validate_attributes(Entries(c))
      BY AttributesValidatorExact
    <2> QED
      BY <2>1, <2>2, <2>3 DEF Accepted
  <1>2. NodeSafety => [](IInv /\ NodeTypeOK /\ executed \in Nat)
    <2>1. TypeOK => executed \in Nat
      BY MaxInstructionsAssumption DEF TypeOK
    <2> QED
      BY <2>1, NodeInvariants, NodeRunsLedger, TypeCorrect, PTL
  <1> QED
    BY <1>1, <1>2, PTL DEF NodeSafety, ValidatedNotOversize

-----------------------------------------------------------------------------
(* When an instruction of a builder works *)

\* Checks of which only the last panics pass when all the others do, if none panics.
LEMMA OthersDecide ==
    ASSUME NEW n \in Nat, NEW checks, DOMAIN checks = 1..n, checks[n].error = "Panicked",
           ~Passes(checks) => FirstError(checks) # "Panicked",
           \A j \in 1..n : j < n => ~checks[j].fails
    PROVE  Passes(checks)
  <1> SUFFICES ASSUME ~Passes(checks) PROVE FALSE
    OBVIOUS
  <1>1. PICK i \in 1..n : checks[i].fails /\ FirstError(checks) = checks[i].error
    BY FirstErrorIsOfACheck
  <1>2. i = n
    BY <1>1
  <1> QED
    BY <1>1, <1>2

\* What is at the two addresses of a token, before and after the program creates it.
LEMMA Derived ==
    ASSUME NEW A, Legal(A), Unclaimed(A), NEW m \in Mints
    PROVE  /\ IF MetadataExists(A, m) THEN AlreadyInitialized(A, MetadataPda(m))
              ELSE NeedsCreation(A, MetadataPda(m)) /\ A[MetadataPda(m)] = Vacant
           /\ IF AttributesExist(A, m) THEN AlreadyInitialized(A, AttributesPda(m))
              ELSE NeedsCreation(A, AttributesPda(m)) /\ A[AttributesPda(m)] = Vacant
           /\ MetadataExists(A, m) => MetadataIsOfMint(A, MetadataPda(m), m)
           /\ MetadataExists(A, m) => A[MetadataPda(m)].data \in TokenMetadata
           /\ AttributesExist(A, m) => A[AttributesPda(m)].data \in TokenMetadataAttributes
  <1>1. /\ MetadataPda(m) \in Address /\ AttributesPda(m) \in Address
        /\ \A a : MetadataPda(m) # AttributesPda(a) /\ AttributesPda(m) # MetadataPda(a)
        /\ \A a : MetadataPda(a) = MetadataPda(m) => a = m
    BY DerivedAddresses
  <1>2. A \in [Address -> Account] /\ Complete(A)
    BY DEF Legal
  <1>3. \A a \in {MetadataPda(m), AttributesPda(m)} : NeedsCreation(A, a) => A[a] = Vacant
    BY DEF Unclaimed
  <1>4. MetadataExists(A, m) => AlreadyInitialized(A, MetadataPda(m))
                                  /\ MetadataIsOfMint(A, MetadataPda(m), m)
    BY <1>1, <1>2 DEF Complete, MetadataExists, HoldsMetadata, AlreadyInitialized,
                      NeedsCreation, FirstByteSet, MetadataIsOfMint
  <1>5. AttributesExist(A, m) => AlreadyInitialized(A, AttributesPda(m))
    BY <1>1, <1>2 DEF Complete, AttributesExist, HoldsAttributes, AlreadyInitialized,
                      NeedsCreation, FirstByteSet
  <1>6. ~MetadataExists(A, m) => NeedsCreation(A, MetadataPda(m))
    BY <1>1, <1>2 DEF Complete, MetadataExists, NeedsCreation
  <1>7. ~AttributesExist(A, m) => NeedsCreation(A, AttributesPda(m))
    BY <1>1, <1>2 DEF Complete, AttributesExist, NeedsCreation
  <1>8. /\ MetadataExists(A, m) => A[MetadataPda(m)].data \in TokenMetadata
        /\ AttributesExist(A, m) => A[AttributesPda(m)].data \in TokenMetadataAttributes
    BY <1>1, <1>2, TypedData DEF MetadataExists, AttributesExist
  <1> QED
    BY <1>3, <1>4, <1>5, <1>6, <1>7, <1>8

\* A key that is there is accepted exactly when the token is its own.
LEMMA AcceptedControls ==
    ASSUME NEW A, NEW m, NEW k \in Keys
    PROVE  AuthorityAccepted(A, MetadataPda(m), k) <=> Controls(A, m, k)
  BY DerivedAddresses DEF AuthorityAccepted, Controls, Authority, UpdateAuthority, MetadataExists

LEMMA CreateMintAccountWorks ==
    ASSUME NEW A, NEW S, NEW ix, SignerMetas(ix) \subseteq S, ix.op = "CreateMintAccount"
    PROVE  Passes(CreateMintAccountChecks(A, S, ix)) <=>
              A[ix.mint] = Vacant /\ CanPay(A, ix.payer, MinimumRent[MINT_LEN])
  <1> DEFINE checks == CreateMintAccountChecks(A, S, ix)
  <1>1. ix.payer \in S /\ ix.mint \in S
    BY DEF SignerMetas
  <1>2. DOMAIN checks = 1..3 /\ ~checks[1].fails
    <2>1. DOMAIN checks = 1..3
      BY DEF CreateMintAccountChecks
    <2>2. ~checks[1].fails
      BY <1>1 DEF CreateMintAccountChecks, Check
    <2> QED
      BY <2>1, <2>2
  <1>3. /\ A[ix.mint] = Vacant => ~checks[2].fails
        /\ CanPay(A, ix.payer, MinimumRent[MINT_LEN]) => ~checks[3].fails
    BY DEF CreateMintAccountChecks, Check, InUse
  <1> HIDE DEF checks
  <1>4. ~checks[2].fails /\ ~checks[3].fails => Passes(checks)
    BY <1>2 DEF Passes
  <1> QED
    BY <1>3, <1>4, CreateMintAccountGuards DEF checks, InUse

LEMMA InitializeMint2Works ==
    ASSUME NEW A, NEW ix
    PROVE  Passes(InitializeMint2Checks(A, ix)) <=>
              A[ix.mint].owner = TokenProgram /\ ~HoldsMint(A, ix.mint)
  <1> DEFINE checks == InitializeMint2Checks(A, ix)
  <1>1. DOMAIN checks = 1..2
    BY DEF InitializeMint2Checks
  <1>2. /\ A[ix.mint].owner = TokenProgram => ~checks[1].fails
        /\ ~HoldsMint(A, ix.mint) => ~checks[2].fails
    BY DEF InitializeMint2Checks, Check
  <1> HIDE DEF checks
  <1>3. ~checks[1].fails /\ ~checks[2].fails => Passes(checks)
    BY <1>1 DEF Passes
  <1> QED
    BY <1>2, <1>3, InitializeMint2Guards DEF checks

LEMMA SetMintAuthorityWorks ==
    ASSUME NEW A, NEW S \in SUBSET Keys, NEW ix, ix.authority \in S
    PROVE  Passes(SetMintAuthorityChecks(A, S, ix)) <=>
              HoldsMint(A, ix.mint) /\ A[ix.mint].data.mint_authority = ix.authority
  <1> DEFINE checks == SetMintAuthorityChecks(A, S, ix)
  <1>1. ix.authority # NoKey
    BY DerivedAddresses
  <1>2. DOMAIN checks = 1..4 /\ ~checks[4].fails
    <2>1. DOMAIN checks = 1..4
      BY DEF SetMintAuthorityChecks
    <2>2. ~checks[4].fails
      BY DEF SetMintAuthorityChecks, Check
    <2> QED
      BY <2>1, <2>2
  <1>3. HoldsMint(A, ix.mint) => MintAuthority(A, ix.mint) = A[ix.mint].data.mint_authority
    BY DEF MintAuthority
  <1>4. HoldsMint(A, ix.mint) /\ MintAuthority(A, ix.mint) = ix.authority =>
          ~checks[1].fails /\ ~checks[2].fails /\ ~checks[3].fails
    BY <1>1 DEF SetMintAuthorityChecks, Check
  <1> HIDE DEF checks
  <1>5. ~checks[1].fails /\ ~checks[2].fails /\ ~checks[3].fails => Passes(checks)
    BY <1>2 DEF Passes
  <1> QED
    BY <1>3, <1>4, <1>5, SetMintAuthorityGuards DEF checks

LEMMA AuthorityChangeWorks ==
    ASSUME NEW A, NEW S \in SUBSET Keys, NEW ix, ix.authority \in S, NEW m,
           ix.metadata = MetadataPda(m)
    PROVE  Passes(AuthorityChangeChecks(A, S, ix)) <=> Controls(A, m, ix.authority)
  <1> DEFINE checks == AuthorityChangeChecks(A, S, ix)
  <1>1. AuthorityAccepted(A, ix.metadata, ix.authority) <=> Controls(A, m, ix.authority)
    BY AcceptedControls
  <1>2. Controls(A, m, ix.authority) => HoldsMetadata(A, ix.metadata)
    BY DEF Controls, MetadataExists
  <1>3. DOMAIN checks = 1..3 /\ ~checks[1].fails
    <2>1. DOMAIN checks = 1..3
      BY DEF AuthorityChangeChecks
    <2>2. ~checks[1].fails
      BY DEF AuthorityChangeChecks, Check
    <2> QED
      BY <2>1, <2>2
  <1>4. /\ HoldsMetadata(A, ix.metadata) => ~checks[2].fails
        /\ AuthorityAccepted(A, ix.metadata, ix.authority) => ~checks[3].fails
    BY DEF AuthorityChangeChecks, Check
  <1> HIDE DEF checks
  <1>5. ~checks[2].fails /\ ~checks[3].fails => Passes(checks)
    BY <1>3 DEF Passes
  <1> QED
    BY <1>1, <1>2, <1>4, <1>5, AuthorityChangeGuards DEF checks

LEMMA UpdateMetadataWorks ==
    ASSUME NEW A, Legal(A), FitTexts(A), NEW S \in SUBSET Keys, NEW ix \in Sent("UpdateMetadata"),
           ix.authority \in S, NEW m, ix.metadata = MetadataPda(m)
    PROVE  Passes(UpdateMetadataChecks(A, S, ix)) <=>
              Controls(A, m, ix.authority) /\ ~TextTooLong(ix.text)
  <1>1. AuthorityAccepted(A, ix.metadata, ix.authority) <=> Controls(A, m, ix.authority)
    BY AcceptedControls
  <1>2. Controls(A, m, ix.authority) => HoldsMetadata(A, ix.metadata)
    BY DEF Controls, MetadataExists
  <1>3. ASSUME Controls(A, m, ix.authority), ~TextTooLong(ix.text)
        PROVE  Passes(UpdateMetadataChecks(A, S, ix))
    <2> DEFINE checks == UpdateMetadataChecks(A, S, ix)
    <2>1. DOMAIN checks = 1..5 /\ checks[5].error = "Panicked"
      BY DEF UpdateMetadataChecks, Check
    <2>2. ~checks[1].fails /\ ~checks[2].fails /\ ~checks[3].fails /\ ~checks[4].fails
      BY <1>1, <1>2, <1>3 DEF UpdateMetadataChecks, Check
    <2>3. ~Passes(checks) => FirstError(checks) # "Panicked"
      BY UpdateMetadataNoPanic
    <2> HIDE DEF checks
    <2>4. \A j \in 1..5 : j < 5 => ~checks[j].fails
      BY <2>2
    <2>5. Passes(checks)
      BY <2>1, <2>3, <2>4, OthersDecide
    <2> QED
      BY <2>5 DEF checks
  <1> QED
    BY <1>1, <1>3, UpdateMetadataGuards

LEMMA CreateMetadataWorks ==
    ASSUME NEW A, Legal(A), Unclaimed(A), NEW S \in SUBSET Keys, NEW ix \in Sent("CreateMetadata"),
           SignerMetas(ix) \subseteq S, ix.mint \in Mints, ix.metadata = MetadataPda(ix.mint),
           ix.system_program = SystemProgram
    PROVE  Passes(CreateMetadataChecks(A, S, ix)) <=>
              /\ CreationAuthority(A, ix.mint) = ix.authority
              /\ ~TextTooLong(ix.text)
              /\ ~MetadataExists(A, ix.mint)
              /\ CanPay(A, ix.payer, MinimumRent[TOKEN_METADATA_MAX_LEN])
  <1>1. ix.payer \in S /\ ix.authority \in S
    BY DEF SignerMetas, Sent
  <1>2. ix.authority # NoKey
    BY <1>1, DerivedAddresses
  <1>3. CreationAuthorityAccepted(A, ix.mint, ix.authority)
          <=> CreationAuthority(A, ix.mint) = ix.authority
    BY <1>2 DEF CreationAuthorityAccepted
  <1>4. CreationAuthority(A, ix.mint) = ix.authority => HoldsMint(A, ix.mint)
    BY <1>2 DEF CreationAuthority
  <1>5. HoldsMint(A, ix.mint) => A[ix.mint].owner = TokenProgram
    BY DEF Legal, Backed
  <1>6. IF MetadataExists(A, ix.mint) THEN AlreadyInitialized(A, ix.metadata)
        ELSE NeedsCreation(A, ix.metadata) /\ A[ix.metadata] = Vacant
    BY Derived
  <1>7. ASSUME CreationAuthority(A, ix.mint) = ix.authority, ~TextTooLong(ix.text),
               ~MetadataExists(A, ix.mint),
               CanPay(A, ix.payer, MinimumRent[TOKEN_METADATA_MAX_LEN])
        PROVE  Passes(CreateMetadataChecks(A, S, ix))
    <2> DEFINE checks == CreateMetadataChecks(A, S, ix)
    <2>1. DOMAIN checks = 1..12 /\ checks[12].error = "Panicked"
      BY DEF CreateMetadataChecks, Check
    <2>2. ~checks[1].fails /\ ~checks[2].fails /\ ~checks[3].fails
      BY <1>3, <1>4, <1>5, <1>7 DEF CreateMetadataChecks, Check
    <2>3. ~checks[4].fails /\ ~checks[5].fails /\ ~checks[6].fails /\ ~checks[7].fails
      BY <1>1, <1>7 DEF CreateMetadataChecks, Check
    <2>4. ~checks[8].fails /\ ~checks[9].fails /\ ~checks[10].fails /\ ~checks[11].fails
      BY <1>1, <1>6, <1>7
      DEF CreateMetadataChecks, Check, InUse, CannotPay, AlreadyInitialized
    <2>5. ~Passes(checks) => FirstError(checks) # "Panicked"
      BY CreateMetadataNoPanic
    <2> HIDE DEF checks
    <2>6. \A j \in 1..12 : j < 12 => ~checks[j].fails
      BY <2>2, <2>3, <2>4
    <2>7. Passes(checks)
      BY <2>1, <2>5, <2>6, OthersDecide
    <2> QED
      BY <2>7 DEF checks
  <1>8. ASSUME Passes(CreateMetadataChecks(A, S, ix))
        PROVE  /\ CreationAuthority(A, ix.mint) = ix.authority
               /\ ~TextTooLong(ix.text)
               /\ ~MetadataExists(A, ix.mint)
               /\ CanPay(A, ix.payer, MinimumRent[TOKEN_METADATA_MAX_LEN])
    BY <1>3, <1>6, <1>8, CreateMetadataGuards
  <1> QED
    BY <1>7, <1>8

LEMMA CreateAttributesWorks ==
    ASSUME NEW A, Legal(A), Unclaimed(A), NEW S \in SUBSET Keys,
           NEW ix \in Sent("CreateAttributes"), SignerMetas(ix) \subseteq S, ix.mint \in Mints,
           ix.metadata = MetadataPda(ix.mint), ix.attributes = AttributesPda(ix.mint),
           ix.system_program = SystemProgram
    PROVE  Passes(CreateAttributesChecks(A, S, ix)) <=>
              /\ Controls(A, ix.mint, ix.authority)
              /\ ~EntriesRefused(ix.entries)
              /\ ~AttributesExist(A, ix.mint)
              /\ CanPay(A, ix.payer, MinimumRent[TOKEN_METADATA_ATTRIBUTES_MAX_LEN])
  <1>1. ix.payer \in S /\ ix.authority \in S
    BY DEF SignerMetas, Sent
  <1>2. AuthorityAccepted(A, ix.metadata, ix.authority) <=> Controls(A, ix.mint, ix.authority)
    BY <1>1, AcceptedControls
  <1>3. Controls(A, ix.mint, ix.authority) => MetadataIsOfMint(A, ix.metadata, ix.mint)
    BY Derived DEF Controls
  <1>4. IF AttributesExist(A, ix.mint) THEN AlreadyInitialized(A, ix.attributes)
        ELSE NeedsCreation(A, ix.attributes) /\ A[ix.attributes] = Vacant
    BY Derived
  <1>5. ASSUME Controls(A, ix.mint, ix.authority), ~EntriesRefused(ix.entries),
               ~AttributesExist(A, ix.mint),
               CanPay(A, ix.payer, MinimumRent[TOKEN_METADATA_ATTRIBUTES_MAX_LEN])
        PROVE  Passes(CreateAttributesChecks(A, S, ix))
    <2> DEFINE checks == CreateAttributesChecks(A, S, ix)
    <2>1. DOMAIN checks = 1..14 /\ checks[14].error = "Panicked"
      BY DEF CreateAttributesChecks, Check
    <2>2. ~checks[1].fails /\ ~checks[2].fails /\ ~checks[3].fails /\ ~checks[4].fails
      BY <1>1, <1>2, <1>3, <1>5 DEF CreateAttributesChecks, Check
    <2>3. ~checks[5].fails /\ ~checks[6].fails /\ ~checks[7].fails /\ ~checks[8].fails
      BY <1>5 DEF CreateAttributesChecks, Check, EntriesRefused
    <2>4. ~checks[9].fails /\ ~checks[10].fails /\ ~checks[11].fails
      BY <1>1, <1>4, <1>5 DEF CreateAttributesChecks, Check, InUse, CannotPay
    <2>5. ~checks[12].fails /\ ~checks[13].fails
      BY <1>4, <1>5 DEF CreateAttributesChecks, Check, AlreadyInitialized
    <2>6. ~Passes(checks) => FirstError(checks) # "Panicked"
      BY CreateAttributesNoPanic
    <2> HIDE DEF checks
    <2>7. \A j \in 1..14 : j < 14 => ~checks[j].fails
      BY <2>2, <2>3, <2>4, <2>5
    <2>8. Passes(checks)
      BY <2>1, <2>6, <2>7, OthersDecide
    <2> QED
      BY <2>8 DEF checks
  <1>6. ASSUME Passes(CreateAttributesChecks(A, S, ix))
        PROVE  /\ Controls(A, ix.mint, ix.authority)
               /\ ~EntriesRefused(ix.entries)
               /\ ~AttributesExist(A, ix.mint)
               /\ CanPay(A, ix.payer, MinimumRent[TOKEN_METADATA_ATTRIBUTES_MAX_LEN])
    <2> DEFINE checks == CreateAttributesChecks(A, S, ix)
    <2>1. DOMAIN checks = 1..14
      BY DEF CreateAttributesChecks
    <2>2. ~checks[5].fails /\ ~checks[6].fails /\ ~checks[7].fails
      BY <1>6, <2>1 DEF Passes
    <2>3. ~EntriesRefused(ix.entries)
      BY <2>2 DEF CreateAttributesChecks, Check, EntriesRefused
    <2> QED
      BY <1>2, <1>4, <1>6, <2>3, CreateAttributesGuards
  <1> QED
    BY <1>5, <1>6

LEMMA ReplaceAttributesWorks ==
    ASSUME NEW A, Legal(A), Unclaimed(A), NEW S \in SUBSET Keys,
           NEW ix \in Sent("ReplaceAttributes"), ix.authority \in S, NEW m \in Mints,
           ix.metadata = MetadataPda(m), ix.attributes = AttributesPda(m)
    PROVE  Passes(ReplaceAttributesChecks(A, S, ix)) <=>
              /\ Controls(A, m, ix.authority)
              /\ AttributesExist(A, m)
              /\ ~EntriesRefused(ix.entries)
  <1>1. AuthorityAccepted(A, ix.metadata, ix.authority) <=> Controls(A, m, ix.authority)
    BY AcceptedControls
  <1>2. Controls(A, m, ix.authority) =>
           HoldsMetadata(A, ix.metadata) /\ ix.attributes = AttributesOf(A, ix.metadata)
    BY Derived DEF Controls, MetadataExists, AttributesOf, MetadataIsOfMint
  <1>3. ASSUME Controls(A, m, ix.authority), AttributesExist(A, m), ~EntriesRefused(ix.entries)
        PROVE  Passes(ReplaceAttributesChecks(A, S, ix))
    <2> DEFINE checks == ReplaceAttributesChecks(A, S, ix)
    <2>1. DOMAIN checks = 1..9 /\ checks[9].error = "Panicked"
      BY DEF ReplaceAttributesChecks, Check
    <2>2. ~checks[1].fails /\ ~checks[2].fails /\ ~checks[3].fails /\ ~checks[4].fails
      BY <1>1, <1>2, <1>3 DEF ReplaceAttributesChecks, Check
    <2>3. ~checks[5].fails /\ ~checks[6].fails /\ ~checks[7].fails /\ ~checks[8].fails
      BY <1>3 DEF ReplaceAttributesChecks, Check, EntriesRefused, AttributesExist
    <2>4. ~Passes(checks) => FirstError(checks) # "Panicked"
      BY ReplaceAttributesNoPanic
    <2> HIDE DEF checks
    <2>5. \A j \in 1..9 : j < 9 => ~checks[j].fails
      BY <2>2, <2>3
    <2>6. Passes(checks)
      BY <2>1, <2>4, <2>5, OthersDecide
    <2> QED
      BY <2>6 DEF checks
  <1>4. ASSUME Passes(ReplaceAttributesChecks(A, S, ix))
        PROVE  Controls(A, m, ix.authority) /\ AttributesExist(A, m) /\ ~EntriesRefused(ix.entries)
    <2> DEFINE checks == ReplaceAttributesChecks(A, S, ix)
    <2>1. DOMAIN checks = 1..9
      BY DEF ReplaceAttributesChecks
    <2>2. ~checks[6].fails /\ ~checks[7].fails /\ ~checks[8].fails
      BY <1>4, <2>1 DEF Passes
    <2>3. ~EntriesRefused(ix.entries)
      BY <2>2 DEF ReplaceAttributesChecks, Check, EntriesRefused
    <2> QED
      BY <1>1, <1>4, <2>3, ReplaceAttributesGuards DEF AttributesExist
  <1> QED
    BY <1>3, <1>4

-----------------------------------------------------------------------------
(* What the builders list *)

LEMMA TokenListing ==
    ASSUME NEW c, Creates(c)
    PROVE  LET ixs == BuiltInstructions(c)
           IN  /\ Len(ixs) = IF WithAttributes(c) THEN 4 ELSE MintSteps(c) + 1
               /\ ixs[1] = create_mint_account_ix(c.p.payer, c.p.mint)
               /\ ixs[2] = initialize_mint2_ix(c.p.mint, MintAuthorityAt(c, 2),
                                               c.p.freeze_authority)
               /\ Frozen(c) =>
                    ixs[3] = set_mint_authority_ix(c.p.mint, c.p.initial_mint_authority, NoKey)
               /\ ixs[MintSteps(c) + 1] =
                    create_metadata_ix(c.p.payer, c.p.mint,
                                       Creator(c),
                                       c.p.text, c.p.immutable)
               /\ WithAttributes(c) =>
                    ixs[4] = create_attributes_ix(c.p.payer, c.p.mint, c.p.mint_authority,
                                                  c.p.attributes)
  <1>1. CASE c.builder = "create_token_with_metadata"
    <2>1. BuiltInstructions(c) = create_token_with_metadata_tx(c.p)
      BY <1>1 DEF BuiltInstructions
    <2>2. ~Frozen(c) /\ ~WithAttributes(c) /\ MintSteps(c) = 2
      BY <1>1 DEF Frozen, WithAttributes, MintSteps
    <2> QED
      BY <1>1, <2>1, <2>2 DEF create_token_with_metadata_tx, MintAuthorityAt, Creator, Frozen
  <1>2. CASE c.builder = "create_token_with_metadata_and_attributes"
    <2> DEFINE a1 == create_mint_account_ix(c.p.payer, c.p.mint)
               a2 == initialize_mint2_ix(c.p.mint, c.p.mint_authority, c.p.freeze_authority)
               a3 == create_metadata_ix(c.p.payer, c.p.mint, c.p.mint_authority, c.p.text,
                                        c.p.immutable)
               a4 == create_attributes_ix(c.p.payer, c.p.mint, c.p.mint_authority,
                                          c.p.attributes)
    <2>1. BuiltInstructions(c) = Append(<<a1, a2, a3>>, a4)
      BY <1>2 DEF BuiltInstructions, create_token_with_metadata_and_attributes_tx,
                  create_token_with_metadata_tx
    <2>2. ~Frozen(c) /\ WithAttributes(c) /\ MintSteps(c) = 2
      BY <1>2 DEF Frozen, WithAttributes, MintSteps
    <2> HIDE DEF a1, a2, a3, a4
    <2>3. <<a1, a2, a3>> \in Seq({a1, a2, a3, a4}) /\ Len(<<a1, a2, a3>>) = 3
      OBVIOUS
    <2>4. /\ Len(BuiltInstructions(c)) = 4
          /\ BuiltInstructions(c)[1] = a1 /\ BuiltInstructions(c)[2] = a2
          /\ BuiltInstructions(c)[3] = a3 /\ BuiltInstructions(c)[4] = a4
      BY <2>1, <2>3
    <2> QED
      BY <1>2, <2>2, <2>4 DEF a1, a2, a3, a4, MintAuthorityAt, Creator, Frozen
  <1>3. CASE c.builder = "create_token_with_freeze_auth_metadata"
    <2>1. BuiltInstructions(c) = create_token_with_freeze_auth_metadata_tx(c.p)
      BY <1>3 DEF BuiltInstructions
    <2>2. Frozen(c) /\ ~WithAttributes(c) /\ MintSteps(c) = 3
      BY <1>3 DEF Frozen, WithAttributes, MintSteps
    <2> QED
      BY <1>3, <2>1, <2>2
      DEF create_token_with_freeze_auth_metadata_tx, MintAuthorityAt, Creator, Frozen
  <1> QED
    BY <1>1, <1>2, <1>3 DEF Creates

LEMMA OtherListing ==
    ASSUME NEW c
    PROVE  LET ixs == BuiltInstructions(c)
               m == c.p.mint
           IN  /\ c.builder = "create_attributes" =>
                    /\ Len(ixs) = 1
                    /\ ixs[1] = create_attributes_ix(c.p.payer, m, c.p.update_authority,
                                                     c.p.attributes)
               /\ c.builder = "replace_attributes" =>
                    /\ Len(ixs) = 1
                    /\ ixs[1] = replace_attributes_ix(m, c.p.update_authority, c.p.attributes)
               /\ c.builder = "make_immutable" =>
                    /\ Len(ixs) = 1
                    /\ ixs[1] = make_immutable_ix(m, c.p.current_update_authority)
               /\ Transfers(c) =>
                    /\ Len(ixs) = 2
                    /\ ixs[1] = transfer_authority_ix(m, c.p.current_update_authority,
                                                      c.p.new_authority)
                    /\ ixs[2] = update_metadata_ix(m, c.p.new_authority, c.p.text)
  <1>1. CASE c.builder = "create_attributes"
    <2>1. BuiltInstructions(c) = create_attributes_tx(c.p) /\ ~Transfers(c)
      BY <1>1 DEF BuiltInstructions, Transfers
    <2> QED
      BY <1>1, <2>1 DEF create_attributes_tx
  <1>2. CASE c.builder = "replace_attributes"
    <2>1. BuiltInstructions(c) = replace_attributes_tx(c.p) /\ ~Transfers(c)
      BY <1>2 DEF BuiltInstructions, Transfers
    <2> QED
      BY <1>2, <2>1 DEF replace_attributes_tx
  <1>3. CASE c.builder = "make_immutable"
    <2>1. BuiltInstructions(c) = make_immutable_tx(c.p) /\ ~Transfers(c)
      BY <1>3 DEF BuiltInstructions, Transfers
    <2> QED
      BY <1>3, <2>1 DEF make_immutable_tx
  <1>4. CASE Transfers(c)
    <2>1. /\ BuiltInstructions(c) = transfer_authority_then_update_tx(c.p)
          /\ c.builder = "transfer_authority_then_update"
      BY <1>4 DEF BuiltInstructions, Transfers
    <2> QED
      BY <1>4, <2>1 DEF transfer_authority_then_update_tx
  <1> QED
    BY <1>1, <1>2, <1>3, <1>4

\* The builders are told apart by their predicates.
LEMMA BuilderKinds ==
    ASSUME NEW c
    PROVE  /\ Transfers(c) => ~Creates(c) /\ ~WithAttributes(c) /\ ~Frozen(c)
           /\ WithAttributes(c) => Creates(c) /\ ~Frozen(c) /\ MintSteps(c) = 2
           /\ Frozen(c) => Creates(c) /\ MintSteps(c) = 3
           /\ ~Frozen(c) => MintSteps(c) = 2
           /\ c.builder \in {"create_attributes", "replace_attributes", "make_immutable"} =>
                ~Creates(c) /\ ~Transfers(c) /\ ~WithAttributes(c) /\ ~Frozen(c)
  BY DEF Transfers, Creates, WithAttributes, Frozen, MintSteps

RestOfToken(accounts, c) ==
    /\ Accepted(c) /\ (WithAttributes(c) => ~c.p.immutable)
    /\ CanPay(accounts, c.p.payer, Rent(c) - MinimumRent[MINT_LEN])

RestOfAttributes(accounts, c) ==
    /\ validate_attributes(Entries(c)) /\ ~c.p.immutable
    /\ CanPay(accounts, c.p.payer, MinimumRent[TOKEN_METADATA_ATTRIBUTES_MAX_LEN])

\* What is left to ask for after each instruction.
LEMMA RestAt ==
    ASSUME NEW A, NEW c
    PROVE  /\ Rest(A, c, 0) <=> Accepted(c) /\ Ready(A, c)
           /\ Creates(c) => \A n \in 1..MintSteps(c) : Rest(A, c, n) <=> RestOfToken(A, c)
           /\ WithAttributes(c) => (Rest(A, c, 3) <=> RestOfAttributes(A, c))
           /\ Transfers(c) => (Rest(A, c, 1) <=> Accepted(c))
           /\ \A n \in Nat :
                n = Len(BuiltInstructions(c)) /\ c.builder \in Builders => Rest(A, c, n)
  <1> USE BuilderKinds DEF Rest, RestOfToken, RestOfAttributes
  <1>1. Rest(A, c, 0) <=> Accepted(c) /\ Ready(A, c)
    OBVIOUS
  <1>2. Creates(c) => \A n \in 1..MintSteps(c) : Rest(A, c, n) <=> RestOfToken(A, c)
    OBVIOUS
  <1>3. WithAttributes(c) => (Rest(A, c, 3) <=> RestOfAttributes(A, c))
    OBVIOUS
  <1>4. Transfers(c) => (Rest(A, c, 1) <=> Accepted(c))
    OBVIOUS
  <1>5. Creates(c) => Rest(A, c, IF WithAttributes(c) THEN 4 ELSE MintSteps(c) + 1)
    OBVIOUS
  <1>6. ~Creates(c) => Rest(A, c, IF Transfers(c) THEN 2 ELSE 1)
    OBVIOUS
  <1>7. c.builder \in Builders /\ ~Creates(c) /\ ~Transfers(c) =>
           c.builder \in {"create_attributes", "replace_attributes", "make_immutable"}
    BY DEF Builders, Creates, Transfers
  <1> HIDE DEF Rest
  <1> QED
    BY <1>1, <1>2, <1>3, <1>4, <1>5, <1>6, <1>7, TokenListing, OtherListing

MintAchieved(accounts, c, n) ==
    /\ HoldsMint(accounts, c.p.mint)
    /\ accounts[c.p.mint].data.mint_authority = MintAuthorityAt(c, n)
    /\ accounts[c.p.mint].data.freeze_authority = c.p.freeze_authority
    /\ ~MetadataExists(accounts, c.p.mint)

MetadataAchieved(accounts, c) ==
    /\ TokenIs(accounts, c.p.mint, c.p.text, IF c.p.immutable THEN NoKey ELSE c.p.mint_authority)
    /\ ~AttributesExist(accounts, c.p.mint)

\* What is done after each instruction.
LEMMA AchievedAt ==
    ASSUME NEW before, NEW A, NEW c
    PROVE  /\ c.builder \in Builders => (Achieved(before, A, c, 0) <=> A = before)
           /\ Creates(c) =>
                /\ Achieved(before, A, c, 1) <=>
                     A[c.p.mint].owner = TokenProgram /\ ~HoldsMint(A, c.p.mint)
                /\ \A n \in 2..MintSteps(c) : Achieved(before, A, c, n) <=> MintAchieved(A, c, n)
                /\ ~WithAttributes(c) =>
                     (Achieved(before, A, c, MintSteps(c) + 1) <=> Done(before, A, c))
           /\ WithAttributes(c) =>
                /\ Achieved(before, A, c, 3) <=> MetadataAchieved(A, c)
                /\ Achieved(before, A, c, 4) <=> Done(before, A, c)
           /\ Transfers(c) =>
                /\ Achieved(before, A, c, 1) <=>
                     TokenIs(A, c.p.mint, before[MetadataPda(c.p.mint)].data.text,
                             c.p.new_authority)
                /\ Achieved(before, A, c, 2) <=> Done(before, A, c)
           /\ c.builder \in {"create_attributes", "replace_attributes", "make_immutable"} =>
                (Achieved(before, A, c, 1) <=> Done(before, A, c))
  <1> USE BuilderKinds DEF Achieved, MintAchieved, MetadataAchieved
  <1> HIDE DEF Done, TokenIs
  <1>1. Creates(c) => Len(BuiltInstructions(c)) = IF WithAttributes(c) THEN 4 ELSE MintSteps(c) + 1
    BY TokenListing
  <1>2. Transfers(c) => Len(BuiltInstructions(c)) = 2
    BY OtherListing
  <1>3. c.builder \in {"create_attributes", "replace_attributes", "make_immutable"} =>
          Len(BuiltInstructions(c)) = 1
    BY OtherListing
  <1>4. \/ c.builder \notin Builders \/ Creates(c) \/ Transfers(c)
        \/ c.builder \in {"create_attributes", "replace_attributes", "make_immutable"}
    BY DEF Builders, Creates, Transfers
  <1>5. c.builder \in Builders => (Achieved(before, A, c, 0) <=> A = before)
    BY <1>1, <1>2, <1>3, <1>4
  <1>6. Creates(c) =>
           /\ Achieved(before, A, c, 1) <=>
                A[c.p.mint].owner = TokenProgram /\ ~HoldsMint(A, c.p.mint)
           /\ ~WithAttributes(c) =>
                (Achieved(before, A, c, MintSteps(c) + 1) <=> Done(before, A, c))
    <2>1. ASSUME Creates(c)
          PROVE  Achieved(before, A, c, 1) <=>
                   A[c.p.mint].owner = TokenProgram /\ ~HoldsMint(A, c.p.mint)
      <3>1. /\ ~Transfers(c) /\ MintSteps(c) \in {2, 3}
            /\ Len(BuiltInstructions(c)) # 1 /\ 1 \notin 2..MintSteps(c)
        BY <1>1, <2>1 DEF MintSteps
      <3> QED
        BY <2>1, <3>1
    <2>2. ASSUME Creates(c), ~WithAttributes(c), Frozen(c)
          PROVE  Achieved(before, A, c, 4) <=> Done(before, A, c)
      BY <1>1, <2>2
    <2>3. ASSUME Creates(c), ~WithAttributes(c), ~Frozen(c)
          PROVE  Achieved(before, A, c, 3) <=> Done(before, A, c)
      BY <1>1, <2>3
    <2> HIDE DEF Achieved
    <2> QED
      BY <2>1, <2>2, <2>3
  <1>7. Creates(c) =>
           \A n \in 2..MintSteps(c) : Achieved(before, A, c, n) <=> MintAchieved(A, c, n)
    BY <1>1
  <1>8. WithAttributes(c) =>
           /\ Achieved(before, A, c, 3) <=> MetadataAchieved(A, c)
           /\ Achieved(before, A, c, 4) <=> Done(before, A, c)
    BY <1>1
  <1>9. Transfers(c) =>
           /\ Achieved(before, A, c, 1) <=>
                TokenIs(A, c.p.mint, before[MetadataPda(c.p.mint)].data.text,
                        c.p.new_authority)
           /\ Achieved(before, A, c, 2) <=> Done(before, A, c)
    BY <1>2
  <1>10. c.builder \in {"create_attributes", "replace_attributes", "make_immutable"} =>
           (Achieved(before, A, c, 1) <=> Done(before, A, c))
    BY <1>3
  <1> QED
    BY <1>5, <1>6, <1>7, <1>8, <1>9, <1>10

-----------------------------------------------------------------------------
(* What a transaction leaves of the lamports and the derived addresses *)

LEMMA RentsAdd ==
    ASSUME NEW c
    PROVE  /\ MinimumRent[MINT_LEN] \in Nat
           /\ MinimumRent[TOKEN_METADATA_MAX_LEN] \in Nat
           /\ MinimumRent[TOKEN_METADATA_ATTRIBUTES_MAX_LEN] \in Nat
           /\ WithAttributes(c) =>
                Rent(c) = MinimumRent[MINT_LEN] + MinimumRent[TOKEN_METADATA_MAX_LEN]
                            + MinimumRent[TOKEN_METADATA_ATTRIBUTES_MAX_LEN]
           /\ Creates(c) /\ ~WithAttributes(c) =>
                Rent(c) = MinimumRent[MINT_LEN] + MinimumRent[TOKEN_METADATA_MAX_LEN]
           /\ ~Creates(c) => Rent(c) = MinimumRent[TOKEN_METADATA_ATTRIBUTES_MAX_LEN]
           /\ Rent(c) \in Nat
  <1>1. /\ MinimumRent[MINT_LEN] \in Nat
        /\ MinimumRent[TOKEN_METADATA_MAX_LEN] \in Nat
        /\ MinimumRent[TOKEN_METADATA_ATTRIBUTES_MAX_LEN] \in Nat
    BY RentAssumption
  <1>2. CASE WithAttributes(c)
    <2>1. Creates(c) /\ Rent(c) = TokenRent + MinimumRent[TOKEN_METADATA_ATTRIBUTES_MAX_LEN]
      BY <1>2, BuilderKinds DEF Rent
    <2> QED
      BY <1>1, <1>2, <2>1 DEF TokenRent
  <1>3. CASE Creates(c) /\ ~WithAttributes(c)
    BY <1>1, <1>3 DEF Rent, TokenRent
  <1>4. CASE ~Creates(c) /\ ~WithAttributes(c)
    BY <1>1, <1>4 DEF Rent
  <1> QED
    BY <1>1, <1>2, <1>3, <1>4, BuilderKinds

\* The derived addresses stay unclaimed when only the program writes there.
LEMMA UnclaimedKept ==
    ASSUME NEW A, Unclaimed(A), NEW B,
           \A a \in Pdas : B[a] = A[a] \/ B[a].owner = MetadataProgram
    PROVE  Unclaimed(B)
  <1> SUFFICES ASSUME NEW m \in Mints, NEW a \in {MetadataPda(m), AttributesPda(m)},
                      NeedsCreation(B, a)
               PROVE  B[a] = Vacant
    BY DEF Unclaimed
  <1>1. a \in Pdas
    BY DEF Pdas
  <1>2. B[a] = A[a]
    BY <1>1 DEF NeedsCreation
  <1> QED
    BY <1>2 DEF Unclaimed, NeedsCreation

\* No key has a derived address.
LEMMA KeysNotDerived == Pdas \cap Keys = {} /\ Pdas \subseteq Address
  BY DerivedAddresses DEF Pdas, Address

\* Writing over the data of an account leaves all lamports where they are.
LEMMA RewrittenKeeps ==
    ASSUME NEW A \in [Address -> Account], NEW a \in Address, NEW d,
           Unclaimed(A), A[a].owner # SystemProgram, a \in Mints \/ A[a].owner = MetadataProgram
    PROVE  LET B == Rewritten(A, a, d)
           IN  /\ Unclaimed(B)
               /\ B[a].data = d /\ B[a].owner = A[a].owner
               /\ \A x \in Address \ {a} : B[x] = A[x]
               /\ \A p \in Address : \A n : CanPay(B, p, n) <=> CanPay(A, p, n)
  <1> DEFINE B == Rewritten(A, a, d)
  <1>1. A[a] \in Account
    OBVIOUS
  <1>2. B[a] = [A[a] EXCEPT !.data = d] /\ \A x \in Address \ {a} : B[x] = A[x]
    BY DEF Rewritten
  <1>3. B[a].data = d /\ B[a].owner = A[a].owner
    BY <1>1, <1>2 DEF Account
  <1> HIDE DEF B
  <1>4. \A x \in Pdas : B[x] = A[x] \/ B[x].owner = MetadataProgram
    BY <1>2, <1>3, KeysNotDerived, DerivedAddresses
  <1>5. Unclaimed(B)
    BY <1>4, UnclaimedKept
  <1>6. \A p \in Address : \A n : CanPay(B, p, n) <=> CanPay(A, p, n)
    BY <1>2, <1>3 DEF CanPay
  <1>7. /\ Unclaimed(B)
        /\ B[a].data = d /\ B[a].owner = A[a].owner
        /\ \A x \in Address \ {a} : B[x] = A[x]
        /\ \A p \in Address : \A n : CanPay(B, p, n) <=> CanPay(A, p, n)
    BY <1>2, <1>3, <1>5, <1>6
  <1> QED
    BY <1>7 DEF B

\* Creating an account of the program takes its rent from the payer and nothing else.
LEMMA CreatedKeeps ==
    ASSUME NEW A, Legal(A), Unclaimed(A), NEW p \in Keys, NEW a \in Pdas, NEW n \in Nat,
           NEW space, NEW d, CanPay(A, p, n)
    PROVE  LET B == CreatedWith(A, p, a, n, space, d)
           IN  /\ Unclaimed(B)
               /\ B[a].data = d
               /\ \A x \in Address \ {a, p} : B[x] = A[x]
               /\ \A k \in Int : CanPay(B, p, k) <=> CanPay(A, p, n + k)
  <1> DEFINE B == CreatedWith(A, p, a, n, space, d)
  <1>1. a \in Address \ {p}
    BY KeysNotDerived
  <1>2. /\ B[a] = [owner |-> MetadataProgram, lamports |-> n, data |-> d]
        /\ B[p] = [owner |-> SystemProgram, lamports |-> A[p].lamports - n, data |-> Empty]
        /\ A[p].owner = SystemProgram /\ A[p].data = Empty
        /\ A[p].lamports - n \in Nat
        /\ \A x \in Address \ {a, p} : B[x] = A[x]
    BY <1>1, CreateAccountEffect
  <1>3. A[p].lamports \in Nat
    BY TypedData, DerivedAddresses DEF Legal
  <1> HIDE DEF B
  <1>4. \A x \in Pdas : B[x] = A[x] \/ B[x].owner = MetadataProgram
    BY <1>2, KeysNotDerived
  <1>5. Unclaimed(B)
    BY <1>4, UnclaimedKept
  <1>6. ASSUME NEW k \in Int PROVE CanPay(B, p, k) <=> CanPay(A, p, n + k)
    <2> DEFINE l == A[p].lamports
    <2>1. B[p].lamports = l - n /\ B[p].owner = SystemProgram /\ B[p].data = Empty
      BY <1>2
    <2>2. l \in Nat
      BY <1>3
    <2> HIDE DEF l
    <2>3. l - n >= k <=> l >= n + k
      BY <2>2
    <2> QED
      BY <1>2, <2>1, <2>3 DEF CanPay, l
  <1>7. Unclaimed(B) /\ B[a].data = d /\ \A x \in Address \ {a, p} : B[x] = A[x]
    BY <1>2, <1>5
  <1> QED
    BY <1>6, <1>7 DEF B

\* Allocating a mint takes the mint's rent from the payer.
LEMMA MintAccountKeeps ==
    ASSUME NEW A, Legal(A), Unclaimed(A), NEW S \in SUBSET Keys,
           NEW ix \in Sent("CreateMintAccount"), Passes(CreateMintAccountChecks(A, S, ix))
    PROVE  LET B == CreateMintAccountEffect(A, ix)
           IN  /\ Unclaimed(B)
               /\ B[ix.mint].owner = TokenProgram /\ ~HoldsMint(B, ix.mint)
               /\ \A k \in Int : CanPay(B, ix.payer, k) <=>
                     ix.payer # ix.mint /\ CanPay(A, ix.payer, MinimumRent[MINT_LEN] + k)
  <1> DEFINE B == CreateMintAccountEffect(A, ix)
             p == ix.payer
             a == ix.mint
             n == MinimumRent[MINT_LEN]
  <1>1. /\ a \in Mints /\ a \in Keys /\ a \in Address
        /\ A \in [Address -> Account]
    BY InstructionTypes, DerivedAddresses DEF Sent, Legal
  <1>2. p \in Keys /\ p \in Address /\ CanPay(A, p, n)
    BY CreateMintAccountGuards, DerivedAddresses
  <1>3. n \in Nat /\ A[p] \in Account /\ A[p].lamports \in Nat
    BY <1>1, <1>2, RentAssumption DEF Account
  <1>4. /\ B[a] = [owner |-> TokenProgram, lamports |-> n,
                   data |-> [kind |-> "zeroed", len |-> MINT_LEN]]
        /\ p # a => B[p] = [A[p] EXCEPT !.lamports = A[p].lamports - n]
        /\ \A x \in Address \ {a, p} : B[x] = A[x]
    BY <1>1, <1>2 DEF CreateMintAccountEffect, CreateAccount
  <1>5. p # a => /\ B[p].owner = A[p].owner /\ B[p].data = A[p].data
                 /\ B[p].lamports = A[p].lamports - n
    BY <1>3, <1>4 DEF Account
  <1> HIDE DEF B
  <1>6. B[a].owner = TokenProgram /\ ~HoldsMint(B, a)
    BY <1>4 DEF HoldsMint
  <1>7. Unclaimed(B)
    <2>1. \A x \in Pdas : B[x] = A[x]
      BY <1>1, <1>2, <1>4, KeysNotDerived
    <2> QED
      BY <2>1, UnclaimedKept
  <1>8. ASSUME NEW k \in Int PROVE CanPay(B, p, k) <=> p # a /\ CanPay(A, p, n + k)
    <2> DEFINE l == A[p].lamports
    <2>1. l \in Nat
      BY <1>3
    <2> HIDE DEF l, n
    <2>2. l - n >= k <=> l >= n + k
      BY <1>3, <2>1 DEF n
    <2>3. CASE p = a
      BY <1>6, <2>3, KeyAssumption DEF CanPay
    <2>4. CASE p # a
      <3>1. B[p].owner = A[p].owner /\ B[p].data = A[p].data /\ B[p].lamports = l - n
        BY <1>5, <2>4 DEF l, n
      <3> QED
        BY <2>2, <2>4, <3>1 DEF CanPay, l
    <2> QED
      BY <2>3, <2>4
  <1> QED
    BY <1>6, <1>7, <1>8 DEF B

-----------------------------------------------------------------------------
(* One instruction of a call *)

\* The accounts A in the middle of a call c, after n of its instructions, by signers S.
Stage(before, A, S, c, n) ==
    LET ixs == BuiltInstructions(c)
    IN  /\ Legal(A) /\ FitTexts(A) /\ Unclaimed(A)
        /\ S \in SUBSET Keys
        /\ c.builder \in Builders /\ c.p.mint \in Mints
        /\ n \in Nat /\ n < Len(ixs)
        /\ \A i \in 1..Len(ixs) : ixs[i] \in Instructions
        /\ SignerMetas(ixs[n + 1]) \subseteq S
        /\ Achieved(before, A, c, n)

\* An instruction with these checks and this effect carries the call one step on: it passes
\* when what is left can be done, and then asks no more and no less of what comes after it.
Carries(before, A, c, n, checks, effect) ==
    /\ ~Passes(checks) => ~Rest(A, c, n)
    /\ Passes(checks) =>
          /\ Unclaimed(effect)
          /\ Rest(A, c, n) <=> Rest(effect, c, n + 1)
          /\ Achieved(before, effect, c, n + 1)

LEMMA MintAccountCarries ==
    ASSUME NEW before, NEW A, NEW S, NEW c, Stage(before, A, S, c, 0), Creates(c)
    PROVE  LET ix == BuiltInstructions(c)[1]
           IN  Carries(before, A, c, 0, CreateMintAccountChecks(A, S, ix),
                       CreateMintAccountEffect(A, ix))
  <1> DEFINE ix == BuiltInstructions(c)[1]
             r == MinimumRent[MINT_LEN]
             p == c.p.payer
             m == c.p.mint
             B == CreateMintAccountEffect(A, ix)
             rest == Rent(c) - r
  <1>1. ix = create_mint_account_ix(p, m)
    BY TokenListing
  <1>2. ix.op = "CreateMintAccount" /\ ix.payer = p /\ ix.mint = m
    BY <1>1 DEF create_mint_account_ix
  <1>3. /\ ix \in Sent("CreateMintAccount") /\ SignerMetas(ix) \subseteq S
        /\ Legal(A) /\ Unclaimed(A) /\ S \in SUBSET Keys
        /\ p \in Address /\ m \in Address
    <2>1. ix \in Instructions /\ SignerMetas(ix) \subseteq S
      BY TokenListing DEF Stage, MintSteps
    <2>2. S \subseteq Address /\ m \in Address
      BY DerivedAddresses DEF Stage
    <2>3. p \in S
      BY <1>2, <2>1 DEF SignerMetas
    <2> QED
      BY <1>2, <2>1, <2>2, <2>3 DEF Stage, Sent
  <1>4. r \in Nat /\ Rent(c) \in Nat /\ Rent(c) >= r
    BY RentsAdd
  <1>5. /\ rest \in Int
        /\ CanPay(A, p, Rent(c)) => CanPay(A, p, r)
        /\ r + rest = Rent(c)
    <2>1. A[p].lamports \in Nat
      BY <1>3, TypedData DEF Legal
    <2> QED
      BY <1>4, <2>1 DEF CanPay
  <1>6. Passes(CreateMintAccountChecks(A, S, ix)) <=> A[m] = Vacant /\ CanPay(A, p, r)
    BY <1>2, <1>3, CreateMintAccountWorks
  <1>7. /\ Rest(A, c, 0) <=> Accepted(c) /\ Ready(A, c)
        /\ Ready(A, c) <=> /\ A[m] = Vacant /\ p # m /\ CanPay(A, p, Rent(c))
                           /\ WithAttributes(c) => ~c.p.immutable
        /\ \A X : Rest(X, c, 1) <=> /\ Accepted(c) /\ (WithAttributes(c) => ~c.p.immutable)
                                    /\ CanPay(X, p, rest)
    <2>1. 1 \in 1..MintSteps(c)
      BY DEF MintSteps
    <2>2. \A X : Rest(X, c, 1) <=> RestOfToken(X, c)
      BY <2>1, RestAt
    <2>3. Ready(A, c) <=> Creatable(A, c) /\ (WithAttributes(c) => ~c.p.immutable)
      BY BuilderKinds DEF Ready, Creates
    <2>4. Rest(A, c, 0) <=> Accepted(c) /\ Ready(A, c)
      BY RestAt
    <2>5. Ready(A, c) <=> /\ A[m] = Vacant /\ p # m /\ CanPay(A, p, Rent(c))
                          /\ WithAttributes(c) => ~c.p.immutable
      BY <2>3 DEF Creatable
    <2>6. \A X : Rest(X, c, 1) <=> /\ Accepted(c) /\ (WithAttributes(c) => ~c.p.immutable)
                                   /\ CanPay(X, p, rest)
      BY <2>2 DEF RestOfToken
    <2> QED
      BY <2>4, <2>5, <2>6
  <1>8. ASSUME Passes(CreateMintAccountChecks(A, S, ix))
        PROVE  /\ Unclaimed(B)
               /\ Rest(A, c, 0) <=> Rest(B, c, 0 + 1)
               /\ Achieved(before, B, c, 0 + 1)
    <2>1. /\ Unclaimed(B)
          /\ B[m].owner = TokenProgram /\ ~HoldsMint(B, m)
          /\ \A k \in Int : CanPay(B, p, k) <=> p # m /\ CanPay(A, p, r + k)
      BY <1>2, <1>3, <1>8, MintAccountKeeps
    <2>2. CanPay(B, p, rest) <=> p # m /\ CanPay(A, p, Rent(c))
      BY <1>5, <2>1
    <2>3. Achieved(before, B, c, 1)
      BY <2>1, AchievedAt
    <2> HIDE DEF B, rest, p, m, r
    <2>4. Rest(A, c, 0) <=> Rest(B, c, 1)
      BY <1>6, <1>7, <1>8, <2>2
    <2> QED
      BY <2>1, <2>3, <2>4
  <1> HIDE DEF ix, p, m, r, B
  <1>9. Carries(before, A, c, 0, CreateMintAccountChecks(A, S, ix), B)
    BY <1>5, <1>6, <1>7, <1>8 DEF Carries
  <1> QED
    BY <1>9 DEF B, ix

\* What the parameters of a token are, when its instructions may be sent.
LEMMA TokenParameters ==
    ASSUME NEW c, Creates(c), c.p.mint \in Mints,
           LET ixs == BuiltInstructions(c) IN \A i \in 1..Len(ixs) : ixs[i] \in Instructions
    PROVE  c.p.payer \in Address /\ c.p.text \in PartialText
  <1> DEFINE ixs == BuiltInstructions(c)
             a == create_mint_account_ix(c.p.payer, c.p.mint)
             b == create_metadata_ix(c.p.payer, c.p.mint, Creator(c), c.p.text, c.p.immutable)
  <1>1. 1 \in 1..Len(ixs) /\ MintSteps(c) + 1 \in 1..Len(ixs)
    BY TokenListing, BuilderKinds DEF MintSteps
  <1>2. a \in Instructions /\ b \in Instructions
    BY <1>1, TokenListing
  <1>3. a.op = "CreateMintAccount" /\ a.payer = c.p.payer
    BY DEF create_mint_account_ix
  <1>4. b.op = "CreateMetadata" /\ b.text = c.p.text
    BY DEF create_metadata_ix
  <1> HIDE DEF a, b
  <1>5. a.payer \in Address
    BY <1>2, <1>3, InstructionsAssumption DEF Instruction
  <1>6. b.text \in PartialText
    BY <1>2, <1>4, MeasuredTyped DEF TextOps
  <1> QED
    BY <1>3, <1>4, <1>5, <1>6

LEMMA InitializeMintCarries ==
    ASSUME NEW before, NEW A, NEW S, NEW c, Stage(before, A, S, c, 1), Creates(c)
    PROVE  LET ix == BuiltInstructions(c)[2]
           IN  Carries(before, A, c, 1, InitializeMint2Checks(A, ix),
                       InitializeMint2Effect(A, ix))
  <1> DEFINE ix == BuiltInstructions(c)[2]
             m == c.p.mint
             B == InitializeMint2Effect(A, ix)
             d == [kind |-> "mint", mint_authority |-> ix.mint_authority,
                   freeze_authority |-> ix.freeze_authority]
  <1>1. ix = initialize_mint2_ix(m, MintAuthorityAt(c, 2), c.p.freeze_authority)
    BY TokenListing
  <1>2. /\ ix.op = "InitializeMint2" /\ ix.mint = m
        /\ ix.mint_authority = MintAuthorityAt(c, 2) /\ ix.freeze_authority = c.p.freeze_authority
    BY <1>1 DEF initialize_mint2_ix
  <1>3. /\ Legal(A) /\ Unclaimed(A) /\ m \in Mints
        /\ A \in [Address -> Account] /\ m \in Address
        /\ MetadataPda(m) \in Address \ {m}
    BY DerivedAddresses DEF Stage, Legal
  <1>4. A[m].owner = TokenProgram /\ ~HoldsMint(A, m)
    BY AchievedAt DEF Stage
  <1>5. Passes(InitializeMint2Checks(A, ix))
    BY <1>2, <1>4, InitializeMint2Works
  <1>6. B = Rewritten(A, m, d)
    BY <1>2 DEF InitializeMint2Effect, Rewritten
  <1>7. /\ Unclaimed(B) /\ B[m].data = d
        /\ \A x \in Address \ {m} : B[x] = A[x]
        /\ \A p \in Address : \A n : CanPay(B, p, n) <=> CanPay(A, p, n)
    <2>1. A[m].owner # SystemProgram
      BY <1>4, KeyAssumption
    <2> HIDE DEF d, B
    <2> QED
      BY <1>3, <1>6, <2>1, RewrittenKeeps
  <1> HIDE DEF B
  <1>8. c.p.payer \in Address
    BY TokenParameters DEF Stage
  <1>9. Rest(A, c, 1) <=> Rest(B, c, 2)
    <2>1. 1 \in 1..MintSteps(c) /\ 2 \in 1..MintSteps(c)
      BY DEF MintSteps
    <2>2. Rest(A, c, 1) <=> RestOfToken(A, c)
      BY <2>1, RestAt
    <2>3. Rest(B, c, 2) <=> RestOfToken(B, c)
      BY <2>1, RestAt
    <2> QED
      BY <1>7, <1>8, <2>2, <2>3 DEF RestOfToken
  <1>10. Achieved(before, B, c, 2)
    <2>1. 2 \in 2..MintSteps(c)
      BY DEF MintSteps
    <2>2. ~MetadataExists(A, m)
      BY <1>3, <1>4 DEF Legal, Backed
    <2>3. MintAchieved(B, c, 2)
      BY <1>2, <1>3, <1>7, <2>2 DEF MintAchieved, HoldsMint, MetadataExists, HoldsMetadata
    <2> QED
      BY <2>1, <2>3, AchievedAt
  <1> QED
    BY <1>5, <1>7, <1>9, <1>10 DEF Carries, B

LEMMA GiveUpCarries ==
    ASSUME NEW before, NEW A, NEW S, NEW c, Stage(before, A, S, c, 2), Frozen(c)
    PROVE  LET ix == BuiltInstructions(c)[3]
           IN  Carries(before, A, c, 2, SetMintAuthorityChecks(A, S, ix),
                       SetMintAuthorityEffect(A, ix))
  <1> DEFINE ix == BuiltInstructions(c)[3]
             m == c.p.mint
             B == SetMintAuthorityEffect(A, ix)
             d == [A[m].data EXCEPT !.mint_authority = NoKey]
  <1>1. Creates(c) /\ MintSteps(c) = 3
    BY BuilderKinds
  <1>2. /\ ix.op = "SetMintAuthority" /\ ix.mint = m
        /\ ix.authority = c.p.initial_mint_authority /\ ix.new_authority = NoKey
    <2>1. ix = set_mint_authority_ix(m, c.p.initial_mint_authority, NoKey)
      BY <1>1, TokenListing
    <2> QED
      BY <2>1 DEF set_mint_authority_ix
  <1>3. /\ Legal(A) /\ Unclaimed(A) /\ m \in Mints /\ S \in SUBSET Keys
        /\ A \in [Address -> Account] /\ m \in Address
        /\ MetadataPda(m) \in Address \ {m}
    BY DerivedAddresses DEF Stage, Legal
  <1>4. ix.authority \in S
    BY <1>2 DEF Stage, SignerMetas
  <1>5. /\ HoldsMint(A, m) /\ A[m].data.mint_authority = c.p.initial_mint_authority
        /\ A[m].data.freeze_authority = c.p.freeze_authority
        /\ ~MetadataExists(A, m)
    <2>1. MintAchieved(A, c, 2)
      BY <1>1, AchievedAt DEF Stage
    <2> QED
      BY <2>1 DEF MintAchieved, MintAuthorityAt
  <1>6. Passes(SetMintAuthorityChecks(A, S, ix))
    BY <1>2, <1>3, <1>4, <1>5, SetMintAuthorityWorks
  <1>7. B = Rewritten(A, m, d)
    BY <1>2, <1>3 DEF SetMintAuthorityEffect, Rewritten
  <1>8. d.kind = "mint" /\ d.mint_authority = NoKey /\ d.freeze_authority = c.p.freeze_authority
    <2>1. A[m].data \in Mint
      BY <1>3, <1>5, TypedData
    <2> QED
      BY <1>5, <2>1 DEF Mint
  <1>9. A[m].owner = TokenProgram
    BY <1>3, <1>5 DEF Legal, Backed
  <1>10. /\ Unclaimed(B) /\ B[m].data = d
         /\ \A x \in Address \ {m} : B[x] = A[x]
         /\ \A p \in Address : \A n : CanPay(B, p, n) <=> CanPay(A, p, n)
    <2>1. A[m].owner # SystemProgram
      BY <1>9, KeyAssumption
    <2> HIDE DEF d, B
    <2> QED
      BY <1>3, <1>7, <2>1, RewrittenKeeps
  <1> HIDE DEF B, d
  <1>11. c.p.payer \in Address
    BY <1>1, TokenParameters DEF Stage
  <1>12. Rest(A, c, 2) <=> Rest(B, c, 3)
    <2>1. Rest(A, c, 2) <=> RestOfToken(A, c)
      BY <1>1, RestAt
    <2>2. Rest(B, c, 3) <=> RestOfToken(B, c)
      BY <1>1, RestAt
    <2> QED
      BY <1>10, <1>11, <2>1, <2>2 DEF RestOfToken
  <1>13. Achieved(before, B, c, 3)
    <2>1. MintAchieved(B, c, 3)
      BY <1>3, <1>5, <1>8, <1>10
      DEF MintAchieved, HoldsMint, MetadataExists, HoldsMetadata, MintAuthorityAt
    <2> QED
      BY <1>1, <2>1, AchievedAt
  <1> QED
    BY <1>6, <1>10, <1>12, <1>13 DEF Carries, B

\* What creating metadata leaves behind.
LEMMA MetadataMade ==
    ASSUME NEW A, Legal(A), Unclaimed(A), NEW S \in SUBSET Keys, NEW ix \in Sent("CreateMetadata"),
           ix.mint \in Mints, Passes(CreateMetadataChecks(A, S, ix))
    PROVE  LET B == CreateMetadataEffect(A, ix)
           IN  /\ Unclaimed(B)
               /\ ix.payer \in Keys
               /\ B[MetadataPda(ix.mint)].data = NewMetadata(A, ix)
               /\ \A x \in Address \ {MetadataPda(ix.mint), ix.payer} : B[x] = A[x]
               /\ \A k \in Int : CanPay(B, ix.payer, k) <=>
                     CanPay(A, ix.payer, MinimumRent[TOKEN_METADATA_MAX_LEN] + k)
  <1> DEFINE r == MinimumRent[TOKEN_METADATA_MAX_LEN]
             d == NewMetadata(A, ix)
  <1>1. ix.mint \in Address /\ ix.metadata \in Address
    BY InstructionTypes DEF Sent
  <1>2. ix.metadata = MetadataPda(ix.mint) /\ ~AlreadyInitialized(A, ix.metadata)
    BY CreateMetadataGuards
  <1>3. NeedsCreation(A, ix.metadata)
    BY <1>1, <1>2, CreationNeeded
  <1>4. ix.payer \in Keys /\ CanPay(A, ix.payer, r)
    BY <1>3, CreateMetadataGuards
  <1>5. ix.metadata \in Pdas /\ r \in Nat
    BY <1>2, RentAssumption DEF Pdas
  <1>6. CreateMetadataEffect(A, ix) =
          CreatedWith(A, ix.payer, ix.metadata, r, TOKEN_METADATA_MAX_LEN, d)
    BY <1>3 DEF CreateMetadataEffect, Created, CreatedWith
  <1> HIDE DEF d, r
  <1>7. LET B == CreatedWith(A, ix.payer, ix.metadata, r, TOKEN_METADATA_MAX_LEN, d)
        IN  /\ Unclaimed(B)
            /\ B[ix.metadata].data = d
            /\ \A x \in Address \ {ix.metadata, ix.payer} : B[x] = A[x]
            /\ \A k \in Int : CanPay(B, ix.payer, k) <=> CanPay(A, ix.payer, r + k)
    BY <1>4, <1>5, CreatedKeeps
  <1> QED
    BY <1>2, <1>4, <1>6, <1>7 DEF d, r

\* What creating attributes leaves behind.
LEMMA AttributesMade ==
    ASSUME NEW A, Legal(A), Unclaimed(A), NEW S \in SUBSET Keys,
           NEW ix \in Sent("CreateAttributes"), ix.mint \in Mints,
           Passes(CreateAttributesChecks(A, S, ix))
    PROVE  LET B == CreateAttributesEffect(A, ix)
           IN  /\ Unclaimed(B)
               /\ ix.payer \in Keys
               /\ B[AttributesPda(ix.mint)].data = NewAttributes(ix)
               /\ \A x \in Address \ {AttributesPda(ix.mint), ix.payer} : B[x] = A[x]
  <1> DEFINE r == MinimumRent[TOKEN_METADATA_ATTRIBUTES_MAX_LEN]
             n == TOKEN_METADATA_ATTRIBUTES_MAX_LEN
             d == NewAttributes(ix)
  <1>1. ix.mint \in Address /\ ix.attributes \in Address
    BY InstructionTypes DEF Sent
  <1>2. /\ ix.attributes = AttributesPda(ix.mint) /\ ~AlreadyInitialized(A, ix.attributes)
        /\ ix.payer \in Keys
    BY CreateAttributesGuards
  <1>3. NeedsCreation(A, ix.attributes)
    BY <1>1, <1>2, CreationNeeded
  <1>4. CanPay(A, ix.payer, r)
    BY <1>3, CreateAttributesGuards
  <1>5. ix.attributes \in Pdas /\ r \in Nat
    BY <1>2, RentAssumption DEF Pdas
  <1>6. CreateAttributesEffect(A, ix) = CreatedWith(A, ix.payer, ix.attributes, r, n, d)
    BY <1>3 DEF CreateAttributesEffect, Created, CreatedWith
  <1> HIDE DEF d, r, n
  <1>7. LET B == CreatedWith(A, ix.payer, ix.attributes, r, n, d)
        IN  /\ Unclaimed(B)
            /\ B[ix.attributes].data = d
            /\ \A x \in Address \ {ix.attributes, ix.payer} : B[x] = A[x]
    BY <1>2, <1>4, <1>5, CreatedKeeps
  <1> QED
    BY <1>2, <1>6, <1>7 DEF d

\* What the validators say of a call, in the words of the handlers.
LEMMA AcceptedMeans ==
    ASSUME NEW c
    PROVE  /\ (Creates(c) \/ Transfers(c)) /\ c.p.text \in PartialText =>
                (validate_metadata_fields(Texts(c)) <=> ~TextTooLong(c.p.text))
           /\ ~(Creates(c) \/ Transfers(c)) => validate_metadata_fields(Texts(c))
           /\ WithAttributes(c) \/ c.builder \in {"create_attributes", "replace_attributes"} =>
                /\ Entries(c) = c.p.attributes
                /\ c.p.attributes \in Seq(Entry) =>
                     (validate_attributes(Entries(c)) <=> ~EntriesRefused(c.p.attributes))
           /\ ~(WithAttributes(c) \/ c.builder \in {"create_attributes", "replace_attributes"}) =>
                validate_attributes(Entries(c))
  <1>1. (Creates(c) \/ Transfers(c)) /\ c.p.text \in PartialText =>
           (validate_metadata_fields(Texts(c)) <=> ~TextTooLong(c.p.text))
    BY MetadataValidatorExact DEF Texts
  <1>2. ~(Creates(c) \/ Transfers(c)) => validate_metadata_fields(Texts(c))
    BY DEF Texts, validate_metadata_fields
  <1>3. WithAttributes(c) \/ c.builder \in {"create_attributes", "replace_attributes"} =>
           /\ Entries(c) = c.p.attributes
           /\ c.p.attributes \in Seq(Entry) =>
                (validate_attributes(Entries(c)) <=> ~EntriesRefused(c.p.attributes))
    BY AttributesValidatorExact DEF Entries
  <1>4. ~(WithAttributes(c) \/ c.builder \in {"create_attributes", "replace_attributes"}) =>
           validate_attributes(Entries(c))
    BY DEF Entries, validate_attributes, MAX_ATTRIBUTES
  <1> QED
    BY <1>1, <1>2, <1>3, <1>4

LEMMA MetadataCarries ==
    ASSUME NEW before, NEW A, NEW S, NEW c, Stage(before, A, S, c, MintSteps(c)), Creates(c)
    PROVE  LET ix == BuiltInstructions(c)[MintSteps(c) + 1]
           IN  Carries(before, A, c, MintSteps(c), CreateMetadataChecks(A, S, ix),
                       CreateMetadataEffect(A, ix))
  <1> DEFINE n == MintSteps(c)
             ix == BuiltInstructions(c)[n + 1]
             m == c.p.mint
             p == c.p.payer
             k == Creator(c)
             r == MinimumRent[TOKEN_METADATA_MAX_LEN]
             rest == Rent(c) - MinimumRent[MINT_LEN]
             checks == CreateMetadataChecks(A, S, ix)
             B == CreateMetadataEffect(A, ix)
  <1>1. /\ ix.op = "CreateMetadata" /\ ix.payer = p /\ ix.mint = m
        /\ ix.metadata = MetadataPda(m) /\ ix.authority = k /\ ix.text = c.p.text
        /\ ix.immutable = c.p.immutable /\ ix.system_program = SystemProgram
    <2>1. ix = create_metadata_ix(p, m, k, c.p.text, c.p.immutable)
      BY TokenListing
    <2> QED
      BY <2>1 DEF create_metadata_ix
  <1>2. /\ n \in {2, 3} /\ n \in 1..n /\ n \in 2..n
        /\ n + 1 \in 1..Len(BuiltInstructions(c))
    BY TokenListing, BuilderKinds DEF MintSteps
  <1>3. /\ Legal(A) /\ Unclaimed(A) /\ m \in Mints /\ S \in SUBSET Keys
        /\ A \in [Address -> Account] /\ SignerMetas(ix) \subseteq S
        /\ ix \in Sent("CreateMetadata")
    BY <1>1, <1>2 DEF Stage, Legal, Sent
  <1>4. k \in Keys /\ k # NoKey /\ p \in Keys
    BY <1>1, <1>3, DerivedAddresses DEF SignerMetas
  <1>5. MintAchieved(A, c, n)
    BY <1>2, AchievedAt DEF Stage
  <1>6. CreationAuthority(A, m) = k /\ ~MetadataExists(A, m)
    BY <1>4, <1>5, BuilderKinds DEF MintAchieved, MintAuthorityAt, Creator, CreationAuthority
  <1>7. Passes(checks) <=> ~TextTooLong(c.p.text) /\ CanPay(A, p, r)
    BY <1>1, <1>3, <1>6, CreateMetadataWorks
  <1>8. Rest(A, c, n) <=> RestOfToken(A, c)
    BY <1>2, RestAt
  <1>9. validate_metadata_fields(Texts(c)) <=> ~TextTooLong(c.p.text)
    BY AcceptedMeans, TokenParameters DEF Stage
  <1>10. /\ r \in Nat /\ rest \in Nat /\ rest >= r
         /\ ~WithAttributes(c) => rest = r
         /\ WithAttributes(c) => rest = r + MinimumRent[TOKEN_METADATA_ATTRIBUTES_MAX_LEN]
    BY RentsAdd
  <1>11. CanPay(A, p, rest) => CanPay(A, p, r)
    <2>1. A[p].lamports \in Nat
      BY <1>3, <1>4, TypedData, DerivedAddresses
    <2> HIDE DEF rest, r
    <2> QED
      BY <1>10, <2>1 DEF CanPay
  <1> HIDE DEF checks, r
  <1>12. ~Passes(checks) => ~Rest(A, c, n)
    BY <1>7, <1>8, <1>9, <1>11 DEF RestOfToken, Accepted
  <1>13. ASSUME Passes(checks)
         PROVE  /\ Unclaimed(B)
                /\ Rest(A, c, n) <=> Rest(B, c, n + 1)
                /\ Achieved(before, B, c, n + 1)
    <2>1. /\ Unclaimed(B)
          /\ B[MetadataPda(m)].data = NewMetadata(A, ix)
          /\ \A x \in Address \ {MetadataPda(m), p} : B[x] = A[x]
          /\ \A l \in Int : CanPay(B, p, l) <=> CanPay(A, p, r + l)
      <3> HIDE DEF ix, B
      <3>1. Passes(CreateMetadataChecks(A, S, ix)) /\ ix.mint \in Mints
        BY <1>1, <1>3, <1>13 DEF checks
      <3>2. /\ Unclaimed(CreateMetadataEffect(A, ix))
            /\ CreateMetadataEffect(A, ix)[MetadataPda(ix.mint)].data = NewMetadata(A, ix)
            /\ \A x \in Address \ {MetadataPda(ix.mint), ix.payer} :
                  CreateMetadataEffect(A, ix)[x] = A[x]
            /\ \A l \in Int : CanPay(CreateMetadataEffect(A, ix), ix.payer, l) <=>
                  CanPay(A, ix.payer, MinimumRent[TOKEN_METADATA_MAX_LEN] + l)
        BY <1>3, <3>1, MetadataMade
      <3> QED
        BY <1>1, <3>2 DEF B, r
    <2> HIDE DEF B
    <2>2. TokenIs(B, m, c.p.text, IF c.p.immutable THEN NoKey ELSE k)
      BY <1>1, <1>6, <2>1
      DEF NewMetadata, TokenIs, MetadataExists, HoldsMetadata, Authority, UpdateAuthority
    <2>3. ~AttributesExist(B, m)
      <3>1. AttributesPda(m) \in Address \ {MetadataPda(m), p}
        BY <1>3, <1>4, DerivedAddresses
      <3>2. ~AttributesExist(A, m)
        BY <1>3, <1>6 DEF Legal, Backed
      <3> QED
        BY <2>1, <3>1, <3>2 DEF AttributesExist, HoldsAttributes
    <2>4. CASE ~WithAttributes(c)
      <3>1. Done(before, B, c)
        <4>1. ~Transfers(c) /\ c.builder \notin {"create_attributes", "replace_attributes",
                                                "make_immutable"}
          BY BuilderKinds
        <4> QED
          BY <2>2, <2>3, <2>4, <4>1 DEF Done
      <3>2. Achieved(before, B, c, n + 1)
        BY <2>4, <3>1, AchievedAt
      <3>3. Rest(B, c, n + 1)
        <4>1. n + 1 = Len(BuiltInstructions(c)) /\ n + 1 \in Nat
          BY <1>2, <2>4, TokenListing
        <4>2. c.builder \in Builders
          BY DEF Stage
        <4> HIDE DEF n
        <4> QED
          BY <4>1, <4>2, RestAt
      <3>4. Rest(A, c, n)
        <4>1. validate_attributes(Entries(c))
          BY <2>4, AcceptedMeans DEF Creates
        <4> QED
          BY <1>7, <1>8, <1>9, <1>10, <1>13, <2>4, <4>1 DEF RestOfToken, Accepted
      <3> QED
        BY <2>1, <3>2, <3>3, <3>4
    <2>5. CASE WithAttributes(c)
      <3> DEFINE q == MinimumRent[TOKEN_METADATA_ATTRIBUTES_MAX_LEN]
      <3>1. n = 2 /\ k = c.p.mint_authority
        BY <2>5, BuilderKinds DEF Creator
      <3>2. Achieved(before, B, c, 3)
        BY <2>2, <2>3, <2>5, <3>1, AchievedAt DEF MetadataAchieved
      <3>3. Rest(B, c, 3) <=> RestOfAttributes(B, c)
        BY <2>5, RestAt
      <3>4. CanPay(B, p, q) <=> CanPay(A, p, rest)
        <4>1. q \in Int /\ rest = r + q
          BY <1>10, <2>5, RentsAdd
        <4> HIDE DEF rest, q, p
        <4> QED
          BY <2>1, <4>1
      <3>5. Rest(A, c, n) <=> Rest(B, c, 3)
        BY <1>7, <1>8, <1>9, <1>13, <2>5, <3>3, <3>4
        DEF RestOfToken, RestOfAttributes, Accepted
      <3> QED
        BY <2>1, <3>1, <3>2, <3>5
    <2> QED
      BY <2>4, <2>5
  <1> QED
    BY <1>12, <1>13 DEF Carries, checks

LEMMA TokenAttributesCarry ==
    ASSUME NEW before, NEW A, NEW S, NEW c, Stage(before, A, S, c, 3), WithAttributes(c)
    PROVE  LET ix == BuiltInstructions(c)[4]
           IN  Carries(before, A, c, 3, CreateAttributesChecks(A, S, ix),
                       CreateAttributesEffect(A, ix))
  <1> DEFINE ix == BuiltInstructions(c)[4]
             m == c.p.mint
             p == c.p.payer
             k == c.p.mint_authority
             r == MinimumRent[TOKEN_METADATA_ATTRIBUTES_MAX_LEN]
             checks == CreateAttributesChecks(A, S, ix)
             B == CreateAttributesEffect(A, ix)
  <1>1. Creates(c) /\ ~Frozen(c) /\ ~Transfers(c) /\ Len(BuiltInstructions(c)) = 4
    BY BuilderKinds, TokenListing
  <1>2. /\ ix.op = "CreateAttributes" /\ ix.payer = p /\ ix.mint = m
        /\ ix.metadata = MetadataPda(m) /\ ix.attributes = AttributesPda(m)
        /\ ix.authority = k /\ ix.entries = c.p.attributes /\ ix.system_program = SystemProgram
    <2>1. ix = create_attributes_ix(p, m, k, c.p.attributes)
      BY <1>1, TokenListing
    <2> QED
      BY <2>1 DEF create_attributes_ix
  <1>3. /\ Legal(A) /\ Unclaimed(A) /\ m \in Mints /\ S \in SUBSET Keys
        /\ A \in [Address -> Account] /\ SignerMetas(ix) \subseteq S
        /\ ix \in Sent("CreateAttributes")
    BY <1>1, <1>2 DEF Stage, Legal, Sent
  <1>4. k \in Keys /\ k # NoKey /\ p \in Keys
    BY <1>2, <1>3, DerivedAddresses DEF SignerMetas
  <1>5. MetadataAchieved(A, c)
    BY AchievedAt DEF Stage
  <1>6. (Controls(A, m, k) <=> ~c.p.immutable) /\ ~AttributesExist(A, m)
    BY <1>4, <1>5 DEF MetadataAchieved, TokenIs, Controls
  <1>7. Passes(checks) <=>
          Controls(A, m, k) /\ ~EntriesRefused(c.p.attributes) /\ CanPay(A, p, r)
    BY <1>2, <1>3, <1>6, CreateAttributesWorks
  <1>8. validate_attributes(Entries(c)) <=> ~EntriesRefused(c.p.attributes)
    <2>1. c.p.attributes \in Seq(Entry)
      BY <1>2, <1>3, MeasuredTyped DEF Sent, EntryOps
    <2> QED
      BY <2>1, AcceptedMeans
  <1>9. Passes(checks) <=> Rest(A, c, 3)
    <2>1. Rest(A, c, 3) <=> RestOfAttributes(A, c)
      BY RestAt
    <2> QED
      BY <1>6, <1>7, <1>8, <2>1 DEF RestOfAttributes
  <1>10. Rest(B, c, 4)
    BY <1>1, RestAt DEF Stage
  <1> HIDE DEF checks
  <1>11. ASSUME Passes(checks)
         PROVE  Unclaimed(B) /\ Achieved(before, B, c, 4)
    <2>1. /\ Unclaimed(B)
          /\ B[AttributesPda(m)].data = NewAttributes(ix)
          /\ \A x \in Address \ {AttributesPda(m), p} : B[x] = A[x]
      BY <1>2, <1>3, <1>11, AttributesMade DEF checks
    <2> HIDE DEF B
    <2>2. MetadataPda(m) \in Address \ {AttributesPda(m), p}
      BY <1>3, <1>4, DerivedAddresses
    <2>3. TokenIs(B, m, c.p.text, IF c.p.immutable THEN NoKey ELSE Creator(c))
      <3>1. Creator(c) = k
        BY <1>1 DEF Creator
      <3> QED
        BY <1>5, <2>1, <2>2, <3>1
        DEF MetadataAchieved, TokenIs, MetadataExists, HoldsMetadata, Authority, UpdateAuthority
    <2>4. AttributesExist(B, m) /\ B[AttributesPda(m)].data.entries = c.p.attributes
      BY <1>2, <2>1 DEF AttributesExist, HoldsAttributes, NewAttributes
    <2>5. Done(before, B, c)
      <3>1. c.builder # "make_immutable"
        BY <1>1 DEF Creates
      <3> QED
        BY <1>1, <2>3, <2>4, <3>1 DEF Done
    <2> QED
      BY <2>1, <2>5, AchievedAt
  <1> QED
    BY <1>9, <1>10, <1>11 DEF Carries, checks

\* The builders of one instruction are all of the call at once.
LEMMA AloneReady ==
    ASSUME NEW A, NEW c, c.builder \in {"create_attributes", "replace_attributes", "make_immutable"}
    PROVE  /\ Len(BuiltInstructions(c)) = 1
           /\ \A B : Rest(B, c, 1)
           /\ \A before, B : Achieved(before, B, c, 1) <=> Done(before, B, c)
           /\ Rest(A, c, 0) <=> Accepted(c) /\ Ready(A, c)
           /\ ~Creates(c) /\ ~Transfers(c) /\ ~WithAttributes(c)
  <1>1. Len(BuiltInstructions(c)) = 1
    BY OtherListing
  <1>2. c.builder \in Builders
    BY DEF Builders
  <1>3. \A B : Rest(B, c, 1)
    BY <1>1, <1>2, RestAt
  <1> QED
    BY <1>1, <1>3, RestAt, AchievedAt, BuilderKinds

LEMMA AttributesCarry ==
    ASSUME NEW before, NEW A, NEW S, NEW c, Stage(before, A, S, c, 0),
           c.builder = "create_attributes"
    PROVE  LET ix == BuiltInstructions(c)[1]
           IN  Carries(before, A, c, 0, CreateAttributesChecks(A, S, ix),
                       CreateAttributesEffect(A, ix))
  <1> DEFINE ix == BuiltInstructions(c)[1]
             m == c.p.mint
             p == c.p.payer
             k == c.p.update_authority
             r == MinimumRent[TOKEN_METADATA_ATTRIBUTES_MAX_LEN]
             checks == CreateAttributesChecks(A, S, ix)
             B == CreateAttributesEffect(A, ix)
  <1>1. /\ ix.op = "CreateAttributes" /\ ix.payer = p /\ ix.mint = m
        /\ ix.metadata = MetadataPda(m) /\ ix.attributes = AttributesPda(m)
        /\ ix.authority = k /\ ix.entries = c.p.attributes /\ ix.system_program = SystemProgram
    <2>1. ix = create_attributes_ix(p, m, k, c.p.attributes)
      BY OtherListing
    <2> QED
      BY <2>1 DEF create_attributes_ix
  <1>2. /\ Rest(A, c, 0) <=> Accepted(c) /\ Ready(A, c)
        /\ Rest(B, c, 1) /\ Len(BuiltInstructions(c)) = 1
        /\ Achieved(before, B, c, 1) <=> Done(before, B, c)
        /\ ~Creates(c) /\ ~Transfers(c) /\ ~WithAttributes(c)
    BY AloneReady
  <1>3. /\ Legal(A) /\ Unclaimed(A) /\ m \in Mints /\ S \in SUBSET Keys
        /\ SignerMetas(ix) \subseteq S
        /\ ix \in Sent("CreateAttributes")
    BY <1>1, <1>2 DEF Stage, Sent
  <1>4. Passes(checks) <=>
          /\ Controls(A, m, k) /\ ~EntriesRefused(c.p.attributes)
          /\ ~AttributesExist(A, m) /\ CanPay(A, p, r)
    BY <1>1, <1>3, CreateAttributesWorks
  <1>5. Accepted(c) <=> ~EntriesRefused(c.p.attributes)
    <2>1. c.p.attributes \in Seq(Entry)
      BY <1>1, <1>3, MeasuredTyped DEF Sent, EntryOps
    <2> QED
      BY <1>2, <2>1, AcceptedMeans DEF Accepted
  <1>6. Ready(A, c) <=> Controls(A, m, k) /\ ~AttributesExist(A, m) /\ CanPay(A, p, r)
    BY <1>2, RentsAdd DEF Ready
  <1>7. Passes(checks) <=> Rest(A, c, 0)
    BY <1>2, <1>4, <1>5, <1>6
  <1> HIDE DEF checks
  <1>8. ASSUME Passes(checks)
        PROVE  Unclaimed(B) /\ Achieved(before, B, c, 1)
    <2>1. Unclaimed(B) /\ B[AttributesPda(m)].data = NewAttributes(ix)
      BY <1>1, <1>3, <1>8, AttributesMade DEF checks
    <2>2. B[AttributesPda(m)].data.entries = c.p.attributes
      BY <1>1, <2>1 DEF NewAttributes
    <2> HIDE DEF B
    <2>3. Done(before, B, c)
      BY <1>2, <2>2 DEF Done
    <2> QED
      BY <1>2, <2>1, <2>3 DEF B
  <1> QED
    BY <1>2, <1>7, <1>8 DEF Carries, checks

LEMMA ReplacementCarries ==
    ASSUME NEW before, NEW A, NEW S, NEW c, Stage(before, A, S, c, 0),
           c.builder = "replace_attributes"
    PROVE  LET ix == BuiltInstructions(c)[1]
           IN  Carries(before, A, c, 0, ReplaceAttributesChecks(A, S, ix),
                       ReplaceAttributesEffect(A, ix))
  <1> DEFINE ix == BuiltInstructions(c)[1]
             m == c.p.mint
             k == c.p.update_authority
             a == AttributesPda(m)
             checks == ReplaceAttributesChecks(A, S, ix)
             B == ReplaceAttributesEffect(A, ix)
             d == [A[a].data EXCEPT !.entries = ix.entries]
  <1>1. /\ ix.op = "ReplaceAttributes"
        /\ ix.metadata = MetadataPda(m) /\ ix.attributes = a
        /\ ix.authority = k /\ ix.entries = c.p.attributes
    <2>1. ix = replace_attributes_ix(m, k, c.p.attributes)
      BY OtherListing
    <2> QED
      BY <2>1 DEF replace_attributes_ix
  <1>2. /\ Rest(A, c, 0) <=> Accepted(c) /\ Ready(A, c)
        /\ Rest(B, c, 1) /\ Len(BuiltInstructions(c)) = 1
        /\ Achieved(before, B, c, 1) <=> Done(before, B, c)
        /\ ~Creates(c) /\ ~Transfers(c) /\ ~WithAttributes(c)
    BY AloneReady
  <1>3. /\ Legal(A) /\ Unclaimed(A) /\ m \in Mints /\ S \in SUBSET Keys
        /\ A \in [Address -> Account] /\ a \in Address
        /\ ix.authority \in S
        /\ ix \in Sent("ReplaceAttributes")
    BY <1>1, <1>2, DerivedAddresses DEF Stage, Sent, SignerMetas, Legal
  <1>4. Passes(checks) <=>
          Controls(A, m, k) /\ AttributesExist(A, m) /\ ~EntriesRefused(c.p.attributes)
    BY <1>1, <1>3, ReplaceAttributesWorks
  <1>5. Accepted(c) <=> ~EntriesRefused(c.p.attributes)
    <2>1. c.p.attributes \in Seq(Entry)
      BY <1>1, <1>3, MeasuredTyped DEF Sent, EntryOps
    <2> QED
      BY <1>2, <2>1, AcceptedMeans DEF Accepted
  <1>6. Ready(A, c) <=> Controls(A, m, k) /\ AttributesExist(A, m)
    BY <1>2 DEF Ready
  <1>7. Passes(checks) <=> Rest(A, c, 0)
    BY <1>2, <1>4, <1>5, <1>6
  <1>8. B = Rewritten(A, a, d)
    BY <1>1, <1>3 DEF ReplaceAttributesEffect, Rewritten
  <1> HIDE DEF checks
  <1>9. ASSUME Passes(checks)
        PROVE  Unclaimed(B) /\ Achieved(before, B, c, 1)
    <2>1. HoldsAttributes(A, a) /\ A[a].owner = MetadataProgram
      BY <1>3, <1>4, <1>9 DEF AttributesExist, Legal, Complete
    <2>2. d.entries = c.p.attributes
      <3>1. A[a].data \in TokenMetadataAttributes
        BY <1>3, <2>1, TypedData
      <3> QED
        BY <1>1, <3>1 DEF TokenMetadataAttributes
    <2>3. Unclaimed(B) /\ B[a].data = d
      <3>1. A[a].owner # SystemProgram
        BY <2>1, KeyAssumption
      <3> HIDE DEF d, B, a
      <3> QED
        BY <1>3, <1>8, <2>1, <3>1, RewrittenKeeps
    <2> HIDE DEF B, d
    <2>4. Done(before, B, c)
      BY <1>2, <2>2, <2>3 DEF Done
    <2> QED
      BY <1>2, <2>3, <2>4 DEF B
  <1> QED
    BY <1>2, <1>7, <1>9 DEF Carries, checks

\* Writing over the metadata of a mint.
LEMMA TokenRewritten ==
    ASSUME NEW A, Legal(A), Unclaimed(A), NEW m \in Mints, MetadataExists(A, m),
           NEW d, d.kind = "metadata"
    PROVE  LET B == Rewritten(A, MetadataPda(m), d)
           IN  /\ Unclaimed(B)
               /\ TokenIs(B, m, d.text, d.update_authority)
  <1> DEFINE a == MetadataPda(m)
             B == Rewritten(A, a, d)
  <1>1. a \in Address /\ A \in [Address -> Account]
    BY DerivedAddresses DEF Legal
  <1>2. A[a].owner = MetadataProgram /\ A[a].owner # SystemProgram
    BY <1>1, KeyAssumption DEF Legal, Complete, MetadataExists
  <1>3. Unclaimed(B) /\ B[a].data = d
    BY <1>1, <1>2, RewrittenKeeps
  <1> HIDE DEF B
  <1>4. TokenIs(B, m, d.text, d.update_authority)
    BY <1>3 DEF TokenIs, MetadataExists, HoldsMetadata, Authority, UpdateAuthority
  <1> QED
    BY <1>3, <1>4 DEF B

\* The last key of an authority change leaves the text as it is.
LEMMA AuthorityGiven ==
    ASSUME NEW A, Legal(A), Unclaimed(A), NEW m \in Mints, MetadataExists(A, m), NEW k
    PROVE  LET B == [A EXCEPT ![MetadataPda(m)].data.update_authority = k]
           IN  Unclaimed(B) /\ TokenIs(B, m, A[MetadataPda(m)].data.text, k)
  <1> DEFINE a == MetadataPda(m)
             d == [A[a].data EXCEPT !.update_authority = k]
             B == [A EXCEPT ![a].data.update_authority = k]
  <1>1. a \in Address /\ A \in [Address -> Account]
    BY DerivedAddresses DEF Legal
  <1>2. A[a].data \in TokenMetadata
    BY <1>1, TypedData DEF MetadataExists
  <1>3. d.kind = "metadata" /\ d.text = A[a].data.text /\ d.update_authority = k
    BY <1>2 DEF TokenMetadata
  <1>4. B = Rewritten(A, a, d)
    BY <1>1 DEF Rewritten
  <1> HIDE DEF d, B
  <1>5. Unclaimed(B) /\ TokenIs(B, m, d.text, d.update_authority)
    BY <1>3, <1>4, TokenRewritten
  <1> QED
    BY <1>3, <1>5 DEF B

LEMMA ImmutableCarries ==
    ASSUME NEW before, NEW A, NEW S, NEW c, Stage(before, A, S, c, 0),
           c.builder = "make_immutable"
    PROVE  LET ix == BuiltInstructions(c)[1]
           IN  Carries(before, A, c, 0, AuthorityChangeChecks(A, S, ix), MakeImmutableEffect(A, ix))
  <1> DEFINE ix == BuiltInstructions(c)[1]
             m == c.p.mint
             k == c.p.current_update_authority
             checks == AuthorityChangeChecks(A, S, ix)
             B == MakeImmutableEffect(A, ix)
  <1>1. ix.op = "MakeImmutable" /\ ix.metadata = MetadataPda(m) /\ ix.authority = k
    <2>1. ix = make_immutable_ix(m, k)
      BY OtherListing
    <2> QED
      BY <2>1 DEF make_immutable_ix
  <1>2. /\ Rest(A, c, 0) <=> Accepted(c) /\ Ready(A, c)
        /\ Rest(B, c, 1) /\ Len(BuiltInstructions(c)) = 1
        /\ Achieved(before, B, c, 1) <=> Done(before, B, c)
        /\ ~Creates(c) /\ ~Transfers(c) /\ ~WithAttributes(c)
    BY AloneReady
  <1>3. /\ Legal(A) /\ Unclaimed(A) /\ m \in Mints /\ S \in SUBSET Keys /\ ix.authority \in S
    BY <1>1, <1>2 DEF Stage, SignerMetas
  <1>4. Passes(checks) <=> Controls(A, m, k)
    BY <1>1, <1>3, AuthorityChangeWorks
  <1>5. Accepted(c)
    BY <1>2, AcceptedMeans DEF Accepted
  <1>6. Ready(A, c) <=> Controls(A, m, k)
    BY <1>2 DEF Ready
  <1>7. Passes(checks) <=> Rest(A, c, 0)
    BY <1>2, <1>4, <1>5, <1>6
  <1>8. A = before
    BY AchievedAt DEF Stage
  <1> HIDE DEF checks
  <1>9. ASSUME Passes(checks)
        PROVE  Unclaimed(B) /\ Achieved(before, B, c, 1)
    <2>1. MetadataExists(A, m)
      BY <1>4, <1>9 DEF Controls
    <2>2. Unclaimed(B) /\ TokenIs(B, m, before[MetadataPda(m)].data.text, NoKey)
      BY <1>1, <1>3, <1>8, <2>1, AuthorityGiven DEF MakeImmutableEffect
    <2> HIDE DEF B
    <2>3. Done(before, B, c)
      BY <1>2, <2>2 DEF Done
    <2> QED
      BY <1>2, <2>2, <2>3 DEF B
  <1> QED
    BY <1>2, <1>7, <1>9 DEF Carries, checks

LEMMA TransferCarries ==
    ASSUME NEW before, NEW A, NEW S, NEW c, Stage(before, A, S, c, 0), Transfers(c)
    PROVE  LET ix == BuiltInstructions(c)[1]
           IN  Carries(before, A, c, 0, AuthorityChangeChecks(A, S, ix),
                       TransferAuthorityEffect(A, ix))
  <1> DEFINE ix == BuiltInstructions(c)[1]
             m == c.p.mint
             k == c.p.current_update_authority
             checks == AuthorityChangeChecks(A, S, ix)
             B == TransferAuthorityEffect(A, ix)
  <1>1. /\ ix.op = "TransferAuthority" /\ ix.metadata = MetadataPda(m) /\ ix.authority = k
        /\ ix.new_authority = c.p.new_authority
    <2>1. ix = transfer_authority_ix(m, k, c.p.new_authority)
      BY OtherListing
    <2> QED
      BY <2>1 DEF transfer_authority_ix
  <1>2. ~Creates(c) /\ ~WithAttributes(c) /\ c.builder = "transfer_authority_then_update"
    BY BuilderKinds DEF Transfers
  <1>3. /\ Rest(A, c, 0) <=> Accepted(c) /\ Ready(A, c)
        /\ Rest(B, c, 1) <=> Accepted(c)
    BY RestAt
  <1>4. /\ Legal(A) /\ Unclaimed(A) /\ m \in Mints /\ S \in SUBSET Keys /\ ix.authority \in S
    BY <1>1 DEF Stage, SignerMetas
  <1>5. Passes(checks) <=> Controls(A, m, k)
    BY <1>1, <1>4, AuthorityChangeWorks
  <1>6. Ready(A, c) <=> Controls(A, m, k)
    BY <1>2 DEF Ready
  <1>7. A = before
    BY AchievedAt DEF Stage
  <1> HIDE DEF checks
  <1>8. ASSUME Passes(checks)
        PROVE  Unclaimed(B) /\ Achieved(before, B, c, 1)
    <2>1. MetadataExists(A, m)
      BY <1>5, <1>8 DEF Controls
    <2>2. Unclaimed(B) /\ TokenIs(B, m, before[MetadataPda(m)].data.text, c.p.new_authority)
      BY <1>1, <1>4, <1>7, <2>1, AuthorityGiven DEF TransferAuthorityEffect
    <2> HIDE DEF B
    <2> QED
      BY <2>2, AchievedAt
  <1> QED
    BY <1>3, <1>5, <1>6, <1>8 DEF Carries, checks

LEMMA UpdateCarries ==
    ASSUME NEW before, NEW A, NEW S, NEW c, Stage(before, A, S, c, 1), Transfers(c)
    PROVE  LET ix == BuiltInstructions(c)[2]
           IN  Carries(before, A, c, 1, UpdateMetadataChecks(A, S, ix), UpdateMetadataEffect(A, ix))
  <1> DEFINE ix == BuiltInstructions(c)[2]
             m == c.p.mint
             k == c.p.new_authority
             old == before[MetadataPda(m)].data.text
             checks == UpdateMetadataChecks(A, S, ix)
             B == UpdateMetadataEffect(A, ix)
             d == Updated(A, ix)
  <1>1. /\ ix.op = "UpdateMetadata" /\ ix.metadata = MetadataPda(m) /\ ix.authority = k
        /\ ix.text = c.p.text
    <2>1. ix = update_metadata_ix(m, k, c.p.text)
      BY OtherListing
    <2> QED
      BY <2>1 DEF update_metadata_ix
  <1>2. /\ ~Creates(c) /\ ~WithAttributes(c) /\ c.builder = "transfer_authority_then_update"
        /\ Len(BuiltInstructions(c)) = 2
    BY BuilderKinds, OtherListing DEF Transfers
  <1>3. Rest(A, c, 1) <=> Accepted(c)
    BY RestAt
  <1>4. Rest(B, c, 2)
    BY <1>2, RestAt DEF Stage
  <1>5. /\ Legal(A) /\ FitTexts(A) /\ Unclaimed(A) /\ m \in Mints /\ S \in SUBSET Keys
        /\ ix.authority \in S /\ ix \in Sent("UpdateMetadata")
        /\ A \in [Address -> Account]
    BY <1>1, <1>2 DEF Stage, SignerMetas, Sent, Legal
  <1>6. TokenIs(A, m, old, k)
    BY AchievedAt DEF Stage
  <1>7. Passes(checks) <=> ~TextTooLong(c.p.text)
    BY <1>1, <1>5, <1>6, UpdateMetadataWorks DEF TokenIs, Controls
  <1>8. Accepted(c) <=> ~TextTooLong(c.p.text)
    <2>1. c.p.text \in PartialText
      BY <1>1, <1>5, MeasuredTyped DEF Sent, TextOps
    <2> QED
      BY <1>2, <2>1, AcceptedMeans DEF Accepted
  <1>9. Unclaimed(B) /\ Achieved(before, B, c, 2)
    <2>1. MetadataExists(A, m) /\ A[MetadataPda(m)].data.text = old
          /\ A[MetadataPda(m)].data.update_authority = k
      BY <1>6 DEF TokenIs, MetadataExists, Authority, UpdateAuthority
    <2>2. d.kind = "metadata" /\ d.text = UpdatedText(old, c.p.text) /\ d.update_authority = k
      <3>1. A[MetadataPda(m)].data \in TokenMetadata
        BY <1>5, <2>1, TypedData, DerivedAddresses DEF MetadataExists
      <3> QED
        BY <1>1, <2>1, <3>1 DEF Updated, TokenMetadata
    <2>3. B = Rewritten(A, MetadataPda(m), d)
      BY <1>1 DEF UpdateMetadataEffect, Rewritten
    <2> HIDE DEF d, B, old
    <2>4. Unclaimed(B) /\ TokenIs(B, m, d.text, d.update_authority)
      BY <1>5, <2>1, <2>2, <2>3, TokenRewritten
    <2>5. TokenIs(B, m, UpdatedText(old, c.p.text), k)
      BY <2>2, <2>4
    <2>6. Done(before, B, c)
      BY <1>2, <2>5 DEF Done, old
    <2> QED
      BY <2>4, <2>6, AchievedAt
  <1> QED
    BY <1>3, <1>4, <1>7, <1>8, <1>9 DEF Carries

\* Where a call can be.
LEMMA Positions ==
    ASSUME NEW c, c.builder \in Builders, NEW n \in Nat, n < Len(BuiltInstructions(c))
    PROVE  \/ Creates(c) /\ n = 0
           \/ Creates(c) /\ n = 1
           \/ Frozen(c) /\ n = 2
           \/ Creates(c) /\ n = MintSteps(c)
           \/ WithAttributes(c) /\ n = 3
           \/ c.builder = "create_attributes" /\ n = 0
           \/ c.builder = "replace_attributes" /\ n = 0
           \/ c.builder = "make_immutable" /\ n = 0
           \/ Transfers(c) /\ n = 0
           \/ Transfers(c) /\ n = 1
  <1>1. CASE Creates(c)
    <2>1. MintSteps(c) = IF Frozen(c) THEN 3 ELSE 2
      BY DEF MintSteps
    <2>2. Len(BuiltInstructions(c)) = IF WithAttributes(c) THEN 4 ELSE MintSteps(c) + 1
      BY <1>1, TokenListing
    <2>3. WithAttributes(c) => ~Frozen(c)
      BY BuilderKinds
    <2> QED
      BY <1>1, <2>1, <2>2, <2>3
  <1>2. CASE Transfers(c)
    <2>1. Len(BuiltInstructions(c)) = 2
      BY <1>2, OtherListing
    <2> QED
      BY <1>2, <2>1
  <1>3. CASE c.builder \in {"create_attributes", "replace_attributes", "make_immutable"}
    <2>1. Len(BuiltInstructions(c)) = 1
      BY <1>3, OtherListing
    <2> QED
      BY <1>3, <2>1
  <1> QED
    BY <1>1, <1>2, <1>3 DEF Builders, Creates, Transfers

\* What the runtime makes of an instruction: it passes with its effect, or ends the call.
Ran(checks, effect) ==
    /\ outcome' \notin Errors => Passes(checks) /\ bank' = effect
    /\ outcome' \in Errors => ~Passes(checks)

LEMMA RanAs ==
    ASSUME NEW ix, Run(ix)
    PROVE  /\ ix.op = "CreateMetadata" =>
                Ran(CreateMetadataChecks(bank, signers, ix), CreateMetadataEffect(bank, ix))
           /\ ix.op = "UpdateMetadata" =>
                Ran(UpdateMetadataChecks(bank, signers, ix), UpdateMetadataEffect(bank, ix))
           /\ ix.op = "CreateAttributes" =>
                Ran(CreateAttributesChecks(bank, signers, ix), CreateAttributesEffect(bank, ix))
           /\ ix.op = "ReplaceAttributes" =>
                Ran(ReplaceAttributesChecks(bank, signers, ix), ReplaceAttributesEffect(bank, ix))
           /\ ix.op = "TransferAuthority" =>
                Ran(AuthorityChangeChecks(bank, signers, ix), TransferAuthorityEffect(bank, ix))
           /\ ix.op = "MakeImmutable" =>
                Ran(AuthorityChangeChecks(bank, signers, ix), MakeImmutableEffect(bank, ix))
           /\ ix.op = "CreateMintAccount" =>
                Ran(CreateMintAccountChecks(bank, signers, ix), CreateMintAccountEffect(bank, ix))
           /\ ix.op = "InitializeMint2" =>
                Ran(InitializeMint2Checks(bank, ix), InitializeMint2Effect(bank, ix))
           /\ ix.op = "SetMintAuthority" =>
                Ran(SetMintAuthorityChecks(bank, signers, ix), SetMintAuthorityEffect(bank, ix))
  <1>1. CASE outcome' \in Errors
    BY <1>1, RunFails DEF Ran
  <1>2. CASE outcome' \notin Errors
    BY <1>2, RunPasses DEF Ran
  <1> QED
    BY <1>1, <1>2

\* The kinds of the instructions a builder lists.
LEMMA BuiltOps ==
    ASSUME NEW c
    PROVE  /\ Creates(c) =>
                /\ BuiltInstructions(c)[1].op = "CreateMintAccount"
                /\ BuiltInstructions(c)[2].op = "InitializeMint2"
                /\ BuiltInstructions(c)[MintSteps(c) + 1].op = "CreateMetadata"
           /\ Frozen(c) => BuiltInstructions(c)[3].op = "SetMintAuthority"
           /\ WithAttributes(c) => BuiltInstructions(c)[4].op = "CreateAttributes"
           /\ c.builder = "create_attributes" => BuiltInstructions(c)[1].op = "CreateAttributes"
           /\ c.builder = "replace_attributes" => BuiltInstructions(c)[1].op = "ReplaceAttributes"
           /\ c.builder = "make_immutable" => BuiltInstructions(c)[1].op = "MakeImmutable"
           /\ Transfers(c) =>
                /\ BuiltInstructions(c)[1].op = "TransferAuthority"
                /\ BuiltInstructions(c)[2].op = "UpdateMetadata"
  <1>1. /\ \A p, m : create_mint_account_ix(p, m).op = "CreateMintAccount"
        /\ \A m, k, f : initialize_mint2_ix(m, k, f).op = "InitializeMint2"
        /\ \A m, k, n : set_mint_authority_ix(m, k, n).op = "SetMintAuthority"
        /\ \A p, m, k, t, i : create_metadata_ix(p, m, k, t, i).op = "CreateMetadata"
        /\ \A m, k, t : update_metadata_ix(m, k, t).op = "UpdateMetadata"
        /\ \A p, m, k, e : create_attributes_ix(p, m, k, e).op = "CreateAttributes"
        /\ \A m, k, e : replace_attributes_ix(m, k, e).op = "ReplaceAttributes"
        /\ \A m, k, n : transfer_authority_ix(m, k, n).op = "TransferAuthority"
        /\ \A m, k : make_immutable_ix(m, k).op = "MakeImmutable"
    BY DEF create_mint_account_ix, initialize_mint2_ix, set_mint_authority_ix, create_metadata_ix,
           update_metadata_ix, create_attributes_ix, replace_attributes_ix, transfer_authority_ix,
           make_immutable_ix
  <1>2. Creates(c) =>
          /\ BuiltInstructions(c)[1].op = "CreateMintAccount"
          /\ BuiltInstructions(c)[2].op = "InitializeMint2"
          /\ BuiltInstructions(c)[MintSteps(c) + 1].op = "CreateMetadata"
          /\ Frozen(c) => BuiltInstructions(c)[3].op = "SetMintAuthority"
          /\ WithAttributes(c) => BuiltInstructions(c)[4].op = "CreateAttributes"
    BY <1>1, TokenListing
  <1>3. /\ c.builder = "create_attributes" => BuiltInstructions(c)[1].op = "CreateAttributes"
        /\ c.builder = "replace_attributes" => BuiltInstructions(c)[1].op = "ReplaceAttributes"
        /\ c.builder = "make_immutable" => BuiltInstructions(c)[1].op = "MakeImmutable"
        /\ Transfers(c) =>
             /\ BuiltInstructions(c)[1].op = "TransferAuthority"
             /\ BuiltInstructions(c)[2].op = "UpdateMetadata"
    BY <1>1, OtherListing
  <1> QED
    BY <1>2, <1>3, BuilderKinds

\* The call goes on to its next instruction, or ends here.
CarriedOn(before, c, n) ==
    /\ outcome' \in Errors => ~Rest(bank, c, n)
    /\ outcome' \notin Errors =>
          /\ Unclaimed(bank')
          /\ Rest(bank, c, n) <=> Rest(bank', c, n + 1)
          /\ Achieved(before, bank', c, n + 1)

\* The next instruction of a call, whichever it is, carries it on or refuses it.
LEMMA StepCarries ==
    ASSUME NEW before, NEW c, NEW n, Stage(before, bank, signers, c, n),
           Run(BuiltInstructions(c)[n + 1])
    PROVE  CarriedOn(before, c, n)
  <1> DEFINE ix == BuiltInstructions(c)[n + 1]
  <1>1. ASSUME NEW checks, NEW effect, Carries(before, bank, c, n, checks, effect),
               Ran(checks, effect)
        PROVE  CarriedOn(before, c, n)
    BY <1>1 DEF Carries, Ran, CarriedOn
  <1>2. CASE Creates(c) /\ n = 0
    <2>1. ix.op = "CreateMintAccount"
      <3>1. ix = BuiltInstructions(c)[1]
        BY <1>2
      <3>2. BuiltInstructions(c)[1].op = "CreateMintAccount"
        BY <1>2, BuiltOps
      <3> QED
        BY <3>1, <3>2
    <2>2. Ran(CreateMintAccountChecks(bank, signers, ix), CreateMintAccountEffect(bank, ix))
      BY <2>1, RanAs
    <2>3. Carries(before, bank, c, n, CreateMintAccountChecks(bank, signers, ix),
                  CreateMintAccountEffect(bank, ix))
      BY <1>2, MintAccountCarries
    <2> HIDE DEF ix
    <2> QED
      BY <1>1, <2>2, <2>3
  <1>3. CASE Creates(c) /\ n = 1
    <2>1. ix.op = "InitializeMint2"
      <3>1. ix = BuiltInstructions(c)[2]
        BY <1>3
      <3>2. BuiltInstructions(c)[2].op = "InitializeMint2"
        BY <1>3, BuiltOps
      <3> QED
        BY <3>1, <3>2
    <2>2. Ran(InitializeMint2Checks(bank, ix), InitializeMint2Effect(bank, ix))
      BY <2>1, RanAs
    <2>3. Carries(before, bank, c, n, InitializeMint2Checks(bank, ix),
                  InitializeMint2Effect(bank, ix))
      BY <1>3, InitializeMintCarries
    <2> HIDE DEF ix
    <2> QED
      BY <1>1, <2>2, <2>3
  <1>4. CASE Frozen(c) /\ n = 2
    <2>1. ix.op = "SetMintAuthority"
      <3>1. ix = BuiltInstructions(c)[3]
        BY <1>4
      <3>2. BuiltInstructions(c)[3].op = "SetMintAuthority"
        BY <1>4, BuiltOps
      <3> QED
        BY <3>1, <3>2
    <2>2. Ran(SetMintAuthorityChecks(bank, signers, ix), SetMintAuthorityEffect(bank, ix))
      BY <2>1, RanAs
    <2>3. Carries(before, bank, c, n, SetMintAuthorityChecks(bank, signers, ix),
                  SetMintAuthorityEffect(bank, ix))
      BY <1>4, GiveUpCarries
    <2> HIDE DEF ix
    <2> QED
      BY <1>1, <2>2, <2>3
  <1>5. CASE Creates(c) /\ n = MintSteps(c)
    <2>1. ix.op = "CreateMetadata"
      <3>1. ix = BuiltInstructions(c)[MintSteps(c) + 1]
        BY <1>5
      <3>2. BuiltInstructions(c)[MintSteps(c) + 1].op = "CreateMetadata"
        BY <1>5, BuiltOps
      <3> QED
        BY <3>1, <3>2
    <2>2. Ran(CreateMetadataChecks(bank, signers, ix), CreateMetadataEffect(bank, ix))
      BY <2>1, RanAs
    <2>3. Carries(before, bank, c, n, CreateMetadataChecks(bank, signers, ix),
                  CreateMetadataEffect(bank, ix))
      BY <1>5, MetadataCarries
    <2> HIDE DEF ix
    <2> QED
      BY <1>1, <2>2, <2>3
  <1>6. CASE WithAttributes(c) /\ n = 3
    <2>1. ix.op = "CreateAttributes"
      <3>1. ix = BuiltInstructions(c)[4]
        BY <1>6
      <3>2. BuiltInstructions(c)[4].op = "CreateAttributes"
        BY <1>6, BuiltOps
      <3> QED
        BY <3>1, <3>2
    <2>2. Ran(CreateAttributesChecks(bank, signers, ix), CreateAttributesEffect(bank, ix))
      BY <2>1, RanAs
    <2>3. Carries(before, bank, c, n, CreateAttributesChecks(bank, signers, ix),
                  CreateAttributesEffect(bank, ix))
      BY <1>6, TokenAttributesCarry
    <2> HIDE DEF ix
    <2> QED
      BY <1>1, <2>2, <2>3
  <1>7. CASE c.builder = "create_attributes" /\ n = 0
    <2>1. ix.op = "CreateAttributes"
      <3>1. ix = BuiltInstructions(c)[1]
        BY <1>7
      <3>2. BuiltInstructions(c)[1].op = "CreateAttributes"
        BY <1>7, BuiltOps
      <3> QED
        BY <3>1, <3>2
    <2>2. Ran(CreateAttributesChecks(bank, signers, ix), CreateAttributesEffect(bank, ix))
      BY <2>1, RanAs
    <2>3. Carries(before, bank, c, n, CreateAttributesChecks(bank, signers, ix),
                  CreateAttributesEffect(bank, ix))
      BY <1>7, AttributesCarry
    <2> HIDE DEF ix
    <2> QED
      BY <1>1, <2>2, <2>3
  <1>8. CASE c.builder = "replace_attributes" /\ n = 0
    <2>1. ix.op = "ReplaceAttributes"
      <3>1. ix = BuiltInstructions(c)[1]
        BY <1>8
      <3>2. BuiltInstructions(c)[1].op = "ReplaceAttributes"
        BY <1>8, BuiltOps
      <3> QED
        BY <3>1, <3>2
    <2>2. Ran(ReplaceAttributesChecks(bank, signers, ix), ReplaceAttributesEffect(bank, ix))
      BY <2>1, RanAs
    <2>3. Carries(before, bank, c, n, ReplaceAttributesChecks(bank, signers, ix),
                  ReplaceAttributesEffect(bank, ix))
      BY <1>8, ReplacementCarries
    <2> HIDE DEF ix
    <2> QED
      BY <1>1, <2>2, <2>3
  <1>9. CASE c.builder = "make_immutable" /\ n = 0
    <2>1. ix.op = "MakeImmutable"
      <3>1. ix = BuiltInstructions(c)[1]
        BY <1>9
      <3>2. BuiltInstructions(c)[1].op = "MakeImmutable"
        BY <1>9, BuiltOps
      <3> QED
        BY <3>1, <3>2
    <2>2. Ran(AuthorityChangeChecks(bank, signers, ix), MakeImmutableEffect(bank, ix))
      BY <2>1, RanAs
    <2>3. Carries(before, bank, c, n, AuthorityChangeChecks(bank, signers, ix),
                  MakeImmutableEffect(bank, ix))
      BY <1>9, ImmutableCarries
    <2> HIDE DEF ix
    <2> QED
      BY <1>1, <2>2, <2>3
  <1>10. CASE Transfers(c) /\ n = 0
    <2>1. ix.op = "TransferAuthority"
      <3>1. ix = BuiltInstructions(c)[1]
        BY <1>10
      <3>2. BuiltInstructions(c)[1].op = "TransferAuthority"
        BY <1>10, BuiltOps
      <3> QED
        BY <3>1, <3>2
    <2>2. Ran(AuthorityChangeChecks(bank, signers, ix), TransferAuthorityEffect(bank, ix))
      BY <2>1, RanAs
    <2>3. Carries(before, bank, c, n, AuthorityChangeChecks(bank, signers, ix),
                  TransferAuthorityEffect(bank, ix))
      BY <1>10, TransferCarries
    <2> HIDE DEF ix
    <2> QED
      BY <1>1, <2>2, <2>3
  <1>11. CASE Transfers(c) /\ n = 1
    <2>1. ix.op = "UpdateMetadata"
      <3>1. ix = BuiltInstructions(c)[2]
        BY <1>11
      <3>2. BuiltInstructions(c)[2].op = "UpdateMetadata"
        BY <1>11, BuiltOps
      <3> QED
        BY <3>1, <3>2
    <2>2. Ran(UpdateMetadataChecks(bank, signers, ix), UpdateMetadataEffect(bank, ix))
      BY <2>1, RanAs
    <2>3. Carries(before, bank, c, n, UpdateMetadataChecks(bank, signers, ix),
                  UpdateMetadataEffect(bank, ix))
      BY <1>11, UpdateCarries
    <2> HIDE DEF ix
    <2> QED
      BY <1>1, <2>2, <2>3
  <1>12. c.builder \in Builders /\ n \in Nat /\ n < Len(BuiltInstructions(c))
    BY DEF Stage
  <1> QED
    BY <1>2, <1>3, <1>4, <1>5, <1>6, <1>7, <1>8, <1>9, <1>10, <1>11, <1>12, Positions

-----------------------------------------------------------------------------
(* The calls on the node *)

LEMMA BuildersInit == NodeInit => BuildersKept
  <1> SUFFICES ASSUME NodeInit PROVE BuildersKept
    OBVIOUS
  <1>1. running = NoTx /\ bank = ledger
    BY DEF NodeInit, Init
  <1>2. Unclaimed(ledger)
    <2> SUFFICES ASSUME NEW m \in Mints, NEW a \in {MetadataPda(m), AttributesPda(m)}
                 PROVE  ledger[a] = Vacant
      BY DEF Unclaimed
    <2>1. a \in Address /\ a \notin Keys
      BY DerivedAddresses
    <2>2. a \notin Wallets
      BY <2>1 DEF Keys
    <2> QED
      BY <2>1, <2>2 DEF NodeInit, Init
  <1> QED
    BY <1>1, <1>2 DEF BuildersKept

\* A transaction of the node is the call it was built for, signed by all who must.
LEMMA TransactionIsBuilt ==
    ASSUME NEW tx \in Transactions
    PROVE  LET c == tx.call
               ixs == BuiltInstructions(c)
           IN  /\ c.builder \in Builders /\ c.p.mint \in Mints
               /\ tx.instructions = ixs
               /\ \A i \in 1..Len(ixs) :
                     ixs[i] \in Instructions /\ SignerMetas(ixs[i]) \subseteq tx.signers
               /\ Len(ixs) \in Nat /\ Len(ixs) > 0
               /\ tx.signers \in SUBSET Keys
  <1> DEFINE c == tx.call
             ixs == BuiltInstructions(c)
  <1>1. /\ c.builder \in Builders /\ c.p.mint \in Mints
        /\ tx = TransactionOf(c)
    BY CallsAssumption
  <1>2. /\ tx.instructions = ixs
        /\ tx.signers = UNION {SignerMetas(ix) : ix \in ToSet(ixs)}
    BY <1>1 DEF TransactionOf
  <1>3. /\ tx.signers \in SUBSET Keys
        /\ tx.instructions \in Seq(Instructions)
        /\ Len(tx.instructions) \in 1..MaxInstructions
    BY TransactionsAssumption
  <1> HIDE DEF ixs, c
  <1>4. Len(ixs) \in Nat /\ Len(ixs) > 0
    BY <1>2, <1>3, MaxInstructionsAssumption
  <1>5. ASSUME NEW i \in 1..Len(ixs)
        PROVE  ixs[i] \in Instructions /\ SignerMetas(ixs[i]) \subseteq tx.signers
    <2>1. ixs[i] \in ToSet(ixs)
      BY <1>2, <1>3, <1>4 DEF ToSet
    <2> QED
      BY <1>2, <1>3, <1>4, <2>1
  <1> QED
    BY <1>1, <1>2, <1>3, <1>4, <1>5 DEF ixs, c

\* At the start nothing is done and everything is asked.
LEMMA CallStarts ==
    ASSUME NEW A, NEW c, c.builder \in Builders
    PROVE  /\ Accepted(c) /\ Ready(A, c) <=> Rest(A, c, 0)
           /\ Achieved(A, A, c, 0)
  BY RestAt, AchievedAt

\* One instruction of the running call.
LEMMA AdvanceCarries ==
    ASSUME IInv, NodeTypeOK, TextsFit, BuildersKept, Advance
    PROVE  LET c == running.call
           IN  /\ ledger' = ledger /\ running # NoTx
               /\ outcome' \in Errors =>
                    /\ ~(Accepted(c) /\ Ready(ledger, c))
                    /\ running' = NoTx /\ bank' = ledger /\ running \in failed'
               /\ outcome' \notin Errors =>
                    /\ running' = running
                    /\ executed' = executed + 1 /\ executed < Len(running.instructions)
                    /\ Unclaimed(bank')
                    /\ Accepted(c) /\ Ready(ledger, c) <=> Rest(bank', c, executed')
                    /\ Achieved(ledger, bank', c, executed')
  <1> DEFINE c == running.call
             ixs == BuiltInstructions(c)
             ix == ixs[executed + 1]
  <1>1. /\ running \in Transactions /\ running # NoTx /\ executed \in Nat
        /\ executed < Len(running.instructions) /\ Run(running.instructions[executed + 1])
        /\ running' = IF outcome' = "open" THEN running ELSE NoTx
        /\ failed' = IF outcome' = "open" THEN failed ELSE failed \cup {running}
        /\ signers = running.signers
    BY MaxInstructionsAssumption DEF Advance, NodeTypeOK, IInv, TypeOK
  <1>2. /\ c.builder \in Builders /\ c.p.mint \in Mints /\ running.instructions = ixs
        /\ \A i \in 1..Len(ixs) : ixs[i] \in Instructions /\ SignerMetas(ixs[i]) \subseteq signers
        /\ Len(ixs) \in Nat
        /\ signers \in SUBSET Keys
    BY <1>1, TransactionIsBuilt
  <1>3. /\ Unclaimed(bank)
        /\ Accepted(c) /\ Ready(ledger, c) <=> Rest(bank, c, executed)
        /\ Achieved(ledger, bank, c, executed)
    BY <1>1 DEF BuildersKept
  <1>4. Run(ix) /\ SignerMetas(ix) \subseteq signers
    <2>1. executed + 1 \in 1..Len(ixs)
      BY <1>1, <1>2
    <2> QED
      BY <1>1, <1>2, <2>1
  <1>5. Stage(ledger, bank, signers, c, executed)
    BY <1>1, <1>2, <1>3, <1>4 DEF Stage, IInv, TextsFit
  <1>6. /\ outcome' \in Errors => ~Rest(bank, c, executed)
        /\ outcome' \notin Errors =>
             /\ Unclaimed(bank')
             /\ Rest(bank, c, executed) <=> Rest(bank', c, executed + 1)
             /\ Achieved(ledger, bank', c, executed + 1)
    BY <1>4, <1>5, StepCarries DEF CarriedOn
  <1>7. /\ Open /\ ledger' = ledger
        /\ outcome' \in Errors => bank' = ledger
        /\ outcome' \notin Errors => outcome' = "open" /\ executed' = executed + 1
    BY <1>4, RunEnds DEF Open, Errors
  <1>8. outcome' \in Errors => outcome' # "open"
    BY DEF Errors
  <1> HIDE DEF c, ixs, ix
  <1>9. outcome' \in Errors =>
           /\ ~(Accepted(c) /\ Ready(ledger, c))
           /\ running' = NoTx /\ bank' = ledger /\ running \in failed'
    BY <1>1, <1>3, <1>6, <1>7, <1>8
  <1>10. outcome' \notin Errors =>
           /\ running' = running
           /\ executed' = executed + 1 /\ executed < Len(running.instructions)
           /\ Unclaimed(bank')
           /\ Accepted(c) /\ Ready(ledger, c) <=> Rest(bank', c, executed')
           /\ Achieved(ledger, bank', c, executed')
    BY <1>1, <1>3, <1>6, <1>7
  <1> QED
    BY <1>1, <1>7, <1>9, <1>10 DEF c

LEMMA BuildersNext ==
    ASSUME IInv, NodeTypeOK, TextsFit, BuildersKept, [NodeNext]_nodeVars
    PROVE  BuildersKept'
  <1>1. ASSUME NEW tx \in Transactions, Receive(tx) PROVE BuildersKept'
    BY <1>1 DEF Receive, vars, BuildersKept
  <1>2. ASSUME NEW tx \in pending, Start(tx) PROVE BuildersKept'
    <2>1. /\ running' = tx /\ tx \in Transactions /\ ledger' = ledger
          /\ bank' = ledger /\ bank = ledger /\ executed' = 0
      BY <1>2 DEF Start, Begin, IInv, NodeTypeOK
    <2>2. /\ tx.call.builder \in Builders
          /\ tx.instructions = BuiltInstructions(tx.call) /\ 0 <= Len(tx.instructions)
      BY <2>1, TransactionIsBuilt
    <2>3. /\ Accepted(tx.call) /\ Ready(ledger, tx.call) <=> Rest(ledger, tx.call, 0)
          /\ Achieved(ledger, ledger, tx.call, 0)
      BY <2>2, CallStarts
    <2>4. Unclaimed(ledger)
      BY DEF BuildersKept
    <2> QED
      BY <2>1, <2>2, <2>3, <2>4 DEF BuildersKept
  <1>3. ASSUME Advance PROVE BuildersKept'
    <2>1. Unclaimed(ledger) /\ ledger' = ledger
      BY <1>3, AdvanceCarries DEF BuildersKept
    <2>2. CASE outcome' \in Errors
      <3>1. running' = NoTx /\ bank' = ledger
        BY <1>3, <2>2, AdvanceCarries
      <3> QED
        BY <2>1, <3>1 DEF BuildersKept
    <2>3. CASE outcome' \notin Errors
      <3> DEFINE c == running.call
      <3>1. /\ running' = running /\ running # NoTx
            /\ executed' = executed + 1 /\ executed < Len(running.instructions)
            /\ Unclaimed(bank')
            /\ Accepted(c) /\ Ready(ledger, c) <=> Rest(bank', c, executed')
            /\ Achieved(ledger, bank', c, executed')
        BY <1>3, <2>3, AdvanceCarries
      <3>2. executed' <= Len(running.instructions)
        <4>1. executed \in Nat /\ running \in Transactions
          BY <3>1, MaxInstructionsAssumption DEF IInv, TypeOK, NodeTypeOK
        <4>2. Len(running.instructions) \in Nat
          BY <4>1, TransactionIsBuilt
        <4> QED
          BY <3>1, <4>1, <4>2
      <3> QED
        BY <2>1, <3>1, <3>2 DEF BuildersKept
    <2> QED
      BY <2>2, <2>3
  <1>4. ASSUME Finish PROVE BuildersKept'
    BY <1>4 DEF Finish, Commit, BuildersKept
  <1>5. CASE UNCHANGED nodeVars
    BY <1>5 DEF nodeVars, vars, node, BuildersKept
  <1> QED
    BY <1>1, <1>2, <1>3, <1>4, <1>5 DEF NodeNext, Work

\* What the proofs about calls rest on.
LEMMA CallsInvariants == NodeSafety => [](IInv /\ NodeTypeOK /\ TextsFit /\ BuildersKept)
  <1>1. IInv /\ NodeTypeOK /\ TextsFit /\ BuildersKept /\ [NodeNext]_nodeVars => BuildersKept'
    BY BuildersNext
  <1>2. NodeSafety => []TextsFit
    BY NodeRunsLedger, StoredTextsFit, PTL
  <1> QED
    BY <1>1, <1>2, BuildersInit, NodeInvariants, PTL DEF NodeSafety

\* In the middle of every transaction, however many came before it and whatever they left,
\* what is done is what its first instructions are for, and the rest of it can be done
\* exactly when all of it could when the node took it up.
THEOREM BuildersAccounted == NodeSafety => []BuildersKept
  BY CallsInvariants, PTL

\* A transaction a builder returns works exactly when its validators accept its sizes and
\* the token, or the room for it, is there as its parameters say; then the token is what
\* the builder is for.  So for every parameter, every text and every history.
THEOREM BuiltTransactionsDeliver == NodeSafety => BuildersDeliver
  <1> DEFINE c == running.call
             ready == Accepted(c) /\ Ready(ledger, c)
             Delivered == IF running \in failed' THEN ~ready
                          ELSE ready /\ Done(ledger, ledger', c)
  <1>1. ASSUME IInv, NodeTypeOK, TextsFit, BuildersKept, NodeNext, Ends
        PROVE  Delivered
    <2>1. running \in Transactions /\ running # NoTx /\ running' = NoTx
      BY <1>1 DEF Ends, NodeTypeOK
    <2>2. ASSUME NEW tx \in Transactions, Receive(tx) PROVE FALSE
      BY <2>1, <2>2 DEF Receive
    <2>3. ASSUME NEW tx \in pending, Start(tx) PROVE FALSE
      BY <2>1, <2>3 DEF Start
    <2>4. CASE Advance
      <3>1. outcome' \in Errors
        BY <1>1, <2>1, <2>4, AdvanceCarries
      <3>2. running \in failed' /\ ~ready
        BY <1>1, <2>4, <3>1, AdvanceCarries
      <3> HIDE DEF ready
      <3> QED
        BY <3>2
    <2>5. CASE Finish
      <3>1. /\ running \notin failed' /\ ledger' = bank
            /\ executed = Len(running.instructions)
        BY <1>1, <2>1, <2>5 DEF Finish, Commit, NodeTypeOK, Decided, Status
      <3>2. /\ c.builder \in Builders /\ running.instructions = BuiltInstructions(c)
            /\ Len(BuiltInstructions(c)) \in Nat
        BY <2>1, TransactionIsBuilt
      <3>3. ready <=> Rest(bank, c, executed)
        BY <1>1, <2>1 DEF BuildersKept
      <3>4. Achieved(ledger, bank, c, executed)
        BY <1>1, <2>1 DEF BuildersKept
      <3> HIDE DEF ready, c
      <3>5. Rest(bank, c, executed)
        BY <3>1, <3>2, RestAt
      <3>6. Done(ledger, bank, c)
        BY <3>1, <3>2, <3>4 DEF Achieved
      <3> QED
        BY <3>1, <3>3, <3>5, <3>6
    <2> QED
      BY <1>1, <2>2, <2>3, <2>4, <2>5 DEF NodeNext, Work
  <1>2. IInv /\ NodeTypeOK /\ TextsFit /\ BuildersKept /\ [NodeNext]_nodeVars
          => [Ends => Delivered]_nodeVars
    BY <1>1
  <1> HIDE DEF Delivered
  <1>3. NodeSafety => [][Ends => Delivered]_nodeVars
    BY <1>2, CallsInvariants, PTL DEF NodeSafety
  <1> QED
    BY <1>3 DEF BuildersDeliver, Delivered

-----------------------------------------------------------------------------
(* TypeScriptClient *)

\* A text the TypeScript validators accept, and no part of which is wide, fits.
LEMMA NarrowTextFits ==
    ASSUME NEW c, Texts(c) \in PartialText, Builds(c), ~Wide(c)
    PROVE  ~TextTooLong(Texts(c))
  <1> DEFINE text == Texts(c)
  <1> SUFFICES ASSUME NEW f \in DOMAIN text, ByteLen[text[f]] > FieldMaxLen[f]
               PROVE  FALSE
    BY DEF TextTooLong
  <1>1. f \in Field /\ text[f] \in Text
    BY DEF PartialText
  <1> DEFINE bytes == ByteLen[text[f]]
             units == Units[text[f]]
             max == FieldMaxLen[f]
  <1>2. bytes \in Nat /\ units \in Nat /\ max \in Nat /\ bytes > max
    BY <1>1, TextAssumption, UnitsAssumption, FieldsBounded DEF FieldBounds
  <1>3. ~(units < bytes)
    BY DEF Wide
  <1>4. units # 0 => units <= max
    <2>1. CASE Creates(c)
      BY <1>1, <2>1 DEF Builds, validateMetadataFields
    <2>2. CASE ~Creates(c)
      BY <2>2 DEF Builds, validateOptionalMetadataFields
    <2> QED
      BY <2>1, <2>2
  <1> HIDE DEF bytes, units, max
  <1> QED
    BY <1>2, <1>3, <1>4

\* The same of entries.
LEMMA NarrowEntriesFit ==
    ASSUME NEW c, Entries(c) \in Seq(Entry), Builds(c), ~Wide(c)
    PROVE  ~EntriesRefused(Entries(c))
  <1> DEFINE entries == Entries(c)
  <1>1. validateAttributes(entries)
    BY DEF Builds
  <1>2. ASSUME NEW i \in DOMAIN entries, NEW j \in {1, 2}, NEW max \in Nat,
               Units[entries[i][j]] # 0, Units[entries[i][j]] <= max
        PROVE  ByteLen[entries[i][j]] \in 1..max
    <2> DEFINE bytes == ByteLen[entries[i][j]]
               units == Units[entries[i][j]]
    <2>1. entries[i] \in Text \X Text
      BY DEF Entry
    <2>2. bytes \in Nat /\ units \in Nat /\ units <= bytes
      BY <2>1, TextAssumption, UnitsAssumption
    <2>3. ~(units < bytes)
      BY <1>2 DEF Wide
    <2>4. units # 0 /\ units <= max
      BY <1>2
    <2> HIDE DEF bytes, units
    <2>5. bytes \in 1..max
      BY <2>2, <2>3, <2>4
    <2> QED
      BY <2>5 DEF bytes
  <1>3. MAX_KEY_LENGTH \in Nat /\ MAX_VALUE_LENGTH \in Nat
    BY DEF MAX_KEY_LENGTH, MAX_VALUE_LENGTH
  <1>4. ASSUME NEW i \in DOMAIN entries
        PROVE  /\ ByteLen[entries[i][1]] \in 1..MAX_KEY_LENGTH
               /\ ByteLen[entries[i][2]] \in 1..MAX_VALUE_LENGTH
    <2>1. /\ Units[entries[i][1]] # 0 /\ Units[entries[i][1]] <= MAX_KEY_LENGTH
          /\ Units[entries[i][2]] # 0 /\ Units[entries[i][2]] <= MAX_VALUE_LENGTH
      BY <1>1 DEF validateAttributes
    <2>2. ByteLen[entries[i][1]] \in 1..MAX_KEY_LENGTH
      BY <1>2, <1>3, <2>1
    <2>3. ByteLen[entries[i][2]] \in 1..MAX_VALUE_LENGTH
      BY <1>2, <1>3, <2>1
    <2> QED
      BY <2>2, <2>3
  <1>5. validate_attributes(entries)
    BY <1>1, <1>4 DEF validateAttributes, validate_attributes
  <1> QED
    BY <1>5, AttributesValidatorExact

\* The TypeScript validators never refuse what the program would accept: the hazard is on
\* one side only, a transaction that is sent and fails.
THEOREM TypeScriptNeverStricter ==
    ASSUME NEW c, Texts(c) \in PartialText, Entries(c) \in Seq(Entry),
           Creates(c) => Texts(c) \in [Field -> Text], Accepted(c)
    PROVE  Builds(c)
  <1>1. ASSUME NEW f \in DOMAIN Texts(c) PROVE Units[Texts(c)[f]] <= FieldMaxLen[f]
    <2> DEFINE bytes == ByteLen[Texts(c)[f]]
               units == Units[Texts(c)[f]]
               max == FieldMaxLen[f]
    <2>1. f \in Field /\ Texts(c)[f] \in Text
      BY DEF PartialText
    <2>2. bytes \in Nat /\ units \in Nat /\ max \in Nat /\ units <= bytes
      BY <2>1, TextAssumption, UnitsAssumption, FieldsBounded DEF FieldBounds
    <2>3. bytes <= max
      BY DEF Accepted, validate_metadata_fields
    <2> HIDE DEF bytes, units, max
    <2>4. units <= max
      BY <2>2, <2>3
    <2> QED
      BY <2>4 DEF units, max
  <1>2. ASSUME NEW i \in DOMAIN Entries(c), NEW j \in {1, 2}, NEW max \in Nat,
               ByteLen[Entries(c)[i][j]] \in 1..max
        PROVE  Units[Entries(c)[i][j]] # 0 /\ Units[Entries(c)[i][j]] <= max
    <2> DEFINE bytes == ByteLen[Entries(c)[i][j]]
               units == Units[Entries(c)[i][j]]
    <2>1. Entries(c)[i] \in Text \X Text
      BY DEF Entry
    <2>2. bytes \in Nat /\ units \in Nat /\ units <= bytes /\ (units = 0 => bytes = 0)
      BY <2>1, TextAssumption, UnitsAssumption
    <2>3. bytes \in 1..max
      BY <1>2
    <2> HIDE DEF bytes, units
    <2>4. units # 0 /\ units <= max
      BY <2>2, <2>3
    <2> QED
      BY <2>4 DEF units
  <1>3. validateAttributes(Entries(c))
    <2>1. MAX_KEY_LENGTH \in Nat /\ MAX_VALUE_LENGTH \in Nat
      BY DEF MAX_KEY_LENGTH, MAX_VALUE_LENGTH
    <2>2. validate_attributes(Entries(c))
      BY DEF Accepted
    <2>3. ASSUME NEW i \in DOMAIN Entries(c)
          PROVE  /\ Units[Entries(c)[i][1]] # 0 /\ Units[Entries(c)[i][1]] <= MAX_KEY_LENGTH
                 /\ Units[Entries(c)[i][2]] # 0 /\ Units[Entries(c)[i][2]] <= MAX_VALUE_LENGTH
      <3>1. /\ ByteLen[Entries(c)[i][1]] \in 1..MAX_KEY_LENGTH
            /\ ByteLen[Entries(c)[i][2]] \in 1..MAX_VALUE_LENGTH
        BY <2>2 DEF validate_attributes
      <3>2. Units[Entries(c)[i][1]] # 0 /\ Units[Entries(c)[i][1]] <= MAX_KEY_LENGTH
        BY <1>2, <2>1, <3>1
      <3>3. Units[Entries(c)[i][2]] # 0 /\ Units[Entries(c)[i][2]] <= MAX_VALUE_LENGTH
        BY <1>2, <2>1, <3>1
      <3> QED
        BY <3>2, <3>3
    <2> QED
      BY <2>2, <2>3 DEF validateAttributes, validate_attributes
  <1> QED
    BY <1>1, <1>3 DEF Builds, validateMetadataFields, validateOptionalMetadataFields

\* Whatever the TypeScript SDK builds, in whatever order it arrives, is refused for a size
\* only when one of its strings has more bytes than units.
THEOREM OnlyWideRefused == NodeSafety => OnlyWideTextRefused
  <1>1. ASSUME IInv, NodeTypeOK, executed \in Nat, [NodeNext]_nodeVars
        PROVE  RefusedForSize => Wide(running.call)
    <2> SUFFICES ASSUME RefusedForSize PROVE Wide(running.call)
      OBVIOUS
    <2>1. Builds(running.call)
      BY <1>1, TypeScriptAssumption DEF RefusedForSize, Ends, NodeTypeOK
    <2> QED
      BY <1>1, <2>1, RefusedIsOversize, NarrowTextFits, NarrowEntriesFit
  <1>2. NodeSafety => [](IInv /\ NodeTypeOK /\ executed \in Nat)
    <2>1. TypeOK => executed \in Nat
      BY MaxInstructionsAssumption DEF TypeOK
    <2> QED
      BY <2>1, NodeInvariants, NodeRunsLedger, TypeCorrect, PTL
  <1> QED
    BY <1>1, <1>2, PTL DEF NodeSafety, OnlyWideTextRefused

\* The program's instructions carry what the validators measure, so it is of these types.
LEMMA ParametersTyped ==
    ASSUME NEW tx \in Transactions
    PROVE  Texts(tx.call) \in PartialText /\ Entries(tx.call) \in Seq(Entry)
  <1> DEFINE c == tx.call
             ixs == BuiltInstructions(c)
  <1>1. /\ c.builder \in Builders /\ c.p.mint \in Mints
        /\ \A i \in 1..Len(ixs) : ixs[i] \in Instructions
    BY TransactionIsBuilt
  <1> HIDE DEF c
  <1>2. <<>> \in PartialText /\ <<>> \in Seq(Entry)
    BY DEF PartialText
  <1>3. ASSUME NEW ix \in Instructions
        PROVE  /\ ix.op \in {"CreateMetadata", "UpdateMetadata"} => ix.text \in PartialText
               /\ ix.op \in {"CreateAttributes", "ReplaceAttributes"} => ix.entries \in Seq(Entry)
    BY <1>3, MeasuredTyped DEF TextOps, EntryOps
  <1>4. Creates(c) => c.p.text \in PartialText
    BY <1>1, TokenParameters
  <1>5. Transfers(c) => c.p.text \in PartialText
    <2> SUFFICES ASSUME Transfers(c) PROVE c.p.text \in PartialText
      OBVIOUS
    <2> DEFINE ix == update_metadata_ix(c.p.mint, c.p.new_authority, c.p.text)
    <2>1. ix \in Instructions
      BY <1>1, OtherListing
    <2>2. ix.op = "UpdateMetadata" /\ ix.text = c.p.text
      BY DEF update_metadata_ix
    <2> HIDE DEF ix
    <2> QED
      BY <1>3, <2>1, <2>2
  <1>6. WithAttributes(c) => c.p.attributes \in Seq(Entry)
    <2> SUFFICES ASSUME WithAttributes(c) PROVE c.p.attributes \in Seq(Entry)
      OBVIOUS
    <2> DEFINE ix == create_attributes_ix(c.p.payer, c.p.mint, c.p.mint_authority,
                                          c.p.attributes)
    <2>1. ix \in Instructions
      BY <1>1, BuilderKinds, TokenListing
    <2>2. ix.op = "CreateAttributes" /\ ix.entries = c.p.attributes
      BY DEF create_attributes_ix
    <2> HIDE DEF ix
    <2> QED
      BY <1>3, <2>1, <2>2
  <1>7. c.builder = "create_attributes" => c.p.attributes \in Seq(Entry)
    <2> SUFFICES ASSUME c.builder = "create_attributes" PROVE c.p.attributes \in Seq(Entry)
      OBVIOUS
    <2> DEFINE ix == create_attributes_ix(c.p.payer, c.p.mint, c.p.update_authority,
                                          c.p.attributes)
    <2>1. ix \in Instructions
      BY <1>1, OtherListing
    <2>2. ix.op = "CreateAttributes" /\ ix.entries = c.p.attributes
      BY DEF create_attributes_ix
    <2> HIDE DEF ix
    <2> QED
      BY <1>3, <2>1, <2>2
  <1>8. c.builder = "replace_attributes" => c.p.attributes \in Seq(Entry)
    <2> SUFFICES ASSUME c.builder = "replace_attributes" PROVE c.p.attributes \in Seq(Entry)
      OBVIOUS
    <2> DEFINE ix == replace_attributes_ix(c.p.mint, c.p.update_authority, c.p.attributes)
    <2>1. ix \in Instructions
      BY <1>1, OtherListing
    <2>2. ix.op = "ReplaceAttributes" /\ ix.entries = c.p.attributes
      BY DEF replace_attributes_ix
    <2> HIDE DEF ix
    <2> QED
      BY <1>3, <2>1, <2>2
  <1>9. Texts(c) \in PartialText
    BY <1>2, <1>4, <1>5 DEF Texts
  <1>10. Entries(c) \in Seq(Entry)
    BY <1>2, <1>6, <1>7, <1>8 DEF Entries
  <1> QED
    BY <1>9, <1>10 DEF c

\* A transaction the TypeScript SDK builds of strings that are not wide succeeds exactly when
\* the token, or the room for it, was there as its parameters say, and does what it is for.
THEOREM NarrowTransactionsDeliver ==
    NodeSafety =>
      [][Ends /\ ~Wide(running.call) =>
           LET c == running.call
           IN  IF running \in failed' THEN ~Ready(ledger, c)
               ELSE Ready(ledger, c) /\ Done(ledger, ledger', c)]_nodeVars
  <1> DEFINE c == running.call
             Delivered == IF running \in failed' THEN ~(Accepted(c) /\ Ready(ledger, c))
                          ELSE Accepted(c) /\ Ready(ledger, c) /\ Done(ledger, ledger', c)
             Narrow == IF running \in failed' THEN ~Ready(ledger, c)
                       ELSE Ready(ledger, c) /\ Done(ledger, ledger', c)
  <1>1. ASSUME NodeTypeOK, Ends, ~Wide(c)
        PROVE  Accepted(c)
    <2>1. running \in Transactions
      BY <1>1 DEF Ends, NodeTypeOK
    <2>2. Texts(c) \in PartialText /\ Entries(c) \in Seq(Entry) /\ Builds(c)
      BY <2>1, ParametersTyped, TypeScriptAssumption
    <2> HIDE DEF c
    <2>3. ~TextTooLong(Texts(c)) /\ ~EntriesRefused(Entries(c))
      BY <1>1, <2>2, NarrowTextFits, NarrowEntriesFit
    <2> QED
      BY <2>2, <2>3, MetadataValidatorExact, AttributesValidatorExact DEF Accepted
  <1>2. NodeTypeOK /\ [Ends => Delivered]_nodeVars => [Ends /\ ~Wide(c) => Narrow]_nodeVars
    <2> SUFFICES ASSUME NodeTypeOK, Ends, Ends => Delivered, ~Wide(c) PROVE Narrow
      OBVIOUS
    <2>1. Accepted(c)
      BY <1>1
    <2> HIDE DEF c
    <2> QED
      BY <2>1
  <1> HIDE DEF Delivered, Narrow, c
  <1>3. NodeSafety => [][Ends => Delivered]_nodeVars
    BY BuiltTransactionsDeliver DEF BuildersDeliver, Delivered, c
  <1>4. NodeSafety => [][Ends /\ ~Wide(c) => Narrow]_nodeVars
    BY <1>2, <1>3, CallsInvariants, PTL
  <1> QED
    BY <1>4 DEF Narrow, c
=============================================================================
