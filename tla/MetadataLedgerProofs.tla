------------------------- MODULE MetadataLedgerProofs -------------------------
(***************************************************************************)
(* Proofs about MetadataLedger, for every set of wallets, mints, texts and *)
(* instructions.                                                           *)
(*                                                                         *)
(* The argument has three layers.  What an instruction that passes its     *)
(* checks may assume is one lemma per handler.  An instruction takes legal *)
(* accounts to legal accounts and changes a token only when the key that   *)
(* controls it signed: again one lemma per handler, resting on one lemma   *)
(* for writes to existing accounts and one for created ones.  The          *)
(* inductive invariant then relates the bank of an open transaction to the *)
(* ledger it started from.                                                 *)
(***************************************************************************)
EXTENDS MetadataLedger, WellFoundedInduction, TLAPS

-----------------------------------------------------------------------------
(* Addresses *)

\* Derived addresses are no keys, and tell seeds and mints apart.
LEMMA DerivedAddresses ==
    /\ \A a, b : MetadataPda(a) # AttributesPda(b)
    /\ \A a, b : MetadataPda(a) = MetadataPda(b) => a = b
    /\ \A a, b : AttributesPda(a) = AttributesPda(b) => a = b
    /\ \A a \in Address : MetadataPda(a) \notin Keys /\ AttributesPda(a) \notin Keys
    /\ \A m \in Mints : /\ m \in Keys
                        /\ m \in Address
                        /\ MetadataPda(m) \in Address
                        /\ AttributesPda(m) \in Address
    /\ Keys \subseteq Address
    /\ NoKey \notin Keys
  <1>1. \A a, b : MetadataPda(a) # AttributesPda(b)
    BY DEF MetadataPda, AttributesPda, METADATA_SEED, ATTRIBUTES_SEED
  <1>2. \A a, b : MetadataPda(a) = MetadataPda(b) => a = b
    BY DEF MetadataPda
  <1>3. \A a, b : AttributesPda(a) = AttributesPda(b) => a = b
    BY DEF AttributesPda
  <1>4. /\ Keys \subseteq Address
        /\ \A m \in Mints : m \in Keys
        /\ \A m \in Mints : MetadataPda(m) \in Address /\ AttributesPda(m) \in Address
    BY DEF Address, Pdas, Keys
  <1> QED
    BY <1>1, <1>2, <1>3, <1>4, KeyAssumption

-----------------------------------------------------------------------------
(* What an instruction that passes its checks may assume *)

LEMMA CreateMetadataGuards ==
    ASSUME NEW A, NEW S, NEW ix, Passes(CreateMetadataChecks(A, S, ix))
    PROVE  /\ A[ix.mint].owner = TokenProgram
           /\ HoldsMint(A, ix.mint)
           /\ CreationAuthorityAccepted(A, ix.mint, ix.authority)
           /\ ix.authority \in S
           /\ ix.metadata = MetadataPda(ix.mint)
           /\ ~TextTooLong(ix.text)
           /\ NeedsCreation(A, ix.metadata) =>
                /\ ix.payer \in S
                /\ ~InUse(A, ix.metadata)
                /\ CanPay(A, ix.payer, MinimumRent[TOKEN_METADATA_MAX_LEN])
           /\ ~AlreadyInitialized(A, ix.metadata)
  <1> DEFINE checks == CreateMetadataChecks(A, S, ix)
  <1>1. DOMAIN checks = 1..12
    BY DEF CreateMetadataChecks
  <1>2. \A i \in 1..12 : ~checks[i].fails
    BY <1>1 DEF Passes
  <1>3. /\ ~checks[1].fails /\ ~checks[2].fails /\ ~checks[3].fails /\ ~checks[4].fails
        /\ ~checks[5].fails /\ ~checks[6].fails /\ ~checks[8].fails /\ ~checks[9].fails
        /\ ~checks[10].fails /\ ~checks[11].fails
    BY <1>2
  <1> QED
    BY <1>3 DEF CreateMetadataChecks, Check, CannotPay

LEMMA UpdateMetadataGuards ==
    ASSUME NEW A, NEW S, NEW ix, Passes(UpdateMetadataChecks(A, S, ix))
    PROVE  /\ ix.authority \in S
           /\ HoldsMetadata(A, ix.metadata)
           /\ AuthorityAccepted(A, ix.metadata, ix.authority)
           /\ ~TextTooLong(ix.text)
  <1> DEFINE checks == UpdateMetadataChecks(A, S, ix)
  <1>1. DOMAIN checks = 1..5
    BY DEF UpdateMetadataChecks
  <1>2. ~checks[1].fails /\ ~checks[2].fails /\ ~checks[3].fails /\ ~checks[4].fails
    BY <1>1 DEF Passes
  <1> QED
    BY <1>2 DEF UpdateMetadataChecks, Check

LEMMA CreateAttributesGuards ==
    ASSUME NEW A, NEW S, NEW ix, Passes(CreateAttributesChecks(A, S, ix))
    PROVE  /\ ix.payer \in S
           /\ ix.authority \in S
           /\ ix.attributes = AttributesPda(ix.mint)
           /\ MetadataIsOfMint(A, ix.metadata, ix.mint)
           /\ AuthorityAccepted(A, ix.metadata, ix.authority)
           /\ ~TooManyEntries(ix.entries) /\ ~EmptyEntryFirst(ix.entries)
           /\ ~SomeEntryTooLong(ix.entries)
           /\ NeedsCreation(A, ix.attributes) =>
                /\ ~InUse(A, ix.attributes)
                /\ CanPay(A, ix.payer, MinimumRent[TOKEN_METADATA_ATTRIBUTES_MAX_LEN])
           /\ ~AlreadyInitialized(A, ix.attributes)
  <1> DEFINE checks == CreateAttributesChecks(A, S, ix)
  <1>1. DOMAIN checks = 1..14
    BY DEF CreateAttributesChecks
  <1>2. \A i \in 1..14 : ~checks[i].fails
    BY <1>1 DEF Passes
  <1>3. /\ ~checks[1].fails /\ ~checks[2].fails /\ ~checks[3].fails /\ ~checks[4].fails
        /\ ~checks[5].fails /\ ~checks[6].fails /\ ~checks[7].fails
        /\ ~checks[10].fails /\ ~checks[11].fails /\ ~checks[13].fails
    BY <1>2
  <1> QED
    BY <1>3 DEF CreateAttributesChecks, Check, CannotPay

LEMMA ReplaceAttributesGuards ==
    ASSUME NEW A, NEW S, NEW ix, Passes(ReplaceAttributesChecks(A, S, ix))
    PROVE  /\ ix.authority \in S
           /\ HoldsMetadata(A, ix.metadata)
           /\ AuthorityAccepted(A, ix.metadata, ix.authority)
           /\ ix.attributes = AttributesPda(A[ix.metadata].data.mint)
           /\ HoldsAttributes(A, ix.attributes)
           /\ ~TooManyEntries(ix.entries) /\ ~EmptyEntryFirst(ix.entries)
           /\ ~SomeEntryTooLong(ix.entries)
  <1> DEFINE checks == ReplaceAttributesChecks(A, S, ix)
  <1>1. DOMAIN checks = 1..9
    BY DEF ReplaceAttributesChecks
  <1>2. \A i \in 1..9 : ~checks[i].fails
    BY <1>1 DEF Passes
  <1>3. /\ ~checks[1].fails /\ ~checks[2].fails /\ ~checks[3].fails /\ ~checks[4].fails
        /\ ~checks[5].fails /\ ~checks[6].fails /\ ~checks[7].fails /\ ~checks[8].fails
    BY <1>2
  <1> QED
    BY <1>3 DEF ReplaceAttributesChecks, Check, AttributesOf

LEMMA AuthorityChangeGuards ==
    ASSUME NEW A, NEW S, NEW ix, Passes(AuthorityChangeChecks(A, S, ix))
    PROVE  /\ ix.authority \in S
           /\ HoldsMetadata(A, ix.metadata)
           /\ AuthorityAccepted(A, ix.metadata, ix.authority)
  <1> DEFINE checks == AuthorityChangeChecks(A, S, ix)
  <1>1. DOMAIN checks = 1..3
    BY DEF AuthorityChangeChecks
  <1>2. ~checks[1].fails /\ ~checks[2].fails /\ ~checks[3].fails
    BY <1>1 DEF Passes
  <1> QED
    BY <1>2 DEF AuthorityChangeChecks, Check

LEMMA CreateMintAccountGuards ==
    ASSUME NEW A, NEW S, NEW ix, Passes(CreateMintAccountChecks(A, S, ix))
    PROVE  /\ ix.payer \in S /\ ix.mint \in S
           /\ ~InUse(A, ix.mint)
           /\ CanPay(A, ix.payer, MinimumRent[MINT_LEN])
  <1> DEFINE checks == CreateMintAccountChecks(A, S, ix)
  <1>1. DOMAIN checks = 1..3
    BY DEF CreateMintAccountChecks
  <1>2. ~checks[1].fails /\ ~checks[2].fails /\ ~checks[3].fails
    BY <1>1 DEF Passes
  <1> QED
    BY <1>2 DEF CreateMintAccountChecks, Check

LEMMA InitializeMint2Guards ==
    ASSUME NEW A, NEW ix, Passes(InitializeMint2Checks(A, ix))
    PROVE  A[ix.mint].owner = TokenProgram /\ ~HoldsMint(A, ix.mint)
  <1> DEFINE checks == InitializeMint2Checks(A, ix)
  <1>1. DOMAIN checks = 1..2
    BY DEF InitializeMint2Checks
  <1>2. ~checks[1].fails /\ ~checks[2].fails
    BY <1>1 DEF Passes
  <1> QED
    BY <1>2 DEF InitializeMint2Checks, Check

LEMMA SetMintAuthorityGuards ==
    ASSUME NEW A, NEW S, NEW ix, Passes(SetMintAuthorityChecks(A, S, ix))
    PROVE  /\ HoldsMint(A, ix.mint)
           /\ MintAuthority(A, ix.mint) # NoKey
           /\ MintAuthority(A, ix.mint) = ix.authority
           /\ ix.authority \in S
  <1> DEFINE checks == SetMintAuthorityChecks(A, S, ix)
  <1>1. DOMAIN checks = 1..4
    BY DEF SetMintAuthorityChecks
  <1>2. ~checks[1].fails /\ ~checks[2].fails /\ ~checks[3].fails /\ ~checks[4].fails
    BY <1>1 DEF Passes
  <1> QED
    BY <1>2 DEF SetMintAuthorityChecks, Check

-----------------------------------------------------------------------------
(* Writes *)

ProgramData == TokenMetadata \cup TokenMetadataAttributes

\* The two ways handlers write: over the data of an account, or into one that
\* create_account just made.
Rewritten(A, a, d) == [A EXCEPT ![a].data = d]

CreatedWith(A, p, a, n, space, d) ==
    [CreateAccount(A, p, a, n, space, MetadataProgram) EXCEPT ![a].data = d]

\* The kinds of data are told apart by their kind.
LEMMA Kinds ==
    /\ \A d \in TokenMetadata : d.kind = "metadata" /\ d.mint \in Address
    /\ \A d \in TokenMetadataAttributes : d.kind = "attributes" /\ d.mint \in Address
    /\ \A d \in Mint : d.kind = "mint"
    /\ \A d \in Zeroed : d.kind = "zeroed"
    /\ Empty.kind = "empty"
  BY DEF TokenMetadata, TokenMetadataAttributes, Mint, Zeroed, Empty

\* Data read through its kind has the type of that kind.
LEMMA TypedData ==
    ASSUME NEW A \in [Address -> Account], NEW a \in Address
    PROVE  /\ A[a].owner \in Programs /\ A[a].lamports \in Nat /\ A[a].data \in AccountData
           /\ HoldsMetadata(A, a) => A[a].data \in TokenMetadata
           /\ HoldsAttributes(A, a) => A[a].data \in TokenMetadataAttributes
           /\ HoldsMint(A, a) => A[a].data \in Mint
  <1>1. A[a] \in Account
    OBVIOUS
  <1>2. A[a].owner \in Programs /\ A[a].lamports \in Nat /\ A[a].data \in AccountData
    BY <1>1 DEF Account
  <1> QED
    BY <1>2, Kinds DEF AccountData, HoldsMetadata, HoldsAttributes, HoldsMint

\* A step that changes no mint, and the kind of no account that has one, removes
\* nothing.
LEMMA KeptWhenMintsAre ==
    ASSUME NEW A, NEW B, NEW S,
           \A x \in Address :
              A[x].data.kind \in {"metadata", "attributes"} => B[x].data.kind = A[x].data.kind,
           \A m \in Mints : HoldsMint(A, m) => B[m].data = A[m].data
    PROVE  Kept(A, S, B)
  BY DerivedAddresses
  DEF Kept, MetadataExists, AttributesExist, HoldsMetadata, HoldsAttributes, HoldsMint

\* Replacing the data of an account of the program, keeping its kind and mint.
LEMMA RewriteLegal ==
    ASSUME NEW A, Legal(A), NEW a \in Address, NEW d \in ProgramData,
           HoldsMetadata(A, a) \/ HoldsAttributes(A, a),
           d.kind = A[a].data.kind, d.mint = A[a].data.mint
    PROVE  Legal(Rewritten(A, a, d))
  <1> DEFINE B == Rewritten(A, a, d)
  <1>1. A \in [Address -> Account]
    BY DEF Legal
  <1>2. /\ DOMAIN B = Address
        /\ B[a].owner = A[a].owner
        /\ B[a].lamports = A[a].lamports
        /\ B[a].data = d
        /\ B[a] = [A[a] EXCEPT !.data = d]
        /\ \A x \in Address \ {a} : B[x] = A[x]
    BY <1>1 DEF Account, Rewritten
  <1>3. B \in [Address -> Account]
    <2>1. d \in AccountData
      BY DEF ProgramData, AccountData
    <2>2. A[a] \in Account
      BY <1>1
    <2>3. [A[a] EXCEPT !.data = d] \in Account
      BY <2>1, <2>2 DEF Account
    <2> QED
      BY <1>1, <2>3 DEF Rewritten
  <1> HIDE DEF B
  <1>4. Complete(B)
    <2> SUFFICES ASSUME NEW x \in Address
                 PROVE  /\ B[x].owner = MetadataProgram =>
                              HoldsMetadata(B, x) \/ HoldsAttributes(B, x)
                        /\ HoldsMetadata(B, x) =>
                              /\ B[x].owner = MetadataProgram
                              /\ x = MetadataPda(B[x].data.mint)
                        /\ HoldsAttributes(B, x) =>
                              /\ B[x].owner = MetadataProgram
                              /\ x = AttributesPda(B[x].data.mint)
      BY DEF Complete
    <2>1. CASE x = a
      BY <1>2, <2>1 DEF Legal, Complete, HoldsMetadata, HoldsAttributes
    <2>2. CASE x # a
      BY <1>2, <2>2 DEF Legal, Complete, HoldsMetadata, HoldsAttributes
    <2> QED
      BY <2>1, <2>2
  <1>5. Paid(B)
    <2>1. \A x \in Address : /\ B[x].owner = A[x].owner
                             /\ B[x].lamports = A[x].lamports
      BY <1>2
    <2>2. \A x \in Address : DataLen(B[x].data) = DataLen(A[x].data)
      BY <1>2 DEF DataLen, HoldsMetadata, HoldsAttributes
    <2> QED
      BY <2>1, <2>2 DEF Legal, Paid
  <1>6. Backed(B)
    <2>1. \A x \in Address : B[x].data.kind = A[x].data.kind /\ B[x].owner = A[x].owner
      BY <1>2
    <2> QED
      BY <2>1, DerivedAddresses
      DEF Legal, Backed, MetadataExists, AttributesExist, HoldsMetadata, HoldsAttributes, HoldsMint
  <1> QED
    BY <1>3, <1>4, <1>5, <1>6 DEF Legal, B

\* ... changes nothing that its controlling key did not sign for.
LEMMA RewriteControlled ==
    ASSUME NEW A, Legal(A), NEW a \in Address, NEW d \in ProgramData,
           HoldsMetadata(A, a) \/ HoldsAttributes(A, a),
           d.kind = A[a].data.kind, NEW S \in SUBSET Keys,
           \A m \in Mints : a \in {MetadataPda(m), AttributesPda(m)} => Authority(A, m) \in S
    PROVE  Controlled(A, S, Rewritten(A, a, d))
  <1> DEFINE B == Rewritten(A, a, d)
  <1>1. A \in [Address -> Account]
    BY DEF Legal
  <1>2. /\ B[a].data = d
        /\ \A x \in Address \ {a} : B[x] = A[x]
    BY <1>1 DEF Account, Rewritten
  <1> HIDE DEF B
  <1>k. Kept(A, S, B)
    <2>1. \A m \in Mints : HoldsMint(A, m) => B[m].data = A[m].data
      BY <1>2, DerivedAddresses DEF HoldsMint, HoldsMetadata, HoldsAttributes
    <2>2. \A x \in Address : B[x].data.kind = A[x].data.kind
      BY <1>2
    <2> QED
      BY <2>1, <2>2, KeptWhenMintsAre
  <1> SUFFICES ASSUME NEW m \in Mints
               PROVE  /\ MetadataExists(A, m) /\ Authority(A, m) \notin S =>
                           /\ B[MetadataPda(m)] = A[MetadataPda(m)]
                           /\ B[AttributesPda(m)] = A[AttributesPda(m)]
                      /\ HoldsMint(A, m) /\ ~MetadataExists(A, m) =>
                           /\ B[m].data = A[m].data
                           /\ ~MetadataExists(B, m)
    BY <1>k DEF Controlled, B
  <1>3. m \in Address /\ MetadataPda(m) \in Address /\ AttributesPda(m) \in Address
    BY DerivedAddresses
  <1>4. HoldsMint(A, m) => m # a
    BY DEF HoldsMint, HoldsMetadata, HoldsAttributes
  <1>5. MetadataExists(B, m) => MetadataExists(A, m)
    BY <1>2, <1>3 DEF MetadataExists, HoldsMetadata
  <1> QED
    BY <1>2, <1>3, <1>4, <1>5

\* What create_account and the first write leave behind.
LEMMA CreateAccountEffect ==
    ASSUME NEW A, Legal(A), NEW p \in Keys, NEW a \in Address \ {p}, NEW n \in Nat,
           NEW space, NEW d, CanPay(A, p, n)
    PROVE  LET B == CreatedWith(A, p, a, n, space, d)
           IN  /\ DOMAIN B = Address
               /\ B[a] = [owner |-> MetadataProgram, lamports |-> n, data |-> d]
               /\ B[p] = [owner |-> SystemProgram, lamports |-> A[p].lamports - n,
                          data |-> Empty]
               /\ A[p].owner = SystemProgram /\ A[p].data = Empty
               /\ A[p].lamports - n \in Nat
               /\ \A x \in Address \ {a, p} : B[x] = A[x]
  <1>1. A \in [Address -> Account] /\ p \in Address
    BY DerivedAddresses DEF Legal
  <1>2. A[p] \in Account /\ A[a] \in Account
    BY <1>1
  <1>3. A[p] = [owner |-> SystemProgram, lamports |-> A[p].lamports, data |-> Empty]
    BY <1>2 DEF Account, CanPay
  <1>4. A[p].lamports - n \in Nat
    BY <1>2 DEF Account, CanPay
  <1> DEFINE C == CreateAccount(A, p, a, n, space, MetadataProgram)
             B == [C EXCEPT ![a].data = d]
  <1>5. /\ DOMAIN C = Address
        /\ C[a] = [owner |-> MetadataProgram, lamports |-> n,
                   data |-> [kind |-> "zeroed", len |-> space]]
        /\ C[p] = [A[p] EXCEPT !.lamports = A[p].lamports - n]
        /\ \A x \in Address \ {a, p} : C[x] = A[x]
    BY <1>1 DEF CreateAccount
  <1>6. C[p] = [owner |-> SystemProgram, lamports |-> A[p].lamports - n, data |-> Empty]
    BY <1>3, <1>5
  <1> HIDE DEF C
  <1>7. /\ DOMAIN B = Address
        /\ B[a] = [C[a] EXCEPT !.data = d]
        /\ \A x \in Address \ {a} : B[x] = C[x]
    BY <1>5
  <1>8. B[a] = [owner |-> MetadataProgram, lamports |-> n, data |-> d]
    BY <1>5, <1>7
  <1> HIDE DEF B
  <1>9. /\ DOMAIN B = Address
        /\ B[a] = [owner |-> MetadataProgram, lamports |-> n, data |-> d]
        /\ B[p] = [owner |-> SystemProgram, lamports |-> A[p].lamports - n, data |-> Empty]
        /\ \A x \in Address \ {a, p} : B[x] = A[x]
    BY <1>1, <1>5, <1>6, <1>7, <1>8
  <1>10. A[p].owner = SystemProgram /\ A[p].data = Empty
    BY DEF CanPay
  <1> QED
    BY <1>4, <1>9, <1>10 DEF B, C, CreatedWith

LEMMA CreateLegal ==
    ASSUME NEW A, Legal(A), NEW p \in Keys, NEW a \in Address, NEW d \in ProgramData,
           ~InUse(A, a), CanPay(A, p, MinimumRent[DataLen(d)]),
           \/ /\ d.kind = "metadata"
              /\ a = MetadataPda(d.mint)
              /\ A[d.mint].owner = TokenProgram /\ HoldsMint(A, d.mint)
           \/ /\ d.kind = "attributes"
              /\ a = AttributesPda(d.mint)
              /\ MetadataExists(A, d.mint),
           NEW space
    PROVE  Legal(CreatedWith(A, p, a, MinimumRent[DataLen(d)], space, d))
  <1> DEFINE n == MinimumRent[DataLen(d)]
             B == CreatedWith(A, p, a, n, space, d)
  <1>1. A \in [Address -> Account] /\ p \in Address /\ d.mint \in Address
    BY DerivedAddresses, Kinds DEF Legal, ProgramData
  <1>2. a \notin Keys /\ a # p
    BY <1>1, DerivedAddresses
  <1>3. n \in Nat
    BY RentAssumption DEF DataLen, KindLen
  <1>4. /\ DOMAIN B = Address
        /\ B[a] = [owner |-> MetadataProgram, lamports |-> n, data |-> d]
        /\ B[p] = [owner |-> SystemProgram, lamports |-> A[p].lamports - n, data |-> Empty]
        /\ A[p].owner = SystemProgram /\ A[p].data = Empty
        /\ A[p].lamports - n \in Nat
        /\ \A x \in Address \ {a, p} : B[x] = A[x]
    BY <1>2, <1>3, CreateAccountEffect
  <1>5. B \in [Address -> Account]
    <2>1. d \in AccountData /\ Empty \in AccountData
      BY DEF ProgramData, AccountData
    <2>2. B[a] \in Account /\ B[p] \in Account
      BY <1>3, <1>4, <2>1 DEF Account, Programs
    <2>3. \A x \in Address : B[x] \in Account
      BY <1>1, <1>4, <2>2
    <2>4. B = [x \in DOMAIN B |-> B[x]]
      BY DEF CreatedWith
    <2> QED
      BY <1>4, <2>3, <2>4
  <1> HIDE DEF B, n
  <1>6. A[a] = Vacant
    BY DEF InUse
  <1>7. Complete(B)
    <2> SUFFICES ASSUME NEW x \in Address
                 PROVE  /\ B[x].owner = MetadataProgram =>
                              HoldsMetadata(B, x) \/ HoldsAttributes(B, x)
                        /\ HoldsMetadata(B, x) =>
                              /\ B[x].owner = MetadataProgram
                              /\ x = MetadataPda(B[x].data.mint)
                        /\ HoldsAttributes(B, x) =>
                              /\ B[x].owner = MetadataProgram
                              /\ x = AttributesPda(B[x].data.mint)
      BY DEF Complete
    <2>1. CASE x = a
      BY <1>4, <2>1 DEF HoldsMetadata, HoldsAttributes
    <2>2. CASE x = p
      BY <1>2, <1>4, <2>2, KeyAssumption DEF HoldsMetadata, HoldsAttributes, Empty
    <2>3. CASE x \notin {a, p}
      BY <1>4, <2>3 DEF Legal, Complete, HoldsMetadata, HoldsAttributes
    <2> QED
      BY <2>1, <2>2, <2>3
  <1>8. Paid(B)
    <2> SUFFICES ASSUME NEW x \in Address, B[x].owner = MetadataProgram
                 PROVE  B[x].lamports >= MinimumRent[DataLen(B[x].data)]
      BY DEF Paid
    <2>1. CASE x = a
      BY <1>3, <1>4, <2>1 DEF n
    <2>2. CASE x = p
      BY <1>2, <1>4, <2>2, KeyAssumption
    <2>3. CASE x \notin {a, p}
      BY <1>4, <2>3 DEF Legal, Paid
    <2> QED
      BY <2>1, <2>2, <2>3
  <1>9. Backed(B)
    <2> SUFFICES ASSUME NEW m \in Mints
                 PROVE  /\ AttributesExist(B, m) => MetadataExists(B, m)
                        /\ MetadataExists(B, m) => HoldsMint(B, m)
                        /\ HoldsMint(B, m) => B[m].owner = TokenProgram
      BY DEF Backed
    <2>1. /\ m \in Keys /\ m \in Address
          /\ MetadataPda(m) \in Address /\ AttributesPda(m) \in Address
          /\ MetadataPda(m) \notin Keys /\ AttributesPda(m) \notin Keys
          /\ m # a
      BY <1>2, DerivedAddresses
    <2>2. A[m].owner = TokenProgram => B[m] = A[m]
      BY <1>4, <2>1, KeyAssumption
    <2>3. /\ MetadataPda(m) # a => B[MetadataPda(m)] = A[MetadataPda(m)]
          /\ AttributesPda(m) # a => B[AttributesPda(m)] = A[AttributesPda(m)]
      BY <1>4, <2>1
    <2>4. MetadataExists(A, m) => MetadataExists(B, m) /\ MetadataPda(m) # a
      BY <1>6, <2>3 DEF MetadataExists, HoldsMetadata, Vacant, Empty
    <2>5. AttributesExist(B, m) => MetadataExists(B, m)
      BY <1>4, <2>3, <2>4, DerivedAddresses
      DEF Legal, Backed, AttributesExist, HoldsAttributes
    <2>6. MetadataExists(B, m) => A[m].owner = TokenProgram /\ HoldsMint(A, m)
      BY <1>4, <2>3, DerivedAddresses DEF Legal, Backed, MetadataExists, HoldsMetadata
    <2>7. HoldsMint(B, m) => HoldsMint(A, m)
      BY <1>4, <2>1 DEF HoldsMint, Empty
    <2> QED
      BY <2>2, <2>5, <2>6, <2>7 DEF HoldsMint, Legal, Backed
  <1> QED
    BY <1>5, <1>7, <1>8, <1>9 DEF Legal, B, n

LEMMA CreateControlled ==
    ASSUME NEW A, Legal(A), NEW S \in SUBSET Keys, NEW p \in Keys, NEW a \in Address,
           NEW d \in ProgramData, ~InUse(A, a), CanPay(A, p, MinimumRent[DataLen(d)]),
           \/ /\ d.kind = "metadata"
              /\ a = MetadataPda(d.mint)
              /\ CreationAuthority(A, d.mint) \in S
           \/ /\ d.kind = "attributes"
              /\ a = AttributesPda(d.mint)
              /\ Authority(A, d.mint) \in S,
           NEW space
    PROVE  Controlled(A, S, CreatedWith(A, p, a, MinimumRent[DataLen(d)], space, d))
  <1> DEFINE n == MinimumRent[DataLen(d)]
             B == CreatedWith(A, p, a, n, space, d)
  <1>1. A \in [Address -> Account] /\ p \in Address /\ d.mint \in Address
    BY DerivedAddresses, Kinds DEF Legal, ProgramData
  <1>2. a \notin Keys /\ a # p
    BY <1>1, DerivedAddresses
  <1>3. n \in Nat
    BY RentAssumption, Kinds DEF DataLen, KindLen
  <1>4. /\ B[a].data = d
        /\ A[p].data = Empty /\ B[p].data = Empty
        /\ \A x \in Address \ {a, p} : B[x] = A[x]
    <2>1. /\ B[a] = [owner |-> MetadataProgram, lamports |-> n, data |-> d]
          /\ B[p] = [owner |-> SystemProgram, lamports |-> A[p].lamports - n, data |-> Empty]
          /\ A[p].data = Empty
          /\ \A x \in Address \ {a, p} : B[x] = A[x]
      BY <1>2, <1>3, CreateAccountEffect
    <2> QED
      BY <2>1
  <1> HIDE DEF B, n
  <1>5. A[a].data = Empty
    BY DEF InUse, Vacant
  <1>k. Kept(A, S, B)
    <2>1. \A x \in {a, p} : A[x].data.kind = "empty"
      BY <1>4, <1>5 DEF Empty
    <2>2. \A x \in Address : A[x].data.kind \in {"metadata", "attributes", "mint"} =>
                               B[x] = A[x]
      BY <1>4, <2>1
    <2> QED
      BY <2>2, KeptWhenMintsAre, DerivedAddresses DEF HoldsMint
  <1> SUFFICES ASSUME NEW m \in Mints
               PROVE  /\ MetadataExists(A, m) /\ Authority(A, m) \notin S =>
                           /\ B[MetadataPda(m)] = A[MetadataPda(m)]
                           /\ B[AttributesPda(m)] = A[AttributesPda(m)]
                      /\ HoldsMint(A, m) /\ ~MetadataExists(A, m)
                           /\ CreationAuthority(A, m) \notin S =>
                           /\ B[m].data = A[m].data
                           /\ ~MetadataExists(B, m)
    BY <1>k DEF Controlled, B, n
  <1>6. /\ m \in Keys /\ m \in Address
        /\ MetadataPda(m) \in Address /\ AttributesPda(m) \in Address
        /\ MetadataPda(m) \notin Keys /\ AttributesPda(m) \notin Keys
    BY DerivedAddresses
  <1>7. ASSUME MetadataExists(A, m), Authority(A, m) \notin S
        PROVE  B[MetadataPda(m)] = A[MetadataPda(m)] /\ B[AttributesPda(m)] = A[AttributesPda(m)]
    <2>1. MetadataPda(m) # a
      BY <1>5, <1>7 DEF MetadataExists, HoldsMetadata, Empty
    <2>2. AttributesPda(m) # a
      BY <1>7, DerivedAddresses
    <2> QED
      BY <1>4, <1>6, <2>1, <2>2
  <1>8. ASSUME HoldsMint(A, m), ~MetadataExists(A, m), CreationAuthority(A, m) \notin S
        PROVE  B[m].data = A[m].data /\ ~MetadataExists(B, m)
    <2>1. B[m].data = A[m].data
      BY <1>2, <1>4, <1>6
    <2>2. MetadataPda(m) = a => d.kind = "attributes"
      BY <1>8, DerivedAddresses
    <2>3. ~MetadataExists(B, m)
      BY <1>4, <1>6, <1>8, <2>2 DEF MetadataExists, HoldsMetadata
    <2> QED
      BY <2>1, <2>3
  <1> QED
    BY <1>7, <1>8

-----------------------------------------------------------------------------
(* One lemma per instruction *)

LEMMA InstructionTypes ==
    ASSUME NEW ix \in Instructions
    PROVE  /\ ix.op = "CreateMetadata" =>
                /\ {ix.mint, ix.metadata} \subseteq Address
                /\ ix.text \in [Field -> Text]
                /\ ix.immutable \in BOOLEAN
           /\ ix.op = "UpdateMetadata" =>
                ix.metadata \in Address /\ ix.text \in PartialText
           /\ ix.op = "CreateAttributes" =>
                /\ {ix.mint, ix.attributes, ix.metadata} \subseteq Address
                /\ ix.entries \in Seq(Entry)
           /\ ix.op = "ReplaceAttributes" =>
                /\ {ix.attributes, ix.metadata} \subseteq Address
                /\ ix.entries \in Seq(Entry)
           /\ ix.op = "TransferAuthority" =>
                ix.metadata \in Address /\ ix.new_authority \in Keys
           /\ ix.op = "MakeImmutable" => ix.metadata \in Address
           /\ ix.op = "CreateMintAccount" => ix.mint \in Mints
           /\ ix.op = "InitializeMint2" =>
                /\ ix.mint \in Mints
                /\ ix.mint_authority \in Keys
                /\ ix.freeze_authority \in Keys \cup {NoKey}
           /\ ix.op = "SetMintAuthority" =>
                ix.mint \in Mints /\ ix.new_authority \in Keys \cup {NoKey}
  BY InstructionsAssumption DEF Instruction

\* On legal accounts an account that is not initialised is still to be created.
LEMMA CreationNeeded ==
    ASSUME NEW A, Legal(A), NEW a \in Address, ~AlreadyInitialized(A, a)
    PROVE  NeedsCreation(A, a)
  BY DEF Legal, Complete, AlreadyInitialized, NeedsCreation, FirstByteSet,
         HoldsMetadata, HoldsAttributes

\* The metadata of legal accounts is at the address of its mint.
LEMMA MetadataInPlace ==
    ASSUME NEW A, Legal(A), NEW a \in Address, HoldsMetadata(A, a)
    PROVE  /\ A[a].data \in TokenMetadata
           /\ a = MetadataPda(A[a].data.mint)
           /\ \A m \in Mints : a = MetadataPda(m) => Authority(A, m) = UpdateAuthority(A, a)
           /\ \A m \in Mints : a # AttributesPda(m)
  <1>1. A[a].data \in TokenMetadata
    BY TypedData DEF Legal
  <1>2. a = MetadataPda(A[a].data.mint)
    BY DEF Legal, Complete
  <1> QED
    BY <1>1, <1>2, DerivedAddresses DEF Authority

LEMMA CreateMetadataStep ==
    ASSUME NEW A, Legal(A), NEW S \in SUBSET Keys, NEW ix \in Sent("CreateMetadata"),
           Passes(CreateMetadataChecks(A, S, ix))
    PROVE  Legal(CreateMetadataEffect(A, ix)) /\ Controlled(A, S, CreateMetadataEffect(A, ix))
  <1> DEFINE d == NewMetadata(A, ix)
  <1>1. /\ ix.mint \in Address /\ ix.metadata \in Address
        /\ ix.text \in [Field -> Text] /\ ix.immutable \in BOOLEAN
    BY InstructionTypes DEF Sent
  <1>2. /\ A[ix.mint].owner = TokenProgram
        /\ HoldsMint(A, ix.mint)
        /\ CreationAuthorityAccepted(A, ix.mint, ix.authority)
        /\ ix.authority \in S
        /\ ix.metadata = MetadataPda(ix.mint)
        /\ ~AlreadyInitialized(A, ix.metadata)
    BY CreateMetadataGuards
  <1>3. NeedsCreation(A, ix.metadata)
    BY <1>1, <1>2, CreationNeeded
  <1>4. /\ ix.payer \in S
        /\ ~InUse(A, ix.metadata)
        /\ CanPay(A, ix.payer, MinimumRent[TOKEN_METADATA_MAX_LEN])
    BY <1>3, CreateMetadataGuards
  <1>5. CreationAuthority(A, ix.mint) \in S
    BY <1>2 DEF CreationAuthorityAccepted
  <1>6. /\ d \in ProgramData
        /\ d.kind = "metadata"
        /\ d.mint = ix.mint
        /\ DataLen(d) = TOKEN_METADATA_MAX_LEN
    BY <1>1, <1>5 DEF NewMetadata, ProgramData, TokenMetadata, DataLen, KindLen
  <1>7. CreateMetadataEffect(A, ix) =
          CreatedWith(A, ix.payer, ix.metadata, MinimumRent[DataLen(d)],
                      TOKEN_METADATA_MAX_LEN, d)
    BY <1>3, <1>6 DEF CreateMetadataEffect, Created, CreatedWith
  <1> HIDE DEF d
  <1>8. Legal(CreateMetadataEffect(A, ix))
    BY <1>1, <1>2, <1>4, <1>6, <1>7, CreateLegal
  <1>9. Controlled(A, S, CreateMetadataEffect(A, ix))
    BY <1>1, <1>2, <1>4, <1>5, <1>6, <1>7, CreateControlled
  <1> QED
    BY <1>8, <1>9

LEMMA UpdateMetadataStep ==
    ASSUME NEW A, Legal(A), NEW S \in SUBSET Keys, NEW ix \in Sent("UpdateMetadata"),
           Passes(UpdateMetadataChecks(A, S, ix))
    PROVE  Legal(UpdateMetadataEffect(A, ix)) /\ Controlled(A, S, UpdateMetadataEffect(A, ix))
  <1> DEFINE d == Updated(A, ix)
  <1>1. ix.metadata \in Address /\ ix.text \in PartialText
    BY InstructionTypes DEF Sent
  <1>2. /\ HoldsMetadata(A, ix.metadata)
        /\ UpdateAuthority(A, ix.metadata) \in S
    BY UpdateMetadataGuards DEF AuthorityAccepted
  <1>3. /\ A[ix.metadata].data \in TokenMetadata
        /\ \A m \in Mints : ix.metadata \in {MetadataPda(m), AttributesPda(m)} =>
                               Authority(A, m) \in S
    BY <1>1, <1>2, MetadataInPlace
  <1>4. UpdatedText(A[ix.metadata].data.text, ix.text) \in [Field -> Text]
    <2>1. A[ix.metadata].data.text \in [Field -> Text]
      BY <1>3 DEF TokenMetadata
    <2>2. \A f \in DOMAIN ix.text : ix.text[f] \in Text
      BY <1>1 DEF PartialText
    <2> QED
      BY <2>1, <2>2 DEF UpdatedText
  <1>5. d \in TokenMetadata /\ d.kind = A[ix.metadata].data.kind
                            /\ d.mint = A[ix.metadata].data.mint
    BY <1>3, <1>4 DEF Updated, TokenMetadata
  <1>6. UpdateMetadataEffect(A, ix) = Rewritten(A, ix.metadata, d)
    BY DEF UpdateMetadataEffect, Rewritten
  <1> HIDE DEF d
  <1>7. d \in ProgramData
    BY <1>5 DEF ProgramData
  <1> QED
    BY <1>1, <1>2, <1>3, <1>5, <1>6, <1>7, RewriteLegal, RewriteControlled

LEMMA CreateAttributesStep ==
    ASSUME NEW A, Legal(A), NEW S \in SUBSET Keys, NEW ix \in Sent("CreateAttributes"),
           Passes(CreateAttributesChecks(A, S, ix))
    PROVE  Legal(CreateAttributesEffect(A, ix)) /\ Controlled(A, S, CreateAttributesEffect(A, ix))
  <1> DEFINE d == NewAttributes(ix)
  <1>1. /\ ix.mint \in Address /\ ix.attributes \in Address /\ ix.metadata \in Address
        /\ ix.entries \in Seq(Entry)
    BY InstructionTypes DEF Sent
  <1>2. /\ ix.payer \in S
        /\ ix.attributes = AttributesPda(ix.mint)
        /\ HoldsMetadata(A, ix.metadata)
        /\ A[ix.metadata].data.mint = ix.mint
        /\ UpdateAuthority(A, ix.metadata) \in S
        /\ ~AlreadyInitialized(A, ix.attributes)
    BY CreateAttributesGuards DEF AuthorityAccepted, MetadataIsOfMint
  <1>3. NeedsCreation(A, ix.attributes)
    BY <1>1, <1>2, CreationNeeded
  <1>4. /\ ~InUse(A, ix.attributes)
        /\ CanPay(A, ix.payer, MinimumRent[TOKEN_METADATA_ATTRIBUTES_MAX_LEN])
    BY <1>3, CreateAttributesGuards
  <1>5. ix.metadata = MetadataPda(ix.mint)
    BY <1>1, <1>2, MetadataInPlace
  <1>6. MetadataExists(A, ix.mint) /\ Authority(A, ix.mint) \in S
    BY <1>2, <1>5 DEF MetadataExists, Authority
  <1>7. /\ d \in ProgramData
        /\ d.kind = "attributes"
        /\ d.mint = ix.mint
        /\ DataLen(d) = TOKEN_METADATA_ATTRIBUTES_MAX_LEN
    BY <1>1 DEF NewAttributes, ProgramData, TokenMetadataAttributes, DataLen, KindLen
  <1>8. CreateAttributesEffect(A, ix) =
          CreatedWith(A, ix.payer, ix.attributes, MinimumRent[DataLen(d)],
                      TOKEN_METADATA_ATTRIBUTES_MAX_LEN, d)
    BY <1>3, <1>7 DEF CreateAttributesEffect, Created, CreatedWith
  <1> HIDE DEF d
  <1>9. Legal(CreateAttributesEffect(A, ix))
    BY <1>1, <1>2, <1>4, <1>6, <1>7, <1>8, CreateLegal
  <1>10. Controlled(A, S, CreateAttributesEffect(A, ix))
    BY <1>1, <1>2, <1>4, <1>6, <1>7, <1>8, CreateControlled
  <1> QED
    BY <1>9, <1>10

LEMMA ReplaceAttributesStep ==
    ASSUME NEW A, Legal(A), NEW S \in SUBSET Keys, NEW ix \in Sent("ReplaceAttributes"),
           Passes(ReplaceAttributesChecks(A, S, ix))
    PROVE  /\ Legal(ReplaceAttributesEffect(A, ix))
           /\ Controlled(A, S, ReplaceAttributesEffect(A, ix))
  <1> DEFINE d == [A[ix.attributes].data EXCEPT !.entries = ix.entries]
  <1>1. ix.attributes \in Address /\ ix.metadata \in Address /\ ix.entries \in Seq(Entry)
    BY InstructionTypes DEF Sent
  <1>2. /\ HoldsMetadata(A, ix.metadata)
        /\ UpdateAuthority(A, ix.metadata) \in S
        /\ ix.attributes = AttributesPda(A[ix.metadata].data.mint)
        /\ HoldsAttributes(A, ix.attributes)
    BY ReplaceAttributesGuards DEF AuthorityAccepted
  <1>3. ix.metadata = MetadataPda(A[ix.metadata].data.mint)
    BY <1>1, <1>2, MetadataInPlace
  <1>4. ASSUME NEW m \in Mints, ix.attributes \in {MetadataPda(m), AttributesPda(m)}
        PROVE  Authority(A, m) \in S
    <2>1. m = A[ix.metadata].data.mint
      BY <1>2, <1>4, DerivedAddresses
    <2> QED
      BY <1>2, <1>3, <2>1 DEF Authority
  <1>5. A[ix.attributes].data \in TokenMetadataAttributes
    BY <1>1, <1>2, TypedData DEF Legal
  <1>6. d \in TokenMetadataAttributes /\ d.kind = A[ix.attributes].data.kind
                                      /\ d.mint = A[ix.attributes].data.mint
    BY <1>1, <1>5 DEF TokenMetadataAttributes
  <1>7. ReplaceAttributesEffect(A, ix) = Rewritten(A, ix.attributes, d)
    BY DEF ReplaceAttributesEffect, Rewritten
  <1> HIDE DEF d
  <1>8. d \in ProgramData
    BY <1>6 DEF ProgramData
  <1> QED
    BY <1>1, <1>2, <1>4, <1>6, <1>7, <1>8, RewriteLegal, RewriteControlled

\* TransferAuthority stores a key, MakeImmutable stores none.
LEMMA AuthorityStep ==
    ASSUME NEW A, Legal(A), NEW S \in SUBSET Keys, NEW ix, ix.metadata \in Address,
           Passes(AuthorityChangeChecks(A, S, ix)), NEW k \in Keys \cup {NoKey}
    PROVE  LET B == [A EXCEPT ![ix.metadata].data.update_authority = k]
           IN  Legal(B) /\ Controlled(A, S, B)
  <1> DEFINE d == [A[ix.metadata].data EXCEPT !.update_authority = k]
             B == [A EXCEPT ![ix.metadata].data.update_authority = k]
  <1>1. /\ HoldsMetadata(A, ix.metadata)
        /\ UpdateAuthority(A, ix.metadata) \in S
    BY AuthorityChangeGuards DEF AuthorityAccepted
  <1>2. /\ A[ix.metadata].data \in TokenMetadata
        /\ \A m \in Mints : ix.metadata \in {MetadataPda(m), AttributesPda(m)} =>
                               Authority(A, m) \in S
    BY <1>1, MetadataInPlace
  <1>3. d \in TokenMetadata /\ d.kind = A[ix.metadata].data.kind
                            /\ d.mint = A[ix.metadata].data.mint
    BY <1>2 DEF TokenMetadata
  <1>4. B = Rewritten(A, ix.metadata, d)
    BY DEF Rewritten
  <1> HIDE DEF d
  <1>5. d \in ProgramData
    BY <1>3 DEF ProgramData
  <1>6. Legal(B) /\ Controlled(A, S, B)
    BY <1>1, <1>2, <1>3, <1>4, <1>5, RewriteLegal, RewriteControlled
  <1> QED
    BY <1>6

LEMMA TransferAuthorityStep ==
    ASSUME NEW A, Legal(A), NEW S \in SUBSET Keys, NEW ix \in Sent("TransferAuthority"),
           Passes(AuthorityChangeChecks(A, S, ix))
    PROVE  /\ Legal(TransferAuthorityEffect(A, ix))
           /\ Controlled(A, S, TransferAuthorityEffect(A, ix))
  <1>1. ix.metadata \in Address /\ ix.new_authority \in Keys \cup {NoKey}
    BY InstructionTypes DEF Sent
  <1> QED
    BY <1>1, AuthorityStep DEF TransferAuthorityEffect

LEMMA MakeImmutableStep ==
    ASSUME NEW A, Legal(A), NEW S \in SUBSET Keys, NEW ix \in Sent("MakeImmutable"),
           Passes(AuthorityChangeChecks(A, S, ix))
    PROVE  Legal(MakeImmutableEffect(A, ix)) /\ Controlled(A, S, MakeImmutableEffect(A, ix))
  <1>1. ix.metadata \in Address
    BY InstructionTypes DEF Sent
  <1> QED
    BY <1>1, AuthorityStep DEF MakeImmutableEffect

\* The token program writes the data of a mint it owns.
LEMMA MintWritten ==
    ASSUME NEW A, Legal(A), NEW S \in SUBSET Keys, NEW a \in Mints, NEW d \in Mint,
           A[a].owner = TokenProgram,
           HoldsMint(A, a) =>
              /\ d.freeze_authority = A[a].data.freeze_authority
              /\ MintAuthority(A, a) \in S
              /\ CreationAuthority(A, a) \in S
    PROVE  Legal(Rewritten(A, a, d)) /\ Controlled(A, S, Rewritten(A, a, d))
  <1> DEFINE B == Rewritten(A, a, d)
  <1>1. A \in [Address -> Account] /\ a \in Address /\ a \in Keys
    BY DerivedAddresses DEF Legal
  <1>2. /\ B[a].owner = TokenProgram
        /\ B[a].lamports = A[a].lamports
        /\ B[a].data = d
        /\ \A x \in Address \ {a} : B[x] = A[x]
    BY <1>1 DEF Account, Rewritten
  <1>3. B \in [Address -> Account]
    <2>1. d \in AccountData
      BY DEF AccountData
    <2>2. [A[a] EXCEPT !.data = d] \in Account
      BY <1>1, <2>1 DEF Account
    <2> QED
      BY <1>1, <2>2 DEF Rewritten
  <1> HIDE DEF B
  <1>4. d.kind = "mint"
    BY Kinds
  <1>5. Complete(B)
    <2>1. B[a].owner # MetadataProgram /\ ~HoldsMetadata(B, a) /\ ~HoldsAttributes(B, a)
      BY <1>2, <1>4, KeyAssumption DEF HoldsMetadata, HoldsAttributes
    <2>2. \A x \in Address \ {a} :
            /\ HoldsMetadata(B, x) <=> HoldsMetadata(A, x)
            /\ HoldsAttributes(B, x) <=> HoldsAttributes(A, x)
      BY <1>2 DEF HoldsMetadata, HoldsAttributes
    <2> QED
      BY <1>2, <2>1, <2>2 DEF Legal, Complete
  <1>6. Paid(B)
    BY <1>2, KeyAssumption DEF Legal, Paid
  <1>7. \A m \in Mints : /\ B[MetadataPda(m)] = A[MetadataPda(m)]
                         /\ B[AttributesPda(m)] = A[AttributesPda(m)]
    BY <1>1, <1>2, DerivedAddresses
  <1>8. \A m \in Mints : /\ MetadataExists(B, m) <=> MetadataExists(A, m)
                         /\ AttributesExist(B, m) <=> AttributesExist(A, m)
    BY <1>7 DEF MetadataExists, AttributesExist, HoldsMetadata, HoldsAttributes
  <1>9. \A m \in Mints : m # a => B[m] = A[m]
    BY <1>2, DerivedAddresses
  <1>10. Backed(B)
    BY <1>2, <1>4, <1>8, <1>9 DEF Legal, Backed, HoldsMint
  <1>11. Kept(A, S, B)
    BY <1>2, <1>4, <1>8, <1>9 DEF Kept, HoldsMint
  <1>12. Controlled(A, S, B)
    BY <1>7, <1>8, <1>9, <1>11 DEF Controlled
  <1> QED
    BY <1>3, <1>5, <1>6, <1>10, <1>12 DEF Legal, B

LEMMA InitializeMint2Step ==
    ASSUME NEW A, Legal(A), NEW S \in SUBSET Keys, NEW ix \in Sent("InitializeMint2"),
           Passes(InitializeMint2Checks(A, ix))
    PROVE  Legal(InitializeMint2Effect(A, ix)) /\ Controlled(A, S, InitializeMint2Effect(A, ix))
  <1> DEFINE d == [kind |-> "mint", mint_authority |-> ix.mint_authority,
                   freeze_authority |-> ix.freeze_authority]
  <1>1. ix.mint \in Mints /\ d \in Mint
    BY InstructionTypes DEF Sent, Mint
  <1>2. A[ix.mint].owner = TokenProgram /\ ~HoldsMint(A, ix.mint)
    BY InitializeMint2Guards
  <1>3. InitializeMint2Effect(A, ix) = Rewritten(A, ix.mint, d)
    BY DEF InitializeMint2Effect, Rewritten
  <1> HIDE DEF d
  <1> QED
    BY <1>1, <1>2, <1>3, MintWritten

LEMMA SetMintAuthorityStep ==
    ASSUME NEW A, Legal(A), NEW S \in SUBSET Keys,
           NEW ix \in Sent("SetMintAuthority"),
           Passes(SetMintAuthorityChecks(A, S, ix))
    PROVE  Legal(SetMintAuthorityEffect(A, ix)) /\ Controlled(A, S, SetMintAuthorityEffect(A, ix))
  <1> DEFINE d == [A[ix.mint].data EXCEPT !.mint_authority = ix.new_authority]
  <1>1. ix.mint \in Mints /\ ix.mint \in Address /\ ix.new_authority \in Keys \cup {NoKey}
    BY InstructionTypes, DerivedAddresses DEF Sent
  <1>2. /\ HoldsMint(A, ix.mint)
        /\ A[ix.mint].data.mint_authority # NoKey
        /\ A[ix.mint].data.mint_authority \in S
    BY SetMintAuthorityGuards DEF MintAuthority
  <1>3. A[ix.mint].owner = TokenProgram
    BY <1>1, <1>2 DEF Legal, Backed
  <1>4. CreationAuthority(A, ix.mint) \in S /\ MintAuthority(A, ix.mint) \in S
    BY <1>2 DEF CreationAuthority, MintAuthority
  <1>5. d \in Mint /\ d.freeze_authority = A[ix.mint].data.freeze_authority
    BY <1>1, <1>2, TypedData DEF Legal, Mint
  <1>6. SetMintAuthorityEffect(A, ix) = Rewritten(A, ix.mint, d)
    BY DEF SetMintAuthorityEffect, Rewritten
  <1> HIDE DEF d
  <1> QED
    BY <1>1, <1>3, <1>4, <1>5, <1>6, MintWritten

\* A new account of the token program, not yet a mint.
LEMMA CreateMintAccountStep ==
    ASSUME NEW A, Legal(A), NEW S \in SUBSET Keys, NEW ix \in Sent("CreateMintAccount"),
           Passes(CreateMintAccountChecks(A, S, ix))
    PROVE  /\ Legal(CreateMintAccountEffect(A, ix))
           /\ Controlled(A, S, CreateMintAccountEffect(A, ix))
  <1> DEFINE B == CreateMintAccountEffect(A, ix)
             p == ix.payer
             a == ix.mint
             n == MinimumRent[MINT_LEN]
             z == [kind |-> "zeroed", len |-> MINT_LEN]
  <1>1. /\ a \in Mints /\ a \in Keys /\ a \in Address
        /\ A \in [Address -> Account]
    BY InstructionTypes, DerivedAddresses DEF Sent, Legal
  <1>2. /\ p \in Keys /\ p \in Address
        /\ A[a] = Vacant
        /\ CanPay(A, p, n)
    BY CreateMintAccountGuards, DerivedAddresses DEF InUse
  <1>3. n \in Nat
    BY RentAssumption
  <1>4. A[p] \in Account /\ A[p].owner = SystemProgram /\ A[p].data = Empty
        /\ A[p].lamports - n \in Nat
    BY <1>1, <1>2, <1>3 DEF CanPay, Account
  <1>5. /\ DOMAIN B = Address
        /\ B[a] = [owner |-> TokenProgram, lamports |-> n, data |-> z]
        /\ p # a => B[p] = [A[p] EXCEPT !.lamports = A[p].lamports - n]
        /\ \A x \in Address \ {a, p} : B[x] = A[x]
    BY <1>1, <1>2 DEF CreateMintAccountEffect, CreateAccount
  <1>6. p # a => B[p].owner = SystemProgram /\ B[p].data = Empty /\ B[p] \in Account
    BY <1>4, <1>5 DEF Account
  <1>7. B \in [Address -> Account]
    <2>1. z \in AccountData
      BY DEF AccountData, Zeroed, MINT_LEN
    <2>2. B[a] \in Account
      BY <1>3, <1>5, <2>1 DEF Account, Programs
    <2>3. \A x \in Address : B[x] \in Account
      BY <1>1, <1>5, <1>6, <2>2
    <2>4. B = [x \in DOMAIN B |-> B[x]]
      BY DEF CreateMintAccountEffect, CreateAccount
    <2> QED
      BY <1>5, <2>3, <2>4
  <1> HIDE DEF B
  <1>8. \A x \in {a, p} : /\ B[x].owner # MetadataProgram
                          /\ B[x].data.kind \in {"zeroed", "empty"}
                          /\ A[x].data.kind = "empty"
    BY <1>2, <1>4, <1>5, <1>6, KeyAssumption DEF Vacant, Empty
  <1> HIDE DEF p, a, n, z
  <1>9. \A x \in Address :
          /\ HoldsMetadata(B, x) <=> HoldsMetadata(A, x)
          /\ HoldsAttributes(B, x) <=> HoldsAttributes(A, x)
          /\ HoldsMint(B, x) <=> HoldsMint(A, x)
    BY <1>5, <1>8 DEF HoldsMetadata, HoldsAttributes, HoldsMint
  <1>10. \A x \in Address : B[x].data.kind \notin {"zeroed", "empty"} => B[x] = A[x]
    BY <1>5, <1>8
  <1>11. Complete(B)
    <2> SUFFICES ASSUME NEW x \in Address
                 PROVE  /\ B[x].owner = MetadataProgram =>
                              HoldsMetadata(B, x) \/ HoldsAttributes(B, x)
                        /\ HoldsMetadata(B, x) =>
                              /\ B[x].owner = MetadataProgram
                              /\ x = MetadataPda(B[x].data.mint)
                        /\ HoldsAttributes(B, x) =>
                              /\ B[x].owner = MetadataProgram
                              /\ x = AttributesPda(B[x].data.mint)
      BY DEF Complete
    <2>1. CASE x \in {a, p}
      BY <1>8, <2>1 DEF HoldsMetadata, HoldsAttributes
    <2>2. CASE x \notin {a, p}
      BY <1>5, <2>2 DEF Legal, Complete, HoldsMetadata, HoldsAttributes
    <2> QED
      BY <2>1, <2>2
  <1>12. Paid(B)
    BY <1>5, <1>8 DEF Legal, Paid
  <1>13. Backed(B)
    BY <1>9, <1>10, DerivedAddresses
    DEF Legal, Backed, MetadataExists, AttributesExist, HoldsMint
  <1>14. Controlled(A, S, B)
    <2>k. Kept(A, S, B)
      <3>1. \A x \in Address : A[x].data.kind # "empty" => B[x] = A[x]
        BY <1>5, <1>8
      <3> QED
        BY <3>1, KeptWhenMintsAre, DerivedAddresses DEF HoldsMint
    <2> SUFFICES ASSUME NEW m \in Mints
                 PROVE  /\ B[MetadataPda(m)] = A[MetadataPda(m)]
                        /\ B[AttributesPda(m)] = A[AttributesPda(m)]
                        /\ HoldsMint(A, m) => B[m].data = A[m].data
                        /\ ~MetadataExists(A, m) => ~MetadataExists(B, m)
      BY <2>k DEF Controlled
    <2>1. /\ m \in Address /\ MetadataPda(m) \in Address /\ AttributesPda(m) \in Address
          /\ MetadataPda(m) \notin {a, p} /\ AttributesPda(m) \notin {a, p}
      BY <1>1, <1>2, DerivedAddresses
    <2>2. HoldsMint(A, m) => m \notin {a, p}
      BY <1>8 DEF HoldsMint
    <2> QED
      BY <1>5, <1>9, <2>1, <2>2 DEF MetadataExists
  <1> QED
    BY <1>7, <1>11, <1>12, <1>13, <1>14 DEF Legal, B

-----------------------------------------------------------------------------
(* What each handler writes *)

\* From A to B the data of one account became d, and the data of no other changed.
Wrote(A, B, a, d) ==
    /\ B[a].data = d
    /\ \A x \in Address \ {a} : B[x].data = A[x].data

LEMMA RewrittenWrote ==
    ASSUME NEW A \in [Address -> Account], NEW a \in Address, NEW d
    PROVE  Wrote(A, Rewritten(A, a, d), a, d)
  <1>1. A[a] \in Account
    OBVIOUS
  <1>2. [A[a] EXCEPT !.data = d].data = d
    BY <1>1 DEF Account
  <1> QED
    BY <1>2 DEF Rewritten, Wrote

LEMMA CreatedWrote ==
    ASSUME NEW A, Legal(A), NEW p \in Keys, NEW a \in Address \ {p}, NEW n \in Nat,
           NEW space, NEW d, CanPay(A, p, n)
    PROVE  Wrote(A, CreatedWith(A, p, a, n, space, d), a, d)
  <1> DEFINE B == CreatedWith(A, p, a, n, space, d)
  <1>1. /\ B[a] = [owner |-> MetadataProgram, lamports |-> n, data |-> d]
        /\ B[p] = [owner |-> SystemProgram, lamports |-> A[p].lamports - n, data |-> Empty]
        /\ A[p].data = Empty
        /\ \A x \in Address \ {a, p} : B[x] = A[x]
    BY CreateAccountEffect
  <1> HIDE DEF B
  <1>2. B[a].data = d /\ B[p].data = Empty
    BY <1>1
  <1>3. Wrote(A, B, a, d)
    BY <1>1, <1>2 DEF Wrote
  <1> QED
    BY <1>3 DEF B

LEMMA CreateMetadataWrites ==
    ASSUME NEW A, Legal(A), NEW S \in SUBSET Keys, NEW ix \in Sent("CreateMetadata"),
           Passes(CreateMetadataChecks(A, S, ix))
    PROVE  Wrote(A, CreateMetadataEffect(A, ix), MetadataPda(ix.mint), NewMetadata(A, ix))
  <1>1. ix.mint \in Address /\ ix.metadata \in Address
    BY InstructionTypes DEF Sent
  <1>2. ix.metadata = MetadataPda(ix.mint) /\ ~AlreadyInitialized(A, ix.metadata)
    BY CreateMetadataGuards
  <1>3. NeedsCreation(A, ix.metadata)
    BY <1>1, <1>2, CreationNeeded
  <1>4. ix.payer \in Keys /\ CanPay(A, ix.payer, MinimumRent[TOKEN_METADATA_MAX_LEN])
    BY <1>3, CreateMetadataGuards
  <1>5. ix.metadata # ix.payer /\ MinimumRent[TOKEN_METADATA_MAX_LEN] \in Nat
    BY <1>1, <1>2, <1>4, DerivedAddresses, RentAssumption
  <1>6. CreateMetadataEffect(A, ix) =
          CreatedWith(A, ix.payer, ix.metadata, MinimumRent[TOKEN_METADATA_MAX_LEN],
                      TOKEN_METADATA_MAX_LEN, NewMetadata(A, ix))
    BY <1>3 DEF CreateMetadataEffect, Created, CreatedWith
  <1> QED
    BY <1>1, <1>2, <1>4, <1>5, <1>6, CreatedWrote

LEMMA CreateAttributesWrites ==
    ASSUME NEW A, Legal(A), NEW S \in SUBSET Keys, NEW ix \in Sent("CreateAttributes"),
           Passes(CreateAttributesChecks(A, S, ix))
    PROVE  Wrote(A, CreateAttributesEffect(A, ix), AttributesPda(ix.mint), NewAttributes(ix))
  <1>1. ix.mint \in Address /\ ix.attributes \in Address
    BY InstructionTypes DEF Sent
  <1>2. /\ ix.attributes = AttributesPda(ix.mint) /\ ix.payer \in Keys
        /\ ~AlreadyInitialized(A, ix.attributes)
    BY CreateAttributesGuards
  <1>3. NeedsCreation(A, ix.attributes)
    BY <1>1, <1>2, CreationNeeded
  <1>4. CanPay(A, ix.payer, MinimumRent[TOKEN_METADATA_ATTRIBUTES_MAX_LEN])
    BY <1>3, CreateAttributesGuards
  <1>5. ix.attributes # ix.payer /\ MinimumRent[TOKEN_METADATA_ATTRIBUTES_MAX_LEN] \in Nat
    BY <1>1, <1>2, DerivedAddresses, RentAssumption
  <1>6. CreateAttributesEffect(A, ix) =
          CreatedWith(A, ix.payer, ix.attributes,
                      MinimumRent[TOKEN_METADATA_ATTRIBUTES_MAX_LEN],
                      TOKEN_METADATA_ATTRIBUTES_MAX_LEN, NewAttributes(ix))
    BY <1>3 DEF CreateAttributesEffect, Created, CreatedWith
  <1> QED
    BY <1>1, <1>2, <1>4, <1>5, <1>6, CreatedWrote

LEMMA OthersWrite ==
    ASSUME NEW A, Legal(A), NEW S \in SUBSET Keys, NEW ix \in Instructions
    PROVE  /\ ix.op = "UpdateMetadata" =>
                Wrote(A, UpdateMetadataEffect(A, ix), ix.metadata, Updated(A, ix))
           /\ ix.op = "ReplaceAttributes" =>
                Wrote(A, ReplaceAttributesEffect(A, ix), ix.attributes,
                      [A[ix.attributes].data EXCEPT !.entries = ix.entries])
           /\ ix.op = "TransferAuthority" =>
                Wrote(A, TransferAuthorityEffect(A, ix), ix.metadata,
                      [A[ix.metadata].data EXCEPT !.update_authority = ix.new_authority])
           /\ ix.op = "MakeImmutable" =>
                Wrote(A, MakeImmutableEffect(A, ix), ix.metadata,
                      [A[ix.metadata].data EXCEPT !.update_authority = NoKey])
           /\ ix.op = "InitializeMint2" =>
                Wrote(A, InitializeMint2Effect(A, ix), ix.mint,
                      [kind |-> "mint", mint_authority |-> ix.mint_authority,
                       freeze_authority |-> ix.freeze_authority])
           /\ ix.op = "SetMintAuthority" =>
                Wrote(A, SetMintAuthorityEffect(A, ix), ix.mint,
                      [A[ix.mint].data EXCEPT !.mint_authority = ix.new_authority])
           /\ ix.op = "CreateMintAccount" =>
                Wrote(A, CreateMintAccountEffect(A, ix), ix.mint,
                      [kind |-> "zeroed", len |-> MINT_LEN])
  <1>1. A \in [Address -> Account]
    BY DEF Legal
  <1>2. ix.op = "UpdateMetadata" =>
          Wrote(A, UpdateMetadataEffect(A, ix), ix.metadata, Updated(A, ix))
    BY <1>1, InstructionTypes, RewrittenWrote DEF UpdateMetadataEffect, Rewritten
  <1>3. ix.op = "ReplaceAttributes" =>
          Wrote(A, ReplaceAttributesEffect(A, ix), ix.attributes,
                [A[ix.attributes].data EXCEPT !.entries = ix.entries])
    BY <1>1, InstructionTypes, RewrittenWrote DEF ReplaceAttributesEffect, Rewritten
  <1>4. ix.op = "TransferAuthority" =>
          Wrote(A, TransferAuthorityEffect(A, ix), ix.metadata,
                [A[ix.metadata].data EXCEPT !.update_authority = ix.new_authority])
    BY <1>1, InstructionTypes, RewrittenWrote DEF TransferAuthorityEffect, Rewritten
  <1>5. ix.op = "MakeImmutable" =>
          Wrote(A, MakeImmutableEffect(A, ix), ix.metadata,
                [A[ix.metadata].data EXCEPT !.update_authority = NoKey])
    BY <1>1, InstructionTypes, RewrittenWrote DEF MakeImmutableEffect, Rewritten
  <1>6. ix.op = "InitializeMint2" =>
          Wrote(A, InitializeMint2Effect(A, ix), ix.mint,
                [kind |-> "mint", mint_authority |-> ix.mint_authority,
                 freeze_authority |-> ix.freeze_authority])
    BY <1>1, InstructionTypes, DerivedAddresses, RewrittenWrote
    DEF InitializeMint2Effect, Rewritten
  <1>7. ix.op = "SetMintAuthority" =>
          Wrote(A, SetMintAuthorityEffect(A, ix), ix.mint,
                [A[ix.mint].data EXCEPT !.mint_authority = ix.new_authority])
    BY <1>1, InstructionTypes, DerivedAddresses, RewrittenWrote
    DEF SetMintAuthorityEffect, Rewritten
  <1>8. ASSUME ix.op = "CreateMintAccount"
        PROVE  Wrote(A, CreateMintAccountEffect(A, ix), ix.mint,
                     [kind |-> "zeroed", len |-> MINT_LEN])
    <2>1. ix.mint \in Address
      BY <1>8, InstructionTypes, DerivedAddresses
    <2> DEFINE B == CreateMintAccountEffect(A, ix)
    <2>2. B[ix.mint].data = [kind |-> "zeroed", len |-> MINT_LEN]
      BY <1>1, <2>1 DEF CreateMintAccountEffect, CreateAccount
    <2>3. \A x \in Address \ {ix.mint} : B[x].data = A[x].data
      <3> SUFFICES ASSUME NEW x \in Address \ {ix.mint} PROVE B[x].data = A[x].data
        OBVIOUS
      <3>1. A[x] \in Account
        BY <1>1
      <3> QED
        BY <1>1, <2>1, <3>1 DEF CreateMintAccountEffect, CreateAccount, Account
    <2> QED
      BY <2>2, <2>3 DEF Wrote
  <1> QED
    BY <1>2, <1>3, <1>4, <1>5, <1>6, <1>7, <1>8

-----------------------------------------------------------------------------
(* Errors *)

\* A set of naturals that is not empty has a least member: induction, for a set.
LEMMA LeastMember ==
    ASSUME NEW S \in SUBSET Nat, S # {}
    PROVE  \E x \in S : \A y \in S : x =< y
  <1>1. PICK x \in S : \A y \in S : <<y, x>> \notin OpToRel(<, Nat)
    BY WFMin, NatLessThanWellFounded, Zenon
  <1>2. \A y \in S : x =< y
    <2> SUFFICES ASSUME NEW y \in S, y < x PROVE FALSE
      OBVIOUS
    <2> QED
      BY <1>1 DEF OpToRel
  <1> QED
    BY <1>2

\* An instruction that does not pass fails with the error of the first check that fails.
LEMMA FirstErrorIsOfACheck ==
    ASSUME NEW n \in Nat, NEW checks, DOMAIN checks = 1..n, ~Passes(checks)
    PROVE  \E i \in 1..n :
              /\ checks[i].fails /\ FirstError(checks) = checks[i].error
              /\ \A j \in 1..n : j < i => ~checks[j].fails
  <1> DEFINE Failing == {i \in DOMAIN checks : checks[i].fails}
  <1>1. Failing \in SUBSET Nat /\ Failing # {}
    BY DEF Passes
  <1> HIDE DEF Failing
  <1>2. PICK first \in Failing : first = Min(Failing) /\ \A y \in Failing : first =< y
    BY <1>1, LeastMember DEF Min
  <1>3. ASSUME NEW j \in 1..n, j < first, checks[j].fails PROVE FALSE
    <2>1. j \in Failing
      BY <1>3 DEF Failing
    <2>2. first =< j /\ first \in Nat
      BY <1>1, <1>2, <2>1
    <2> QED
      BY <1>3, <2>2
  <1> QED
    BY <1>2, <1>3 DEF FirstError, Failing

\* Every error of a table of checks is a known one.
LEMMA ErrorsKnown ==
    ASSUME NEW n \in Nat, NEW checks, DOMAIN checks = 1..n, ~Passes(checks),
           \A i \in 1..n : checks[i].error \in Errors
    PROVE  FirstError(checks) \in Errors
  BY FirstErrorIsOfACheck

LEMMA HandlerErrors ==
    ASSUME NEW A, NEW S, NEW ix
    PROVE  /\ ~Passes(CreateMetadataChecks(A, S, ix)) =>
                FirstError(CreateMetadataChecks(A, S, ix)) \in Errors
           /\ ~Passes(UpdateMetadataChecks(A, S, ix)) =>
                FirstError(UpdateMetadataChecks(A, S, ix)) \in Errors
           /\ ~Passes(CreateAttributesChecks(A, S, ix)) =>
                FirstError(CreateAttributesChecks(A, S, ix)) \in Errors
           /\ ~Passes(ReplaceAttributesChecks(A, S, ix)) =>
                FirstError(ReplaceAttributesChecks(A, S, ix)) \in Errors
           /\ ~Passes(AuthorityChangeChecks(A, S, ix)) =>
                FirstError(AuthorityChangeChecks(A, S, ix)) \in Errors
           /\ ~Passes(CreateMintAccountChecks(A, S, ix)) =>
                FirstError(CreateMintAccountChecks(A, S, ix)) \in Errors
           /\ ~Passes(InitializeMint2Checks(A, ix)) =>
                FirstError(InitializeMint2Checks(A, ix)) \in Errors
           /\ ~Passes(SetMintAuthorityChecks(A, S, ix)) =>
                FirstError(SetMintAuthorityChecks(A, S, ix)) \in Errors
  <1>1. /\ DOMAIN CreateMetadataChecks(A, S, ix) = 1..12
        /\ \A i \in 1..12 : CreateMetadataChecks(A, S, ix)[i].error \in Errors
    BY DEF CreateMetadataChecks, Check, Errors
  <1>2. /\ DOMAIN UpdateMetadataChecks(A, S, ix) = 1..5
        /\ \A i \in 1..5 : UpdateMetadataChecks(A, S, ix)[i].error \in Errors
    BY DEF UpdateMetadataChecks, Check, Errors
  <1>3. /\ DOMAIN CreateAttributesChecks(A, S, ix) = 1..14
        /\ \A i \in 1..14 : CreateAttributesChecks(A, S, ix)[i].error \in Errors
    BY DEF CreateAttributesChecks, Check, Errors
  <1>4. /\ DOMAIN ReplaceAttributesChecks(A, S, ix) = 1..9
        /\ \A i \in 1..9 : ReplaceAttributesChecks(A, S, ix)[i].error \in Errors
    BY DEF ReplaceAttributesChecks, Check, Errors
  <1>5. /\ DOMAIN AuthorityChangeChecks(A, S, ix) = 1..3
        /\ \A i \in 1..3 : AuthorityChangeChecks(A, S, ix)[i].error \in Errors
    BY DEF AuthorityChangeChecks, Check, Errors
  <1>6. /\ DOMAIN CreateMintAccountChecks(A, S, ix) = 1..3
        /\ \A i \in 1..3 : CreateMintAccountChecks(A, S, ix)[i].error \in Errors
    BY DEF CreateMintAccountChecks, Check, Errors
  <1>7. /\ DOMAIN InitializeMint2Checks(A, ix) = 1..2
        /\ \A i \in 1..2 : InitializeMint2Checks(A, ix)[i].error \in Errors
    BY DEF InitializeMint2Checks, Check, Errors
  <1>8. /\ DOMAIN SetMintAuthorityChecks(A, S, ix) = 1..4
        /\ \A i \in 1..4 : SetMintAuthorityChecks(A, S, ix)[i].error \in Errors
    BY DEF SetMintAuthorityChecks, Check, Errors
  <1> QED
    BY <1>1, <1>2, <1>3, <1>4, <1>5, <1>6, <1>7, <1>8, ErrorsKnown

-----------------------------------------------------------------------------
(* The inductive invariant *)

\* What two steps of a transaction change, its signers control, if they control
\* what each changes: a key that has not signed keeps its token, so it is still
\* the one in control when the second step comes.
LEMMA ControlledTransitive ==
    ASSUME NEW A, NEW B, NEW C, NEW S, Controlled(A, S, B), Controlled(B, S, C)
    PROVE  Controlled(A, S, C)
  <1>k. Kept(A, S, C)
    <2> SUFFICES ASSUME NEW m \in Mints
                 PROVE  /\ MetadataExists(A, m) => MetadataExists(C, m)
                        /\ AttributesExist(A, m) => AttributesExist(C, m)
                        /\ HoldsMint(A, m) =>
                             /\ HoldsMint(C, m)
                             /\ C[m].data.freeze_authority = A[m].data.freeze_authority
                             /\ MintAuthority(A, m) \notin S => C[m].data = A[m].data
      BY DEF Kept
    <2>1. Kept(A, S, B) /\ Kept(B, S, C)
      BY DEF Controlled
    <2>2. B[m].data = A[m].data => (HoldsMint(B, m) <=> HoldsMint(A, m))
                                    /\ MintAuthority(B, m) = MintAuthority(A, m)
      BY DEF HoldsMint, MintAuthority
    <2> QED
      BY <2>1, <2>2 DEF Kept
  <1> SUFFICES ASSUME NEW m \in Mints
               PROVE  /\ MetadataExists(A, m) /\ Authority(A, m) \notin S =>
                           /\ C[MetadataPda(m)] = A[MetadataPda(m)]
                           /\ C[AttributesPda(m)] = A[AttributesPda(m)]
                      /\ /\ HoldsMint(A, m) /\ ~MetadataExists(A, m)
                         /\ CreationAuthority(A, m) \notin S
                         => C[m].data = A[m].data /\ ~MetadataExists(C, m)
    BY <1>k DEF Controlled
  <1>1. ASSUME MetadataExists(A, m), Authority(A, m) \notin S
        PROVE  /\ C[MetadataPda(m)] = A[MetadataPda(m)]
               /\ C[AttributesPda(m)] = A[AttributesPda(m)]
    <2>1. /\ B[MetadataPda(m)] = A[MetadataPda(m)]
          /\ B[AttributesPda(m)] = A[AttributesPda(m)]
      BY <1>1 DEF Controlled
    <2>2. MetadataExists(B, m) /\ Authority(B, m) = Authority(A, m)
      BY <1>1, <2>1 DEF MetadataExists, Authority, UpdateAuthority, HoldsMetadata
    <2> QED
      BY <1>1, <2>1, <2>2 DEF Controlled
  <1>2. ASSUME HoldsMint(A, m), ~MetadataExists(A, m), CreationAuthority(A, m) \notin S
        PROVE  C[m].data = A[m].data /\ ~MetadataExists(C, m)
    <2>1. B[m].data = A[m].data /\ ~MetadataExists(B, m)
      BY <1>2 DEF Controlled
    <2>2. HoldsMint(B, m) /\ CreationAuthority(B, m) = CreationAuthority(A, m)
      BY <1>2, <2>1 DEF HoldsMint, CreationAuthority
    <2> QED
      BY <1>2, <2>1, <2>2 DEF Controlled
  <1> QED
    BY <1>1, <1>2

LEMMA ControlledReflexive ==
    ASSUME NEW A, NEW S
    PROVE  Controlled(A, S, A)
  BY DEF Controlled, Kept

\* At genesis there are wallets with lamports and nothing else.
LEMMA GenesisLegal ==
    ASSUME Init
    PROVE  Legal(ledger)
  <1>1. \A a \in Address : /\ ledger[a] \in Account
                           /\ ledger[a].owner = SystemProgram
                           /\ ledger[a].data = Empty
    <2> SUFFICES ASSUME NEW a \in Address
                 PROVE  /\ ledger[a] \in Account
                        /\ ledger[a].owner = SystemProgram
                        /\ ledger[a].data = Empty
      OBVIOUS
    <2>1. Vacant \in Account
      BY DEF Vacant, Account, AccountData, Programs
    <2>2. CASE a \in Wallets
      <3>1. ledger[a] = [Vacant EXCEPT !.lamports = Genesis[a]] /\ Genesis[a] \in Nat
        BY <2>2, GenesisAssumption DEF Init
      <3> QED
        BY <2>1, <3>1 DEF Vacant, Account
    <2>3. CASE a \notin Wallets
      <3>1. ledger[a] = Vacant
        BY <2>3 DEF Init
      <3> QED
        BY <2>1, <3>1 DEF Vacant
    <2> QED
      BY <2>2, <2>3
  <1>2. ledger \in [Address -> Account]
    BY <1>1 DEF Init
  <1>3. \A a \in Address : /\ ~HoldsMetadata(ledger, a)
                           /\ ~HoldsAttributes(ledger, a)
                           /\ ~HoldsMint(ledger, a)
                           /\ ledger[a].owner # MetadataProgram
    BY <1>1, Kinds, KeyAssumption DEF HoldsMetadata, HoldsAttributes, HoldsMint
  <1>4. Complete(ledger) /\ Paid(ledger)
    BY <1>3 DEF Complete, Paid
  <1>5. Backed(ledger)
    BY <1>3, DerivedAddresses DEF Backed, MetadataExists, AttributesExist
  <1> QED
    BY <1>2, <1>4, <1>5 DEF Legal

LEMMA InitIInv == Init => IInv
  <1> SUFFICES ASSUME Init PROVE IInv
    OBVIOUS
  <1>1. Legal(ledger)
    BY GenesisLegal
  <1>2. bank = ledger /\ signers = {} /\ executed = 0 /\ outcome = "none"
    BY DEF Init
  <1>3. TypeOK
    BY <1>1, <1>2, MaxInstructionsAssumption DEF TypeOK, Legal
  <1> QED
    BY <1>1, <1>2, <1>3, ControlledReflexive DEF IInv

\* One instruction: it fails and the transaction is undone, or it leaves a bank
\* that is legal and in which its signers control what it changed.
LEMMA ExecutePreservesIInv ==
    ASSUME IInv, NEW checks, NEW effect, Execute(checks, effect),
           Passes(checks) => Legal(effect) /\ Controlled(bank, signers, effect),
           ~Passes(checks) => FirstError(checks) \in Errors
    PROVE  IInv'
  <1>1. CASE Passes(checks) /\ Succeed(effect)
    <2>1. /\ bank' = effect /\ ledger' = ledger /\ signers' = signers /\ outcome' = outcome
          /\ Open /\ Open' /\ executed' \in 0..MaxInstructions
      BY <1>1, MaxInstructionsAssumption DEF Execute, Succeed, Open, IInv, TypeOK
    <2>2. Legal(bank') /\ Controlled(ledger, signers, bank')
      BY <1>1, <2>1, ControlledTransitive DEF IInv
    <2>3. TypeOK'
      BY <2>1, <2>2 DEF IInv, TypeOK, Legal
    <2> QED
      BY <2>1, <2>2, <2>3 DEF IInv
  <1>2. CASE ~Passes(checks) /\ Fail(FirstError(checks))
    <2>1. /\ bank' = ledger /\ ledger' = ledger /\ signers' = {} /\ executed' = 0
          /\ outcome' \in Errors
      BY <1>2 DEF Fail
    <2>2. TypeOK'
      BY <2>1, MaxInstructionsAssumption DEF IInv, TypeOK
    <2> QED
      BY <2>1, <2>2, ControlledReflexive DEF IInv
  <1> QED
    BY <1>1, <1>2 DEF Execute

LEMMA NextPreservesIInv == IInv /\ [Next]_vars => IInv'
  <1> SUFFICES ASSUME IInv, [Next]_vars PROVE IInv'
    OBVIOUS
  <1>a. Legal(bank) /\ signers \in SUBSET Keys
    BY DEF IInv, TypeOK
  <1>1. ASSUME NEW keys \in SUBSET Keys, Begin(keys) PROVE IInv'
    <2>1. /\ ledger' = ledger /\ bank' = bank /\ bank' = ledger' /\ executed' = executed
          /\ signers' = keys /\ outcome' = "open"
      BY <1>1 DEF Begin, IInv
    <2>2. TypeOK'
      BY <2>1 DEF IInv, TypeOK
    <2> QED
      BY <2>1, <2>2, ControlledReflexive DEF IInv, Open
  <1>2. ASSUME Commit PROVE IInv'
    <2>1. /\ ledger' = bank /\ bank' = bank /\ executed' = 0
          /\ signers' = {} /\ outcome' = "Processed"
      BY <1>2 DEF Commit
    <2>2. TypeOK'
      BY <2>1, MaxInstructionsAssumption DEF IInv, TypeOK
    <2> QED
      BY <2>1, <2>2, ControlledReflexive DEF IInv
  <1>3. ASSUME NEW ix \in Sent("CreateMetadata"), CreateMetadata(ix) PROVE IInv'
    BY <1>a, <1>3, ExecutePreservesIInv, CreateMetadataStep, HandlerErrors DEF CreateMetadata
  <1>4. ASSUME NEW ix \in Sent("UpdateMetadata"), UpdateMetadata(ix) PROVE IInv'
    BY <1>a, <1>4, ExecutePreservesIInv, UpdateMetadataStep, HandlerErrors DEF UpdateMetadata
  <1>5. ASSUME NEW ix \in Sent("CreateAttributes"), CreateAttributes(ix) PROVE IInv'
    BY <1>a, <1>5, ExecutePreservesIInv, CreateAttributesStep, HandlerErrors DEF CreateAttributes
  <1>6. ASSUME NEW ix \in Sent("ReplaceAttributes"), ReplaceAttributes(ix) PROVE IInv'
    BY <1>a, <1>6, ExecutePreservesIInv, ReplaceAttributesStep, HandlerErrors
    DEF ReplaceAttributes
  <1>7. ASSUME NEW ix \in Sent("TransferAuthority"), TransferAuthority(ix) PROVE IInv'
    BY <1>a, <1>7, ExecutePreservesIInv, TransferAuthorityStep, HandlerErrors
    DEF TransferAuthority
  <1>8. ASSUME NEW ix \in Sent("MakeImmutable"), MakeImmutable(ix) PROVE IInv'
    BY <1>a, <1>8, ExecutePreservesIInv, MakeImmutableStep, HandlerErrors DEF MakeImmutable
  <1>9. ASSUME NEW ix \in Sent("CreateMintAccount"), CreateMintAccount(ix) PROVE IInv'
    BY <1>a, <1>9, ExecutePreservesIInv, CreateMintAccountStep, HandlerErrors
    DEF CreateMintAccount
  <1>10. ASSUME NEW ix \in Sent("InitializeMint2"), InitializeMint2(ix) PROVE IInv'
    BY <1>a, <1>10, ExecutePreservesIInv, InitializeMint2Step, HandlerErrors DEF InitializeMint2
  <1>11. ASSUME NEW ix \in Sent("SetMintAuthority"), SetMintAuthority(ix) PROVE IInv'
    BY <1>a, <1>11, ExecutePreservesIInv, SetMintAuthorityStep, HandlerErrors
    DEF SetMintAuthority
  <1>12. CASE UNCHANGED vars
    BY <1>12 DEF vars, IInv, TypeOK, Open
  <1> QED
    BY <1>1, <1>2, <1>3, <1>4, <1>5, <1>6, <1>7, <1>8, <1>9, <1>10, <1>11, <1>12 DEF Next

\* The inductive invariant holds in every reachable state.
THEOREM Invariant == Spec => []IInv
  BY InitIInv, NextPreservesIInv, PTL DEF Spec

-----------------------------------------------------------------------------
(* Theorems *)

\* Type correctness: whatever clients send, accounts keep their types and no
\* payer is debited below zero.
THEOREM TypeCorrect == Spec => []TypeOK
  <1>1. IInv => TypeOK
    BY DEF IInv
  <1> QED
    BY <1>1, Invariant, PTL

\* A committed account of the program is always initialised and at its derived
\* address, for any transactions: creation never half-happens.
THEOREM CreationComplete == Spec => []AccountsComplete
  <1>1. IInv => AccountsComplete
    BY DEF IInv, Legal, AccountsComplete
  <1> QED
    BY <1>1, Invariant, PTL

\* Every account of the program holds the rent of its size.
THEOREM CreationPaid == Spec => []RentPaid
  <1>1. IInv => RentPaid
    BY DEF IInv, Legal, RentPaid
  <1> QED
    BY <1>1, Invariant, PTL

\* What a step does to the committed accounts is controlled by the keys that
\* signed the transaction: only Commit changes them.
LEMMA StepControlled ==
    ASSUME IInv, [Next]_vars
    PROVE  Controlled(ledger, signers, ledger')
  <1>1. ASSUME Commit PROVE Controlled(ledger, signers, ledger')
    BY <1>1 DEF Commit, IInv
  <1>2. ASSUME NEW checks, NEW effect, Execute(checks, effect) PROVE ledger' = ledger
    BY <1>2 DEF Execute, Succeed, Fail
  <1>3. ASSUME ~Commit PROVE ledger' = ledger
    BY <1>2, <1>3
    DEF Next, vars, Begin, CreateMetadata, UpdateMetadata, CreateAttributes,
        ReplaceAttributes, TransferAuthority, MakeImmutable, CreateMintAccount,
        InitializeMint2, SetMintAuthority
  <1> QED
    BY <1>1, <1>3, ControlledReflexive

\* Metadata and attributes change only when the update authority stored before
\* the transaction signed it, whatever the transaction is made of.
THEOREM OnlyAuthorityChanges == Spec => ChangesAuthorised
  <1>1. IInv /\ [Next]_vars =>
          [\A m \in Mints :
             MetadataExists(ledger, m) /\ ~TokenUnchanged(m) =>
               Authority(ledger, m) \in signers]_vars
    BY StepControlled DEF Controlled, TokenUnchanged
  <1> QED
    BY <1>1, Invariant, PTL DEF Spec, ChangesAuthorised

\* Immutable metadata and its attributes never change again: no key can stand in
\* for the authority that is gone.
THEOREM ImmutabilityIsForever == Spec => ImmutableForever
  <1>1. IInv /\ [Next]_vars =>
          [\A m \in Mints :
             MetadataExists(ledger, m) /\ Authority(ledger, m) = NoKey =>
               TokenUnchanged(m)]_vars
    BY StepControlled, DerivedAddresses DEF IInv, TypeOK, Controlled, TokenUnchanged
  <1> QED
    BY <1>1, Invariant, PTL DEF Spec, ImmutableForever

\* Metadata of a mint appears only when the mint's creation authority signed.
THEOREM OnlyMintAuthorityCreates == Spec => CreationAuthorised
  <1>1. IInv /\ [Next]_vars =>
          [\A m \in Mints :
             /\ HoldsMint(ledger, m)
             /\ ~MetadataExists(ledger, m)
             /\ MetadataExists(ledger', m)
             => CreationAuthority(ledger, m) \in signers]_vars
    BY StepControlled DEF Controlled
  <1> QED
    BY <1>1, Invariant, PTL DEF Spec, CreationAuthorised

-----------------------------------------------------------------------------
(* Refinement *)

\* The three functions of the registry, entry by entry.
LEMMA RegistryOf ==
    ASSUME NEW A
    PROVE  /\ \A m : m \in DOMAIN RegisteredMints(A) <=> m \in Mints /\ HoldsMint(A, m)
           /\ \A m : m \in DOMAIN RegisteredMetadata(A) <=> m \in Mints /\ MetadataExists(A, m)
           /\ \A m : m \in DOMAIN RegisteredAttributes(A) <=>
                        m \in Mints /\ AttributesExist(A, m)
           /\ \A m \in DOMAIN RegisteredMints(A) :
                 RegisteredMints(A)[m] =
                   [mint_authority |-> A[m].data.mint_authority,
                    freeze_authority |-> A[m].data.freeze_authority]
           /\ \A m \in DOMAIN RegisteredMetadata(A) :
                 RegisteredMetadata(A)[m] =
                   [text |-> A[MetadataPda(m)].data.text,
                    update_authority |-> A[MetadataPda(m)].data.update_authority]
           /\ \A m \in DOMAIN RegisteredAttributes(A) :
                 RegisteredAttributes(A)[m] = A[AttributesPda(m)].data.entries
  BY DEF RegisteredMints, RegisteredMetadata, RegisteredAttributes

\* What legal accounts register has the registry's types.
LEMMA RegistryTypes ==
    ASSUME NEW A, Legal(A)
    PROVE  /\ Registry!PartialFunction(RegisteredMints(A), Mints, Registry!MintInfo)
           /\ Registry!PartialFunction(RegisteredMetadata(A), Mints, Registry!Metadata)
           /\ Registry!PartialFunction(RegisteredAttributes(A), Mints, Seq(Entry))
           /\ DOMAIN RegisteredAttributes(A) \subseteq DOMAIN RegisteredMetadata(A)
           /\ DOMAIN RegisteredMetadata(A) \subseteq DOMAIN RegisteredMints(A)
  <1>1. A \in [Address -> Account]
    BY DEF Legal
  <1>2. \A m \in Mints : HoldsMint(A, m) => A[m].data \in Mint
    BY <1>1, TypedData, DerivedAddresses
  <1>3. \A m \in Mints : MetadataExists(A, m) => A[MetadataPda(m)].data \in TokenMetadata
    BY <1>1, TypedData, DerivedAddresses DEF MetadataExists
  <1>4. \A m \in Mints :
          AttributesExist(A, m) => A[AttributesPda(m)].data \in TokenMetadataAttributes
    BY <1>1, TypedData, DerivedAddresses DEF AttributesExist
  <1>5. Registry!PartialFunction(RegisteredMints(A), Mints, Registry!MintInfo)
    BY <1>2, RegistryOf DEF Registry!PartialFunction, Registry!MintInfo, Mint
  <1>6. Registry!PartialFunction(RegisteredMetadata(A), Mints, Registry!Metadata)
    BY <1>3, RegistryOf DEF Registry!PartialFunction, Registry!Metadata, TokenMetadata
  <1>7. Registry!PartialFunction(RegisteredAttributes(A), Mints, Seq(Entry))
    BY <1>4, RegistryOf DEF Registry!PartialFunction, TokenMetadataAttributes
  <1>8. /\ DOMAIN RegisteredAttributes(A) \subseteq DOMAIN RegisteredMetadata(A)
        /\ DOMAIN RegisteredMetadata(A) \subseteq DOMAIN RegisteredMints(A)
    BY RegistryOf DEF Legal, Backed
  <1> QED
    BY <1>5, <1>6, <1>7, <1>8

LEMMA RegistryInit == Init => Registry!Init
  <1> SUFFICES ASSUME Init PROVE Registry!Init
    OBVIOUS
  <1>1. \A a \in Address : ledger[a].data.kind = "empty"
    <2> SUFFICES ASSUME NEW a \in Address PROVE ledger[a].data.kind = "empty"
      OBVIOUS
    <2>1. ledger[a] = [Vacant EXCEPT !.lamports = Genesis[a]] \/ ledger[a] = Vacant
      BY DEF Init
    <2> QED
      BY <2>1 DEF Vacant, Empty
  <1>2. \A m \in Mints : /\ ~HoldsMint(ledger, m)
                         /\ ~MetadataExists(ledger, m)
                         /\ ~AttributesExist(ledger, m)
    BY <1>1, DerivedAddresses
    DEF HoldsMint, MetadataExists, AttributesExist, HoldsMetadata, HoldsAttributes
  <1>3. RegisteredMints(ledger) = <<>>
    BY <1>2 DEF RegisteredMints
  <1>4. RegisteredMetadata(ledger) = <<>>
    BY <1>2 DEF RegisteredMetadata
  <1>5. RegisteredAttributes(ledger) = <<>>
    BY <1>2 DEF RegisteredAttributes
  <1> QED
    BY <1>3, <1>4, <1>5 DEF Init, Registry!Init

\* A controlled change between legal accounts is a lawful step of the registry.
LEMMA RegistryStep ==
    ASSUME Legal(ledger), Legal(ledger'), signers' = {},
           Controlled(ledger, signers, ledger')
    PROVE  Registry!Transact
  <1>1. Registry!TypeOK' /\ Registry!Backed'
    BY RegistryTypes DEF Registry!TypeOK, Registry!Backed
  <1>2. Kept(ledger, signers, ledger')
    BY DEF Controlled
  <1>3. Registry!NothingRemoved
    BY <1>2, RegistryOf DEF Registry!NothingRemoved, Kept
  <1>4. Registry!MintsRespected
    BY <1>2, RegistryOf DEF Registry!MintsRespected, Kept, MintAuthority
  <1>5. Registry!OwnersRespected
    <2> SUFFICES ASSUME NEW m \in DOMAIN RegisteredMetadata(ledger),
                        RegisteredMetadata(ledger)[m].update_authority \notin signers
                 PROVE  /\ RegisteredMetadata(ledger')[m] = RegisteredMetadata(ledger)[m]
                        /\ Registry!SameAttributes(m)
      BY DEF Registry!OwnersRespected
    <2>1. m \in Mints /\ MetadataExists(ledger, m) /\ Authority(ledger, m) \notin signers
      BY RegistryOf DEF Authority, UpdateAuthority, MetadataExists
    <2>2. /\ ledger'[MetadataPda(m)] = ledger[MetadataPda(m)]
          /\ ledger'[AttributesPda(m)] = ledger[AttributesPda(m)]
      BY <2>1 DEF Controlled
    <2>3. /\ MetadataExists(ledger', m)
          /\ AttributesExist(ledger', m) <=> AttributesExist(ledger, m)
      BY <2>1, <2>2 DEF MetadataExists, AttributesExist, HoldsMetadata, HoldsAttributes
    <2> QED
      BY <2>1, <2>2, <2>3, RegistryOf DEF Registry!SameAttributes
  <1>6. Registry!IssuersRespected
    <2> SUFFICES ASSUME NEW m \in DOMAIN RegisteredMints(ledger)
                                  \ DOMAIN RegisteredMetadata(ledger),
                        m \in DOMAIN RegisteredMetadata(ledger')
                 PROVE  \/ RegisteredMints(ledger)[m].mint_authority \in signers
                        \/ /\ RegisteredMints(ledger)[m].mint_authority = NoKey
                           /\ RegisteredMints(ledger)[m].freeze_authority \in signers
      BY DEF Registry!IssuersRespected
    <2>1. /\ m \in Mints /\ HoldsMint(ledger, m)
          /\ ~MetadataExists(ledger, m) /\ MetadataExists(ledger', m)
      BY RegistryOf
    <2>2. CreationAuthority(ledger, m) \in signers
      BY <2>1 DEF Controlled
    <2> QED
      BY <2>1, <2>2, RegistryOf DEF CreationAuthority
  <1> QED
    BY <1>1, <1>3, <1>4, <1>5, <1>6 DEF Registry!Transact

\* Commit is the registry's transaction; signing and failing leave its tokens alone,
\* and instructions that succeed leave all of it alone.
LEMMA StepIsRegistryStep ==
    ASSUME IInv, IInv', [Next]_vars
    PROVE  [Registry!Next]_(Registry!registry)
  <1>1. ASSUME NEW keys \in SUBSET Keys, Begin(keys) PROVE Registry!Sign
    <2>1. signers = {} /\ signers' \in SUBSET Keys /\ ledger' = ledger
      BY <1>1 DEF Begin, IInv
    <2> QED
      BY <2>1 DEF Registry!Sign, Registry!tokens
  <1>2. ASSUME Commit PROVE Registry!Transact
    <2>1. signers' = {}
      BY <1>2 DEF Commit
    <2> QED
      BY <2>1, StepControlled, RegistryStep DEF IInv
  <1>3. ASSUME NEW checks, NEW effect, Execute(checks, effect)
        PROVE  ledger' = ledger /\ signers' \in {signers, {}}
    BY <1>3 DEF Execute, Succeed, Fail
  <1>4. ASSUME ledger' = ledger, signers' \in {signers, {}}
        PROVE  [Registry!Next]_(Registry!registry)
    BY <1>4 DEF Registry!Next, Registry!GiveUp, Registry!tokens, Registry!registry
  <1>5. CASE UNCHANGED vars
    BY <1>4, <1>5 DEF vars
  <1> QED
    BY <1>1, <1>2, <1>3, <1>4, <1>5
    DEF Registry!Next, Next, CreateMetadata, UpdateMetadata, CreateAttributes,
        ReplaceAttributes, TransferAuthority, MakeImmutable, CreateMintAccount,
        InitializeMint2, SetMintAuthority

\* The program implements the registry: whatever clients send, and for any number
\* of instructions in a transaction, commits are lawful steps of their signers.
THEOREM LedgerImplementsRegistry == Spec => ImplementsRegistry
  <1>1. IInv /\ IInv' /\ [Next]_vars => [Registry!Next]_(Registry!registry)
    BY StepIsRegistryStep
  <1> QED
    BY <1>1, RegistryInit, Invariant, PTL DEF Spec, ImplementsRegistry, Registry!Spec

-----------------------------------------------------------------------------
(* Sizes *)

\* The recursion of PackedAttributesLen has a solution for every number of entries.
LEMMA PackedLengthsExist ==
    ASSUME NEW entries, NEW N \in Nat
    PROVE  \E len : len = [n \in 0..N |->
              IF n = 0 THEN 1 + 32 + 4
              ELSE len[n - 1] + (4 + ByteLen[entries[n][1]]) + (4 + ByteLen[entries[n][2]])]
  <1> DEFINE Next1(g, n) == IF n = 0 THEN 1 + 32 + 4
                ELSE g[n - 1] + (4 + ByteLen[entries[n][1]]) + (4 + ByteLen[entries[n][2]])
             Solved(k) == \E g : g = [n \in 0..k |-> Next1(g, n)]
             Unsolved == {k \in Nat : ~Solved(k)}
  <1>1. ASSUME Unsolved # {} PROVE FALSE
    <2>1. PICK k \in Unsolved : \A y \in Unsolved : k =< y
      BY <1>1, LeastMember
    <2>2. CASE k = 0
      <3> DEFINE h == [n \in 0..0 |-> 1 + 32 + 4]
      <3>1. h = [n \in 0..0 |-> Next1(h, n)]
        OBVIOUS
      <3> QED
        BY <2>1, <2>2, <3>1
    <2>3. CASE k # 0
      <3> HIDE DEF Solved
      <3>1. k \in Nat /\ k - 1 \in Nat /\ k - 1 \notin Unsolved
        BY <2>1, <2>3
      <3> USE DEF Solved
      <3>2. PICK g : g = [n \in 0..(k - 1) |-> Next1(g, n)]
        BY <3>1
      <3> DEFINE h == [n \in 0..k |-> IF n = k THEN Next1(g, k) ELSE g[n]]
      <3>3. ASSUME NEW n \in 0..k PROVE h[n] = Next1(h, n)
        <4>1. CASE n = k
          BY <2>3, <3>1, <4>1
        <4>2. CASE n # k
          <5>1. n \in 0..(k - 1) /\ h[n] = g[n]
            BY <3>1, <4>2
          <5>2. n # 0 => n - 1 \in 0..k /\ n - 1 # k /\ h[n - 1] = g[n - 1]
            BY <3>1, <5>1
          <5>3. g[n] = Next1(g, n)
            BY <3>2, <5>1
          <5> HIDE DEF h
          <5> QED
            BY <5>1, <5>2, <5>3
        <4> QED
          BY <4>1, <4>2
      <3>4. h = [n \in 0..k |-> Next1(h, n)]
        BY <3>3
      <3> HIDE DEF h, Next1
      <3> QED
        BY <2>1, <3>1, <3>4
    <2> QED
      BY <2>2, <2>3
  <1> QED
    BY <1>1

\* The two limits are numbers.
LEMMA MaxLengths ==
    TOKEN_METADATA_MAX_LEN \in Nat /\ TOKEN_METADATA_ATTRIBUTES_MAX_LEN \in Nat
  BY DEF TOKEN_METADATA_MAX_LEN, TOKEN_METADATA_ATTRIBUTES_MAX_LEN, NAME_MAX_LEN,
         SYMBOL_MAX_LEN, IMAGE_MAX_LEN, DESCRIPTION_MAX_LEN, MAX_ATTRIBUTES,
         MAX_KEY_LENGTH, MAX_VALUE_LENGTH

\* Entries within the caps, as many as allowed, fit the account.
LEMMA PackedAttributesFit ==
    ASSUME NEW entries \in Seq(Entry), ~TooManyEntries(entries), ~SomeEntryTooLong(entries)
    PROVE  PackedAttributesLen(entries) \in 0..TOKEN_METADATA_ATTRIBUTES_MAX_LEN
  <1> DEFINE N == Len(entries)
             Next1(g, n) == IF n = 0 THEN 1 + 32 + 4
                ELSE g[n - 1] + (4 + ByteLen[entries[n][1]]) + (4 + ByteLen[entries[n][2]])
             len == CHOOSE g : g = [n \in 0..N |-> Next1(g, n)]
             Large == {n \in 0..N : ~(len[n] \in Nat /\ len[n] <= 37 + 312 * n)}
  <1>0. N \in Nat /\ DOMAIN entries = 1..N
    OBVIOUS
  <1>1. PackedAttributesLen(entries) = len[N]
    BY DEF PackedAttributesLen
  <1>2. len = [n \in 0..N |-> Next1(len, n)]
    BY <1>0, PackedLengthsExist
  <1>3. ASSUME NEW n \in 1..N
        PROVE  /\ ByteLen[entries[n][1]] \in 0..64
               /\ ByteLen[entries[n][2]] \in 0..240
    <2>1. entries[n][1] \in Text /\ entries[n][2] \in Text /\ n \in DOMAIN entries
      BY <1>0 DEF Entry
    <2>2. ~EntryTooLong(entries[n])
      BY <2>1 DEF SomeEntryTooLong
    <2> DEFINE k == ByteLen[entries[n][1]]
               v == ByteLen[entries[n][2]]
    <2>3. k \in Nat /\ v \in Nat
      BY <2>1, TextAssumption
    <2>4. ~(k > 64) /\ ~(v > 240)
      BY <2>2 DEF EntryTooLong, MAX_KEY_LENGTH, MAX_VALUE_LENGTH
    <2> HIDE DEF k, v
    <2>5. k \in 0..64 /\ v \in 0..240
      BY <2>3, <2>4
    <2> QED
      BY <2>5 DEF k, v
  <1>4. ~(N > 32)
    BY DEF TooManyEntries, MAX_ATTRIBUTES
  <1> HIDE DEF len, N
  <1>5. ASSUME Large # {} PROVE FALSE
    <2> HIDE DEF Large
    <2>1. PICK n \in Large : \A y \in Large : n =< y
      <3>1. Large \in SUBSET Nat
        BY DEF Large
      <3> QED
        BY <1>5, <3>1, LeastMember
    <2> USE DEF Large
    <2>2. n # 0
      BY <1>2, <2>1
    <2>3. n \in 1..N /\ n - 1 \in 0..N /\ n - 1 \notin Large
      BY <1>0, <2>1, <2>2
    <2>4. len[n - 1] \in Nat /\ len[n - 1] <= 37 + 312 * (n - 1)
      BY <2>3
    <2>5. len[n] = len[n - 1] + (4 + ByteLen[entries[n][1]]) + (4 + ByteLen[entries[n][2]])
      BY <1>2, <2>3
    <2>6. len[n] \in Nat /\ len[n] <= 37 + 312 * n
      <3> DEFINE before == len[n - 1]
                 k == ByteLen[entries[n][1]]
                 v == ByteLen[entries[n][2]]
      <3>1. /\ n \in Nat /\ before \in Nat /\ before <= 37 + 312 * (n - 1)
            /\ k \in 0..64 /\ v \in 0..240 /\ len[n] = before + (4 + k) + (4 + v)
        BY <1>0, <1>3, <2>3, <2>4, <2>5
      <3> HIDE DEF before, k, v
      <3> QED
        BY <3>1
    <2> QED
      BY <2>1, <2>6
  <1>6. N \in 0..32
    BY <1>0, <1>4
  <1>7. len[N] \in Nat /\ len[N] <= 37 + 312 * N
    BY <1>5, <1>6
  <1>8. ASSUME NEW k, k \in Nat, k <= 37 + 312 * N
        PROVE  k <= TOKEN_METADATA_ATTRIBUTES_MAX_LEN
    BY <1>6, <1>8
    DEF TOKEN_METADATA_ATTRIBUTES_MAX_LEN, MAX_ATTRIBUTES, MAX_KEY_LENGTH, MAX_VALUE_LENGTH
  <1> QED
    BY <1>1, <1>7, <1>8, MaxLengths

\* Texts within their caps fit the account, whoever the update authority is.
LEMMA PackedMetadataFits ==
    ASSUME NEW md, md.text \in [Field -> Text], ~TextTooLong(md.text)
    PROVE  PackedMetadataLen(md) \in 0..TOKEN_METADATA_MAX_LEN
  <1> DEFINE name == ByteLen[md.text["name"]]
             symbol == ByteLen[md.text["symbol"]]
             image == ByteLen[md.text["image"]]
             description == ByteLen[md.text["description"]]
  <1>1. \A f \in Field : ByteLen[md.text[f]] \in Nat /\ ~(ByteLen[md.text[f]] > FieldMaxLen[f])
    BY TextAssumption DEF TextTooLong
  <1>2. name \in Nat /\ symbol \in Nat /\ image \in Nat /\ description \in Nat
    BY <1>1 DEF Field
  <1>3. ~(name > 256) /\ ~(symbol > 16) /\ ~(image > 512) /\ ~(description > 512)
    BY <1>1
    DEF Field, FieldMaxLen, NAME_MAX_LEN, SYMBOL_MAX_LEN, IMAGE_MAX_LEN, DESCRIPTION_MAX_LEN
  <1> HIDE DEF name, symbol, image, description
  <1>4. PackedMetadataLen(md) =
          1 + 32 + (4 + name) + (4 + symbol) + (4 + image) + (4 + description)
            + IF md.update_authority = NoKey THEN 1 ELSE 1 + 32
    BY DEF PackedMetadataLen, name, symbol, image, description
  <1> QED
    BY <1>2, <1>3, <1>4
    DEF TOKEN_METADATA_MAX_LEN, NAME_MAX_LEN, SYMBOL_MAX_LEN, IMAGE_MAX_LEN,
        DESCRIPTION_MAX_LEN

\* What an update leaves is within the caps if what it found and what it was given are.
LEMMA UpdatedFits ==
    ASSUME NEW A, Legal(A), FitTexts(A), NEW ix \in Sent("UpdateMetadata"),
           HoldsMetadata(A, ix.metadata), ~TextTooLong(ix.text)
    PROVE  Updated(A, ix).text \in [Field -> Text] /\ ~TextTooLong(Updated(A, ix).text)
  <1> DEFINE old == A[ix.metadata].data.text
             new == UpdatedText(old, ix.text)
  <1>1. ix.metadata \in Address /\ ix.text \in PartialText
    BY InstructionTypes DEF Sent
  <1>2. A[ix.metadata].data \in TokenMetadata
    BY <1>1, MetadataInPlace
  <1>3. old \in [Field -> Text] /\ ~TextTooLong(old)
    BY <1>1, <1>2 DEF TokenMetadata, FitTexts, WithinCaps
  <1>4. \A f \in DOMAIN ix.text : ix.text[f] \in Text
    BY <1>1 DEF PartialText
  <1>5. new \in [Field -> Text]
    BY <1>3, <1>4 DEF UpdatedText
  <1>6. ~TextTooLong(new)
    BY <1>3, <1>5 DEF TextTooLong, UpdatedText
  <1>7. Updated(A, ix).text = new
    BY <1>2 DEF Updated, TokenMetadata
  <1> QED
    BY <1>5, <1>6, <1>7

\* A handler that can only panic in its last check passes all the others before it does.
LEMMA PanicIsLast ==
    ASSUME NEW n \in Nat, NEW checks, DOMAIN checks = 1..n, ~Passes(checks),
           \A i \in 1..n : checks[i].error = "Panicked" => i = n,
           FirstError(checks) = "Panicked"
    PROVE  n \in 1..n /\ checks[n].fails /\ \A j \in 1..n : j < n => ~checks[j].fails
  BY FirstErrorIsOfACheck

LEMMA CreateMetadataNoPanic ==
    ASSUME NEW A, Legal(A), NEW S, NEW ix \in Sent("CreateMetadata")
    PROVE  ~Passes(CreateMetadataChecks(A, S, ix)) =>
              FirstError(CreateMetadataChecks(A, S, ix)) # "Panicked"
  <1> DEFINE checks == CreateMetadataChecks(A, S, ix)
  <1> SUFFICES ASSUME ~Passes(checks), FirstError(checks) = "Panicked" PROVE FALSE
    OBVIOUS
  <1>1. DOMAIN checks = 1..12 /\ \A i \in 1..12 : checks[i].error = "Panicked" => i = 12
    BY DEF CreateMetadataChecks, Check
  <1> HIDE DEF checks
  <1>p. checks[12].fails /\ \A j \in 1..12 : j < 12 => ~checks[j].fails
    BY <1>1, PanicIsLast
  <1>2. checks[12].fails /\ ~checks[6].fails /\ ~checks[11].fails
    BY <1>p
  <1>3. /\ Overflows(PackedMetadataLen(NewMetadata(A, ix)), A, ix.metadata,
                     TOKEN_METADATA_MAX_LEN)
        /\ ~TextTooLong(ix.text)
        /\ ~AlreadyInitialized(A, ix.metadata)
    BY <1>2 DEF checks, CreateMetadataChecks, Check
  <1>4. ix.metadata \in Address /\ ix.text \in [Field -> Text]
    BY InstructionTypes DEF Sent
  <1>5. NeedsCreation(A, ix.metadata)
    BY <1>3, <1>4, CreationNeeded
  <1>6. NewMetadata(A, ix).text = ix.text
    BY DEF NewMetadata
  <1>7. PackedMetadataLen(NewMetadata(A, ix)) \in 0..TOKEN_METADATA_MAX_LEN
    BY <1>3, <1>4, <1>6, PackedMetadataFits
  <1>8. PackedMetadataLen(NewMetadata(A, ix)) > TOKEN_METADATA_MAX_LEN
    BY <1>3, <1>5 DEF Overflows
  <1> QED
    BY <1>7, <1>8, MaxLengths

LEMMA UpdateMetadataNoPanic ==
    ASSUME NEW A, Legal(A), FitTexts(A), NEW S, NEW ix \in Sent("UpdateMetadata")
    PROVE  ~Passes(UpdateMetadataChecks(A, S, ix)) =>
              FirstError(UpdateMetadataChecks(A, S, ix)) # "Panicked"
  <1> DEFINE checks == UpdateMetadataChecks(A, S, ix)
  <1> SUFFICES ASSUME ~Passes(checks), FirstError(checks) = "Panicked" PROVE FALSE
    OBVIOUS
  <1>1. DOMAIN checks = 1..5 /\ \A i \in 1..5 : checks[i].error = "Panicked" => i = 5
    BY DEF UpdateMetadataChecks, Check
  <1> HIDE DEF checks
  <1>p. checks[5].fails /\ \A j \in 1..5 : j < 5 => ~checks[j].fails
    BY <1>1, PanicIsLast
  <1>2. checks[5].fails /\ ~checks[4].fails
    BY <1>p
  <1>3. /\ HoldsMetadata(A, ix.metadata) /\ ~TextTooLong(ix.text)
        /\ PackedMetadataLen(Updated(A, ix)) > TOKEN_METADATA_MAX_LEN
    BY <1>2 DEF checks, UpdateMetadataChecks, Check
  <1>4. PackedMetadataLen(Updated(A, ix)) \in 0..TOKEN_METADATA_MAX_LEN
    BY <1>3, UpdatedFits, PackedMetadataFits
  <1> QED
    BY <1>3, <1>4, MaxLengths

LEMMA CreateAttributesNoPanic ==
    ASSUME NEW A, Legal(A), NEW S, NEW ix \in Sent("CreateAttributes")
    PROVE  ~Passes(CreateAttributesChecks(A, S, ix)) =>
              FirstError(CreateAttributesChecks(A, S, ix)) # "Panicked"
  <1> DEFINE checks == CreateAttributesChecks(A, S, ix)
  <1> SUFFICES ASSUME ~Passes(checks), FirstError(checks) = "Panicked" PROVE FALSE
    OBVIOUS
  <1>1. DOMAIN checks = 1..14 /\ \A i \in 1..14 : checks[i].error = "Panicked" => i = 14
    BY DEF CreateAttributesChecks, Check
  <1> HIDE DEF checks
  <1>p. checks[14].fails /\ \A j \in 1..14 : j < 14 => ~checks[j].fails
    BY <1>1, PanicIsLast
  <1>2. checks[14].fails /\ ~checks[5].fails /\ ~checks[7].fails /\ ~checks[13].fails
    BY <1>p
  <1>3. /\ Overflows(PackedAttributesLen(ix.entries), A, ix.attributes,
                     TOKEN_METADATA_ATTRIBUTES_MAX_LEN)
        /\ ~TooManyEntries(ix.entries) /\ ~SomeEntryTooLong(ix.entries)
        /\ ~AlreadyInitialized(A, ix.attributes)
    BY <1>2 DEF checks, CreateAttributesChecks, Check
  <1>4. ix.attributes \in Address /\ ix.entries \in Seq(Entry)
    BY InstructionTypes DEF Sent
  <1>5. NeedsCreation(A, ix.attributes)
    BY <1>3, <1>4, CreationNeeded
  <1>6. PackedAttributesLen(ix.entries) \in 0..TOKEN_METADATA_ATTRIBUTES_MAX_LEN
    BY <1>3, <1>4, PackedAttributesFit
  <1>7. PackedAttributesLen(ix.entries) > TOKEN_METADATA_ATTRIBUTES_MAX_LEN
    BY <1>3, <1>5 DEF Overflows
  <1> QED
    BY <1>6, <1>7, MaxLengths

LEMMA ReplaceAttributesNoPanic ==
    ASSUME NEW A, NEW S, NEW ix \in Sent("ReplaceAttributes")
    PROVE  ~Passes(ReplaceAttributesChecks(A, S, ix)) =>
              FirstError(ReplaceAttributesChecks(A, S, ix)) # "Panicked"
  <1> DEFINE checks == ReplaceAttributesChecks(A, S, ix)
  <1> SUFFICES ASSUME ~Passes(checks), FirstError(checks) = "Panicked" PROVE FALSE
    OBVIOUS
  <1>1. DOMAIN checks = 1..9 /\ \A i \in 1..9 : checks[i].error = "Panicked" => i = 9
    BY DEF ReplaceAttributesChecks, Check
  <1> HIDE DEF checks
  <1>p. checks[9].fails /\ \A j \in 1..9 : j < 9 => ~checks[j].fails
    BY <1>1, PanicIsLast
  <1>2. checks[9].fails /\ ~checks[6].fails /\ ~checks[8].fails
    BY <1>p
  <1>3. /\ PackedAttributesLen(ix.entries) > TOKEN_METADATA_ATTRIBUTES_MAX_LEN
        /\ ~TooManyEntries(ix.entries) /\ ~SomeEntryTooLong(ix.entries)
    BY <1>2 DEF checks, ReplaceAttributesChecks, Check
  <1>4. ix.entries \in Seq(Entry)
    BY InstructionTypes DEF Sent
  <1>5. PackedAttributesLen(ix.entries) \in 0..TOKEN_METADATA_ATTRIBUTES_MAX_LEN
    BY <1>3, <1>4, PackedAttributesFit
  <1> QED
    BY <1>3, <1>5, MaxLengths

\* The other handlers do not write variable-length data.
LEMMA OthersNoPanic ==
    ASSUME NEW A, NEW S, NEW ix
    PROVE  /\ ~Passes(AuthorityChangeChecks(A, S, ix)) =>
                FirstError(AuthorityChangeChecks(A, S, ix)) # "Panicked"
           /\ ~Passes(CreateMintAccountChecks(A, S, ix)) =>
                FirstError(CreateMintAccountChecks(A, S, ix)) # "Panicked"
           /\ ~Passes(InitializeMint2Checks(A, ix)) =>
                FirstError(InitializeMint2Checks(A, ix)) # "Panicked"
           /\ ~Passes(SetMintAuthorityChecks(A, S, ix)) =>
                FirstError(SetMintAuthorityChecks(A, S, ix)) # "Panicked"
  <1>1. /\ DOMAIN AuthorityChangeChecks(A, S, ix) = 1..3
        /\ \A i \in 1..3 : AuthorityChangeChecks(A, S, ix)[i].error # "Panicked"
    BY DEF AuthorityChangeChecks, Check
  <1>2. /\ DOMAIN CreateMintAccountChecks(A, S, ix) = 1..3
        /\ \A i \in 1..3 : CreateMintAccountChecks(A, S, ix)[i].error # "Panicked"
    BY DEF CreateMintAccountChecks, Check
  <1>3. /\ DOMAIN InitializeMint2Checks(A, ix) = 1..2
        /\ \A i \in 1..2 : InitializeMint2Checks(A, ix)[i].error # "Panicked"
    BY DEF InitializeMint2Checks, Check
  <1>4. /\ DOMAIN SetMintAuthorityChecks(A, S, ix) = 1..4
        /\ \A i \in 1..4 : SetMintAuthorityChecks(A, S, ix)[i].error # "Panicked"
    BY DEF SetMintAuthorityChecks, Check
  <1>5. ASSUME NEW n \in Nat, NEW checks, DOMAIN checks = 1..n, ~Passes(checks),
               \A i \in 1..n : checks[i].error # "Panicked"
        PROVE  FirstError(checks) # "Panicked"
    BY <1>5, FirstErrorIsOfACheck
  <1> QED
    BY <1>1, <1>2, <1>3, <1>4, <1>5

\* Data written to one account keeps all texts within their caps if it is itself.
LEMMA WroteFits ==
    ASSUME NEW A, FitTexts(A), NEW B, NEW a \in Address, NEW d, Wrote(A, B, a, d),
           WithinCaps(d)
    PROVE  FitTexts(B)
  BY DEF FitTexts, Wrote

\* The entries both writers of attributes take are within their caps: the loop that stops at
\* the first bad pair has passed every pair.
LEMMA EntriesWithinCaps ==
    ASSUME NEW d, d.kind = "attributes", ~TooManyEntries(d.entries),
           ~EmptyEntryFirst(d.entries), ~SomeEntryTooLong(d.entries), d.entries \in Seq(Entry)
    PROVE  WithinCaps(d)
  <1>1. ASSUME NEW i \in DOMAIN d.entries
        PROVE  ~EntryEmpty(d.entries[i]) /\ ~EntryTooLong(d.entries[i])
    <2>1. \A j \in 1..(i - 1) : j \in DOMAIN d.entries
      BY <1>1
    <2> QED
      BY <1>1, <2>1 DEF EmptyEntryFirst, SomeEntryTooLong
  <1> QED
    BY <1>1 DEF WithinCaps

\* No instruction leaves a text over its cap.
LEMMA HandlersFit ==
    ASSUME NEW A, Legal(A), FitTexts(A), NEW S \in SUBSET Keys, NEW ix \in Instructions
    PROVE  /\ ix.op = "CreateMetadata" /\ Passes(CreateMetadataChecks(A, S, ix)) =>
                FitTexts(CreateMetadataEffect(A, ix))
           /\ ix.op = "UpdateMetadata" /\ Passes(UpdateMetadataChecks(A, S, ix)) =>
                FitTexts(UpdateMetadataEffect(A, ix))
           /\ ix.op = "CreateAttributes" /\ Passes(CreateAttributesChecks(A, S, ix)) =>
                FitTexts(CreateAttributesEffect(A, ix))
           /\ ix.op = "ReplaceAttributes" /\ Passes(ReplaceAttributesChecks(A, S, ix)) =>
                FitTexts(ReplaceAttributesEffect(A, ix))
           /\ ix.op = "TransferAuthority" /\ Passes(AuthorityChangeChecks(A, S, ix)) =>
                FitTexts(TransferAuthorityEffect(A, ix))
           /\ ix.op = "MakeImmutable" /\ Passes(AuthorityChangeChecks(A, S, ix)) =>
                FitTexts(MakeImmutableEffect(A, ix))
           /\ ix.op = "CreateMintAccount" => FitTexts(CreateMintAccountEffect(A, ix))
           /\ ix.op = "InitializeMint2" => FitTexts(InitializeMint2Effect(A, ix))
           /\ ix.op = "SetMintAuthority" /\ Passes(SetMintAuthorityChecks(A, S, ix)) =>
                FitTexts(SetMintAuthorityEffect(A, ix))
  <1>1. A \in [Address -> Account]
    BY DEF Legal
  <1>2. CASE ix.op = "CreateMetadata" /\ Passes(CreateMetadataChecks(A, S, ix))
    <2>1. ix \in Sent("CreateMetadata") /\ MetadataPda(ix.mint) \in Address
      BY <1>2, InstructionTypes, CreateMetadataGuards DEF Sent
    <2>2. NewMetadata(A, ix).text = ix.text /\ ~TextTooLong(ix.text)
      BY <1>2, CreateMetadataGuards DEF NewMetadata
    <2>3. WithinCaps(NewMetadata(A, ix))
      BY <2>2 DEF WithinCaps, NewMetadata
    <2> QED
      BY <1>2, <2>1, <2>2, <2>3, CreateMetadataWrites, WroteFits
  <1>3. CASE ix.op = "UpdateMetadata" /\ Passes(UpdateMetadataChecks(A, S, ix))
    <2>1. /\ ix \in Sent("UpdateMetadata") /\ ix.metadata \in Address
          /\ HoldsMetadata(A, ix.metadata) /\ ~TextTooLong(ix.text)
      BY <1>3, InstructionTypes, UpdateMetadataGuards DEF Sent
    <2>2. ~TextTooLong(Updated(A, ix).text)
      BY <2>1, UpdatedFits
    <2>3. Updated(A, ix).kind = "metadata"
      BY <2>1, MetadataInPlace, Kinds DEF Updated, TokenMetadata
    <2>4. WithinCaps(Updated(A, ix))
      BY <2>2, <2>3 DEF WithinCaps
    <2> QED
      BY <1>3, <2>1, <2>4, OthersWrite, WroteFits
  <1>4. CASE ix.op = "CreateAttributes" /\ Passes(CreateAttributesChecks(A, S, ix))
    <2>1. ix \in Sent("CreateAttributes") /\ AttributesPda(ix.mint) \in Address
      BY <1>4, InstructionTypes, CreateAttributesGuards DEF Sent
    <2>2. NewAttributes(ix).kind = "attributes" /\ NewAttributes(ix).entries = ix.entries
      BY DEF NewAttributes
    <2>3. WithinCaps(NewAttributes(ix))
      BY <1>4, <2>2, InstructionTypes, CreateAttributesGuards, EntriesWithinCaps
    <2> QED
      BY <1>4, <2>1, <2>3, CreateAttributesWrites, WroteFits
  <1>5. CASE ix.op = "ReplaceAttributes" /\ Passes(ReplaceAttributesChecks(A, S, ix))
    <2> DEFINE d == [A[ix.attributes].data EXCEPT !.entries = ix.entries]
    <2>1. ix.attributes \in Address /\ HoldsAttributes(A, ix.attributes)
      BY <1>5, InstructionTypes, ReplaceAttributesGuards
    <2>2. d.kind = "attributes" /\ d.entries = ix.entries
      BY <1>1, <2>1, TypedData DEF TokenMetadataAttributes
    <2> HIDE DEF d
    <2>3. Wrote(A, ReplaceAttributesEffect(A, ix), ix.attributes, d)
      BY <1>5, OthersWrite DEF d
    <2>4. WithinCaps(d)
      BY <1>5, <2>2, InstructionTypes, ReplaceAttributesGuards, EntriesWithinCaps
    <2> QED
      BY <1>5, <2>1, <2>3, <2>4, WroteFits
  <1>6. ASSUME ix.metadata \in Address, HoldsMetadata(A, ix.metadata), NEW k, NEW B,
               Wrote(A, B, ix.metadata, [A[ix.metadata].data EXCEPT !.update_authority = k])
        PROVE  FitTexts(B)
    <2>1. A[ix.metadata].data \in TokenMetadata
      BY <1>6, MetadataInPlace
    <2>2. WithinCaps([A[ix.metadata].data EXCEPT !.update_authority = k])
      BY <1>6, <2>1 DEF TokenMetadata, FitTexts, WithinCaps
    <2> QED
      BY <1>6, <2>2, WroteFits
  <1>7. CASE ix.op = "TransferAuthority" /\ Passes(AuthorityChangeChecks(A, S, ix))
    BY <1>6, <1>7, InstructionTypes, AuthorityChangeGuards, OthersWrite
  <1>8. CASE ix.op = "MakeImmutable" /\ Passes(AuthorityChangeChecks(A, S, ix))
    BY <1>6, <1>8, InstructionTypes, AuthorityChangeGuards, OthersWrite
  <1>9. CASE ix.op \in {"CreateMintAccount", "InitializeMint2"}
    <2>1. ix.mint \in Address
      BY <1>9, InstructionTypes, DerivedAddresses
    <2>2. /\ WithinCaps([kind |-> "zeroed", len |-> MINT_LEN])
          /\ WithinCaps([kind |-> "mint", mint_authority |-> ix.mint_authority,
                         freeze_authority |-> ix.freeze_authority])
      BY DEF WithinCaps
    <2> QED
      BY <1>9, <2>1, <2>2, OthersWrite, WroteFits
  <1>10. CASE ix.op = "SetMintAuthority" /\ Passes(SetMintAuthorityChecks(A, S, ix))
    <2> DEFINE d == [A[ix.mint].data EXCEPT !.mint_authority = ix.new_authority]
    <2>1. ix.mint \in Address /\ HoldsMint(A, ix.mint)
      BY <1>10, InstructionTypes, DerivedAddresses, SetMintAuthorityGuards
    <2>2. d.kind = "mint"
      BY <1>1, <2>1, TypedData DEF Mint
    <2> HIDE DEF d
    <2>3. Wrote(A, SetMintAuthorityEffect(A, ix), ix.mint, d)
      BY <1>10, OthersWrite DEF d
    <2>4. WithinCaps(d)
      BY <2>2 DEF WithinCaps
    <2> QED
      BY <1>10, <2>1, <2>3, <2>4, WroteFits
  <1> QED
    BY <1>2, <1>3, <1>4, <1>5, <1>7, <1>8, <1>9, <1>10

Sizes == TextsFit /\ NeverPanics

\* One instruction on texts that fit: it leaves such texts, or ends with another error.
LEMMA ExecuteFits ==
    ASSUME Sizes, NEW checks, NEW effect, Execute(checks, effect),
           Passes(checks) => FitTexts(effect),
           ~Passes(checks) => FirstError(checks) # "Panicked"
    PROVE  Sizes'
  <1>1. CASE Passes(checks) /\ Succeed(effect)
    <2>1. bank' = effect /\ ledger' = ledger /\ outcome' = outcome
      BY <1>1 DEF Succeed
    <2> QED
      BY <1>1, <2>1 DEF Sizes, TextsFit, NeverPanics, FitTexts
  <1>2. CASE ~Passes(checks) /\ Fail(FirstError(checks))
    <2>1. bank' = ledger /\ ledger' = ledger /\ outcome' # "Panicked"
      BY <1>2 DEF Fail
    <2> QED
      BY <2>1 DEF Sizes, TextsFit, NeverPanics, FitTexts
  <1> QED
    BY <1>1, <1>2 DEF Execute

LEMMA NextFits == IInv /\ Sizes /\ [Next]_vars => Sizes'
  <1> SUFFICES ASSUME IInv, Sizes, [Next]_vars PROVE Sizes'
    OBVIOUS
  <1>a. Legal(bank) /\ signers \in SUBSET Keys /\ FitTexts(bank)
    BY DEF IInv, TypeOK, Sizes, TextsFit
  <1>1. ASSUME NEW keys \in SUBSET Keys, Begin(keys) PROVE Sizes'
    BY <1>1 DEF Begin, Sizes, TextsFit, NeverPanics, FitTexts
  <1>2. ASSUME Commit PROVE Sizes'
    BY <1>2 DEF Commit, Sizes, TextsFit, NeverPanics, FitTexts
  <1>3. ASSUME NEW ix \in Sent("CreateMetadata"), CreateMetadata(ix) PROVE Sizes'
    BY <1>a, <1>3, ExecuteFits, HandlersFit, CreateMetadataNoPanic DEF CreateMetadata, Sent
  <1>4. ASSUME NEW ix \in Sent("UpdateMetadata"), UpdateMetadata(ix) PROVE Sizes'
    BY <1>a, <1>4, ExecuteFits, HandlersFit, UpdateMetadataNoPanic DEF UpdateMetadata, Sent
  <1>5. ASSUME NEW ix \in Sent("CreateAttributes"), CreateAttributes(ix) PROVE Sizes'
    BY <1>a, <1>5, ExecuteFits, HandlersFit, CreateAttributesNoPanic DEF CreateAttributes, Sent
  <1>6. ASSUME NEW ix \in Sent("ReplaceAttributes"), ReplaceAttributes(ix) PROVE Sizes'
    BY <1>a, <1>6, ExecuteFits, HandlersFit, ReplaceAttributesNoPanic
    DEF ReplaceAttributes, Sent
  <1>7. ASSUME NEW ix \in Sent("TransferAuthority"), TransferAuthority(ix) PROVE Sizes'
    BY <1>a, <1>7, ExecuteFits, HandlersFit, OthersNoPanic DEF TransferAuthority, Sent
  <1>8. ASSUME NEW ix \in Sent("MakeImmutable"), MakeImmutable(ix) PROVE Sizes'
    BY <1>a, <1>8, ExecuteFits, HandlersFit, OthersNoPanic DEF MakeImmutable, Sent
  <1>9. ASSUME NEW ix \in Sent("CreateMintAccount"), CreateMintAccount(ix) PROVE Sizes'
    BY <1>a, <1>9, ExecuteFits, HandlersFit, OthersNoPanic DEF CreateMintAccount, Sent
  <1>10. ASSUME NEW ix \in Sent("InitializeMint2"), InitializeMint2(ix) PROVE Sizes'
    BY <1>a, <1>10, ExecuteFits, HandlersFit, OthersNoPanic DEF InitializeMint2, Sent
  <1>11. ASSUME NEW ix \in Sent("SetMintAuthority"), SetMintAuthority(ix) PROVE Sizes'
    BY <1>a, <1>11, ExecuteFits, HandlersFit, OthersNoPanic DEF SetMintAuthority, Sent
  <1>12. CASE UNCHANGED vars
    BY <1>12 DEF vars, Sizes, TextsFit, NeverPanics, FitTexts
  <1> QED
    BY <1>1, <1>2, <1>3, <1>4, <1>5, <1>6, <1>7, <1>8, <1>9, <1>10, <1>11, <1>12 DEF Next

\* At genesis there is no metadata, and nothing has panicked.
LEMMA InitFits == Init => Sizes
  <1> SUFFICES ASSUME Init PROVE Sizes
    OBVIOUS
  <1>1. \A a \in Address : ledger[a].data = Empty
    BY DEF Init, Vacant
  <1>2. FitTexts(ledger)
    BY <1>1 DEF FitTexts, WithinCaps, Empty
  <1> QED
    BY <1>2 DEF Init, Sizes, TextsFit, NeverPanics

LEMMA SizesKept == Spec => []Sizes
  BY InitFits, NextFits, Invariant, PTL DEF Spec

\* No handler ever writes past its account, whatever it is given: the caps it checks on
\* the fields an update gives, with those the stored fields were checked against, and the
\* caps on entries and their number leave room for every length prefix and the authority.
THEOREM NoPanic == Spec => []NeverPanics
  <1>1. Sizes => NeverPanics
    BY DEF Sizes
  <1> QED
    BY <1>1, SizesKept, PTL

\* The texts of all metadata and the entries of all attributes are within their caps,
\* whatever was updated and how often.
THEOREM StoredTextsFit == Spec => []TextsFit
  <1>1. Sizes => TextsFit
    BY DEF Sizes
  <1> QED
    BY <1>1, SizesKept, PTL
=============================================================================
