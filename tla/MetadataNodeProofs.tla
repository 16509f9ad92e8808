--------------------------- MODULE MetadataNodeProofs ---------------------------
(***************************************************************************)
(* Proofs about MetadataNode, for every set of transactions of any length. *)
(*                                                                         *)
(* First, the node is a client of the ledger: each of its steps is a step  *)
(* of MetadataLedger, so what is proved of the ledger holds whatever the   *)
(* node receives.                                                          *)
(*                                                                         *)
(* Second, its log: a token's metadata is created by one transaction of    *)
(* it, or by none if there is no token; and each part of a token is what   *)
(* the last instruction of the log that names it wrote.  Both rest on what *)
(* the bank of the running transaction holds: the ledger, overwritten by   *)
(* the instructions executed so far.                                       *)
(*                                                                         *)
(* Third, what the clients are proved with: which of a transaction's own   *)
(* parameters an error of each handler points at, and that the SDK's       *)
(* validators accept exactly what the handlers' size checks let through.   *)
(***************************************************************************)
EXTENDS MetadataNode, TokenMetadataClient, MetadataLedgerProofs, FiniteSetTheorems, SequenceTheorems

\* An instruction of the running transaction runs the handler of its kind.
LEMMA RunIsNext ==
    ASSUME NEW ix \in Instructions, Run(ix)
    PROVE  Next
  BY DEF Run, Next, Sent

\* How an instruction ends: the transaction stays open, or is undone with an error.
LEMMA RunEnds ==
    ASSUME NEW ix, Run(ix)
    PROVE  /\ Open
           /\ \/ /\ outcome' = outcome /\ signers' = signers /\ executed' = executed + 1
                 /\ ledger' = ledger
              \/ /\ outcome' \in Errors /\ executed' = 0
                 /\ ledger' = ledger /\ bank' = ledger
  <1>1. ASSUME NEW checks, NEW effect, Execute(checks, effect),
               ~Passes(checks) => FirstError(checks) \in Errors
        PROVE  /\ Open
               /\ \/ /\ outcome' = outcome /\ signers' = signers /\ executed' = executed + 1
                     /\ ledger' = ledger
                  \/ /\ outcome' \in Errors /\ executed' = 0
                     /\ ledger' = ledger /\ bank' = ledger
    BY <1>1 DEF Execute, Succeed, Fail
  <1>2. CASE CreateMetadata(ix)
    BY <1>1, <1>2, HandlerErrors DEF CreateMetadata
  <1>3. CASE UpdateMetadata(ix)
    BY <1>1, <1>3, HandlerErrors DEF UpdateMetadata
  <1>4. CASE CreateAttributes(ix)
    BY <1>1, <1>4, HandlerErrors DEF CreateAttributes
  <1>5. CASE ReplaceAttributes(ix)
    BY <1>1, <1>5, HandlerErrors DEF ReplaceAttributes
  <1>6. CASE TransferAuthority(ix)
    BY <1>1, <1>6, HandlerErrors DEF TransferAuthority
  <1>7. CASE MakeImmutable(ix)
    BY <1>1, <1>7, HandlerErrors DEF MakeImmutable
  <1>8. CASE CreateMintAccount(ix)
    BY <1>1, <1>8, HandlerErrors DEF CreateMintAccount
  <1>9. CASE InitializeMint2(ix)
    BY <1>1, <1>9, HandlerErrors DEF InitializeMint2
  <1>10. CASE SetMintAuthority(ix)
    BY <1>1, <1>10, HandlerErrors DEF SetMintAuthority
  <1> QED
    BY <1>2, <1>3, <1>4, <1>5, <1>6, <1>7, <1>8, <1>9, <1>10 DEF Run

\* An instruction that does not end its transaction passes its checks and has its effect.
LEMMA RunPasses ==
    ASSUME NEW ix, Run(ix), outcome' \notin Errors
    PROVE  /\ ix.op = "CreateMetadata" =>
                /\ Passes(CreateMetadataChecks(bank, signers, ix))
                /\ bank' = CreateMetadataEffect(bank, ix)
           /\ ix.op = "UpdateMetadata" =>
                /\ Passes(UpdateMetadataChecks(bank, signers, ix))
                /\ bank' = UpdateMetadataEffect(bank, ix)
           /\ ix.op = "CreateAttributes" =>
                /\ Passes(CreateAttributesChecks(bank, signers, ix))
                /\ bank' = CreateAttributesEffect(bank, ix)
           /\ ix.op = "ReplaceAttributes" =>
                /\ Passes(ReplaceAttributesChecks(bank, signers, ix))
                /\ bank' = ReplaceAttributesEffect(bank, ix)
           /\ ix.op = "TransferAuthority" =>
                /\ Passes(AuthorityChangeChecks(bank, signers, ix))
                /\ bank' = TransferAuthorityEffect(bank, ix)
           /\ ix.op = "MakeImmutable" =>
                /\ Passes(AuthorityChangeChecks(bank, signers, ix))
                /\ bank' = MakeImmutableEffect(bank, ix)
           /\ ix.op = "CreateMintAccount" =>
                /\ Passes(CreateMintAccountChecks(bank, signers, ix))
                /\ bank' = CreateMintAccountEffect(bank, ix)
           /\ ix.op = "InitializeMint2" =>
                /\ Passes(InitializeMint2Checks(bank, ix))
                /\ bank' = InitializeMint2Effect(bank, ix)
           /\ ix.op = "SetMintAuthority" =>
                /\ Passes(SetMintAuthorityChecks(bank, signers, ix))
                /\ bank' = SetMintAuthorityEffect(bank, ix)
  <1>1. ASSUME NEW checks, NEW effect, Execute(checks, effect),
               ~Passes(checks) => FirstError(checks) \in Errors
        PROVE  Passes(checks) /\ bank' = effect
    BY <1>1 DEF Execute, Succeed, Fail
  <1>2. ix.op = "CreateMetadata" =>
          Passes(CreateMetadataChecks(bank, signers, ix)) /\ bank' = CreateMetadataEffect(bank, ix)
    BY <1>1, HandlerErrors DEF Run, CreateMetadata
  <1>3. ix.op = "UpdateMetadata" =>
          Passes(UpdateMetadataChecks(bank, signers, ix)) /\ bank' = UpdateMetadataEffect(bank, ix)
    BY <1>1, HandlerErrors DEF Run, UpdateMetadata
  <1>4. ix.op = "CreateAttributes" =>
          Passes(CreateAttributesChecks(bank, signers, ix))
          /\ bank' = CreateAttributesEffect(bank, ix)
    BY <1>1, HandlerErrors DEF Run, CreateAttributes
  <1>5. ix.op = "ReplaceAttributes" =>
          Passes(ReplaceAttributesChecks(bank, signers, ix))
          /\ bank' = ReplaceAttributesEffect(bank, ix)
    BY <1>1, HandlerErrors DEF Run, ReplaceAttributes
  <1>6. ix.op = "TransferAuthority" =>
          Passes(AuthorityChangeChecks(bank, signers, ix))
          /\ bank' = TransferAuthorityEffect(bank, ix)
    BY <1>1, HandlerErrors DEF Run, TransferAuthority
  <1>7. ix.op = "MakeImmutable" =>
          Passes(AuthorityChangeChecks(bank, signers, ix)) /\ bank' = MakeImmutableEffect(bank, ix)
    BY <1>1, HandlerErrors DEF Run, MakeImmutable
  <1>8. ix.op = "CreateMintAccount" =>
          Passes(CreateMintAccountChecks(bank, signers, ix))
          /\ bank' = CreateMintAccountEffect(bank, ix)
    BY <1>1, HandlerErrors DEF Run, CreateMintAccount
  <1>9. ix.op = "InitializeMint2" =>
          Passes(InitializeMint2Checks(bank, ix)) /\ bank' = InitializeMint2Effect(bank, ix)
    BY <1>1, HandlerErrors DEF Run, InitializeMint2
  <1>10. ix.op = "SetMintAuthority" =>
          Passes(SetMintAuthorityChecks(bank, signers, ix))
          /\ bank' = SetMintAuthorityEffect(bank, ix)
    BY <1>1, HandlerErrors DEF Run, SetMintAuthority
  <1> QED
    BY <1>2, <1>3, <1>4, <1>5, <1>6, <1>7, <1>8, <1>9, <1>10

\* The instruction the node runs next is one the ledger knows.
LEMMA NextInstruction ==
    ASSUME NEW tx \in Transactions, NEW n \in Nat, n < Len(tx.instructions)
    PROVE  tx.instructions[n + 1] \in Instructions
  <1>1. tx.instructions \in Seq(Instructions) /\ n + 1 \in 1..Len(tx.instructions)
    BY TransactionsAssumption
  <1> QED
    BY <1>1

LEMMA NodeStepIsLedgerStep ==
    ASSUME NodeTypeOK, executed \in Nat, [NodeNext]_nodeVars
    PROVE  [Next]_vars
  <1>1. ASSUME NEW tx \in pending, Start(tx) PROVE Next
    <2>1. tx.signers \in SUBSET Keys
      BY TransactionsAssumption DEF NodeTypeOK
    <2> QED
      BY <1>1, <2>1 DEF Start, Next
  <1>2. ASSUME Advance PROVE Next
    <2>1. running \in Transactions
      BY <1>2 DEF Advance, NodeTypeOK
    <2> QED
      BY <1>2, <2>1, NextInstruction, RunIsNext DEF Advance
  <1>3. ASSUME Finish PROVE Next
    BY <1>3 DEF Finish, Next
  <1>4. ASSUME NEW tx \in Transactions, Receive(tx) PROVE UNCHANGED vars
    BY <1>4 DEF Receive
  <1>5. CASE UNCHANGED nodeVars
    BY <1>5 DEF nodeVars
  <1> QED
    BY <1>1, <1>2, <1>3, <1>4, <1>5 DEF NodeNext, Work

-----------------------------------------------------------------------------
(* One place for each transaction *)

LEMMA NodeInitTypeOK == NodeInit => NodeTypeOK
  BY DEF NodeInit, NodeTypeOK, Init, Open

\* What a node step does with the transactions it holds.
LEMMA NodeNextTypeOK ==
    ASSUME NodeTypeOK, executed \in Nat, [NodeNext]_nodeVars
    PROVE  NodeTypeOK'
  <1>1. ASSUME NEW tx \in Transactions, Receive(tx) PROVE NodeTypeOK'
    BY <1>1 DEF Receive, NodeTypeOK, Decided, Status, Open, vars
  <1>2. ASSUME NEW tx \in pending, Start(tx) PROVE NodeTypeOK'
    <2>1. /\ pending' = pending \ {tx} /\ running' = tx /\ tx \in Transactions
          /\ signers' = tx.signers /\ outcome' = "open"
          /\ committed' = committed /\ failed' = failed
          /\ tx # NoTx /\ ~Decided(tx)
      BY <1>2, TransactionsAssumption DEF Start, Begin, NodeTypeOK
    <2> QED
      BY <2>1 DEF NodeTypeOK, Decided, Status, Open
  <1>3. ASSUME Advance PROVE NodeTypeOK'
    <2>1. /\ running \in Transactions /\ running # NoTx /\ ~Decided(running)
          /\ pending' = pending /\ committed' = committed
          /\ running' = IF outcome' = "open" THEN running ELSE NoTx
          /\ failed' = IF outcome' = "open" THEN failed ELSE failed \cup {running}
      BY <1>3 DEF Advance, NodeTypeOK
    <2>2. Run(running.instructions[executed + 1])
      BY <1>3 DEF Advance
    <2>3. CASE outcome' = outcome /\ signers' = signers
      BY <2>1, <2>2, <2>3, RunEnds DEF NodeTypeOK, Decided, Status, Open
    <2>4. CASE outcome' \in Errors
      <3>1. outcome' # "open"
        BY <2>4 DEF Errors
      <3>2. running' = NoTx /\ failed' = failed \cup {running} /\ ~Open'
        BY <2>1, <3>1 DEF Open
      <3>3. \A tx \in pending : tx # NoTx /\ tx # running /\ ~Decided(tx)
        BY TransactionsAssumption DEF NodeTypeOK
      <3>4. \A tx \in pending' : tx # running' /\ ~Decided(tx)'
        BY <2>1, <3>2, <3>3 DEF Decided, Status
      <3>5. \A i \in DOMAIN committed : committed[i] # running
        BY <2>1 DEF Decided, Status
      <3> QED
        BY <2>1, <3>2, <3>4, <3>5 DEF NodeTypeOK
    <2> QED
      BY <2>2, <2>3, <2>4, RunEnds
  <1>4. ASSUME Finish PROVE NodeTypeOK'
    <2>1. /\ running \in Transactions /\ running # NoTx /\ ~Decided(running)
          /\ pending' = pending /\ failed' = failed /\ running' = NoTx
          /\ committed' = Append(committed, running) /\ committed \in Seq(Transactions)
          /\ outcome' = "Processed"
      BY <1>4 DEF Finish, NodeTypeOK, Commit
    <2>2. /\ committed' \in Seq(Transactions)
          /\ DOMAIN committed' = 1..(Len(committed) + 1)
          /\ DOMAIN committed = 1..Len(committed)
          /\ Len(committed) \in Nat
          /\ \A i \in DOMAIN committed : committed'[i] = committed[i]
          /\ committed'[Len(committed) + 1] = running
      BY <2>1
    <2>3. \A i \in DOMAIN committed : committed[i] # running
      BY <2>1 DEF Decided, Status
    <2>4. running \notin failed
      BY <2>1 DEF Decided, Status
    <2>5. \A i, j \in DOMAIN committed' : committed'[i] = committed'[j] => i = j
      BY <2>2, <2>3 DEF NodeTypeOK
    <2>6. \A i \in DOMAIN committed' : committed'[i] \notin failed'
      BY <2>1, <2>2, <2>4 DEF NodeTypeOK
    <2>7. \A tx \in pending' : tx # running' /\ ~Decided(tx)'
      BY <2>1, <2>2, TransactionsAssumption DEF NodeTypeOK, Decided, Status
    <2> QED
      BY <2>1, <2>2, <2>5, <2>6, <2>7 DEF NodeTypeOK, Open
  <1>5. CASE UNCHANGED nodeVars
    BY <1>5 DEF nodeVars, vars, node, NodeTypeOK, Decided, Status, Open
  <1> QED
    BY <1>1, <1>2, <1>3, <1>4, <1>5 DEF NodeNext, Work

\* Types of the node and of the ledger under it.
LEMMA NodeStep ==
    IInv /\ NodeTypeOK /\ [NodeNext]_nodeVars => IInv' /\ NodeTypeOK' /\ [Next]_vars
  <1>1. IInv => executed \in Nat
    BY MaxInstructionsAssumption DEF IInv, TypeOK
  <1> QED
    BY <1>1, NodeStepIsLedgerStep, NodeNextTypeOK, NextPreservesIInv

LEMMA NodeInvariants == NodeSafety => [](IInv /\ NodeTypeOK)
  <1>1. NodeInit => IInv /\ NodeTypeOK
    BY NodeInitTypeOK, InitIInv DEF NodeInit
  <1> QED
    BY <1>1, NodeStep, PTL DEF NodeSafety

\* The log of committed transactions only grows, at its end.
LEMMA CommittedGrows ==
    ASSUME NodeTypeOK, [NodeNext]_nodeVars
    PROVE  /\ Len(committed) \in Nat /\ Len(committed') \in Nat
           /\ Len(committed) <= Len(committed')
           /\ ToSet(committed) \subseteq ToSet(committed')
           /\ \A n \in 0..Len(committed) : SubSeq(committed', 1, n) = SubSeq(committed, 1, n)
  <1>1. \/ committed' = committed
        \/ running \in Transactions /\ committed' = Append(committed, running)
    BY DEF NodeNext, Work, Receive, Start, Advance, Finish, NodeTypeOK, nodeVars, node
  <1>2. committed \in Seq(Transactions) /\ committed' \in Seq(Transactions)
    BY <1>1 DEF NodeTypeOK
  <1>3. /\ Len(committed) \in Nat /\ Len(committed') \in Nat
        /\ Len(committed) <= Len(committed')
        /\ DOMAIN committed = 1..Len(committed) /\ DOMAIN committed' = 1..Len(committed')
        /\ \A i \in 1..Len(committed) : committed'[i] = committed[i]
    BY <1>1, <1>2
  <1>4. ToSet(committed) \subseteq ToSet(committed')
    BY <1>3 DEF ToSet
  <1>5. ASSUME NEW n \in 0..Len(committed)
        PROVE  SubSeq(committed', 1, n) = SubSeq(committed, 1, n)
    <2>1. n \in Nat /\ n <= Len(committed) /\ 1..n \subseteq 1..Len(committed)
      BY <1>3
    <2>2. \A i \in 1..n : committed[i] \in Transactions /\ committed'[i] = committed[i]
      BY <1>2, <1>3, <2>1
    <2> DEFINE s == SubSeq(committed, 1, n)
               t == SubSeq(committed', 1, n)
    <2>3. /\ s \in Seq(Transactions) /\ Len(s) = IF 1 <= n THEN n - 1 + 1 ELSE 0
          /\ \A i \in 1..(n - 1 + 1) : s[i] = committed[1 + i - 1]
      BY <2>1, <2>2, SubSeqProperties
    <2>4. /\ t \in Seq(Transactions) /\ Len(t) = IF 1 <= n THEN n - 1 + 1 ELSE 0
          /\ \A i \in 1..(n - 1 + 1) : t[i] = committed'[1 + i - 1]
      BY <2>1, <2>2, SubSeqProperties
    <2> HIDE DEF s, t
    <2>5. Len(s) = n /\ Len(t) = n
      BY <2>1, <2>3, <2>4
    <2>6. \A i \in 1..n : s[i] = t[i]
      BY <2>1, <2>2, <2>3, <2>4
    <2>7. s = t
      BY <2>3, <2>4, <2>5, <2>6, SeqEqual
    <2> QED
      BY <2>7 DEF s, t
  <1> QED
    BY <1>3, <1>4, <1>5

\* The node holds each transaction in one place, and so executes none twice: one that
\* is sent again while it waits, runs or is decided is not started again.
THEOREM NodeTypeCorrect == NodeSafety => []NodeTypeOK
  BY NodeInvariants, PTL

\* Whatever the node is sent, in whatever order it takes it up, it does to the accounts
\* what MetadataLedger does: the theorems about the ledger hold of the node.
THEOREM NodeRunsLedger == NodeSafety => Spec
  <1>1. NodeInit => Init
    BY DEF NodeInit
  <1> QED
    BY <1>1, NodeStep, NodeInvariants, PTL DEF NodeSafety, Spec

\* In particular it never changes immutable metadata, nor a token without the signature
\* of its update authority, and its commits are lawful steps of the registry.
THEOREM NodeKeepsPromises ==
    NodeSafety => ImmutableForever /\ ChangesAuthorised /\ ImplementsRegistry
  BY NodeRunsLedger, ImmutabilityIsForever, OnlyAuthorityChanges, LedgerImplementsRegistry,
     PTL

-----------------------------------------------------------------------------
(* One creation for each token *)

\* Creating an account leaves the data of every other account alone.
LEMMA CreatedData ==
    ASSUME NEW A \in [Address -> Account], NEW ix, NEW a \in Address, NEW space,
           NEW x \in Address \ {a}
    PROVE  Created(A, ix, a, space)[x].data = A[x].data
  <1>1. A[x] \in Account
    OBVIOUS
  <1> QED
    BY <1>1 DEF Created, CreateAccount, Account

\* Writing the data of one account changes which tokens have metadata only there.
LEMMA OneDataWritten ==
    ASSUME NEW A, NEW B, NEW a \in Address,
           \A x \in Address \ {a} : B[x].data = A[x].data,
           HoldsMetadata(B, a) <=> HoldsMetadata(A, a),
           NEW m \in Mints
    PROVE  MetadataExists(B, m) <=> MetadataExists(A, m)
  BY DerivedAddresses DEF MetadataExists, HoldsMetadata

LEMMA CreateMetadataCreates ==
    ASSUME NEW A, Legal(A), NEW S, NEW ix \in Sent("CreateMetadata"),
           Passes(CreateMetadataChecks(A, S, ix)), NEW m \in Mints
    PROVE  /\ MetadataExists(CreateMetadataEffect(A, ix), m) <=>
                MetadataExists(A, m) \/ ix.mint = m
           /\ ix.mint = m => ~MetadataExists(A, m)
  <1> DEFINE C == Created(A, ix, ix.metadata, TOKEN_METADATA_MAX_LEN)
             B == CreateMetadataEffect(A, ix)
  <1>1. /\ ix.metadata \in Address /\ A \in [Address -> Account]
        /\ ix.metadata = MetadataPda(ix.mint)
        /\ NeedsCreation(A, ix.metadata)
    BY InstructionTypes, CreateMetadataGuards, CreationNeeded DEF Sent, Legal
  <1>2. ~HoldsMetadata(A, ix.metadata)
    BY <1>1 DEF Legal, Complete, NeedsCreation
  <1>3. C \in [Address -> {C[x] : x \in Address}]
    BY <1>1 DEF Created, CreateAccount
  <1>4. \A x \in Address \ {ix.metadata} : C[x].data = A[x].data
    BY <1>1, CreatedData
  <1>5. C[ix.metadata] \in [owner : {MetadataProgram}, lamports : {C[ix.metadata].lamports},
                            data : {C[ix.metadata].data}]
    BY <1>1 DEF Created, CreateAccount
  <1> HIDE DEF C
  <1>6. B = [C EXCEPT ![ix.metadata].data = NewMetadata(A, ix)]
    BY DEF C, CreateMetadataEffect
  <1>7. /\ \A x \in Address \ {ix.metadata} : B[x].data = A[x].data
        /\ B[ix.metadata].data = NewMetadata(A, ix)
    BY <1>1, <1>3, <1>4, <1>5, <1>6
  <1>8. HoldsMetadata(B, ix.metadata)
    BY <1>7 DEF NewMetadata, HoldsMetadata
  <1> HIDE DEF B
  <1>9. MetadataExists(B, m) <=> MetadataExists(A, m) \/ ix.mint = m
    BY <1>1, <1>7, <1>8, DerivedAddresses DEF MetadataExists, HoldsMetadata
  <1> QED
    BY <1>1, <1>2, <1>9 DEF B, MetadataExists

LEMMA CreateAttributesCreatesNone ==
    ASSUME NEW A, Legal(A), NEW S, NEW ix \in Sent("CreateAttributes"),
           Passes(CreateAttributesChecks(A, S, ix)), NEW m \in Mints
    PROVE  MetadataExists(CreateAttributesEffect(A, ix), m) <=> MetadataExists(A, m)
  <1> DEFINE C == Created(A, ix, ix.attributes, TOKEN_METADATA_ATTRIBUTES_MAX_LEN)
             B == CreateAttributesEffect(A, ix)
  <1>1. /\ ix.attributes \in Address /\ A \in [Address -> Account]
        /\ ix.attributes = AttributesPda(ix.mint)
    BY InstructionTypes, CreateAttributesGuards DEF Sent, Legal
  <1>2. C \in [Address -> {C[x] : x \in Address}]
    BY <1>1 DEF Created, CreateAccount
  <1>3. \A x \in Address \ {ix.attributes} : C[x].data = A[x].data
    BY <1>1, CreatedData
  <1> HIDE DEF C
  <1>4. B = [C EXCEPT ![ix.attributes].data = NewAttributes(ix)]
    BY DEF C, CreateAttributesEffect
  <1>5. \A x \in Address \ {ix.attributes} : B[x].data = A[x].data
    BY <1>1, <1>2, <1>3, <1>4
  <1>6. MetadataPda(m) \in Address \ {ix.attributes}
    BY <1>1, DerivedAddresses
  <1> QED
    BY <1>5, <1>6 DEF MetadataExists, HoldsMetadata

\* The other handlers write into one account without changing whether it holds metadata.
LEMMA OthersCreateNone ==
    ASSUME NEW A, Legal(A), NEW S, NEW ix \in Instructions, NEW m \in Mints
    PROVE  /\ ix.op = "UpdateMetadata" /\ Passes(UpdateMetadataChecks(A, S, ix)) =>
                (MetadataExists(UpdateMetadataEffect(A, ix), m) <=> MetadataExists(A, m))
           /\ ix.op = "ReplaceAttributes" /\ Passes(ReplaceAttributesChecks(A, S, ix)) =>
                (MetadataExists(ReplaceAttributesEffect(A, ix), m) <=> MetadataExists(A, m))
           /\ ix.op \in {"TransferAuthority", "MakeImmutable"}
                /\ Passes(AuthorityChangeChecks(A, S, ix)) =>
                /\ MetadataExists(TransferAuthorityEffect(A, ix), m) <=> MetadataExists(A, m)
                /\ MetadataExists(MakeImmutableEffect(A, ix), m) <=> MetadataExists(A, m)
           /\ ix.op = "CreateMintAccount" =>
                (MetadataExists(CreateMintAccountEffect(A, ix), m) <=> MetadataExists(A, m))
           /\ ix.op = "InitializeMint2" =>
                (MetadataExists(InitializeMint2Effect(A, ix), m) <=> MetadataExists(A, m))
           /\ ix.op = "SetMintAuthority" =>
                (MetadataExists(SetMintAuthorityEffect(A, ix), m) <=> MetadataExists(A, m))
  <1>1. A \in [Address -> Account]
    BY DEF Legal
  <1>2. /\ MetadataPda(m) \in Address
        /\ A[MetadataPda(m)] \in Account
        /\ \A k \in Mints : MetadataPda(m) # k
    BY <1>1, DerivedAddresses
  <1>3. ASSUME NEW a \in Address, HoldsMetadata(A, a)
        PROVE  A[a] \in Account /\ A[a].data \in TokenMetadata
    BY <1>1, <1>3, MetadataInPlace
  <1>4. CASE ix.op = "UpdateMetadata" /\ Passes(UpdateMetadataChecks(A, S, ix))
    <2>1. ix.metadata \in Address /\ HoldsMetadata(A, ix.metadata)
      BY <1>4, InstructionTypes, UpdateMetadataGuards
    <2>2. HoldsMetadata(UpdateMetadataEffect(A, ix), ix.metadata)
      BY <1>1, <1>3, <2>1
      DEF UpdateMetadataEffect, Updated, HoldsMetadata, Account, TokenMetadata
    <2>3. \A x \in Address \ {ix.metadata} : UpdateMetadataEffect(A, ix)[x] = A[x]
      BY <1>1 DEF UpdateMetadataEffect
    <2> QED
      BY <1>4, <2>1, <2>2, <2>3, OneDataWritten
  <1>5. CASE ix.op = "ReplaceAttributes" /\ Passes(ReplaceAttributesChecks(A, S, ix))
    <2>1. /\ ix.metadata \in Address /\ HoldsMetadata(A, ix.metadata)
          /\ ix.attributes = AttributesPda(A[ix.metadata].data.mint)
      BY <1>5, InstructionTypes, ReplaceAttributesGuards DEF AttributesOf
    <2>2. MetadataPda(m) # ix.attributes
      BY <2>1, DerivedAddresses
    <2>3. \A x \in Address \ {ix.attributes} : ReplaceAttributesEffect(A, ix)[x] = A[x]
      BY <1>1 DEF ReplaceAttributesEffect
    <2> QED
      BY <1>2, <1>5, <2>2, <2>3 DEF MetadataExists, HoldsMetadata
  <1>6. CASE ix.op \in {"TransferAuthority", "MakeImmutable"}
               /\ Passes(AuthorityChangeChecks(A, S, ix))
    <2>1. ix.metadata \in Address /\ HoldsMetadata(A, ix.metadata)
      BY <1>6, InstructionTypes, AuthorityChangeGuards
    <2>2. HoldsMetadata(TransferAuthorityEffect(A, ix), ix.metadata)
      BY <1>1, <1>3, <2>1 DEF TransferAuthorityEffect, HoldsMetadata, Account, TokenMetadata
    <2>3. \A x \in Address \ {ix.metadata} : TransferAuthorityEffect(A, ix)[x] = A[x]
      BY <1>1 DEF TransferAuthorityEffect
    <2>4. HoldsMetadata(MakeImmutableEffect(A, ix), ix.metadata)
      BY <1>1, <1>3, <2>1 DEF MakeImmutableEffect, HoldsMetadata, Account, TokenMetadata
    <2>5. \A x \in Address \ {ix.metadata} : MakeImmutableEffect(A, ix)[x] = A[x]
      BY <1>1 DEF MakeImmutableEffect
    <2>6. MetadataExists(TransferAuthorityEffect(A, ix), m) <=> MetadataExists(A, m)
      BY <2>1, <2>2, <2>3, OneDataWritten
    <2>7. MetadataExists(MakeImmutableEffect(A, ix), m) <=> MetadataExists(A, m)
      BY <2>1, <2>4, <2>5, OneDataWritten
    <2> QED
      BY <1>6, <2>6, <2>7
  <1>7. CASE ix.op = "CreateMintAccount"
    <2>1. MetadataPda(m) # ix.mint
      BY <1>2, <1>7, InstructionTypes
    <2>2. CreateMintAccountEffect(A, ix)[MetadataPda(m)].data = A[MetadataPda(m)].data
      BY <1>1, <1>2, <2>1 DEF CreateMintAccountEffect, CreateAccount, Account
    <2> QED
      BY <1>7, <2>2 DEF MetadataExists, HoldsMetadata
  <1>8. CASE ix.op = "InitializeMint2"
    <2>1. MetadataPda(m) # ix.mint
      BY <1>2, <1>8, InstructionTypes
    <2>2. InitializeMint2Effect(A, ix)[MetadataPda(m)] = A[MetadataPda(m)]
      BY <1>1, <1>2, <2>1 DEF InitializeMint2Effect
    <2> QED
      BY <1>8, <2>2 DEF MetadataExists, HoldsMetadata
  <1>9. CASE ix.op = "SetMintAuthority"
    <2>1. MetadataPda(m) # ix.mint
      BY <1>2, <1>9, InstructionTypes
    <2>2. SetMintAuthorityEffect(A, ix)[MetadataPda(m)] = A[MetadataPda(m)]
      BY <1>1, <1>2, <2>1 DEF SetMintAuthorityEffect
    <2> QED
      BY <1>9, <2>2 DEF MetadataExists, HoldsMetadata
  <1> QED
    BY <1>4, <1>5, <1>6, <1>7, <1>8, <1>9

IsCreation(ix, m) == ix.op = "CreateMetadata" /\ ix.mint = m

\* What an instruction that does not end the transaction adds to the bank's metadata.
LEMMA RunCreates ==
    ASSUME IInv, NEW ix \in Instructions, Run(ix), outcome' \notin Errors, NEW m \in Mints
    PROVE  /\ MetadataExists(bank', m) <=> MetadataExists(bank, m) \/ IsCreation(ix, m)
           /\ IsCreation(ix, m) => ~MetadataExists(bank, m)
  <1> USE DEF IsCreation
  <1>1. Legal(bank)
    BY DEF IInv
  <1>2. CASE ix.op = "CreateMetadata"
    BY <1>1, <1>2, RunPasses, CreateMetadataCreates DEF Sent
  <1>3. CASE ix.op = "CreateAttributes"
    BY <1>1, <1>3, RunPasses, CreateAttributesCreatesNone DEF Sent
  <1>4. CASE ix.op = "InitializeMint2"
    <2>1. bank' = InitializeMint2Effect(bank, ix)
      BY <1>4, RunPasses
    <2>2. MetadataExists(InitializeMint2Effect(bank, ix), m) <=> MetadataExists(bank, m)
      BY <1>1, <1>4, OthersCreateNone
    <2> QED
      BY <1>4, <2>1, <2>2
  <1>5. CASE ix.op \in {"UpdateMetadata", "ReplaceAttributes", "TransferAuthority"}
    BY <1>1, <1>5, RunPasses, OthersCreateNone
  <1>6. CASE ix.op \in {"MakeImmutable", "CreateMintAccount", "SetMintAuthority"}
    BY <1>1, <1>6, RunPasses, OthersCreateNone
  <1> QED
    BY <1>2, <1>3, <1>4, <1>5, <1>6 DEF Run

\* The instructions executed so far, and one more.
LEMMA CreatesInNext ==
    ASSUME NEW m, NEW ixs, NEW n \in Nat
    PROVE  CreatesIn(m, ixs, n + 1) <=> CreatesIn(m, ixs, n) \/ IsCreation(ixs[n + 1], m)
  <1>1. 1..(n + 1) = (1..n) \cup {n + 1}
    OBVIOUS
  <1> QED
    BY <1>1 DEF CreatesIn, IsCreation

\* A transaction that has run to its end has executed all of its creations.
LEMMA CreatesInAll ==
    ASSUME NEW tx \in Transactions, NEW m
    PROVE  CreatesIn(m, tx.instructions, Len(tx.instructions)) <=> CreatesMetadataOf(m, tx)
  <1>1. DOMAIN tx.instructions = 1..Len(tx.instructions)
    BY TransactionsAssumption
  <1> QED
    BY <1>1 DEF CreatesIn, CreatesMetadataOf

LEMMA CreationsInit == NodeInit => CreationsKept
  <1> SUFFICES ASSUME NodeInit PROVE CreationsKept
    OBVIOUS
  <1>1. ASSUME NEW m \in Mints PROVE ~MetadataExists(ledger, m)
    <2>1. MetadataPda(m) \in Address /\ MetadataPda(m) \notin Wallets
      BY DerivedAddresses DEF Keys
    <2>2. ledger[MetadataPda(m)] = Vacant
      BY <2>1 DEF NodeInit, Init
    <2> QED
      BY <2>2 DEF MetadataExists, HoldsMetadata, Vacant, Empty
  <1>2. committed = <<>> /\ running = NoTx
    BY DEF NodeInit
  <1> QED
    BY <1>1, <1>2 DEF CreationsKept

LEMMA CreationsNext ==
    ASSUME IInv, NodeTypeOK, CreationsKept, [NodeNext]_nodeVars
    PROVE  CreationsKept'
  <1> USE DEF CreationsKept
  <1>1. ASSUME NEW tx \in Transactions, Receive(tx) PROVE CreationsKept'
    BY <1>1 DEF Receive, vars, MetadataExists, HoldsMetadata
  <1>2. ASSUME NEW tx \in pending, Start(tx) PROVE CreationsKept'
    <2>1. /\ running' = tx /\ committed' = committed /\ ledger' = ledger
          /\ bank' = ledger /\ executed' = 0
      BY <1>2 DEF Start, Begin, IInv
    <2>2. Len(tx.instructions) \in Nat
      BY TransactionsAssumption DEF NodeTypeOK
    <2>3. \A m : ~CreatesIn(m, tx.instructions, 0)
      BY DEF CreatesIn
    <2> QED
      BY <2>1, <2>2, <2>3
  <1>3. ASSUME Advance PROVE CreationsKept'
    <2> DEFINE ix == running.instructions[executed + 1]
    <2>1. /\ running \in Transactions /\ running # NoTx /\ executed \in Nat
          /\ executed < Len(running.instructions) /\ Run(ix)
          /\ running' = IF outcome' = "open" THEN running ELSE NoTx
          /\ committed' = committed
      BY <1>3, MaxInstructionsAssumption DEF Advance, NodeTypeOK, IInv, TypeOK
    <2>2. ix \in Instructions /\ Len(running.instructions) \in Nat
      BY <2>1, NextInstruction, TransactionsAssumption
    <2>3. ledger' = ledger
      BY <2>1, RunEnds
    <2>4. CASE outcome' \in Errors
      <3>1. running' = NoTx
        BY <2>1, <2>4 DEF Errors
      <3> QED
        BY <2>1, <2>3, <3>1
    <2>5. CASE outcome' \notin Errors
      <3>1. outcome' = "open" /\ executed' = executed + 1
        BY <2>1, <2>5, RunEnds DEF Open
      <3>2. running' = running
        BY <2>1, <3>1
      <3> HIDE DEF ix
      <3>3. ASSUME NEW m \in Mints
            PROVE  /\ MetadataExists(bank', m) <=> MetadataExists(bank, m) \/ IsCreation(ix, m)
                   /\ IsCreation(ix, m) => ~MetadataExists(bank, m)
        BY <2>1, <2>2, <2>5, RunCreates
      <3>4. \A m : CreatesIn(m, running.instructions, executed + 1) <=>
                      CreatesIn(m, running.instructions, executed) \/ IsCreation(ix, m)
        BY <2>1, CreatesInNext DEF ix
      <3>5. executed + 1 <= Len(running.instructions)
        BY <2>1, <2>2
      <3> QED
        BY <2>1, <2>3, <3>1, <3>2, <3>3, <3>4, <3>5
    <2> QED
      BY <2>4, <2>5
  <1>4. ASSUME Finish PROVE CreationsKept'
    <2>1. /\ running \in Transactions /\ running # NoTx /\ running' = NoTx
          /\ executed = Len(running.instructions)
          /\ committed' = Append(committed, running) /\ committed \in Seq(Transactions)
          /\ ledger' = bank
      BY <1>4 DEF Finish, NodeTypeOK, Commit
    <2>2. /\ DOMAIN committed' = DOMAIN committed \cup {Len(committed) + 1}
          /\ Len(committed) + 1 \notin DOMAIN committed
          /\ \A i \in DOMAIN committed : committed'[i] = committed[i]
          /\ committed'[Len(committed) + 1] = running
      BY <2>1
    <2>3. \A m : CreatesIn(m, running.instructions, executed) <=> CreatesMetadataOf(m, running)
      BY <2>1, CreatesInAll
    <2> QED
      BY <2>1, <2>2, <2>3
  <1>5. CASE UNCHANGED nodeVars
    BY <1>5 DEF nodeVars, vars, node
  <1> QED
    BY <1>1, <1>2, <1>3, <1>4, <1>5 DEF NodeNext, Work

\* The creations in the log and in the running transaction account for all metadata.
THEOREM CreationsAccounted == NodeSafety => []CreationsKept
  <1>1. IInv /\ NodeTypeOK /\ CreationsKept /\ [NodeNext]_nodeVars => CreationsKept'
    BY CreationsNext
  <1>2. NodeInit => CreationsKept
    BY CreationsInit
  <1> QED
    BY <1>1, <1>2, NodeInvariants, PTL DEF NodeSafety

\* However often the creation of a token's metadata is sent, it is committed once, and
\* never when there is no token: a client that lost the answer may send it again.
THEOREM MetadataCreatedOnce == NodeSafety => []CreatedOnce
  <1>1. ASSUME CreationsKept PROVE CreatedOnce
    <2> SUFFICES ASSUME NEW m \in Mints
                 PROVE  Cardinality({i \in DOMAIN committed : CreatesMetadataOf(m, committed[i])})
                          = IF MetadataExists(ledger, m) THEN 1 ELSE 0
      BY DEF CreatedOnce
    <2> DEFINE creations == {i \in DOMAIN committed : CreatesMetadataOf(m, committed[i])}
    <2>1. CASE MetadataExists(ledger, m)
      <3>1. PICK i \in creations : TRUE
        BY <1>1, <2>1 DEF CreationsKept
      <3>2. creations = {i}
        BY <1>1, <3>1 DEF CreationsKept
      <3> QED
        BY <2>1, <3>2, FS_Singleton
    <2>2. CASE ~MetadataExists(ledger, m)
      <3>1. creations = {}
        BY <1>1, <2>2 DEF CreationsKept
      <3> QED
        BY <2>2, <3>1, FS_EmptySet
    <2> QED
      BY <2>1, <2>2
  <1> QED
    BY <1>1, CreationsAccounted, PTL

-----------------------------------------------------------------------------
(* What the log says of a token *)

\* One more set: it is the last that is not empty, or leaves the last as it was.
LEMMA LastOfNext ==
    ASSUME NEW v, NEW n \in Nat
    PROVE  /\ LastOf(v, 0) = {}
           /\ LastOf(v, n + 1) = IF v[n + 1] # {} THEN v[n + 1] ELSE LastOf(v, n)
  <1> DEFINE Final(k) == {i \in 1..k : \A j \in (i + 1)..k : v[j] = {}}
  <1>1. LastOf(v, 0) = {}
    BY DEF LastOf
  <1>2. 1..(n + 1) = (1..n) \cup {n + 1} /\ n + 1 \in Final(n + 1)
    OBVIOUS
  <1>3. CASE v[n + 1] # {}
    <2>1. ASSUME NEW i \in Final(n + 1), i # n + 1 PROVE FALSE
      <3>1. i \in 1..n /\ n + 1 \in (i + 1)..(n + 1)
        BY <1>2, <2>1
      <3> QED
        BY <1>3, <2>1, <3>1
    <2>2. Final(n + 1) = {n + 1}
      BY <1>2, <2>1
    <2> HIDE DEF Final
    <2>3. UNION {v[j] : j \in Final(n + 1)} = v[n + 1]
      BY <2>2
    <2> QED
      BY <1>3, <2>3 DEF LastOf, Final
  <1>4. CASE v[n + 1] = {}
    <2>1. \A i \in 1..n : (i + 1)..(n + 1) = ((i + 1)..n) \cup {n + 1}
      OBVIOUS
    <2>2. Final(n + 1) = Final(n) \cup {n + 1}
      BY <1>2, <1>4, <2>1
    <2> HIDE DEF Final
    <2>3. UNION {v[j] : j \in Final(n + 1)} = UNION {v[j] : j \in Final(n)}
      BY <1>4, <2>2
    <2> QED
      BY <1>4, <2>3 DEF LastOf, Final
  <1> QED
    BY <1>1, <1>3, <1>4

\* Only the first n sets count.
LEMMA LastOfSame ==
    ASSUME NEW v, NEW w, NEW n \in Nat, \A i \in 1..n : v[i] = w[i]
    PROVE  LastOf(v, n) = LastOf(w, n)
  <1> DEFINE Final(f) == {i \in 1..n : \A j \in (i + 1)..n : f[j] = {}}
  <1>1. \A i \in 1..n : \A j \in (i + 1)..n : j \in 1..n
    OBVIOUS
  <1>2. Final(v) = Final(w)
    BY <1>1
  <1>3. Final(v) \subseteq 1..n
    OBVIOUS
  <1> HIDE DEF Final
  <1>4. UNION {v[j] : j \in Final(v)} = UNION {w[j] : j \in Final(w)}
    BY <1>2, <1>3
  <1> QED
    BY <1>4 DEF LastOf, Final

\* Of sets that are all empty but one, the last that is not empty is that one.
LEMMA LastOfOnly ==
    ASSUME NEW v, NEW n \in Nat, NEW i \in 1..n, \A j \in 1..n : j # i => v[j] = {}
    PROVE  LastOf(v, n) = v[i]
  <1> DEFINE Final == {j \in 1..n : \A k \in (j + 1)..n : v[k] = {}}
  <1>1. \A k \in (i + 1)..n : k \in 1..n /\ k # i
    OBVIOUS
  <1>2. i \in Final
    BY <1>1
  <1>3. \A j \in Final : j # i => v[j] = {}
    OBVIOUS
  <1> HIDE DEF Final
  <1>4. UNION {v[j] : j \in Final} = v[i]
    BY <1>2, <1>3
  <1> QED
    BY <1>4 DEF LastOf, Final

LEMMA LastOfNone ==
    ASSUME NEW v, NEW n \in Nat, \A j \in 1..n : v[j] = {}
    PROVE  LastOf(v, n) = {}
  BY DEF LastOf

\* A transaction of whose instructions at most one writes a part of a token.
LEMMA WrittenOnce ==
    ASSUME NEW tx \in Transactions, NEW m, NEW part, NEW i \in DOMAIN tx.instructions,
           \A j \in DOMAIN tx.instructions :
              j # i => Written(tx.instructions[j], m, part) = {}
    PROVE  WrittenBy(tx, m, part) = Written(tx.instructions[i], m, part)
  <1> DEFINE ixs == tx.instructions
             n == Len(ixs)
             v == [j \in DOMAIN ixs |-> Written(ixs[j], m, part)]
  <1>1. ixs \in Seq(Instructions)
    BY TransactionsAssumption
  <1>2. n \in Nat /\ DOMAIN ixs = 1..n
    BY <1>1
  <1>3. v[i] = Written(ixs[i], m, part) /\ \A j \in 1..n : j # i => v[j] = {}
    BY <1>2
  <1>4. WrittenBy(tx, m, part) = LastOf(v, n)
    BY DEF WrittenBy, LastIn
  <1> HIDE DEF v, n
  <1> QED
    BY <1>2, <1>3, <1>4, LastOfOnly

\* A log of which at most one transaction does.
LEMMA LastWrittenOnce ==
    ASSUME NEW log \in Seq(Transactions), NEW m, NEW part
    PROVE  /\ \A i \in DOMAIN log :
                (\A j \in DOMAIN log : j # i => WrittenBy(log[j], m, part) = {})
                   => LastWritten(log, m, part) = WrittenBy(log[i], m, part)
           /\ (\A i \in DOMAIN log : WrittenBy(log[i], m, part) = {})
                 => LastWritten(log, m, part) = {}
  <1> DEFINE n == Len(log)
             v == [i \in DOMAIN log |-> WrittenBy(log[i], m, part)]
  <1>1. /\ n \in Nat /\ DOMAIN log = 1..n
        /\ \A i \in 1..n : v[i] = WrittenBy(log[i], m, part)
        /\ LastWritten(log, m, part) = LastOf(v, n)
    BY DEF LastWritten
  <1> HIDE DEF n, v
  <1>2. ASSUME NEW i \in 1..n, \A j \in 1..n : j # i => v[j] = {}
        PROVE  LastOf(v, n) = v[i]
    BY <1>1, <1>2, LastOfOnly
  <1>3. (\A j \in 1..n : v[j] = {}) => LastOf(v, n) = {}
    BY <1>1, LastOfNone
  <1> QED
    BY <1>1, <1>2, <1>3

LEMMA LastInNext ==
    ASSUME NEW tx \in Transactions, NEW n \in Nat, n < Len(tx.instructions), NEW m, NEW part
    PROVE  LET new == Written(tx.instructions[n + 1], m, part)
           IN  LastIn(tx.instructions, n + 1, m, part) =
                  IF new # {} THEN new ELSE LastIn(tx.instructions, n, m, part)
  <1> DEFINE v == [j \in DOMAIN tx.instructions |-> Written(tx.instructions[j], m, part)]
  <1>1. tx.instructions \in Seq(Instructions) /\ Len(tx.instructions) \in Nat
    BY TransactionsAssumption
  <1>2. v[n + 1] = Written(tx.instructions[n + 1], m, part)
    BY <1>1
  <1> HIDE DEF v
  <1> QED
    BY <1>2, LastOfNext DEF LastIn, v

\* A transaction that is committed has written last what it wrote.
LEMMA LastWrittenAppend ==
    ASSUME NEW log \in Seq(Transactions), NEW tx \in Transactions, NEW m, NEW part
    PROVE  LastWritten(Append(log, tx), m, part) =
              IF WrittenBy(tx, m, part) # {} THEN WrittenBy(tx, m, part)
              ELSE LastWritten(log, m, part)
  <1> DEFINE more == Append(log, tx)
             v == [i \in DOMAIN log |-> WrittenBy(log[i], m, part)]
             w == [i \in DOMAIN more |-> WrittenBy(more[i], m, part)]
  <1>1. /\ Len(log) \in Nat /\ Len(more) = Len(log) + 1
        /\ DOMAIN log = 1..Len(log) /\ DOMAIN more = 1..(Len(log) + 1)
        /\ \A i \in 1..Len(log) : more[i] = log[i]
        /\ more[Len(log) + 1] = tx
    OBVIOUS
  <1>2. \A i \in 1..Len(log) : w[i] = v[i]
    BY <1>1
  <1>3. w[Len(log) + 1] = WrittenBy(tx, m, part)
    BY <1>1
  <1> HIDE DEF v, w, more
  <1>4. LastOf(w, Len(log)) = LastOf(v, Len(log))
    BY <1>1, <1>2, LastOfSame
  <1>5. LastOf(w, Len(log) + 1) =
          IF WrittenBy(tx, m, part) # {} THEN WrittenBy(tx, m, part) ELSE LastOf(v, Len(log))
    BY <1>1, <1>3, <1>4, LastOfNext
  <1> QED
    BY <1>1, <1>5 DEF LastWritten, v, w, more

\* What metadata and attributes hold is not what a mint holds.
LEMMA TokenParts ==
    ASSUME NEW part \in TokenPart
    PROVE  /\ part \in Part /\ part \notin MintPart
           /\ part \in MetadataPart <=> part # "attributes"
           /\ part \in MetadataPart <=> part \in Field \/ part = "update_authority"
  BY DEF Part, TokenPart, MetadataPart, MintPart, Field

\* The parts of two tokens are held in different places.
LEMMA Holders ==
    ASSUME NEW m \in Mints, NEW part \in Part
    PROVE  /\ Holder(m, part) \in Address
           /\ \A a \in Mints : Holder(m, part) = a <=> a = m /\ part \in MintPart
           /\ \A a \in Address :
                /\ Holder(m, part) = MetadataPda(a) <=> a = m /\ part \in MetadataPart
                /\ Holder(m, part) = AttributesPda(a) <=> a = m /\ part = "attributes"
  <1>1. CASE part \in MintPart
    <2>1. Holder(m, part) = m /\ part \notin MetadataPart /\ part # "attributes"
      BY <1>1 DEF Holder, MintPart, MetadataPart, Field
    <2> QED
      BY <1>1, <2>1, DerivedAddresses
  <1>2. CASE part \in MetadataPart
    <2>1. Holder(m, part) = MetadataPda(m) /\ part \notin MintPart /\ part # "attributes"
      BY <1>2 DEF Holder, MintPart, MetadataPart, Field
    <2> QED
      BY <1>2, <2>1, DerivedAddresses
  <1>3. CASE part = "attributes"
    <2>1. Holder(m, part) = AttributesPda(m) /\ part \notin MintPart \cup MetadataPart
      BY <1>3 DEF Holder, MintPart, MetadataPart, Field
    <2> QED
      BY <1>3, <2>1, DerivedAddresses
  <1> QED
    BY <1>1, <1>2, <1>3 DEF Part, TokenPart

\* An instruction that writes one value into a part.
LEMMA OneWritten ==
    ASSUME NEW ix, NEW m, NEW part, NEW x, <<m, part, x>> \in Writes(ix),
           \A v \in Writes(ix) : v[1] = m /\ v[2] = part => v[3] = x
    PROVE  Written(ix, m, part) = {x}
  <1> DEFINE W == {v \in Writes(ix) : v[1] = m /\ v[2] = part}
  <1>1. <<m, part, x>> \in W /\ <<m, part, x>>[3] = x
    OBVIOUS
  <1>2. \A v \in W : v[3] = x
    OBVIOUS
  <1>3. Written(ix, m, part) = {v[3] : v \in W}
    BY DEF Written
  <1> HIDE DEF W
  <1> QED
    BY <1>1, <1>2, <1>3

\* An instruction that writes one value in all.
WritesOnly(ix, w) == Writes(ix) = {w}

LEMMA OnlyWritten ==
    ASSUME NEW ix, NEW m, NEW part, NEW x, WritesOnly(ix, <<m, part, x>>)
    PROVE  Written(ix, m, part) = {x}
  <1> DEFINE w == <<m, part, x>>
  <1>1. /\ w[1] = m /\ w[2] = part /\ w[3] = x
        /\ Written(ix, m, part) = {u[3] : u \in {v \in {w} : v[1] = m /\ v[2] = part}}
    BY DEF Written, WritesOnly
  <1> HIDE DEF w
  <1>2. {v \in {w} : v[1] = m /\ v[2] = part} = {w}
    BY <1>1
  <1>3. {u[3] : u \in {w}} = {w[3]}
    OBVIOUS
  <1> QED
    BY <1>1, <1>2, <1>3

\* An instruction that writes nothing of a mint.
LEMMA NoneWritten ==
    ASSUME NEW ix, NEW m, NEW part, \A w \in Writes(ix) : w[1] # m \/ w[2] # part
    PROVE  Written(ix, m, part) = {}
  BY DEF Written

\* An instruction writes one account, whose parts it names, and names no other part.
Follows(A, B, ix, m, part) ==
    ValueIn(B[Holder(m, part)].data, part) =
       IF Written(ix, m, part) # {} THEN Written(ix, m, part)
       ELSE ValueIn(A[Holder(m, part)].data, part)

\* CreateMetadata writes every part of its mint that metadata holds.
LEMMA CreateMetadataWritten ==
    ASSUME NEW ix, ix.op = "CreateMetadata", NEW m, NEW part \in Part
    PROVE  /\ m = ix.mint /\ part \in Field => Written(ix, m, part) = {ix.text[part]}
           /\ m = ix.mint /\ part = "update_authority" =>
                 Written(ix, m, part) = {IF ix.immutable THEN NoKey ELSE ix.authority}
           /\ ~(m = ix.mint /\ part \in MetadataPart) => Written(ix, m, part) = {}
  <1> DEFINE k == IF ix.immutable THEN NoKey ELSE ix.authority
  <1>1. Writes(ix) = {<<ix.mint, f, ix.text[f]>> : f \in Field}
                       \cup {<<ix.mint, "update_authority", k>>}
    BY DEF Writes
  <1> HIDE DEF k
  <1>2. ASSUME m = ix.mint, part \in Field PROVE Written(ix, m, part) = {ix.text[part]}
    <2>1. <<m, part, ix.text[part]>> \in Writes(ix)
      BY <1>1, <1>2
    <2>2. \A v \in Writes(ix) : v[1] = m /\ v[2] = part => v[3] = ix.text[part]
      BY <1>1, <1>2 DEF Field
    <2> QED
      BY <2>1, <2>2, OneWritten
  <1>3. ASSUME m = ix.mint, part = "update_authority" PROVE Written(ix, m, part) = {k}
    <2>1. \A v \in Writes(ix) : v[1] = m /\ v[2] = part => v[3] = k
      BY <1>1, <1>3 DEF Field
    <2>2. <<m, part, k>> \in Writes(ix)
      BY <1>1, <1>3
    <2> QED
      BY <2>1, <2>2, OneWritten
  <1>4. ASSUME ~(m = ix.mint /\ part \in MetadataPart) PROVE Written(ix, m, part) = {}
    BY <1>1, <1>4 DEF Written, Field, MetadataPart
  <1> QED
    BY <1>2, <1>3, <1>4 DEF k

LEMMA CreateMetadataFollows ==
    ASSUME NEW A, Legal(A), NEW S \in SUBSET Keys, NEW ix \in Sent("CreateMetadata"),
           Passes(CreateMetadataChecks(A, S, ix)), NEW m \in Mints, NEW part \in Part
    PROVE  Follows(A, CreateMetadataEffect(A, ix), ix, m, part)
  <1> DEFINE B == CreateMetadataEffect(A, ix)
             d == NewMetadata(A, ix)
  <1>1. /\ ix.op = "CreateMetadata" /\ ix.mint \in Address
        /\ MetadataPda(ix.mint) \in Address
        /\ ix.authority = CreationAuthority(A, ix.mint)
        /\ Wrote(A, B, MetadataPda(ix.mint), d)
    BY InstructionTypes, CreateMetadataGuards, CreateMetadataWrites
    DEF Sent, CreationAuthorityAccepted
  <1>2. /\ d.kind = "metadata" /\ d.text = ix.text
        /\ d.update_authority = IF ix.immutable THEN NoKey ELSE ix.authority
    BY <1>1 DEF NewMetadata
  <1> HIDE DEF B, d
  <1>4. CASE m = ix.mint /\ part \in MetadataPart
    <2>1. B[Holder(m, part)].data = d
      BY <1>1, <1>4, Holders DEF Wrote
    <2>2. CASE part \in Field
      <3>1. ValueIn(d, part) = {d.text[part]} /\ Written(ix, m, part) = {ix.text[part]}
        BY <1>1, <1>2, <1>4, <2>2, CreateMetadataWritten DEF ValueIn
      <3> QED
        BY <1>2, <2>1, <3>1 DEF Follows, B
    <2>3. CASE part = "update_authority"
      <3>1. /\ ValueIn(d, part) = {d.update_authority}
            /\ Written(ix, m, part) = {IF ix.immutable THEN NoKey ELSE ix.authority}
        BY <1>1, <1>2, <1>4, <2>3, CreateMetadataWritten DEF ValueIn, Field
      <3> QED
        BY <1>2, <2>1, <3>1 DEF Follows, B
    <2> QED
      BY <1>4, <2>2, <2>3 DEF MetadataPart
  <1>5. CASE ~(m = ix.mint /\ part \in MetadataPart)
    <2>1. Written(ix, m, part) = {}
      BY <1>1, <1>5, CreateMetadataWritten
    <2>2. Holder(m, part) # MetadataPda(ix.mint) /\ Holder(m, part) \in Address
      BY <1>1, <1>5, Holders
    <2> QED
      BY <1>1, <2>1, <2>2 DEF Follows, Wrote, B
  <1> QED
    BY <1>4, <1>5

LEMMA UpdateMetadataFollows ==
    ASSUME NEW A, Legal(A), NEW S \in SUBSET Keys, NEW ix \in Sent("UpdateMetadata"),
           Passes(UpdateMetadataChecks(A, S, ix)), NEW m \in Mints, NEW part \in Part
    PROVE  Follows(A, UpdateMetadataEffect(A, ix), ix, m, part)
  <1> DEFINE B == UpdateMetadataEffect(A, ix)
             old == A[ix.metadata].data
             d == Updated(A, ix)
  <1>1. /\ ix \in Instructions /\ ix.op = "UpdateMetadata" /\ ix.metadata \in Address
        /\ ix.text \in PartialText /\ HoldsMetadata(A, ix.metadata)
    BY InstructionTypes, UpdateMetadataGuards DEF Sent
  <1>2. old \in TokenMetadata /\ ix.metadata = MetadataPda(old.mint) /\ old.mint \in Address
    BY <1>1, MetadataInPlace, Kinds
  <1>3. /\ Wrote(A, B, ix.metadata, d)
        /\ d.kind = "metadata" /\ d.update_authority = old.update_authority
        /\ d.text = UpdatedText(old.text, ix.text)
    BY <1>1, <1>2, OthersWrite DEF Updated, TokenMetadata
  <1>4. /\ ix.metadata[2] = old.mint
        /\ Writes(ix) = {<<old.mint, f, ix.text[f]>> : f \in DOMAIN ix.text}
        /\ DOMAIN ix.text \subseteq Field
    BY <1>1, <1>2 DEF Writes, MetadataPda, PartialText
  <1>5. old.kind = "metadata"
    BY <1>2, Kinds
  <1> HIDE DEF B, d, old
  <1>6. CASE m = old.mint /\ part \in DOMAIN ix.text
    <2>1. part \in Field /\ part \in MetadataPart /\ part # "update_authority"
      BY <1>4, <1>6 DEF Field, MetadataPart
    <2>2. Written(ix, m, part) = {ix.text[part]}
      <3>1. <<m, part, ix.text[part]>> \in Writes(ix)
        BY <1>4, <1>6
      <3>2. \A v \in Writes(ix) : v[1] = m /\ v[2] = part => v[3] = ix.text[part]
        BY <1>4, <1>6
      <3> QED
        BY <3>1, <3>2, OneWritten
    <2>3. B[Holder(m, part)].data = d
      BY <1>2, <1>3, <1>6, <2>1, Holders DEF Wrote
    <2>4. ValueIn(d, part) = {ix.text[part]}
      BY <1>3, <1>6, <2>1 DEF ValueIn, UpdatedText
    <2> QED
      BY <2>2, <2>3, <2>4 DEF Follows, B
  <1>7. CASE ~(m = old.mint /\ part \in DOMAIN ix.text)
    <2>1. Written(ix, m, part) = {}
      BY <1>4, <1>7 DEF Written
    <2>2. ValueIn(B[Holder(m, part)].data, part) = ValueIn(A[Holder(m, part)].data, part)
      <3>1. CASE Holder(m, part) # ix.metadata
        BY <1>3, <3>1, Holders DEF Wrote
      <3>2. CASE Holder(m, part) = ix.metadata
        <4>1. m = old.mint /\ part \in MetadataPart /\ part \notin DOMAIN ix.text
          BY <1>2, <1>7, <3>2, Holders
        <4>2. B[Holder(m, part)].data = d /\ A[Holder(m, part)].data = old
          BY <1>3, <3>2 DEF Wrote, old
        <4>3. ValueIn(d, part) = ValueIn(old, part)
          BY <1>3, <1>5, <4>1 DEF ValueIn, UpdatedText, MetadataPart, Field
        <4> QED
          BY <4>2, <4>3
      <3> QED
        BY <3>1, <3>2
    <2> QED
      BY <2>1, <2>2 DEF Follows, B
  <1> QED
    BY <1>6, <1>7

\* Both writers of attributes write the list they are given for a mint, and that alone.
LEMMA EntriesFollow ==
    ASSUME NEW A, NEW B, NEW ix, NEW mint \in Address, NEW d, d.kind = "attributes",
           Wrote(A, B, AttributesPda(mint), d), AttributesPda(mint) \in Address,
           WritesOnly(ix, <<mint, "attributes", d.entries>>),
           NEW m \in Mints, NEW part \in Part
    PROVE  Follows(A, B, ix, m, part)
  <1>1. CASE m = mint /\ part = "attributes"
    <2>1. Written(ix, m, part) = {d.entries}
      BY <1>1, OnlyWritten
    <2>2. B[Holder(m, part)].data = d
      BY <1>1, Holders DEF Wrote
    <2>3. ValueIn(d, part) = {d.entries}
      BY <1>1 DEF ValueIn
    <2> QED
      BY <2>1, <2>2, <2>3 DEF Follows
  <1>2. CASE ~(m = mint /\ part = "attributes")
    <2>1. Written(ix, m, part) = {}
      BY <1>2 DEF Written, WritesOnly
    <2>2. Holder(m, part) # AttributesPda(mint) /\ Holder(m, part) \in Address
      BY <1>2, Holders
    <2> QED
      BY <2>1, <2>2 DEF Follows, Wrote
  <1> QED
    BY <1>1, <1>2

LEMMA CreateAttributesFollows ==
    ASSUME NEW A, Legal(A), NEW S \in SUBSET Keys, NEW ix \in Sent("CreateAttributes"),
           Passes(CreateAttributesChecks(A, S, ix)), NEW m \in Mints, NEW part \in Part
    PROVE  Follows(A, CreateAttributesEffect(A, ix), ix, m, part)
  <1> DEFINE d == NewAttributes(ix)
  <1>1. /\ ix.op = "CreateAttributes" /\ ix.mint \in Address
        /\ AttributesPda(ix.mint) \in Address
        /\ Wrote(A, CreateAttributesEffect(A, ix), AttributesPda(ix.mint), d)
    BY InstructionTypes, CreateAttributesGuards, CreateAttributesWrites DEF Sent
  <1>2. d.kind = "attributes" /\ d.entries = ix.entries
    BY DEF NewAttributes
  <1>3. WritesOnly(ix, <<ix.mint, "attributes", d.entries>>)
    BY <1>1, <1>2 DEF WritesOnly, Writes
  <1> HIDE DEF d
  <1> QED
    BY <1>1, <1>2, <1>3, EntriesFollow

LEMMA ReplaceAttributesFollows ==
    ASSUME NEW A, Legal(A), NEW S \in SUBSET Keys, NEW ix \in Sent("ReplaceAttributes"),
           Passes(ReplaceAttributesChecks(A, S, ix)), NEW m \in Mints, NEW part \in Part
    PROVE  Follows(A, ReplaceAttributesEffect(A, ix), ix, m, part)
  <1> DEFINE d == [A[ix.attributes].data EXCEPT !.entries = ix.entries]
             mint == A[ix.metadata].data.mint
  <1>1. /\ ix \in Instructions /\ ix.op = "ReplaceAttributes"
        /\ ix.attributes \in Address /\ ix.metadata \in Address
        /\ HoldsMetadata(A, ix.metadata) /\ HoldsAttributes(A, ix.attributes)
        /\ ix.attributes = AttributesPda(mint)
    BY InstructionTypes, ReplaceAttributesGuards DEF Sent
  <1>2. mint \in Address /\ ix.metadata = MetadataPda(mint)
    BY <1>1, MetadataInPlace, Kinds
  <1>3. d.kind = "attributes" /\ d.entries = ix.entries
    BY <1>1, TypedData DEF Legal, TokenMetadataAttributes
  <1>4. Wrote(A, ReplaceAttributesEffect(A, ix), ix.attributes, d)
    BY <1>1, OthersWrite
  <1> HIDE DEF d, mint
  <1>5. WritesOnly(ix, <<mint, "attributes", d.entries>>)
    BY <1>1, <1>2, <1>3 DEF WritesOnly, Writes, MetadataPda
  <1> QED
    BY <1>1, <1>2, <1>3, <1>4, <1>5, EntriesFollow

\* TransferAuthority and MakeImmutable write the authority, and that alone.
LEMMA AuthorityFollows ==
    ASSUME NEW A, Legal(A), NEW ix, ix.metadata \in Address, HoldsMetadata(A, ix.metadata),
           NEW k, WritesOnly(ix, <<ix.metadata[2], "update_authority", k>>),
           NEW B, Wrote(A, B, ix.metadata,
                        [A[ix.metadata].data EXCEPT !.update_authority = k]),
           NEW m \in Mints, NEW part \in Part
    PROVE  Follows(A, B, ix, m, part)
  <1> DEFINE old == A[ix.metadata].data
             d == [old EXCEPT !.update_authority = k]
  <1>1. old \in TokenMetadata /\ ix.metadata = MetadataPda(old.mint) /\ old.mint \in Address
    BY MetadataInPlace, Kinds
  <1>2. /\ d.kind = "metadata" /\ old.kind = "metadata" /\ d.update_authority = k
        /\ d.text = old.text
        /\ Wrote(A, B, ix.metadata, d)
    BY <1>1 DEF TokenMetadata
  <1>3. WritesOnly(ix, <<old.mint, "update_authority", k>>)
    BY <1>1 DEF MetadataPda
  <1> HIDE DEF old, d
  <1>4. CASE m = old.mint /\ part = "update_authority"
    <2>1. Written(ix, m, part) = {k}
      BY <1>3, <1>4, OnlyWritten
    <2>2. B[Holder(m, part)].data = d
      BY <1>1, <1>2, <1>4, Holders DEF Wrote, MetadataPart
    <2>3. ValueIn(d, part) = {k}
      BY <1>2, <1>4 DEF ValueIn, Field
    <2> QED
      BY <2>1, <2>2, <2>3 DEF Follows
  <1>5. CASE ~(m = old.mint /\ part = "update_authority")
    <2>1. Written(ix, m, part) = {}
      BY <1>3, <1>5 DEF Written, WritesOnly
    <2>2. CASE Holder(m, part) # ix.metadata
      BY <1>2, <2>1, <2>2, Holders DEF Wrote, Follows
    <2>3. CASE Holder(m, part) = ix.metadata
      <3>1. part \in Field
        BY <1>1, <1>5, <2>3, Holders DEF MetadataPart
      <3>2. B[Holder(m, part)].data = d /\ A[Holder(m, part)].data = old
        BY <1>2, <2>3 DEF Wrote, old
      <3>3. ValueIn(d, part) = ValueIn(old, part)
        BY <1>2, <3>1 DEF ValueIn, Field
      <3> QED
        BY <2>1, <3>2, <3>3 DEF Follows
    <2> QED
      BY <2>2, <2>3
  <1> QED
    BY <1>4, <1>5

\* The host programs write a mint: what they do to its two parts is all they do.
LEMMA MintFollows ==
    ASSUME NEW A, NEW B, NEW ix, NEW d, ix.mint \in Mints, Wrote(A, B, ix.mint, d),
           \A w \in Writes(ix) : w[1] = ix.mint /\ w[2] \in MintPart,
           \A part \in MintPart :
              ValueIn(d, part) = IF Written(ix, ix.mint, part) # {}
                                 THEN Written(ix, ix.mint, part)
                                 ELSE ValueIn(A[ix.mint].data, part),
           NEW m \in Mints, NEW part \in Part
    PROVE  Follows(A, B, ix, m, part)
  <1>1. CASE m = ix.mint /\ part \in MintPart
    <2>1. Holder(m, part) = ix.mint
      BY <1>1, Holders
    <2> QED
      BY <1>1, <2>1 DEF Follows, Wrote
  <1>2. CASE ~(m = ix.mint /\ part \in MintPart)
    <2>1. Holder(m, part) \in Address /\ Holder(m, part) # ix.mint
      BY <1>2, Holders
    <2>2. Written(ix, m, part) = {}
      BY <1>2, NoneWritten
    <2> QED
      BY <2>1, <2>2 DEF Follows, Wrote
  <1> QED
    BY <1>1, <1>2

\* A mint account is created where there was nothing, and holds no part until it is
\* initialised.
LEMMA CreateMintAccountFollows ==
    ASSUME NEW A, Legal(A), NEW S \in SUBSET Keys, NEW ix \in Sent("CreateMintAccount"),
           Passes(CreateMintAccountChecks(A, S, ix)), NEW m \in Mints, NEW part \in Part
    PROVE  Follows(A, CreateMintAccountEffect(A, ix), ix, m, part)
  <1> DEFINE d == [kind |-> "zeroed", len |-> MINT_LEN]
  <1>1. /\ ix.op = "CreateMintAccount" /\ ix.mint \in Mints
        /\ A[ix.mint] = Vacant
        /\ Wrote(A, CreateMintAccountEffect(A, ix), ix.mint, d)
    BY InstructionTypes, CreateMintAccountGuards, OthersWrite DEF Sent, InUse
  <1>2. Writes(ix) = {}
    BY <1>1 DEF Writes
  <1>3. ASSUME NEW q \in MintPart
        PROVE  /\ ValueIn(d, q) = {} /\ ValueIn(A[ix.mint].data, q) = {}
               /\ Written(ix, ix.mint, q) = {}
    <2>1. A[ix.mint].data.kind = "empty" /\ d.kind = "zeroed"
      BY <1>1 DEF Vacant, Empty
    <2> HIDE DEF d
    <2>2. ValueIn(d, q) = {} /\ ValueIn(A[ix.mint].data, q) = {}
      BY <2>1 DEF ValueIn
    <2> QED
      BY <1>2, <2>2, NoneWritten
  <1> HIDE DEF d
  <1> QED
    BY <1>1, <1>2, <1>3, MintFollows

\* InitializeMint2 writes both parts of the mint.
LEMMA InitializeMint2Follows ==
    ASSUME NEW A, Legal(A), NEW S \in SUBSET Keys, NEW ix \in Sent("InitializeMint2"),
           NEW m \in Mints, NEW part \in Part
    PROVE  Follows(A, InitializeMint2Effect(A, ix), ix, m, part)
  <1> DEFINE d == [kind |-> "mint", mint_authority |-> ix.mint_authority,
                   freeze_authority |-> ix.freeze_authority]
  <1>1. /\ ix.op = "InitializeMint2" /\ ix.mint \in Mints
        /\ Wrote(A, InitializeMint2Effect(A, ix), ix.mint, d)
    BY InstructionTypes, OthersWrite DEF Sent
  <1>2. Writes(ix) = {<<ix.mint, q, ix[q]>> : q \in MintPart}
    BY <1>1 DEF Writes
  <1>3. ASSUME NEW q \in MintPart
        PROVE  ValueIn(d, q) = {ix[q]} /\ Written(ix, ix.mint, q) = {ix[q]}
    <2>1. ValueIn(d, q) = {d[q]} /\ d[q] = ix[q]
      BY <1>3 DEF ValueIn, MintPart, Field
    <2>2. <<ix.mint, q, ix[q]>> \in Writes(ix)
      BY <1>2
    <2>3. \A v \in Writes(ix) : v[1] = ix.mint /\ v[2] = q => v[3] = ix[q]
      BY <1>2
    <2> QED
      BY <2>1, <2>2, <2>3, OneWritten
  <1>4. \A w \in Writes(ix) : w[1] = ix.mint /\ w[2] \in MintPart
    BY <1>2
  <1> HIDE DEF d
  <1> QED
    BY <1>1, <1>3, <1>4, MintFollows

\* set_authority writes the mint authority and keeps the freeze authority.
LEMMA SetMintAuthorityFollows ==
    ASSUME NEW A, Legal(A), NEW S \in SUBSET Keys, NEW ix \in Sent("SetMintAuthority"),
           Passes(SetMintAuthorityChecks(A, S, ix)), NEW m \in Mints, NEW part \in Part
    PROVE  Follows(A, SetMintAuthorityEffect(A, ix), ix, m, part)
  <1> DEFINE old == A[ix.mint].data
             d == [old EXCEPT !.mint_authority = ix.new_authority]
  <1>1. /\ ix.op = "SetMintAuthority" /\ ix.mint \in Mints /\ ix.mint \in Address
        /\ HoldsMint(A, ix.mint)
        /\ Wrote(A, SetMintAuthorityEffect(A, ix), ix.mint, d)
    BY InstructionTypes, SetMintAuthorityGuards, DerivedAddresses, OthersWrite DEF Sent
  <1>2. /\ d.kind = "mint" /\ old.kind = "mint"
        /\ d.mint_authority = ix.new_authority
        /\ d.freeze_authority = old.freeze_authority
    BY <1>1, TypedData DEF Legal, Mint, HoldsMint
  <1> HIDE DEF d, old
  <1>3. WritesOnly(ix, <<ix.mint, "mint_authority", ix.new_authority>>)
    BY <1>1 DEF WritesOnly, Writes
  <1>4. ASSUME NEW q \in MintPart
        PROVE  ValueIn(d, q) = IF Written(ix, ix.mint, q) # {} THEN Written(ix, ix.mint, q)
                               ELSE ValueIn(old, q)
    <2>1. CASE q = "mint_authority"
      <3>1. Written(ix, ix.mint, q) = {ix.new_authority}
        BY <1>3, <2>1, OnlyWritten
      <3>2. ValueIn(d, q) = {ix.new_authority}
        BY <1>2, <2>1 DEF ValueIn, MintPart, Field
      <3> QED
        BY <3>1, <3>2
    <2>2. CASE q = "freeze_authority"
      <3>1. Written(ix, ix.mint, q) = {}
        BY <1>3, <2>2 DEF Written, WritesOnly
      <3>2. ValueIn(d, q) = ValueIn(old, q)
        BY <1>2, <2>2 DEF ValueIn, MintPart, Field
      <3> QED
        BY <3>1, <3>2
    <2> QED
      BY <1>4, <2>1, <2>2 DEF MintPart
  <1>5. \A w \in Writes(ix) : w[1] = ix.mint /\ w[2] \in MintPart
    BY <1>3 DEF WritesOnly, MintPart
  <1> QED
    BY <1>1, <1>4, <1>5, MintFollows DEF old

\* What an instruction that does not end the transaction changes in the bank.
LEMMA RunFollows ==
    ASSUME IInv, NEW ix \in Instructions, Run(ix), outcome' \notin Errors,
           NEW m \in Mints, NEW part \in Part
    PROVE  Follows(bank, bank', ix, m, part)
  <1>1. Legal(bank) /\ signers \in SUBSET Keys
    BY DEF IInv, TypeOK
  <1>2. CASE ix.op = "CreateMetadata"
    <2>1. Passes(CreateMetadataChecks(bank, signers, ix)) /\ bank' = CreateMetadataEffect(bank, ix)
      BY <1>2, RunPasses
    <2> QED
      BY <1>1, <1>2, <2>1, CreateMetadataFollows DEF Sent
  <1>3. CASE ix.op = "UpdateMetadata"
    <2>1. Passes(UpdateMetadataChecks(bank, signers, ix)) /\ bank' = UpdateMetadataEffect(bank, ix)
      BY <1>3, RunPasses
    <2> QED
      BY <1>1, <1>3, <2>1, UpdateMetadataFollows DEF Sent
  <1>4. CASE ix.op = "CreateAttributes"
    <2>1. /\ Passes(CreateAttributesChecks(bank, signers, ix))
          /\ bank' = CreateAttributesEffect(bank, ix)
      BY <1>4, RunPasses
    <2> QED
      BY <1>1, <1>4, <2>1, CreateAttributesFollows DEF Sent
  <1>5. CASE ix.op = "ReplaceAttributes"
    <2>1. /\ Passes(ReplaceAttributesChecks(bank, signers, ix))
          /\ bank' = ReplaceAttributesEffect(bank, ix)
      BY <1>5, RunPasses
    <2> QED
      BY <1>1, <1>5, <2>1, ReplaceAttributesFollows DEF Sent
  <1>6. CASE ix.op = "TransferAuthority"
    <2>1. /\ Passes(AuthorityChangeChecks(bank, signers, ix))
          /\ bank' = TransferAuthorityEffect(bank, ix)
      BY <1>6, RunPasses
    <2>2. WritesOnly(ix, <<ix.metadata[2], "update_authority", ix.new_authority>>)
      BY <1>6 DEF WritesOnly, Writes
    <2>3. ix.metadata \in Address /\ HoldsMetadata(bank, ix.metadata)
      BY <1>6, <2>1, InstructionTypes, AuthorityChangeGuards
    <2>4. Wrote(bank, bank', ix.metadata,
                [bank[ix.metadata].data EXCEPT !.update_authority = ix.new_authority])
      BY <1>1, <1>6, <2>1, OthersWrite
    <2> QED
      BY <1>1, <2>2, <2>3, <2>4, AuthorityFollows
  <1>7. CASE ix.op = "MakeImmutable"
    <2>1. /\ Passes(AuthorityChangeChecks(bank, signers, ix))
          /\ bank' = MakeImmutableEffect(bank, ix)
      BY <1>7, RunPasses
    <2>2. WritesOnly(ix, <<ix.metadata[2], "update_authority", NoKey>>)
      BY <1>7 DEF WritesOnly, Writes
    <2>3. ix.metadata \in Address /\ HoldsMetadata(bank, ix.metadata)
      BY <1>7, <2>1, InstructionTypes, AuthorityChangeGuards
    <2>4. Wrote(bank, bank', ix.metadata,
                [bank[ix.metadata].data EXCEPT !.update_authority = NoKey])
      BY <1>1, <1>7, <2>1, OthersWrite
    <2> QED
      BY <1>1, <2>2, <2>3, <2>4, AuthorityFollows
  <1>8. CASE ix.op = "CreateMintAccount"
    <2>1. /\ Passes(CreateMintAccountChecks(bank, signers, ix))
          /\ bank' = CreateMintAccountEffect(bank, ix)
      BY <1>8, RunPasses
    <2> QED
      BY <1>1, <1>8, <2>1, CreateMintAccountFollows DEF Sent
  <1>9. CASE ix.op = "InitializeMint2"
    <2>1. bank' = InitializeMint2Effect(bank, ix)
      BY <1>9, RunPasses
    <2> QED
      BY <1>1, <1>9, <2>1, InitializeMint2Follows DEF Sent
  <1>10. CASE ix.op = "SetMintAuthority"
    <2>1. /\ Passes(SetMintAuthorityChecks(bank, signers, ix))
          /\ bank' = SetMintAuthorityEffect(bank, ix)
      BY <1>10, RunPasses
    <2> QED
      BY <1>1, <1>10, <2>1, SetMintAuthorityFollows DEF Sent
  <1> QED
    BY <1>2, <1>3, <1>4, <1>5, <1>6, <1>7, <1>8, <1>9, <1>10 DEF Run

\* At genesis nothing is committed and no account holds a part of a token.
LEMMA WritesInit == NodeInit => WritesKept
  <1> SUFFICES ASSUME NodeInit PROVE WritesKept
    OBVIOUS
  <1>1. committed = <<>> /\ running = NoTx
    BY DEF NodeInit
  <1>2. ASSUME NEW m \in Mints, NEW part \in Part
        PROVE  LastWritten(committed, m, part) = ValueIn(ledger[Holder(m, part)].data, part)
    <2>1. Holder(m, part) \in Address
      BY Holders
    <2>2. ledger[Holder(m, part)].data = Empty
      BY <2>1 DEF NodeInit, Init, Vacant
    <2>3. ValueIn(ledger[Holder(m, part)].data, part) = {}
      BY <2>2 DEF ValueIn, Empty
    <2>4. Len(committed) = 0
      BY <1>1
    <2>5. LastWritten(committed, m, part) = {}
      BY <2>4, LastOfNext DEF LastWritten
    <2> QED
      BY <2>3, <2>5
  <1> QED
    BY <1>1, <1>2 DEF WritesKept, LastWriteStands, BankFollows

LEMMA WritesNext ==
    ASSUME IInv, NodeTypeOK, WritesKept, [NodeNext]_nodeVars
    PROVE  WritesKept'
  <1> DEFINE Done(tx, n, m, part) == LastIn(tx.instructions, n, m, part)
             Now(m, part) == ValueIn(bank[Holder(m, part)].data, part)
             Was(m, part) == ValueIn(ledger[Holder(m, part)].data, part)
  <1>u. ASSUME ledger' = ledger, committed' = committed
        PROVE  LastWriteStands'
    BY <1>u DEF WritesKept, LastWriteStands
  <1>1. ASSUME NEW tx \in Transactions, Receive(tx) PROVE WritesKept'
    BY <1>u, <1>1 DEF Receive, vars, WritesKept, BankFollows
  <1>2. ASSUME NEW tx \in pending, Start(tx) PROVE WritesKept'
    <2>1. /\ running' = tx /\ committed' = committed /\ ledger' = ledger
          /\ bank' = ledger /\ executed' = 0
      BY <1>2 DEF Start, Begin, IInv
    <2>2. \A m, part : LastIn(tx.instructions, 0, m, part) = {}
      BY LastOfNext DEF LastIn
    <2>3. BankFollows'
      BY <2>1, <2>2 DEF BankFollows
    <2> QED
      BY <1>u, <2>1, <2>3 DEF WritesKept
  <1>3. ASSUME Advance PROVE WritesKept'
    <2> DEFINE ix == running.instructions[executed + 1]
    <2>1. /\ running \in Transactions /\ running # NoTx /\ executed \in Nat
          /\ executed < Len(running.instructions) /\ Run(ix)
          /\ running' = IF outcome' = "open" THEN running ELSE NoTx
          /\ committed' = committed
      BY <1>3, MaxInstructionsAssumption DEF Advance, NodeTypeOK, IInv, TypeOK
    <2>2. ix \in Instructions
      BY <2>1, NextInstruction
    <2>3. ledger' = ledger
      BY <2>1, RunEnds
    <2>4. CASE outcome' \in Errors
      <3>1. running' = NoTx
        BY <2>1, <2>4 DEF Errors
      <3> QED
        BY <1>u, <2>1, <2>3, <3>1 DEF WritesKept, BankFollows
    <2>5. CASE outcome' \notin Errors
      <3>1. outcome' = "open" /\ executed' = executed + 1
        BY <2>1, <2>5, RunEnds DEF Open
      <3>2. running' = running
        BY <2>1, <3>1
      <3>3. ASSUME NEW m \in Mints, NEW part \in Part
            PROVE  ValueIn(bank'[Holder(m, part)].data, part) =
                      IF Done(running, executed + 1, m, part) # {}
                      THEN Done(running, executed + 1, m, part)
                      ELSE Was(m, part)
        <4>1. Follows(bank, bank', ix, m, part)
          BY <2>1, <2>2, <2>5, RunFollows
        <4>2. Done(running, executed + 1, m, part) =
                IF Written(ix, m, part) # {} THEN Written(ix, m, part)
                ELSE Done(running, executed, m, part)
          BY <2>1, LastInNext
        <4>3. Now(m, part) = IF Done(running, executed, m, part) # {}
                             THEN Done(running, executed, m, part) ELSE Was(m, part)
          BY <2>1 DEF WritesKept, BankFollows
        <4> HIDE DEF ix, Done, Was
        <4> QED
          BY <4>1, <4>2, <4>3 DEF Follows
      <3>4. BankFollows'
        BY <2>3, <3>1, <3>2, <3>3 DEF BankFollows
      <3> QED
        BY <1>u, <2>1, <2>3, <3>4 DEF WritesKept
    <2> QED
      BY <2>4, <2>5
  <1>4. ASSUME Finish PROVE WritesKept'
    <2>1. /\ running \in Transactions /\ running # NoTx /\ running' = NoTx
          /\ executed = Len(running.instructions)
          /\ committed' = Append(committed, running) /\ committed \in Seq(Transactions)
          /\ ledger' = bank
      BY <1>4 DEF Finish, NodeTypeOK, Commit
    <2>2. ASSUME NEW m \in Mints, NEW part \in Part
          PROVE  LastWritten(committed', m, part) = ValueIn(ledger'[Holder(m, part)].data, part)
      <3>1. LastWritten(committed', m, part) =
              IF WrittenBy(running, m, part) # {} THEN WrittenBy(running, m, part)
              ELSE LastWritten(committed, m, part)
        BY <2>1, LastWrittenAppend
      <3>2. Now(m, part) = IF WrittenBy(running, m, part) # {}
                           THEN WrittenBy(running, m, part) ELSE Was(m, part)
        BY <2>1 DEF WritesKept, BankFollows, WrittenBy
      <3>3. LastWritten(committed, m, part) = Was(m, part)
        BY DEF WritesKept, LastWriteStands
      <3> QED
        BY <2>1, <3>1, <3>2, <3>3
    <2> QED
      BY <2>1, <2>2 DEF WritesKept, LastWriteStands, BankFollows
  <1>5. CASE UNCHANGED nodeVars
    BY <1>u, <1>5 DEF nodeVars, vars, node, WritesKept, BankFollows
  <1> QED
    BY <1>1, <1>2, <1>3, <1>4, <1>5 DEF NodeNext, Work

\* At every moment the bank of the running transaction is the ledger overwritten by the
\* instructions executed so far, and the ledger what the log says.
THEOREM WritesAccounted == NodeSafety => []WritesKept
  <1>1. IInv /\ NodeTypeOK /\ WritesKept /\ [NodeNext]_nodeVars => WritesKept'
    BY WritesNext
  <1>2. NodeInit => WritesKept
    BY WritesInit
  <1> QED
    BY <1>1, <1>2, NodeInvariants, PTL DEF NodeSafety

\* Each part of each token is what the last committed instruction that names it wrote,
\* whatever was sent, in whatever order, and whatever failed: no write is lost, mixed
\* into another or left over from a transaction that was rolled back.
THEOREM LastCommittedWriteStands == NodeSafety => []LastWriteStands
  <1>1. WritesKept => LastWriteStands
    BY DEF WritesKept
  <1> QED
    BY <1>1, WritesAccounted, PTL

-----------------------------------------------------------------------------
(* What a transaction is refused for *)

\* An instruction that ends its transaction does so with the error of a check that fails,
\* and of none that fails before it.
LEMMA RunFails ==
    ASSUME NEW ix, Run(ix), outcome' \in Errors
    PROVE  /\ ix.op = "CreateMetadata" =>
                LET checks == CreateMetadataChecks(bank, signers, ix)
                IN  ~Passes(checks) /\ outcome' = FirstError(checks)
           /\ ix.op = "UpdateMetadata" =>
                LET checks == UpdateMetadataChecks(bank, signers, ix)
                IN  ~Passes(checks) /\ outcome' = FirstError(checks)
           /\ ix.op = "CreateAttributes" =>
                LET checks == CreateAttributesChecks(bank, signers, ix)
                IN  ~Passes(checks) /\ outcome' = FirstError(checks)
           /\ ix.op = "ReplaceAttributes" =>
                LET checks == ReplaceAttributesChecks(bank, signers, ix)
                IN  ~Passes(checks) /\ outcome' = FirstError(checks)
           /\ ix.op \in {"TransferAuthority", "MakeImmutable"} =>
                LET checks == AuthorityChangeChecks(bank, signers, ix)
                IN  ~Passes(checks) /\ outcome' = FirstError(checks)
           /\ ix.op = "CreateMintAccount" =>
                LET checks == CreateMintAccountChecks(bank, signers, ix)
                IN  ~Passes(checks) /\ outcome' = FirstError(checks)
           /\ ix.op = "InitializeMint2" =>
                LET checks == InitializeMint2Checks(bank, ix)
                IN  ~Passes(checks) /\ outcome' = FirstError(checks)
           /\ ix.op = "SetMintAuthority" =>
                LET checks == SetMintAuthorityChecks(bank, signers, ix)
                IN  ~Passes(checks) /\ outcome' = FirstError(checks)
  <1>1. ASSUME NEW checks, NEW effect, Execute(checks, effect)
        PROVE  ~Passes(checks) /\ outcome' = FirstError(checks)
    BY <1>1 DEF Execute, Succeed, Fail, Open, Errors
  <1>2. ix.op = "CreateMetadata" =>
          LET checks == CreateMetadataChecks(bank, signers, ix)
          IN  ~Passes(checks) /\ outcome' = FirstError(checks)
    BY <1>1 DEF Run, CreateMetadata
  <1>3. ix.op = "UpdateMetadata" =>
          LET checks == UpdateMetadataChecks(bank, signers, ix)
          IN  ~Passes(checks) /\ outcome' = FirstError(checks)
    BY <1>1 DEF Run, UpdateMetadata
  <1>4. ix.op = "CreateAttributes" =>
          LET checks == CreateAttributesChecks(bank, signers, ix)
          IN  ~Passes(checks) /\ outcome' = FirstError(checks)
    BY <1>1 DEF Run, CreateAttributes
  <1>5. ix.op = "ReplaceAttributes" =>
          LET checks == ReplaceAttributesChecks(bank, signers, ix)
          IN  ~Passes(checks) /\ outcome' = FirstError(checks)
    BY <1>1 DEF Run, ReplaceAttributes
  <1>6. ix.op \in {"TransferAuthority", "MakeImmutable"} =>
          LET checks == AuthorityChangeChecks(bank, signers, ix)
          IN  ~Passes(checks) /\ outcome' = FirstError(checks)
    BY <1>1 DEF Run, TransferAuthority, MakeImmutable
  <1>7. ix.op = "CreateMintAccount" =>
          LET checks == CreateMintAccountChecks(bank, signers, ix)
          IN  ~Passes(checks) /\ outcome' = FirstError(checks)
    BY <1>1 DEF Run, CreateMintAccount
  <1>8. ix.op = "InitializeMint2" =>
          LET checks == InitializeMint2Checks(bank, ix)
          IN  ~Passes(checks) /\ outcome' = FirstError(checks)
    BY <1>1 DEF Run, InitializeMint2
  <1>9. ix.op = "SetMintAuthority" =>
          LET checks == SetMintAuthorityChecks(bank, signers, ix)
          IN  ~Passes(checks) /\ outcome' = FirstError(checks)
    BY <1>1 DEF Run, SetMintAuthority
  <1> QED
    BY <1>2, <1>3, <1>4, <1>5, <1>6, <1>7, <1>8, <1>9

TextOps == {"CreateMetadata", "UpdateMetadata"}
EntryOps == {"CreateAttributes", "ReplaceAttributes"}

EntriesRefused(entries) ==
    TooManyEntries(entries) \/ EmptyEntryFirst(entries) \/ SomeEntryTooLong(entries)

Oversize(ix) ==
    \/ ix.op \in TextOps /\ TextTooLong(ix.text)
    \/ ix.op \in EntryOps /\ EntriesRefused(ix.entries)

\* The address a client derives is not that of the mint.
Misaddressed(ix) ==
    \/ ix.op = "CreateMetadata" /\ ix.metadata # MetadataPda(ix.mint)
    \/ ix.op = "CreateAttributes" /\ ix.attributes # AttributesPda(ix.mint)
    \/ ix.op = "ReplaceAttributes" /\ ix.attributes # AttributesPda(ix.metadata[2])

\* A key that must sign has not.
Unsigned(ix, S) ==
    \/ ix.op \in {"CreateMintAccount", "CreateMetadata", "CreateAttributes"} /\ ix.payer \notin S
    \/ ix.op = "CreateMintAccount" /\ ix.mint \notin S
    \/ ix.op \notin {"CreateMintAccount", "InitializeMint2", "CreateMetadata"}
          /\ ix.authority \notin S

OfSizes == {"StringTooLong", "TooManyAttributes", "InvalidInstructionData"}

\* What three kinds of errors say of the instruction that is refused, whatever the accounts:
\* in each table of checks one that fails with such an error fails for what is sent.
RefusedFor(ix, S, error) ==
    /\ error \in OfSizes => Oversize(ix)
    /\ error = "InvalidSeeds" => Misaddressed(ix)
    /\ error = "MissingRequiredSignature" => Unsigned(ix, S)

LEMMA RefusalMeans ==
    ASSUME IInv, NEW ix \in Instructions, Run(ix), outcome' \in Errors
    PROVE  RefusedFor(ix, signers, outcome')
  <1>1. ASSUME NEW n \in Nat, NEW checks, DOMAIN checks = 1..n, ~Passes(checks),
               \A i \in 1..n :
                  /\ checks[i].fails
                  /\ \A j \in 1..n : j < i => ~checks[j].fails
                  => RefusedFor(ix, signers, checks[i].error)
        PROVE  RefusedFor(ix, signers, FirstError(checks))
    BY <1>1, FirstErrorIsOfACheck
  <1>2. CASE ix.op = "CreateMetadata"
    <2> DEFINE checks == CreateMetadataChecks(bank, signers, ix)
    <2>1. DOMAIN checks = 1..12
      BY DEF CreateMetadataChecks
    <2>2. /\ \A i \in 1..12 :
               checks[i].fails /\ checks[i].error \in OfSizes => TextTooLong(ix.text)
          /\ \A i \in 1..12 :
               checks[i].fails /\ checks[i].error = "InvalidSeeds"
                   => ix.metadata # MetadataPda(ix.mint)
          /\ \A i \in 1..12 :
               checks[i].fails /\ checks[i].error = "MissingRequiredSignature"
                   => ix.payer \notin signers
      <3>1. \A i \in 1..12 :
               checks[i].fails /\ checks[i].error \in OfSizes => TextTooLong(ix.text)
        BY DEF CreateMetadataChecks, Check, OfSizes
      <3>2. \A i \in 1..12 :
               checks[i].fails /\ checks[i].error = "InvalidSeeds"
                   => ix.metadata # MetadataPda(ix.mint)
        <4>1. \A i \in 1..12 : checks[i].error = "InvalidSeeds" => i \in {5}
          BY DEF CreateMetadataChecks, Check
        <4>2. checks[5].fails => ix.metadata # MetadataPda(ix.mint)
          BY DEF CreateMetadataChecks, Check
        <4> HIDE DEF checks
        <4> QED
          BY <4>1, <4>2
      <3>3. \A i \in 1..12 :
               checks[i].fails /\ checks[i].error = "MissingRequiredSignature"
                   => ix.payer \notin signers
        <4>1. \A i \in 1..12 : checks[i].error = "MissingRequiredSignature" => i \in {8}
          BY DEF CreateMetadataChecks, Check
        <4>2. checks[8].fails => ix.payer \notin signers
          BY DEF CreateMetadataChecks, Check
        <4> HIDE DEF checks
        <4> QED
          BY <4>1, <4>2
      <3> QED
        BY <3>1, <3>2, <3>3
    <2>3. ~Passes(checks) /\ outcome' = FirstError(checks)
      BY <1>2, RunFails
    <2> HIDE DEF checks
    <2>4. \A i \in 1..12 : checks[i].fails => RefusedFor(ix, signers, checks[i].error)
      BY <1>2, <2>2 DEF RefusedFor, Oversize, Misaddressed, Unsigned, TextOps, EntryOps
    <2> QED
      BY <1>1, <2>1, <2>3, <2>4
  <1>3. CASE ix.op = "UpdateMetadata"
    <2> DEFINE checks == UpdateMetadataChecks(bank, signers, ix)
    <2>1. DOMAIN checks = 1..5
      BY DEF UpdateMetadataChecks
    <2>2. /\ \A i \in 1..5 :
               checks[i].fails /\ checks[i].error \in OfSizes => TextTooLong(ix.text)
          /\ \A i \in 1..5 :
               checks[i].fails /\ checks[i].error = "MissingRequiredSignature"
                   => ix.authority \notin signers
          /\ \A i \in 1..5 : checks[i].error # "InvalidSeeds"
      <3>1. \A i \in 1..5 :
               checks[i].fails /\ checks[i].error \in OfSizes => TextTooLong(ix.text)
        BY DEF UpdateMetadataChecks, Check, OfSizes
      <3>2. \A i \in 1..5 :
               checks[i].fails /\ checks[i].error = "MissingRequiredSignature"
                   => ix.authority \notin signers
        <4>1. \A i \in 1..5 : checks[i].error = "MissingRequiredSignature" => i \in {1}
          BY DEF UpdateMetadataChecks, Check
        <4>2. checks[1].fails => ix.authority \notin signers
          BY DEF UpdateMetadataChecks, Check
        <4> HIDE DEF checks
        <4> QED
          BY <4>1, <4>2
      <3>3. \A i \in 1..5 : checks[i].error # "InvalidSeeds"
        BY DEF UpdateMetadataChecks, Check, OfSizes
      <3> QED
        BY <3>1, <3>2, <3>3
    <2>3. ~Passes(checks) /\ outcome' = FirstError(checks)
      BY <1>3, RunFails
    <2> HIDE DEF checks
    <2>4. \A i \in 1..5 : checks[i].fails => RefusedFor(ix, signers, checks[i].error)
      BY <1>3, <2>2 DEF RefusedFor, Oversize, Misaddressed, Unsigned, TextOps, EntryOps
    <2> QED
      BY <1>1, <2>1, <2>3, <2>4
  <1>4. CASE ix.op = "CreateAttributes"
    <2> DEFINE checks == CreateAttributesChecks(bank, signers, ix)
    <2>1. DOMAIN checks = 1..14
      BY DEF CreateAttributesChecks
    <2>2. /\ \A i \in 1..14 :
               checks[i].fails /\ checks[i].error \in OfSizes => EntriesRefused(ix.entries)
          /\ \A i \in 1..14 :
               checks[i].fails /\ checks[i].error = "InvalidSeeds"
                   => ix.attributes # AttributesPda(ix.mint)
          /\ \A i \in 1..14 :
               checks[i].fails /\ checks[i].error = "MissingRequiredSignature"
                   => (ix.payer \notin signers \/ ix.authority \notin signers)
      <3>1. \A i \in 1..14 :
               checks[i].fails /\ checks[i].error \in OfSizes => EntriesRefused(ix.entries)
        BY DEF CreateAttributesChecks, Check, OfSizes, EntriesRefused
      <3>2. \A i \in 1..14 :
               checks[i].fails /\ checks[i].error = "InvalidSeeds"
                   => ix.attributes # AttributesPda(ix.mint)
        <4>1. \A i \in 1..14 : checks[i].error = "InvalidSeeds" => i \in {2}
          BY DEF CreateAttributesChecks, Check
        <4>2. checks[2].fails => ix.attributes # AttributesPda(ix.mint)
          BY DEF CreateAttributesChecks, Check
        <4> HIDE DEF checks
        <4> QED
          BY <4>1, <4>2
      <3>3. \A i \in 1..14 :
               checks[i].fails /\ checks[i].error = "MissingRequiredSignature"
                   => (ix.payer \notin signers \/ ix.authority \notin signers)
        <4>1. \A i \in 1..14 : checks[i].error = "MissingRequiredSignature" => i \in {1, 9}
          BY DEF CreateAttributesChecks, Check
        <4>2. checks[1].fails => (ix.payer \notin signers \/ ix.authority \notin signers)
          BY DEF CreateAttributesChecks, Check
        <4>3. checks[9].fails => (ix.payer \notin signers \/ ix.authority \notin signers)
          BY DEF CreateAttributesChecks, Check
        <4> HIDE DEF checks
        <4> QED
          BY <4>1, <4>2, <4>3
      <3> QED
        BY <3>1, <3>2, <3>3
    <2>3. ~Passes(checks) /\ outcome' = FirstError(checks)
      BY <1>4, RunFails
    <2> HIDE DEF checks
    <2>4. \A i \in 1..14 : checks[i].fails => RefusedFor(ix, signers, checks[i].error)
      BY <1>4, <2>2 DEF RefusedFor, Oversize, Misaddressed, Unsigned, TextOps, EntryOps
    <2> QED
      BY <1>1, <2>1, <2>3, <2>4
  <1>5. CASE ix.op = "ReplaceAttributes"
    <2> DEFINE checks == ReplaceAttributesChecks(bank, signers, ix)
    <2>1. DOMAIN checks = 1..9
      BY DEF ReplaceAttributesChecks
    <2>2. /\ \A i \in 1..9 :
               checks[i].fails /\ checks[i].error \in OfSizes => EntriesRefused(ix.entries)
          /\ \A i \in 1..9 : checks[i].error = "InvalidSeeds" => i = 4
          /\ \A i \in 1..9 :
               checks[i].fails /\ checks[i].error = "MissingRequiredSignature"
                   => ix.authority \notin signers
          /\ checks[2].fails <=> ~HoldsMetadata(bank, ix.metadata)
          /\ checks[4].fails <=> ix.attributes # AttributesOf(bank, ix.metadata)
      <3>1. \A i \in 1..9 :
               checks[i].fails /\ checks[i].error \in OfSizes => EntriesRefused(ix.entries)
        BY DEF ReplaceAttributesChecks, Check, OfSizes, EntriesRefused
      <3>2. \A i \in 1..9 : checks[i].error = "InvalidSeeds" => i = 4
        BY DEF ReplaceAttributesChecks, Check, OfSizes, EntriesRefused
      <3>3. \A i \in 1..9 :
               checks[i].fails /\ checks[i].error = "MissingRequiredSignature"
                   => ix.authority \notin signers
        <4>1. \A i \in 1..9 : checks[i].error = "MissingRequiredSignature" => i \in {1}
          BY DEF ReplaceAttributesChecks, Check
        <4>2. checks[1].fails => ix.authority \notin signers
          BY DEF ReplaceAttributesChecks, Check
        <4> HIDE DEF checks
        <4> QED
          BY <4>1, <4>2
      <3>4. checks[2].fails <=> ~HoldsMetadata(bank, ix.metadata)
        BY DEF ReplaceAttributesChecks, Check, OfSizes, EntriesRefused
      <3>5. checks[4].fails <=> ix.attributes # AttributesOf(bank, ix.metadata)
        BY DEF ReplaceAttributesChecks, Check, OfSizes, EntriesRefused
      <3> QED
        BY <3>1, <3>2, <3>3, <3>4, <3>5
    <2>3. ~Passes(checks) /\ outcome' = FirstError(checks)
      BY <1>5, RunFails
    <2> HIDE DEF checks
    <2>4. ASSUME checks[4].fails, ~checks[2].fails PROVE Misaddressed(ix)
      <3>1. HoldsMetadata(bank, ix.metadata) /\ ix.metadata \in Address
        BY <1>5, <2>2, <2>4, InstructionTypes
      <3>2. ix.metadata = MetadataPda(bank[ix.metadata].data.mint)
        BY <3>1, MetadataInPlace DEF IInv
      <3>3. ix.metadata[2] = bank[ix.metadata].data.mint
        BY <3>2 DEF MetadataPda
      <3>4. ix.attributes # AttributesPda(ix.metadata[2])
        BY <2>2, <2>4, <3>1, <3>3 DEF AttributesOf
      <3> QED
        BY <1>5, <3>4 DEF Misaddressed
    <2>5. \A i \in 1..9 :
             /\ checks[i].fails
             /\ \A j \in 1..9 : j < i => ~checks[j].fails
             => RefusedFor(ix, signers, checks[i].error)
      <3>1. ASSUME NEW i \in 1..9, checks[i].fails, \A j \in 1..9 : j < i => ~checks[j].fails
            PROVE  RefusedFor(ix, signers, checks[i].error)
        <4>1. i = 4 => ~checks[2].fails
          BY <3>1
        <4>2. checks[i].error = "InvalidSeeds" => Misaddressed(ix)
          BY <2>2, <2>4, <3>1, <4>1
        <4> QED
          BY <1>5, <2>2, <3>1, <4>2 DEF RefusedFor, Oversize, Unsigned, TextOps, EntryOps
      <3> QED
        BY <3>1
    <2> QED
      BY <1>1, <2>1, <2>3, <2>5
  <1>6. CASE ix.op \in {"TransferAuthority", "MakeImmutable"}
    <2> DEFINE checks == AuthorityChangeChecks(bank, signers, ix)
    <2>1. DOMAIN checks = 1..3
      BY DEF AuthorityChangeChecks
    <2>2. /\ \A i \in 1..3 :
               checks[i].fails /\ checks[i].error = "MissingRequiredSignature"
                   => ix.authority \notin signers
          /\ \A i \in 1..3 : checks[i].error \notin OfSizes /\ checks[i].error # "InvalidSeeds"
      <3>1. \A i \in 1..3 :
               checks[i].fails /\ checks[i].error = "MissingRequiredSignature"
                   => ix.authority \notin signers
        <4>1. \A i \in 1..3 : checks[i].error = "MissingRequiredSignature" => i \in {1}
          BY DEF AuthorityChangeChecks, Check
        <4>2. checks[1].fails => ix.authority \notin signers
          BY DEF AuthorityChangeChecks, Check
        <4> HIDE DEF checks
        <4> QED
          BY <4>1, <4>2
      <3>2. \A i \in 1..3 : checks[i].error \notin OfSizes /\ checks[i].error # "InvalidSeeds"
        BY DEF AuthorityChangeChecks, Check, OfSizes
      <3> QED
        BY <3>1, <3>2
    <2>3. ~Passes(checks) /\ outcome' = FirstError(checks)
      BY <1>6, RunFails
    <2> HIDE DEF checks
    <2>4. \A i \in 1..3 : checks[i].fails => RefusedFor(ix, signers, checks[i].error)
      BY <1>6, <2>2 DEF RefusedFor, Oversize, Misaddressed, Unsigned, TextOps, EntryOps
    <2> QED
      BY <1>1, <2>1, <2>3, <2>4
  <1>7. CASE ix.op = "CreateMintAccount"
    <2> DEFINE checks == CreateMintAccountChecks(bank, signers, ix)
    <2>1. DOMAIN checks = 1..3
      BY DEF CreateMintAccountChecks
    <2>2. /\ \A i \in 1..3 :
               checks[i].fails /\ checks[i].error = "MissingRequiredSignature"
                   => (ix.payer \notin signers \/ ix.mint \notin signers)
          /\ \A i \in 1..3 : checks[i].error \notin OfSizes /\ checks[i].error # "InvalidSeeds"
      <3>1. \A i \in 1..3 :
               checks[i].fails /\ checks[i].error = "MissingRequiredSignature"
                   => (ix.payer \notin signers \/ ix.mint \notin signers)
        <4>1. \A i \in 1..3 : checks[i].error = "MissingRequiredSignature" => i \in {1}
          BY DEF CreateMintAccountChecks, Check
        <4>2. checks[1].fails => (ix.payer \notin signers \/ ix.mint \notin signers)
          BY DEF CreateMintAccountChecks, Check
        <4> HIDE DEF checks
        <4> QED
          BY <4>1, <4>2
      <3>2. \A i \in 1..3 : checks[i].error \notin OfSizes /\ checks[i].error # "InvalidSeeds"
        BY DEF CreateMintAccountChecks, Check, OfSizes
      <3> QED
        BY <3>1, <3>2
    <2>3. ~Passes(checks) /\ outcome' = FirstError(checks)
      BY <1>7, RunFails
    <2> HIDE DEF checks
    <2>4. \A i \in 1..3 : checks[i].fails => RefusedFor(ix, signers, checks[i].error)
      BY <1>7, <2>2 DEF RefusedFor, Oversize, Misaddressed, Unsigned, TextOps, EntryOps
    <2> QED
      BY <1>1, <2>1, <2>3, <2>4
  <1>8. CASE ix.op = "InitializeMint2"
    <2> DEFINE checks == InitializeMint2Checks(bank, ix)
    <2>1. DOMAIN checks = 1..2
      BY DEF InitializeMint2Checks
    <2>2. \A i \in 1..2 : checks[i].fails => RefusedFor(ix, signers, checks[i].error)
      BY DEF InitializeMint2Checks, Check, RefusedFor, OfSizes
    <2>3. ~Passes(checks) /\ outcome' = FirstError(checks)
      BY <1>8, RunFails
    <2> HIDE DEF checks
    <2> QED
      BY <1>1, <2>1, <2>2, <2>3
  <1>9. CASE ix.op = "SetMintAuthority"
    <2> DEFINE checks == SetMintAuthorityChecks(bank, signers, ix)
    <2>1. DOMAIN checks = 1..4
      BY DEF SetMintAuthorityChecks
    <2>2. /\ \A i \in 1..4 :
               checks[i].fails /\ checks[i].error = "MissingRequiredSignature"
                   => ix.authority \notin signers
          /\ \A i \in 1..4 : checks[i].error \notin OfSizes /\ checks[i].error # "InvalidSeeds"
      <3>1. \A i \in 1..4 :
               checks[i].fails /\ checks[i].error = "MissingRequiredSignature"
                   => ix.authority \notin signers
        <4>1. \A i \in 1..4 : checks[i].error = "MissingRequiredSignature" => i \in {4}
          BY DEF SetMintAuthorityChecks, Check
        <4>2. checks[4].fails => ix.authority \notin signers
          BY DEF SetMintAuthorityChecks, Check
        <4> HIDE DEF checks
        <4> QED
          BY <4>1, <4>2
      <3>2. \A i \in 1..4 : checks[i].error \notin OfSizes /\ checks[i].error # "InvalidSeeds"
        BY DEF SetMintAuthorityChecks, Check, OfSizes
      <3> QED
        BY <3>1, <3>2
    <2>3. ~Passes(checks) /\ outcome' = FirstError(checks)
      BY <1>9, RunFails
    <2> HIDE DEF checks
    <2>4. \A i \in 1..4 : checks[i].fails => RefusedFor(ix, signers, checks[i].error)
      BY <1>9, <2>2 DEF RefusedFor, Oversize, Misaddressed, Unsigned, TextOps, EntryOps
    <2> QED
      BY <1>1, <2>1, <2>3, <2>4
  <1> QED
    BY <1>2, <1>3, <1>4, <1>5, <1>6, <1>7, <1>8, <1>9 DEF Run

\* What a handler measures is a text or a vector of entries.
LEMMA MeasuredTyped ==
    ASSUME NEW ix \in Instructions
    PROVE  /\ ix.op \in TextOps => ix.text \in PartialText
           /\ ix.op \in EntryOps => ix.entries \in Seq(Entry)
  <1>1. ASSUME NEW text \in [Field -> Text] PROVE text \in PartialText
    BY <1>1 DEF PartialText
  <1> HIDE DEF PartialText
  <1> QED
    BY <1>1, InstructionsAssumption DEF Instruction, TextOps, EntryOps

-----------------------------------------------------------------------------
(* What the clients' validators let through *)

FieldBounds == \A f \in Field : FieldMaxLen[f] \in Nat

\* The caps are numbers.
LEMMA FieldsBounded == FieldBounds
  BY DEF FieldBounds, Field, FieldMaxLen, NAME_MAX_LEN, SYMBOL_MAX_LEN, IMAGE_MAX_LEN,
         DESCRIPTION_MAX_LEN

\* The validators of texts accept exactly what the handlers' size check lets through.
THEOREM MetadataValidatorExact ==
    ASSUME NEW text \in PartialText
    PROVE  validate_metadata_fields(text) <=> ~TextTooLong(text)
  <1>1. ASSUME NEW f \in DOMAIN text PROVE ByteLen[text[f]] \in Nat /\ FieldMaxLen[f] \in Nat
    BY TextAssumption, FieldsBounded DEF PartialText, FieldBounds
  <1> QED
    BY <1>1 DEF validate_metadata_fields, TextTooLong

\* How the validators and the handlers say the same of a length.
LEMMA Between ==
    ASSUME NEW n \in Nat, NEW max \in Nat
    PROVE  n \in 1..max <=> ~(n = 0) /\ ~(n > max)
  OBVIOUS

\* The validator of attributes accepts exactly what the handlers' element loop does.
THEOREM AttributesValidatorExact ==
    ASSUME NEW entries \in Seq(Entry)
    PROVE  validate_attributes(entries) <=> ~EntriesRefused(entries)
  <1> DEFINE k(i) == ByteLen[entries[i][1]]
             v(i) == ByteLen[entries[i][2]]
  <1>1. ASSUME NEW i \in DOMAIN entries PROVE k(i) \in Nat /\ v(i) \in Nat
    <2>1. entries[i] \in Text \X Text
      BY DEF Entry
    <2> QED
      BY <2>1, TextAssumption
  <1>2. ASSUME NEW i \in DOMAIN entries, EntryEmpty(entries[i]),
               \A j \in DOMAIN entries : ~EntryTooLong(entries[j])
        PROVE  EmptyEntryFirst(entries)
    BY <1>2 DEF EmptyEntryFirst
  <1>3. ASSUME NEW i \in DOMAIN entries
        PROVE  /\ EntryEmpty(entries[i]) <=> k(i) = 0 \/ v(i) = 0
               /\ EntryTooLong(entries[i]) <=> k(i) > MAX_KEY_LENGTH \/ v(i) > MAX_VALUE_LENGTH
    BY DEF EntryEmpty, EntryTooLong
  <1>4. ASSUME NEW i \in DOMAIN entries
        PROVE  k(i) \in 1..MAX_KEY_LENGTH /\ v(i) \in 1..MAX_VALUE_LENGTH
                 <=> ~EntryEmpty(entries[i]) /\ ~EntryTooLong(entries[i])
    <2>1. k(i) \in Nat /\ v(i) \in Nat
      BY <1>1
    <2> HIDE DEF k, v
    <2>2. /\ k(i) \in 1..MAX_KEY_LENGTH <=> ~(k(i) = 0) /\ ~(k(i) > MAX_KEY_LENGTH)
          /\ v(i) \in 1..MAX_VALUE_LENGTH <=> ~(v(i) = 0) /\ ~(v(i) > MAX_VALUE_LENGTH)
      BY <2>1, Between DEF MAX_KEY_LENGTH, MAX_VALUE_LENGTH
    <2> QED
      BY <1>3, <2>2
  <1>5. validate_attributes(entries)
          <=> /\ ~TooManyEntries(entries)
              /\ \A i \in DOMAIN entries : ~EntryEmpty(entries[i]) /\ ~EntryTooLong(entries[i])
    <2>1. Len(entries) <= MAX_ATTRIBUTES <=> ~TooManyEntries(entries)
      BY DEF TooManyEntries, MAX_ATTRIBUTES
    <2> QED
      BY <1>4, <2>1 DEF validate_attributes
  <1> HIDE DEF k, v
  <1>6. EmptyEntryFirst(entries) => \E i \in DOMAIN entries : EntryEmpty(entries[i])
    BY DEF EmptyEntryFirst
  <1>7. SomeEntryTooLong(entries) <=> \E i \in DOMAIN entries : EntryTooLong(entries[i])
    BY DEF SomeEntryTooLong
  <1> HIDE DEF EmptyEntryFirst, SomeEntryTooLong
  <1> QED
    BY <1>2, <1>5, <1>6, <1>7 DEF EntriesRefused
=============================================================================
