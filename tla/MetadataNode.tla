----------------------------- MODULE MetadataNode -----------------------------
(***************************************************************************)
(* A node that executes the signed transactions clients send it: it takes  *)
(* them in any order, one at a time, runs their instructions as            *)
(* MetadataLedger says and remembers how each one ended.  It is not in the *)
(* repository; the CLI, the tour and the tests use it through              *)
(* send_transaction and wait_for_processed_transaction.                    *)
(***************************************************************************)
EXTENDS MetadataLedger

CONSTANTS
    Transactions,     \* the transactions clients may send, records with `signers',
                      \* `instructions' and whatever else tells them apart
    NoTx,             \* none
    MaxPending        \* bound: transactions waiting at the same time

\* Two transactions alike in all else differ in their sender, which stands for their
\* blockhash and signatures: the node executes each transaction at most once.
ASSUME TransactionsAssumption ==
    /\ NoTx \notin Transactions
    /\ \A tx \in Transactions :
          /\ tx.signers \in SUBSET Keys
          /\ tx.instructions \in Seq(Instructions)
          /\ Len(tx.instructions) \in 1..MaxInstructions

VARIABLES
    pending,      \* transactions received and not yet started
    running,      \* the transaction being executed
    committed,    \* the transactions processed, in their order
    failed        \* the transactions that failed

node == <<pending, running, committed, failed>>
nodeVars == <<vars, node>>

NodeInit ==
    /\ Init
    /\ pending = {}
    /\ running = NoTx
    /\ committed = <<>>
    /\ failed = {}

\* Mutant of Status: a transaction counts as processed once its instructions have run.
StatusBeforeCommit(tx) ==
    IF \/ \E i \in DOMAIN committed : committed[i] = tx
       \/ running = tx /\ executed = Len(tx.instructions)
    THEN "Processed" ELSE IF tx \in failed THEN "Failed" ELSE "none"

\* How a transaction ended, as wait_for_processed_transaction reports it.
Status(tx) ==
    IF \E i \in DOMAIN committed : committed[i] = tx THEN "Processed"
    ELSE IF tx \in failed THEN "Failed"
    ELSE "none"

Decided(tx) == Status(tx) # "none"

-----------------------------------------------------------------------------

\* Mutant of Receive: a transaction that is already decided is taken again.
ReceiveAgain(tx) ==
    /\ Cardinality(pending) < MaxPending
    /\ pending' = pending \cup {tx}
    /\ UNCHANGED <<vars, running, committed, failed>>

\* send_transaction: the transaction has reached the node.
Receive(tx) ==
    /\ tx # running /\ ~Decided(tx)
    /\ Cardinality(pending) < MaxPending
    /\ pending' = pending \cup {tx}
    /\ UNCHANGED <<vars, running, committed, failed>>

Start(tx) ==
    /\ running = NoTx
    /\ pending' = pending \ {tx}
    /\ running' = tx
    /\ Begin(tx.signers)
    /\ UNCHANGED <<committed, failed>>

\* The handler of one instruction: Processor::process and the host programs.
Run(ix) ==
    \/ ix.op = "CreateMetadata" /\ CreateMetadata(ix)
    \/ ix.op = "UpdateMetadata" /\ UpdateMetadata(ix)
    \/ ix.op = "CreateAttributes" /\ CreateAttributes(ix)
    \/ ix.op = "ReplaceAttributes" /\ ReplaceAttributes(ix)
    \/ ix.op = "TransferAuthority" /\ TransferAuthority(ix)
    \/ ix.op = "MakeImmutable" /\ MakeImmutable(ix)
    \/ ix.op = "CreateMintAccount" /\ CreateMintAccount(ix)
    \/ ix.op = "InitializeMint2" /\ InitializeMint2(ix)
    \/ ix.op = "SetMintAuthority" /\ SetMintAuthority(ix)

\* Mutant of Advance: the node stays with a transaction that failed.
AdvanceOnly ==
    /\ running # NoTx
    /\ executed < Len(running.instructions)
    /\ Run(running.instructions[executed + 1])
    /\ UNCHANGED node

\* The next instruction of the running transaction; an error ends the transaction.
Advance ==
    /\ running # NoTx
    /\ executed < Len(running.instructions)
    /\ Run(running.instructions[executed + 1])
    /\ running' = IF outcome' = "open" THEN running ELSE NoTx
    /\ failed' = IF outcome' = "open" THEN failed ELSE failed \cup {running}
    /\ UNCHANGED <<pending, committed>>

Finish ==
    /\ running # NoTx
    /\ executed = Len(running.instructions)
    /\ Commit
    /\ running' = NoTx
    /\ committed' = Append(committed, running)
    /\ UNCHANGED <<pending, failed>>

Work ==
    \/ \E tx \in pending : Start(tx)
    \/ Advance
    \/ Finish

NodeNext == Work \/ \E tx \in Transactions : Receive(tx)

NodeSafety == NodeInit /\ [][NodeNext]_nodeVars

\* The node keeps working while it has something to do.
NodeSpec == NodeSafety /\ WF_nodeVars(Work)

-----------------------------------------------------------------------------
(* Properties *)

\* What the node holds are transactions, and each is in one place only, so that none is
\* executed twice; the one running has signed the open transaction of the ledger.
NodeTypeOK ==
    /\ pending \in SUBSET Transactions
    /\ failed \in SUBSET Transactions
    /\ committed \in Seq(Transactions)
    /\ running \in Transactions \cup {NoTx}
    /\ running # NoTx <=> Open
    /\ running # NoTx => signers = running.signers /\ ~Decided(running)
    /\ \A tx \in pending : tx # running /\ ~Decided(tx)
    /\ \A i, j \in DOMAIN committed : committed[i] = committed[j] => i = j
    /\ \A i \in DOMAIN committed : committed[i] \notin failed

-----------------------------------------------------------------------------
(* What the log of committed transactions says of a token *)

\* The parts of a token, by the accounts that hold them.
MintPart == {"mint_authority", "freeze_authority"}
MetadataPart == Field \cup {"update_authority"}
TokenPart == MetadataPart \cup {"attributes"}
Part == MintPart \cup TokenPart

\* The mint, the part of its token and the value an instruction writes.
Writes(ix) ==
    CASE ix.op = "CreateMetadata" ->
           {<<ix.mint, f, ix.text[f]>> : f \in Field}
             \cup {<<ix.mint, "update_authority",
                     IF ix.immutable THEN NoKey ELSE ix.authority>>}
      [] ix.op = "UpdateMetadata" ->
           {<<ix.metadata[2], f, ix.text[f]>> : f \in DOMAIN ix.text}
      [] ix.op = "CreateAttributes" -> {<<ix.mint, "attributes", ix.entries>>}
      [] ix.op = "ReplaceAttributes" -> {<<ix.metadata[2], "attributes", ix.entries>>}
      [] ix.op = "TransferAuthority" ->
           {<<ix.metadata[2], "update_authority", ix.new_authority>>}
      [] ix.op = "MakeImmutable" -> {<<ix.metadata[2], "update_authority", NoKey>>}
      [] ix.op = "InitializeMint2" -> {<<ix.mint, part, ix[part]>> : part \in MintPart}
      [] ix.op = "SetMintAuthority" -> {<<ix.mint, "mint_authority", ix.new_authority>>}
      [] OTHER -> {}

Written(ix, m, part) == {w[3] : w \in {v \in Writes(ix) : v[1] = m /\ v[2] = part}}

\* Of n sets, the last that is not empty; empty when all are.
LastOf(values, n) ==
    UNION {values[j] : j \in {i \in 1..n : \A k \in (i + 1)..n : values[k] = {}}}

\* The value the first n instructions write last, in a set, empty when they write none.
LastIn(ixs, n, m, part) == LastOf([j \in DOMAIN ixs |-> Written(ixs[j], m, part)], n)

WrittenBy(tx, m, part) == LastIn(tx.instructions, Len(tx.instructions), m, part)

\* Likewise for the transactions of a log.
LastWritten(log, m, part) ==
    LastOf([i \in DOMAIN log |-> WrittenBy(log[i], m, part)], Len(log))

Holder(m, part) ==
    CASE part \in MintPart -> m
      [] part = "attributes" -> AttributesPda(m)
      [] OTHER -> MetadataPda(m)

\* The value of that part in the data of an account, likewise in a set.
ValueIn(data, part) ==
    CASE data.kind = "attributes" /\ part = "attributes" -> {data.entries}
      [] data.kind = "metadata" /\ part = "update_authority" -> {data.update_authority}
      [] data.kind = "metadata" /\ part \in Field -> {data.text[part]}
      [] data.kind = "mint" /\ part \in MintPart -> {data[part]}
      [] OTHER -> {}

\* Every part of a token, its mint included, is what the last committed instruction that
\* names it wrote:
\* a partial update keeps the other fields as they are when it runs, whatever its
\* client had read, of two writers of one part the later wins, and a transaction that
\* failed, or a part never named, leaves no trace.
LastWriteStands ==
    \A m \in Mints, part \in Part :
        LastWritten(committed, m, part) = ValueIn(ledger[Holder(m, part)].data, part)

\* What makes LastWriteStands inductive: each part of a token in the bank is what the
\* instructions executed so far wrote last, or the ledger's if they do not name it.
BankFollows ==
    running # NoTx =>
        \A m \in Mints, part \in Part :
            LET done == LastIn(running.instructions, executed, m, part)
            IN  ValueIn(bank[Holder(m, part)].data, part) =
                   IF done # {} THEN done ELSE ValueIn(ledger[Holder(m, part)].data, part)

WritesKept == LastWriteStands /\ BankFollows

CreatesMetadataOf(m, tx) ==
    \E i \in DOMAIN tx.instructions :
        tx.instructions[i].op = "CreateMetadata" /\ tx.instructions[i].mint = m

\* However often and by whomever the creation of a token's metadata is sent, or sent
\* again because its answer was lost, it is committed once, and then the token exists.
CreatedOnce ==
    \A m \in Mints :
        Cardinality({i \in DOMAIN committed : CreatesMetadataOf(m, committed[i])})
          = IF MetadataExists(ledger, m) THEN 1 ELSE 0

\* What makes CreatedOnce inductive: the metadata in the bank is the ledger's and that
\* of the creations among the instructions executed so far, none of which found any.
CreatesIn(m, ixs, n) == \E i \in 1..n : ixs[i].op = "CreateMetadata" /\ ixs[i].mint = m

CreationsKept ==
    \A m \in Mints :
        /\ MetadataExists(ledger, m) <=>
              \E i \in DOMAIN committed : CreatesMetadataOf(m, committed[i])
        /\ \A i, j \in DOMAIN committed :
              CreatesMetadataOf(m, committed[i]) /\ CreatesMetadataOf(m, committed[j]) => i = j
        /\ running # NoTx =>
              LET created == CreatesIn(m, running.instructions, executed)
              IN  /\ executed <= Len(running.instructions)
                  /\ MetadataExists(bank, m) <=> MetadataExists(ledger, m) \/ created
                  /\ ~(MetadataExists(ledger, m) /\ created)

\* Every transaction the node has received is decided.
AllDecided == \A tx \in Transactions : tx \in pending ~> Decided(tx)
=============================================================================
