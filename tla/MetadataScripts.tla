---------------------------- MODULE MetadataScripts ----------------------------
(***************************************************************************)
(* Programs that run one sequence against the node and stop at the first   *)
(* thing that goes wrong: the Rust tour, which creates a whole token in    *)
(* one transaction, and the program tests, whose helper creates the mint   *)
(* in a transaction of its own before the metadata.  Each generates a      *)
(* fresh mint, waits for every transaction to be processed before it goes  *)
(* on, and at the end compares what it reads with what it asked for.       *)
(***************************************************************************)
EXTENDS MetadataNode, TokenMetadataClient

CONSTANTS
    Scripts,      \* the programs that run
    Script,       \* Script[s]: its kind, payer, text, entries and budget
    Fresh,        \* the keys scripts generate for their mints
    NoMint,       \* before a mint has been generated
    Absent        \* what a read that finds nothing, or fails, returns

ASSUME ScriptAssumption ==
    \A s \in Scripts : Script[s].kind \in {"tour", "test"} /\ Script[s].payer \in Wallets

ASSUME FreshAssumption == Fresh \subseteq Mints /\ NoMint \notin Mints

ASSUME AbsentAssumption == Absent \notin AccountData

VARIABLES
    stage,        \* stage[s]: how far script s has come
    step,         \* step[s]: which of its transactions it is at
    mint,         \* mint[s]: the mint it generated
    found,        \* found[s]: what it has read back
    lost          \* the scripts one of whose reads failed

scripts == <<stage, step, mint, found, lost>>
scriptVars == <<nodeVars, scripts>>

-----------------------------------------------------------------------------

\* The tests' create_and_init_mint_instructions.
create_and_init_mint_instructions(payer, m, k, freeze) ==
    <<create_mint_account_ix(payer, m), initialize_mint2_ix(m, k, freeze)>>

\* The tests' build_create_metadata_ix, which runs no validators.
build_create_metadata_ix(payer, m, k, text, immutable) ==
    create_metadata_ix(payer, m, k, text, immutable)

\* The tour's one transaction.
tour_instructions(payer, m, text, entries) == <<
    create_mint_account_ix(payer, m),
    initialize_mint2_ix(m, payer, NoKey),
    create_metadata_ix(payer, m, payer, text, FALSE),
    create_attributes_ix(payer, m, payer, entries)
>>

Signed(s, keys, instructions) ==
    [sender |-> s, signers |-> keys, prelude |-> compute_budget_ixs(Script[s].budget),
     instructions |-> instructions]

\* Mutant of Sequence: the tour creates the attributes in a transaction of their own.
SequencePerAccount(s, m) ==
    LET c == Script[s]
        ixs == tour_instructions(c.payer, m, c.text, c.entries)
    IN  <<Signed(s, {c.payer, m}, SubSeq(ixs, 1, 3)),
          Signed(s, {c.payer, m}, SubSeq(ixs, 4, 4))>>

\* Mutant of Sequence: a test initialises its mint with the metadata, not when it creates it.
SequenceMintOpen(s, m) ==
    LET c == Script[s]
        create == create_metadata_ix(c.payer, m, c.payer, c.text, FALSE)
        ixs == IF c.kind = "tour" THEN tour_instructions(c.payer, m, c.text, c.entries)
               ELSE Append(create_and_init_mint_instructions(c.payer, m, c.payer, NoKey), create)
    IN  IF c.kind = "tour" THEN <<Signed(s, {c.payer, m}, ixs)>>
        ELSE <<Signed(s, {c.payer, m}, SubSeq(ixs, 1, 1)),
               Signed(s, {c.payer}, SubSeq(ixs, 2, 3))>>

\* The transactions of a script, in order.
Sequence(s, m) ==
    LET c == Script[s]
        keys == {c.payer, m}
    IN  IF c.kind = "tour"
        THEN <<Signed(s, keys, tour_instructions(c.payer, m, c.text, c.entries))>>
        ELSE <<Signed(s, keys, create_and_init_mint_instructions(c.payer, m, c.payer, NoKey)),
               Signed(s, {c.payer},
                      <<build_create_metadata_ix(c.payer, m, c.payer, c.text, FALSE)>>)>>

ASSUME ScriptsAssumption ==
    \A s \in Scripts, m \in Mints : ToSet(Sequence(s, m)) \subseteq Transactions

Current(s) == Sequence(s, mint[s])[step[s]]

ScriptsInit ==
    /\ NodeInit
    /\ stage = [s \in Scripts |-> "idle"]
    /\ step = [s \in Scripts |-> 1]
    /\ mint = [s \in Scripts |-> NoMint]
    /\ found = [s \in Scripts |-> <<>>]
    /\ lost = {}

Moves(s, from, to) ==
    /\ stage[s] = from
    /\ stage' = [stage EXCEPT ![s] = to]

Generate(s) ==
    /\ Moves(s, "idle", "built")
    /\ \E m \in Fresh \ {mint[r] : r \in Scripts} : mint' = [mint EXCEPT ![s] = m]
    /\ UNCHANGED <<nodeVars, step, found, lost>>

Send(s) ==
    /\ Moves(s, "built", "sent")
    /\ Receive(Current(s))
    /\ UNCHANGED <<step, mint, found, lost>>

\* No block hash, or no answer from send_transaction: the transaction may be there.
SendFails(s) ==
    /\ Moves(s, "built", "failed")
    /\ Receive(Current(s)) \/ UNCHANGED nodeVars
    /\ UNCHANGED <<step, mint, found, lost>>

\* Mutant of Continue: the script goes on with whatever the answer is.
ContinueAnyway(s) ==
    /\ Decided(Current(s))
    /\ IF step[s] < Len(Sequence(s, mint[s]))
       THEN Moves(s, "sent", "built") /\ step' = [step EXCEPT ![s] = @ + 1]
       ELSE Moves(s, "sent", "reading") /\ UNCHANGED step
    /\ UNCHANGED <<nodeVars, mint, found, lost>>

Continue(s) ==
    /\ Status(Current(s)) = "Processed"
    /\ IF step[s] < Len(Sequence(s, mint[s]))
       THEN Moves(s, "sent", "built") /\ step' = [step EXCEPT ![s] = @ + 1]
       ELSE Moves(s, "sent", "reading") /\ UNCHANGED step
    /\ UNCHANGED <<nodeVars, mint, found, lost>>

\* A transaction that failed, or whose end cannot be learnt, ends the script.
Bail(s) ==
    /\ Moves(s, "sent", "failed")
    /\ UNCHANGED <<nodeVars, step, mint, found, lost>>

\* What is read back: get_token_details in the tour, the metadata alone in a test.
ReadsOf(s) ==
    IF Script[s].kind = "tour" THEN <<MetadataPda(mint[s]), AttributesPda(mint[s])>>
    ELSE <<MetadataPda(mint[s])>>

Reading(s) == stage[s] = "reading" /\ Len(found[s]) < Len(ReadsOf(s))

Read(s) ==
    /\ Reading(s)
    /\ LET account == ledger[ReadsOf(s)[Len(found[s]) + 1]]
       IN  found' = [found EXCEPT
                       ![s] = Append(@, IF account.owner = MetadataProgram THEN account.data
                                        ELSE Absent)]
    /\ UNCHANGED <<nodeVars, stage, step, mint, lost>>

ReadFails(s) ==
    /\ Reading(s)
    /\ found' = [found EXCEPT ![s] = Append(@, Absent)]
    /\ lost' = lost \cup {s}
    /\ UNCHANGED <<nodeVars, stage, step, mint>>

\* Everything asked for is there: the mint, the four texts, the entries.
AsAsked(s) ==
    /\ found[s][1].mint = mint[s]
    /\ found[s][1].text = Script[s].text
    /\ Script[s].kind = "tour" => found[s][2].entries = Script[s].entries

Verify(s) ==
    /\ Len(found[s]) = Len(ReadsOf(s))
    /\ Moves(s, "reading", IF Absent \in ToSet(found[s]) THEN "missing"
                           ELSE IF AsAsked(s) THEN "verified" ELSE "mismatch")
    /\ UNCHANGED <<nodeVars, step, mint, found, lost>>

\* Other clients send what they like meanwhile.
Others == Transactions \ UNION {ToSet(Sequence(s, m)) : s \in Scripts, m \in Mints}

Payers == {Script[s].payer : s \in Scripts}

\* They sign with keys of their own: a mint's key is generated where it is used and
\* never leaves the script, the payer's is read from a file of its user.
ASSUME OthersAssumption ==
    \A t \in Others : t.signers \cap (Fresh \cup Payers) = {}

ScriptsNext ==
    \/ \E s \in Scripts :
          \/ Generate(s) \/ Send(s) \/ SendFails(s) \/ Continue(s) \/ Bail(s)
          \/ Read(s) \/ ReadFails(s) \/ Verify(s)
    \/ Work /\ UNCHANGED scripts
    \/ (\E t \in Others : Receive(t)) /\ UNCHANGED scripts

ScriptsSpec == ScriptsInit /\ [][ScriptsNext]_scriptVars

-----------------------------------------------------------------------------
(* Properties *)

\* A script that gets as far as reading back finds what it asked for, whatever others
\* send in between: nobody else can change its token, and nothing of its sequence is
\* missing.  Only a read that failed can make it report a token as missing.
ScriptsVerify ==
    \A s \in Scripts : stage[s] # "mismatch" /\ (stage[s] = "missing" => s \in lost)

\* Of the scripts that pay with one key, those whose transaction the node refused leave
\* no part of a token behind: there is metadata for a generated mint only when the
\* script's last transaction was committed, and for a tour then attributes as well.
TokensWhole ==
    \A s \in Scripts :
        mint[s] # NoMint =>
            LET sequence == Sequence(s, mint[s])
                whole == Status(sequence[Len(sequence)]) = "Processed"
            IN  /\ MetadataExists(ledger, mint[s]) <=> whole
                /\ AttributesExist(ledger, mint[s]) <=> whole /\ Script[s].kind = "tour"

-----------------------------------------------------------------------------
(* The inductive invariant *)

\* The transactions the node has, and those it can have: another client's, or one of a
\* script about its mint.
Held == (pending \cup ToSet(committed) \cup {running}) \ {NoTx}

Foreseen(t) ==
    \/ t \in Others
    \/ \E s \in Scripts : mint[s] \in Fresh /\ t \in ToSet(Sequence(s, mint[s]))

\* Scripts have mints of their own.
SequencesApart ==
    /\ \A r, s \in Scripts : mint[r] = mint[s] /\ mint[s] # NoMint => r = s
    /\ \A s \in Scripts : stage[s] = "idle" <=> mint[s] = NoMint
    /\ \A s \in Scripts, m \in Fresh : step[s] \in DOMAIN Sequence(s, m)
    /\ \A t \in Held : Foreseen(t)

\* Only the scripts' payers ever control a fresh mint and its token.
Owned(accounts, m) ==
    /\ HoldsMint(accounts, m) => CreationAuthority(accounts, m) \in Payers
    /\ MetadataExists(accounts, m) => Authority(accounts, m) \in Payers

\* initialize_mint2 asks for no signature: nobody may find a mint that is created and
\* not initialised, which each script's transaction leaves between its first two
\* instructions alone.
Initialised(accounts, m) == accounts[m].owner = TokenProgram => HoldsMint(accounts, m)

HalfMade(m) ==
    /\ executed = 1
    /\ \E s \in Scripts : mint[s] = m /\ running = Sequence(s, m)[1]

TokensOwned ==
    \A m \in Fresh :
        /\ Owned(ledger, m) /\ Owned(bank, m)
        /\ Initialised(ledger, m)
        /\ Initialised(bank, m) \/ HalfMade(m)

\* Other clients write no part of a token of a script.
OthersWriteNothing ==
    \A m \in Fresh, part \in TokenPart :
        /\ \A t \in ToSet(committed) \cap Others : WrittenBy(t, m, part) = {}
        /\ running \in Others => LastIn(running.instructions, executed, m, part) = {}

\* A script that reads has had all its transactions processed, and finds each account
\* unless a read fails.
Reached(s) == stage[s] \in {"reading", "verified", "missing", "mismatch"}

FoundAsAsked(s, j) ==
    IF j = 1 THEN found[s][j].mint = mint[s] /\ found[s][j].text = Script[s].text
    ELSE found[s][j].entries = Script[s].entries

ReadKept(s) ==
    /\ Reached(s) =>
          LET sequence == Sequence(s, mint[s])
          IN  Status(sequence[Len(sequence)]) = "Processed"
    /\ ~Reached(s) => found[s] = <<>>
    /\ \A j \in DOMAIN found[s] :
          IF found[s][j] = Absent THEN s \in lost ELSE FoundAsAsked(s, j)

ReadsKept == \A s \in Scripts : ReadKept(s)

ScriptsIInv ==
    SequencesApart /\ TokensOwned /\ OthersWriteNothing /\ ReadsKept /\ ScriptsVerify
=============================================================================
