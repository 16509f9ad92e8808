------------------------------ MODULE MetadataCli ------------------------------
(***************************************************************************)
(* The command-line tool: users invoke commands beside each other, each    *)
(* command reads its keys, builds one transaction with the Rust SDK, sends *)
(* it to the node, waits for its end and prints it.  Each call to the node *)
(* may fail, and sending may fail after the transaction has arrived.  A    *)
(* user who tries again invokes another command.                           *)
(***************************************************************************)
EXTENDS MetadataNode, TokenMetadataClient

CONSTANTS
    Invocations,      \* the commands users invoke
    Command,          \* Command[i]: the arguments of invocation i
    NoSource,         \* an option for a signer that is not given
    None              \* null in what is printed

\* A signer source: its kind, and the key that is read there, NoKey when there is no
\* such file or variable or it holds no private key.
Source == [kind : {"prompt", "stdin", "file", "env"}, key : Keys \cup {NoKey}]

Writing == {i \in Invocations : Command[i].cmd \notin {"show", "mint show"}}
Showing == Invocations \ Writing

Subcommands ==
    {"mint create", "create", "update", "create-attributes", "replace-attributes",
     "transfer-authority", "make-immutable"}

ASSUME CommandAssumption ==
    \A i \in Writing :
        /\ Command[i].cmd \in Subcommands
        /\ Command[i].payer \in Source /\ Command[i].authority \in Source \cup {NoSource}

\* The mints a show may be about are those accounts are kept for.
ASSUME ShowAssumption == \A i \in Showing : Command[i].mint \in Mints

ASSUME NoneAssumption == None # "Processed" /\ None \notin AccountData

VARIABLES
    stage,        \* stage[i]: how far invocation i has come
    tx,           \* tx[i]: the transaction it has built
    created,      \* the mints generated so far
    printed,      \* printed[i]: the status it printed
    shown,        \* shown[i]: the accounts it has read to show them
    lost,         \* lost[i]: those of its reads that failed
    known         \* known[i]: transactions reported as processed when i began to show

cli == <<stage, tx, created, printed, shown, lost, known>>
cliVars == <<nodeVars, cli>>

-----------------------------------------------------------------------------
(* What a command makes of its arguments *)

PayerKey(c) == c.payer.key

\* An authority that is not given is the payer; standard input is at its end once the
\* payer has been read from it.
AuthorityKey(c) ==
    IF c.authority = NoSource THEN PayerKey(c)
    ELSE IF c.payer.kind = "stdin" /\ c.authority.kind = "stdin" THEN NoKey
    ELSE c.authority.key

\* The instructions of each command, about mint m.
MintCreate(c, m) ==
    <<create_mint_account_ix(PayerKey(c), m),
      initialize_mint2_ix(m, AuthorityKey(c), c.freeze_authority)>>

MetadataCreate(c, m) ==
    <<create_metadata_ix(PayerKey(c), m, AuthorityKey(c), c.text, c.immutable)>>

MetadataUpdate(c, m) == <<update_metadata_ix(m, AuthorityKey(c), c.text)>>

MetadataCreateAttributes(c, m) ==
    <<create_attributes_ix(PayerKey(c), m, AuthorityKey(c), c.kvs)>>

MetadataReplaceAttributes(c, m) == <<replace_attributes_ix(m, AuthorityKey(c), c.kvs)>>

MetadataTransferAuthority(c, m) ==
    <<transfer_authority_ix(m, AuthorityKey(c), c.new_authority)>>

MetadataMakeImmutable(c, m) == <<make_immutable_ix(m, AuthorityKey(c))>>

Instruct(c, m) ==
    CASE c.cmd = "mint create" -> MintCreate(c, m)
      [] c.cmd = "create" -> MetadataCreate(c, m)
      [] c.cmd = "update" -> MetadataUpdate(c, m)
      [] c.cmd = "create-attributes" -> MetadataCreateAttributes(c, m)
      [] c.cmd = "replace-attributes" -> MetadataReplaceAttributes(c, m)
      [] c.cmd = "transfer-authority" -> MetadataTransferAuthority(c, m)
      [] c.cmd = "make-immutable" -> MetadataMakeImmutable(c, m)

\* Creating a mint puts each budget instruction in front, creating metadata appends
\* them first; the other commands leave the budget options out.
Prelude(c) ==
    CASE c.cmd = "mint create" -> Reverse(compute_budget_ixs(c.budget))
      [] c.cmd = "create" -> compute_budget_ixs(c.budget)
      [] OTHER -> <<>>

Signers(c, m) ==
    {PayerKey(c), IF c.cmd = "mint create" THEN m ELSE AuthorityKey(c)}

\* The SDK's validators.
WithinLimits(c) ==
    /\ c.cmd \in {"create", "update"} => validate_metadata_fields(c.text)
    /\ c.cmd \in {"create-attributes", "replace-attributes"} => validate_attributes(c.kvs)

\* Mutant of Refused: the validators are not run.
KeysUnreadable(c) == NoKey \in {PayerKey(c), AuthorityKey(c)}

\* What ends a command before it asks the node anything: a key that cannot be read
\* (or another argument that does not parse), or a builder that refuses.
Refused(c) == NoKey \in {PayerKey(c), AuthorityKey(c)} \/ ~WithinLimits(c)

Built(i, m) ==
    [sender |-> i, signers |-> Signers(Command[i], m), prelude |-> Prelude(Command[i]),
     instructions |-> Instruct(Command[i], m)]

\* The mints invocation i may be about: one it generates, or the one it was given.
MintsOf(i) ==
    IF Command[i].cmd = "mint create" THEN Mints \ created ELSE {Command[i].mint}

\* Whatever the commands send, the node may be sent.
ASSUME CliAssumption ==
    \A i \in Writing :
        ~Refused(Command[i]) =>
            \A m \in (IF Command[i].cmd = "mint create" THEN Mints ELSE {Command[i].mint}) :
                Built(i, m) \in Transactions

-----------------------------------------------------------------------------

CliInit ==
    /\ NodeInit
    /\ stage = [i \in Invocations |-> "idle"]
    /\ tx = [i \in Invocations |-> NoTx]
    /\ created = {}
    /\ printed = [i \in Invocations |-> None]
    /\ shown = [i \in Invocations |-> <<>>]
    /\ lost = [i \in Invocations |-> {}]
    /\ known = [i \in Invocations |-> {}]

Moves(i, from, to) ==
    /\ stage[i] = from
    /\ stage' = [stage EXCEPT ![i] = to]

Refuse(i) ==
    /\ Refused(Command[i])
    /\ Moves(i, "idle", "refused")
    /\ UNCHANGED <<nodeVars, tx, created, printed, shown, lost, known>>

Prepare(i) ==
    /\ ~Refused(Command[i])
    /\ Moves(i, "idle", "built")
    /\ \E m \in MintsOf(i) :
          /\ tx' = [tx EXCEPT ![i] = Built(i, m)]
          /\ created' = IF Command[i].cmd = "mint create" THEN created \cup {m} ELSE created
    /\ UNCHANGED <<nodeVars, printed, shown, lost, known>>

\* get_best_block_hash answers, the transaction is signed and send_transaction returns.
Send(i) ==
    /\ Moves(i, "built", "sent")
    /\ Receive(tx[i])
    /\ UNCHANGED <<tx, created, printed, shown, lost, known>>

\* One of the two fails; the transaction may have arrived all the same.
SendFails(i) ==
    /\ Moves(i, "built", "error")
    /\ Receive(tx[i]) \/ UNCHANGED nodeVars
    /\ UNCHANGED <<tx, created, printed, shown, lost, known>>

\* Mutant of Report: only a processed transaction is an answer.
ReportProcessed(i) ==
    /\ Moves(i, "sent", "done")
    /\ Status(tx[i]) = "Processed"
    /\ printed' = [printed EXCEPT ![i] = Status(tx[i])]
    /\ UNCHANGED <<nodeVars, tx, created, shown, lost, known>>

\* wait_for_processed_transaction answers; whatever the status, the command prints it
\* and ends without an error.
Report(i) ==
    /\ Moves(i, "sent", "done")
    /\ Decided(tx[i])
    /\ printed' = [printed EXCEPT ![i] = Status(tx[i])]
    /\ UNCHANGED <<nodeVars, tx, created, shown, lost, known>>

WaitFails(i) ==
    /\ Moves(i, "sent", "error")
    /\ UNCHANGED <<nodeVars, tx, created, printed, shown, lost, known>>

-----------------------------------------------------------------------------
(* Showing: the mint, then get_token_details, whose adapter reads one by one *)

Addresses(c) ==
    IF c.cmd = "mint show" THEN <<c.mint>>
    ELSE <<c.mint, MetadataPda(c.mint), AttributesPda(c.mint)>>

Reported == {tx[i] : i \in {j \in Writing : printed[j] = "Processed"}}

BeginShow(i) ==
    /\ Moves(i, "idle", "showing")
    /\ known' = [known EXCEPT ![i] = Reported]
    /\ UNCHANGED <<nodeVars, tx, created, printed, shown, lost>>

\* An account that is not there, or of another owner, is shown as null ...
ShownAs(a, owner) == IF ledger[a].owner = owner THEN ledger[a].data ELSE None

\* Mutant of OwnerShown: the mint, too, is expected of the metadata program.
OneOwnerShown(a) == MetadataProgram

OwnerShown(a) == IF a \in Mints THEN TokenProgram ELSE MetadataProgram

ReadNext(i) ==
    LET n == Len(shown[i]) + 1
        addresses == Addresses(Command[i])
    IN  /\ stage[i] = "showing"
        /\ n <= Len(addresses)
        /\ shown' = [shown EXCEPT
                       ![i] = Append(@, ShownAs(addresses[n], OwnerShown(addresses[n])))]
        /\ UNCHANGED <<nodeVars, stage, tx, created, printed, lost, known>>

\* ... and so is one that could not be read.
ReadLost(i) ==
    /\ stage[i] = "showing"
    /\ Len(shown[i]) < Len(Addresses(Command[i]))
    /\ shown' = [shown EXCEPT ![i] = Append(@, None)]
    /\ lost' = [lost EXCEPT ![i] = @ \cup {Len(shown'[i])}]
    /\ UNCHANGED <<nodeVars, stage, tx, created, printed, known>>

Show(i) ==
    /\ Moves(i, "showing", "done")
    /\ Len(shown[i]) = Len(Addresses(Command[i]))
    /\ UNCHANGED <<nodeVars, tx, created, printed, shown, lost, known>>

-----------------------------------------------------------------------------

Invoke(i) == IF i \in Writing THEN Refuse(i) \/ Prepare(i) ELSE BeginShow(i)

\* What a started command does when every call is answered.
Proceed(i) == Send(i) \/ Report(i) \/ ReadNext(i) \/ Show(i)

CallFails(i) == SendFails(i) \/ WaitFails(i) \/ ReadLost(i)

CliNext ==
    \/ \E i \in Invocations : Invoke(i) \/ Proceed(i) \/ CallFails(i)
    \/ Work /\ UNCHANGED cli

\* Users need not invoke anything and calls need not fail; a command under way goes
\* on, and so does the node.
CliFairness ==
    /\ \A i \in Invocations : WF_cliVars(Proceed(i))
    /\ WF_cliVars(Work /\ UNCHANGED cli)

CliSpec == CliInit /\ [][CliNext]_cliVars /\ CliFairness

-----------------------------------------------------------------------------
(* Properties *)

\* A client can know these before it sends.
Avoidable ==
    {"StringTooLong", "TooManyAttributes", "InvalidInstructionData", "InvalidSeeds",
     "MissingRequiredSignature", "Panicked"}

\* What a command sends may fail for the state it meets, but never for its own sizes,
\* addresses or missing signatures: the SDK's validators refuse what the program would,
\* and the keys the CLI reads for a command, a default included, are those it signs with.
NothingDoomedIsSent == [][Advance => outcome' \notin Avoidable]_cliVars

\* The account a show has read, as it was when `log' had been committed.
ReadAfter(log, m, address, data) ==
    \A part \in {p \in Part : Holder(m, p) = address} :
        LastWritten(log, m, part) = IF data = None THEN {} ELSE ValueIn(data, part)

\* A show reads its accounts one by one, but each, the mint with its authorities too, is as
\* some prefix of the committed transactions left it, and that prefix has all that any command had reported as
\* processed before the show was invoked: what one user was told, another can see.
ShownIsRecent ==
    \A i \in Showing : \A j \in DOMAIN shown[i] \ lost[i] :
        LET m == Command[i].mint
        IN  \E n \in 0..Len(committed) :
               /\ known[i] \subseteq ToSet(SubSeq(committed, 1, n))
               /\ ReadAfter(SubSeq(committed, 1, n), m, Addresses(Command[i])[j], shown[i][j])

\* What makes ShownIsRecent inductive: what is reported as processed is committed and
\* stays so, and a command has shown nothing before it begins.
ReportedIsCommitted ==
    \A i \in Writing :
        printed[i] = "Processed" => stage[i] = "done" /\ tx[i] \in ToSet(committed)

ShowsKept ==
    /\ ReportedIsCommitted
    /\ \A i \in Showing : known[i] \subseteq ToSet(committed)
    /\ \A i \in Showing : stage[i] = "idle" => shown[i] = <<>>
    /\ ShownIsRecent

\* A command that was started ends, when no call fails because the node decides it.
EveryCommandEnds ==
    \A i \in Invocations :
        stage[i] \in {"built", "sent", "showing"} ~> stage[i] \in {"done", "error"}

\* As documented, the budget options are forwarded: every command that sends a
\* transaction puts the budget it was given in front of its instructions.
BudgetForwarded ==
    \A i \in Writing : tx[i] # NoTx => ToSet(tx[i].prelude) = Command[i].budget

\* As documented, any source of a key will do for each signer: a command whose sources
\* each hold a key, and whose texts are within their limits, is not refused.
ReadableKeysSuffice ==
    \A i \in Writing :
        LET c == Command[i]
        IN  /\ NoKey \notin {s.key : s \in {c.payer, c.authority} \ {NoSource}}
            /\ WithinLimits(c)
            => stage[i] # "refused"
=============================================================================
