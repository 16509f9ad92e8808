----------------------------- MODULE MCMetadataCli -----------------------------
(***************************************************************************)
(* Instances of MetadataCli for TLC: a few commands about one token, each  *)
(* invoked at any time or never, its calls answered or failing.            *)
(***************************************************************************)
EXTENDS MCMetadataLedger, MetadataCli

AnyKey(k) == [kind |-> "file", key |-> k]
Stdin(k) == [kind |-> "stdin", key |-> k]

\* The transactions and instructions of the commands that are not refused.
MCTransactions ==
    UNION {{Built(i, m) : m \in IF Command[i].cmd = "mint create" THEN Mints
                                ELSE {Command[i].mint}}
           : i \in {j \in Writing : ~Refused(Command[j])}}

MCInstructions == UNION {ToSet(t.instructions) : t \in MCTransactions}

CliGenesis == (w1 :> 9) @@ (w2 :> 1)

-----------------------------------------------------------------------------
(* Commands about m1; w1 creates and pays *)

CreateMint ==
    [cmd |-> "mint create", payer |-> AnyKey(w1), authority |-> NoSource, budget |-> {},
     freeze_authority |-> NoKey]

CreateToken(authority, text) ==
    [cmd |-> "create", mint |-> m1, payer |-> AnyKey(w1), authority |-> authority,
     budget |-> {}, text |-> text, immutable |-> FALSE]

Update(authority, text) ==
    [cmd |-> "update", mint |-> m1, payer |-> AnyKey(w1), authority |-> authority,
     budget |-> {}, text |-> text]

CreateAttributes1(kvs) ==
    [cmd |-> "create-attributes", mint |-> m1, payer |-> AnyKey(w1), authority |-> NoSource,
     budget |-> {}, kvs |-> kvs]

ReplaceAttributes1(kvs) == [CreateAttributes1(kvs) EXCEPT !.cmd = "replace-attributes"]

\* The creation of the metadata is sent twice, and two writers of the attributes meet.
WriterCommands ==
    [mint |-> CreateMint,
     create |-> CreateToken(Stdin(w1), PlainText("a")),
     again |-> CreateToken(NoSource, PlainText("b")),
     attributes |-> CreateAttributes1(<<<<"b", "b">>>>),
     replace |-> ReplaceAttributes1(<<<<"a", "b">>>>)]

WriterInvocations == DOMAIN WriterCommands

\* Creating a mint, creating a token and updating it in part, either of which may be too
\* early, and showing.
EndCommands ==
    [mint |-> CreateMint,
     create |-> CreateToken(Stdin(w1), PlainText("a")),
     rename |-> [Update(Stdin(w1), [name |-> "a", symbol |-> "b"]) EXCEPT
                   !.payer = AnyKey(w2)],
     show |-> [cmd |-> "mint show", mint |-> m1]]

EndInvocations == DOMAIN EndCommands

\* A show beside the writers, one of whom is refused.
ShowCommands ==
    [mint |-> CreateMint,
     create |-> CreateToken(NoSource, PlainText("a")),
     attributes |-> CreateAttributes1(<<>>),
     long |-> CreateToken(NoSource, [PlainText("a") EXCEPT !["symbol"] = "t17"]),
     show |-> [cmd |-> "show", mint |-> m1]]

ShowInvocations == DOMAIN ShowCommands

\* The README's example: one update, both of its keys from standard input.
StdinCommands ==
    [mint |-> CreateMint,
     create |-> CreateToken(NoSource, PlainText("a")),
     update |-> [Update(Stdin(w1), [symbol |-> "b"]) EXCEPT !.payer = Stdin(w1)]]

StdinInvocations == DOMAIN StdinCommands

\* Budgets for the commands the README lists.
BudgetCommands ==
    [mint |-> [CreateMint EXCEPT !.budget = {"set_compute_unit_limit", "request_heap_frame"}],
     create |-> [CreateToken(NoSource, PlainText("a")) EXCEPT !.budget = {"request_heap_frame"}],
     update |-> [Update(NoSource, [symbol |-> "b"]) EXCEPT
                   !.budget = {"set_compute_unit_limit"}]]

BudgetInvocations == DOMAIN BudgetCommands
=============================================================================
