--------------------------- MODULE MCSdkTransactions ---------------------------
(***************************************************************************)
(* An instance of SdkTransactions and TypeScriptClient for TLC: every      *)
(* builder for one token, with two keys that may hold its authority and    *)
(* texts on both sides of every cap, in every order.  The calls are those  *)
(* the TypeScript SDK builds, the Rust SDK's among them.                   *)
(***************************************************************************)
EXTENDS MCMetadataLedger, TypeScriptClient

\* Strings of one byte a unit, and sixty-four times a character such as e-acute, of one
\* unit and two bytes.
SdkByteLen == MCByteLen @@ ("e64" :> 128)
SdkText == DOMAIN SdkByteLen
SdkUnits == MCByteLen @@ ("e64" :> 64)

Builder(name, p) == [builder |-> name, p |-> p, budget |-> {}]

NewToken(text, immutable) ==
    [payer |-> w1, mint |-> m1, mint_authority |-> w1, freeze_authority |-> NoKey,
     text |-> text, immutable |-> immutable]

NewFrozen ==
    [payer |-> w1, mint |-> m1, initial_mint_authority |-> w1, freeze_authority |-> w2,
     text |-> PlainText("a"), immutable |-> FALSE]

WithEntries(p, entries) == p @@ [attributes |-> entries]

AttributesOf1(k, entries) ==
    [payer |-> w1, mint |-> m1, update_authority |-> k, attributes |-> entries]

SdkCalls ==
    {Builder("create_token_with_metadata", NewToken(PlainText("a"), TRUE)),
     Builder("create_token_with_freeze_auth_metadata", NewFrozen),
     [Builder("create_token_with_metadata_and_attributes",
              WithEntries(NewToken(PlainText("a"), TRUE), <<>>))
        EXCEPT !.budget = {"request_heap_frame", "set_compute_unit_limit"}]}
    \cup {Builder("create_token_with_metadata_and_attributes",
                  WithEntries(NewToken(text, FALSE), <<FullEntry>>)) :
            text \in LongTexts \cup {FullText}}
    \cup {Builder("create_attributes", AttributesOf1(k, <<>>)) : k \in Wallets}
    \cup {Builder("replace_attributes", AttributesOf1(w2, entries)) :
             entries \in (LimitEntries \ {<<>>}) \cup {<<<<"e64", "e64">>>>}}
    \cup {Builder("transfer_authority_then_update",
                  [mint |-> m1, current_update_authority |-> w1, new_authority |-> w2,
                   text |-> text]) :
             text \in {[name |-> "t256"], [symbol |-> "t17"]}}
    \cup {Builder("make_immutable", [mint |-> m1, current_update_authority |-> w2])}

SdkTransactionSet == {TransactionOf(c) : c \in {d \in SdkCalls : Builds(d)}}

SdkInstructions == UNION {ToSet(t.instructions) : t \in SdkTransactionSet}

\* Enough for the mint, its metadata and, once, its attributes.
SdkGenesis == (w1 :> 6) @@ (w2 :> 1)
=============================================================================
