--------------------------- MODULE MCMetadataScripts ---------------------------
(***************************************************************************)
(* An instance of MetadataScripts for TLC: a tour and a test with one      *)
(* payer, who cannot pay for both in full, and another key that tries to   *)
(* initialise their mints and to take their tokens over.                   *)
(***************************************************************************)
EXTENDS MCMetadataLedger, MetadataScripts

MCScript ==
    [tour |-> [kind |-> "tour", payer |-> w1, text |-> PlainText("a"),
               entries |-> <<<<"a", "b">>>>, budget |-> {"set_compute_unit_limit"}],
     test |-> [kind |-> "test", payer |-> w1, text |-> PlainText("b"), entries |-> <<>>,
               budget |-> {}]]

MCScripts == DOMAIN MCScript

Other(keys, instructions) ==
    [sender |-> "other", signers |-> keys, prelude |-> <<>>, instructions |-> instructions]

OtherTransactions ==
    {Other({w2}, <<initialize_mint2_ix(m1, w2, NoKey)>>),
     Other({w2}, <<transfer_authority_ix(m1, w2, w2)>>)}

ScriptTransactions ==
    OtherTransactions \cup UNION {ToSet(Sequence(s, m)) : s \in Scripts, m \in Mints}

ScriptInstructions == UNION {ToSet(t.instructions) : t \in ScriptTransactions}

\* The tour needs 6, the test 1 and 2.
ScriptGenesis == (w1 :> 8) @@ (w2 :> 1)
=============================================================================
