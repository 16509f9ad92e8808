--------------------------- MODULE MCMetadataReader ---------------------------
(***************************************************************************)
(* An instance of MetadataReader for TLC: one wallet takes one token       *)
(* through its life, tries attributes for a mint without metadata, and     *)
(* calls that read two accounts go on meanwhile.                           *)
(***************************************************************************)
EXTENDS MCMetadataLedger, MetadataReader

ReaderInstructions ==
    {create_mint_account_ix(w1, m1), initialize_mint2_ix(m1, w1, NoKey),
     create_metadata_ix(w1, m1, w1, PlainText("a"), FALSE),
     create_attributes_ix(w1, m1, w1, <<>>),
     [create_attributes_ix(w1, m2, w1, <<>>) EXCEPT !.metadata = MetadataPda(m1)],
     replace_attributes_ix(m1, w1, <<<<"a", "b">>>>),
     make_immutable_ix(m1, w1)}

\* One call of each kind that reads two accounts.
ReaderCalls ==
    {[op |-> "get_token_details", mints |-> <<m1>>],
     [op |-> "get_token_metadata_batch", mints |-> <<m1, m2>>],
     [op |-> "get_token_metadata_attributes_batch", mints |-> <<m2, m1>>]}

ReaderGenesis == (w1 :> 9)
=============================================================================
