--------------------------- MODULE MCMetadataLedger ---------------------------
(***************************************************************************)
(* Instances of MetadataLedger for TLC.  Texts are strings named for their *)
(* role; the instruction sets hold the instructions the SDKs build and, for *)
(* each account a handler checks, the same instruction with another account *)
(* in that role.                                                            *)
(***************************************************************************)
EXTENDS MetadataLedger, TokenMetadataClient, TLC

CONSTANTS w1, w2, m1, m2

\* Real lengths, on both sides of each cap.
MCByteLen ==
    ("" :> 0) @@ ("a" :> 1) @@ ("b" :> 1)
      @@ ("t16" :> 16) @@ ("t17" :> 17) @@ ("t64" :> 64) @@ ("t65" :> 65)
      @@ ("t240" :> 240) @@ ("t241" :> 241) @@ ("t256" :> 256) @@ ("t257" :> 257)
      @@ ("t512" :> 512) @@ ("t513" :> 513)

MCText == DOMAIN MCByteLen

\* Three different rents, so that paying the wrong one shows.
MCRent ==
    (MINT_LEN :> 1) @@ (TOKEN_METADATA_MAX_LEN :> 2)
      @@ (TOKEN_METADATA_ATTRIBUTES_MAX_LEN :> 3)

PlainText(t) == [f \in Field |-> t]

-----------------------------------------------------------------------------
(* One mint, two wallets: who may do what, and when *)

OneMintInstructions ==
    {create_metadata_ix(w1, m1, k, PlainText("a"), i) : k \in Wallets, i \in BOOLEAN}
    \cup {create_metadata_ix(w2, m1, w2, PlainText("b"), FALSE)}
    \cup {update_metadata_ix(m1, k, given) :
            k \in Wallets, given \in {[name |-> "b"], [symbol |-> "b", image |-> "b"]}}
    \cup {create_attributes_ix(p, m1, k, <<>>) : p \in Wallets, k \in Wallets}
    \cup {replace_attributes_ix(m1, k, <<<<"a", "b">>>>) : k \in Wallets}
    \cup {transfer_authority_ix(m1, k, new) : k \in Wallets, new \in Wallets}
    \cup {make_immutable_ix(m1, k) : k \in Wallets}
    \cup {create_mint_account_ix(w1, m1)}
    \cup {initialize_mint2_ix(m1, w1, freeze) : freeze \in {w2, NoKey}}
    \cup {set_mint_authority_ix(m1, k, new) : k \in Wallets, new \in {w2, NoKey}}

OneMintGenesis == (w1 :> 4) @@ (w2 :> 3)

-----------------------------------------------------------------------------
(* Two mints, one controlled by each wallet: accounts of one mint in an      *)
(* instruction about the other, and accounts of the wrong kind               *)

ControllerOf(m) == IF m = m1 THEN w1 ELSE w2

\* For each role a handler checks, instructions about m with another account there.
Misplaced(m, other) ==
    LET k == ControllerOf(m)
        create == create_metadata_ix(w1, m, k, PlainText("a"), FALSE)
        attributes == create_attributes_ix(w1, m, k, <<>>)
        replace == replace_attributes_ix(m, k, <<<<"a", "b">>>>)
    IN  {[create EXCEPT !.metadata = a] : a \in {MetadataPda(other), AttributesPda(m)}}
        \cup {[create EXCEPT !.mint = a] : a \in {other, w1, MetadataPda(m)}}
        \cup {[create EXCEPT !.system_program = TokenProgram]}
        \cup {[attributes EXCEPT !.attributes = a] : a \in {AttributesPda(other), MetadataPda(m)}}
        \cup {[attributes EXCEPT !.mint = a] : a \in {other, w1}}
        \cup {[attributes EXCEPT !.metadata = a] : a \in {MetadataPda(other), m, w1}}
        \cup {[attributes EXCEPT !.metadata = MetadataPda(other),
                                  !.authority = ControllerOf(other)]}
        \cup {[attributes EXCEPT !.system_program = MetadataProgram]}
        \cup {[replace EXCEPT !.attributes = a] : a \in {AttributesPda(other), MetadataPda(m)}}
        \cup {[replace EXCEPT !.metadata = a] : a \in {MetadataPda(other), AttributesPda(m)}}
        \cup {[update_metadata_ix(m, k, [name |-> "b"]) EXCEPT !.metadata = a] :
                a \in {AttributesPda(m), m}}

-----------------------------------------------------------------------------
(* Contents on both sides of every limit                                     *)

\* Every field at its limit, and the same text with one field a byte longer.
FullText ==
    [name |-> "t256", symbol |-> "t16", image |-> "t512", description |-> "t512"]

LongTexts ==
    {[FullText EXCEPT !.name = "t257"], [FullText EXCEPT !.symbol = "t17"],
     [FullText EXCEPT !.image = "t513"], [FullText EXCEPT !.description = "t513"]}

\* One field of a text alone.
Only(text, f) == f :> text[f]

FullEntry == <<"t64", "t240">>

\* Every entry at its limit, as many as fit and one more, and one bad entry.
LimitEntries ==
    {[i \in 1..MAX_ATTRIBUTES |-> FullEntry], [i \in 1..(MAX_ATTRIBUTES + 1) |-> <<"a", "a">>],
     <<FullEntry, <<"", "a">>>>, <<FullEntry, <<"a", "">>>>,
     <<<<"t65", "a">>, <<"", "a">>>>, <<<<"t65", "a">>>>, <<<<"a", "t241">>>>, <<>>}

\* The text and the entries of m1 are as large as the caps let them be.
TextOf(m) == IF m = m1 THEN FullText ELSE PlainText("a")

Full == [i \in 1..MAX_ATTRIBUTES |-> FullEntry]

EntriesOf(m) == IF m = m1 THEN Full ELSE <<<<"a", "b">>>>

\* The instructions about m1 that bring a text or a vector over a cap, one field at a time.
TooLong ==
    {create_metadata_ix(w1, m1, w1, text, FALSE) : text \in LongTexts}
    \cup {update_metadata_ix(m1, w1, Only(text, f)) : f \in Field, text \in LongTexts}
    \cup {create_attributes_ix(w1, m1, w1, entries) : entries \in LimitEntries \ {Full, <<>>}}
    \cup {replace_attributes_ix(m1, w1, entries) : entries \in LimitEntries \ {Full, <<>>}}

TwoMintInstructions ==
    UNION {
        LET k == ControllerOf(m) IN
        {create_mint_account_ix(w1, m),
         initialize_mint2_ix(m, k, NoKey),
         create_metadata_ix(w1, m, k, TextOf(m), FALSE),
         create_attributes_ix(w1, m, k, <<>>),
         replace_attributes_ix(m, k, EntriesOf(m))}
        : m \in Mints}
    \cup {make_immutable_ix(m1, w1), update_metadata_ix(m2, w2, [name |-> "b"]),
           update_metadata_ix(m2, w2, [symbol |-> "t17"])}
    \cup Misplaced(m1, m2) \cup Misplaced(m2, m1) \cup TooLong

\* Enough for both mints, both metadata and the attributes of one of them.
TwoMintGenesis == (w1 :> 9) @@ (w2 :> 1)
=============================================================================
