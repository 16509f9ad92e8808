---------------------------- MODULE MCMetadataCodec ----------------------------
(***************************************************************************)
(* An instance of MetadataCodec for TLC: the inputs of the fixture         *)
(* generator and values at the edges of every cap, with characters of one  *)
(* to four bytes and a byte-order mark.  Keys take two bytes and only the  *)
(* cap of the name is the program's.                                       *)
(***************************************************************************)
EXTENDS MetadataCodec, TLC

\* The inputs of the fixture generator, as ASCII, with keys of two bytes.
FixtureMint == <<2, 2>>
FixturePayer == <<1, 1>>
NewAuthority == <<7, 7>>

\* "Name", "SYM", "https://i", "desc".
FixtureText ==
    [name |-> <<78, 97, 109, 101>>, symbol |-> <<83, 89, 77>>,
     image |-> <<104, 116, 116, 112, 115, 58, 47, 47, 105>>,
     description |-> <<100, 101, 115, 99>>]

k1 == <<107, 49>>
v1 == <<118, 49>>
k2 == <<107, 50>>
v2 == <<118, 50>>

FixtureInstructions == {
    [op |-> "CreateMetadata", text |-> FixtureText, immutable |-> FALSE],
    [op |-> "UpdateMetadata", text |-> [name |-> <<78, 101, 119>>]],
    [op |-> "CreateAttributes", data |-> <<<<k1, v1>>, <<k2, v2>>>>],
    [op |-> "ReplaceAttributes", data |-> <<<<(<<97>>), <<49>>>>>>],
    [op |-> "TransferAuthority", new_authority |-> NewAuthority],
    [op |-> "MakeImmutable"]}

\* The caps: the name's takes two bytes of its length prefix.
CodecLimit == [name |-> 256, symbol |-> 3, image |-> 9, description |-> 4,
               key |-> 2, value |-> 2, entries |-> 2]

Longest(n) == [i \in 1..n |-> 120]
Empty == <<>>

\* Characters of two, three and four bytes, and the byte-order mark.
Umlaut == <<195, 188>>
Euro == <<226, 130, 172>>
Smile == <<240, 159, 153, 130>>
Mark == <<239, 187, 191>>

\* Beside the fixtures: values at every cap, empty strings, given and not given,
\* and an immutable creation.
EdgeInstructions == {
    [op |-> "CreateMetadata", immutable |-> TRUE,
     text |-> [name |-> Empty, symbol |-> Empty, image |-> Empty, description |-> Empty]],
    [op |-> "CreateMetadata", immutable |-> FALSE,
     text |-> [name |-> Longest(256), symbol |-> Longest(3), image |-> Longest(9),
               description |-> Longest(4)]],
    [op |-> "UpdateMetadata", text |-> [name |-> Longest(256)]],
    [op |-> "UpdateMetadata", text |-> [symbol |-> Empty, description |-> Smile]],
    [op |-> "UpdateMetadata", text |-> <<>>],
    [op |-> "UpdateMetadata", text |-> [image |-> Mark \o Euro]],
    [op |-> "CreateAttributes", data |-> <<>>],
    [op |-> "ReplaceAttributes", data |-> <<>>],
    [op |-> "ReplaceAttributes", data |-> <<<<Umlaut, <<65>>>>>>]}

CodecInstructions == FixtureInstructions \cup EdgeInstructions
=============================================================================
