---------------------------- MODULE MetadataState ----------------------------
(***************************************************************************)
(* The data the token metadata program keeps: the addresses it derives,    *)
(* the accounts it owns, their size limits and their packed sizes          *)
(* (programs/arch-token-metadata/src/state.rs and lib.rs).                 *)
(*                                                                         *)
(* A string is a member of Text and counts only through its identity and   *)
(* ByteLen, its length in bytes.  The bytes of an account are abstracted   *)
(* to the value they decode to: Pack::unpack demands an exact length and   *)
(* an initialised first byte, and the three lengths differ, so a buffer    *)
(* decodes to at most one kind of value.                                   *)
(***************************************************************************)
EXTENDS Integers, FiniteSets, SequencesExt

CONSTANTS
    Wallets,         \* keys with a private key that hold lamports and sign
    Mints,           \* keys with a private key used as addresses of token mints
    NoKey,           \* the absent key: Option::None, COption::None
    SystemProgram, TokenProgram, MetadataProgram,     \* program ids
    Text,            \* the strings that occur
    ByteLen,         \* ByteLen[t]: String::len of t, in bytes
    MinimumRent      \* MinimumRent[n]: the runtime's minimum_rent(n)

-----------------------------------------------------------------------------
(* Addresses *)

METADATA_SEED == "metadata"
ATTRIBUTES_SEED == "attributes"

\* A program-derived address is the pair of its seed and its mint: derivation
\* is injective and never yields a key somebody can sign with.
MetadataPda(mint) == <<METADATA_SEED, mint>>
AttributesPda(mint) == <<ATTRIBUTES_SEED, mint>>

Keys == Wallets \cup Mints
Pdas == {MetadataPda(m) : m \in Mints} \cup {AttributesPda(m) : m \in Mints}
Address == Keys \cup Pdas

\* The world is closed: accounts of a fourth program, which a handler would take for metadata
\* if they decoded as such, are not modelled.
Programs == {SystemProgram, TokenProgram, MetadataProgram}

ASSUME KeyAssumption ==
    /\ \A a \in Address : MetadataPda(a) \notin Keys /\ AttributesPda(a) \notin Keys
    /\ Wallets \cap Mints = {}
    /\ NoKey \notin Address
    /\ SystemProgram # TokenProgram
    /\ SystemProgram # MetadataProgram
    /\ TokenProgram # MetadataProgram

-----------------------------------------------------------------------------
(* Size limits *)

NAME_MAX_LEN == 256
SYMBOL_MAX_LEN == 16
IMAGE_MAX_LEN == 512
DESCRIPTION_MAX_LEN == 512
MAX_KEY_LENGTH == 64
MAX_VALUE_LENGTH == 240
MAX_ATTRIBUTES == 32

Field == {"name", "symbol", "image", "description"}

FieldMaxLen ==
    [name |-> NAME_MAX_LEN, symbol |-> SYMBOL_MAX_LEN,
     image |-> IMAGE_MAX_LEN, description |-> DESCRIPTION_MAX_LEN]

\* Mutant of TOKEN_METADATA_MAX_LEN: it forgets the length prefix of one string.
OnePrefixShort ==
    1 + 32 + NAME_MAX_LEN + (4 + SYMBOL_MAX_LEN)
      + (4 + IMAGE_MAX_LEN) + (4 + DESCRIPTION_MAX_LEN) + (1 + 32)

TOKEN_METADATA_MAX_LEN ==
    1 + 32 + (4 + NAME_MAX_LEN) + (4 + SYMBOL_MAX_LEN)
      + (4 + IMAGE_MAX_LEN) + (4 + DESCRIPTION_MAX_LEN) + (1 + 32)

TOKEN_METADATA_ATTRIBUTES_MAX_LEN ==
    1 + 32 + 4 + MAX_ATTRIBUTES * ((4 + MAX_KEY_LENGTH) + (4 + MAX_VALUE_LENGTH))

\* Mint::LEN of the token program.
MINT_LEN == 82

ASSUME TextAssumption == ByteLen \in [Text -> Nat]

ASSUME RentAssumption ==
    MinimumRent \in [{MINT_LEN, TOKEN_METADATA_MAX_LEN,
                      TOKEN_METADATA_ATTRIBUTES_MAX_LEN} -> Nat]

-----------------------------------------------------------------------------
(* Account contents *)

Entry == Text \X Text

\* TokenMetadata, its four strings gathered in one function.
TokenMetadata ==
    [kind : {"metadata"}, mint : Address, text : [Field -> Text],
     update_authority : Keys \cup {NoKey}]

TokenMetadataAttributes ==
    [kind : {"attributes"}, mint : Address, entries : Seq(Entry)]

\* The token program's Mint: only its two authorities matter here.
Mint ==
    [kind : {"mint"}, mint_authority : Keys \cup {NoKey},
     freeze_authority : Keys \cup {NoKey}]

\* No data, and the zero bytes create_account leaves.
Empty == [kind |-> "empty"]
Zeroed == [kind : {"zeroed"}, len : Nat]

AccountData == TokenMetadata \cup TokenMetadataAttributes \cup Mint
                 \cup Zeroed \cup {Empty}

Account == [owner : Programs, lamports : Nat, data : AccountData]

\* An address nothing was ever created at.
Vacant == [owner |-> SystemProgram, lamports |-> 0, data |-> Empty]

-----------------------------------------------------------------------------
(* Packing and unpacking.  `accounts' is a function from Address to Account. *)

\* What Pack::unpack accepts as TokenMetadata, as attributes, as a Mint.
HoldsMetadata(accounts, a) == accounts[a].data.kind = "metadata"
HoldsAttributes(accounts, a) == accounts[a].data.kind = "attributes"
HoldsMint(accounts, a) == accounts[a].data.kind = "mint"

\* In an account of the program, the first byte of the data is not zero: it is
\* is_initialized in both kinds of value.
FirstByteSet(data) == data.kind \in {"metadata", "attributes"}

KindLen ==
    [empty |-> 0, mint |-> MINT_LEN, metadata |-> TOKEN_METADATA_MAX_LEN,
     attributes |-> TOKEN_METADATA_ATTRIBUTES_MAX_LEN]

DataLen(data) == IF data.kind = "zeroed" THEN data.len ELSE KindLen[data.kind]

\* borsh::to_vec(self).len() of a TokenMetadata and of attributes with `entries'.
PackedMetadataLen(md) ==
    1 + 32 + (4 + ByteLen[md.text["name"]]) + (4 + ByteLen[md.text["symbol"]])
           + (4 + ByteLen[md.text["image"]]) + (4 + ByteLen[md.text["description"]])
           + IF md.update_authority = NoKey THEN 1 ELSE 1 + 32

PackedAttributesLen(entries) ==
    LET len[n \in 0..Len(entries)] ==
            IF n = 0 THEN 1 + 32 + 4
            ELSE len[n - 1] + (4 + ByteLen[entries[n][1]]) + (4 + ByteLen[entries[n][2]])
    IN  len[Len(entries)]
=============================================================================
