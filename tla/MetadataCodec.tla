----------------------------- MODULE MetadataCodec -----------------------------
(***************************************************************************)
(* The bytes behind the values: the Borsh layout of the two accounts and   *)
(* of the instructions, written by the program and by both SDKs and read   *)
(* by the program, the Rust reader and the TypeScript reader.              *)
(*                                                                         *)
(* A byte is a number in 0..255, a string the sequence of its UTF-8 bytes  *)
(* and a key a sequence of KeyLen bytes.                                   *)
(***************************************************************************)
EXTENDS Integers, Sequences

CONSTANTS
    Creator, Mint, Instructions,      \* as in TokenValues
    KeyLen,                           \* 32 in the code
    Limit                             \* Limit[f]: the cap of a field, of "key",
                                      \* of "value" and of the number of "entries"

Byte == 0..255
Key == [1..KeyLen -> Byte]
Field == {"name", "symbol", "image", "description"}

\* A cap is a usize whose strings a u32 counts; TLC's numbers end at half of that.
ASSUME CodecAssumption ==
    /\ KeyLen \in Nat \ {0}
    /\ Limit \in [Field \cup {"key", "value", "entries"} -> Nat]
    /\ \A f \in DOMAIN Limit : Limit[f] <= 2147483647
    /\ Creator \in Key /\ Mint \in Key

-----------------------------------------------------------------------------
(* Strings and values *)

\* The characters of UTF-8: no overlong forms, no surrogates, nothing past U+10FFFF.
Character(c) ==
    \/ Len(c) = 1 /\ c[1] \in 0..127
    \/ Len(c) = 2 /\ c[1] \in 194..223 /\ c[2] \in 128..191
    \/ /\ Len(c) = 3 /\ c[1] \in 224..239 /\ c[3] \in 128..191
       /\ c[2] \in (IF c[1] = 224 THEN 160 ELSE 128)..(IF c[1] = 237 THEN 159 ELSE 191)
    \/ /\ Len(c) = 4 /\ c[1] \in 240..244 /\ c[3] \in 128..191 /\ c[4] \in 128..191
       /\ c[2] \in (IF c[1] = 240 THEN 144 ELSE 128)..(IF c[1] = 244 THEN 143 ELSE 191)

\* In a string every byte is one of a character's: no two of them overlap, as what
\* begins one goes on with none.
Utf8(s) ==
    \A i \in DOMAIN s : \E before \in 0..3, after \in 0..3 :
        /\ before < i /\ i + after <= Len(s)
        /\ Character(SubSeq(s, i - before, i + after))

Strings(max) == {s \in Seq(Byte) : Len(s) <= max /\ Utf8(s)}

\* The texts that give these fields.
Given(fields) ==
    {t \in [fields -> Seq(Byte)] : \A f \in fields : t[f] \in Strings(Limit[f])}

EntryList ==
    {entries \in Seq(Seq(Byte) \X Seq(Byte)) :
        /\ Len(entries) <= Limit["entries"]
        /\ \A i \in DOMAIN entries : /\ entries[i][1] \in Strings(Limit["key"]) \ {<<>>}
                                     /\ entries[i][2] \in Strings(Limit["value"]) \ {<<>>}}

\* The instructions the handlers' checks of texts and entries accept; what they do with
\* others is the matter of MetadataProcessor.
Instruction(ix) ==
    \/ ix \in [op : {"CreateMetadata"}, text : Given(Field), immutable : BOOLEAN]
    \/ \E fields \in SUBSET Field : ix \in [op : {"UpdateMetadata"}, text : Given(fields)]
    \/ ix \in [op : {"CreateAttributes", "ReplaceAttributes"}, data : EntryList]
    \/ ix \in [op : {"TransferAuthority"}, new_authority : Key]
    \/ ix \in [op : {"MakeImmutable"}]

ASSUME InstructionsAssumption == \A ix \in Instructions : Instruction(ix)

VARIABLES
    asked,               \* the parameters a client gave its SDK, or Idle
    wire,                \* the instruction data the SDK made of them
    metadata_data,       \* the data of the metadata account; <<>> before it exists
    attributes_data      \* the data of the attributes account

vars == <<asked, wire, metadata_data, attributes_data>>

Zeros(n) == [i \in 1..n |-> 0]

METADATA_LEN ==
    1 + KeyLen + (4 + Limit["name"]) + (4 + Limit["symbol"])
      + (4 + Limit["image"]) + (4 + Limit["description"]) + (1 + KeyLen)

ATTRIBUTES_LEN ==
    1 + KeyLen + 4 + Limit["entries"] * ((4 + Limit["key"]) + (4 + Limit["value"]))

-----------------------------------------------------------------------------
(* Encoding: BorshSerialize, and the encode... functions of the TypeScript SDK *)

U32(n) == <<n % 256, (n \div 256) % 256, (n \div 65536) % 256, n \div 16777216>>
Bool(b) == <<IF b THEN 1 ELSE 0>>
String(s) == U32(Len(s)) \o s
OptionPubkey(key) == IF key = <<>> THEN <<0>> ELSE <<1>> \o key
OptionString(given, f) == IF f \in DOMAIN given THEN <<1>> \o String(given[f]) ELSE <<0>>
VecOfPairs(entries) ==
    LET bytes[i \in 0..Len(entries)] ==
            IF i = 0 THEN U32(Len(entries))
            ELSE bytes[i - 1] \o String(entries[i][1]) \o String(entries[i][2])
    IN  bytes[Len(entries)]

Texts(text) ==
    String(text["name"]) \o String(text["symbol"]) \o String(text["image"])
      \o String(text["description"])

TokenMetadataBytes(md) ==
    Bool(md.is_initialized) \o md.mint \o Texts(md.text) \o OptionPubkey(md.update_authority)

TokenMetadataAttributesBytes(at) ==
    Bool(at.is_initialized) \o at.mint \o VecOfPairs(at.data)

\* The index of a variant is its place in the enum.
Variants == <<"CreateMetadata", "UpdateMetadata", "CreateAttributes",
              "ReplaceAttributes", "TransferAuthority", "MakeImmutable">>

Arguments(ix) ==
    CASE ix.op = "CreateMetadata"    -> Texts(ix.text) \o Bool(ix.immutable)
      [] ix.op = "UpdateMetadata"    ->
           OptionString(ix.text, "name") \o OptionString(ix.text, "symbol")
             \o OptionString(ix.text, "image") \o OptionString(ix.text, "description")
      [] ix.op \in {"CreateAttributes", "ReplaceAttributes"} -> VecOfPairs(ix.data)
      [] ix.op = "TransferAuthority" -> ix.new_authority
      [] ix.op = "MakeImmutable"     -> <<>>

\* MetadataInstruction::pack.
pack(ix) == <<(CHOOSE i \in DOMAIN Variants : Variants[i] = ix.op) - 1>> \o Arguments(ix)

\* Mutant of IX: the two attribute instructions in the other order.
IXSwapped == [CreateMetadata |-> 0, UpdateMetadata |-> 1, CreateAttributes |-> 3,
              ReplaceAttributes |-> 2, TransferAuthority |-> 4, MakeImmutable |-> 5]

\* The tags of the TypeScript SDK, kept by hand, and the data its builders make.
IX == [CreateMetadata |-> 0, UpdateMetadata |-> 1, CreateAttributes |-> 2,
       ReplaceAttributes |-> 3, TransferAuthority |-> 4, MakeImmutable |-> 5]

ts_data(ix) == <<IX[ix.op]>> \o Arguments(ix)

\* Mutant of pack_into_slice: what the buffer held after the value stays.
KeepTail(bytes, dst) == bytes \o SubSeq(dst, Len(bytes) + 1, Len(dst))

\* The value's bytes, then zeros up to the end of the buffer.
pack_into_slice(bytes, dst) == bytes \o Zeros(Len(dst) - Len(bytes))

-----------------------------------------------------------------------------
(* Decoding.  A reader takes the bytes and a position and returns the set of *)
(* what it found there, a value and the position after it: nothing when it   *)
(* fails, so what is read next to a failure fails too.                       *)

Got(value, next) == [value |-> value, next |-> next]

Take(src, at, n) ==
    IF at + n - 1 <= Len(src) THEN {Got(SubSeq(src, at, at + n - 1), at + n)} ELSE {}

ReadU32(src, at) ==
    {Got(b.value[1] + 256 * b.value[2] + 65536 * b.value[3] + 16777216 * b.value[4], b.next) :
        b \in Take(src, at, 4)}

ReadBool(src, at) ==
    {Got(b.value[1] = 1, b.next) : b \in {x \in Take(src, at, 1) : x.value[1] \in {0, 1}}}

ReadString(src, at) ==
    {s \in UNION {Take(src, n.next, n.value) : n \in ReadU32(src, at)} : Utf8(s.value)}

ReadKey(src, at) == Take(src, at, KeyLen)

\* Option, given the value after its tag: None is the empty sequence and Some(v) that of v.
Optional(tag, values) ==
    IF tag.value THEN {Got(<<v.value>>, v.next) : v \in values} ELSE {Got(<<>>, tag.next)}

ReadOptionKey(src, at) ==
    UNION {Optional(tag, ReadKey(src, tag.next)) : tag \in ReadBool(src, at)}

ReadOptionString(src, at) ==
    UNION {Optional(tag, ReadString(src, tag.next)) : tag \in ReadBool(src, at)}

\* The TypeScript decoders: a slice that reaches past the end is cut short, only
\* DataView.getUint32 throws.
ts_slice(src, at, n) == {Got(SubSeq(src, at, IF at + n - 1 <= Len(src) THEN at + n - 1
                                             ELSE Len(src)), at + n)}

\* Mutant of readU32LE: getUint32 without its little-endian flag.
ReadU32BE(src, at) ==
    {Got(b.value[4] + 256 * b.value[3] + 65536 * b.value[2], b.next) : b \in Take(src, at, 4)}

readU32LE(src, at) == ReadU32(src, at)

\* TextDecoder drops a leading byte-order mark and replaces what is no character, the
\* whole string here, by U+FFFD.
WithoutMark(s) ==
    IF Len(s) >= 3 /\ SubSeq(s, 1, 3) = <<239, 187, 191>> THEN SubSeq(s, 4, Len(s)) ELSE s

TextDecoder(s) == IF Utf8(s) THEN WithoutMark(s) ELSE <<239, 191, 189>>

ts_string(src, at) ==
    UNION {{Got(TextDecoder(s.value), s.next) : s \in ts_slice(src, n.next, n.value)} :
              n \in readU32LE(src, at)}

ReadText(type, src, at) ==
    CASE type = "String" -> ReadString(src, at)
      [] type = "Option<String>" -> ReadOptionString(src, at)
      [] type = "decodeString" -> ts_string(src, at)

\* n texts in a row.
ReadTexts(type, src, at, n) ==
    LET many[i \in 0..n] ==
            IF i = 0 THEN {Got(<<>>, at)}
            ELSE UNION {{Got(Append(vs.value, v.value), v.next) :
                            v \in ReadText(type, src, vs.next)} : vs \in many[i - 1]}
    IN  many[n]

\* A pair takes eight bytes or more: a vector longer than that cannot be read.  Where the
\* Rust reader returns an error for it, the TypeScript one, which has no bound of its own,
\* runs out of bytes and throws: both find nothing.
ReadTextPairs(type, src, at) ==
    UNION {{Got([i \in 1..n.value |-> <<s.value[2 * i - 1], s.value[2 * i]>>], s.next) :
                s \in ReadTexts(type, src, n.next, 2 * n.value)} :
              n \in {x \in ReadU32(src, at) : x.value <= Len(src)}}

Named(s) == [name |-> s[1], symbol |-> s[2], image |-> s[3], description |-> s[4]]

\* unpack_from_slice of TokenMetadata and of TokenMetadataAttributes: bytes after
\* the value are ignored.
unpack_metadata(src) ==
    UNION {UNION {UNION {
        {Got([is_initialized |-> init.value, mint |-> mint.value, text |-> Named(texts.value),
              update_authority |-> IF auth.value = <<>> THEN <<>> ELSE auth.value[1]],
             auth.next) :
            auth \in ReadOptionKey(src, texts.next)} :
            texts \in ReadTexts("String", src, mint.next, 4)} :
            mint \in ReadKey(src, init.next)} :
            init \in ReadBool(src, 1)}

unpack_attributes(src) ==
    UNION {UNION {
        {Got([is_initialized |-> init.value, mint |-> mint.value, data |-> data.value],
             data.next) :
            data \in ReadTextPairs("String", src, mint.next)} :
            mint \in ReadKey(src, init.next)} :
            init \in ReadBool(src, 1)}

\* What follows the variant's index, for each variant.
ReadArguments(op, src) ==
    CASE op = "CreateMetadata" ->
           UNION {{Got([op |-> op, text |-> Named(t.value), immutable |-> b.value], b.next) :
                      b \in ReadBool(src, t.next)} : t \in ReadTexts("String", src, 2, 4)}
      [] op = "UpdateMetadata" ->
           {Got([op |-> op,
                 text |-> LET given == Named(t.value)
                          IN  [f \in {g \in DOMAIN given : given[g] # <<>>} |-> given[f][1]]],
                t.next) : t \in ReadTexts("Option<String>", src, 2, 4)}
      [] op \in {"CreateAttributes", "ReplaceAttributes"} ->
           {Got([op |-> op, data |-> d.value], d.next) : d \in ReadTextPairs("String", src, 2)}
      [] op = "TransferAuthority" ->
           {Got([op |-> op, new_authority |-> k.value], k.next) : k \in ReadKey(src, 2)}
      [] op = "MakeImmutable" -> {Got([op |-> op], 2)}

\* MetadataInstruction::unpack: from_slice also wants every byte used.
unpack(src) ==
    {ix \in UNION {ReadArguments(Variants[i], src) :
                      i \in {j \in DOMAIN Variants : src # <<>> /\ src[1] = j - 1}} :
        ix.next = Len(src) + 1}

-----------------------------------------------------------------------------
(* The TypeScript decoders: as the primitives above, and any tag but 0 is true *)

ts_option_key(src, at) ==
    IF src[at] = 0 THEN {Got(<<>>, at + 1)} ELSE ts_slice(src, at + 1, KeyLen)

ts_metadata(src) ==
    UNION {{Got([is_initialized |-> src[1] # 0, mint |-> SubSeq(src, 2, KeyLen + 1),
                 text |-> Named(texts.value), update_authority |-> auth.value], auth.next) :
               auth \in ts_option_key(src, texts.next)} :
               texts \in ReadTexts("decodeString", src, KeyLen + 2, 4)}

ts_attributes(src) ==
    {Got([is_initialized |-> src[1] # 0, mint |-> SubSeq(src, 2, KeyLen + 1),
          data |-> data.value], data.next) : data \in ReadTextPairs("decodeString", src, KeyLen + 2)}

-----------------------------------------------------------------------------
(* The program's two accounts and the instruction on its way to them *)

\* Pack::unpack: the exact length, and is_initialized; otherwise no value.
ValueIn(reads, data, len) ==
    LET values == {r.value : r \in {s \in reads : s.value.is_initialized}}
    IN  IF Len(data) = len /\ values # {} THEN CHOOSE v \in values : TRUE ELSE <<>>

StoredMetadata == ValueIn(unpack_metadata(metadata_data), metadata_data, METADATA_LEN)
StoredAttributes == ValueIn(unpack_attributes(attributes_data), attributes_data, ATTRIBUTES_LEN)

Values == INSTANCE TokenValues WITH metadata <- StoredMetadata, attributes <- StoredAttributes

FirstByteSet(data) == data # <<>> /\ data[1] # 0

\* create_account gives the data its length, and zeros.
Allocated(data, len) == IF data = <<>> THEN Zeros(len) ELSE data

Accepted(ix, md) ==
    CASE ix.op = "CreateMetadata"    -> ~FirstByteSet(metadata_data)
      [] ix.op = "CreateAttributes"  -> Values!Mutable(md) /\ ~FirstByteSet(attributes_data)
      [] ix.op = "ReplaceAttributes" -> Values!Mutable(md) /\ StoredAttributes # <<>>
      [] OTHER                       -> Values!Mutable(md)

\* A handler packs its value into the account; one that does not fit panics and
\* leaves the account alone.
Packed(bytes, data, len) ==
    IF Len(bytes) <= len THEN pack_into_slice(bytes, Allocated(data, len)) ELSE data

CodecInit == asked = Values!Idle /\ wire = <<>> /\ metadata_data = <<>> /\ attributes_data = <<>>

\* A client builds an instruction, with either SDK.
Ask(ix) ==
    /\ asked = Values!Idle
    /\ asked' = ix
    /\ \E build \in {pack(ix), ts_data(ix)} : wire' = build
    /\ UNCHANGED <<metadata_data, attributes_data>>

MetadataWriters == {"CreateMetadata", "UpdateMetadata", "TransferAuthority", "MakeImmutable"}

\* The program decodes the instruction and the accounts, and packs the account the
\* instruction writes.
Execute ==
    LET md == StoredMetadata
        run == {ix \in {read.value : read \in unpack(wire)} : Accepted(ix, md)}
    IN  /\ asked # Values!Idle
        /\ asked' = Values!Idle
        /\ wire' = <<>>
        /\ \/ \E ix \in run :
                /\ ix.op \in MetadataWriters
                /\ metadata_data' =
                      Packed(TokenMetadataBytes(Values!NewMetadata(ix, md)), metadata_data,
                             METADATA_LEN)
                /\ UNCHANGED attributes_data
           \/ \E ix \in run :
                /\ ix.op \notin MetadataWriters
                /\ attributes_data' =
                      Packed(TokenMetadataAttributesBytes(
                                 Values!NewAttributes(ix, StoredAttributes)),
                             attributes_data, ATTRIBUTES_LEN)
                /\ UNCHANGED metadata_data
           \/ run = {} /\ UNCHANGED <<metadata_data, attributes_data>>

CodecNext == (\E ix \in Instructions : Ask(ix)) \/ Execute

CodecSpec == CodecInit /\ [][CodecNext]_vars

-----------------------------------------------------------------------------
(* The fixture generator *)

sample_packed_metadata(md) == pack_into_slice(TokenMetadataBytes(md), Zeros(METADATA_LEN))
sample_packed_attributes(at) ==
    pack_into_slice(TokenMetadataAttributesBytes(at), Zeros(ATTRIBUTES_LEN))

-----------------------------------------------------------------------------
(* Properties *)

\* The bytes of an account are a function of its value, the ones the fixture
\* generator writes for it: whatever it held before, nothing of a longer value
\* stays behind a shorter one.
BytesOfTheValue ==
    /\ metadata_data # <<>> =>
          /\ StoredMetadata # <<>>
          /\ metadata_data = sample_packed_metadata(StoredMetadata)
    /\ attributes_data # <<>> =>
          /\ StoredAttributes # <<>>
          /\ attributes_data = sample_packed_attributes(StoredAttributes)

\* What the TypeScript reader makes of a value the Rust reader finds: the same but for
\* the byte-order marks its strings begin with.
WithoutMarks(md) ==
    [md EXCEPT !.text = [f \in DOMAIN md.text |-> WithoutMark(md.text[f])]]

EntriesWithoutMarks(at) ==
    [at EXCEPT !.data = [i \in DOMAIN at.data |-> <<WithoutMark(at.data[i][1]),
                                                  WithoutMark(at.data[i][2])>>]]

\* The TypeScript reader, which checks neither bounds nor tags nor characters, finds in
\* every account the value the Rust reader finds, and stops at the same byte.
ReadersAgree ==
    /\ metadata_data # <<>> =>
          ts_metadata(metadata_data) =
              {Got(WithoutMarks(r.value), r.next) : r \in unpack_metadata(metadata_data)}
    /\ attributes_data # <<>> =>
          ts_attributes(attributes_data) =
              {Got(EntriesWithoutMarks(r.value), r.next) :
                  r \in unpack_attributes(attributes_data)}

\* Accounts of bytes and instructions of bytes behave as the accounts of values
\* and the instructions of parameters do: what a client of either SDK asked for is
\* what the program does, and every value it accepts can be read back.
ImplementsValues == Values!Spec

-----------------------------------------------------------------------------
(* The inductive invariant *)

MetadataValue ==
    [is_initialized : {TRUE}, mint : Key, text : Given(Field), update_authority : Key \cup {<<>>}]

AttributesValue == [is_initialized : {TRUE}, mint : Key, data : EntryList]

\* What is on the wire is what was asked for, by whichever SDK, and what is stored is
\* what can be written again.
CodecIInv ==
    /\ asked \in Instructions \cup {Values!Idle}
    /\ wire = IF asked = Values!Idle THEN <<>> ELSE pack(asked)
    /\ metadata_data # <<>> => StoredMetadata \in MetadataValue
    /\ attributes_data # <<>> => StoredAttributes \in AttributesValue
    /\ BytesOfTheValue
=============================================================================
