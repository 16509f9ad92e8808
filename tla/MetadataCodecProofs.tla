-------------------------- MODULE MetadataCodecProofs --------------------------
(***************************************************************************)
(* Proofs about MetadataCodec, for keys of any length, any caps a u32 can  *)
(* count and any strings within them.                                      *)
(*                                                                         *)
(* A value is written as one piece of bytes after the other, and every     *)
(* reader is shown to find in bytes that hold a piece At its position the  *)
(* value the piece was written from, and the position after it             *)
(* (...At, for each kind of piece).                                        *)
(***************************************************************************)
EXTENDS MetadataCodec, SequenceTheorems, WellFoundedInduction, TLAPS

-----------------------------------------------------------------------------
(* Pieces of bytes *)

Bytes == Seq(Byte)
Size(b) == Len(b)

\* The piece b lies in src at position at.
At(src, at, b) ==
    /\ at + Len(b) - 1 <= Len(src)
    /\ \A i \in 1..Len(b) : src[at + i - 1] = b[i]

LEMMA SizeIsNat == ASSUME NEW b \in Bytes PROVE Size(b) \in Nat
  BY LenProperties DEF Bytes, Size

LEMMA ConcatBytes ==
    ASSUME NEW a \in Bytes, NEW b \in Bytes
    PROVE  a \o b \in Bytes /\ Size(a \o b) = Size(a) + Size(b)
  BY ConcatProperties DEF Bytes, Size

\* A sequence lies at the start of itself, whatever follows it.
LEMMA AtStart ==
    ASSUME NEW a \in Bytes, NEW b \in Bytes
    PROVE  At(a, 1, a) /\ At(a \o b, 1, a)
  BY ConcatProperties, LenProperties DEF At, Bytes

\* Two pieces in a row are each where they should be.
LEMMA AtConcat ==
    ASSUME NEW src \in Bytes, NEW at \in Nat, NEW a \in Bytes, NEW b \in Bytes,
           NEW n \in Nat, Size(a) = n, At(src, at, a \o b)
    PROVE  At(src, at, a) /\ At(src, at + n, b)
  <1>0. Len(a) = n
    BY DEF Size
  <1>1. /\ Len(a) \in Nat /\ Len(b) \in Nat /\ Len(src) \in Nat /\ at \in Nat
        /\ Len(a \o b) = Len(a) + Len(b)
    BY ConcatProperties, LenProperties DEF Bytes
  <1>2. ASSUME NEW i \in 1..Len(a) PROVE (a \o b)[i] = a[i] /\ i \in 1..Len(a \o b)
    BY <1>1, ConcatProperties DEF Bytes
  <1>3. ASSUME NEW i \in 1..Len(b)
        PROVE  (a \o b)[Len(a) + i] = b[i] /\ Len(a) + i \in 1..Len(a \o b)
    BY <1>1, ConcatProperties DEF Bytes
  <1>4. At(src, at, a)
    BY <1>1, <1>2 DEF At
  <1>5. ASSUME NEW i \in 1..Len(b) PROVE src[(at + Len(a)) + i - 1] = b[i]
    <2>1. src[at + (Len(a) + i) - 1] = b[i]
      BY <1>3 DEF At
    <2>2. at + (Len(a) + i) - 1 = (at + Len(a)) + i - 1
      BY <1>1
    <2> QED
      BY <2>1, <2>2
  <1>6. (at + Len(a)) + Len(b) - 1 <= Len(src)
    BY <1>1 DEF At
  <1> QED
    BY <1>0, <1>4, <1>5, <1>6 DEF At

\* What is taken from where a piece lies is the piece.
LEMMA TakeAt ==
    ASSUME NEW src \in Bytes, NEW at \in Nat, NEW b \in Bytes, NEW n \in Nat, Size(b) = n,
           At(src, at, b)
    PROVE  /\ Take(src, at, n) = {Got(b, at + n)}
           /\ ts_slice(src, at, n) = {Got(b, at + n)}
  <1> DEFINE last == at + Len(b) - 1
  <1>1. at \in Nat /\ Len(b) \in Nat /\ Len(src) \in Nat /\ last \in Int /\ last <= Len(src)
    BY LenProperties DEF Bytes, At
  <1>2. ASSUME NEW i \in at..last PROVE src[i] \in Byte
    <2>1. i - at + 1 \in 1..Len(b) /\ at + (i - at + 1) - 1 = i
      BY <1>1
    <2>2. b[i - at + 1] \in Byte
      BY <2>1, ElementOfSeq DEF Bytes
    <2> QED
      BY <2>1, <2>2 DEF At
  <1>3. /\ SubSeq(src, at, last) \in Bytes
        /\ Len(SubSeq(src, at, last)) = Len(b)
        /\ \A i \in 1..Len(b) : SubSeq(src, at, last)[i] = src[at + i - 1]
    <2>1. /\ SubSeq(src, at, last) \in Seq(Byte)
          /\ Len(SubSeq(src, at, last)) = IF at <= last THEN last - at + 1 ELSE 0
          /\ \A i \in 1..(last - at + 1) : SubSeq(src, at, last)[i] = src[at + i - 1]
      BY <1>1, <1>2, SubSeqProperties
    <2>2. last - at + 1 = Len(b)
      BY <1>1
    <2> HIDE DEF last
    <2> QED
      BY <1>1, <2>1, <2>2 DEF Bytes
  <1>4. SubSeq(src, at, last) = b
    BY <1>3, SeqEqual DEF At, Bytes
  <1> QED
    BY <1>1, <1>4 DEF Take, ts_slice, Size

\* A Boolean where it should be.
LEMMA FirstAt ==
    ASSUME NEW src, NEW at \in Nat, NEW b, At(src, at, Bool(b))
    PROVE  src[at] = Bool(b)[1]
  <1>1. Len(Bool(b)) = 1 /\ 1 \in 1..1 /\ at + 1 - 1 = at
    BY DEF Bool
  <1> QED
    BY <1>1 DEF At

LEMMA KeyBytes == ASSUME NEW key \in Key PROVE key \in Bytes /\ Size(key) = KeyLen
  BY CodecAssumption DEF Key, Bytes, Size

LEMMA ZerosBytes == ASSUME NEW n \in Nat PROVE Zeros(n) \in Bytes /\ Size(Zeros(n)) = n
  BY DEF Zeros, Bytes, Byte, Size

-----------------------------------------------------------------------------
(* The pieces themselves *)

\* The number four bytes spell.
Spelled(b) == b[1] + 256 * b[2] + 65536 * b[3] + 16777216 * b[4]

\* What a length prefix can count.
Count == {n \in Nat : n <= 2147483647}

LEMMA U32Bytes ==
    ASSUME NEW n \in Count
    PROVE  U32(n) \in Bytes /\ Size(U32(n)) = 4 /\ Spelled(U32(n)) = n
  <1> DEFINE b1 == n % 256
             b2 == (n \div 256) % 256
             b3 == (n \div 65536) % 256
             b4 == n \div 16777216
  <1>1. b1 \in Byte /\ b2 \in Byte /\ b3 \in Byte /\ b4 \in Byte
    BY SMT DEF Byte, Count
  <1>2. b1 + 256 * b2 + 65536 * b3 + 16777216 * b4 = n
    BY SMT DEF Count
  <1>3. U32(n) = <<b1, b2, b3, b4>>
    BY DEF U32
  <1> HIDE DEF b1, b2, b3, b4
  <1> DEFINE u == <<b1, b2, b3, b4>>
  <1>4. u \in Seq(Byte) /\ Size(u) = 4
    BY <1>1 DEF Size
  <1>5. u[1] = b1 /\ u[2] = b2 /\ u[3] = b3 /\ u[4] = b4
    OBVIOUS
  <1> HIDE DEF u
  <1>6. Spelled(u) = n
    BY <1>2, <1>5, SMT DEF Spelled
  <1> QED
    BY <1>3, <1>4, <1>6 DEF Bytes, u

LEMMA BoolBytes == ASSUME NEW b PROVE Bool(b) \in Bytes /\ Size(Bool(b)) = 1
  BY DEF Bool, Bytes, Byte, Size

Countable == {s \in Bytes : Size(s) \in Count}

LEMMA StringBytes ==
    ASSUME NEW s \in Countable
    PROVE  String(s) \in Bytes /\ Size(String(s)) = 4 + Size(s)
  <1>1. Size(s) \in Count /\ s \in Bytes /\ Size(s) \in Nat
    BY SizeIsNat DEF Countable
  <1> DEFINE prefix == U32(Size(s))
  <1>2. prefix \in Bytes /\ Size(prefix) = 4
    BY <1>1, U32Bytes
  <1>3. String(s) = prefix \o s
    BY DEF String, Size
  <1> HIDE DEF prefix
  <1>4. prefix \o s \in Bytes /\ Size(prefix \o s) = Size(prefix) + Size(s)
    BY <1>1, <1>2, ConcatBytes
  <1> QED
    BY <1>2, <1>3, <1>4

-----------------------------------------------------------------------------
(* Reading them back *)

LEMMA GotParts == ASSUME NEW v, NEW n PROVE Got(v, n).value = v /\ Got(v, n).next = n
  BY DEF Got

LEMMA GotFalse == ASSUME NEW n PROVE ~Got(FALSE, n).value /\ Got(FALSE, n).next = n
  BY DEF Got

LEMMA ReadU32At ==
    ASSUME NEW src \in Bytes, NEW at \in Nat, NEW n \in Count, At(src, at, U32(n))
    PROVE  ReadU32(src, at) = {Got(n, at + 4)}
  <1>1. U32(n) \in Bytes /\ Size(U32(n)) = 4 /\ Spelled(U32(n)) = n
    BY U32Bytes
  <1>2. Take(src, at, 4) = {Got(U32(n), at + 4)}
    BY <1>1, TakeAt
  <1>3. ReadU32(src, at) = {Got(Spelled(b.value), b.next) : b \in Take(src, at, 4)}
    BY SMT DEF ReadU32, Spelled
  <1> QED
    BY <1>1, <1>2, <1>3 DEF Got

LEMMA ReadBoolAt ==
    ASSUME NEW src \in Bytes, NEW at \in Nat, NEW b \in BOOLEAN, At(src, at, Bool(b))
    PROVE  ReadBool(src, at) = {Got(b, at + 1)}
  <1>1. Take(src, at, 1) = {Got(Bool(b), at + 1)}
    <2>1. Bool(b) \in Bytes /\ Size(Bool(b)) = 1
      BY BoolBytes
    <2> QED
      BY <2>1, TakeAt
  <1>2. ReadBool(src, at) = {Got(Bool(b)[1] = 1, at + 1)}
    <2> DEFINE read == Got(Bool(b), at + 1)
    <2>1. read.value[1] \in {0, 1} /\ read.value = Bool(b) /\ read.next = at + 1
      BY DEF Bool, Got
    <2> HIDE DEF read
    <2>2. {x \in {read} : x.value[1] \in {0, 1}} = {read}
      BY <2>1
    <2>3. {Got(x.value[1] = 1, x.next) : x \in {read}} = {Got(Bool(b)[1] = 1, at + 1)}
      BY <2>1
    <2> QED
      BY <1>1, <2>2, <2>3 DEF ReadBool, read
  <1>3. (Bool(b)[1] = 1) = b
    BY DEF Bool
  <1> QED
    BY <1>2, <1>3

LEMMA ReadKeyAt ==
    ASSUME NEW src \in Bytes, NEW at \in Nat, NEW key \in Key, At(src, at, key)
    PROVE  /\ ReadKey(src, at) = {Got(key, at + KeyLen)}
           /\ ts_slice(src, at, KeyLen) = {Got(key, at + KeyLen)}
  <1>1. key \in Bytes /\ Size(key) = KeyLen /\ KeyLen \in Nat
    BY KeyBytes, CodecAssumption
  <1> QED
    BY <1>1, TakeAt DEF ReadKey

\* The prefix of a string and its bytes are where they should be.
LEMMA StringAt ==
    ASSUME NEW src \in Bytes, NEW at \in Nat, NEW s \in Countable, At(src, at, String(s))
    PROVE  /\ ReadU32(src, at) = {Got(Size(s), at + 4)}
           /\ Take(src, at + 4, Size(s)) = {Got(s, at + 4 + Size(s))}
           /\ ts_slice(src, at + 4, Size(s)) = {Got(s, at + 4 + Size(s))}
  <1>1. s \in Bytes /\ Size(s) \in Count
    BY DEF Countable
  <1>2. U32(Size(s)) \in Bytes /\ Size(U32(Size(s))) = 4
    BY <1>1, U32Bytes
  <1>3. At(src, at, U32(Size(s))) /\ At(src, at + 4, s)
    BY <1>1, <1>2, AtConcat DEF String, Size
  <1>4. at + 4 \in Nat /\ Size(s) \in Nat /\ Len(s) = Size(s)
    BY <1>1, SizeIsNat DEF Size
  <1> QED
    BY <1>1, <1>3, <1>4, ReadU32At, TakeAt

LEMMA ReadStringAt ==
    ASSUME NEW src \in Bytes, NEW at \in Nat, NEW s \in Countable, Utf8(s),
           At(src, at, String(s))
    PROVE  /\ ReadString(src, at) = {Got(s, at + 4 + Size(s))}
           /\ ts_string(src, at) = {Got(WithoutMark(s), at + 4 + Size(s))}
  <1>1. /\ ReadU32(src, at) = {Got(Size(s), at + 4)}
        /\ Take(src, at + 4, Size(s)) = {Got(s, at + 4 + Size(s))}
        /\ ts_slice(src, at + 4, Size(s)) = {Got(s, at + 4 + Size(s))}
    BY StringAt
  <1> DEFINE last == at + 4 + Size(s)
             prefix == Got(Size(s), at + 4)
             read == Got(s, last)
  <1>2. prefix.value = Size(s) /\ prefix.next = at + 4 /\ read.value = s /\ read.next = last
    BY DEF Got
  <1>3. TextDecoder(s) = WithoutMark(s)
    BY DEF TextDecoder
  <1> HIDE DEF prefix, read, last
  <1>4. ReadString(src, at) = {read}
    <2>1. UNION {Take(src, n.next, n.value) : n \in {prefix}} = {read}
      BY <1>1, <1>2 DEF read, last
    <2>2. {x \in {read} : Utf8(x.value)} = {read}
      BY <1>2
    <2> QED
      BY <1>1, <2>1, <2>2 DEF ReadString, prefix
  <1>5. ts_string(src, at) = {Got(WithoutMark(s), last)}
    <2>1. ts_slice(src, prefix.next, prefix.value) = {read}
      BY <1>1, <1>2 DEF read, last
    <2>2. {Got(TextDecoder(x.value), x.next) : x \in {read}} = {Got(WithoutMark(s), last)}
      BY <1>2, <1>3
    <2>3. ts_string(src, at) =
             UNION {{Got(TextDecoder(x.value), x.next) : x \in ts_slice(src, n.next, n.value)} :
                       n \in {prefix}}
      BY <1>1 DEF ts_string, readU32LE, prefix, Size
    <2>4. @ = {Got(TextDecoder(x.value), x.next) : x \in ts_slice(src, prefix.next, prefix.value)}
      OBVIOUS
    <2> QED
      BY <2>1, <2>2, <2>3, <2>4
  <1> QED
    BY <1>4, <1>5 DEF read, last

LEMMA OptionalSome ==
    ASSUME NEW tag, tag.value, NEW v, NEW n
    PROVE  Optional(tag, {Got(v, n)}) = {Got(<<v>>, n)}
  <1> DEFINE read == Got(v, n)
  <1>1. read.value = v /\ read.next = n
    BY GotParts
  <1> HIDE DEF read
  <1>2. {Got(<<x.value>>, x.next) : x \in {read}} = {Got(<<v>>, n)}
    BY <1>1
  <1> QED
    BY <1>2 DEF Optional, read

LEMMA OptionalNone ==
    ASSUME NEW tag, ~tag.value, NEW values
    PROVE  Optional(tag, values) = {Got(<<>>, tag.next)}
  BY DEF Optional

LEMMA ReadOptionStringAt ==
    ASSUME NEW src \in Bytes, NEW at \in Nat, NEW given, NEW f,
           f \in DOMAIN given => given[f] \in Countable /\ Utf8(given[f]),
           At(src, at, OptionString(given, f))
    PROVE  ReadOptionString(src, at) =
              {Got(IF f \in DOMAIN given THEN <<given[f]>> ELSE <<>>,
                   at + Size(OptionString(given, f)))}
  <1>1. at + 1 \in Nat
    OBVIOUS
  <1>2. CASE f \in DOMAIN given
    <2>1. OptionString(given, f) = Bool(TRUE) \o String(given[f])
      BY <1>2 DEF OptionString, Bool
    <2>2. Bool(TRUE) \in Bytes /\ Size(Bool(TRUE)) = 1
      BY BoolBytes
    <2>3. String(given[f]) \in Bytes /\ Size(String(given[f])) = 4 + Size(given[f])
      BY <1>2, StringBytes
    <2>4. At(src, at, Bool(TRUE)) /\ At(src, at + 1, String(given[f]))
      BY <2>1, <2>2, <2>3, AtConcat
    <2>5. ReadBool(src, at) = {Got(TRUE, at + 1)}
      BY <2>4, ReadBoolAt
    <2>6. ReadString(src, at + 1) = {Got(given[f], at + 1 + 4 + Size(given[f]))}
      BY <1>1, <1>2, <2>4, ReadStringAt
    <2>7. /\ Size(OptionString(given, f)) = 1 + (4 + Size(given[f]))
          /\ Size(given[f]) \in Nat
      BY <1>2, <2>1, <2>2, <2>3, ConcatBytes, SizeIsNat DEF Countable
    <2>8. at + 1 + 4 + Size(given[f]) = at + Size(OptionString(given, f))
      BY <1>1, <2>7
    <2> DEFINE tag == Got(TRUE, at + 1)
    <2>9. tag.value /\ tag.next = at + 1 /\ ReadBool(src, at) = {tag}
      BY <2>5, GotParts, Zenon
    <2> HIDE DEF tag
    <2>10. ReadOptionString(src, at) = Optional(tag, ReadString(src, at + 1))
      BY <2>9 DEF ReadOptionString
    <2> QED
      BY <1>2, <2>6, <2>8, <2>9, <2>10, OptionalSome
  <1>3. CASE f \notin DOMAIN given
    <2>1. OptionString(given, f) = Bool(FALSE)
      BY <1>3 DEF OptionString, Bool
    <2>2. ReadBool(src, at) = {Got(FALSE, at + 1)} /\ Size(Bool(FALSE)) = 1
      BY <2>1, ReadBoolAt, BoolBytes
    <2> DEFINE tag == Got(FALSE, at + 1)
    <2>3. ~tag.value /\ tag.next = at + 1 /\ ReadBool(src, at) = {tag}
      BY <2>2, GotFalse
    <2> HIDE DEF tag
    <2>4. ReadOptionString(src, at) = Optional(tag, ReadString(src, at + 1))
      BY <2>3 DEF ReadOptionString
    <2>5. ReadOptionString(src, at) = {Got(<<>>, at + 1)}
      BY <2>3, <2>4, OptionalNone
    <2> QED
      BY <1>3, <2>1, <2>2, <2>5
  <1> QED
    BY <1>2, <1>3

LEMMA ReadOptionKeyAt ==
    ASSUME NEW src \in Bytes, NEW at \in Nat, NEW key \in Key \cup {<<>>},
           At(src, at, OptionPubkey(key))
    PROVE  /\ ReadOptionKey(src, at) =
                 {Got(IF key = <<>> THEN <<>> ELSE <<key>>, at + Size(OptionPubkey(key)))}
           /\ ts_option_key(src, at) = {Got(key, at + Size(OptionPubkey(key)))}
  <1>1. at + 1 \in Nat /\ KeyLen \in Nat
    BY CodecAssumption
  <1>2. CASE key # <<>>
    <2>1. OptionPubkey(key) = Bool(TRUE) \o key
      BY <1>2 DEF OptionPubkey, Bool
    <2>2. Bool(TRUE) \in Bytes /\ Size(Bool(TRUE)) = 1 /\ Bool(TRUE)[1] = 1
      BY BoolBytes DEF Bool
    <2>3. key \in Key /\ key \in Bytes /\ Size(key) = KeyLen
      BY <1>2, KeyBytes
    <2>4. At(src, at, Bool(TRUE)) /\ At(src, at + 1, key)
      BY <2>1, <2>2, <2>3, AtConcat
    <2>5. ReadBool(src, at) = {Got(TRUE, at + 1)} /\ src[at] = 1
      BY <2>4, ReadBoolAt, FirstAt DEF Bool
    <2>6. /\ ReadKey(src, at + 1) = {Got(key, at + 1 + KeyLen)}
          /\ ts_slice(src, at + 1, KeyLen) = {Got(key, at + 1 + KeyLen)}
      BY <1>1, <2>3, <2>4, ReadKeyAt
    <2>7. at + Size(OptionPubkey(key)) = at + 1 + KeyLen
      <3>1. Size(OptionPubkey(key)) = 1 + KeyLen
        BY <2>1, <2>2, <2>3, ConcatBytes
      <3> QED
        BY <1>1, <3>1
    <2> DEFINE tag == Got(TRUE, at + 1)
    <2>8. tag.value /\ tag.next = at + 1 /\ ReadBool(src, at) = {tag}
      BY <2>5, GotParts, Zenon
    <2> HIDE DEF tag
    <2>9. ReadOptionKey(src, at) = Optional(tag, ReadKey(src, at + 1))
      BY <2>8 DEF ReadOptionKey
    <2>10. ReadOptionKey(src, at) = {Got(<<key>>, at + 1 + KeyLen)}
      BY <2>6, <2>8, <2>9, OptionalSome
    <2>11. ts_option_key(src, at) = {Got(key, at + 1 + KeyLen)}
      BY <2>5, <2>6 DEF ts_option_key
    <2> QED
      BY <1>2, <2>7, <2>10, <2>11
  <1>3. CASE key = <<>>
    <2>1. OptionPubkey(key) = Bool(FALSE)
      BY <1>3 DEF OptionPubkey, Bool
    <2>2. ReadBool(src, at) = {Got(FALSE, at + 1)} /\ Size(Bool(FALSE)) = 1
      BY <2>1, ReadBoolAt, BoolBytes
    <2>3. src[at] = 0
      BY <2>1, FirstAt DEF Bool
    <2> DEFINE tag == Got(FALSE, at + 1)
    <2>4. ~tag.value /\ tag.next = at + 1 /\ ReadBool(src, at) = {tag}
      BY <2>2, GotFalse
    <2> HIDE DEF tag
    <2>5. ReadOptionKey(src, at) = Optional(tag, ReadKey(src, at + 1))
      BY <2>4 DEF ReadOptionKey
    <2>6. ts_option_key(src, at) = {Got(key, at + 1)}
      BY <1>3, <2>3 DEF ts_option_key
    <2>7. ReadOptionKey(src, at) = {Got(<<>>, at + 1)}
      BY <2>4, <2>5, OptionalNone
    <2> QED
      BY <1>3, <2>1, <2>2, <2>6, <2>7
  <1> QED
    BY <1>2, <1>3

-----------------------------------------------------------------------------
(* Texts in a row *)

\* Induction, for a set: one that is not empty has a least member.
LEMMA LeastMember ==
    ASSUME NEW S \in SUBSET Nat, S # {}
    PROVE  \E x \in S : \A y \in S : x =< y
  <1>1. PICK x \in S : \A y \in S : <<y, x>> \notin OpToRel(<, Nat)
    BY WFMin, NatLessThanWellFounded, Zenon
  <1>2. \A y \in S : x =< y
    <2> SUFFICES ASSUME NEW y \in S, y < x PROVE FALSE
      OBVIOUS
    <2> QED
      BY <1>1 DEF OpToRel
  <1> QED
    BY <1>2

\* A reader finds the value, and stops at the position.
Finds(found, value, next) == found = {Got(value, next)}

\* One text more after those found.
Longer(type, src, found) ==
    UNION {{Got(Append(vs.value, v.value), v.next) : v \in ReadText(type, src, vs.next)} :
              vs \in found}

LEMMA OneTextMore ==
    ASSUME NEW type, NEW src, NEW x, NEW p, NEW y, NEW q,
           Finds(ReadText(type, src, p), y, q)
    PROVE  Finds(Longer(type, src, {Got(x, p)}), Append(x, y), q)
  <1> DEFINE before == Got(x, p)
             read == Got(y, q)
  <1>1. before.value = x /\ before.next = p /\ read.value = y /\ read.next = q
    BY GotParts
  <1> HIDE DEF before, read
  <1>2. {Got(Append(x, v.value), v.next) : v \in {read}} = {Got(Append(x, y), q)}
    BY <1>1
  <1>3. Longer(type, src, {before})
          = {Got(Append(x, v.value), v.next) : v \in ReadText(type, src, p)}
    BY <1>1 DEF Longer
  <1> QED
    BY <1>2, <1>3 DEF Finds, before, read

\* Where each text begins at the position after the one before it, ReadTexts finds them all.
LEMMA ReadTextsAt ==
    ASSUME NEW type, NEW src, NEW n \in Nat, NEW S, NEW val \in Seq(S), Size(val) = n,
           NEW pos,
           \A i \in 1..n : Finds(ReadText(type, src, pos[i]), val[i], pos[i + 1])
    PROVE  Finds(ReadTexts(type, src, pos[1], n), val, pos[n + 1])
  <1> DEFINE Step(g, i) ==
                IF i = 0 THEN {Got(<<>>, pos[1])}
                ELSE Longer(type, src, g[i - 1])
             found == [i \in 0..n |-> {Got(SubSeq(val, 1, i), pos[i + 1])}]
             many == CHOOSE g : g = [i \in 0..n |-> Step(g, i)]
             Wrong == {i \in 0..n : many[i] # found[i]}
  <1>0. Len(val) = n
    BY DEF Size
  <1>1. ReadTexts(type, src, pos[1], n) = many[n]
    BY DEF ReadTexts, Longer
  <1>2. ASSUME NEW g, NEW i \in 1..n, g[i - 1] = found[i - 1]
        PROVE  Step(g, i) = found[i]
    <2> DEFINE x == SubSeq(val, 1, i - 1)
               p == pos[i]
               q == pos[i + 1]
    <2>1. i - 1 \in 0..n /\ i \in 0..n /\ i # 0 /\ (i - 1) + 1 = i
      OBVIOUS
    <2>2. g[i - 1] = {Got(x, p)}
      BY <1>2, <2>1
    <2>3. Finds(ReadText(type, src, p), val[i], q)
      OBVIOUS
    <2>4. Append(x, val[i]) = SubSeq(val, 1, i)
      <3>1. 1 \in 1..Len(val) /\ i \in 1..Len(val)
        BY <1>0
      <3>2. SubSeq(val, 1, i) = x \o <<val[i]>>
        BY <3>1, SubSeqRecursiveSecond
      <3>3. x \in Seq(S) /\ val[i] \in S
        BY <3>1, SubSeqProperties, ElementOfSeq
      <3> QED
        BY <3>2, <3>3, AppendIsConcat
    <2>5. Step(g, i) = Longer(type, src, {Got(x, p)})
      BY <2>1, <2>2
    <2>6. found[i] = {Got(SubSeq(val, 1, i), q)}
      BY <2>1
    <2> HIDE DEF Step, found, x, p, q
    <2>7. Finds(Longer(type, src, {Got(x, p)}), Append(x, val[i]), q)
      BY <2>3, OneTextMore
    <2> QED
      BY <2>4, <2>5, <2>6, <2>7 DEF Finds
  <1>3. ASSUME NEW g PROVE Step(g, 0) = found[0]
    <2>1. SubSeq(val, 1, 0) = <<>>
      BY SubSeqEmpty
    <2>2. found[0] = {Got(SubSeq(val, 1, 0), pos[0 + 1])} /\ 0 + 1 = 1
      <3>1. 0 \in 0..n
        OBVIOUS
      <3> QED
        BY <3>1
    <2> HIDE DEF found
    <2> QED
      BY <2>1, <2>2
  <1> HIDE DEF Step
  <1>4. many = [i \in 0..n |-> Step(many, i)]
    <2>1. ASSUME NEW i \in 0..n PROVE found[i] = Step(found, i)
      <3>1. i = 0 \/ i \in 1..n
        OBVIOUS
      <3> HIDE DEF found
      <3> QED
        BY <1>2, <1>3, <3>1
    <2>2. found = [i \in 0..n |-> Step(found, i)]
      BY <2>1
    <2> HIDE DEF found
    <2> QED
      BY <2>2
  <1> HIDE DEF found, many
  <1>5. ASSUME Wrong # {} PROVE FALSE
    <2>1. Wrong \in SUBSET Nat
      OBVIOUS
    <2> HIDE DEF Wrong
    <2>2. PICK i \in Wrong : \A j \in Wrong : i =< j
      BY <1>5, <2>1, LeastMember
    <2> USE DEF Wrong
    <2>3. i \in 0..n /\ many[i] = Step(many, i)
      BY <1>4, <2>2
    <2>4. i # 0
      BY <1>3, <2>2, <2>3
    <2>5. i \in 1..n /\ i - 1 \in 0..n /\ i - 1 \notin Wrong
      BY <2>2, <2>3, <2>4
    <2> QED
      BY <1>2, <2>2, <2>3, <2>5
  <1>6. many[n] = found[n]
    BY <1>5
  <1>7. SubSeq(val, 1, n) = val
    BY <1>0, SubSeqFull
  <1>8. found[n] = {Got(SubSeq(val, 1, n), pos[n + 1])}
    BY DEF found
  <1> QED
    BY <1>1, <1>6, <1>7, <1>8 DEF Finds

LEMMA FourTexts ==
    ASSUME NEW type, NEW src, NEW p1, NEW p2, NEW p3, NEW p4, NEW p5,
           NEW v1, NEW v2, NEW v3, NEW v4,
           Finds(ReadText(type, src, p1), v1, p2), Finds(ReadText(type, src, p2), v2, p3),
           Finds(ReadText(type, src, p3), v3, p4), Finds(ReadText(type, src, p4), v4, p5)
    PROVE  Finds(ReadTexts(type, src, p1, 4), <<v1, v2, v3, v4>>, p5)
  <1> DEFINE val == <<v1, v2, v3, v4>>
             pos == <<p1, p2, p3, p4, p5>>
             S == {v1, v2, v3, v4}
             n == 4
  <1>1. val \in Seq(S) /\ Size(val) = n /\ n \in Nat
    BY DEF Size
  <1>2. ASSUME NEW i \in 1..n
        PROVE  Finds(ReadText(type, src, pos[i]), val[i], pos[i + 1])
    <2>1. i = 1 \/ i = 2 \/ i = 3 \/ i = 4
      OBVIOUS
    <2> QED
      BY <2>1
  <1>3. pos[1] = p1 /\ pos[n + 1] = p5
    OBVIOUS
  <1> HIDE DEF val, pos, S, n
  <1>4. Finds(ReadTexts(type, src, pos[1], n), val, pos[n + 1])
    BY <1>1, <1>2, ReadTextsAt
  <1> QED
    BY <1>3, <1>4 DEF val, n

\* What the reader of a kind of text makes of one.
Decoded(type, s) == IF type = "decodeString" THEN WithoutMark(s) ELSE s

Plain == {"String", "decodeString"}
Valid == {s \in Countable : Utf8(s)}

LEMMA ReadTextAt ==
    ASSUME NEW type \in Plain, NEW src \in Bytes, NEW at \in Nat, NEW s \in Valid,
           At(src, at, String(s))
    PROVE  Finds(ReadText(type, src, at), Decoded(type, s), at + 4 + Size(s))
  <1>1. /\ ReadString(src, at) = {Got(s, at + 4 + Size(s))}
        /\ ts_string(src, at) = {Got(WithoutMark(s), at + 4 + Size(s))}
    BY ReadStringAt DEF Valid
  <1> HIDE DEF Valid
  <1>2. CASE type = "String"
    BY <1>1, <1>2 DEF ReadText, Decoded, Finds
  <1>3. CASE type = "decodeString"
    BY <1>1, <1>3 DEF ReadText, Decoded, Finds
  <1> QED
    BY <1>2, <1>3 DEF Plain

\* Four pieces in a row.
LEMMA FourBytes ==
    ASSUME NEW a \in Bytes, NEW b \in Bytes, NEW c \in Bytes, NEW d \in Bytes
    PROVE  /\ a \o b \in Bytes /\ a \o b \o c \in Bytes /\ a \o b \o c \o d \in Bytes
           /\ Size(a \o b) = Size(a) + Size(b)
           /\ Size(a \o b \o c) = Size(a) + Size(b) + Size(c)
           /\ Size(a \o b \o c \o d) = Size(a) + Size(b) + Size(c) + Size(d)
  <1> DEFINE ab == a \o b
             abc == ab \o c
  <1>1. ab \in Bytes /\ Size(ab) = Size(a) + Size(b)
    BY ConcatBytes
  <1> HIDE DEF ab
  <1>2. abc \in Bytes /\ Size(abc) = Size(ab) + Size(c)
    BY <1>1, ConcatBytes
  <1> HIDE DEF abc
  <1>3. abc \o d \in Bytes /\ Size(abc \o d) = Size(abc) + Size(d)
    BY <1>2, ConcatBytes
  <1> QED
    BY <1>1, <1>2, <1>3 DEF abc, ab

LEMMA FourAt ==
    ASSUME NEW src \in Bytes, NEW at \in Nat,
           NEW a \in Bytes, NEW b \in Bytes, NEW c \in Bytes, NEW d \in Bytes,
           At(src, at, a \o b \o c \o d)
    PROVE  /\ At(src, at, a)
           /\ At(src, at + Size(a), b)
           /\ At(src, at + Size(a) + Size(b), c)
           /\ At(src, at + Size(a) + Size(b) + Size(c), d)
  <1> DEFINE ab == a \o b
             abc == ab \o c
  <1>1. Size(a) \in Nat /\ Size(b) \in Nat /\ Size(c) \in Nat
    BY SizeIsNat
  <1>2. /\ ab \in Bytes /\ abc \in Bytes
        /\ Size(ab) = Size(a) + Size(b)
        /\ Size(abc) = Size(a) + Size(b) + Size(c)
    BY FourBytes
  <1>3. At(src, at, ab) => At(src, at, a) /\ At(src, at + Size(a), b)
    BY <1>1, AtConcat
  <1> HIDE DEF ab
  <1>4. Size(abc) \in Nat /\ Size(ab) \in Nat
    BY <1>2, SizeIsNat
  <1>5. At(src, at, abc) => At(src, at, ab) /\ At(src, at + Size(ab), c)
    BY <1>2, <1>4, AtConcat
  <1>6. At(src, at, abc \o d)
    BY DEF ab
  <1> HIDE DEF abc
  <1>7. At(src, at, abc) /\ At(src, at + Size(abc), d)
    BY <1>2, <1>4, <1>6, AtConcat
  <1>8. /\ at + Size(abc) = at + Size(a) + Size(b) + Size(c)
        /\ at + Size(ab) = at + Size(a) + Size(b)
    BY <1>1, <1>2
  <1> QED
    BY <1>3, <1>5, <1>7, <1>8

-----------------------------------------------------------------------------
(* Texts within their caps *)

LEMMA LimitsAreCounts == ASSUME NEW f \in DOMAIN Limit PROVE Limit[f] \in Count
  BY CodecAssumption, SMT DEF Count

LEMMA FieldsAreLimited == Field \cup {"key", "value", "entries"} = DOMAIN Limit
  BY CodecAssumption

\* A string within a cap can be written, and takes four bytes more than it has.
LEMMA StringFits ==
    ASSUME NEW f \in DOMAIN Limit, NEW s \in Strings(Limit[f])
    PROVE  /\ s \in Valid /\ s \in Bytes /\ Size(s) \in Nat /\ Size(s) <= Limit[f]
           /\ Limit[f] \in Nat
           /\ String(s) \in Bytes /\ Size(String(s)) = 4 + Size(s)
  <1>1. s \in Bytes /\ Size(s) <= Limit[f] /\ Utf8(s)
    BY DEF Strings, Bytes, Size
  <1>2. Size(s) \in Nat
    BY <1>1, SizeIsNat
  <1>3. Limit[f] \in Nat /\ Size(s) \in Count
    BY <1>1, <1>2, LimitsAreCounts, SMT DEF Count
  <1>4. s \in Countable
    BY <1>1, <1>3 DEF Countable
  <1> QED
    BY <1>1, <1>2, <1>3, <1>4, StringBytes DEF Valid

LEMMA FieldFits ==
    ASSUME NEW text \in Given(Field), NEW f \in Field
    PROVE  /\ text[f] \in Valid /\ text[f] \in Bytes
           /\ Size(text[f]) \in Nat /\ Size(text[f]) <= Limit[f] /\ Limit[f] \in Nat
           /\ String(text[f]) \in Bytes /\ Size(String(text[f])) = 4 + Size(text[f])
  <1>1. text[f] \in Strings(Limit[f]) /\ f \in DOMAIN Limit
    BY FieldsAreLimited DEF Given
  <1> QED
    BY <1>1, StringFits

MaxTexts == (4 + Limit["name"]) + (4 + Limit["symbol"]) + (4 + Limit["image"])
               + (4 + Limit["description"])

LEMMA TextsBytes ==
    ASSUME NEW text \in Given(Field)
    PROVE  Texts(text) \in Bytes /\ Size(Texts(text)) \in 0..MaxTexts
  <1> DEFINE a == String(text["name"])
             b == String(text["symbol"])
             c == String(text["image"])
             d == String(text["description"])
             la == Limit["name"]
             lb == Limit["symbol"]
             lc == Limit["image"]
             ld == Limit["description"]
  <1>1. {"name", "symbol", "image", "description"} \subseteq Field
    BY DEF Field
  <1>2. /\ a \in Bytes /\ Size(a) \in Nat /\ Size(a) <= 4 + la /\ la \in Nat
        /\ b \in Bytes /\ Size(b) \in Nat /\ Size(b) <= 4 + lb /\ lb \in Nat
        /\ c \in Bytes /\ Size(c) \in Nat /\ Size(c) <= 4 + lc /\ lc \in Nat
        /\ d \in Bytes /\ Size(d) \in Nat /\ Size(d) <= 4 + ld /\ ld \in Nat
    <2>1. ASSUME NEW f \in Field
          PROVE  /\ String(text[f]) \in Bytes /\ Size(String(text[f])) \in Nat
                 /\ Size(String(text[f])) <= 4 + Limit[f] /\ Limit[f] \in Nat
      BY FieldFits
    <2> QED
      BY <1>1, <2>1
  <1>3. Texts(text) = a \o b \o c \o d
    BY DEF Texts
  <1> HIDE DEF a, b, c, d, la, lb, lc, ld
  <1>4. Texts(text) \in Bytes /\ Size(Texts(text)) = Size(a) + Size(b) + Size(c) + Size(d)
    BY <1>2, <1>3, FourBytes
  <1>5. Size(a) + Size(b) + Size(c) + Size(d) \in 0..((4 + la) + (4 + lb) + (4 + lc) + (4 + ld))
    BY <1>2
  <1> QED
    BY <1>4, <1>5 DEF MaxTexts, la, lb, lc, ld

\* The four texts, as a reader of plain texts finds them.
DecodedTexts(type, text) ==
    <<Decoded(type, text["name"]), Decoded(type, text["symbol"]),
      Decoded(type, text["image"]), Decoded(type, text["description"])>>

LEMMA TextsAt ==
    ASSUME NEW type \in Plain, NEW src \in Bytes, NEW at \in Nat, NEW text \in Given(Field),
           At(src, at, Texts(text))
    PROVE  Finds(ReadTexts(type, src, at, 4), DecodedTexts(type, text), at + Size(Texts(text)))
  <1> DEFINE ta == text["name"]
             tb == text["symbol"]
             tc == text["image"]
             td == text["description"]
             a == String(ta)
             b == String(tb)
             c == String(tc)
             d == String(td)
  <1>1. {"name", "symbol", "image", "description"} \subseteq Field
    BY DEF Field
  <1>2. /\ ta \in Valid /\ Size(ta) \in Nat /\ a \in Bytes /\ Size(a) = 4 + Size(ta)
        /\ tb \in Valid /\ Size(tb) \in Nat /\ b \in Bytes /\ Size(b) = 4 + Size(tb)
        /\ tc \in Valid /\ Size(tc) \in Nat /\ c \in Bytes /\ Size(c) = 4 + Size(tc)
        /\ td \in Valid /\ Size(td) \in Nat /\ d \in Bytes /\ Size(d) = 4 + Size(td)
    BY <1>1, FieldFits
  <1>3. Texts(text) = a \o b \o c \o d
    BY DEF Texts
  <1> HIDE DEF a, b, c, d
  <1> DEFINE p2 == at + Size(a)
             p3 == at + Size(a) + Size(b)
             p4 == at + Size(a) + Size(b) + Size(c)
             p5 == at + Size(Texts(text))
  <1>4. At(src, at, a) /\ At(src, p2, b) /\ At(src, p3, c) /\ At(src, p4, d)
    BY <1>2, <1>3, FourAt
  <1>5. Size(Texts(text)) = Size(a) + Size(b) + Size(c) + Size(d)
    BY <1>2, <1>3, FourBytes
  <1> HIDE DEF ta, tb, tc, td
  <1>6. /\ p2 \in Nat /\ p3 \in Nat /\ p4 \in Nat
        /\ p2 = at + 4 + Size(ta) /\ p3 = p2 + 4 + Size(tb)
        /\ p4 = p3 + 4 + Size(tc) /\ p5 = p4 + 4 + Size(td)
    BY <1>2, <1>5
  <1> HIDE DEF p2, p3, p4, p5
  <1>7. Finds(ReadText(type, src, at), Decoded(type, ta), at + 4 + Size(ta))
    BY <1>2, <1>4, ReadTextAt DEF a
  <1>8. Finds(ReadText(type, src, p2), Decoded(type, tb), p2 + 4 + Size(tb))
    BY <1>2, <1>4, <1>6, ReadTextAt DEF b
  <1>9. Finds(ReadText(type, src, p3), Decoded(type, tc), p3 + 4 + Size(tc))
    BY <1>2, <1>4, <1>6, ReadTextAt DEF c
  <1>10. Finds(ReadText(type, src, p4), Decoded(type, td), p4 + 4 + Size(td))
    BY <1>2, <1>4, <1>6, ReadTextAt DEF d
  <1>11. Finds(ReadTexts(type, src, at, 4),
               <<Decoded(type, ta), Decoded(type, tb), Decoded(type, tc), Decoded(type, td)>>, p5)
    BY <1>6, <1>7, <1>8, <1>9, <1>10, FourTexts
  <1> QED
    BY <1>11 DEF DecodedTexts, ta, tb, tc, td, p5

-----------------------------------------------------------------------------
(* Texts given or not *)

GivenText(given, f) == IF f \in DOMAIN given THEN <<given[f]>> ELSE <<>>

LEMMA OptionFits ==
    ASSUME NEW fields \in SUBSET Field, NEW given \in Given(fields), NEW f \in Field
    PROVE  /\ f \in DOMAIN given => given[f] \in Countable /\ Utf8(given[f])
           /\ OptionString(given, f) \in Bytes /\ Size(OptionString(given, f)) \in Nat
  <1>1. CASE f \in DOMAIN given
    <2>1. given[f] \in Strings(Limit[f]) /\ f \in DOMAIN Limit
      BY <1>1, FieldsAreLimited DEF Given
    <2>2. given[f] \in Valid /\ String(given[f]) \in Bytes
      BY <2>1, StringFits
    <2>3. OptionString(given, f) = Bool(TRUE) \o String(given[f])
      BY <1>1 DEF OptionString, Bool
    <2>4. Bool(TRUE) \o String(given[f]) \in Bytes
      BY <2>2, BoolBytes, ConcatBytes
    <2> QED
      BY <2>2, <2>3, <2>4, SizeIsNat DEF Valid
  <1>2. CASE f \notin DOMAIN given
    <2>1. OptionString(given, f) = Bool(FALSE)
      BY <1>2 DEF OptionString, Bool
    <2>2. Bool(FALSE) \in Bytes
      BY BoolBytes
    <2> QED
      BY <1>2, <2>1, <2>2, SizeIsNat
  <1> QED
    BY <1>1, <1>2

\* The arguments of UpdateMetadata.
Options(given) ==
    OptionString(given, "name") \o OptionString(given, "symbol")
      \o OptionString(given, "image") \o OptionString(given, "description")

GivenTexts(given) ==
    <<GivenText(given, "name"), GivenText(given, "symbol"),
      GivenText(given, "image"), GivenText(given, "description")>>

LEMMA OptionsAt ==
    ASSUME NEW src \in Bytes, NEW at \in Nat, NEW fields \in SUBSET Field,
           NEW given \in Given(fields), At(src, at, Options(given))
    PROVE  /\ Options(given) \in Bytes
           /\ Finds(ReadTexts("Option<String>", src, at, 4), GivenTexts(given),
                    at + Size(Options(given)))
  <1> DEFINE type == "Option<String>"
             a == OptionString(given, "name")
             b == OptionString(given, "symbol")
             c == OptionString(given, "image")
             d == OptionString(given, "description")
             p2 == at + Size(a)
             p3 == at + Size(a) + Size(b)
             p4 == at + Size(a) + Size(b) + Size(c)
             p5 == at + Size(Options(given))
  <1>1. {"name", "symbol", "image", "description"} \subseteq Field
    BY DEF Field
  <1>2. /\ a \in Bytes /\ Size(a) \in Nat /\ b \in Bytes /\ Size(b) \in Nat
        /\ c \in Bytes /\ Size(c) \in Nat /\ d \in Bytes /\ Size(d) \in Nat
    BY <1>1, OptionFits
  <1>3. Options(given) = a \o b \o c \o d
    BY DEF Options
  <1>4. ASSUME NEW f \in Field, NEW p \in Nat, At(src, p, OptionString(given, f))
        PROVE  Finds(ReadText(type, src, p), GivenText(given, f),
                     p + Size(OptionString(given, f)))
    <2>1. ReadOptionString(src, p) =
             {Got(GivenText(given, f), p + Size(OptionString(given, f)))}
      BY <1>4, OptionFits, ReadOptionStringAt DEF GivenText
    <2>2. ReadText(type, src, p) = ReadOptionString(src, p)
      BY DEF ReadText
    <2> QED
      BY <2>1, <2>2 DEF Finds
  <1> HIDE DEF a, b, c, d
  <1>5. At(src, at, a) /\ At(src, p2, b) /\ At(src, p3, c) /\ At(src, p4, d)
    BY <1>2, <1>3, FourAt
  <1>6. Options(given) \in Bytes /\ Size(Options(given)) = Size(a) + Size(b) + Size(c) + Size(d)
    BY <1>2, <1>3, FourBytes
  <1>7. /\ p2 \in Nat /\ p3 \in Nat /\ p4 \in Nat
        /\ p3 = p2 + Size(b) /\ p4 = p3 + Size(c) /\ p5 = p4 + Size(d) /\ p2 = at + Size(a)
    BY <1>2, <1>6
  <1> HIDE DEF p2, p3, p4, p5
  <1>8. Finds(ReadText(type, src, at), GivenText(given, "name"), p2)
    BY <1>1, <1>4, <1>5, <1>7 DEF a
  <1>9. Finds(ReadText(type, src, p2), GivenText(given, "symbol"), p3)
    BY <1>1, <1>4, <1>5, <1>7 DEF b
  <1>10. Finds(ReadText(type, src, p3), GivenText(given, "image"), p4)
    BY <1>1, <1>4, <1>5, <1>7 DEF c
  <1>11. Finds(ReadText(type, src, p4), GivenText(given, "description"), p5)
    BY <1>1, <1>4, <1>5, <1>7 DEF d
  <1> HIDE DEF type
  <1>12. Finds(ReadTexts(type, src, at, 4),
               <<GivenText(given, "name"), GivenText(given, "symbol"),
                 GivenText(given, "image"), GivenText(given, "description")>>, p5)
    BY <1>8, <1>9, <1>10, <1>11, FourTexts
  <1> QED
    BY <1>6, <1>12 DEF GivenTexts, type, p5

-----------------------------------------------------------------------------
(* Vectors of pairs *)

\* What has been written after each entry.
PairStep(entries, g, i) ==
    IF i = 0 THEN U32(Len(entries))
    ELSE g[i - 1] \o String(entries[i][1]) \o String(entries[i][2])

Prefixes(entries) == CHOOSE g : g = [i \in 0..Len(entries) |-> PairStep(entries, g, i)]

LEMMA PrefixesExist ==
    ASSUME NEW entries, NEW N \in Nat
    PROVE  \E g : g = [i \in 0..N |-> PairStep(entries, g, i)]
  <1> DEFINE Solved(k) == \E g : g = [n \in 0..k |-> PairStep(entries, g, n)]
             Unsolved == {k \in Nat : ~Solved(k)}
  <1>1. ASSUME Unsolved # {} PROVE FALSE
    <2>1. PICK k \in Unsolved : \A y \in Unsolved : k =< y
      BY <1>1, LeastMember
    <2>2. CASE k = 0
      <3> DEFINE h == [n \in 0..0 |-> U32(Len(entries))]
      <3>1. h = [n \in 0..0 |-> PairStep(entries, h, n)]
        BY DEF PairStep
      <3> QED
        BY <2>1, <2>2, <3>1
    <2>3. CASE k # 0
      <3> HIDE DEF Solved
      <3>1. k \in Nat /\ k - 1 \in Nat /\ k - 1 \notin Unsolved
        BY <2>1, <2>3
      <3> USE DEF Solved
      <3>2. PICK g : g = [n \in 0..(k - 1) |-> PairStep(entries, g, n)]
        BY <3>1
      <3> DEFINE h == [n \in 0..k |-> IF n = k THEN PairStep(entries, g, k) ELSE g[n]]
      <3>3. ASSUME NEW n \in 0..k PROVE h[n] = PairStep(entries, h, n)
        <4>1. n # 0 => h[n - 1] = g[n - 1]
          <5>1. n # 0 => n - 1 \in 0..k /\ n - 1 # k
            BY <3>1
          <5> QED
            BY <5>1
        <4>2. PairStep(entries, g, n) = PairStep(entries, h, n)
          BY <4>1 DEF PairStep
        <4>3. CASE n = k
          BY <4>2, <4>3
        <4>4. CASE n # k
          <5>1. n \in 0..(k - 1) /\ h[n] = g[n]
            BY <3>1, <4>4
          <5>2. g[n] = PairStep(entries, g, n)
            BY <3>2, <5>1
          <5> HIDE DEF h
          <5> QED
            BY <4>2, <5>1, <5>2
        <4> QED
          BY <4>3, <4>4
      <3>4. h = [n \in 0..k |-> PairStep(entries, h, n)]
        BY <3>3
      <3> HIDE DEF h
      <3> QED
        BY <2>1, <3>1, <3>4
    <2> QED
      BY <2>2, <2>3
  <1> QED
    BY <1>1

LEMMA PrefixesSolve ==
    ASSUME NEW entries, Len(entries) \in Nat
    PROVE  /\ Prefixes(entries)[0] = U32(Len(entries))
           /\ \A i \in 1..Len(entries) :
                 Prefixes(entries)[i] =
                    Prefixes(entries)[i - 1] \o String(entries[i][1]) \o String(entries[i][2])
           /\ VecOfPairs(entries) = Prefixes(entries)[Len(entries)]
  <1> DEFINE N == Len(entries)
  <1>1. Prefixes(entries) = [i \in 0..N |-> PairStep(entries, Prefixes(entries), i)]
    BY PrefixesExist DEF Prefixes
  <1>2. VecOfPairs(entries) = Prefixes(entries)[N]
    BY DEF VecOfPairs, Prefixes, PairStep
  <1> HIDE DEF N
  <1>3. ASSUME NEW i \in 0..N
        PROVE  Prefixes(entries)[i] = PairStep(entries, Prefixes(entries), i)
    BY <1>1
  <1>4. Prefixes(entries)[0] = U32(Len(entries))
    <2>1. 0 \in 0..N
      BY DEF N
    <2> QED
      BY <1>3, <2>1 DEF PairStep
  <1>5. ASSUME NEW i \in 1..N
        PROVE  Prefixes(entries)[i] =
                  Prefixes(entries)[i - 1] \o String(entries[i][1]) \o String(entries[i][2])
    <2>1. i \in 0..N /\ i # 0
      BY DEF N
    <2>2. Prefixes(entries)[i] = PairStep(entries, Prefixes(entries), i)
      BY <1>3, <2>1
    <2> QED
      BY <2>1, <2>2 DEF PairStep
  <1> QED
    BY <1>2, <1>4, <1>5 DEF N

\* The two strings of an entry.
LEMMA EntryFits ==
    ASSUME NEW entries \in EntryList, NEW i \in 1..Len(entries)
    PROVE  /\ entries[i] = <<entries[i][1], entries[i][2]>>
           /\ entries[i][1] \in Valid /\ entries[i][2] \in Valid
           /\ Size(entries[i][1]) \in Nat /\ Size(entries[i][2]) \in Nat
           /\ String(entries[i][1]) \in Bytes /\ String(entries[i][2]) \in Bytes
           /\ Size(String(entries[i][1])) = 4 + Size(entries[i][1])
           /\ Size(String(entries[i][2])) = 4 + Size(entries[i][2])
           /\ Size(entries[i][1]) <= Limit["key"] /\ Size(entries[i][2]) <= Limit["value"]
  <1>1. entries \in Seq(Seq(Byte) \X Seq(Byte)) /\ i \in DOMAIN entries
    BY DEF EntryList
  <1>2. entries[i] \in Seq(Byte) \X Seq(Byte)
    BY <1>1
  <1>3. entries[i][1] \in Strings(Limit["key"]) /\ entries[i][2] \in Strings(Limit["value"])
    BY <1>1 DEF EntryList
  <1>4. "key" \in DOMAIN Limit /\ "value" \in DOMAIN Limit
    BY FieldsAreLimited
  <1>5. entries[i] = <<entries[i][1], entries[i][2]>>
    BY <1>2
  <1> QED
    BY <1>3, <1>4, <1>5, StringFits

LEMMA EntryCount ==
    ASSUME NEW entries \in EntryList
    PROVE  /\ Len(entries) \in Nat /\ Len(entries) \in Count
           /\ Limit["entries"] \in Nat /\ Len(entries) <= Limit["entries"]
           /\ Limit["key"] \in Nat /\ Limit["value"] \in Nat
  <1>1. Len(entries) \in Nat /\ Len(entries) <= Limit["entries"]
    BY DEF EntryList
  <1>2. Limit["entries"] \in Count /\ Limit["key"] \in Count /\ Limit["value"] \in Count
    BY FieldsAreLimited, LimitsAreCounts
  <1> HIDE DEF EntryList
  <1> QED
    BY <1>1, <1>2, SMT DEF Count

\* The most bytes an entry takes.
MaxEntry == (4 + Limit["key"]) + (4 + Limit["value"])

LEMMA EntryStep == ASSUME NEW i \in Nat, NEW k \in Nat PROVE i * k + k = (i + 1) * k
  OBVIOUS

LEMMA ProductGrows ==
    ASSUME NEW i \in Nat, NEW j \in Nat, NEW k \in Nat, i <= j
    PROVE  i * k <= j * k /\ i * k \in Nat /\ j * k \in Nat
  OBVIOUS

LEMMA PrefixBytes ==
    ASSUME NEW entries \in EntryList, NEW n \in 0..Len(entries)
    PROVE  /\ Prefixes(entries)[n] \in Bytes
           /\ Size(Prefixes(entries)[n]) \in Nat
           /\ 4 + 8 * n <= Size(Prefixes(entries)[n])
           /\ Size(Prefixes(entries)[n]) <= 4 + n * MaxEntry
  <1> DEFINE N == Len(entries)
             P == Prefixes(entries)
             Good(i) == /\ P[i] \in Bytes /\ Size(P[i]) \in Nat
                        /\ 4 + 8 * i <= Size(P[i]) /\ Size(P[i]) <= 4 + i * MaxEntry
             Wrong == {i \in 0..N : ~Good(i)}
  <1>1. N \in Nat /\ MaxEntry \in Nat
    BY EntryCount DEF MaxEntry
  <1>2. P[0] = U32(N) /\ \A i \in 1..N : P[i] = P[i - 1] \o String(entries[i][1])
                                                      \o String(entries[i][2])
    BY <1>1, PrefixesSolve
  <1>3. Good(0)
    <2>1. P[0] = U32(N) /\ N \in Count
      BY <1>2, EntryCount
    <2>2. U32(N) \in Bytes /\ Size(U32(N)) = 4
      BY <2>1, U32Bytes
    <2> HIDE DEF P, N
    <2>3. Size(P[0]) = 4
      BY <2>1, <2>2
    <2>4. 0 * MaxEntry = 0
      BY <1>1
    <2> QED
      BY <2>1, <2>2, <2>3, <2>4
  <1>4. ASSUME NEW i \in 1..N, Good(i - 1) PROVE Good(i)
    <2> DEFINE before == P[i - 1]
               k == String(entries[i][1])
               v == String(entries[i][2])
               most == (i - 1) * MaxEntry
               size == Size(before)
    <2>1. P[i] = before \o k \o v
      BY <1>2
    <2>2. /\ k \in Bytes /\ v \in Bytes /\ Size(k) \in Nat /\ Size(v) \in Nat
          /\ 4 <= Size(k) /\ 4 <= Size(v) /\ Size(k) + Size(v) <= MaxEntry
      <3> DEFINE sk == Size(entries[i][1])
                 sv == Size(entries[i][2])
                 lk == Limit["key"]
                 lv == Limit["value"]
      <3>1. /\ k \in Bytes /\ v \in Bytes /\ sk \in Nat /\ sv \in Nat
            /\ Size(k) = 4 + sk /\ Size(v) = 4 + sv /\ sk <= lk /\ sv <= lv
            /\ lk \in Nat /\ lv \in Nat
        BY EntryFits, EntryCount
      <3>2. MaxEntry = (4 + lk) + (4 + lv)
        BY DEF MaxEntry
      <3> HIDE DEF k, v, sk, sv, lk, lv
      <3> QED
        BY <3>1, <3>2
    <2>3. before \in Bytes /\ size \in Nat /\ 4 + 8 * (i - 1) <= size /\ size <= 4 + most
      BY <1>4
    <2>4. i * MaxEntry = most + MaxEntry /\ most \in Nat
      <3>1. i - 1 \in Nat /\ (i - 1) + 1 = i
        BY <1>1
      <3>2. (i - 1) * MaxEntry + MaxEntry = ((i - 1) + 1) * MaxEntry
        BY <1>1, <3>1, EntryStep
      <3>3. (i - 1) * MaxEntry \in Nat
        BY <1>1, <3>1, ProductGrows
      <3> QED
        BY <3>1, <3>2, <3>3
    <2> HIDE DEF P, k, v, most, N
    <2>5. P[i] \in Bytes /\ Size(P[i]) = size + Size(k) + Size(v)
      <3> HIDE DEF before
      <3>1. before \o k \in Bytes /\ Size(before \o k) = Size(before) + Size(k)
        BY <2>2, <2>3, ConcatBytes
      <3>2. /\ (before \o k) \o v \in Bytes
            /\ Size((before \o k) \o v) = Size(before \o k) + Size(v)
        BY <2>2, <3>1, ConcatBytes
      <3> QED
        BY <2>1, <3>1, <3>2
    <2> HIDE DEF before, size
    <2>6. i \in Nat
      BY <1>1
    <2> QED
      BY <1>1, <2>2, <2>3, <2>4, <2>5, <2>6
  <1> HIDE DEF P, N, Good
  <1>5. ASSUME Wrong # {} PROVE FALSE
    <2>1. Wrong \in SUBSET Nat
      BY <1>1
    <2> HIDE DEF Wrong
    <2>2. PICK i \in Wrong : \A j \in Wrong : i =< j
      BY <1>5, <2>1, LeastMember
    <2> USE DEF Wrong
    <2>3. i \in 0..N /\ ~Good(i)
      BY <2>2
    <2>4. i \in 1..N /\ i - 1 \in 0..N /\ i - 1 \notin Wrong
      BY <1>1, <1>3, <2>2, <2>3
    <2> QED
      BY <1>4, <2>3, <2>4
  <1> QED
    BY <1>5 DEF Good, N, P

\* Where the whole vector is, every prefix of it is.
LEMMA PrefixesAt ==
    ASSUME NEW src \in Bytes, NEW at \in Nat, NEW entries \in EntryList,
           At(src, at, VecOfPairs(entries)), NEW n \in 0..Len(entries)
    PROVE  At(src, at, Prefixes(entries)[n])
  <1> DEFINE N == Len(entries)
             P == Prefixes(entries)
             Wrong == {k \in 0..N : ~At(src, at, P[N - k])}
  <1>1. N \in Nat
    BY EntryCount
  <1>2. /\ \A i \in 1..N : P[i] = P[i - 1] \o String(entries[i][1]) \o String(entries[i][2])
        /\ At(src, at, P[N])
    BY <1>1, PrefixesSolve
  <1>3. ASSUME NEW i \in 1..N, At(src, at, P[i]) PROVE At(src, at, P[i - 1])
    <2> DEFINE before == P[i - 1]
               k == String(entries[i][1])
               v == String(entries[i][2])
    <2>1. P[i] = before \o k \o v
      BY <1>2
    <2>2. before \in Bytes /\ k \in Bytes /\ v \in Bytes
      <3>1. i - 1 \in 0..N
        BY <1>1
      <3> QED
        BY <3>1, PrefixBytes, EntryFits
    <2>3. Size(before) \in Nat /\ Size(before \o k) \in Nat /\ before \o k \in Bytes
      BY <2>2, ConcatBytes, SizeIsNat
    <2> HIDE DEF k, v, P, before
    <2>4. At(src, at, before \o k)
      BY <1>3, <2>1, <2>2, <2>3, AtConcat
    <2>5. At(src, at, before)
      BY <2>2, <2>3, <2>4, AtConcat
    <2> QED
      BY <2>5 DEF before
  <1> HIDE DEF P, N
  <1>4. ASSUME Wrong # {} PROVE FALSE
    <2>1. Wrong \in SUBSET Nat
      BY <1>1
    <2> HIDE DEF Wrong
    <2>2. PICK k \in Wrong : \A j \in Wrong : k =< j
      BY <1>4, <2>1, LeastMember
    <2> USE DEF Wrong
    <2>3. k \in 0..N /\ ~At(src, at, P[N - k])
      BY <2>2
    <2>4. k # 0
      <3>1. N - 0 = N
        BY <1>1
      <3> QED
        BY <1>2, <2>3, <3>1
    <2>5. k - 1 \in 0..N /\ k - 1 \notin Wrong /\ N - (k - 1) \in 1..N
      BY <1>1, <2>2, <2>3, <2>4
    <2>6. (N - (k - 1)) - 1 = N - k
      BY <1>1, <2>3
    <2>7. At(src, at, P[N - (k - 1)])
      BY <2>5
    <2>8. At(src, at, P[(N - (k - 1)) - 1])
      BY <1>3, <2>5, <2>7
    <2> QED
      BY <2>3, <2>6, <2>8
  <1>5. N - n \in 0..N /\ N - (N - n) = n
    BY <1>1 DEF N
  <1>6. At(src, at, P[N - (N - n)])
    BY <1>4, <1>5
  <1> QED
    BY <1>5, <1>6 DEF P

LEMMA PairsBytes ==
    ASSUME NEW entries \in EntryList
    PROVE  /\ VecOfPairs(entries) \in Bytes
           /\ Size(VecOfPairs(entries)) \in Nat
           /\ 4 + 8 * Len(entries) <= Size(VecOfPairs(entries))
           /\ Size(VecOfPairs(entries)) <= 4 + Limit["entries"] * MaxEntry
  <1> DEFINE N == Len(entries)
             most == Limit["entries"]
             bytes == VecOfPairs(entries)
  <1>1. N \in Nat /\ most \in Nat /\ N <= most /\ MaxEntry \in Nat
    BY EntryCount DEF MaxEntry
  <1>2. N \in 0..N /\ bytes = Prefixes(entries)[N]
    <2>1. bytes = Prefixes(entries)[N]
      BY <1>1, PrefixesSolve
    <2> QED
      BY <1>1, <2>1
  <1>3. bytes \in Bytes /\ Size(bytes) \in Nat /\ 4 + 8 * N <= Size(bytes)
        /\ Size(bytes) <= 4 + N * MaxEntry
    BY <1>2, PrefixBytes
  <1> HIDE DEF N, most, bytes
  <1>4. N * MaxEntry <= most * MaxEntry /\ N * MaxEntry \in Nat /\ most * MaxEntry \in Nat
    BY <1>1, ProductGrows
  <1>5. Size(bytes) <= 4 + most * MaxEntry
    BY <1>3, <1>4
  <1> QED
    BY <1>3, <1>5 DEF N, most, bytes

\* The entries, as a reader of plain texts finds them.
DecodedEntries(type, entries) ==
    [i \in 1..Len(entries) |-> <<Decoded(type, entries[i][1]), Decoded(type, entries[i][2])>>]

\* The texts of the entries in a row, and where they are.
LEMMA PairTextsAt ==
    ASSUME NEW type \in Plain, NEW src \in Bytes, NEW at \in Nat, NEW entries \in EntryList,
           At(src, at, VecOfPairs(entries))
    PROVE  \E val : /\ Finds(ReadTexts(type, src, at + 4, 2 * Len(entries)), val,
                             at + Size(VecOfPairs(entries)))
                    /\ \A i \in 1..Len(entries) :
                          /\ val[2 * i - 1] = Decoded(type, entries[i][1])
                          /\ val[2 * i] = Decoded(type, entries[i][2])
  <1> DEFINE N == Len(entries)
             P == Prefixes(entries)
             n == 2 * N
             val == [j \in 1..n |-> IF j % 2 = 1 THEN Decoded(type, entries[(j + 1) \div 2][1])
                                     ELSE Decoded(type, entries[j \div 2][2])]
             pos == [j \in 1..(n + 1) |->
                       IF j % 2 = 1 THEN at + Size(P[(j - 1) \div 2])
                       ELSE at + Size(P[j \div 2 - 1]) + 4 + Size(entries[j \div 2][1])]
  <1>1. N \in Nat
    BY EntryCount
  <1>2. /\ P[0] = U32(N) /\ VecOfPairs(entries) = P[N]
        /\ \A i \in 1..N : P[i] = P[i - 1] \o String(entries[i][1]) \o String(entries[i][2])
    BY <1>1, PrefixesSolve
  <1>3. ASSUME NEW i \in 1..N
        PROVE  /\ val[2 * i - 1] = Decoded(type, entries[i][1])
               /\ val[2 * i] = Decoded(type, entries[i][2])
               /\ pos[2 * i - 1] = at + Size(P[i - 1])
               /\ pos[2 * i] = at + Size(P[i - 1]) + 4 + Size(entries[i][1])
               /\ pos[2 * i + 1] = at + Size(P[i])
    <2>1. /\ 2 * i - 1 \in 1..n /\ 2 * i \in 1..n
          /\ 2 * i - 1 \in 1..(n + 1) /\ 2 * i \in 1..(n + 1) /\ 2 * i + 1 \in 1..(n + 1)
      BY <1>1
    <2>2. /\ (2 * i - 1) % 2 = 1 /\ (2 * i) % 2 = 0 /\ (2 * i + 1) % 2 = 1
          /\ ((2 * i - 1) + 1) \div 2 = i /\ (2 * i) \div 2 = i
          /\ ((2 * i - 1) - 1) \div 2 = i - 1 /\ ((2 * i + 1) - 1) \div 2 = i
      BY <1>1
    <2> HIDE DEF N, P, n
    <2>3. val[2 * i - 1] = Decoded(type, entries[i][1]) /\ val[2 * i] = Decoded(type, entries[i][2])
      BY <2>1, <2>2
    <2>4. /\ pos[2 * i - 1] = at + Size(P[i - 1])
          /\ pos[2 * i] = at + Size(P[i - 1]) + 4 + Size(entries[i][1])
          /\ pos[2 * i + 1] = at + Size(P[i])
      BY <2>1, <2>2
    <2> QED
      BY <2>3, <2>4
  <1>4. pos[1] = at + 4 /\ pos[n + 1] = at + Size(VecOfPairs(entries))
    <2>1. /\ 1 \in 1..(n + 1) /\ n + 1 \in 1..(n + 1) /\ 1 % 2 = 1 /\ (1 - 1) \div 2 = 0
          /\ (n + 1) % 2 = 1 /\ ((n + 1) - 1) \div 2 = N
      BY <1>1
    <2>2. Size(P[0]) = 4
      BY <1>2, U32Bytes, EntryCount
    <2> HIDE DEF N, P, n
    <2> QED
      BY <1>2, <2>1, <2>2
  <1> DEFINE S == {val[j] : j \in 1..n}
  <1>5. val \in Seq(S) /\ Size(val) = n /\ n \in Nat
    <2>1. n \in Nat
      BY <1>1
    <2> HIDE DEF n
    <2>2. Len(val) = n /\ val = [j \in 1..n |-> val[j]]
      BY <2>1
    <2> HIDE DEF val
    <2>3. \A j \in 1..n : val[j] \in S
      OBVIOUS
    <2> HIDE DEF S
    <2>4. val \in Seq(S)
      BY <2>1, <2>2, <2>3
    <2> QED
      BY <2>1, <2>2, <2>4 DEF Size
  <1> HIDE DEF val, pos
  <1>6. ASSUME NEW i \in 1..N
        PROVE  /\ Finds(ReadText(type, src, pos[2 * i - 1]), val[2 * i - 1], pos[2 * i])
               /\ Finds(ReadText(type, src, pos[2 * i]), val[2 * i], pos[2 * i + 1])
    <2> DEFINE before == P[i - 1]
               tk == entries[i][1]
               tv == entries[i][2]
               k == String(tk)
               v == String(tv)
               p1 == at + Size(before)
               p2 == at + Size(before) + 4 + Size(tk)
               p3 == at + Size(P[i])
    <2>1. i - 1 \in 0..N /\ i \in 0..N
      BY <1>1
    <2>2. /\ before \in Bytes /\ k \in Bytes /\ v \in Bytes /\ tk \in Valid /\ tv \in Valid
          /\ Size(k) = 4 + Size(tk) /\ Size(v) = 4 + Size(tv)
          /\ Size(tk) \in Nat /\ Size(tv) \in Nat /\ Size(before) \in Nat
      BY <2>1, PrefixBytes, EntryFits
    <2>3. At(src, at, P[i])
      BY <2>1, PrefixesAt
    <2>4. P[i] = before \o k \o v
      BY <1>2
    <2> HIDE DEF before, tk, tv, k, v, P
    <2>5. /\ before \o k \in Bytes /\ Size(before \o k) = Size(before) + Size(k)
          /\ Size(before \o k) \in Nat
      BY <2>2, ConcatBytes, SizeIsNat
    <2>6. Size(P[i]) = Size(before \o k) + Size(v)
      BY <2>2, <2>4, <2>5, ConcatBytes
    <2>7. At(src, at, before \o k) /\ At(src, at + Size(before \o k), v)
      BY <2>2, <2>3, <2>4, <2>5, AtConcat
    <2>8. At(src, p1, k)
      BY <2>2, <2>7, AtConcat
    <2>9. /\ p1 \in Nat /\ p2 \in Nat /\ p2 = p1 + 4 + Size(tk) /\ p3 = p2 + 4 + Size(tv)
          /\ at + Size(before \o k) = p2
      <3> DEFINE sb == Size(before)
                 sk == Size(tk)
                 sv == Size(tv)
                 sbk == Size(before \o k)
                 sp == Size(P[i])
      <3>1. /\ sb \in Nat /\ sk \in Nat /\ sv \in Nat
            /\ sbk = sb + (4 + sk) /\ sp = sbk + (4 + sv)
        BY <2>2, <2>5, <2>6
      <3> HIDE DEF sb, sk, sv, sbk, sp
      <3>2. /\ at + sb \in Nat /\ at + sb + 4 + sk \in Nat
            /\ at + sp = at + sb + 4 + sk + 4 + sv /\ at + sbk = at + sb + 4 + sk
        BY <3>1
      <3> QED
        BY <3>2 DEF sb, sk, sv, sbk, sp
    <2>10. At(src, p2, v)
      BY <2>7, <2>9
    <2> HIDE DEF p1, p2, p3
    <2>11. /\ Finds(ReadText(type, src, p1), Decoded(type, tk), p1 + 4 + Size(tk))
           /\ Finds(ReadText(type, src, p2), Decoded(type, tv), p2 + 4 + Size(tv))
      BY <2>2, <2>8, <2>9, <2>10, ReadTextAt DEF k, v
    <2>12. /\ val[2 * i - 1] = Decoded(type, tk) /\ val[2 * i] = Decoded(type, tv)
           /\ pos[2 * i - 1] = p1 /\ pos[2 * i] = p2 /\ pos[2 * i + 1] = p3
      BY <1>3 DEF tk, tv, p1, p2, p3, before
    <2> QED
      BY <2>9, <2>11, <2>12
  <1>7. ASSUME NEW j \in 1..n
        PROVE  Finds(ReadText(type, src, pos[j]), val[j], pos[j + 1])
    <2>1. PICK i \in 1..N : j = 2 * i - 1 \/ j = 2 * i
      <3>1. CASE j % 2 = 1
        <4>1. (j + 1) \div 2 \in 1..N /\ j = 2 * ((j + 1) \div 2) - 1
          BY <1>1, <3>1
        <4> QED
          BY <4>1
      <3>2. CASE j % 2 # 1
        <4>1. j \div 2 \in 1..N /\ j = 2 * (j \div 2)
          BY <1>1, <3>2
        <4> QED
          BY <4>1
      <3> QED
        BY <3>1, <3>2
    <2>2. (2 * i - 1) + 1 = 2 * i
      BY <1>1
    <2> QED
      BY <1>6, <2>1, <2>2
  <1> HIDE DEF n, S
  <1>8. Finds(ReadTexts(type, src, pos[1], n), val, pos[n + 1])
    BY <1>5, <1>7, ReadTextsAt
  <1>9. Finds(ReadTexts(type, src, at + 4, n), val, at + Size(VecOfPairs(entries)))
    BY <1>4, <1>8
  <1> QED
    BY <1>3, <1>9 DEF n

LEMMA PairsAt ==
    ASSUME NEW type \in Plain, NEW src \in Bytes, NEW at \in Nat, NEW entries \in EntryList,
           At(src, at, VecOfPairs(entries))
    PROVE  Finds(ReadTextPairs(type, src, at), DecodedEntries(type, entries),
                 at + Size(VecOfPairs(entries)))
  <1> DEFINE N == Len(entries)
             last == at + Size(VecOfPairs(entries))
             prefix == Got(N, at + 4)
             Pairs(val) == [i \in 1..N |-> <<val[2 * i - 1], val[2 * i]>>]
  <1>1. N \in Nat /\ N \in Count
    BY EntryCount
  <1>2. ReadU32(src, at) = {prefix}
    <2>1. Prefixes(entries)[0] = U32(N)
      BY <1>1, PrefixesSolve
    <2>2. 0 \in 0..N
      BY <1>1
    <2>3. At(src, at, U32(N))
      BY <2>1, <2>2, PrefixesAt
    <2> QED
      BY <1>1, <2>3, ReadU32At
  <1>3. prefix.value = N /\ prefix.next = at + 4
    BY GotParts
  <1>4. N <= Len(src)
    <2>1. at + Size(VecOfPairs(entries)) - 1 <= Len(src) /\ Len(src) \in Nat
      BY LenProperties DEF At, Size, Bytes
    <2>2. Size(VecOfPairs(entries)) \in Nat /\ 4 + 8 * N <= Size(VecOfPairs(entries))
      BY PairsBytes
    <2> HIDE DEF N
    <2> QED
      BY <1>1, <2>1, <2>2
  <1>5. PICK val : /\ Finds(ReadTexts(type, src, at + 4, 2 * N), val, last)
                   /\ \A i \in 1..N : /\ val[2 * i - 1] = Decoded(type, entries[i][1])
                                       /\ val[2 * i] = Decoded(type, entries[i][2])
    BY PairTextsAt
  <1>6. Pairs(val) = DecodedEntries(type, entries)
    BY <1>5 DEF DecodedEntries
  <1> DEFINE texts == Got(val, last)
  <1>7. /\ ReadTexts(type, src, prefix.next, 2 * prefix.value) = {texts}
        /\ texts.value = val /\ texts.next = last
    BY <1>3, <1>5, GotParts DEF Finds
  <1> HIDE DEF N, prefix, texts, last
  <1>8. {x \in ReadU32(src, at) : x.value <= Len(src)} = {prefix}
    BY <1>2, <1>3, <1>4
  <1> DEFINE PairsIn(n) ==
                {Got([i \in 1..n.value |-> <<s.value[2 * i - 1], s.value[2 * i]>>], s.next) :
                    s \in ReadTexts(type, src, n.next, 2 * n.value)}
  <1>9. ReadTextPairs(type, src, at) =
           {Got([i \in 1..N |-> <<s.value[2 * i - 1], s.value[2 * i]>>], s.next) :
               s \in {texts}}
    <2>1. ReadTextPairs(type, src, at) = UNION {PairsIn(n) : n \in {prefix}}
      BY <1>8 DEF ReadTextPairs
    <2>2. PairsIn(prefix) =
             {Got([i \in 1..N |-> <<s.value[2 * i - 1], s.value[2 * i]>>], s.next) :
                 s \in {texts}}
      BY <1>3, <1>7
    <2> HIDE DEF PairsIn
    <2>3. UNION {PairsIn(n) : n \in {prefix}} = PairsIn(prefix)
      OBVIOUS
    <2> QED
      BY <2>1, <2>2, <2>3
  <1>10. @ = {Got(Pairs(val), last)}
    BY <1>7
  <1> QED
    BY <1>6, <1>9, <1>10 DEF Finds, last

-----------------------------------------------------------------------------
(* The two accounts *)

LEMMA NamedDecoded ==
    ASSUME NEW type, NEW text
    PROVE  Named(DecodedTexts(type, text)) = [f \in Field |-> Decoded(type, text[f])]
  <1> DEFINE named == Named(DecodedTexts(type, text))
  <1>1. /\ DOMAIN named = Field
        /\ named = [f \in DOMAIN named |-> named[f]]
    BY DEF Named, Field
  <1>2. /\ named["name"] = Decoded(type, text["name"])
        /\ named["symbol"] = Decoded(type, text["symbol"])
        /\ named["image"] = Decoded(type, text["image"])
        /\ named["description"] = Decoded(type, text["description"])
    BY DEF Named, DecodedTexts
  <1> HIDE DEF named
  <1>3. \A f \in Field : named[f] = Decoded(type, text[f])
    BY <1>2 DEF Field
  <1> QED
    BY <1>1, <1>3 DEF named

LEMMA NamedText ==
    ASSUME NEW text \in Given(Field)
    PROVE  /\ Named(DecodedTexts("String", text)) = text
           /\ Named(DecodedTexts("decodeString", text)) =
                 [f \in DOMAIN text |-> WithoutMark(text[f])]
  <1>1. text = [f \in Field |-> text[f]] /\ DOMAIN text = Field
    BY DEF Given
  <1>2. \A f \in Field : /\ Decoded("String", text[f]) = text[f]
                         /\ Decoded("decodeString", text[f]) = WithoutMark(text[f])
    BY DEF Decoded
  <1>3. Named(DecodedTexts("String", text)) = [f \in Field |-> Decoded("String", text[f])]
    BY NamedDecoded
  <1>4. Named(DecodedTexts("decodeString", text)) =
           [f \in Field |-> Decoded("decodeString", text[f])]
    BY NamedDecoded
  <1> QED
    BY <1>1, <1>2, <1>3, <1>4

LEMMA OptionKeyBytes ==
    ASSUME NEW key \in Key \cup {<<>>}
    PROVE  /\ OptionPubkey(key) \in Bytes
           /\ Size(OptionPubkey(key)) \in Nat
           /\ 1 <= Size(OptionPubkey(key)) /\ Size(OptionPubkey(key)) <= 1 + KeyLen
  <1> DEFINE bytes == OptionPubkey(key)
             size == Size(bytes)
  <1>1. KeyLen \in Nat
    BY CodecAssumption
  <1>2. CASE key # <<>>
    <2>1. bytes = Bool(TRUE) \o key
      BY <1>2 DEF OptionPubkey, Bool
    <2>2. Bool(TRUE) \in Bytes /\ Size(Bool(TRUE)) = 1 /\ key \in Bytes /\ Size(key) = KeyLen
      BY <1>2, BoolBytes, KeyBytes
    <2>3. /\ Bool(TRUE) \o key \in Bytes
          /\ Size(Bool(TRUE) \o key) = Size(Bool(TRUE)) + Size(key)
      BY <2>2, ConcatBytes
    <2>4. bytes \in Bytes /\ size = 1 + KeyLen
      BY <2>1, <2>2, <2>3
    <2> HIDE DEF size
    <2>5. size \in Nat /\ 1 <= size /\ size <= 1 + KeyLen
      BY <1>1, <2>4
    <2> QED
      BY <2>4, <2>5 DEF size
  <1>3. CASE key = <<>>
    <2>1. bytes = Bool(FALSE)
      BY <1>3 DEF OptionPubkey, Bool
    <2>2. bytes \in Bytes /\ size = 1
      BY <2>1, BoolBytes
    <2> HIDE DEF size
    <2>3. size \in Nat /\ 1 <= size /\ size <= 1 + KeyLen
      BY <1>1, <2>2
    <2> QED
      BY <2>2, <2>3 DEF size
  <1> QED
    BY <1>2, <1>3

LEMMA Lengths ==
    /\ METADATA_LEN \in Nat \ {0} /\ METADATA_LEN = 1 + KeyLen + MaxTexts + (1 + KeyLen)
    /\ ATTRIBUTES_LEN \in Nat \ {0}
    /\ ATTRIBUTES_LEN = 1 + KeyLen + (4 + Limit["entries"] * MaxEntry)
    /\ MaxTexts \in Nat /\ 4 + Limit["entries"] * MaxEntry \in Nat
  <1> DEFINE a == Limit["name"]
             b == Limit["symbol"]
             c == Limit["image"]
             d == Limit["description"]
             product == Limit["entries"] * MaxEntry
  <1>1. /\ KeyLen \in Nat /\ a \in Nat /\ b \in Nat /\ c \in Nat /\ d \in Nat
        /\ Limit["entries"] \in Nat /\ MaxEntry \in Nat
    <2>1. \A f \in DOMAIN Limit : Limit[f] \in Nat
      BY CodecAssumption
    <2>2. {"name", "symbol", "image", "description", "entries", "key", "value"}
             \subseteq DOMAIN Limit
      BY FieldsAreLimited DEF Field
    <2>3. KeyLen \in Nat
      BY CodecAssumption
    <2> QED
      BY <2>1, <2>2, <2>3 DEF MaxEntry
  <1>2. product \in Nat
    BY <1>1, ProductGrows
  <1>3. /\ METADATA_LEN = 1 + KeyLen + (4 + a) + (4 + b) + (4 + c) + (4 + d) + (1 + KeyLen)
        /\ MaxTexts = (4 + a) + (4 + b) + (4 + c) + (4 + d)
        /\ ATTRIBUTES_LEN = 1 + KeyLen + 4 + product
    BY DEF METADATA_LEN, MaxTexts, ATTRIBUTES_LEN, MaxEntry
  <1> HIDE DEF a, b, c, d, product
  <1>4. /\ METADATA_LEN \in Nat \ {0} /\ METADATA_LEN = 1 + KeyLen + MaxTexts + (1 + KeyLen)
        /\ ATTRIBUTES_LEN \in Nat \ {0} /\ ATTRIBUTES_LEN = 1 + KeyLen + (4 + product)
        /\ MaxTexts \in Nat /\ 4 + product \in Nat
    BY <1>1, <1>2, <1>3
  <1> QED
    BY <1>4 DEF product

\* A metadata value fits its account.
LEMMA MetadataBytes ==
    ASSUME NEW md \in MetadataValue
    PROVE  /\ TokenMetadataBytes(md) \in Bytes
           /\ Size(TokenMetadataBytes(md)) \in 1..METADATA_LEN
  <1> DEFINE a == Bool(md.is_initialized)
             b == md.mint
             c == Texts(md.text)
             d == OptionPubkey(md.update_authority)
  <1>1. md.mint \in Key /\ md.text \in Given(Field) /\ md.update_authority \in Key \cup {<<>>}
    BY DEF MetadataValue
  <1>2. /\ a \in Bytes /\ Size(a) = 1
        /\ b \in Bytes /\ Size(b) = KeyLen
        /\ c \in Bytes /\ Size(c) \in 0..MaxTexts
        /\ d \in Bytes /\ Size(d) \in Nat /\ 1 <= Size(d) /\ Size(d) <= 1 + KeyLen
    BY <1>1, BoolBytes, KeyBytes, TextsBytes, OptionKeyBytes
  <1>3. TokenMetadataBytes(md) = a \o b \o c \o d
    BY DEF TokenMetadataBytes
  <1> HIDE DEF a, b, c, d
  <1>4. /\ TokenMetadataBytes(md) \in Bytes
        /\ Size(TokenMetadataBytes(md)) = Size(a) + Size(b) + Size(c) + Size(d)
    BY <1>2, <1>3, FourBytes
  <1>5. KeyLen \in Nat /\ MaxTexts \in Nat /\ METADATA_LEN = 1 + KeyLen + MaxTexts + (1 + KeyLen)
    BY CodecAssumption, Lengths
  <1>6. Size(a) + Size(b) + Size(c) + Size(d) \in 1..METADATA_LEN
    BY <1>2, <1>5
  <1> QED
    BY <1>4, <1>6

LEMMA AttributesBytes ==
    ASSUME NEW value \in AttributesValue
    PROVE  /\ TokenMetadataAttributesBytes(value) \in Bytes
           /\ Size(TokenMetadataAttributesBytes(value)) \in 1..ATTRIBUTES_LEN
  <1> DEFINE a == Bool(value.is_initialized)
             b == value.mint
             c == VecOfPairs(value.data)
             most == 4 + Limit["entries"] * MaxEntry
  <1>1. value.mint \in Key /\ value.data \in EntryList
    BY DEF AttributesValue
  <1>2. /\ a \in Bytes /\ Size(a) = 1
        /\ b \in Bytes /\ Size(b) = KeyLen
        /\ c \in Bytes /\ Size(c) \in Nat /\ Size(c) <= most
    BY <1>1, BoolBytes, KeyBytes, PairsBytes
  <1>3. TokenMetadataAttributesBytes(value) = a \o b \o c
    BY DEF TokenMetadataAttributesBytes
  <1>4. KeyLen \in Nat /\ ATTRIBUTES_LEN \in Nat /\ ATTRIBUTES_LEN = 1 + KeyLen + most
        /\ most \in Nat
    BY CodecAssumption, Lengths
  <1> HIDE DEF a, b, c, most
  <1>5. a \o b \in Bytes /\ Size(a \o b) = 1 + KeyLen
    BY <1>2, ConcatBytes
  <1>6. (a \o b) \o c \in Bytes /\ Size((a \o b) \o c) = Size(a \o b) + Size(c)
    BY <1>2, <1>5, ConcatBytes
  <1> DEFINE size == Size(c)
             len == ATTRIBUTES_LEN
  <1>7. /\ size \in Nat /\ size <= most /\ most \in Nat
        /\ len = 1 + KeyLen + most /\ KeyLen \in Nat
    BY <1>2, <1>4
  <1> HIDE DEF size, len
  <1>8. (1 + KeyLen) + size \in 1..len
    BY <1>7
  <1> QED
    BY <1>3, <1>5, <1>6, <1>8 DEF size, len

\* The mint follows the first byte.
LEMMA MintAt ==
    ASSUME NEW src \in Bytes, NEW b \in BOOLEAN, NEW key \in Key,
           At(src, 1, Bool(b)), At(src, 2, key)
    PROVE  /\ ReadBool(src, 1) = {Got(b, 2)}
           /\ ReadKey(src, 2) = {Got(key, KeyLen + 2)}
           /\ SubSeq(src, 2, KeyLen + 1) = key
           /\ b = TRUE => src[1] = 1 /\ (src[1] # 0) = b
  <1>0. 1 + 1 = 2
    OBVIOUS
  <1>1. KeyLen \in Nat
    BY CodecAssumption
  <1>2. ReadBool(src, 1) = {Got(b, 1 + 1)}
    BY ReadBoolAt
  <1>3. 2 + KeyLen = KeyLen + 2 /\ 2 + KeyLen - 1 = KeyLen + 1
    BY <1>1
  <1>4. ReadKey(src, 2) = {Got(key, 2 + KeyLen)}
    BY ReadKeyAt
  <1>5. SubSeq(src, 2, 2 + KeyLen - 1) = key
    <2> DEFINE taken == Got(SubSeq(src, 2, 2 + KeyLen - 1), 2 + KeyLen)
               found == Got(key, 2 + KeyLen)
    <2>1. \/ Take(src, 2, KeyLen) = {taken}
          \/ Take(src, 2, KeyLen) = {}
      BY DEF Take
    <2>2. Take(src, 2, KeyLen) = {found}
      BY <1>4 DEF ReadKey
    <2>3. taken.value = SubSeq(src, 2, 2 + KeyLen - 1) /\ found.value = key
      BY GotParts
    <2> HIDE DEF taken, found
    <2> QED
      BY <2>1, <2>2, <2>3
  <1>6. ASSUME b = TRUE PROVE src[1] = 1 /\ (src[1] # 0) = b
    <2>1. src[1] = 1
      BY <1>6, FirstAt DEF Bool
    <2>2. src[1] # 0
      BY <2>1
    <2> QED
      BY <1>6, <2>1, <2>2
  <1> QED
    BY <1>0, <1>2, <1>3, <1>4, <1>5, <1>6

\* What the readers find in bytes that hold a metadata value: the Rust reader the value,
\* the TypeScript reader the value without its byte-order marks, at the same place.
LEMMA MetadataRead ==
    ASSUME NEW src \in Bytes, NEW md \in MetadataValue, At(src, 1, TokenMetadataBytes(md))
    PROVE  \E next : /\ Finds(unpack_metadata(src), md, next)
                     /\ Finds(ts_metadata(src), WithoutMarks(md), next)
                     /\ src[1] = 1
  <1> DEFINE i == md.is_initialized
             a == Bool(i)
             b == md.mint
             c == Texts(md.text)
             key == md.update_authority
             d == OptionPubkey(key)
             p3 == KeyLen + 2
             p4 == p3 + Size(c)
             p5 == p4 + Size(d)
             init == Got(i, 2)
             mint == Got(b, p3)
             rust == DecodedTexts("String", md.text)
             script == DecodedTexts("decodeString", md.text)
             texts == Got(rust, p4)
             strings == Got(script, p4)
             some == IF key = <<>> THEN <<>> ELSE <<key>>
             auth == Got(some, p5)
             Value(n, m, t, k) == [is_initialized |-> n, mint |-> m, text |-> t,
                                   update_authority |-> k]
  <1>1. /\ md.mint \in Key /\ md.text \in Given(Field) /\ key \in Key \cup {<<>>}
        /\ i \in BOOLEAN /\ i = TRUE
        /\ md = Value(i, md.mint, md.text, md.update_authority)
    BY DEF MetadataValue
  <1>2. KeyLen \in Nat
    BY CodecAssumption
  <1>3. /\ a \in Bytes /\ Size(a) = 1
        /\ b \in Bytes /\ Size(b) = KeyLen
        /\ c \in Bytes /\ d \in Bytes /\ Size(c) \in Nat /\ Size(d) \in Nat
    BY <1>1, BoolBytes, KeyBytes, TextsBytes, OptionKeyBytes, SizeIsNat
  <1>4. TokenMetadataBytes(md) = a \o b \o c \o d
    BY DEF TokenMetadataBytes
  <1>5. At(src, 1, a) /\ At(src, 2, b) /\ At(src, p3, c) /\ At(src, p4, d)
    <2> HIDE DEF a, b, c, d
    <2>1. /\ At(src, 1, a) /\ At(src, 1 + Size(a), b) /\ At(src, 1 + Size(a) + Size(b), c)
          /\ At(src, 1 + Size(a) + Size(b) + Size(c), d)
      BY <1>3, <1>4, FourAt
    <2>2. /\ 1 + Size(a) = 2 /\ 1 + Size(a) + Size(b) = p3
          /\ 1 + Size(a) + Size(b) + Size(c) = p4
      BY <1>2, <1>3
    <2> QED
      BY <2>1, <2>2
  <1>6. p3 \in Nat /\ p4 \in Nat
    BY <1>2, <1>3
  <1>7. /\ ReadBool(src, 1) = {init} /\ ReadKey(src, 2) = {mint}
        /\ SubSeq(src, 2, KeyLen + 1) = b /\ src[1] = 1 /\ (src[1] # 0) = i
    BY <1>1, <1>5, MintAt
  <1>8. /\ init.value = i /\ init.next = 2 /\ mint.value = b /\ mint.next = p3
        /\ texts.value = rust /\ texts.next = p4
        /\ strings.value = script /\ strings.next = p4
        /\ auth.value = some /\ auth.next = p5
    BY GotParts
  <1>9. /\ ReadTexts("String", src, p3, 4) = {texts}
        /\ ReadTexts("decodeString", src, p3, 4) = {strings}
    BY <1>1, <1>5, <1>6, TextsAt DEF Finds, Plain
  <1>10. ReadOptionKey(src, p4) = {auth} /\ ts_option_key(src, p4) = {Got(key, p5)}
    BY <1>1, <1>5, <1>6, ReadOptionKeyAt
  <1>11. (IF some = <<>> THEN <<>> ELSE some[1]) = key
    <2>1. <<key>> # <<>> /\ <<key>>[1] = key
      OBVIOUS
    <2> QED
      BY <2>1
  <1> HIDE DEF i, b, key, init, mint, rust, script, texts, strings, some, auth, Value, p3, p4, p5
  <1>12. Finds(unpack_metadata(src), md, p5)
    <2> DEFINE OfAuth(n, m, t) ==
                  {Got(Value(n.value, m.value, Named(t.value),
                             IF x.value = <<>> THEN <<>> ELSE x.value[1]), x.next) :
                      x \in ReadOptionKey(src, t.next)}
               OfTexts(n, m) ==
                  UNION {OfAuth(n, m, t) : t \in ReadTexts("String", src, m.next, 4)}
               OfMint(n) == UNION {OfTexts(n, m) : m \in ReadKey(src, n.next)}
    <2>1. unpack_metadata(src) = UNION {OfMint(n) : n \in ReadBool(src, 1)}
      BY DEF unpack_metadata, Value
    <2>2. OfAuth(init, mint, texts) =
             {Got(Value(i, b, Named(rust), IF x.value = <<>> THEN <<>> ELSE x.value[1]), x.next) :
                 x \in {auth}}
      BY <1>8, <1>10
    <2>3. @ = {Got(Value(i, b, Named(rust), key), p5)}
      BY <1>8, <1>11
    <2> HIDE DEF OfAuth
    <2>4. OfTexts(init, mint) = UNION {OfAuth(init, mint, t) : t \in {texts}}
      BY <1>8, <1>9
    <2>5. @ = OfAuth(init, mint, texts)
      OBVIOUS
    <2> HIDE DEF OfTexts
    <2>6. OfMint(init) = UNION {OfTexts(init, m) : m \in {mint}}
      BY <1>7, <1>8
    <2>7. @ = OfTexts(init, mint)
      OBVIOUS
    <2> HIDE DEF OfMint
    <2>8. UNION {OfMint(n) : n \in {init}} = OfMint(init)
      OBVIOUS
    <2>9. unpack_metadata(src) = {Got(Value(i, b, Named(rust), key), p5)}
      BY <1>7, <2>1, <2>2, <2>3, <2>4, <2>5, <2>6, <2>7, <2>8
    <2>10. Named(rust) = md.text
      BY <1>1, NamedText DEF rust
    <2> QED
      BY <1>1, <2>9, <2>10 DEF Finds, i, b, key
  <1>13. Finds(ts_metadata(src), WithoutMarks(md), p5)
    <2> DEFINE OfAuth(t) ==
                  {Got(Value(src[1] # 0, SubSeq(src, 2, KeyLen + 1), Named(t.value), x.value),
                       x.next) : x \in ts_option_key(src, t.next)}
               last == Got(key, p5)
    <2>1. ts_metadata(src) = UNION {OfAuth(t) : t \in ReadTexts("decodeString", src, p3, 4)}
      BY DEF ts_metadata, Value, p3
    <2>2. last.value = key /\ last.next = p5
      BY GotParts
    <2>3. ts_option_key(src, strings.next) = {last}
      BY <1>8, <1>10
    <2> HIDE DEF last
    <2>4. OfAuth(strings) = {Got(Value(i, b, Named(script), x.value), x.next) : x \in {last}}
      BY <1>7, <1>8, <2>3
    <2>5. @ = {Got(Value(i, b, Named(script), key), p5)}
      BY <2>2
    <2> HIDE DEF OfAuth
    <2>6. UNION {OfAuth(t) : t \in {strings}} = OfAuth(strings)
      OBVIOUS
    <2>7. ts_metadata(src) = {Got(Value(i, b, Named(script), key), p5)}
      BY <1>9, <2>1, <2>4, <2>5, <2>6
    <2>8. Named(script) = [f \in DOMAIN md.text |-> WithoutMark(md.text[f])]
      BY <1>1, NamedText DEF script
    <2>9. WithoutMarks(md) = Value(i, b, Named(script), key)
      BY <1>1, <2>8 DEF WithoutMarks, Value, i, b, key
    <2> QED
      BY <2>7, <2>9 DEF Finds
  <1> QED
    BY <1>7, <1>12, <1>13

LEMMA SameEntries ==
    ASSUME NEW entries \in EntryList
    PROVE  /\ DecodedEntries("String", entries) = entries
           /\ DecodedEntries("decodeString", entries) =
                 [i \in DOMAIN entries |-> <<WithoutMark(entries[i][1]),
                                             WithoutMark(entries[i][2])>>]
  <1>1. DOMAIN entries = 1..Len(entries) /\ entries = [i \in DOMAIN entries |-> entries[i]]
    BY LenProperties DEF EntryList
  <1>2. \A i \in 1..Len(entries) : entries[i] = <<entries[i][1], entries[i][2]>>
    BY EntryFits
  <1>3. DecodedEntries("String", entries) =
           [i \in 1..Len(entries) |-> <<entries[i][1], entries[i][2]>>]
    BY DEF DecodedEntries, Decoded
  <1>4. DecodedEntries("decodeString", entries) =
           [i \in 1..Len(entries) |-> <<WithoutMark(entries[i][1]), WithoutMark(entries[i][2])>>]
    BY DEF DecodedEntries, Decoded
  <1> QED
    BY <1>1, <1>2, <1>3, <1>4

\* The same for attributes.
LEMMA AttributesRead ==
    ASSUME NEW src \in Bytes, NEW value \in AttributesValue,
           At(src, 1, TokenMetadataAttributesBytes(value))
    PROVE  \E next : /\ Finds(unpack_attributes(src), value, next)
                     /\ Finds(ts_attributes(src), EntriesWithoutMarks(value), next)
                     /\ src[1] = 1
  <1> DEFINE i == value.is_initialized
             a == Bool(i)
             b == value.mint
             entries == value.data
             c == VecOfPairs(entries)
             p3 == KeyLen + 2
             p4 == p3 + Size(c)
             init == Got(i, 2)
             mint == Got(b, p3)
             script == DecodedEntries("decodeString", entries)
             data == Got(entries, p4)
             strings == Got(script, p4)
             Value(n, m, t) == [is_initialized |-> n, mint |-> m, data |-> t]
  <1>1. /\ b \in Key /\ entries \in EntryList
        /\ i \in BOOLEAN /\ i = TRUE
        /\ value = Value(i, value.mint, value.data)
    BY DEF AttributesValue
  <1>2. KeyLen \in Nat
    BY CodecAssumption
  <1>3. /\ a \in Bytes /\ Size(a) = 1
        /\ b \in Bytes /\ Size(b) = KeyLen
        /\ c \in Bytes /\ Size(c) \in Nat
    BY <1>1, BoolBytes, KeyBytes, PairsBytes
  <1>4. TokenMetadataAttributesBytes(value) = (a \o b) \o c
    BY DEF TokenMetadataAttributesBytes
  <1>5. At(src, 1, a) /\ At(src, 2, b) /\ At(src, p3, c)
    <2> DEFINE ab == a \o b
    <2> HIDE DEF a, b, c
    <2>1. ab \in Bytes /\ Size(ab) = 1 + KeyLen /\ 1 + KeyLen \in Nat
      BY <1>2, <1>3, ConcatBytes
    <2>2. At(src, 1, ab) => At(src, 1, a) /\ At(src, 1 + 1, b)
      BY <1>2, <1>3, AtConcat
    <2>3. At(src, 1, ab \o c)
      BY <1>4
    <2> HIDE DEF ab
    <2>4. At(src, 1, ab) /\ At(src, 1 + (1 + KeyLen), c)
      BY <1>3, <2>1, <2>3, AtConcat
    <2>5. 1 + 1 = 2 /\ 1 + (1 + KeyLen) = p3
      BY <1>2
    <2> QED
      BY <2>2, <2>4, <2>5
  <1>6. p3 \in Nat
    BY <1>2
  <1>7. /\ ReadBool(src, 1) = {init} /\ ReadKey(src, 2) = {mint}
        /\ SubSeq(src, 2, KeyLen + 1) = b /\ src[1] = 1 /\ (src[1] # 0) = i
    BY <1>1, <1>5, MintAt
  <1>8. /\ init.value = i /\ init.next = 2 /\ mint.value = b /\ mint.next = p3
        /\ data.value = entries /\ data.next = p4
        /\ strings.value = script /\ strings.next = p4
    BY GotParts
  <1>9. /\ ReadTextPairs("String", src, p3) = {data}
        /\ ReadTextPairs("decodeString", src, p3) = {strings}
    <2>1. \A type \in Plain :
             ReadTextPairs(type, src, p3) = {Got(DecodedEntries(type, entries), p4)}
      BY <1>1, <1>5, <1>6, PairsAt DEF Finds
    <2>2. DecodedEntries("String", entries) = entries
      BY <1>1, SameEntries
    <2> QED
      BY <2>1, <2>2 DEF Plain
  <1>10. script = [j \in DOMAIN entries |-> <<WithoutMark(entries[j][1]),
                                              WithoutMark(entries[j][2])>>]
    BY <1>1, SameEntries
  <1> HIDE DEF i, b, entries, init, mint, script, data, strings, Value, p3, p4
  <1>11. Finds(unpack_attributes(src), value, p4)
    <2> DEFINE OfMint(n, m) ==
                  {Got(Value(n.value, m.value, x.value), x.next) :
                      x \in ReadTextPairs("String", src, m.next)}
               OfInit(n) == UNION {OfMint(n, m) : m \in ReadKey(src, n.next)}
    <2>1. unpack_attributes(src) = UNION {OfInit(n) : n \in ReadBool(src, 1)}
      BY DEF unpack_attributes, Value
    <2>2. OfMint(init, mint) = {Got(Value(i, b, x.value), x.next) : x \in {data}}
      BY <1>8, <1>9
    <2>3. @ = {Got(Value(i, b, entries), p4)}
      BY <1>8
    <2> HIDE DEF OfMint
    <2>4. OfInit(init) = UNION {OfMint(init, m) : m \in {mint}}
      BY <1>7, <1>8
    <2>5. @ = OfMint(init, mint)
      OBVIOUS
    <2> HIDE DEF OfInit
    <2>6. UNION {OfInit(n) : n \in {init}} = OfInit(init)
      OBVIOUS
    <2>7. unpack_attributes(src) = {Got(Value(i, b, entries), p4)}
      BY <1>7, <2>1, <2>2, <2>3, <2>4, <2>5, <2>6
    <2> QED
      BY <1>1, <2>7 DEF Finds, i, b, entries
  <1>12. Finds(ts_attributes(src), EntriesWithoutMarks(value), p4)
    <2>1. ts_attributes(src) =
             {Got(Value(src[1] # 0, SubSeq(src, 2, KeyLen + 1), x.value), x.next) :
                 x \in ReadTextPairs("decodeString", src, p3)}
      BY DEF ts_attributes, Value, p3
    <2>2. ts_attributes(src) = {Got(Value(i, b, x.value), x.next) : x \in {strings}}
      BY <1>7, <1>9, <2>1
    <2>3. @ = {Got(Value(i, b, script), p4)}
      BY <1>8
    <2>4. EntriesWithoutMarks(value) = Value(i, b, script)
      BY <1>1, <1>10 DEF EntriesWithoutMarks, Value, i, b, entries
    <2> QED
      BY <2>2, <2>3, <2>4 DEF Finds
  <1> QED
    BY <1>7, <1>11, <1>12

-----------------------------------------------------------------------------
(* The samples of the fixture generator *)

\* A value's bytes and zeros up to the length of its account: what pack_into_slice
\* writes, whatever the account held.
LEMMA PaddedBytes ==
    ASSUME NEW bytes \in Bytes, NEW len \in Nat, Size(bytes) \in 1..len,
           NEW dst, Len(dst) = len
    PROVE  /\ pack_into_slice(bytes, dst) = bytes \o Zeros(len - Size(bytes))
           /\ pack_into_slice(bytes, dst) \in Bytes
           /\ Len(pack_into_slice(bytes, dst)) = len
           /\ At(pack_into_slice(bytes, dst), 1, bytes)
           /\ pack_into_slice(bytes, dst) # <<>>
  <1> DEFINE rest == len - Size(bytes)
             padded == bytes \o Zeros(rest)
  <1>1. Size(bytes) \in Nat /\ rest \in Nat
    BY SizeIsNat
  <1>2. pack_into_slice(bytes, dst) = padded
    BY DEF pack_into_slice, Size
  <1>3. Zeros(rest) \in Bytes /\ Size(Zeros(rest)) = rest
    BY <1>1, ZerosBytes
  <1>4. padded \in Bytes /\ Size(padded) = Size(bytes) + rest
    <2> HIDE DEF rest
    <2> QED
      BY <1>3, ConcatBytes
  <1>5. At(padded, 1, bytes)
    BY <1>3, AtStart
  <1>6. Size(padded) = len /\ len # 0
    BY <1>1, <1>4
  <1>7. padded # <<>>
    <2>1. Len(<<>>) = 0
      OBVIOUS
    <2> QED
      BY <1>6, <2>1 DEF Size
  <1> HIDE DEF padded
  <1> QED
    BY <1>2, <1>4, <1>5, <1>6, <1>7 DEF Size, padded

\* An account holds the one value that is read in it.
LEMMA ValueFound ==
    ASSUME NEW found, NEW v, NEW next, NEW data, Finds(found, v, next), v.is_initialized
    PROVE  ValueIn(found, data, Len(data)) = v
  <1> DEFINE r == Got(v, next)
             reads == {s \in found : s.value.is_initialized}
             values == {s.value : s \in reads}
  <1>1. found = {r} /\ r.value = v
    BY GotParts DEF Finds
  <1> HIDE DEF r
  <1>2. reads = {r}
    BY <1>1, Zenon
  <1> HIDE DEF reads
  <1>3. values = {v}
    BY <1>1, <1>2
  <1> HIDE DEF values
  <1>4. ValueIn(found, data, Len(data)) =
           IF values # {} THEN CHOOSE w \in values : TRUE ELSE <<>>
    BY DEF ValueIn, values, reads
  <1>5. (CHOOSE w \in {v} : TRUE) = v
    OBVIOUS
  <1> QED
    BY <1>3, <1>4, <1>5

LEMMA NothingThere ==
    ASSUME NEW found, NEW len \in Nat \ {0}
    PROVE  ValueIn(found, <<>>, len) = <<>>
  <1>1. Len(<<>>) # len
    OBVIOUS
  <1> QED
    BY <1>1 DEF ValueIn

\* A record of values is not the empty data.
LEMMA ValuesArePresent ==
    /\ \A md \in MetadataValue : md # <<>> /\ md.is_initialized = TRUE
    /\ \A value \in AttributesValue : value # <<>> /\ value.is_initialized = TRUE
  <1>1. DOMAIN <<>> = {}
    OBVIOUS
  <1>2. ASSUME NEW md \in MetadataValue PROVE md # <<>> /\ md.is_initialized = TRUE
    <2>1. "mint" \in DOMAIN md /\ md.is_initialized = TRUE
      BY DEF MetadataValue
    <2> QED
      BY <1>1, <2>1
  <1>3. ASSUME NEW value \in AttributesValue PROVE value # <<>> /\ value.is_initialized = TRUE
    <2>1. "mint" \in DOMAIN value /\ value.is_initialized = TRUE
      BY DEF AttributesValue
    <2> QED
      BY <1>1, <2>1
  <1> QED
    BY <1>2, <1>3

\* Whatever a buffer held, what is packed into it is the value's sample, and both
\* readers find the value in it.
LEMMA MetadataSample ==
    ASSUME NEW md \in MetadataValue
    PROVE  LET sample == sample_packed_metadata(md)
           IN  /\ Size(TokenMetadataBytes(md)) <= METADATA_LEN
               /\ \A dst : Len(dst) = METADATA_LEN
                             => pack_into_slice(TokenMetadataBytes(md), dst) = sample
               /\ Len(sample) = METADATA_LEN /\ sample # <<>> /\ sample[1] = 1
               /\ ValueIn(unpack_metadata(sample), sample, METADATA_LEN) = md
               /\ ts_metadata(sample) =
                     {Got(WithoutMarks(r.value), r.next) : r \in unpack_metadata(sample)}
  <1> DEFINE bytes == TokenMetadataBytes(md)
             sample == sample_packed_metadata(md)
             len == METADATA_LEN
  <1>1. bytes \in Bytes /\ Size(bytes) \in 1..len /\ len \in Nat
    BY MetadataBytes, Lengths
  <1>2. Len(Zeros(len)) = len
    BY <1>1, ZerosBytes DEF Size
  <1>3. sample = pack_into_slice(bytes, Zeros(len))
    BY DEF sample_packed_metadata
  <1> HIDE DEF sample, len
  <1>4. /\ sample = bytes \o Zeros(len - Size(bytes)) /\ sample \in Bytes
        /\ Len(sample) = len /\ At(sample, 1, bytes) /\ sample # <<>>
    <2> HIDE DEF bytes
    <2> QED
      BY <1>1, <1>2, <1>3, PaddedBytes
  <1>5. ASSUME NEW dst, Len(dst) = len PROVE pack_into_slice(bytes, dst) = sample
    <2> HIDE DEF bytes
    <2> QED
      BY <1>1, <1>4, <1>5, PaddedBytes
  <1>6. PICK next : /\ Finds(unpack_metadata(sample), md, next)
                    /\ Finds(ts_metadata(sample), WithoutMarks(md), next)
                    /\ sample[1] = 1
    BY <1>4, MetadataRead
  <1>7. ValueIn(unpack_metadata(sample), sample, len) = md
    <2>1. md.is_initialized
      BY ValuesArePresent
    <2> DEFINE found == unpack_metadata(sample)
    <2>2. Finds(found, md, next)
      BY <1>6
    <2> HIDE DEF found
    <2>3. ValueIn(found, sample, Len(sample)) = md
      BY <2>1, <2>2, ValueFound
    <2> QED
      BY <1>4, <2>3 DEF found
  <1>8. ts_metadata(sample) =
           {Got(WithoutMarks(r.value), r.next) : r \in unpack_metadata(sample)}
    <2> DEFINE found == Got(md, next)
    <2>1. unpack_metadata(sample) = {found} /\ found.value = md /\ found.next = next
      BY <1>6, GotParts DEF Finds
    <2> HIDE DEF found
    <2>2. {Got(WithoutMarks(r.value), r.next) : r \in {found}} = {Got(WithoutMarks(md), next)}
      BY <2>1
    <2> QED
      BY <1>6, <2>1, <2>2 DEF Finds
  <1>9. Size(bytes) <= len
    <2> HIDE DEF bytes
    <2> QED
      BY <1>1
  <1> QED
    BY <1>4, <1>5, <1>6, <1>7, <1>8, <1>9 DEF sample, len

LEMMA AttributesSample ==
    ASSUME NEW value \in AttributesValue
    PROVE  LET sample == sample_packed_attributes(value)
           IN  /\ Size(TokenMetadataAttributesBytes(value)) <= ATTRIBUTES_LEN
               /\ \A dst : Len(dst) = ATTRIBUTES_LEN
                             => pack_into_slice(TokenMetadataAttributesBytes(value), dst) = sample
               /\ Len(sample) = ATTRIBUTES_LEN /\ sample # <<>> /\ sample[1] = 1
               /\ ValueIn(unpack_attributes(sample), sample, ATTRIBUTES_LEN) = value
               /\ ts_attributes(sample) =
                     {Got(EntriesWithoutMarks(r.value), r.next) :
                         r \in unpack_attributes(sample)}
  <1> DEFINE bytes == TokenMetadataAttributesBytes(value)
             sample == sample_packed_attributes(value)
             len == ATTRIBUTES_LEN
  <1>1. bytes \in Bytes /\ Size(bytes) \in 1..len /\ len \in Nat
    BY AttributesBytes, Lengths
  <1>2. Len(Zeros(len)) = len
    BY <1>1, ZerosBytes DEF Size
  <1>3. sample = pack_into_slice(bytes, Zeros(len))
    BY DEF sample_packed_attributes
  <1> HIDE DEF sample, len
  <1>4. /\ sample = bytes \o Zeros(len - Size(bytes)) /\ sample \in Bytes
        /\ Len(sample) = len /\ At(sample, 1, bytes) /\ sample # <<>>
    <2> HIDE DEF bytes
    <2> QED
      BY <1>1, <1>2, <1>3, PaddedBytes
  <1>5. ASSUME NEW dst, Len(dst) = len PROVE pack_into_slice(bytes, dst) = sample
    <2> HIDE DEF bytes
    <2> QED
      BY <1>1, <1>4, <1>5, PaddedBytes
  <1>6. PICK next : /\ Finds(unpack_attributes(sample), value, next)
                    /\ Finds(ts_attributes(sample), EntriesWithoutMarks(value), next)
                    /\ sample[1] = 1
    BY <1>4, AttributesRead
  <1>7. ValueIn(unpack_attributes(sample), sample, len) = value
    <2>1. value.is_initialized
      BY ValuesArePresent
    <2> DEFINE found == unpack_attributes(sample)
    <2>2. Finds(found, value, next)
      BY <1>6
    <2> HIDE DEF found
    <2>3. ValueIn(found, sample, Len(sample)) = value
      BY <2>1, <2>2, ValueFound
    <2> QED
      BY <1>4, <2>3 DEF found
  <1>8. ts_attributes(sample) =
           {Got(EntriesWithoutMarks(r.value), r.next) : r \in unpack_attributes(sample)}
    <2> DEFINE found == Got(value, next)
    <2>1. unpack_attributes(sample) = {found} /\ found.value = value /\ found.next = next
      BY <1>6, GotParts DEF Finds
    <2> HIDE DEF found
    <2>2. {Got(EntriesWithoutMarks(r.value), r.next) : r \in {found}} =
             {Got(EntriesWithoutMarks(value), next)}
      BY <2>1
    <2> QED
      BY <1>6, <2>1, <2>2 DEF Finds
  <1>9. Size(bytes) <= len
    <2> HIDE DEF bytes
    <2> QED
      BY <1>1
  <1> QED
    BY <1>4, <1>5, <1>6, <1>7, <1>8, <1>9 DEF sample, len

-----------------------------------------------------------------------------
(* The instructions *)

\* The tag the derive gives a variant is the one the TypeScript SDK keeps for it, and
\* no other variant has it.
LEMMA Tags ==
    ASSUME NEW op \in {"CreateMetadata", "UpdateMetadata", "CreateAttributes",
                       "ReplaceAttributes", "TransferAuthority", "MakeImmutable"}
    PROVE  /\ (CHOOSE i \in DOMAIN Variants : Variants[i] = op) - 1 = IX[op]
           /\ IX[op] \in Byte
           /\ \E i \in DOMAIN Variants : /\ Variants[i] = op
                                         /\ {j \in DOMAIN Variants : IX[op] = j - 1} = {i}
  <1>1. DOMAIN Variants = 1..6
    BY DEF Variants
  <1>2. PICK i \in 1..6 : Variants[i] = op /\ IX[op] = i - 1
    BY DEF Variants, IX
  <1>3. ASSUME NEW j \in 1..6, Variants[j] = op PROVE j = i
    BY <1>2, <1>3 DEF Variants
  <1>4. (CHOOSE j \in DOMAIN Variants : Variants[j] = op) = i
    BY <1>1, <1>2, <1>3
  <1>5. {j \in 1..6 : i - 1 = j - 1} = {i}
    OBVIOUS
  <1>6. i - 1 \in 0..255
    OBVIOUS
  <1> QED
    BY <1>1, <1>2, <1>4, <1>5, <1>6 DEF Byte

\* The texts a client gives are the ones that come back.
LEMMA NamedGiven ==
    ASSUME NEW fields \in SUBSET Field, NEW given \in Given(fields)
    PROVE  LET named == Named(GivenTexts(given))
           IN  [f \in {g \in DOMAIN named : named[g] # <<>>} |-> named[f][1]] = given
  <1> DEFINE named == Named(GivenTexts(given))
  <1>1. DOMAIN named = Field
    BY DEF Named, Field
  <1>2. \A f \in Field : named[f] = GivenText(given, f)
    BY DEF Named, GivenTexts, Field
  <1>3. given = [f \in fields |-> given[f]] /\ DOMAIN given = fields
    BY DEF Given
  <1> HIDE DEF named
  <1>4. ASSUME NEW f \in Field
        PROVE  /\ (named[f] # <<>>) <=> f \in fields
               /\ f \in fields => named[f][1] = given[f]
    <2>1. named[f] = IF f \in fields THEN <<given[f]>> ELSE <<>>
      BY <1>2, <1>3 DEF GivenText
    <2>2. <<given[f]>> # <<>> /\ <<given[f]>>[1] = given[f]
      OBVIOUS
    <2> QED
      BY <2>1, <2>2
  <1>5. {g \in DOMAIN named : named[g] # <<>>} = fields
    BY <1>1, <1>4
  <1>6. [f \in {g \in DOMAIN named : named[g] # <<>>} |-> named[f][1]] =
           [f \in fields |-> given[f]]
    BY <1>4, <1>5
  <1> QED
    BY <1>3, <1>6 DEF named

\* Which of the arguments an instruction has, by its operation.
LEMMA InstructionKinds ==
    ASSUME NEW ix, Instruction(ix)
    PROVE  \/ /\ ix.op = "CreateMetadata" /\ ix.text \in Given(Field) /\ ix.immutable \in BOOLEAN
              /\ ix = [op |-> ix.op, text |-> ix.text, immutable |-> ix.immutable]
           \/ /\ ix.op = "UpdateMetadata"
              /\ \E fields \in SUBSET Field : ix.text \in Given(fields)
              /\ ix = [op |-> ix.op, text |-> ix.text]
           \/ /\ ix.op \in {"CreateAttributes", "ReplaceAttributes"} /\ ix.data \in EntryList
              /\ ix = [op |-> ix.op, data |-> ix.data]
           \/ /\ ix.op = "TransferAuthority" /\ ix.new_authority \in Key
              /\ ix = [op |-> ix.op, new_authority |-> ix.new_authority]
           \/ ix.op = "MakeImmutable" /\ ix = [op |-> ix.op]
  <1>1. CASE ix \in [op : {"CreateMetadata"}, text : Given(Field), immutable : BOOLEAN]
    BY <1>1
  <1>2. CASE \E fields \in SUBSET Field : ix \in [op : {"UpdateMetadata"}, text : Given(fields)]
    BY <1>2
  <1>3. CASE ix \in [op : {"CreateAttributes", "ReplaceAttributes"}, data : EntryList]
    BY <1>3
  <1>4. CASE ix \in [op : {"TransferAuthority"}, new_authority : Key]
    BY <1>4
  <1>5. CASE ix \in [op : {"MakeImmutable"}]
    BY <1>5
  <1> QED
    BY <1>1, <1>2, <1>3, <1>4, <1>5 DEF Instruction

\* In bytes that hold an instruction's arguments its variant's reader finds the
\* instruction.
LEMMA ArgumentsRead ==
    ASSUME NEW src \in Bytes, NEW ix, Instruction(ix), At(src, 2, Arguments(ix))
    PROVE  Finds(ReadArguments(ix.op, src), ix, 2 + Size(Arguments(ix)))
  <1>1. CASE ix.op = "CreateMetadata"
    <2> DEFINE i == ix.immutable
               text == ix.text
               a == Texts(text)
               b == Bool(i)
               p3 == 2 + Size(a)
               rust == DecodedTexts("String", text)
               texts == Got(rust, p3)
               flag == Got(i, p3 + 1)
               Value(t, n) == [op |-> ix.op, text |-> t, immutable |-> n]
    <2>1. text \in Given(Field) /\ i \in BOOLEAN /\ ix = Value(text, i)
      BY <1>1, InstructionKinds
    <2>2. Arguments(ix) = a \o b
      BY <1>1 DEF Arguments
    <2>3. a \in Bytes /\ Size(a) \in Nat /\ b \in Bytes /\ Size(b) = 1
      BY <2>1, TextsBytes, BoolBytes, SizeIsNat
    <2>4. At(src, 2, a) /\ At(src, p3, b) /\ Size(a \o b) = Size(a) + Size(b) /\ p3 \in Nat
      <3> HIDE DEF a, b
      <3> QED
        BY <2>2, <2>3, AtConcat, ConcatBytes
    <2>5. ReadTexts("String", src, 2, 4) = {texts}
      BY <2>1, <2>4, TextsAt DEF Finds, Plain
    <2>6. ReadBool(src, p3) = {flag}
      BY <2>1, <2>4, ReadBoolAt
    <2>7. texts.value = rust /\ texts.next = p3 /\ flag.value = i /\ flag.next = p3 + 1
      BY GotParts
    <2>8. Named(rust) = text
      BY <2>1, NamedText
    <2>9. p3 + 1 = 2 + Size(Arguments(ix))
      BY <2>2, <2>3, <2>4
    <2> HIDE DEF a, b, text, i, p3, rust, texts, flag, Value
    <2> DEFINE OfTexts(t) == {Got(Value(Named(t.value), x.value), x.next) :
                                 x \in ReadBool(src, t.next)}
    <2>10. ReadArguments(ix.op, src) =
              UNION {OfTexts(t) : t \in ReadTexts("String", src, 2, 4)}
      BY <1>1 DEF ReadArguments, Value
    <2>11. OfTexts(texts) = {Got(Value(text, x.value), x.next) : x \in {flag}}
      BY <2>6, <2>7, <2>8
    <2>12. @ = {Got(Value(text, i), p3 + 1)}
      BY <2>7
    <2> HIDE DEF OfTexts
    <2>13. UNION {OfTexts(t) : t \in {texts}} = OfTexts(texts)
      OBVIOUS
    <2> QED
      BY <2>1, <2>5, <2>9, <2>10, <2>11, <2>12, <2>13 DEF Finds
  <1>2. CASE ix.op = "UpdateMetadata"
    <2>1. PICK fields \in SUBSET Field : ix.text \in Given(fields)
      BY <1>2, InstructionKinds
    <2>2. ix = [op |-> ix.op, text |-> ix.text]
      BY <1>2, InstructionKinds
    <2>3. Arguments(ix) = Options(ix.text)
      BY <1>2 DEF Arguments, Options
    <2> DEFINE next == 2 + Size(Options(ix.text))
               texts == Got(GivenTexts(ix.text), next)
               TextOf(t) == LET given == Named(t)
                            IN  [f \in {g \in DOMAIN given : given[g] # <<>>} |-> given[f][1]]
    <2>4. ReadTexts("Option<String>", src, 2, 4) = {texts}
      BY <2>1, <2>3, OptionsAt DEF Finds
    <2>5. texts.value = GivenTexts(ix.text) /\ texts.next = next
      BY GotParts
    <2>6. TextOf(GivenTexts(ix.text)) = ix.text
      BY <2>1, NamedGiven
    <2>7. ReadArguments(ix.op, src) =
             {Got([op |-> ix.op, text |-> TextOf(t.value)], t.next) :
                 t \in ReadTexts("Option<String>", src, 2, 4)}
      BY <1>2 DEF ReadArguments
    <2> HIDE DEF texts, TextOf, next
    <2>8. {Got([op |-> ix.op, text |-> TextOf(t.value)], t.next) : t \in {texts}} =
             {Got([op |-> ix.op, text |-> ix.text], next)}
      BY <2>5, <2>6
    <2> QED
      BY <2>2, <2>3, <2>4, <2>7, <2>8 DEF Finds, next
  <1>3. CASE ix.op \in {"CreateAttributes", "ReplaceAttributes"}
    <2>1. ix.data \in EntryList /\ ix = [op |-> ix.op, data |-> ix.data]
      BY <1>3, InstructionKinds
    <2>2. Arguments(ix) = VecOfPairs(ix.data)
      BY <1>3 DEF Arguments
    <2> DEFINE next == 2 + Size(VecOfPairs(ix.data))
               data == Got(ix.data, next)
    <2>3. ReadTextPairs("String", src, 2) = {data}
      BY <2>1, <2>2, PairsAt, SameEntries DEF Finds, Plain
    <2>4. data.value = ix.data /\ data.next = next
      BY GotParts
    <2>5. ReadArguments(ix.op, src) =
             {Got([op |-> ix.op, data |-> d.value], d.next) :
                 d \in ReadTextPairs("String", src, 2)}
      BY <1>3 DEF ReadArguments
    <2> HIDE DEF data, next
    <2>6. {Got([op |-> ix.op, data |-> d.value], d.next) : d \in {data}} =
             {Got([op |-> ix.op, data |-> ix.data], next)}
      BY <2>4
    <2> QED
      BY <2>1, <2>2, <2>3, <2>5, <2>6 DEF Finds, next
  <1>4. CASE ix.op = "TransferAuthority"
    <2>1. /\ ix.new_authority \in Key
          /\ ix = [op |-> ix.op, new_authority |-> ix.new_authority]
      BY <1>4, InstructionKinds
    <2>2. Arguments(ix) = ix.new_authority
      BY <1>4 DEF Arguments
    <2> DEFINE next == 2 + KeyLen
               key == Got(ix.new_authority, next)
    <2>3. ReadKey(src, 2) = {key} /\ Size(ix.new_authority) = KeyLen
      BY <2>1, <2>2, ReadKeyAt, KeyBytes
    <2>4. key.value = ix.new_authority /\ key.next = next
      BY GotParts
    <2>5. ReadArguments(ix.op, src) =
             {Got([op |-> ix.op, new_authority |-> k.value], k.next) : k \in ReadKey(src, 2)}
      BY <1>4 DEF ReadArguments
    <2> HIDE DEF key
    <2>6. {Got([op |-> ix.op, new_authority |-> k.value], k.next) : k \in {key}} =
             {Got([op |-> ix.op, new_authority |-> ix.new_authority], next)}
      BY <2>4
    <2> QED
      BY <2>1, <2>2, <2>3, <2>5, <2>6 DEF Finds
  <1>5. CASE ix.op = "MakeImmutable"
    <2>1. ix = [op |-> ix.op] /\ Arguments(ix) = <<>>
      BY <1>5, InstructionKinds DEF Arguments
    <2>2. ReadArguments(ix.op, src) = {Got([op |-> ix.op], 2)}
      BY <1>5 DEF ReadArguments
    <2>3. 2 + Size(<<>>) = 2
      BY DEF Size
    <2> QED
      BY <2>1, <2>2, <2>3 DEF Finds
  <1> QED
    BY <1>1, <1>2, <1>3, <1>4, <1>5, InstructionKinds

LEMMA ArgumentsBytes ==
    ASSUME NEW ix, Instruction(ix)
    PROVE  Arguments(ix) \in Bytes
  <1>1. CASE ix.op = "CreateMetadata"
    <2>1. ix.text \in Given(Field)
      BY <1>1, InstructionKinds
    <2>2. Texts(ix.text) \in Bytes /\ Bool(ix.immutable) \in Bytes
      BY <2>1, TextsBytes, BoolBytes
    <2>3. Arguments(ix) = Texts(ix.text) \o Bool(ix.immutable)
      BY <1>1 DEF Arguments
    <2> QED
      BY <2>2, <2>3, ConcatBytes
  <1>2. CASE ix.op = "UpdateMetadata"
    <2>1. PICK fields \in SUBSET Field : ix.text \in Given(fields)
      BY <1>2, InstructionKinds
    <2> DEFINE Given1(f) == OptionString(ix.text, f)
    <2>2. \A f \in Field : Given1(f) \in Bytes
      BY <2>1, OptionFits
    <2>3. Arguments(ix) = Given1("name") \o Given1("symbol") \o Given1("image")
                             \o Given1("description")
      BY <1>2 DEF Arguments
    <2> HIDE DEF Given1
    <2> QED
      BY <2>2, <2>3, FourBytes DEF Field
  <1>3. CASE ix.op \in {"CreateAttributes", "ReplaceAttributes"}
    <2>1. ix.data \in EntryList
      BY <1>3, InstructionKinds
    <2> QED
      BY <1>3, <2>1, PairsBytes DEF Arguments
  <1>4. CASE ix.op = "TransferAuthority"
    <2>1. ix.new_authority \in Key
      BY <1>4, InstructionKinds
    <2> QED
      BY <1>4, <2>1, KeyBytes DEF Arguments
  <1>5. CASE ix.op = "MakeImmutable"
    BY <1>5, EmptySeq DEF Arguments, Bytes
  <1> QED
    BY <1>1, <1>2, <1>3, <1>4, <1>5, InstructionKinds

\* An instruction survives the wire, whichever SDK built it.
LEMMA UnpackPacked ==
    ASSUME NEW ix, Instruction(ix)
    PROVE  /\ ts_data(ix) = pack(ix)
           /\ {read.value : read \in unpack(pack(ix))} = {ix}
  <1> DEFINE args == Arguments(ix)
             tag == IX[ix.op]
             src == <<tag>> \o args
             next == 2 + Size(args)
             found == Got(ix, next)
  <1>1. PICK i \in DOMAIN Variants :
           /\ (CHOOSE k \in DOMAIN Variants : Variants[k] = ix.op) - 1 = tag
           /\ tag \in Byte /\ Variants[i] = ix.op
           /\ {j \in DOMAIN Variants : tag = j - 1} = {i}
    <2>1. ix.op \in {"CreateMetadata", "UpdateMetadata", "CreateAttributes",
                     "ReplaceAttributes", "TransferAuthority", "MakeImmutable"}
      BY InstructionKinds
    <2> HIDE DEF tag
    <2> QED
      BY <2>1, Tags DEF tag
  <1>2. pack(ix) = src /\ ts_data(ix) = src
    BY <1>1 DEF pack, ts_data
  <1>3. args \in Bytes /\ <<tag>> \in Bytes /\ Size(<<tag>>) = 1
    BY <1>1, ArgumentsBytes DEF Bytes, Size
  <1> HIDE DEF tag
  <1>4. /\ src \in Bytes /\ Size(src) = 1 + Size(args) /\ Size(args) \in Nat
        /\ At(src, 2, args) /\ src # <<>> /\ src[1] = tag
    <2> HIDE DEF args
    <2>1. src \in Bytes /\ Size(src) = Size(<<tag>>) + Size(args) /\ Size(args) \in Nat
      BY <1>3, ConcatBytes, SizeIsNat
    <2>2. At(src, 1, src)
      BY <2>1, AtStart
    <2>3. At(src, 1 + 1, args)
      BY <1>3, <2>1, <2>2, AtConcat
    <2>4. 1 + 1 = 2
      OBVIOUS
    <2>5. src # <<>> /\ src[1] = tag
      <3>1. Len(<<>>) = 0
        OBVIOUS
      <3>2. src # <<>>
        BY <1>3, <2>1, <3>1 DEF Size
      <3>3. src[1] = tag
        BY <1>3, ConcatProperties DEF Bytes
      <3> QED
        BY <3>2, <3>3
    <2> QED
      BY <1>3, <2>1, <2>3, <2>4, <2>5
  <1> HIDE DEF src, found
  <1>5. ReadArguments(ix.op, src) = {found} /\ found.value = ix /\ found.next = Len(src) + 1
    <2>1. ReadArguments(ix.op, src) = {found}
      BY <1>4, ArgumentsRead DEF Finds, found
    <2>2. found.value = ix /\ found.next = next
      BY GotParts DEF found
    <2>3. next = Len(src) + 1
      BY <1>4 DEF Size
    <2> QED
      BY <2>1, <2>2, <2>3
  <1> DEFINE OfVariant(k) == ReadArguments(Variants[k], src)
  <1>6. unpack(src) =
           {x \in UNION {OfVariant(k) : k \in {j \in DOMAIN Variants : src # <<>> /\ src[1] = j - 1}} :
               x.next = Len(src) + 1}
    BY DEF unpack
  <1>7. {j \in DOMAIN Variants : src # <<>> /\ src[1] = j - 1} = {i}
    BY <1>1, <1>4
  <1>8. OfVariant(i) = {found}
    BY <1>1, <1>5
  <1> HIDE DEF OfVariant
  <1>9. UNION {OfVariant(k) : k \in {i}} = {found}
    BY <1>8
  <1>10. unpack(src) = {found}
    BY <1>5, <1>6, <1>7, <1>9
  <1>11. {read.value : read \in {found}} = {ix}
    BY <1>5
  <1> QED
    BY <1>2, <1>10, <1>11

-----------------------------------------------------------------------------
(* The accounts *)

\* What an instruction makes of the metadata can be written.
LEMMA NewMetadataIsValue ==
    ASSUME NEW ix, Instruction(ix), ix.op \in MetadataWriters,
           NEW md, ix.op # "CreateMetadata" => md \in MetadataValue
    PROVE  Values!NewMetadata(ix, md) \in MetadataValue
  <1>1. CASE ix.op = "CreateMetadata"
    <2>1. ix.text \in Given(Field) /\ ix.immutable \in BOOLEAN
      BY <1>1, InstructionKinds
    <2>2. Values!NewMetadata(ix, md) = Values!Created(ix)
      BY <1>1 DEF Values!NewMetadata
    <2>3. Creator \in Key /\ Mint \in Key
      BY CodecAssumption
    <2>4. (IF ix.immutable THEN Values!NoKey ELSE Creator) \in Key \cup {<<>>}
      BY <2>3 DEF Values!NoKey
    <2>5. Values!Created(ix) \in MetadataValue
      BY <2>1, <2>3, <2>4 DEF Values!Created, MetadataValue
    <2> QED
      BY <2>2, <2>5
  <1>2. CASE ix.op = "UpdateMetadata"
    <2>1. PICK fields \in SUBSET Field : ix.text \in Given(fields)
      BY <1>2, InstructionKinds
    <2>2. md \in MetadataValue
      BY <1>2
    <2> DEFINE text == [f \in DOMAIN md.text |->
                          IF f \in DOMAIN ix.text THEN ix.text[f] ELSE md.text[f]]
    <2>3. /\ md.text \in [Field -> Seq(Byte)] /\ DOMAIN md.text = Field
          /\ \A f \in Field : md.text[f] \in Strings(Limit[f])
      BY <2>2 DEF MetadataValue, Given
    <2>4. /\ ix.text \in [fields -> Seq(Byte)] /\ DOMAIN ix.text = fields
          /\ \A f \in fields : ix.text[f] \in Strings(Limit[f])
      BY <2>1 DEF Given
    <2>5. text \in [Field -> Seq(Byte)]
      BY <2>3, <2>4
    <2>6. \A f \in Field : text[f] \in Strings(Limit[f])
      BY <2>3, <2>4
    <2>7. text \in Given(Field)
      BY <2>5, <2>6 DEF Given
    <2>8. Values!NewMetadata(ix, md) = [md EXCEPT !.text = text]
      BY <1>2 DEF Values!NewMetadata, Values!Updated
    <2> HIDE DEF text
    <2> QED
      BY <2>2, <2>7, <2>8 DEF MetadataValue
  <1>3. CASE ix.op = "TransferAuthority"
    <2>1. ix.new_authority \in Key
      BY <1>3, InstructionKinds
    <2>2. md \in MetadataValue
      BY <1>3
    <2>3. Values!NewMetadata(ix, md) = [md EXCEPT !.update_authority = ix.new_authority]
      BY <1>3 DEF Values!NewMetadata, Values!WithAuthority
    <2> QED
      BY <2>1, <2>2, <2>3 DEF MetadataValue
  <1>4. CASE ix.op = "MakeImmutable"
    <2>1. md \in MetadataValue
      BY <1>4
    <2>2. Values!NewMetadata(ix, md) = [md EXCEPT !.update_authority = <<>>]
      BY <1>4 DEF Values!NewMetadata, Values!WithAuthority, Values!NoKey
    <2> QED
      BY <2>1, <2>2 DEF MetadataValue
  <1> QED
    BY <1>1, <1>2, <1>3, <1>4 DEF MetadataWriters

LEMMA NewAttributesIsValue ==
    ASSUME NEW ix, Instruction(ix), ix.op \notin MetadataWriters,
           NEW at, ix.op = "ReplaceAttributes" => at \in AttributesValue
    PROVE  Values!NewAttributes(ix, at) \in AttributesValue
  <1>1. ix.op \in {"CreateAttributes", "ReplaceAttributes"}
    BY InstructionKinds DEF MetadataWriters
  <1>2. ix.data \in EntryList
    BY <1>1, InstructionKinds
  <1>3. Mint \in Key
    BY CodecAssumption
  <1>4. CASE ix.op = "CreateAttributes"
    <2>1. Values!NewAttributes(ix, at) =
             [is_initialized |-> TRUE, mint |-> Mint, data |-> ix.data]
      BY <1>4 DEF Values!NewAttributes, Values!AttributesOf
    <2> QED
      BY <1>2, <1>3, <2>1 DEF AttributesValue
  <1>5. CASE ix.op = "ReplaceAttributes"
    <2>1. at.mint \in Key
      BY <1>5 DEF AttributesValue
    <2>2. Values!NewAttributes(ix, at) =
             [is_initialized |-> TRUE, mint |-> at.mint, data |-> ix.data]
      BY <1>5 DEF Values!NewAttributes, Values!AttributesOf
    <2> QED
      BY <1>2, <2>1, <2>2 DEF AttributesValue
  <1> QED
    BY <1>1, <1>4, <1>5

\* What an account is, in terms of its value: nothing, or the sample of the value.
HoldsMetadataValue(data, md) ==
    \/ data = <<>> /\ md = <<>>
    \/ md \in MetadataValue /\ data = sample_packed_metadata(md)

HoldsAttributesValue(data, at) ==
    \/ data = <<>> /\ at = <<>>
    \/ at \in AttributesValue /\ data = sample_packed_attributes(at)

\* Writing a value over nothing or over another one leaves its sample.
LEMMA MetadataWritten ==
    ASSUME NEW old, NEW data, HoldsMetadataValue(data, old), NEW md \in MetadataValue
    PROVE  Packed(TokenMetadataBytes(md), data, METADATA_LEN) = sample_packed_metadata(md)
  <1> DEFINE buffer == Allocated(data, METADATA_LEN)
  <1>1. Len(buffer) = METADATA_LEN
    <2>1. CASE data = <<>>
      BY <2>1, Lengths, ZerosBytes DEF Allocated, Size
    <2>2. CASE old \in MetadataValue /\ data = sample_packed_metadata(old)
      BY <2>2, MetadataSample DEF Allocated
    <2> QED
      BY <2>1, <2>2 DEF HoldsMetadataValue
  <1> HIDE DEF buffer
  <1>2. /\ pack_into_slice(TokenMetadataBytes(md), buffer) = sample_packed_metadata(md)
        /\ Len(TokenMetadataBytes(md)) <= METADATA_LEN
    BY <1>1, MetadataSample DEF Size
  <1> QED
    BY <1>2 DEF Packed, buffer

LEMMA AttributesWritten ==
    ASSUME NEW old, NEW data, HoldsAttributesValue(data, old), NEW at \in AttributesValue
    PROVE  Packed(TokenMetadataAttributesBytes(at), data, ATTRIBUTES_LEN) =
              sample_packed_attributes(at)
  <1> DEFINE buffer == Allocated(data, ATTRIBUTES_LEN)
  <1>1. Len(buffer) = ATTRIBUTES_LEN
    <2>1. CASE data = <<>>
      BY <2>1, Lengths, ZerosBytes DEF Allocated, Size
    <2>2. CASE old \in AttributesValue /\ data = sample_packed_attributes(old)
      BY <2>2, AttributesSample DEF Allocated
    <2> QED
      BY <2>1, <2>2 DEF HoldsAttributesValue
  <1> HIDE DEF buffer
  <1>2. /\ pack_into_slice(TokenMetadataAttributesBytes(at), buffer) = sample_packed_attributes(at)
        /\ Len(TokenMetadataAttributesBytes(at)) <= ATTRIBUTES_LEN
    BY <1>1, AttributesSample DEF Size
  <1> QED
    BY <1>2 DEF Packed, buffer

\* The value is the one that is read back, and the first byte tells it is there.
LEMMA MetadataHeld ==
    ASSUME NEW data, NEW md, HoldsMetadataValue(data, md)
    PROVE  /\ ValueIn(unpack_metadata(data), data, METADATA_LEN) = md
           /\ (data = <<>>) <=> (md = <<>>)
           /\ FirstByteSet(data) <=> md # <<>>
  <1>1. CASE data = <<>> /\ md = <<>>
    BY <1>1, NothingThere, Lengths DEF FirstByteSet
  <1>2. CASE md \in MetadataValue /\ data = sample_packed_metadata(md)
    <2>1. /\ ValueIn(unpack_metadata(data), data, METADATA_LEN) = md
          /\ data # <<>> /\ data[1] = 1
      BY <1>2, MetadataSample
    <2>2. md # <<>>
      BY <1>2, ValuesArePresent
    <2> QED
      BY <2>1, <2>2 DEF FirstByteSet
  <1> QED
    BY <1>1, <1>2 DEF HoldsMetadataValue

LEMMA AttributesHeld ==
    ASSUME NEW data, NEW at, HoldsAttributesValue(data, at)
    PROVE  /\ ValueIn(unpack_attributes(data), data, ATTRIBUTES_LEN) = at
           /\ (data = <<>>) <=> (at = <<>>)
           /\ FirstByteSet(data) <=> at # <<>>
  <1>1. CASE data = <<>> /\ at = <<>>
    BY <1>1, NothingThere, Lengths DEF FirstByteSet
  <1>2. CASE at \in AttributesValue /\ data = sample_packed_attributes(at)
    <2>1. /\ ValueIn(unpack_attributes(data), data, ATTRIBUTES_LEN) = at
          /\ data # <<>> /\ data[1] = 1
      BY <1>2, AttributesSample
    <2>2. at # <<>>
      BY <1>2, ValuesArePresent
    <2> QED
      BY <2>1, <2>2 DEF FirstByteSet
  <1> QED
    BY <1>1, <1>2 DEF HoldsAttributesValue

-----------------------------------------------------------------------------
(* The invariant *)

LEMMA AskedIsInstruction ==
    ASSUME NEW ix \in Instructions
    PROVE  Instruction(ix) /\ ix # Values!Idle
  <1>1. Instruction(ix)
    BY InstructionsAssumption
  <1>2. ix.op # "Idle" /\ Values!Idle.op = "Idle"
    BY <1>1, InstructionKinds DEF Values!Idle
  <1> QED
    BY <1>1, <1>2

\* The invariant says of each account that it holds the value read in it.
LEMMA AccountsHoldValues ==
    CodecIInv => /\ HoldsMetadataValue(metadata_data, StoredMetadata)
                 /\ HoldsAttributesValue(attributes_data, StoredAttributes)
  <1> SUFFICES ASSUME CodecIInv
               PROVE  /\ HoldsMetadataValue(metadata_data, StoredMetadata)
                      /\ HoldsAttributesValue(attributes_data, StoredAttributes)
    OBVIOUS
  <1>1. metadata_data = <<>> => StoredMetadata = <<>>
    BY NothingThere, Lengths DEF StoredMetadata
  <1>2. attributes_data = <<>> => StoredAttributes = <<>>
    BY NothingThere, Lengths DEF StoredAttributes
  <1> QED
    BY <1>1, <1>2 DEF CodecIInv, BytesOfTheValue, HoldsMetadataValue, HoldsAttributesValue

\* And the other way round, after a step.
LEMMA ValuesMakeInvariant ==
    ASSUME NEW md, HoldsMetadataValue(metadata_data', md),
           NEW at, HoldsAttributesValue(attributes_data', at),
           asked' \in Instructions \cup {Values!Idle},
           wire' = IF asked' = Values!Idle THEN <<>> ELSE pack(asked')
    PROVE  CodecIInv' /\ StoredMetadata' = md /\ StoredAttributes' = at
  <1>1. StoredMetadata' = md
    BY MetadataHeld DEF StoredMetadata
  <1>2. StoredAttributes' = at
    BY AttributesHeld DEF StoredAttributes
  <1>3. metadata_data' # <<>> => /\ md \in MetadataValue /\ md # <<>>
                                 /\ metadata_data' = sample_packed_metadata(md)
    BY ValuesArePresent DEF HoldsMetadataValue
  <1>4. attributes_data' # <<>> => /\ at \in AttributesValue /\ at # <<>>
                                   /\ attributes_data' = sample_packed_attributes(at)
    BY ValuesArePresent DEF HoldsAttributesValue
  <1> QED
    BY <1>1, <1>2, <1>3, <1>4 DEF CodecIInv, BytesOfTheValue

LEMMA InitCodecIInv == CodecInit => CodecIInv /\ Values!Init
  <1> SUFFICES ASSUME CodecInit PROVE CodecIInv /\ Values!Init
    OBVIOUS
  <1>1. StoredMetadata = <<>> /\ StoredAttributes = <<>>
    BY NothingThere, Lengths DEF CodecInit, StoredMetadata, StoredAttributes
  <1> QED
    BY <1>1 DEF CodecInit, CodecIInv, BytesOfTheValue, Values!Init, Values!Absent

\* The program's checks on the bytes are the checks on the values.
LEMMA SameChecks ==
    ASSUME CodecIInv, NEW ix, Instruction(ix)
    PROVE  Accepted(ix, StoredMetadata) <=>
              Values!Accepted(ix, StoredMetadata, StoredAttributes)
  <1>1. /\ FirstByteSet(metadata_data) <=> StoredMetadata # <<>>
        /\ FirstByteSet(attributes_data) <=> StoredAttributes # <<>>
    BY AccountsHoldValues, MetadataHeld, AttributesHeld
  <1> QED
    BY <1>1, InstructionKinds DEF Accepted, Values!Accepted, Values!Absent

\* A client's instruction is the same data from either SDK.
LEMMA AskStep ==
    ASSUME CodecIInv, NEW ix \in Instructions, Ask(ix)
    PROVE  CodecIInv' /\ Values!Ask(ix)
  <1>1. Instruction(ix) /\ ix # Values!Idle
    BY AskedIsInstruction
  <1>2. wire' = pack(ix) /\ asked' = ix /\ asked = Values!Idle
    BY <1>1, UnpackPacked DEF Ask
  <1>3. metadata_data' = metadata_data /\ attributes_data' = attributes_data
    BY DEF Ask
  <1>4. CodecIInv' /\ StoredMetadata' = StoredMetadata /\ StoredAttributes' = StoredAttributes
    BY <1>1, <1>2, <1>3, AccountsHoldValues, ValuesMakeInvariant
  <1> QED
    BY <1>2, <1>4 DEF Values!Ask

\* The program runs the instruction that was asked for, or none.
LEMMA ExecuteStep ==
    ASSUME CodecIInv, Execute
    PROVE  CodecIInv' /\ Values!Execute
  <1> DEFINE md == StoredMetadata
             at == StoredAttributes
             run == {ix \in {read.value : read \in unpack(wire)} : Accepted(ix, md)}
             newMd == Values!NewMetadata(asked, md)
             newAt == Values!NewAttributes(asked, at)
  <1>1. asked \in Instructions /\ asked # Values!Idle /\ Instruction(asked)
    BY AskedIsInstruction DEF CodecIInv, Execute
  <1>2. {read.value : read \in unpack(wire)} = {asked}
    BY <1>1, UnpackPacked DEF CodecIInv
  <1>3. /\ HoldsMetadataValue(metadata_data, md) /\ HoldsAttributesValue(attributes_data, at)
        /\ Accepted(asked, md) <=> Values!Accepted(asked, md, at)
    BY <1>1, AccountsHoldValues, SameChecks
  <1>4. asked' = Values!Idle /\ wire' = <<>>
    BY DEF Execute
  <1>5. \/ /\ asked \in run /\ asked.op \in MetadataWriters
           /\ metadata_data' =
                 Packed(TokenMetadataBytes(newMd), metadata_data, METADATA_LEN)
           /\ attributes_data' = attributes_data
        \/ /\ asked \in run /\ asked.op \notin MetadataWriters
           /\ attributes_data' =
                 Packed(TokenMetadataAttributesBytes(newAt), attributes_data, ATTRIBUTES_LEN)
           /\ metadata_data' = metadata_data
        \/ /\ asked \notin run
           /\ metadata_data' = metadata_data /\ attributes_data' = attributes_data
    BY <1>2 DEF Execute
  <1>6. asked \in run <=> Accepted(asked, md)
    BY <1>2
  <1> HIDE DEF run
  <1>7. CASE Accepted(asked, md) /\ asked.op \in MetadataWriters
    <2>1. asked.op # "CreateMetadata" => md \in MetadataValue
      BY <1>1, <1>3, <1>7, InstructionKinds
      DEF Values!Accepted, Values!Mutable, Values!Absent, HoldsMetadataValue, MetadataWriters
    <2>2. newMd \in MetadataValue
      BY <1>1, <1>7, <2>1, NewMetadataIsValue
    <2> HIDE DEF newMd, md, at
    <2>3. HoldsMetadataValue(metadata_data', newMd)
      BY <1>3, <1>5, <1>6, <1>7, <2>2, MetadataWritten DEF HoldsMetadataValue
    <2>4. attributes_data' = attributes_data
      BY <1>5, <1>6, <1>7
    <2>5. CodecIInv' /\ StoredMetadata' = newMd /\ StoredAttributes' = at
      BY <1>3, <1>4, <2>3, <2>4, ValuesMakeInvariant
    <2>6. newAt = at
      BY <1>7 DEF Values!NewAttributes, MetadataWriters
    <2> QED
      BY <1>1, <1>3, <1>4, <1>7, <2>5, <2>6 DEF Values!Execute, newMd, md, at
  <1>8. CASE Accepted(asked, md) /\ asked.op \notin MetadataWriters
    <2>1. asked.op = "ReplaceAttributes" => at \in AttributesValue
      BY <1>3, <1>8 DEF Values!Accepted, Values!Absent, HoldsAttributesValue
    <2>2. newAt \in AttributesValue
      BY <1>1, <1>8, <2>1, NewAttributesIsValue
    <2> HIDE DEF newAt, md, at
    <2>3. HoldsAttributesValue(attributes_data', newAt)
      BY <1>3, <1>5, <1>6, <1>8, <2>2, AttributesWritten DEF HoldsAttributesValue
    <2>4. metadata_data' = metadata_data
      BY <1>5, <1>6, <1>8
    <2>5. CodecIInv' /\ StoredMetadata' = md /\ StoredAttributes' = newAt
      BY <1>3, <1>4, <2>3, <2>4, ValuesMakeInvariant
    <2>6. newMd = md
      BY <1>8 DEF Values!NewMetadata, MetadataWriters
    <2> QED
      BY <1>1, <1>3, <1>4, <1>8, <2>5, <2>6 DEF Values!Execute, newAt, md, at
  <1>9. CASE ~Accepted(asked, md)
    <2>1. metadata_data' = metadata_data /\ attributes_data' = attributes_data
      BY <1>5, <1>6, <1>9
    <2>2. CodecIInv' /\ StoredMetadata' = md /\ StoredAttributes' = at
      BY <1>3, <1>4, <2>1, ValuesMakeInvariant
    <2> QED
      BY <1>1, <1>3, <1>4, <1>9, <2>2 DEF Values!Execute
  <1> QED
    BY <1>7, <1>8, <1>9

\* A step of the bytes keeps the invariant and is a step of the values.
LEMMA CodecStep ==
    CodecIInv /\ [CodecNext]_vars => CodecIInv' /\ [Values!Next]_(Values!vars)
  <1> SUFFICES ASSUME CodecIInv, [CodecNext]_vars
               PROVE  CodecIInv' /\ [Values!Next]_(Values!vars)
    OBVIOUS
  <1>1. ASSUME NEW ix \in Instructions, Ask(ix) PROVE CodecIInv' /\ Values!Next
    BY <1>1, AskStep DEF Values!Next
  <1>2. ASSUME Execute PROVE CodecIInv' /\ Values!Next
    BY <1>2, ExecuteStep DEF Values!Next
  <1>3. CASE UNCHANGED vars
    <2>1. /\ asked' = asked /\ wire' = wire
          /\ metadata_data' = metadata_data /\ attributes_data' = attributes_data
      BY <1>3 DEF vars
    <2>2. /\ asked' \in Instructions \cup {Values!Idle}
          /\ wire' = IF asked' = Values!Idle THEN <<>> ELSE pack(asked')
      BY <2>1 DEF CodecIInv
    <2>3. CodecIInv' /\ StoredMetadata' = StoredMetadata /\ StoredAttributes' = StoredAttributes
      BY <2>1, <2>2, AccountsHoldValues, ValuesMakeInvariant
    <2> QED
      BY <2>1, <2>3 DEF Values!vars
  <1> QED
    BY <1>1, <1>2, <1>3 DEF CodecNext

\* What is on the wire is what a client of either SDK asked for, and every account
\* that exists holds a value that can be read back and written again.
THEOREM CodecInvariant == CodecSpec => []CodecIInv
  BY InitCodecIInv, CodecStep, PTL DEF CodecSpec

\* The bytes of an account are a function of its value: pack_into_slice leaves nothing
\* of a longer value behind a shorter one, and what it wrote is what the fixture
\* generator writes for the value.
THEOREM BytesFollowTheValue == CodecSpec => []BytesOfTheValue
  <1>1. CodecIInv => BytesOfTheValue
    BY DEF CodecIInv
  <1> QED
    BY <1>1, CodecInvariant, PTL

\* The two readers find the same value at the same place in every account the program
\* writes, although the TypeScript one checks neither bounds nor tags nor characters:
\* only the byte-order marks that strings begin with are lost on it.
THEOREM ReadersFindTheSame == CodecSpec => []ReadersAgree
  <1>1. CodecIInv => ReadersAgree
    <2> SUFFICES ASSUME CodecIInv PROVE ReadersAgree
      OBVIOUS
    <2>1. ASSUME metadata_data # <<>>
          PROVE  ts_metadata(metadata_data) =
                    {Got(WithoutMarks(r.value), r.next) : r \in unpack_metadata(metadata_data)}
      BY <2>1, MetadataSample DEF CodecIInv, BytesOfTheValue
    <2>2. ASSUME attributes_data # <<>>
          PROVE  ts_attributes(attributes_data) =
                    {Got(EntriesWithoutMarks(r.value), r.next) :
                        r \in unpack_attributes(attributes_data)}
      BY <2>2, AttributesSample DEF CodecIInv, BytesOfTheValue
    <2> QED
      BY <2>1, <2>2 DEF ReadersAgree
  <1> QED
    BY <1>1, CodecInvariant, PTL

\* Programs that exchange bytes do what programs that exchange values do: what either
\* SDK asks for is what the handlers execute, their checks on bytes are the checks on
\* values, and no value they accept is too long for its account.
THEOREM CodecImplementsValues == CodecSpec => ImplementsValues
  BY InitCodecIInv, CodecStep, CodecInvariant, PTL DEF CodecSpec, ImplementsValues, Values!Spec
=============================================================================
