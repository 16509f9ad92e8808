------------------------- MODULE MetadataReaderProofs -------------------------
(***************************************************************************)
(* Proofs about MetadataReader: what its answers are worth, for every set  *)
(* of calls and any commits between the reads of a call.                   *)
(*                                                                         *)
(* The ledger's theorems do most of the work.  What a read finds is a      *)
(* token's value because accounts are complete; what is immutable stays    *)
(* because only an update authority changes a token; what exists stays     *)
(* because nothing is removed.  The rest is about the order of reads.      *)
(***************************************************************************)
EXTENDS MetadataReader, MetadataLedgerProofs, SequenceTheorems

-----------------------------------------------------------------------------
(* Calls *)

LEMMA Wants ==
    /\ \A w \in Want : \E m \in Mints : w = Metadata(m) \/ w = Attributes(m)
    /\ \A m \in Mints : Metadata(m) \in Want /\ Attributes(m) \in Want
    /\ \A m, n : Metadata(m) # Attributes(n)
    /\ \A m, n : Metadata(m) = Metadata(n) => m = n
    /\ \A m, n : Attributes(m) = Attributes(n) => m = n
    /\ \A m : /\ AddressOf(Metadata(m)) = MetadataPda(m)
              /\ AddressOf(Attributes(m)) = AttributesPda(m)
  BY DEF Want, Metadata, Attributes, AddressOf

\* Two wants one after the other.
LEMMA PairOfWants ==
    ASSUME NEW x \in Want, NEW y \in Want
    PROVE  /\ <<x>> \o <<y>> \in Seq(Want)
           /\ Len(<<x>> \o <<y>>) = 2
           /\ (<<x>> \o <<y>>)[1] = x
           /\ (<<x>> \o <<y>>)[2] = y
  <1> DEFINE s == <<x>>
             t == <<y>>
  <1>1. /\ s \in Seq(Want) /\ Len(s) = 1 /\ s[1] = x
        /\ t \in Seq(Want) /\ Len(t) = 1 /\ t[1] = y
    OBVIOUS
  <1> HIDE DEF s, t
  <1>2. /\ s \o t \in Seq(Want)
        /\ Len(s \o t) = Len(s) + Len(t)
        /\ \A i \in 1..(Len(s) + Len(t)) :
              (s \o t)[i] = IF i <= Len(s) THEN s[i] ELSE t[i - Len(s)]
    BY <1>1, ConcatProperties
  <1>3. /\ s \o t \in Seq(Want) /\ Len(s \o t) = 2
        /\ (s \o t)[1] = x /\ (s \o t)[2] = y
    BY <1>1, <1>2
  <1> QED
    BY <1>3 DEF s, t

\* A call wants accounts of mints, and metadata before attributes of the same mint.
LEMMA WantedInOrder ==
    ASSUME NEW c \in Call
    PROVE  /\ Wanted(c) \in Seq(Want)
           /\ \A i, j \in DOMAIN Wanted(c) : \A m, n :
                 Wanted(c)[i] = Metadata(m) /\ Wanted(c)[j] = Attributes(n) => i < j
  <1>1. c.mints \in Seq(Mints)
    <2>1. CASE c.mints \in {<<m>> : m \in Mints}
      <3>1. PICK m \in Mints : c.mints = <<m>>
        BY <2>1
      <3> QED
        BY <3>1
    <2>2. CASE c.mints \in Seq(Mints)
      BY <2>2
    <2> QED
      BY <2>1, <2>2 DEF Call
  <1>2. EachOf("metadata", c.mints) \in Seq(Want)
    BY <1>1 DEF EachOf, Want
  <1>3. EachOf("attributes", c.mints) \in Seq(Want)
    BY <1>1 DEF EachOf, Want
  <1>4. CASE c.op = "get_token_details"
    <2>1. PICK m \in Mints : c.mints = <<m>>
      BY <1>4 DEF Call
    <2>2. EachOf("metadata", c.mints) = <<Metadata(m)>>
      BY <2>1 DEF EachOf, Metadata
    <2>3. EachOf("attributes", c.mints) = <<Attributes(m)>>
      BY <2>1 DEF EachOf, Attributes
    <2>4. Wanted(c) = EachOf("metadata", c.mints) \o EachOf("attributes", c.mints)
      BY <1>4 DEF Wanted
    <2>5. /\ Wanted(c) \in Seq(Want) /\ Len(Wanted(c)) = 2
          /\ Wanted(c)[1] = Metadata(m) /\ Wanted(c)[2] = Attributes(m)
      <3>1. Metadata(m) \in Want /\ Attributes(m) \in Want
        BY Wants
      <3>2. Wanted(c) = <<Metadata(m)>> \o <<Attributes(m)>>
        BY <2>2, <2>3, <2>4
      <3> QED
        BY <3>1, <3>2, PairOfWants
    <2> QED
      BY <2>5, Wants
  <1>5. CASE c.op \in {"get_token_metadata", "get_token_metadata_batch"}
    <2>1. Wanted(c) = EachOf("metadata", c.mints)
      BY <1>5 DEF Wanted
    <2>2. \A j \in DOMAIN Wanted(c) : Wanted(c)[j] = Metadata(c.mints[j])
      BY <1>1, <2>1 DEF EachOf, Metadata, Attributes
    <2> QED
      BY <1>2, <2>1, <2>2, Wants
  <1>6. CASE c.op \in {"get_token_metadata_attributes", "get_token_metadata_attributes_batch"}
    <2>1. Wanted(c) = EachOf("attributes", c.mints)
      BY <1>6 DEF Wanted
    <2>2. \A i \in DOMAIN Wanted(c) : Wanted(c)[i] = Attributes(c.mints[i])
      BY <1>1, <2>1 DEF EachOf, Metadata, Attributes
    <2> QED
      BY <1>3, <2>1, <2>2, Wants
  <1> QED
    BY <1>4, <1>5, <1>6 DEF Call

\* What an answer said is one of its values, from a read that was not lost.
LEMMA SaidBy ==
    ASSUME NEW a, NEW w, NEW v
    PROVE  v \in Said(a, w) <=>
             \E i \in DOMAIN a.wants : i \notin a.lost /\ a.wants[i] = w /\ v = a.values[i]
  BY DEF Said

-----------------------------------------------------------------------------
(* One read *)

\* What a read of a derived address decodes to: the value stored there, or None when
\* there is none.
LEMMA ReadsWhatIsStored ==
    ASSUME NEW A, Legal(A), NEW w \in Want,
           NEW response,
           response = IF A[AddressOf(w)] = Vacant THEN None
                      ELSE [owner |-> A[AddressOf(w)].owner, data |-> A[AddressOf(w)].data]
    PROVE  /\ response \in Response \cup {None}
           /\ Decoded(response, w[1]) = None <=> ~Stored(A, w)
           /\ Stored(A, w) => Decoded(response, w[1]) = A[AddressOf(w)].data
  <1> DEFINE a == AddressOf(w)
  <1>1. a \in Address /\ A[a] \in Account
    BY Wants, DerivedAddresses DEF Legal
  <1>2. /\ A[a].owner \in Programs /\ A[a].data \in AccountData
    BY <1>1 DEF Account
  <1>3. response \in Response \cup {None}
    BY <1>2 DEF Response
  <1>4. /\ Stored(A, w) => A[a].owner = MetadataProgram
        /\ A[a].owner = MetadataProgram => Stored(A, w)
    <2>1. PICK m \in Mints : w = Metadata(m) \/ w = Attributes(m)
      BY Wants
    <2>2. CASE w = Metadata(m)
      <3>1. a = MetadataPda(m) /\ w[1] = "metadata"
        BY <2>2, Wants DEF Metadata
      <3> QED
        BY <1>1, <3>1, DerivedAddresses
        DEF Stored, Legal, Complete, HoldsMetadata, HoldsAttributes
    <2>3. CASE w = Attributes(m)
      <3>1. a = AttributesPda(m) /\ w[1] = "attributes"
        BY <2>3, Wants DEF Attributes
      <3> QED
        BY <1>1, <3>1, DerivedAddresses
        DEF Stored, Legal, Complete, HoldsMetadata, HoldsAttributes
    <2> QED
      BY <2>1, <2>2, <2>3
  <1>5. CASE Stored(A, w)
    <2>1. A[a].owner = MetadataProgram
      BY <1>4, <1>5
    <2>2. A[a] # Vacant
      BY <2>1, KeyAssumption DEF Vacant
    <2>3. response = [owner |-> A[a].owner, data |-> A[a].data] /\ response # None
      BY <1>2, <2>2, AnswersAssumption DEF Response
    <2>4. Decoded(response, w[1]) = A[a].data
      BY <1>5, <2>1, <2>3 DEF Decoded, Unpacked, Stored
    <2> QED
      BY <1>2, <1>3, <1>5, <2>4, AnswersAssumption
  <1>6. CASE ~Stored(A, w)
    <2>1. A[a].owner # MetadataProgram
      BY <1>4, <1>6
    <2>2. Decoded(response, w[1]) = None
      BY <2>1 DEF Decoded
    <2> QED
      BY <1>3, <1>6, <2>2
  <1> QED
    BY <1>5, <1>6

-----------------------------------------------------------------------------
(* Steps of the ledger *)

\* Whatever the signers of a transaction do with what they control, faithful values
\* stay faithful: nothing is removed, and no key controls immutable metadata.
LEMMA FaithfulKept ==
    ASSUME NEW A, NEW B, NEW S, Controlled(A, S, B), NoKey \notin S,
           NEW wants, NEW values, NEW missed, Faithful(A, wants, values, missed)
    PROVE  Faithful(B, wants, values, missed)
  <1>1. \A w \in Want : Stored(A, w) => Stored(B, w)
    <2> SUFFICES ASSUME NEW w \in Want, Stored(A, w) PROVE Stored(B, w)
      OBVIOUS
    <2>1. PICK m \in Mints : w = Metadata(m) \/ w = Attributes(m)
      BY Wants
    <2>2. CASE w = Metadata(m)
      BY <2>2, Wants DEF Controlled, Kept, Stored, MetadataExists, HoldsMetadata, Metadata
    <2>3. CASE w = Attributes(m)
      BY <2>3, Wants DEF Controlled, Kept, Stored, AttributesExist, HoldsAttributes, Attributes
    <2> QED
      BY <2>1, <2>2, <2>3
  <1>2. ASSUME NEW i \in DOMAIN values, values[i] # None
        PROVE  /\ values[i] \in AccountData
               /\ <<values[i].kind, values[i].mint>> = wants[i]
               /\ wants[i] \in Want
               /\ Stored(B, wants[i])
    BY <1>1, <1>2 DEF Faithful
  <1>3. ASSUME NEW m \in Mints, NEW i \in DOMAIN values \ missed,
               wants[i] = Metadata(m), values[i] # None, values[i].update_authority = NoKey
        PROVE  /\ B[MetadataPda(m)].data = values[i]
               /\ \A j \in DOMAIN values \ missed :
                     wants[j] = Attributes(m) =>
                        IF values[j] = None THEN ~AttributesExist(B, m)
                        ELSE B[AttributesPda(m)].data = values[j]
    <2>1. /\ A[MetadataPda(m)].data = values[i]
          /\ \A j \in DOMAIN values \ missed :
                wants[j] = Attributes(m) =>
                   IF values[j] = None THEN ~AttributesExist(A, m)
                   ELSE A[AttributesPda(m)].data = values[j]
      BY <1>3 DEF Faithful
    <2>2. values[i].kind = "metadata"
      <3>1. <<values[i].kind, values[i].mint>> = wants[i]
        BY <1>3 DEF Faithful
      <3> QED
        BY <1>3, <3>1 DEF Metadata
    <2>3. MetadataExists(A, m) /\ Authority(A, m) = NoKey
      BY <1>3, <2>1, <2>2 DEF MetadataExists, Authority, UpdateAuthority, HoldsMetadata
    <2>4. /\ B[MetadataPda(m)] = A[MetadataPda(m)]
          /\ B[AttributesPda(m)] = A[AttributesPda(m)]
      BY <2>3 DEF Controlled
    <2> QED
      BY <2>1, <2>4 DEF AttributesExist, HoldsAttributes
  <1> QED
    BY <1>2, <1>3 DEF Faithful

-----------------------------------------------------------------------------
(* Steps of the reader *)

\* One more response adds one more value and leaves the others.
LEMMA OneMoreValue ==
    ASSUME NEW wants \in Seq(Want), NEW read \in Seq(Response \cup {None}),
           NEW response \in Response \cup {None}
    PROVE  /\ Append(read, response) \in Seq(Response \cup {None})
           /\ Len(Append(read, response)) = Len(read) + 1
           /\ DOMAIN Values(wants, read) = 1..Len(read)
           /\ DOMAIN Values(wants, Append(read, response)) = 1..(Len(read) + 1)
           /\ \A i \in 1..Len(read) :
                 Values(wants, Append(read, response))[i] = Values(wants, read)[i]
           /\ Values(wants, Append(read, response))[Len(read) + 1] =
                 Decoded(response, wants[Len(read) + 1][1])
  BY DEF Values

\* A read that succeeds keeps the values of a call faithful: what it finds is stored,
\* and if the metadata read before it is immutable, it is there to stay.
LEMMA FaithfulRead ==
    ASSUME NEW A, Legal(A), NEW c \in Call, NEW read \in Seq(Response \cup {None}),
           NEW missed, Len(read) < Len(Wanted(c)),
           Faithful(A, Wanted(c), Values(Wanted(c), read), missed),
           NEW response,
           response = IF A[AddressOf(Wanted(c)[Len(read) + 1])] = Vacant THEN None
                      ELSE [owner |-> A[AddressOf(Wanted(c)[Len(read) + 1])].owner,
                            data |-> A[AddressOf(Wanted(c)[Len(read) + 1])].data]
    PROVE  Faithful(A, Wanted(c), Values(Wanted(c), Append(read, response)), missed)
  <1> DEFINE wants == Wanted(c)
             turn == Len(read) + 1
             old == Values(wants, read)
             new == Values(wants, Append(read, response))
  <1>1. wants \in Seq(Want) /\ turn \in DOMAIN wants /\ wants[turn] \in Want
    BY WantedInOrder
  <1>2. /\ response \in Response \cup {None}
        /\ Decoded(response, wants[turn][1]) = None <=> ~Stored(A, wants[turn])
        /\ Stored(A, wants[turn]) =>
             Decoded(response, wants[turn][1]) = A[AddressOf(wants[turn])].data
    BY <1>1, ReadsWhatIsStored
  <1>3. /\ DOMAIN old = 1..Len(read)
        /\ DOMAIN new = 1..turn
        /\ \A i \in 1..Len(read) : new[i] = old[i]
        /\ new[turn] = None <=> ~Stored(A, wants[turn])
        /\ Stored(A, wants[turn]) => new[turn] = A[AddressOf(wants[turn])].data
    BY <1>1, <1>2, OneMoreValue
  <1>4. PICK n \in Mints : wants[turn] = Metadata(n) \/ wants[turn] = Attributes(n)
    BY <1>1, Wants
  <1>5. new[turn] # None =>
          /\ new[turn] \in AccountData
          /\ <<new[turn].kind, new[turn].mint>> = wants[turn]
    <2> SUFFICES ASSUME new[turn] # None
                 PROVE  /\ new[turn] \in AccountData
                        /\ <<new[turn].kind, new[turn].mint>> = wants[turn]
      OBVIOUS
    <2> DEFINE a == AddressOf(wants[turn])
    <2>1. Stored(A, wants[turn]) /\ new[turn] = A[a].data
      BY <1>3
    <2>2. a \in Address
      BY <1>4, Wants, DerivedAddresses
    <2>3. A[a].data \in AccountData
      BY <2>2 DEF Legal, Account
    <2>4. CASE wants[turn] = Metadata(n)
      <3>1. a = MetadataPda(n) /\ HoldsMetadata(A, a)
        BY <2>1, <2>4, Wants DEF Stored, HoldsMetadata, Metadata
      <3>2. a = MetadataPda(A[a].data.mint)
        BY <2>2, <3>1 DEF Legal, Complete
      <3>3. A[a].data.mint = n
        BY <3>1, <3>2, DerivedAddresses
      <3> QED
        BY <2>1, <2>3, <2>4, <3>1, <3>3 DEF HoldsMetadata, Metadata
    <2>5. CASE wants[turn] = Attributes(n)
      <3>1. a = AttributesPda(n) /\ HoldsAttributes(A, a)
        BY <2>1, <2>5, Wants DEF Stored, HoldsAttributes, Attributes
      <3>2. a = AttributesPda(A[a].data.mint)
        BY <2>2, <3>1 DEF Legal, Complete
      <3>3. A[a].data.mint = n
        BY <3>1, <3>2, DerivedAddresses
      <3> QED
        BY <2>1, <2>3, <2>5, <3>1, <3>3 DEF HoldsAttributes, Attributes
    <2> QED
      BY <1>4, <2>4, <2>5
  <1>6. ASSUME NEW i \in DOMAIN new, new[i] # None
        PROVE  /\ new[i] \in AccountData
               /\ <<new[i].kind, new[i].mint>> = wants[i]
               /\ wants[i] \in Want
               /\ Stored(A, wants[i])
    <2>1. CASE i = turn
      BY <1>1, <1>3, <1>5, <1>6, <2>1
    <2>2. CASE i # turn
      <3>1. i \in DOMAIN old /\ new[i] = old[i]
        BY <1>3, <2>2
      <3> QED
        BY <1>6, <3>1 DEF Faithful
    <2> QED
      BY <2>1, <2>2
  <1>7. ASSUME NEW m \in Mints, NEW i \in DOMAIN new \ missed,
               wants[i] = Metadata(m), new[i] # None, new[i].update_authority = NoKey
        PROVE  /\ A[MetadataPda(m)].data = new[i]
               /\ \A j \in DOMAIN new \ missed :
                     wants[j] = Attributes(m) =>
                        IF new[j] = None THEN ~AttributesExist(A, m)
                        ELSE A[AttributesPda(m)].data = new[j]
    <2>1. CASE i = turn
      <3>1. A[MetadataPda(m)].data = new[i]
        BY <1>3, <1>7, <2>1, Wants
      <3>2. \A j \in DOMAIN new : wants[j] # Attributes(m)
        BY <1>1, <1>3, <1>7, <2>1, WantedInOrder
      <3> QED
        BY <3>1, <3>2
    <2>2. CASE i # turn
      <3>1. i \in DOMAIN old \ missed /\ new[i] = old[i]
        BY <1>3, <2>2
      <3>2. /\ A[MetadataPda(m)].data = new[i]
            /\ \A j \in DOMAIN old \ missed :
                  wants[j] = Attributes(m) =>
                     IF old[j] = None THEN ~AttributesExist(A, m)
                     ELSE A[AttributesPda(m)].data = old[j]
        BY <1>7, <3>1 DEF Faithful
      <3>3. ASSUME NEW j \in DOMAIN new \ missed, wants[j] = Attributes(m)
            PROVE  IF new[j] = None THEN ~AttributesExist(A, m)
                   ELSE A[AttributesPda(m)].data = new[j]
        <4>1. CASE j = turn
          <5>1. AddressOf(wants[turn]) = AttributesPda(m) /\ wants[turn][1] = "attributes"
            <6>1. wants[turn] = Attributes(m)
              BY <3>3, <4>1
            <6>2. Attributes(m)[1] = "attributes"
              BY DEF Attributes
            <6> QED
              BY <6>1, <6>2, Wants
          <5>2. Stored(A, wants[turn]) <=> AttributesExist(A, m)
            BY <5>1 DEF Stored, AttributesExist, HoldsAttributes
          <5> QED
            BY <1>3, <4>1, <5>1, <5>2
        <4>2. CASE j # turn
          BY <1>3, <3>2, <3>3, <4>2
        <4> QED
          BY <4>1, <4>2
      <3> QED
        BY <3>2, <3>3
    <2> QED
      BY <2>1, <2>2
  <1> QED
    BY <1>6, <1>7 DEF Faithful

\* A read that is lost says nothing.
LEMMA FaithfulLoss ==
    ASSUME NEW A, NEW c \in Call, NEW read \in Seq(Response \cup {None}), NEW missed,
           Faithful(A, Wanted(c), Values(Wanted(c), read), missed)
    PROVE  Faithful(A, Wanted(c), Values(Wanted(c), Append(read, None)),
                    missed \cup {Len(read) + 1})
  <1> DEFINE wants == Wanted(c)
             old == Values(wants, read)
             new == Values(wants, Append(read, None))
  <1>1. wants \in Seq(Want)
    BY WantedInOrder
  <1>2. /\ DOMAIN old = 1..Len(read)
        /\ DOMAIN new = 1..(Len(read) + 1)
        /\ \A i \in 1..Len(read) : new[i] = old[i]
        /\ new[Len(read) + 1] = Decoded(None, wants[Len(read) + 1][1])
    BY <1>1, OneMoreValue
  <1>3. new[Len(read) + 1] = None
    BY <1>2 DEF Decoded
  <1>4. \A i \in DOMAIN new : i \in DOMAIN old \/ i = Len(read) + 1
    BY <1>2
  <1>5. DOMAIN new \ (missed \cup {Len(read) + 1}) = DOMAIN old \ missed
    <2>1. Len(read) \in Nat
      OBVIOUS
    <2> QED
      BY <1>2, <2>1
  <1>6. \A i \in DOMAIN old : new[i] = old[i]
    BY <1>2
  <1> QED
    BY <1>3, <1>4, <1>5, <1>6 DEF Faithful

\* What an answer showed is stored, and metadata of the same mint with it.
LEMMA ShownIsStored ==
    ASSUME NEW A, Legal(A), NEW shown, DOMAIN shown.values = DOMAIN shown.wants,
           Faithful(A, shown.wants, shown.values, shown.lost),
           NEW w \in Want, Said(shown, w) \ {None} # {}
    PROVE  Stored(A, w) /\ Stored(A, Metadata(w[2]))
  <1>1. PICK i \in DOMAIN shown.wants : shown.wants[i] = w /\ shown.values[i] # None
    BY SaidBy
  <1>2. Stored(A, w)
    BY <1>1 DEF Faithful
  <1>3. PICK m \in Mints : w = Metadata(m) \/ w = Attributes(m)
    BY Wants
  <1>4. w[2] = m
    BY <1>3 DEF Metadata, Attributes
  <1>5. CASE w = Metadata(m)
    BY <1>2, <1>4, <1>5
  <1>6. CASE w = Attributes(m)
    <2>1. AttributesExist(A, m)
      BY <1>2, <1>6, Wants DEF Stored, AttributesExist, HoldsAttributes, Attributes
    <2>2. MetadataExists(A, m)
      BY <2>1 DEF Legal, Backed
    <2>3. Stored(A, Metadata(m))
      BY <2>2, Wants DEF Stored, MetadataExists, HoldsMetadata, Metadata
    <2> QED
      BY <1>2, <1>4, <2>3
  <1> QED
    BY <1>3, <1>5, <1>6

\* A read that succeeds finds what an earlier answer showed.
LEMMA NotBehindRead ==
    ASSUME NEW A, Legal(A), NEW c \in Call, NEW read \in Seq(Response \cup {None}),
           NEW missed, Len(read) < Len(Wanted(c)),
           NEW shown, DOMAIN shown.values = DOMAIN shown.wants,
           Faithful(A, shown.wants, shown.values, shown.lost),
           NotBehind(shown, Wanted(c), Values(Wanted(c), read), missed),
           NEW response,
           response = IF A[AddressOf(Wanted(c)[Len(read) + 1])] = Vacant THEN None
                      ELSE [owner |-> A[AddressOf(Wanted(c)[Len(read) + 1])].owner,
                            data |-> A[AddressOf(Wanted(c)[Len(read) + 1])].data]
    PROVE  NotBehind(shown, Wanted(c), Values(Wanted(c), Append(read, response)), missed)
  <1> DEFINE wants == Wanted(c)
             turn == Len(read) + 1
             old == Values(wants, read)
             new == Values(wants, Append(read, response))
  <1>1. wants \in Seq(Want) /\ turn \in DOMAIN wants /\ wants[turn] \in Want
    BY WantedInOrder
  <1>2. /\ response \in Response \cup {None}
        /\ Decoded(response, wants[turn][1]) = None <=> ~Stored(A, wants[turn])
    BY <1>1, ReadsWhatIsStored
  <1>3. /\ DOMAIN old = 1..Len(read)
        /\ DOMAIN new = 1..turn
        /\ \A i \in 1..Len(read) : new[i] = old[i]
        /\ new[turn] = None <=> ~Stored(A, wants[turn])
    <2>1. /\ DOMAIN old = 1..Len(read)
          /\ DOMAIN new = 1..turn
          /\ \A i \in 1..Len(read) : new[i] = old[i]
          /\ new[turn] = Decoded(response, wants[turn][1])
      BY <1>1, <1>2, OneMoreValue
    <2> QED
      BY <1>2, <2>1
  <1> SUFFICES ASSUME NEW w \in Want, Said(shown, w) \ {None} # {},
                      NEW i \in DOMAIN new \ missed,
                      wants[i] = w \/ wants[i] = Metadata(w[2])
               PROVE  new[i] # None
    BY DEF NotBehind
  <1>4. CASE i = turn
    BY <1>3, <1>4, ShownIsStored
  <1>5. CASE i # turn
    <2>1. i \in DOMAIN old \ missed /\ new[i] = old[i]
      BY <1>3, <1>5
    <2> QED
      BY <2>1 DEF NotBehind
  <1> QED
    BY <1>4, <1>5

LEMMA NotBehindLoss ==
    ASSUME NEW c \in Call, NEW read \in Seq(Response \cup {None}), NEW missed, NEW shown,
           NotBehind(shown, Wanted(c), Values(Wanted(c), read), missed)
    PROVE  NotBehind(shown, Wanted(c), Values(Wanted(c), Append(read, None)),
                     missed \cup {Len(read) + 1})
  <1> DEFINE old == Values(Wanted(c), read)
             new == Values(Wanted(c), Append(read, None))
  <1>1. /\ DOMAIN old = 1..Len(read)
        /\ DOMAIN new = 1..(Len(read) + 1)
        /\ \A i \in 1..Len(read) : new[i] = old[i]
    BY WantedInOrder, OneMoreValue
  <1>2. DOMAIN new \ (missed \cup {Len(read) + 1}) = DOMAIN old \ missed
    BY <1>1
  <1>3. \A i \in DOMAIN old : new[i] = old[i]
    BY <1>1
  <1> QED
    BY <1>2, <1>3 DEF NotBehind

-----------------------------------------------------------------------------
(* The inductive invariant *)

LEMMA ReaderInitIInv == ReaderInit => ReaderIInv
  <1> SUFFICES ASSUME ReaderInit PROVE ReaderIInv
    OBVIOUS
  <1>1. IInv
    BY InitIInv DEF ReaderInit
  <1>2. /\ answer.wants = <<>> /\ answer.values = <<>> /\ answer.lost = {} /\ ~answer.failed
    BY DEF ReaderInit, Answer
  <1>3. Faithful(ledger, answer.wants, answer.values, answer.lost)
    BY <1>2 DEF Faithful
  <1> QED
    BY <1>1, <1>2, <1>3 DEF ReaderInit, ReaderIInv

\* The ledger's steps are those of MetadataLedger.
LEMMA ReaderStepIsLedgerStep == [ReaderNext]_readerVars => [Next]_vars
  BY DEF ReaderNext, readerVars

\* A step of the ledger leaves the reader's values faithful.
LEMMA LedgerStepKeepsFaith ==
    ASSUME IInv, [Next]_vars, NEW wants, NEW values, NEW missed,
           Faithful(ledger, wants, values, missed)
    PROVE  Faithful(ledger', wants, values, missed)
  <1>1. Controlled(ledger, signers, ledger') /\ NoKey \notin signers
    BY StepControlled, DerivedAddresses DEF IInv, TypeOK
  <1> QED
    BY <1>1, FaithfulKept

LEMMA ReaderNextPreservesIInv == ReaderIInv /\ [ReaderNext]_readerVars => ReaderIInv'
  <1> SUFFICES ASSUME ReaderIInv, [ReaderNext]_readerVars PROVE ReaderIInv'
    OBVIOUS
  <1>a. IInv'
    BY ReaderStepIsLedgerStep, NextPreservesIInv DEF ReaderIInv
  <1>b. Legal(ledger)
    BY DEF ReaderIInv, IInv
  <1>1. ASSUME [Next]_vars, UNCHANGED reader PROVE ReaderIInv'
    <2>1. /\ call' = call /\ responses' = responses /\ lost' = lost /\ answer' = answer
      BY <1>1 DEF reader
    <2>2. Faithful(ledger', answer.wants, answer.values, answer.lost)
      BY <1>1, LedgerStepKeepsFaith DEF ReaderIInv
    <2>3. call # NoCall =>
            Faithful(ledger', Wanted(call), Values(Wanted(call), responses), lost)
      BY <1>1, LedgerStepKeepsFaith DEF ReaderIInv
    <2> QED
      BY <1>a, <2>1, <2>2, <2>3 DEF ReaderIInv
  <1>2. ASSUME NEW c \in Calls, Ask(c), UNCHANGED vars PROVE ReaderIInv'
    <2>1. /\ call' = c /\ responses' = responses /\ lost' = lost /\ answer' = answer
          /\ responses = <<>> /\ ledger' = ledger
      BY <1>2 DEF Ask, ReaderIInv, vars
    <2>2. c \in Call /\ Wanted(c) \in Seq(Want)
      BY CallsAssumption, WantedInOrder
    <2>3. Values(Wanted(c), <<>>) = <<>>
      BY DEF Values
    <2>4. /\ Faithful(ledger, Wanted(c), <<>>, lost)
          /\ NotBehind(answer, Wanted(c), <<>>, lost)
      BY DEF Faithful, NotBehind
    <2>5. Len(<<>>) <= Len(Wanted(c))
      BY <2>2
    <2> QED
      BY <1>a, <2>1, <2>2, <2>3, <2>4, <2>5, CallsAssumption DEF ReaderIInv
  <1>3. ASSUME ReadAccount, UNCHANGED vars PROVE ReaderIInv'
    <2> DEFINE a == AddressOf(Wanted(call)[Len(responses) + 1])
               response == IF ledger[a] = Vacant THEN None
                           ELSE [owner |-> ledger[a].owner, data |-> ledger[a].data]
    <2>1. /\ call' = call /\ responses' = Append(responses, response)
          /\ lost' = lost /\ answer' = answer /\ ledger' = ledger
          /\ call # NoCall /\ Len(responses) + 1 <= Len(Wanted(call))
      BY <1>3 DEF ReadAccount, Reading, Turn, vars
    <2>2. /\ call \in Call /\ responses \in Seq(Response \cup {None})
          /\ Wanted(call) \in Seq(Want)
      BY <2>1, WantedInOrder DEF ReaderIInv
    <2>3. Len(responses) < Len(Wanted(call)) /\ Wanted(call)[Len(responses) + 1] \in Want
      BY <2>1, <2>2
    <2>4. response \in Response \cup {None}
      BY <1>b, <2>3, ReadsWhatIsStored
    <2>5. /\ Append(responses, response) \in Seq(Response \cup {None})
          /\ Len(Append(responses, response)) <= Len(Wanted(call))
      BY <2>1, <2>2, <2>4, OneMoreValue
    <2>6. Faithful(ledger, Wanted(call), Values(Wanted(call), Append(responses, response)), lost)
      BY <1>b, <2>1, <2>2, <2>3, FaithfulRead DEF ReaderIInv
    <2>7. NotBehind(answer, Wanted(call), Values(Wanted(call), Append(responses, response)), lost)
      BY <1>b, <2>1, <2>2, <2>3, NotBehindRead DEF ReaderIInv
    <2> HIDE DEF response
    <2> QED
      BY <1>a, <2>1, <2>2, <2>5, <2>6, <2>7 DEF ReaderIInv
  <1>4. ASSUME LoseAccount, UNCHANGED vars PROVE ReaderIInv'
    <2>1. /\ call' = call /\ responses' = Append(responses, None)
          /\ lost' = lost \cup {Len(responses) + 1} /\ answer' = answer /\ ledger' = ledger
          /\ call # NoCall /\ Len(responses) + 1 <= Len(Wanted(call))
      BY <1>4 DEF LoseAccount, Reading, Turn, vars
    <2>2. /\ call \in Call /\ responses \in Seq(Response \cup {None})
          /\ Wanted(call) \in Seq(Want)
      BY <2>1, WantedInOrder DEF ReaderIInv
    <2>3. /\ Append(responses, None) \in Seq(Response \cup {None})
          /\ Len(Append(responses, None)) <= Len(Wanted(call))
      BY <2>1, <2>2, OneMoreValue
    <2>4. /\ Faithful(ledger, Wanted(call), Values(Wanted(call), Append(responses, None)),
                      lost \cup {Len(responses) + 1})
          /\ NotBehind(answer, Wanted(call), Values(Wanted(call), Append(responses, None)),
                       lost \cup {Len(responses) + 1})
      BY <2>1, <2>2, FaithfulLoss, NotBehindLoss DEF ReaderIInv
    <2> QED
      BY <1>a, <2>1, <2>2, <2>3, <2>4 DEF ReaderIInv
  <1>5. ASSUME Return, UNCHANGED vars PROVE ReaderIInv'
    <2> DEFINE values == Values(Wanted(call), responses)
    <2>1. /\ call # NoCall /\ call' = NoCall /\ responses' = <<>> /\ ledger' = ledger
          /\ answer' = Answer(Wanted(call), values, lost)
          /\ Len(responses) + 1 > Len(Wanted(call))
      BY <1>5 DEF Return, Turn, vars
    <2>2. /\ call \in Call /\ responses \in Seq(Response \cup {None})
          /\ Wanted(call) \in Seq(Want) /\ Len(responses) <= Len(Wanted(call))
          /\ Faithful(ledger, Wanted(call), values, lost)
      BY <2>1, WantedInOrder DEF ReaderIInv
    <2>3. DOMAIN values = DOMAIN Wanted(call)
      BY <2>1, <2>2 DEF Values
    <2>4. \A i \in DOMAIN values : values[i] # Undecodable
      BY <2>2, AnswersAssumption DEF Faithful
    <2> HIDE DEF values
    <2>5. /\ answer'.wants = Wanted(call) /\ answer'.values = values /\ answer'.lost = lost
          /\ ~answer'.failed
      BY <2>1, <2>4 DEF Answer
    <2>6. responses' \in Seq(Response \cup {None})
      BY <2>1
    <2> QED
      BY <1>a, <2>1, <2>2, <2>3, <2>5, <2>6 DEF ReaderIInv
  <1>6. CASE UNCHANGED readerVars
    BY <1>1, <1>6 DEF readerVars
  <1> QED
    BY <1>1, <1>2, <1>3, <1>4, <1>5, <1>6 DEF ReaderNext

\* What has been read and what was answered stays true of the ledger: the inductive
\* invariant of the reader and the transactions that run beside it.
THEOREM ReaderInvariant == ReaderSpec => []ReaderIInv
  BY ReaderInitIInv, ReaderNextPreservesIInv, PTL DEF ReaderSpec

-----------------------------------------------------------------------------
(* Theorems *)

\* A call never fails on an account that does not decode, and never returns an
\* uninitialised value or that of another mint, although the reader checks neither.
THEOREM AnswersTrue == ReaderSpec => []AnswersAreTokens
  <1>1. ReaderIInv => AnswersAreTokens
    BY DEF ReaderIInv, Faithful, AnswersAreTokens
  <1> QED
    BY <1>1, ReaderInvariant, PTL

\* An answer with immutable metadata is the token for good, whatever was committed
\* between its two reads.
THEOREM ImmutableAnswersTrue == ReaderSpec => []ImmutableAnswersFinal
  <1>1. ASSUME ReaderIInv PROVE ImmutableAnswersFinal
    <2> SUFFICES ASSUME NEW m \in Mints,
                        NEW md \in Said(answer, Metadata(m)),
                        NEW at \in Said(answer, Attributes(m)),
                        md # None, md.update_authority = NoKey
                 PROVE  /\ ledger[MetadataPda(m)].data = md
                        /\ IF at = None THEN ~AttributesExist(ledger, m)
                           ELSE ledger[AttributesPda(m)].data = at
      BY DEF ImmutableAnswersFinal
    <2>1. PICK i \in DOMAIN answer.wants :
            i \notin answer.lost /\ answer.wants[i] = Metadata(m) /\ md = answer.values[i]
      BY SaidBy
    <2>2. PICK j \in DOMAIN answer.wants :
            j \notin answer.lost /\ answer.wants[j] = Attributes(m) /\ at = answer.values[j]
      BY SaidBy
    <2>3. DOMAIN answer.values = DOMAIN answer.wants
          /\ Faithful(ledger, answer.wants, answer.values, answer.lost)
      BY <1>1 DEF ReaderIInv
    <2> QED
      BY <2>1, <2>2, <2>3 DEF Faithful
  <1> QED
    BY <1>1, ReaderInvariant, PTL

\* From one answer to the next, nothing that was shown is gone.
THEOREM AnswersMonotone == ReaderSpec => AnswersNeverGoBack
  <1>1. ASSUME ReaderIInv, Return, NEW m \in Mints
        PROVE  /\ (Said(answer, Metadata(m)) \cup Said(answer, Attributes(m))) \ {None} # {}
                    => None \notin Said(answer', Metadata(m))
               /\ Said(answer, Attributes(m)) \ {None} # {}
                    => None \notin Said(answer', Attributes(m))
    <2> DEFINE values == Values(Wanted(call), responses)
    <2>1. /\ call # NoCall
          /\ answer' = Answer(Wanted(call), values, lost)
          /\ Len(responses) + 1 > Len(Wanted(call))
      BY <1>1 DEF Return, Turn
    <2>2. /\ call \in Call /\ responses \in Seq(Response \cup {None})
          /\ Wanted(call) \in Seq(Want) /\ Len(responses) <= Len(Wanted(call))
          /\ NotBehind(answer, Wanted(call), values, lost)
      BY <1>1, <2>1, WantedInOrder DEF ReaderIInv
    <2>3. DOMAIN values = DOMAIN Wanted(call)
      BY <2>1, <2>2 DEF Values
    <2> HIDE DEF values
    <2>4. \A w, v : v \in Said(answer', w) <=>
            \E i \in DOMAIN Wanted(call) : i \notin lost /\ Wanted(call)[i] = w /\ v = values[i]
      <3>1. /\ answer'.wants = Wanted(call) /\ answer'.values = values /\ answer'.lost = lost
        BY <2>1 DEF Answer
      <3> QED
        BY <3>1, SaidBy
    <2>5. /\ Metadata(m) \in Want /\ Attributes(m) \in Want
          /\ Metadata(m)[2] = m /\ Attributes(m)[2] = m
      BY Wants DEF Metadata, Attributes
    <2>6. ASSUME NEW w \in Want, Said(answer, w) \ {None} # {}, NEW v,
                 v \in {w, Metadata(w[2])}
          PROVE  None \notin Said(answer', v)
      <3>1. \A i \in DOMAIN Wanted(call) : i \notin lost /\ Wanted(call)[i] = v
                                             => values[i] # None
        BY <2>2, <2>3, <2>6 DEF NotBehind
      <3> QED
        BY <2>4, <3>1
    <2> QED
      BY <2>5, <2>6
  <1>2. ReaderIInv /\ [ReaderNext]_readerVars =>
          [Return =>
             \A m \in Mints :
                /\ (Said(answer, Metadata(m)) \cup Said(answer, Attributes(m))) \ {None} # {}
                     => None \notin Said(answer', Metadata(m))
                /\ Said(answer, Attributes(m)) \ {None} # {}
                     => None \notin Said(answer', Attributes(m))]_readerVars
    BY <1>1
  <1> QED
    BY <1>2, ReaderInvariant, PTL DEF ReaderSpec, AnswersNeverGoBack
=============================================================================
