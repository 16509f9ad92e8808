---------------------------- MODULE MetadataReader ----------------------------
(***************************************************************************)
(* TokenMetadataReader of the Rust SDK beside the changing ledger.  A call *)
(* names the accounts it wants, the RPC adapter reads them one after the   *)
(* other, and commits may come between two reads.  A read that fails       *)
(* answers None, as does an account that does not exist, and only `lost',  *)
(* which no program sees, remembers the difference.                        *)
(***************************************************************************)
EXTENDS MetadataLedger

CONSTANTS
    Calls,       \* the calls that are made, see Call
    NoCall,      \* no call under way, or none answered yet
    None,        \* Option::None
    Undecodable  \* what the call returns when an account does not decode

Call ==
    [op : {"get_token_metadata", "get_token_metadata_attributes", "get_token_details"},
     mints : {<<m>> : m \in Mints}]
    \cup
    [op : {"get_token_metadata_batch", "get_token_metadata_attributes_batch"},
     mints : Seq(Mints)]

\* What a read returns of an account.
Response == [owner : Programs, data : AccountData]

ASSUME CallsAssumption == Calls \subseteq Call /\ NoCall \notin Call

ASSUME AnswersAssumption ==
    /\ None \notin Response \cup AccountData
    /\ Undecodable \notin AccountData \cup {None}

VARIABLES
    call,        \* the call under way
    responses,   \* what its reads returned so far
    lost,        \* which of them failed
    answer       \* what the last finished call wanted and returned

reader == <<call, responses, lost, answer>>

-----------------------------------------------------------------------------
(* What a call reads, and what it makes of it *)

Want == {"metadata", "attributes"} \X Mints
Metadata(m) == <<"metadata", m>>
Attributes(m) == <<"attributes", m>>

AddressOf(want) ==
    IF want[1] = "metadata" THEN MetadataPda(want[2]) ELSE AttributesPda(want[2])

EachOf(kind, mints) == [i \in DOMAIN mints |-> <<kind, mints[i]>>]

\* Mutant of Wanted: details read the attributes first.
AttributesFirst(c) ==
    CASE c.op = "get_token_details" ->
           EachOf("attributes", c.mints) \o EachOf("metadata", c.mints)
      [] c.op \in {"get_token_metadata", "get_token_metadata_batch"} ->
           EachOf("metadata", c.mints)
      [] OTHER -> EachOf("attributes", c.mints)

\* The accounts of a call, in the order in which they are read.
Wanted(c) ==
    CASE c.op = "get_token_details" ->
           EachOf("metadata", c.mints) \o EachOf("attributes", c.mints)
      [] c.op \in {"get_token_metadata", "get_token_metadata_batch"} ->
           EachOf("metadata", c.mints)
      [] OTHER -> EachOf("attributes", c.mints)

\* unpack_from_slice looks at neither the length nor is_initialized: it takes data of
\* its kind, and zeroes for an uninitialised value.
Unpacked(data, kind) == IF data.kind \in {kind, "zeroed"} THEN data ELSE Undecodable

Decoded(response, kind) ==
    IF response = None THEN None
    ELSE IF response.owner # MetadataProgram THEN None
    ELSE Unpacked(response.data, kind)

Values(wants, read) == [i \in DOMAIN read |-> Decoded(read[i], wants[i][1])]

\* One account that does not decode fails the whole call.
Answer(wants, values, missed) ==
    [wants |-> wants, values |-> values, lost |-> missed,
     failed |-> \E i \in DOMAIN values : values[i] = Undecodable]

-----------------------------------------------------------------------------

ReaderInit ==
    /\ Init
    /\ call = NoCall
    /\ responses = <<>>
    /\ lost = {}
    /\ answer = Answer(<<>>, <<>>, {})

Ask(c) ==
    /\ call = NoCall
    /\ call' = c
    /\ UNCHANGED <<responses, lost, answer>>

Turn == Len(responses) + 1

Reading == call # NoCall /\ Turn <= Len(Wanted(call))

\* read_account_info of the next address; one where nothing was created is an error.
ReadAccount ==
    /\ Reading
    /\ LET account == ledger[AddressOf(Wanted(call)[Turn])]
       IN  responses' = Append(responses,
                               IF account = Vacant THEN None
                               ELSE [owner |-> account.owner, data |-> account.data])
    /\ UNCHANGED <<call, lost, answer>>

\* The read fails for another reason; the adapter answers None all the same.
LoseAccount ==
    /\ Reading
    /\ responses' = Append(responses, None)
    /\ lost' = lost \cup {Turn}
    /\ UNCHANGED <<call, answer>>

Return ==
    /\ call # NoCall
    /\ Turn > Len(Wanted(call))
    /\ answer' = Answer(Wanted(call), Values(Wanted(call), responses), lost)
    /\ call' = NoCall
    /\ responses' = <<>>
    /\ lost' = {}

\* The ledger goes its way while calls are made and answered.
ReaderNext ==
    \/ Next /\ UNCHANGED reader
    \/ (\E c \in Calls : Ask(c)) /\ UNCHANGED vars
    \/ ReadAccount /\ UNCHANGED vars
    \/ LoseAccount /\ UNCHANGED vars
    \/ Return /\ UNCHANGED vars

readerVars == <<vars, reader>>

ReaderSpec == ReaderInit /\ [][ReaderNext]_readerVars

-----------------------------------------------------------------------------
(* Properties *)

\* What an answer says of an account, from reads that did not fail.
Said(a, want) ==
    {a.values[i] : i \in {j \in DOMAIN a.wants \ a.lost : a.wants[j] = want}}

\* Whatever the calls run into, an answer is never an error for an account that does
\* not decode, which would spoil a whole batch, nor an uninitialised value, nor the
\* value of another mint, although the reader checks none of this itself.
AnswersAreTokens ==
    /\ ~answer.failed
    /\ \A i \in DOMAIN answer.wants :
          answer.values[i] # None =>
              <<answer.values[i].kind, answer.values[i].mint>> = answer.wants[i]

\* get_token_details reads two accounts at different times, but an answer whose
\* metadata is immutable is the token for good: both its values, also an absence of
\* attributes, are those of the ledger from the moment it is given.
ImmutableAnswersFinal ==
    \A m \in Mints : \A md \in Said(answer, Metadata(m)), at \in Said(answer, Attributes(m)) :
        md # None /\ md.update_authority = NoKey =>
            /\ ledger[MetadataPda(m)].data = md
            /\ IF at = None THEN ~AttributesExist(ledger, m)
                            ELSE ledger[AttributesPda(m)].data = at

\* Answers never go back: once a call has shown attributes or metadata of a mint, a
\* later call whose read succeeds shows its metadata, and attributes shown are shown
\* again.  In particular a pair of attributes without metadata does not last.
AnswersNeverGoBack ==
    [][Return =>
         \A m \in Mints :
            /\ (Said(answer, Metadata(m)) \cup Said(answer, Attributes(m))) \ {None} # {}
                  => None \notin Said(answer', Metadata(m))
            /\ Said(answer, Attributes(m)) \ {None} # {}
                  => None \notin Said(answer', Attributes(m))]_readerVars

-----------------------------------------------------------------------------
(* The inductive invariant *)

Stored(accounts, want) == accounts[AddressOf(want)].data.kind = want[1]

\* Each value is of the account wanted, which still exists; metadata that is immutable
\* and the attributes beside it are what is stored.
Faithful(accounts, wants, values, missed) ==
    /\ \A i \in DOMAIN values :
          values[i] # None =>
              /\ values[i] \in AccountData
              /\ <<values[i].kind, values[i].mint>> = wants[i]
              /\ wants[i] \in Want
              /\ Stored(accounts, wants[i])
    /\ \A m \in Mints : \A i \in DOMAIN values \ missed :
          /\ wants[i] = Metadata(m)
          /\ values[i] # None
          /\ values[i].update_authority = NoKey
          => /\ accounts[MetadataPda(m)].data = values[i]
             /\ \A j \in DOMAIN values \ missed :
                   wants[j] = Attributes(m) =>
                      IF values[j] = None THEN ~AttributesExist(accounts, m)
                      ELSE accounts[AttributesPda(m)].data = values[j]

\* The reads of a call find what an earlier answer showed, and metadata beside it.
NotBehind(shown, wants, values, missed) ==
    \A w \in Want :
        Said(shown, w) \ {None} # {} =>
            \A i \in DOMAIN values \ missed :
                wants[i] = w \/ wants[i] = Metadata(w[2]) => values[i] # None

ReaderIInv ==
    /\ IInv
    /\ responses \in Seq(Response \cup {None})
    /\ call = NoCall => responses = <<>>
    /\ call # NoCall =>
          /\ call \in Call
          /\ Len(responses) <= Len(Wanted(call))
          /\ Faithful(ledger, Wanted(call), Values(Wanted(call), responses), lost)
          /\ NotBehind(answer, Wanted(call), Values(Wanted(call), responses), lost)
    /\ DOMAIN answer.values = DOMAIN answer.wants /\ ~answer.failed
    /\ Faithful(ledger, answer.wants, answer.values, answer.lost)
=============================================================================
