---------------------------- MODULE TypeScriptClient ----------------------------
(***************************************************************************)
(* Callers of the TypeScript SDK's transaction builders beside the node.   *)
(* Its builders return the instructions of the Rust SDK's, with the        *)
(* mint's own given by the caller; what differs is the validators, which   *)
(* measure a string by `length', its UTF-16 units, where the program       *)
(* counts bytes.                                                           *)
(***************************************************************************)
EXTENDS SdkTransactions

CONSTANT Units       \* Units[t]: String.length of t, in UTF-16 units

\* A unit is at least a byte in UTF-8, and only the empty string has none.
ASSUME UnitsAssumption ==
    /\ Units \in [Text -> Nat]
    /\ \A t \in Text : Units[t] <= ByteLen[t] /\ (Units[t] = 0 <=> ByteLen[t] = 0)

validateMetadataFields(text) == \A f \in Field : Units[text[f]] <= FieldMaxLen[f]

\* Mutant of validateOptionalMetadataFields: it forgets the symbol.
SymbolUnchecked(given) ==
    \A f \in DOMAIN given \ {"symbol"} : Units[given[f]] <= FieldMaxLen[f]

\* `params.name && ...': a field that is not given, or empty, is not measured.
validateOptionalMetadataFields(given) ==
    \A f \in DOMAIN given : Units[given[f]] # 0 => Units[given[f]] <= FieldMaxLen[f]

validateAttributes(entries) ==
    /\ Len(entries) <= MAX_ATTRIBUTES
    /\ \A i \in DOMAIN entries :
          /\ Units[entries[i][1]] # 0 /\ Units[entries[i][2]] # 0
          /\ Units[entries[i][1]] <= MAX_KEY_LENGTH
          /\ Units[entries[i][2]] <= MAX_VALUE_LENGTH

\* The calls whose builder returns instructions and does not throw.
Builds(c) ==
    /\ IF Creates(c) THEN validateMetadataFields(Texts(c))
       ELSE validateOptionalMetadataFields(Texts(c))
    /\ validateAttributes(Entries(c))

ASSUME TypeScriptAssumption == \A t \in Transactions : Builds(t.call)

-----------------------------------------------------------------------------
(* Properties *)

Wide(c) ==
    \/ \E f \in DOMAIN Texts(c) : Units[Texts(c)[f]] < ByteLen[Texts(c)[f]]
    \/ \E i \in DOMAIN Entries(c), j \in {1, 2} :
          Units[Entries(c)[i][j]] < ByteLen[Entries(c)[i][j]]

\* A transaction the TypeScript SDK builds is refused for a size only when one of its
\* strings has more bytes than units: the two sets of caps, and the places where they
\* are checked, agree on everything else, in whatever order the builders' transactions
\* arrive.
OnlyWideTextRefused == [][RefusedForSize => Wide(running.call)]_nodeVars
=============================================================================
