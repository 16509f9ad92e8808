------------------------------ MODULE TokenValues ------------------------------
(***************************************************************************)
(* The two accounts of one token as the values they hold: what the six     *)
(* instructions do to a TokenMetadata and a TokenMetadataAttributes when   *)
(* nobody looks at bytes.  It is the view MetadataState takes of an        *)
(* account, and MetadataCodec is shown to implement it.  Who may send an   *)
(* instruction is left to MetadataProcessor.                               *)
(***************************************************************************)
EXTENDS Sequences

CONSTANTS
    Creator,         \* the key that signs CreateMetadata
    Mint,            \* the token's mint
    Instructions     \* the instructions clients ask for

VARIABLES
    asked,           \* the instruction on its way to the program, or Idle
    metadata,        \* the TokenMetadata, or Absent
    attributes       \* the TokenMetadataAttributes, or Absent

vars == <<asked, metadata, attributes>>

Idle == [op |-> "Idle"]
Absent == <<>>

\* Option<Pubkey>: None is the empty sequence, no key.
NoKey == <<>>

Created(ix) ==
    [is_initialized |-> TRUE, mint |-> Mint, text |-> ix.text,
     update_authority |-> IF ix.immutable THEN NoKey ELSE Creator]

Updated(md, given) ==
    [md EXCEPT !.text = [f \in DOMAIN md.text |->
                           IF f \in DOMAIN given THEN given[f] ELSE md.text[f]]]

WithAuthority(md, key) == [md EXCEPT !.update_authority = key]

AttributesOf(mint, entries) == [is_initialized |-> TRUE, mint |-> mint, data |-> entries]

Mutable(md) == md # Absent /\ md.update_authority # NoKey

\* What the checks of the handlers say about the values.
Accepted(ix, md, at) ==
    CASE ix.op = "CreateMetadata"    -> md = Absent
      [] ix.op = "CreateAttributes"  -> Mutable(md) /\ at = Absent
      [] ix.op = "ReplaceAttributes" -> Mutable(md) /\ at # Absent
      [] OTHER                       -> Mutable(md)

NewMetadata(ix, md) ==
    CASE ix.op = "CreateMetadata"    -> Created(ix)
      [] ix.op = "UpdateMetadata"    -> Updated(md, ix.text)
      [] ix.op = "TransferAuthority" -> WithAuthority(md, ix.new_authority)
      [] ix.op = "MakeImmutable"     -> WithAuthority(md, NoKey)
      [] OTHER                       -> md

NewAttributes(ix, at) ==
    CASE ix.op = "CreateAttributes"  -> AttributesOf(Mint, ix.data)
      [] ix.op = "ReplaceAttributes" -> AttributesOf(at.mint, ix.data)
      [] OTHER                       -> at

Init == asked = Idle /\ metadata = Absent /\ attributes = Absent

Ask(ix) ==
    /\ asked = Idle
    /\ asked' = ix
    /\ UNCHANGED <<metadata, attributes>>

Execute ==
    /\ asked # Idle
    /\ asked' = Idle
    /\ IF Accepted(asked, metadata, attributes)
       THEN /\ metadata' = NewMetadata(asked, metadata)
            /\ attributes' = NewAttributes(asked, attributes)
       ELSE UNCHANGED <<metadata, attributes>>

Next == (\E ix \in Instructions : Ask(ix)) \/ Execute

Spec == Init /\ [][Next]_vars
=============================================================================
