----------------------------- MODULE TokenRegistry -----------------------------
(***************************************************************************)
(* What the token metadata program promises its users, without accounts,   *)
(* addresses, rent or instructions: a registry of mints, of their metadata *)
(* and of their attributes, and for each transaction what its signers may  *)
(* do to it.                                                               *)
(***************************************************************************)
EXTENDS Sequences

CONSTANTS
    Mints,       \* the mints that may come to be
    Keys,        \* the keys that sign
    NoKey,       \* no key
    Contents,    \* what metadata may say
    Lists        \* what attributes may list

\* Three partial functions from Mints, defined where there is a mint, metadata or
\* attributes; and the keys that signed the transaction under way, if there is one.
VARIABLES mints, metadata, attributes, signers

tokens == <<mints, metadata, attributes>>
registry == <<mints, metadata, attributes, signers>>

MintInfo ==
    [mint_authority : Keys \cup {NoKey}, freeze_authority : Keys \cup {NoKey}]

Metadata == [text : Contents, update_authority : Keys \cup {NoKey}]

PartialFunction(f, D, R) == DOMAIN f \subseteq D /\ \A m \in DOMAIN f : f[m] \in R

TypeOK ==
    /\ PartialFunction(mints, Mints, MintInfo)
    /\ PartialFunction(metadata, Mints, Metadata)
    /\ PartialFunction(attributes, Mints, Lists)
    /\ signers \in SUBSET Keys

\* Attributes need metadata, metadata needs a mint.
Backed == DOMAIN attributes \subseteq DOMAIN metadata /\ DOMAIN metadata \subseteq DOMAIN mints

Init ==
    /\ mints = <<>> /\ metadata = <<>> /\ attributes = <<>>
    /\ signers = {}

\* Keys sign a transaction, and only then does it do something: who signed does not
\* change while it is under way.
Sign ==
    /\ signers = {}
    /\ signers' \in SUBSET Keys
    /\ UNCHANGED tokens

NothingRemoved ==
    /\ DOMAIN mints \subseteq DOMAIN mints'
    /\ DOMAIN metadata \subseteq DOMAIN metadata'
    /\ DOMAIN attributes \subseteq DOMAIN attributes'

\* Only its authority changes a mint's authority, nobody a freeze authority.
MintsRespected ==
    \A m \in DOMAIN mints :
        /\ mints'[m].freeze_authority = mints[m].freeze_authority
        /\ mints[m].mint_authority \notin signers => mints'[m] = mints[m]

SameAttributes(m) ==
    /\ m \in DOMAIN attributes' <=> m \in DOMAIN attributes
    /\ m \in DOMAIN attributes => attributes'[m] = attributes[m]

\* Only the update authority changes metadata and attributes, nobody if there is none.
OwnersRespected ==
    \A m \in DOMAIN metadata :
        metadata[m].update_authority \notin signers =>
            metadata'[m] = metadata[m] /\ SameAttributes(m)

\* Metadata is given to a mint by its mint authority or, if it has none, by its
\* freeze authority.
IssuersRespected ==
    \A m \in DOMAIN mints \ DOMAIN metadata :
        m \in DOMAIN metadata' =>
            \/ mints[m].mint_authority \in signers
            \/ mints[m].mint_authority = NoKey /\ mints[m].freeze_authority \in signers

\* The transaction takes effect at once, or is given up and changes nothing.
Transact ==
    /\ TypeOK'
    /\ Backed'
    /\ NothingRemoved
    /\ MintsRespected
    /\ OwnersRespected
    /\ IssuersRespected
    /\ signers' = {}

GiveUp == signers' = {} /\ UNCHANGED tokens

Next == Sign \/ Transact \/ GiveUp

Spec == Init /\ [][Next]_registry
=============================================================================
