------------------------- MODULE MetadataScriptsProofs -------------------------
(***************************************************************************)
(* Proofs about MetadataScripts, for any scripts and any other clients: a  *)
(* script acts on the chain only by the transactions it sends the node, so *)
(* what is proved of the node holds beside it, and nobody else can write   *)
(* a token whose mint the script has generated.                            *)
(***************************************************************************)
EXTENDS MetadataScripts, MetadataNodeProofs

-----------------------------------------------------------------------------
(* The transactions of a script *)

\* The last transaction of script s, which creates the metadata of its mint.
FinalOf(s, m) == Sequence(s, m)[Len(Sequence(s, m))]

\* The instructions of its k-th transaction about mint m.
Steps(s, m, k) ==
    LET c == Script[s]
    IN  IF c.kind = "tour" THEN tour_instructions(c.payer, m, c.text, c.entries)
        ELSE IF k = 1 THEN create_and_init_mint_instructions(c.payer, m, c.payer, NoKey)
        ELSE <<build_create_metadata_ix(c.payer, m, c.payer, c.text, FALSE)>>

LEMMA Sequences ==
    ASSUME NEW s \in Scripts, NEW m \in Mints
    PROVE  /\ Script[s].kind = "tour" => Len(Sequence(s, m)) = 1
           /\ Script[s].kind = "test" => Len(Sequence(s, m)) = 2
           /\ DOMAIN Sequence(s, m) = 1..Len(Sequence(s, m))
           /\ \A k \in DOMAIN Sequence(s, m) :
                 /\ Sequence(s, m)[k] \in Transactions
                 /\ Sequence(s, m)[k].instructions = Steps(s, m, k)
  <1> DEFINE c == Script[s]
             Tour == Signed(s, {c.payer, m}, tour_instructions(c.payer, m, c.text, c.entries))
             Mint1 == Signed(s, {c.payer, m},
                             create_and_init_mint_instructions(c.payer, m, c.payer, NoKey))
             Token2 == Signed(s, {c.payer},
                              <<build_create_metadata_ix(c.payer, m, c.payer, c.text, FALSE)>>)
  <1>1. c.kind \in {"tour", "test"}
    BY ScriptAssumption
  <1>2. Sequence(s, m) = IF c.kind = "tour" THEN <<Tour>> ELSE <<Mint1, Token2>>
    BY DEF Sequence
  <1>3. /\ Tour.instructions = tour_instructions(c.payer, m, c.text, c.entries)
        /\ Mint1.instructions = create_and_init_mint_instructions(c.payer, m, c.payer, NoKey)
        /\ Token2.instructions = <<build_create_metadata_ix(c.payer, m, c.payer, c.text, FALSE)>>
    BY DEF Signed
  <1> HIDE DEF Tour, Mint1, Token2
  <1>4. ToSet(Sequence(s, m)) \subseteq Transactions
    BY ScriptsAssumption
  <1>5. \A k \in DOMAIN Sequence(s, m) : Sequence(s, m)[k] \in Transactions
    BY <1>4 DEF ToSet
  <1>6. CASE c.kind = "tour"
    <2>1. /\ Len(Sequence(s, m)) = 1 /\ DOMAIN Sequence(s, m) = 1..1
          /\ Sequence(s, m)[1] = Tour
      BY <1>2, <1>6
    <2>2. ASSUME NEW k \in 1..1 PROVE Sequence(s, m)[k].instructions = Steps(s, m, k)
      BY <1>3, <1>6, <2>1 DEF Steps
    <2> QED
      BY <1>5, <1>6, <2>1, <2>2
  <1>7. CASE c.kind = "test"
    <2>1. /\ Len(Sequence(s, m)) = 2 /\ DOMAIN Sequence(s, m) = 1..2
          /\ Sequence(s, m)[1] = Mint1 /\ Sequence(s, m)[2] = Token2
      BY <1>2, <1>7
    <2>2. ASSUME NEW k \in 1..2 PROVE Sequence(s, m)[k].instructions = Steps(s, m, k)
      <3>1. k = 1 \/ k = 2
        OBVIOUS
      <3>2. Sequence(s, m)[1].instructions = Steps(s, m, 1)
        BY <1>3, <1>7, <2>1 DEF Steps
      <3>3. Sequence(s, m)[2].instructions = Steps(s, m, 2)
        BY <1>3, <1>7, <2>1 DEF Steps
      <3> QED
        BY <3>1, <3>2, <3>3
    <2> QED
      BY <1>5, <1>7, <2>1, <2>2
  <1> QED
    BY <1>1, <1>6, <1>7

\* What each of these instructions is about, and who signs it: the account of the mint is
\* created first, and the creation of the metadata is signed by the payer.
LEMMA ScriptInstructions ==
    ASSUME NEW s \in Scripts, NEW m \in Mints, NEW k \in DOMAIN Sequence(s, m),
           NEW tx, tx = Sequence(s, m)[k]
    PROVE  /\ tx \in Transactions
           /\ k = 1 => /\ Len(tx.instructions) > 1
                       /\ tx.instructions[1].op = "CreateMintAccount"
           /\ \A j \in DOMAIN tx.instructions :
                 LET ix == tx.instructions[j]
                 IN  /\ ix \in Instructions /\ ix.mint = m
                     /\ ix.op \in {"CreateMintAccount", "InitializeMint2", "CreateMetadata",
                                  "CreateAttributes"}
                     /\ ix.op = "CreateMintAccount" => k = 1 /\ j = 1
                     /\ ix.op = "InitializeMint2" => ix.mint_authority = Script[s].payer
                     /\ ix.op = "CreateMetadata" => ~ix.immutable
  <1> DEFINE c == Script[s]
  <1>1. tx \in Transactions /\ tx.instructions = Steps(s, m, k)
    BY Sequences
  <1>2. tx.instructions \in Seq(Instructions)
    BY <1>1, TransactionsAssumption
  <1>3. \A j \in DOMAIN tx.instructions : tx.instructions[j] \in Instructions
    BY <1>2
  <1>4. CASE c.kind = "tour"
    <2>1. k = 1
      BY <1>4, Sequences
    <2>2. tx.instructions = tour_instructions(c.payer, m, c.text, c.entries)
      BY <1>1, <1>4 DEF Steps
    <2>3. DOMAIN tx.instructions = 1..4 /\ Len(tx.instructions) = 4
      BY <2>2 DEF tour_instructions
    <2>4. /\ tx.instructions[1] = create_mint_account_ix(c.payer, m)
          /\ tx.instructions[2] = initialize_mint2_ix(m, c.payer, NoKey)
          /\ tx.instructions[3] = create_metadata_ix(c.payer, m, c.payer, c.text, FALSE)
          /\ tx.instructions[4] = create_attributes_ix(c.payer, m, c.payer, c.entries)
      BY <2>2 DEF tour_instructions
    <2>5. ASSUME NEW j \in 1..4
          PROVE  LET ix == tx.instructions[j]
                 IN  /\ ix.mint = m
                     /\ ix.op \in {"CreateMintAccount", "InitializeMint2", "CreateMetadata",
                                  "CreateAttributes"}
                     /\ ix.op = "CreateMintAccount" => j = 1
                     /\ ix.op = "InitializeMint2" => ix.mint_authority = Script[s].payer
                     /\ ix.op = "CreateMetadata" => ~ix.immutable
      <3>1. j = 1 \/ j = 2 \/ j = 3 \/ j = 4
        OBVIOUS
      <3> QED
        BY <2>4, <3>1 DEF create_mint_account_ix, initialize_mint2_ix, create_metadata_ix,
                          create_attributes_ix
    <2>6. tx.instructions[1].op = "CreateMintAccount"
      BY <2>4 DEF create_mint_account_ix
    <2> QED
      BY <1>1, <1>3, <2>1, <2>3, <2>5, <2>6
  <1>5. CASE c.kind = "test" /\ k = 1
    <2>1. tx.instructions = create_and_init_mint_instructions(c.payer, m, c.payer, NoKey)
      BY <1>1, <1>5 DEF Steps
    <2>2. DOMAIN tx.instructions = 1..2 /\ Len(tx.instructions) = 2
      BY <2>1 DEF create_and_init_mint_instructions
    <2>3. /\ tx.instructions[1] = create_mint_account_ix(c.payer, m)
          /\ tx.instructions[2] = initialize_mint2_ix(m, c.payer, NoKey)
      BY <2>1 DEF create_and_init_mint_instructions
    <2>4. ASSUME NEW j \in 1..2
          PROVE  LET ix == tx.instructions[j]
                 IN  /\ ix.mint = m
                     /\ ix.op \in {"CreateMintAccount", "InitializeMint2"}
                     /\ ix.op = "CreateMintAccount" => j = 1
                     /\ ix.op = "InitializeMint2" => ix.mint_authority = Script[s].payer
                     /\ ix.op = "CreateMetadata" => ~ix.immutable
      <3>1. j = 1 \/ j = 2
        OBVIOUS
      <3> QED
        BY <2>3, <3>1 DEF create_mint_account_ix, initialize_mint2_ix
    <2>5. tx.instructions[1].op = "CreateMintAccount"
      BY <2>3 DEF create_mint_account_ix
    <2> QED
      BY <1>1, <1>3, <1>5, <2>2, <2>4, <2>5
  <1>6. CASE c.kind = "test" /\ k # 1
    <2>1. tx.instructions = <<create_metadata_ix(c.payer, m, c.payer, c.text, FALSE)>>
      BY <1>1, <1>6 DEF Steps, build_create_metadata_ix
    <2>2. /\ DOMAIN tx.instructions = {1}
          /\ tx.instructions[1] = create_metadata_ix(c.payer, m, c.payer, c.text, FALSE)
      BY <2>1
    <2>3. /\ tx.instructions[1].mint = m /\ tx.instructions[1].op = "CreateMetadata"
          /\ ~tx.instructions[1].immutable
      BY <2>2 DEF create_metadata_ix
    <2> QED
      BY <1>1, <1>3, <1>6, <2>2, <2>3
  <1> QED
    BY <1>4, <1>5, <1>6, ScriptAssumption

\* What script s asks its mint's token to be, part by part.
Asked(s, part) ==
    CASE part \in Field -> {Script[s].text[part]}
      [] part = "update_authority" -> {Script[s].payer}
      [] part = "attributes" -> IF Script[s].kind = "tour" THEN {Script[s].entries} ELSE {}

\* Of a script's transactions the last writes all it asks for, about its own mint only.
LEMMA SequenceWrites ==
    ASSUME NEW s \in Scripts, NEW mm \in Mints, NEW k \in DOMAIN Sequence(s, mm),
           NEW m, NEW part \in TokenPart
    PROVE  WrittenBy(Sequence(s, mm)[k], m, part) =
              IF m = mm /\ k = Len(Sequence(s, mm)) THEN Asked(s, part) ELSE {}
  <1> DEFINE c == Script[s]
             tx == Sequence(s, mm)[k]
             W(j) == Written(tx.instructions[j], m, part)
             create == create_metadata_ix(c.payer, mm, c.payer, c.text, FALSE)
             add == create_attributes_ix(c.payer, mm, c.payer, c.entries)
  <1>1. tx \in Transactions /\ tx.instructions = Steps(s, mm, k)
    BY Sequences
  <1>2. part \in Field \/ part = "update_authority" \/ part = "attributes"
    BY DEF TokenPart, MetadataPart
  <1>3. Written(create, m, part) = IF m = mm /\ part \in MetadataPart THEN Asked(s, part) ELSE {}
    <2>1. /\ create.op = "CreateMetadata" /\ create.mint = mm /\ create.text = c.text
          /\ create.authority = c.payer /\ create.immutable = FALSE
      BY DEF create_metadata_ix
    <2> HIDE DEF create
    <2>2. /\ m = mm /\ part \in Field => Written(create, m, part) = {c.text[part]}
          /\ m = mm /\ part = "update_authority" => Written(create, m, part) = {c.payer}
          /\ ~(m = mm /\ part \in MetadataPart) => Written(create, m, part) = {}
      BY <2>1, CreateMetadataWritten, TokenParts
    <2> QED
      BY <1>2, <2>2, TokenParts DEF Asked, Field
  <1>4. Written(add, m, part) = IF m = mm /\ part = "attributes" THEN {c.entries} ELSE {}
    <2>1. add.op = "CreateAttributes" /\ add.mint = mm /\ add.entries = c.entries
      BY DEF create_attributes_ix
    <2> HIDE DEF add
    <2>2. WritesOnly(add, <<mm, "attributes", c.entries>>)
      BY <2>1 DEF WritesOnly, Writes
    <2>3. m = mm /\ part = "attributes" => Written(add, m, part) = {c.entries}
      BY <2>2, OnlyWritten
    <2>4. \A w \in Writes(add) : w[1] = mm /\ w[2] = "attributes"
      BY <2>2 DEF WritesOnly
    <2>5. ~(m = mm /\ part = "attributes") => Written(add, m, part) = {}
      BY <2>4, NoneWritten
    <2> QED
      BY <2>3, <2>5
  <1>5. ASSUME NEW ix, ix.op \in {"CreateMintAccount", "InitializeMint2"}
        PROVE  Written(ix, m, part) = {}
    <2>1. \A w \in Writes(ix) : w[2] \in MintPart
      BY <1>5 DEF Writes
    <2> QED
      BY <1>2, <2>1, NoneWritten DEF MintPart, Field
  <1>6. /\ create_mint_account_ix(c.payer, mm).op = "CreateMintAccount"
        /\ initialize_mint2_ix(mm, c.payer, NoKey).op = "InitializeMint2"
    BY DEF create_mint_account_ix, initialize_mint2_ix
  <1> HIDE DEF create, add
  <1>7. CASE c.kind = "tour"
    <2>1. k = 1 /\ Len(Sequence(s, mm)) = 1
      BY <1>7, Sequences
    <2>2. /\ DOMAIN tx.instructions = 1..4
          /\ tx.instructions[1] = create_mint_account_ix(c.payer, mm)
          /\ tx.instructions[2] = initialize_mint2_ix(mm, c.payer, NoKey)
          /\ tx.instructions[3] = create /\ tx.instructions[4] = add
      BY <1>1, <1>7 DEF Steps, tour_instructions, create, add
    <2> HIDE DEF tx
    <2>3. W(1) = {} /\ W(2) = {}
      BY <1>5, <1>6, <2>2
    <2>4. /\ W(3) = IF m = mm /\ part \in MetadataPart THEN Asked(s, part) ELSE {}
          /\ W(4) = IF m = mm /\ part = "attributes" THEN {c.entries} ELSE {}
      BY <1>3, <1>4, <2>2
    <2>5. part = "attributes" => Asked(s, part) = {c.entries}
      BY <1>7 DEF Asked, Field
    <2> HIDE DEF W
    <2>6. ASSUME NEW i \in {3, 4}, part = "attributes" <=> i = 4
          PROVE  /\ \A j \in 1..4 : j # i => W(j) = {}
                 /\ W(i) = IF m = mm THEN Asked(s, part) ELSE {}
      <3>1. \A j \in 1..4 : j = 1 \/ j = 2 \/ j = 3 \/ j = 4
        OBVIOUS
      <3> QED
        BY <2>3, <2>4, <2>5, <2>6, <3>1, TokenParts
    <2>7. ASSUME NEW i \in {3, 4}, part = "attributes" <=> i = 4
          PROVE  WrittenBy(tx, m, part) = IF m = mm THEN Asked(s, part) ELSE {}
      <3>1. i \in DOMAIN tx.instructions
        BY <2>2
      <3>2. \A j \in DOMAIN tx.instructions :
              j # i => Written(tx.instructions[j], m, part) = {}
        BY <2>2, <2>6, <2>7 DEF W
      <3>3. WrittenBy(tx, m, part) = Written(tx.instructions[i], m, part)
        BY <1>1, <3>1, <3>2, WrittenOnce
      <3> QED
        BY <2>6, <2>7, <3>3 DEF W
    <2> QED
      BY <2>1, <2>7 DEF tx
  <1>8. CASE c.kind = "test" /\ k = 1
    <2>1. Len(Sequence(s, mm)) = 2
      BY <1>8, Sequences
    <2>2. /\ DOMAIN tx.instructions = 1..2
          /\ tx.instructions[1] = create_mint_account_ix(c.payer, mm)
          /\ tx.instructions[2] = initialize_mint2_ix(mm, c.payer, NoKey)
      BY <1>1, <1>8 DEF Steps, create_and_init_mint_instructions
    <2> HIDE DEF tx
    <2>3. W(1) = {} /\ W(2) = {}
      BY <1>5, <1>6, <2>2
    <2>4. 1 \in DOMAIN tx.instructions
          /\ \A j \in DOMAIN tx.instructions : j = 1 \/ j = 2
      BY <2>2
    <2>5. WrittenBy(tx, m, part) = {}
      BY <1>1, <2>3, <2>4, WrittenOnce
    <2> QED
      BY <1>8, <2>1, <2>5 DEF tx
  <1>9. CASE c.kind = "test" /\ k # 1
    <2>1. Len(Sequence(s, mm)) = 2 /\ k = 2
      BY <1>9, Sequences
    <2>2. DOMAIN tx.instructions = {1} /\ tx.instructions[1] = create
      BY <1>1, <1>9 DEF Steps, build_create_metadata_ix, create
    <2> HIDE DEF tx
    <2>3. WrittenBy(tx, m, part) = W(1)
      BY <1>1, <2>2, WrittenOnce
    <2>4. part = "attributes" => Asked(s, part) = {}
      BY <1>9 DEF Asked, Field
    <2> QED
      BY <1>3, <2>1, <2>2, <2>3, <2>4, TokenParts DEF tx
  <1> QED
    BY <1>7, <1>8, <1>9, ScriptAssumption

-----------------------------------------------------------------------------
(* Scripts are clients of the node *)

\* A script has a mint once it has started, and is at one of its transactions.
ScriptTypes ==
    /\ DOMAIN stage = Scripts /\ DOMAIN found = Scripts
    /\ mint \in [Scripts -> Fresh \cup {NoMint}]
    /\ step \in [Scripts -> 1..2]
    /\ \A s \in Scripts : stage[s] = "idle" <=> mint[s] = NoMint
    /\ \A s \in Scripts, m \in Fresh : step[s] \in DOMAIN Sequence(s, m)

LEMMA ScriptTypesInit == ScriptsInit => ScriptTypes
  <1> SUFFICES ASSUME ScriptsInit PROVE ScriptTypes
    OBVIOUS
  <1>1. ASSUME NEW s \in Scripts, NEW m \in Fresh PROVE 1 \in DOMAIN Sequence(s, m)
    BY Sequences, ScriptAssumption, FreshAssumption
  <1> QED
    BY <1>1 DEF ScriptsInit, ScriptTypes

LEMMA CurrentIsTransaction ==
    ASSUME ScriptTypes, NEW s \in Scripts, stage[s] # "idle"
    PROVE  /\ mint[s] \in Fresh /\ mint[s] \in Mints
           /\ step[s] \in DOMAIN Sequence(s, mint[s])
           /\ Current(s) \in Transactions
  <1>1. mint[s] \in Fresh /\ mint[s] \in Mints
    BY FreshAssumption DEF ScriptTypes
  <1>2. step[s] \in DOMAIN Sequence(s, mint[s])
    BY <1>1 DEF ScriptTypes
  <1> QED
    BY <1>1, <1>2, Sequences DEF Current

\* A step that moves script s on with the mint it has, and may take it a step further.
LEMMA ScriptMoves ==
    ASSUME ScriptTypes, NEW s \in Scripts, NEW from, NEW to, Moves(s, from, to),
           from # "idle", to # "idle", mint' = mint, step' = step, DOMAIN found' = Scripts
    PROVE  ScriptTypes'
  <1>1. /\ DOMAIN stage' = Scripts /\ stage[s] = from /\ stage'[s] = to
        /\ \A r \in Scripts : r # s => stage'[r] = stage[r]
    BY DEF Moves, ScriptTypes
  <1> QED
    BY <1>1 DEF ScriptTypes

LEMMA ScriptTypesNext ==
    ASSUME ScriptTypes, [ScriptsNext]_scriptVars
    PROVE  ScriptTypes'
  <1>1. ASSUME NEW s \in Scripts, Generate(s) PROVE ScriptTypes'
    <2>1. PICK m \in Fresh : mint' = [mint EXCEPT ![s] = m]
      BY <1>1 DEF Generate
    <2>2. /\ DOMAIN stage' = Scripts /\ stage'[s] = "built"
          /\ \A r \in Scripts : r # s => stage'[r] = stage[r]
          /\ step' = step /\ found' = found
      BY <1>1 DEF Generate, Moves, ScriptTypes
    <2>3. m # NoMint
      BY FreshAssumption
    <2> QED
      BY <2>1, <2>2, <2>3 DEF ScriptTypes
  <1>2. ASSUME NEW s \in Scripts, Send(s) \/ SendFails(s) \/ Bail(s) PROVE ScriptTypes'
    <2>1. mint' = mint /\ step' = step /\ found' = found
      BY <1>2 DEF Send, SendFails, Bail
    <2>2. \/ Moves(s, "built", "sent") \/ Moves(s, "built", "failed")
          \/ Moves(s, "sent", "failed")
      BY <1>2 DEF Send, SendFails, Bail
    <2> QED
      BY <2>1, <2>2, ScriptMoves DEF ScriptTypes
  <1>3. ASSUME NEW s \in Scripts, Continue(s) PROVE ScriptTypes'
    <2>1. mint' = mint /\ found' = found
      BY <1>3 DEF Continue
    <2>2. CASE step[s] < Len(Sequence(s, mint[s]))
      <3>1. Moves(s, "sent", "built") /\ step' = [step EXCEPT ![s] = @ + 1]
        BY <1>3, <2>2 DEF Continue
      <3>2. /\ DOMAIN stage' = Scripts /\ stage[s] = "sent" /\ stage'[s] = "built"
            /\ \A r \in Scripts : r # s => stage'[r] = stage[r]
        BY <3>1 DEF Moves, ScriptTypes
      <3>3. mint[s] \in Fresh /\ mint[s] \in Mints /\ step[s] \in 1..2
        BY <3>2, CurrentIsTransaction DEF ScriptTypes
      <3>4. Len(Sequence(s, mint[s])) = 2 /\ Script[s].kind = "test" /\ step[s] = 1
        <4>1. /\ Script[s].kind = "tour" => Len(Sequence(s, mint[s])) = 1
              /\ Script[s].kind = "test" => Len(Sequence(s, mint[s])) = 2
          BY <3>3, Sequences
        <4>2. Script[s].kind \in {"tour", "test"}
          BY ScriptAssumption
        <4> DEFINE n == Len(Sequence(s, mint[s]))
                   k == step[s]
        <4>3. (n = 1 \/ n = 2) /\ k < n /\ k \in 1..2
          BY <2>2, <3>3, <4>1, <4>2
        <4> HIDE DEF n, k
        <4>4. n = 2 /\ k = 1
          BY <4>3
        <4> QED
          BY <4>1, <4>2, <4>4 DEF n, k
      <3>5. ASSUME NEW m \in Fresh PROVE 2 \in DOMAIN Sequence(s, m)
        BY <3>4, Sequences, FreshAssumption
      <3>6. step' \in [Scripts -> 1..2] /\ step'[s] = 2
        BY <3>1, <3>4 DEF ScriptTypes
      <3>7. \A r \in Scripts : r # s => step'[r] = step[r]
        BY <3>1 DEF ScriptTypes
      <3> QED
        BY <2>1, <3>2, <3>5, <3>6, <3>7 DEF ScriptTypes
    <2>3. CASE ~(step[s] < Len(Sequence(s, mint[s])))
      BY <1>3, <2>1, <2>3, ScriptMoves DEF Continue, ScriptTypes
    <2> QED
      BY <2>2, <2>3
  <1>4. ASSUME NEW s \in Scripts, Read(s) \/ ReadFails(s) PROVE ScriptTypes'
    BY <1>4 DEF Read, ReadFails, ScriptTypes
  <1>5. ASSUME NEW s \in Scripts, Verify(s) PROVE ScriptTypes'
    <2>1. PICK to \in {"missing", "verified", "mismatch"} : Moves(s, "reading", to)
      BY <1>5 DEF Verify
    <2>2. mint' = mint /\ step' = step /\ found' = found
      BY <1>5 DEF Verify
    <2> QED
      BY <2>1, <2>2, ScriptMoves DEF ScriptTypes
  <1>6. CASE UNCHANGED scripts
    BY <1>6 DEF scripts, ScriptTypes
  <1> QED
    BY <1>1, <1>2, <1>3, <1>4, <1>5, <1>6 DEF ScriptsNext, scriptVars

\* Sending is the node's Receive; every other step of a script leaves the node alone.
LEMMA ScriptStepIsNodeStep ==
    ASSUME ScriptTypes, [ScriptsNext]_scriptVars
    PROVE  [NodeNext]_nodeVars
  <1>1. ASSUME NEW s \in Scripts, Send(s) \/ SendFails(s) PROVE [NodeNext]_nodeVars
    <2>1. stage[s] # "idle"
      BY <1>1 DEF Send, SendFails, Moves
    <2>2. Current(s) \in Transactions
      BY <2>1, CurrentIsTransaction
    <2> QED
      BY <1>1, <2>2 DEF Send, SendFails, NodeNext
  <1>2. ASSUME NEW s \in Scripts,
               \/ Generate(s) \/ Continue(s) \/ Bail(s)
               \/ Read(s) \/ ReadFails(s) \/ Verify(s)
        PROVE  UNCHANGED nodeVars
    BY <1>2 DEF Generate, Continue, Bail, Read, ReadFails, Verify
  <1>3. ASSUME NEW t \in Others, Receive(t) PROVE [NodeNext]_nodeVars
    BY <1>3 DEF Others, NodeNext
  <1> QED
    BY <1>1, <1>2, <1>3 DEF ScriptsNext, scriptVars, NodeNext

\* Beside any scripts, whatever calls of theirs fail, the node behaves as a node: the
\* tour and the tests are clients of MetadataNode.
THEOREM ScriptsImplementNodeClient == ScriptsSpec => NodeSafety
  <1>1. ScriptsInit => NodeInit /\ ScriptTypes
    BY ScriptTypesInit DEF ScriptsInit
  <1>2. ScriptTypes /\ [ScriptsNext]_scriptVars => ScriptTypes' /\ [NodeNext]_nodeVars
    BY ScriptTypesNext, ScriptStepIsNodeStep
  <1> QED
    BY <1>1, <1>2, PTL DEF ScriptsSpec, NodeSafety

LEMMA ScriptTypesKept == ScriptsSpec => []ScriptTypes
  BY ScriptTypesInit, ScriptTypesNext, PTL DEF ScriptsSpec

-----------------------------------------------------------------------------
(* What an instruction leaves alone *)

\* The account whose data an instruction writes.
Target(ix) ==
    CASE ix.op = "CreateMetadata" -> MetadataPda(ix.mint)
      [] ix.op = "CreateAttributes" -> AttributesPda(ix.mint)
      [] ix.op = "ReplaceAttributes" -> ix.attributes
      [] ix.op \in {"UpdateMetadata", "TransferAuthority", "MakeImmutable"} -> ix.metadata
      [] OTHER -> ix.mint

OfMint == {"CreateMintAccount", "InitializeMint2", "SetMintAuthority"}

LEMMA RunWritesTarget ==
    ASSUME IInv, NEW ix \in Instructions, Run(ix), outcome' \notin Errors
    PROVE  /\ \A x \in Address \ {Target(ix)} : bank'[x].data = bank[x].data
           /\ ix.op \notin OfMint => Target(ix) \notin Mints
  <1>1. Legal(bank) /\ signers \in SUBSET Keys
    BY DEF IInv, TypeOK
  <1>2. CASE ix.op = "CreateMetadata"
    <2>1. Target(ix) = MetadataPda(ix.mint)
      BY <1>2 DEF Target
    <2>2. /\ Passes(CreateMetadataChecks(bank, signers, ix))
          /\ bank' = CreateMetadataEffect(bank, ix)
      BY <1>2, RunPasses
    <2>3. ix.mint \in Address
      BY <1>2, InstructionTypes
    <2> QED
      BY <1>1, <1>2, <2>1, <2>2, <2>3, CreateMetadataWrites, DerivedAddresses
      DEF Sent, Keys, Wrote
  <1>3. CASE ix.op = "CreateAttributes"
    <2>1. Target(ix) = AttributesPda(ix.mint)
      BY <1>3 DEF Target
    <2>2. /\ Passes(CreateAttributesChecks(bank, signers, ix))
          /\ bank' = CreateAttributesEffect(bank, ix)
      BY <1>3, RunPasses
    <2>3. ix.mint \in Address
      BY <1>3, InstructionTypes
    <2> QED
      BY <1>1, <1>3, <2>1, <2>2, <2>3, CreateAttributesWrites, DerivedAddresses
      DEF Sent, Keys, Wrote
  <1>4. CASE ix.op = "ReplaceAttributes"
    <2>1. Target(ix) = ix.attributes
      BY <1>4 DEF Target
    <2>2. /\ Passes(ReplaceAttributesChecks(bank, signers, ix))
          /\ bank' = ReplaceAttributesEffect(bank, ix)
      BY <1>4, RunPasses
    <2>3. /\ ix.attributes = AttributesPda(bank[ix.metadata].data.mint)
          /\ bank[ix.metadata].data \in TokenMetadata
      BY <1>1, <1>4, <2>2, InstructionTypes, ReplaceAttributesGuards, MetadataInPlace
    <2>4. bank[ix.metadata].data.mint \in Address
      BY <2>3 DEF TokenMetadata
    <2>5. Target(ix) \notin Mints
      BY <2>1, <2>3, <2>4, DerivedAddresses DEF Keys
    <2>6. Wrote(bank, bank', ix.attributes,
                [bank[ix.attributes].data EXCEPT !.entries = ix.entries])
      BY <1>1, <1>4, <2>2, OthersWrite
    <2> QED
      BY <2>1, <2>5, <2>6 DEF Wrote
  <1>5. CASE ix.op \in {"UpdateMetadata", "TransferAuthority", "MakeImmutable"}
    <2>1. Target(ix) = ix.metadata
      BY <1>5 DEF Target
    <2>2. ix.metadata \in Address /\ HoldsMetadata(bank, ix.metadata)
      <3>1. ix.metadata \in Address
        BY <1>5, InstructionTypes
      <3>2. CASE ix.op = "UpdateMetadata"
        BY <3>1, <3>2, RunPasses, UpdateMetadataGuards
      <3>3. CASE ix.op # "UpdateMetadata"
        <4>1. Passes(AuthorityChangeChecks(bank, signers, ix))
          BY <1>5, <3>3, RunPasses
        <4> QED
          BY <3>1, <4>1, AuthorityChangeGuards
      <3> QED
        BY <3>2, <3>3
    <2>3. /\ ix.metadata = MetadataPda(bank[ix.metadata].data.mint)
          /\ bank[ix.metadata].data \in TokenMetadata
      BY <1>1, <2>2, MetadataInPlace
    <2>4. bank[ix.metadata].data.mint \in Address
      BY <2>3 DEF TokenMetadata
    <2>5. Target(ix) \notin Mints
      BY <2>1, <2>3, <2>4, DerivedAddresses DEF Keys
    <2>6. CASE ix.op = "UpdateMetadata"
      <3>1. bank' = UpdateMetadataEffect(bank, ix)
        BY <2>6, RunPasses
      <3>2. Wrote(bank, bank', ix.metadata, Updated(bank, ix))
        BY <1>1, <2>6, <3>1, OthersWrite
      <3> QED
        BY <2>1, <2>5, <3>2 DEF Wrote
    <2>7. CASE ix.op = "TransferAuthority"
      <3>1. bank' = TransferAuthorityEffect(bank, ix)
        BY <2>7, RunPasses
      <3>2. Wrote(bank, bank', ix.metadata,
                  [bank[ix.metadata].data EXCEPT !.update_authority = ix.new_authority])
        BY <1>1, <2>7, <3>1, OthersWrite
      <3> QED
        BY <2>1, <2>5, <3>2 DEF Wrote
    <2>8. CASE ix.op = "MakeImmutable"
      <3>1. bank' = MakeImmutableEffect(bank, ix)
        BY <2>8, RunPasses
      <3>2. Wrote(bank, bank', ix.metadata,
                  [bank[ix.metadata].data EXCEPT !.update_authority = NoKey])
        BY <1>1, <2>8, <3>1, OthersWrite
      <3> QED
        BY <2>1, <2>5, <3>2 DEF Wrote
    <2> QED
      BY <1>5, <2>6, <2>7, <2>8
  <1>6. CASE ix.op \in OfMint
    <2>1. Target(ix) = ix.mint
      BY <1>6 DEF Target, OfMint
    <2>2. CASE ix.op = "CreateMintAccount"
      <3>1. bank' = CreateMintAccountEffect(bank, ix)
        BY <2>2, RunPasses
      <3>2. Wrote(bank, bank', ix.mint, [kind |-> "zeroed", len |-> MINT_LEN])
        BY <1>1, <2>2, <3>1, OthersWrite
      <3> QED
        BY <1>6, <2>1, <3>2 DEF Wrote
    <2>3. CASE ix.op = "InitializeMint2"
      <3>1. bank' = InitializeMint2Effect(bank, ix)
        BY <2>3, RunPasses
      <3>2. Wrote(bank, bank', ix.mint,
                  [kind |-> "mint", mint_authority |-> ix.mint_authority,
                   freeze_authority |-> ix.freeze_authority])
        BY <1>1, <2>3, <3>1, OthersWrite
      <3> QED
        BY <1>6, <2>1, <3>2 DEF Wrote
    <2>4. CASE ix.op = "SetMintAuthority"
      <3>1. bank' = SetMintAuthorityEffect(bank, ix)
        BY <2>4, RunPasses
      <3>2. Wrote(bank, bank', ix.mint,
                  [bank[ix.mint].data EXCEPT !.mint_authority = ix.new_authority])
        BY <1>1, <2>4, <3>1, OthersWrite
      <3> QED
        BY <1>6, <2>1, <3>2 DEF Wrote
    <2> QED
      BY <1>6, <2>2, <2>3, <2>4 DEF OfMint
  <1> QED
    BY <1>2, <1>3, <1>4, <1>5, <1>6 DEF Run, OfMint

LEMMA RewrittenOwners ==
    ASSUME NEW A \in [Address -> Account], NEW a \in Address, NEW d, NEW x \in Address
    PROVE  Rewritten(A, a, d)[x].owner = A[x].owner
  <1>1. A[a] \in Account
    OBVIOUS
  <1>2. [A[a] EXCEPT !.data = d].owner = A[a].owner
    BY <1>1 DEF Account
  <1>3. CASE x = a
    BY <1>2, <1>3 DEF Rewritten
  <1>4. CASE x # a
    BY <1>4 DEF Rewritten
  <1> QED
    BY <1>3, <1>4

LEMMA CreatedOwners ==
    ASSUME NEW A, Legal(A), NEW p \in Keys, NEW a \in Address \ {p}, NEW n \in Nat,
           NEW space, NEW d, CanPay(A, p, n), NEW x \in Address \ {a}
    PROVE  CreatedWith(A, p, a, n, space, d)[x].owner = A[x].owner
  <1> DEFINE B == CreatedWith(A, p, a, n, space, d)
  <1>1. /\ B[a] = [owner |-> MetadataProgram, lamports |-> n, data |-> d]
        /\ B[p] = [owner |-> SystemProgram, lamports |-> A[p].lamports - n, data |-> Empty]
        /\ A[p].owner = SystemProgram
        /\ \A y \in Address \ {a, p} : B[y] = A[y]
    BY CreateAccountEffect
  <1> HIDE DEF B
  <1>2. B[p].owner = SystemProgram
    BY <1>1
  <1>3. B[x].owner = A[x].owner
    BY <1>1, <1>2
  <1> QED
    BY <1>3 DEF B

\* Only the creation of its account, which its key signs, changes the owner of a mint.
LEMMA RunOwners ==
    ASSUME IInv, NEW ix \in Instructions, Run(ix), outcome' \notin Errors, NEW m \in Mints,
           ix.op = "CreateMintAccount" => ix.mint # m
    PROVE  bank'[m].owner = bank[m].owner
  <1>1. /\ Legal(bank) /\ bank \in [Address -> Account] /\ signers \in SUBSET Keys
        /\ m \in Keys /\ m \in Address
    BY DerivedAddresses DEF IInv, TypeOK
  <1>2. CASE ix.op = "CreateMetadata"
    <2>1. /\ Passes(CreateMetadataChecks(bank, signers, ix))
          /\ bank' = CreateMetadataEffect(bank, ix)
      BY <1>2, RunPasses
    <2>2. ix.mint \in Address /\ ix.metadata \in Address
      BY <1>2, InstructionTypes
    <2>3. ix.metadata = MetadataPda(ix.mint) /\ ~AlreadyInitialized(bank, ix.metadata)
      BY <2>1, CreateMetadataGuards
    <2>4. NeedsCreation(bank, ix.metadata)
      BY <1>1, <2>2, <2>3, CreationNeeded
    <2>5. ix.payer \in Keys /\ CanPay(bank, ix.payer, MinimumRent[TOKEN_METADATA_MAX_LEN])
      BY <1>1, <2>1, <2>4, CreateMetadataGuards
    <2>6. /\ ix.metadata # ix.payer /\ ix.metadata # m
          /\ MinimumRent[TOKEN_METADATA_MAX_LEN] \in Nat
      BY <1>1, <2>2, <2>3, <2>5, DerivedAddresses, RentAssumption
    <2>7. bank' = CreatedWith(bank, ix.payer, ix.metadata, MinimumRent[TOKEN_METADATA_MAX_LEN],
                              TOKEN_METADATA_MAX_LEN, NewMetadata(bank, ix))
      BY <2>1, <2>4 DEF CreateMetadataEffect, Created, CreatedWith
    <2> QED
      BY <1>1, <2>2, <2>5, <2>6, <2>7, CreatedOwners
  <1>3. CASE ix.op = "CreateAttributes"
    <2>1. /\ Passes(CreateAttributesChecks(bank, signers, ix))
          /\ bank' = CreateAttributesEffect(bank, ix)
      BY <1>3, RunPasses
    <2>2. ix.mint \in Address /\ ix.attributes \in Address
      BY <1>3, InstructionTypes
    <2>3. /\ ix.attributes = AttributesPda(ix.mint) /\ ix.payer \in Keys
          /\ ~AlreadyInitialized(bank, ix.attributes)
      BY <1>1, <2>1, CreateAttributesGuards
    <2>4. NeedsCreation(bank, ix.attributes)
      BY <1>1, <2>2, <2>3, CreationNeeded
    <2>5. CanPay(bank, ix.payer, MinimumRent[TOKEN_METADATA_ATTRIBUTES_MAX_LEN])
      BY <2>1, <2>4, CreateAttributesGuards
    <2>6. /\ ix.attributes # ix.payer /\ ix.attributes # m
          /\ MinimumRent[TOKEN_METADATA_ATTRIBUTES_MAX_LEN] \in Nat
      BY <1>1, <2>2, <2>3, DerivedAddresses, RentAssumption
    <2>7. bank' = CreatedWith(bank, ix.payer, ix.attributes,
                              MinimumRent[TOKEN_METADATA_ATTRIBUTES_MAX_LEN],
                              TOKEN_METADATA_ATTRIBUTES_MAX_LEN, NewAttributes(ix))
      BY <2>1, <2>4 DEF CreateAttributesEffect, Created, CreatedWith
    <2> QED
      BY <1>1, <2>2, <2>3, <2>5, <2>6, <2>7, CreatedOwners
  <1>4. CASE ix.op = "CreateMintAccount"
    <2>1. /\ Passes(CreateMintAccountChecks(bank, signers, ix))
          /\ bank' = CreateMintAccountEffect(bank, ix)
      BY <1>4, RunPasses
    <2>2. ix.mint \in Mints /\ ix.mint \in Address
      BY <1>4, InstructionTypes, DerivedAddresses
    <2>3. bank[m] \in Account
      BY <1>1
    <2> QED
      BY <1>1, <1>4, <2>1, <2>2, <2>3 DEF CreateMintAccountEffect, CreateAccount, Account
  <1>5. CASE ix.op = "UpdateMetadata"
    <2>1. bank' = UpdateMetadataEffect(bank, ix) /\ ix.metadata \in Address
      BY <1>5, RunPasses, InstructionTypes
    <2> QED
      BY <1>1, <2>1, RewrittenOwners DEF UpdateMetadataEffect, Rewritten
  <1>6. CASE ix.op = "ReplaceAttributes"
    <2>1. bank' = ReplaceAttributesEffect(bank, ix) /\ ix.attributes \in Address
      BY <1>6, RunPasses, InstructionTypes
    <2> QED
      BY <1>1, <2>1, RewrittenOwners DEF ReplaceAttributesEffect, Rewritten
  <1>7. CASE ix.op = "TransferAuthority"
    <2>1. bank' = TransferAuthorityEffect(bank, ix) /\ ix.metadata \in Address
      BY <1>7, RunPasses, InstructionTypes
    <2> QED
      BY <1>1, <2>1, RewrittenOwners DEF TransferAuthorityEffect, Rewritten
  <1>8. CASE ix.op = "MakeImmutable"
    <2>1. bank' = MakeImmutableEffect(bank, ix) /\ ix.metadata \in Address
      BY <1>8, RunPasses, InstructionTypes
    <2> QED
      BY <1>1, <2>1, RewrittenOwners DEF MakeImmutableEffect, Rewritten
  <1>9. CASE ix.op = "InitializeMint2"
    <2>1. bank' = InitializeMint2Effect(bank, ix) /\ ix.mint \in Address
      BY <1>9, RunPasses, InstructionTypes, DerivedAddresses
    <2> QED
      BY <1>1, <2>1, RewrittenOwners DEF InitializeMint2Effect, Rewritten
  <1>10. CASE ix.op = "SetMintAuthority"
    <2>1. bank' = SetMintAuthorityEffect(bank, ix) /\ ix.mint \in Address
      BY <1>10, RunPasses, InstructionTypes, DerivedAddresses
    <2> QED
      BY <1>1, <2>1, RewrittenOwners DEF SetMintAuthorityEffect, Rewritten
  <1> QED
    BY <1>2, <1>3, <1>4, <1>5, <1>6, <1>7, <1>8, <1>9, <1>10 DEF Run

\* An instruction changes only what the signers of the transaction control.
LEMMA RunControlled ==
    ASSUME IInv, NEW ix \in Instructions, Run(ix), outcome' \notin Errors
    PROVE  Legal(bank') /\ Controlled(bank, signers, bank')
  <1>1. Legal(bank) /\ signers \in SUBSET Keys
    BY DEF IInv, TypeOK
  <1>2. CASE ix.op = "CreateMetadata"
    BY <1>1, <1>2, RunPasses, CreateMetadataStep DEF Sent
  <1>3. CASE ix.op = "UpdateMetadata"
    BY <1>1, <1>3, RunPasses, UpdateMetadataStep DEF Sent
  <1>4. CASE ix.op = "CreateAttributes"
    BY <1>1, <1>4, RunPasses, CreateAttributesStep DEF Sent
  <1>5. CASE ix.op = "ReplaceAttributes"
    BY <1>1, <1>5, RunPasses, ReplaceAttributesStep DEF Sent
  <1>6. CASE ix.op = "TransferAuthority"
    BY <1>1, <1>6, RunPasses, TransferAuthorityStep DEF Sent
  <1>7. CASE ix.op = "MakeImmutable"
    BY <1>1, <1>7, RunPasses, MakeImmutableStep DEF Sent
  <1>8. CASE ix.op = "CreateMintAccount"
    BY <1>1, <1>8, RunPasses, CreateMintAccountStep DEF Sent
  <1>9. CASE ix.op = "InitializeMint2"
    BY <1>1, <1>9, RunPasses, InitializeMint2Step DEF Sent
  <1>10. CASE ix.op = "SetMintAuthority"
    BY <1>1, <1>10, RunPasses, SetMintAuthorityStep DEF Sent
  <1> QED
    BY <1>2, <1>3, <1>4, <1>5, <1>6, <1>7, <1>8, <1>9, <1>10 DEF Run

-----------------------------------------------------------------------------
(* What other clients can do to a script's token *)

\* Nothing: no instruction they sign for is about it.
LEMMA ForeignWritesNothing ==
    ASSUME IInv, NEW ix \in Instructions, Run(ix), outcome' \notin Errors, NEW m \in Fresh,
           signers \cap Payers = {}, Owned(bank, m), NEW part \in TokenPart
    PROVE  Written(ix, m, part) = {}
  <1>1. /\ Legal(bank) /\ m \in Mints /\ MetadataPda(m) \in Address
    BY FreshAssumption, DerivedAddresses DEF IInv
  <1>2. ASSUME NEW a \in Address, HoldsMetadata(bank, a), AuthorityAccepted(bank, a, ix.authority),
               ix.authority \in signers
        PROVE  a # MetadataPda(m) /\ bank[a].data.mint # m /\ a[2] # m
    <2>1. a = MetadataPda(bank[a].data.mint)
      BY <1>1, <1>2, MetadataInPlace
    <2>2. a # MetadataPda(m)
      BY <1>1, <1>2 DEF Owned, MetadataExists, Authority, AuthorityAccepted
    <2> QED
      BY <2>1, <2>2 DEF MetadataPda
  <1>3. CASE ix.op = "CreateMetadata"
    <2>1. Passes(CreateMetadataChecks(bank, signers, ix))
      BY <1>3, RunPasses
    <2>2. ix.mint # m
      BY <2>1, CreateMetadataGuards DEF Owned, CreationAuthorityAccepted
    <2> QED
      BY <1>3, <2>2, CreateMetadataWritten, TokenParts
  <1>4. CASE ix.op = "CreateAttributes"
    <2>1. Passes(CreateAttributesChecks(bank, signers, ix)) /\ ix.metadata \in Address
      BY <1>4, RunPasses, InstructionTypes
    <2>2. ix.mint # m
      BY <1>2, <2>1, CreateAttributesGuards DEF MetadataIsOfMint
    <2> QED
      BY <1>4, <2>2, NoneWritten DEF Writes
  <1>5. CASE ix.op \in {"UpdateMetadata", "ReplaceAttributes", "TransferAuthority", "MakeImmutable"}
    <2>1. ix.metadata \in Address
      BY <1>5, InstructionTypes
    <2>2. /\ HoldsMetadata(bank, ix.metadata) /\ ix.authority \in signers
          /\ AuthorityAccepted(bank, ix.metadata, ix.authority)
      <3>1. CASE ix.op = "UpdateMetadata"
        BY <3>1, RunPasses, UpdateMetadataGuards
      <3>2. CASE ix.op = "ReplaceAttributes"
        BY <3>2, RunPasses, ReplaceAttributesGuards
      <3>3. CASE ix.op \in {"TransferAuthority", "MakeImmutable"}
        <4>1. Passes(AuthorityChangeChecks(bank, signers, ix))
          BY <3>3, RunPasses
        <4> QED
          BY <4>1, AuthorityChangeGuards
      <3> QED
        BY <1>5, <3>1, <3>2, <3>3
    <2>3. ix.metadata[2] # m
      BY <1>2, <2>1, <2>2
    <2>4. \A w \in Writes(ix) : w[1] = ix.metadata[2]
      BY <1>5 DEF Writes
    <2> QED
      BY <2>3, <2>4, NoneWritten
  <1>6. CASE ix.op \in OfMint
    <2>1. \A w \in Writes(ix) : w[2] \in MintPart
      BY <1>6 DEF OfMint, Writes, MintPart
    <2>2. part \notin MintPart
      BY DEF TokenPart, MetadataPart, MintPart, Field
    <2> QED
      BY <2>1, <2>2, NoneWritten
  <1> QED
    BY <1>3, <1>4, <1>5, <1>6 DEF Run, OfMint

\* ... and none takes it over: its keys stay the payers'.
LEMMA ForeignRun ==
    ASSUME IInv, NEW ix \in Instructions, Run(ix), outcome' \notin Errors, NEW m \in Fresh,
           signers \cap (Fresh \cup Payers) = {}, Owned(bank, m), Initialised(bank, m)
    PROVE  Owned(bank', m) /\ Initialised(bank', m)
  <1>1. /\ m \in Mints /\ m \in Address /\ MetadataPda(m) \in Address
        /\ signers \in SUBSET Keys /\ NoKey \notin signers /\ m \notin signers
    BY FreshAssumption, DerivedAddresses DEF IInv, TypeOK
  <1>2. /\ Legal(bank') /\ Controlled(bank, signers, bank')
    BY RunControlled
  <1>3. HoldsMint(bank', m) => HoldsMint(bank, m)
    <2>1. CASE Target(ix) # m
      BY <1>1, <2>1, RunWritesTarget DEF HoldsMint
    <2>2. CASE Target(ix) = m
      <3>1. ix.op \in OfMint /\ ix.mint = m
        BY <1>1, <2>2, RunWritesTarget DEF Target, OfMint
      <3>2. CASE ix.op = "CreateMintAccount"
        BY <1>1, <3>1, <3>2, RunPasses, CreateMintAccountGuards
      <3>3. CASE ix.op = "InitializeMint2"
        <4>1. Passes(InitializeMint2Checks(bank, ix))
          BY <3>3, RunPasses
        <4> QED
          BY <3>1, <4>1, InitializeMint2Guards DEF Initialised
      <3>4. CASE ix.op = "SetMintAuthority"
        BY <3>1, <3>4, RunPasses, SetMintAuthorityGuards
      <3> QED
        BY <3>1, <3>2, <3>3, <3>4 DEF OfMint
    <2> QED
      BY <2>1, <2>2
  <1>4. ASSUME HoldsMint(bank, m)
        PROVE  /\ HoldsMint(bank', m) /\ bank'[m].data = bank[m].data
               /\ CreationAuthority(bank, m) \notin signers
    <2>1. CreationAuthority(bank, m) \notin signers
      BY <1>4 DEF Owned
    <2>2. MintAuthority(bank, m) \notin signers
      BY <1>1, <1>4, <2>1 DEF CreationAuthority, MintAuthority
    <2> QED
      BY <1>1, <1>2, <1>4, <2>1, <2>2 DEF Controlled, Kept
  <1>5. HoldsMint(bank', m) => CreationAuthority(bank', m) \in Payers
    <2> SUFFICES ASSUME HoldsMint(bank', m) PROVE CreationAuthority(bank', m) \in Payers
      OBVIOUS
    <2>1. HoldsMint(bank, m) /\ bank'[m].data = bank[m].data
      BY <1>3, <1>4
    <2>2. CreationAuthority(bank', m) = CreationAuthority(bank, m)
      BY <2>1 DEF CreationAuthority, HoldsMint
    <2> QED
      BY <2>1, <2>2 DEF Owned
  <1>6. MetadataExists(bank', m) => Authority(bank', m) \in Payers
    <2> SUFFICES ASSUME MetadataExists(bank', m) PROVE Authority(bank', m) \in Payers
      OBVIOUS
    <2>1. HoldsMint(bank', m) /\ HoldsMint(bank, m)
      BY <1>1, <1>2, <1>3 DEF Legal, Backed
    <2>2. MetadataExists(bank, m)
      BY <1>1, <1>2, <1>4, <2>1 DEF Controlled
    <2>3. Authority(bank, m) \in Payers /\ Authority(bank, m) \notin signers
      BY <2>2 DEF Owned
    <2>4. bank'[MetadataPda(m)] = bank[MetadataPda(m)]
      BY <1>1, <1>2, <2>2, <2>3 DEF Controlled
    <2>5. Authority(bank', m) = Authority(bank, m)
      BY <2>4 DEF Authority, UpdateAuthority, HoldsMetadata
    <2> QED
      BY <2>3, <2>5
  <1>7. Initialised(bank', m)
    <2>1. ix.op = "CreateMintAccount" => ix.mint # m
      BY <1>1, RunPasses, CreateMintAccountGuards
    <2>2. bank'[m].owner = bank[m].owner
      BY <1>1, <2>1, RunOwners
    <2> QED
      BY <1>4, <2>2 DEF Initialised
  <1> QED
    BY <1>5, <1>6, <1>7 DEF Owned

\* A script's own instruction about mint mm: only the first leaves the mint half made, and
\* it leaves every other fresh mint as it was.
LEMMA OwnRun ==
    ASSUME IInv, NEW s \in Scripts, NEW mm \in Fresh, NEW k \in DOMAIN Sequence(s, mm),
           NEW tx, tx = Sequence(s, mm)[k], NEW j \in DOMAIN tx.instructions,
           NEW ix, ix = tx.instructions[j], Run(ix), outcome' \notin Errors,
           NEW m \in Fresh, Owned(bank, m)
    PROVE  /\ Owned(bank', m)
           /\ m # mm => (Initialised(bank', m) <=> Initialised(bank, m))
           /\ m = mm => Initialised(bank', m) \/ (k = 1 /\ j = 1)
  <1>1. /\ mm \in Mints /\ m \in Mints /\ m \in Address /\ MetadataPda(m) \in Address
        /\ MetadataPda(m) # m /\ Script[s].payer \in Payers /\ NoKey \notin Payers
        /\ \A a \in Address : AttributesPda(a) # m /\ MetadataPda(a) # m
    <2>1. Script[s].payer \in Payers /\ Payers \subseteq Keys
      BY ScriptAssumption DEF Payers, Keys
    <2> QED
      BY <2>1, FreshAssumption, DerivedAddresses
  <1>2. /\ ix \in Instructions /\ ix.mint = mm
        /\ ix.op \in {"CreateMintAccount", "InitializeMint2", "CreateMetadata", "CreateAttributes"}
        /\ ix.op = "CreateMintAccount" => k = 1 /\ j = 1
        /\ ix.op = "InitializeMint2" => ix.mint_authority = Script[s].payer
        /\ ix.op = "CreateMetadata" => ~ix.immutable
    BY <1>1, ScriptInstructions
  <1>3. /\ \A x \in Address \ {Target(ix)} : bank'[x].data = bank[x].data
        /\ ix.op = "CreateMintAccount" \/ bank'[m].owner = bank[m].owner
        /\ m # mm => bank'[m].owner = bank[m].owner
        /\ Legal(bank) /\ signers \in SUBSET Keys
    BY <1>1, <1>2, RunWritesTarget, RunOwners DEF IInv, TypeOK
  <1>4. Target(ix) = CASE ix.op = "CreateMetadata" -> MetadataPda(mm)
                       [] ix.op = "CreateAttributes" -> AttributesPda(mm)
                       [] OTHER -> mm
    BY <1>2 DEF Target
  <1>5. ASSUME bank'[m].data = bank[m].data
        PROVE  /\ HoldsMint(bank', m) <=> HoldsMint(bank, m)
               /\ HoldsMint(bank', m) => CreationAuthority(bank', m) \in Payers
    BY <1>5 DEF Owned, HoldsMint, CreationAuthority
  <1>6. ASSUME bank'[MetadataPda(m)].data = bank[MetadataPda(m)].data
        PROVE  MetadataExists(bank', m) => Authority(bank', m) \in Payers
    BY <1>6 DEF Owned, MetadataExists, HoldsMetadata, Authority, UpdateAuthority
  <1>7. CASE m # mm
    <2>1. Target(ix) # m /\ Target(ix) # MetadataPda(m)
      BY <1>1, <1>2, <1>4, <1>7, DerivedAddresses
    <2> QED
      BY <1>1, <1>3, <1>5, <1>6, <1>7, <2>1 DEF Owned, Initialised
  <1>8. CASE m = mm /\ ix.op \in {"CreateMintAccount", "InitializeMint2"}
    <2>1. MetadataExists(bank', m) => Authority(bank', m) \in Payers
      BY <1>1, <1>3, <1>4, <1>6, <1>8
    <2>2. CASE ix.op = "CreateMintAccount"
      <3>1. bank' = CreateMintAccountEffect(bank, ix)
        BY <2>2, RunPasses
      <3>2. Wrote(bank, bank', ix.mint, [kind |-> "zeroed", len |-> MINT_LEN])
        BY <1>2, <1>3, <2>2, <3>1, OthersWrite
      <3>3. ~HoldsMint(bank', m)
        BY <1>2, <1>8, <3>2 DEF Wrote, HoldsMint
      <3> QED
        BY <1>2, <1>8, <2>1, <2>2, <3>3 DEF Owned
    <2>3. CASE ix.op = "InitializeMint2"
      <3>1. bank' = InitializeMint2Effect(bank, ix)
        BY <2>3, RunPasses
      <3>2. Wrote(bank, bank', ix.mint,
                  [kind |-> "mint", mint_authority |-> ix.mint_authority,
                   freeze_authority |-> ix.freeze_authority])
        BY <1>2, <1>3, <2>3, <3>1, OthersWrite
      <3>3. HoldsMint(bank', m) /\ bank'[m].data.mint_authority = Script[s].payer
        BY <1>2, <1>8, <2>3, <3>2 DEF Wrote, HoldsMint
      <3>4. CreationAuthority(bank', m) \in Payers
        BY <1>1, <3>3 DEF CreationAuthority
      <3> QED
        BY <1>8, <2>1, <3>3, <3>4 DEF Owned, Initialised
    <2> QED
      BY <1>8, <2>2, <2>3
  <1>9. CASE m = mm /\ ix.op = "CreateMetadata"
    <2>1. bank'[m].data = bank[m].data
      BY <1>1, <1>3, <1>4, <1>9
    <2>2. /\ Passes(CreateMetadataChecks(bank, signers, ix))
          /\ bank' = CreateMetadataEffect(bank, ix)
      BY <1>9, RunPasses
    <2>3. HoldsMint(bank, m)
      BY <1>2, <1>9, <2>2, CreateMetadataGuards
    <2>4. Wrote(bank, bank', MetadataPda(ix.mint), NewMetadata(bank, ix))
      BY <1>2, <1>3, <1>9, <2>2, CreateMetadataWrites DEF Sent
    <2>5. bank'[MetadataPda(m)].data = NewMetadata(bank, ix)
      BY <1>2, <1>9, <2>4 DEF Wrote
    <2>6. Authority(bank', m) = CreationAuthority(bank, m)
      BY <1>2, <1>9, <2>5 DEF NewMetadata, HoldsMetadata, Authority, UpdateAuthority
    <2> QED
      BY <1>5, <1>9, <2>1, <2>3, <2>6 DEF Owned, Initialised
  <1>10. CASE m = mm /\ ix.op = "CreateAttributes"
    <2>1. /\ bank'[m].data = bank[m].data
          /\ bank'[MetadataPda(m)].data = bank[MetadataPda(m)].data
      BY <1>1, <1>3, <1>4, <1>10, DerivedAddresses
    <2>2. Passes(CreateAttributesChecks(bank, signers, ix)) /\ ix.metadata \in Address
      BY <1>2, <1>10, RunPasses, InstructionTypes
    <2>3. HoldsMetadata(bank, ix.metadata) /\ bank[ix.metadata].data.mint = m
      BY <1>2, <1>10, <2>2, CreateAttributesGuards DEF MetadataIsOfMint
    <2>4. MetadataExists(bank, m)
      BY <2>2, <2>3, MetadataInPlace DEF IInv, MetadataExists
    <2>5. HoldsMint(bank, m)
      BY <1>1, <2>4 DEF IInv, Legal, Backed
    <2> QED
      BY <1>5, <1>6, <1>10, <2>1, <2>5 DEF Owned, Initialised
  <1> QED
    BY <1>2, <1>7, <1>8, <1>9, <1>10

-----------------------------------------------------------------------------
(* Scripts have tokens of their own *)

\* A script that has generated its mint keeps it.
LEMMA MintsStay ==
    ASSUME ScriptTypes, [ScriptsNext]_scriptVars, NEW s \in Scripts, mint[s] # NoMint
    PROVE  mint'[s] = mint[s]
  <1>1. ASSUME NEW r \in Scripts, Generate(r) PROVE mint'[s] = mint[s]
    <2>1. r # s
      BY <1>1 DEF Generate, Moves, ScriptTypes
    <2> QED
      BY <1>1, <2>1 DEF Generate, ScriptTypes
  <1>2. ASSUME NEW r \in Scripts,
               \/ Send(r) \/ SendFails(r) \/ Continue(r) \/ Bail(r)
               \/ Read(r) \/ ReadFails(r) \/ Verify(r)
        PROVE  mint' = mint
    BY <1>2 DEF Send, SendFails, Continue, Bail, Read, ReadFails, Verify
  <1> QED
    BY <1>1, <1>2 DEF ScriptsNext, scriptVars, scripts

LEMMA ForeseenStays ==
    ASSUME ScriptTypes, [ScriptsNext]_scriptVars, NEW t, Foreseen(t)
    PROVE  Foreseen(t)'
  <1>1. NoMint \notin Fresh
    BY FreshAssumption
  <1> QED
    BY <1>1, MintsStay DEF Foreseen

\* What the node does when a script or another client makes a step.
LEMMA NodeActs ==
    ASSUME ScriptTypes, [ScriptsNext]_scriptVars
    PROVE  \/ \E t \in Transactions : Foreseen(t) /\ Receive(t)
           \/ \E tx \in pending : Start(tx)
           \/ Advance
           \/ Finish
           \/ UNCHANGED nodeVars
  <1>1. ASSUME NEW s \in Scripts, Send(s) \/ SendFails(s)
        PROVE  \/ \E t \in Transactions : Foreseen(t) /\ Receive(t)
               \/ UNCHANGED nodeVars
    <2>1. stage[s] # "idle"
      BY <1>1 DEF Send, SendFails, Moves
    <2>2. /\ mint[s] \in Fresh /\ step[s] \in DOMAIN Sequence(s, mint[s])
          /\ Current(s) \in Transactions
      BY <2>1, CurrentIsTransaction
    <2>3. Foreseen(Current(s))
      BY <2>2 DEF Foreseen, Current, ToSet
    <2> QED
      BY <1>1, <2>2, <2>3 DEF Send, SendFails
  <1>2. ASSUME NEW s \in Scripts,
               \/ Generate(s) \/ Continue(s) \/ Bail(s)
               \/ Read(s) \/ ReadFails(s) \/ Verify(s)
        PROVE  UNCHANGED nodeVars
    BY <1>2 DEF Generate, Continue, Bail, Read, ReadFails, Verify
  <1>3. ASSUME NEW t \in Others, Receive(t)
        PROVE  \E u \in Transactions : Foreseen(u) /\ Receive(u)
    BY <1>3 DEF Others, Foreseen
  <1> QED
    BY <1>1, <1>2, <1>3 DEF ScriptsNext, scriptVars, Work

LEMMA HeldForeseen ==
    ASSUME NodeTypeOK, ScriptTypes, [ScriptsNext]_scriptVars, \A t \in Held : Foreseen(t)
    PROVE  \A t \in Held' : Foreseen(t)'
  <1>1. ASSUME NEW t, Foreseen(t), Receive(t) PROVE Held' \subseteq Held \cup {t}
    BY <1>1 DEF Receive, Held
  <1>2. ASSUME NEW tx \in pending, Start(tx) PROVE Held' \subseteq Held
    BY <1>2 DEF Start, Held
  <1>3. ASSUME Advance PROVE Held' \subseteq Held
    BY <1>3 DEF Advance, Held
  <1>4. ASSUME Finish PROVE Held' \subseteq Held
    <2>1. /\ running \in Transactions /\ running # NoTx /\ running' = NoTx
          /\ committed' = Append(committed, running) /\ committed \in Seq(Transactions)
          /\ pending' = pending
      BY <1>4 DEF Finish, NodeTypeOK
    <2>2. \A i \in DOMAIN committed' : committed'[i] \in ToSet(committed) \cup {running}
      BY <2>1 DEF ToSet
    <2>3. ToSet(committed') \subseteq ToSet(committed) \cup {running}
      BY <2>2 DEF ToSet
    <2> QED
      BY <2>1, <2>3 DEF Held
  <1>5. ASSUME UNCHANGED nodeVars PROVE Held' = Held
    BY <1>5 DEF nodeVars, node, Held
  <1> QED
    BY <1>1, <1>2, <1>3, <1>4, <1>5, NodeActs, ForeseenStays

LEMMA ApartInit == ScriptsInit => SequencesApart
  <1> SUFFICES ASSUME ScriptsInit PROVE SequencesApart
    OBVIOUS
  <1>1. ScriptTypes
    BY ScriptTypesInit
  <1>2. pending = {} /\ committed = <<>> /\ running = NoTx
    BY DEF ScriptsInit, NodeInit
  <1>3. Held = {}
    BY <1>2 DEF Held, ToSet
  <1>4. \A s \in Scripts : mint[s] = NoMint
    BY DEF ScriptsInit
  <1> QED
    BY <1>1, <1>3, <1>4 DEF ScriptTypes, SequencesApart

LEMMA ApartNext ==
    ASSUME NodeTypeOK, ScriptTypes, SequencesApart, [ScriptsNext]_scriptVars
    PROVE  SequencesApart'
  <1>1. ScriptTypes'
    BY ScriptTypesNext
  <1>2. ASSUME NEW r \in Scripts, NEW s \in Scripts, mint'[r] = mint'[s], mint'[s] # NoMint
        PROVE  r = s
    <2>1. ASSUME NEW q \in Scripts, Generate(q) PROVE r = s
      <3>1. PICK m \in Fresh \ {mint[p] : p \in Scripts} : mint' = [mint EXCEPT ![q] = m]
        BY <2>1 DEF Generate
      <3> QED
        BY <1>2, <3>1 DEF ScriptTypes, SequencesApart
    <2>2. ASSUME NEW q \in Scripts,
                 \/ Send(q) \/ SendFails(q) \/ Continue(q) \/ Bail(q)
                 \/ Read(q) \/ ReadFails(q) \/ Verify(q)
          PROVE  mint' = mint
      BY <2>2 DEF Send, SendFails, Continue, Bail, Read, ReadFails, Verify
    <2>3. mint' = mint => r = s
      BY <1>2 DEF SequencesApart
    <2> QED
      BY <2>1, <2>2, <2>3 DEF ScriptsNext, scriptVars, scripts
  <1>3. \A t \in Held' : Foreseen(t)'
    BY HeldForeseen DEF SequencesApart
  <1> QED
    BY <1>1, <1>2, <1>3 DEF ScriptTypes, SequencesApart

-----------------------------------------------------------------------------
(* Tokens of scripts stay theirs *)

LEMMA TokensInit == ScriptsInit => TokensOwned /\ OthersWriteNothing
  <1> SUFFICES ASSUME ScriptsInit PROVE TokensOwned /\ OthersWriteNothing
    OBVIOUS
  <1>1. committed = <<>> /\ running = NoTx /\ bank = ledger
    BY DEF ScriptsInit, NodeInit, Init
  <1>2. ASSUME NEW a \in Address PROVE ledger[a].owner = SystemProgram /\ ledger[a].data = Empty
    BY DEF ScriptsInit, NodeInit, Init, Vacant
  <1>3. ASSUME NEW m \in Fresh PROVE Owned(ledger, m) /\ Initialised(ledger, m)
    <2>1. m \in Address /\ MetadataPda(m) \in Address
      BY FreshAssumption, DerivedAddresses
    <2>2. ~HoldsMint(ledger, m) /\ ~MetadataExists(ledger, m)
      BY <1>2, <2>1 DEF HoldsMint, MetadataExists, HoldsMetadata, Empty
    <2> QED
      BY <1>2, <2>1, <2>2, KeyAssumption DEF Owned, Initialised
  <1>4. running \notin Others /\ ToSet(committed) = {}
    BY <1>1, TransactionsAssumption DEF Others, ToSet
  <1> QED
    BY <1>1, <1>3, <1>4 DEF TokensOwned, OthersWriteNothing

\* A mint that is half made is that of the running transaction of a script.
LEMMA HalfMadeRuns ==
    ASSUME NEW m \in Fresh, HalfMade(m)
    PROVE  /\ executed = 1 /\ running \notin Others /\ running # NoTx
           /\ Len(running.instructions) > 1
           /\ \A j \in DOMAIN running.instructions : running.instructions[j].mint = m
  <1>1. PICK s \in Scripts : mint[s] = m /\ running = Sequence(s, m)[1]
    BY DEF HalfMade
  <1>2. m \in Mints /\ 1 \in DOMAIN Sequence(s, m)
    BY Sequences, ScriptAssumption, FreshAssumption
  <1>3. /\ running \in Transactions /\ Len(running.instructions) > 1
        /\ \A j \in DOMAIN running.instructions : running.instructions[j].mint = m
    BY <1>1, <1>2, ScriptInstructions
  <1>4. running \in ToSet(Sequence(s, m))
    BY <1>1, <1>2 DEF ToSet
  <1>5. running \notin Others
    BY <1>2, <1>4 DEF Others
  <1> QED
    BY <1>3, <1>5, TransactionsAssumption DEF HalfMade

\* The instruction the running transaction executes next.
LEMMA AdvanceOwned ==
    ASSUME IInv, NodeTypeOK, ScriptTypes, SequencesApart, TokensOwned, OthersWriteNothing,
           [ScriptsNext]_scriptVars, Advance, outcome' \notin Errors
    PROVE  /\ \A m \in Fresh : Owned(bank', m) /\ (Initialised(bank', m) \/ HalfMade(m)')
           /\ OthersWriteNothing'
  <1> DEFINE ix == running.instructions[executed + 1]
  <1>1. /\ running \in Transactions /\ running # NoTx /\ executed \in Nat
        /\ executed < Len(running.instructions) /\ Run(ix)
        /\ running' = IF outcome' = "open" THEN running ELSE NoTx
        /\ committed' = committed /\ signers = running.signers
    BY MaxInstructionsAssumption DEF Advance, NodeTypeOK, IInv, TypeOK
  <1>2. /\ ix \in Instructions
        /\ executed + 1 \in DOMAIN running.instructions
    <2>1. running.instructions \in Seq(Instructions)
      BY <1>1, TransactionsAssumption
    <2> QED
      BY <1>1, <2>1
  <1>3. /\ outcome' = "open" /\ executed' = executed + 1
        /\ running' = running
    BY <1>1, RunEnds DEF Open
  <1>4. Foreseen(running)
    BY <1>1 DEF SequencesApart, Held
  <1> HIDE DEF ix
  <1>5. CASE running \in Others
    <2>1. signers \cap (Fresh \cup Payers) = {}
      BY <1>1, <1>5, OthersAssumption
    <2>2. ASSUME NEW m \in Fresh PROVE Owned(bank', m) /\ Initialised(bank', m)
      <3>1. Owned(bank, m) /\ Initialised(bank, m)
        BY <1>5, HalfMadeRuns DEF TokensOwned
      <3> QED
        BY <1>1, <1>2, <2>1, <3>1, ForeignRun
    <2>3. ASSUME NEW m \in Fresh, NEW part \in TokenPart
          PROVE  LastIn(running.instructions, executed + 1, m, part) = {}
      <3>1. Written(ix, m, part) = {}
        BY <1>1, <1>2, <2>1, ForeignWritesNothing DEF TokensOwned
      <3>2. LastIn(running.instructions, executed, m, part) = {}
        BY <1>5 DEF OthersWriteNothing
      <3> QED
        BY <1>1, <3>1, <3>2, LastInNext DEF ix
    <2> QED
      BY <1>1, <1>3, <2>2, <2>3 DEF OthersWriteNothing
  <1>6. CASE running \notin Others
    <2>1. PICK s \in Scripts : mint[s] \in Fresh /\ running \in ToSet(Sequence(s, mint[s]))
      BY <1>4, <1>6 DEF Foreseen
    <2>2. PICK k \in DOMAIN Sequence(s, mint[s]) : running = Sequence(s, mint[s])[k]
      BY <2>1 DEF ToSet
    <2>3. mint[s] \in Mints /\ mint'[s] = mint[s]
      BY <2>1, FreshAssumption, MintsStay
    <2>4. ix.mint = mint[s]
      BY <1>2, <2>2, <2>3, ScriptInstructions DEF ix
    <2>5. ASSUME NEW m \in Fresh PROVE Owned(bank', m) /\ (Initialised(bank', m) \/ HalfMade(m)')
      <3>1. /\ Owned(bank', m)
            /\ m # mint[s] => (Initialised(bank', m) <=> Initialised(bank, m))
            /\ m = mint[s] => Initialised(bank', m) \/ (k = 1 /\ executed + 1 = 1)
        BY <1>1, <1>2, <2>1, <2>2, OwnRun DEF TokensOwned, ix
      <3>2. CASE m # mint[s]
        <4>1. ~HalfMade(m)
          BY <1>2, <2>4, <3>2, HalfMadeRuns DEF ix
        <4> QED
          BY <3>1, <3>2, <4>1 DEF TokensOwned
      <3>3. CASE m = mint[s] /\ k = 1 /\ executed + 1 = 1
        <4>1. HalfMade(m)'
          BY <1>3, <2>2, <2>3, <3>3 DEF HalfMade
        <4> QED
          BY <3>1, <4>1
      <3> QED
        BY <3>1, <3>2, <3>3
    <2>6. OthersWriteNothing'
      BY <1>1, <1>3, <1>6 DEF OthersWriteNothing
    <2> QED
      BY <2>5, <2>6
  <1> QED
    BY <1>5, <1>6

LEMMA TokensNext ==
    ASSUME IInv, NodeTypeOK, ScriptTypes, SequencesApart, TokensOwned, OthersWriteNothing,
           [ScriptsNext]_scriptVars
    PROVE  TokensOwned' /\ OthersWriteNothing'
  <1>1. NoTx \notin Others
    BY TransactionsAssumption DEF Others
  <1>2. ASSUME ledger' = ledger, bank' = bank, running' = running, executed' = executed,
               committed' = committed
        PROVE  TokensOwned' /\ OthersWriteNothing'
    <2>1. ASSUME NEW m \in Fresh, HalfMade(m) PROVE HalfMade(m)'
      BY <1>2, <2>1, MintsStay, FreshAssumption DEF HalfMade
    <2> QED
      BY <1>2, <2>1 DEF TokensOwned, OthersWriteNothing
  <1>3. ASSUME ledger' = ledger, bank' = ledger
        PROVE  TokensOwned'
    BY <1>3 DEF TokensOwned
  <1>4. ASSUME NEW t, Receive(t) PROVE TokensOwned' /\ OthersWriteNothing'
    BY <1>2, <1>4 DEF Receive, vars
  <1>5. ASSUME NEW tx \in pending, Start(tx) PROVE TokensOwned' /\ OthersWriteNothing'
    <2>1. /\ running' = tx /\ committed' = committed /\ ledger' = ledger
          /\ bank' = ledger /\ executed' = 0
      BY <1>5 DEF Start, Begin, IInv
    <2>2. \A m, part : LastIn(tx.instructions, 0, m, part) = {}
      BY LastOfNext DEF LastIn
    <2> QED
      BY <1>3, <2>1, <2>2 DEF OthersWriteNothing
  <1>6. ASSUME Advance PROVE TokensOwned' /\ OthersWriteNothing'
    <2>1. /\ running \in Transactions /\ executed \in Nat
          /\ Run(running.instructions[executed + 1])
          /\ running' = IF outcome' = "open" THEN running ELSE NoTx
          /\ committed' = committed
      BY <1>6, MaxInstructionsAssumption DEF Advance, NodeTypeOK, IInv, TypeOK
    <2>2. /\ ledger' = ledger
          /\ outcome' \in Errors => bank' = ledger /\ running' = NoTx
      BY <2>1, RunEnds DEF Open, Errors
    <2>3. CASE outcome' \in Errors
      BY <1>1, <1>3, <2>1, <2>2, <2>3 DEF OthersWriteNothing
    <2>4. CASE outcome' \notin Errors
      BY <1>6, <2>2, <2>4, AdvanceOwned DEF TokensOwned
    <2> QED
      BY <2>3, <2>4
  <1>7. ASSUME Finish PROVE TokensOwned' /\ OthersWriteNothing'
    <2>1. /\ running \in Transactions /\ running' = NoTx
          /\ executed = Len(running.instructions)
          /\ committed' = Append(committed, running) /\ committed \in Seq(Transactions)
          /\ ledger' = bank /\ bank' = bank
      BY <1>7 DEF Finish, NodeTypeOK, Commit
    <2>2. ASSUME NEW m \in Fresh PROVE Initialised(bank, m)
      <3>1. HalfMade(m) => executed = 1 /\ executed > 1
        BY <2>1, HalfMadeRuns
      <3> QED
        BY <3>1 DEF TokensOwned
    <2>3. \A i \in DOMAIN committed' : committed'[i] \in ToSet(committed) \cup {running}
      BY <2>1 DEF ToSet
    <2>4. ToSet(committed') \subseteq ToSet(committed) \cup {running}
      BY <2>3 DEF ToSet
    <2>5. ASSUME NEW m \in Fresh, NEW part \in TokenPart, running \in Others
          PROVE  WrittenBy(running, m, part) = {}
      BY <2>1, <2>5 DEF OthersWriteNothing, WrittenBy
    <2> QED
      BY <1>1, <2>1, <2>2, <2>4, <2>5 DEF TokensOwned, OthersWriteNothing
  <1>8. ASSUME UNCHANGED nodeVars PROVE TokensOwned' /\ OthersWriteNothing'
    BY <1>2, <1>8 DEF nodeVars, vars, node
  <1> QED
    BY <1>4, <1>5, <1>6, <1>7, <1>8, NodeActs

-----------------------------------------------------------------------------
(* What the log says of a script's token *)

\* What a script asks for, and nothing else, once its last transaction is committed.
LEMMA TokenWritten ==
    ASSUME NodeTypeOK, SequencesApart, OthersWriteNothing, NEW s \in Scripts,
           mint[s] \in Fresh, NEW part \in TokenPart
    PROVE  LastWritten(committed, mint[s], part) =
              IF Status(FinalOf(s, mint[s])) = "Processed" THEN Asked(s, part) ELSE {}
  <1> DEFINE m == mint[s]
             last == FinalOf(s, m)
  <1>1. m \in Mints /\ Len(Sequence(s, m)) \in DOMAIN Sequence(s, m)
    BY Sequences, ScriptAssumption, FreshAssumption
  <1>2. WrittenBy(last, m, part) = Asked(s, part)
    BY <1>1, SequenceWrites DEF FinalOf
  <1>3. committed \in Seq(Transactions)
    BY DEF NodeTypeOK
  <1>4. ASSUME NEW i \in DOMAIN committed, committed[i] # last
        PROVE  WrittenBy(committed[i], m, part) = {}
    <2>1. committed[i] \in Transactions /\ committed[i] \in ToSet(committed)
      BY <1>3 DEF ToSet
    <2>2. committed[i] # NoTx
      BY <2>1, TransactionsAssumption
    <2>3. Foreseen(committed[i])
      BY <2>1, <2>2 DEF SequencesApart, Held
    <2>4. CASE committed[i] \in Others
      BY <2>1, <2>4 DEF OthersWriteNothing
    <2>5. CASE committed[i] \notin Others
      <3>1. PICK r \in Scripts : mint[r] \in Fresh /\ committed[i] \in ToSet(Sequence(r, mint[r]))
        BY <2>3, <2>5 DEF Foreseen
      <3>2. PICK k \in DOMAIN Sequence(r, mint[r]) : committed[i] = Sequence(r, mint[r])[k]
        BY <3>1 DEF ToSet
      <3>3. mint[r] \in Mints /\ mint[r] # NoMint
        BY <3>1, FreshAssumption
      <3>4. ~(m = mint[r] /\ k = Len(Sequence(r, mint[r])))
        <4>1. m = mint[r] => r = s
          BY <3>3 DEF SequencesApart
        <4> QED
          BY <1>4, <3>2, <4>1 DEF FinalOf
      <3> QED
        BY <3>2, <3>3, <3>4, SequenceWrites
    <2> QED
      BY <2>4, <2>5
  <1> HIDE DEF m, last
  <1>5. CASE \E i \in DOMAIN committed : committed[i] = last
    <2>1. PICK i \in DOMAIN committed : committed[i] = last
      BY <1>5
    <2>2. \A j \in DOMAIN committed : j # i => committed[j] # last
      BY <2>1 DEF NodeTypeOK
    <2>3. \A j \in DOMAIN committed : j # i => WrittenBy(committed[j], m, part) = {}
      BY <1>4, <2>2
    <2>4. LastWritten(committed, m, part) = WrittenBy(committed[i], m, part)
      BY <1>3, <2>3, LastWrittenOnce
    <2>5. Status(last) = "Processed"
      BY <1>5 DEF Status
    <2> QED
      BY <1>2, <2>1, <2>4, <2>5 DEF m, last
  <1>6. CASE ~\E i \in DOMAIN committed : committed[i] = last
    <2>1. \A i \in DOMAIN committed : WrittenBy(committed[i], m, part) = {}
      BY <1>4, <1>6
    <2>2. LastWritten(committed, m, part) = {}
      BY <1>3, <2>1, LastWrittenOnce
    <2>3. Status(last) # "Processed"
      BY <1>6 DEF Status
    <2> QED
      BY <2>2, <2>3 DEF m, last
  <1> QED
    BY <1>5, <1>6

\* The parts that tell whether metadata and attributes are there.
LEMMA ExistenceShown ==
    ASSUME NEW m \in Mints
    PROVE  /\ MetadataExists(ledger, m) <=>
                ValueIn(ledger[Holder(m, "name")].data, "name") # {}
           /\ AttributesExist(ledger, m) <=>
                ValueIn(ledger[Holder(m, "attributes")].data, "attributes") # {}
  BY DEF MetadataExists, HoldsMetadata, AttributesExist, HoldsAttributes, ValueIn, Holder,
         MintPart, Field

\* What makes the tokens of scripts whole, and scripts find them so.
TokensIInv == ScriptTypes /\ SequencesApart /\ TokensOwned /\ OthersWriteNothing

LEMMA WholeTokens ==
    ASSUME NodeTypeOK, LastWriteStands, TokensIInv
    PROVE  TokensWhole
  <1> SUFFICES ASSUME NEW s \in Scripts, mint[s] # NoMint
               PROVE  LET whole == Status(FinalOf(s, mint[s])) = "Processed"
                      IN  /\ MetadataExists(ledger, mint[s]) <=> whole
                          /\ AttributesExist(ledger, mint[s])
                                <=> whole /\ Script[s].kind = "tour"
    BY DEF TokensWhole, FinalOf
  <1>1. mint[s] \in Fresh /\ mint[s] \in Mints
    BY FreshAssumption DEF TokensIInv, ScriptTypes
  <1>2. "name" \in TokenPart /\ "attributes" \in TokenPart
    BY DEF TokenPart, MetadataPart, Field
  <1>3. Asked(s, "name") # {} /\ (Asked(s, "attributes") # {} <=> Script[s].kind = "tour")
    BY DEF Asked, Field
  <1>4. ASSUME NEW part \in TokenPart
        PROVE  ValueIn(ledger[Holder(mint[s], part)].data, part) =
                  IF Status(FinalOf(s, mint[s])) = "Processed" THEN Asked(s, part) ELSE {}
    BY <1>1, <1>4, TokenWritten, TokenParts DEF LastWriteStands, TokensIInv
  <1> QED
    BY <1>1, <1>2, <1>3, <1>4, ExistenceShown

LEMMA TokensInvariant == ScriptsSpec => [](IInv /\ NodeTypeOK /\ LastWriteStands /\ TokensIInv)
  <1>1. ScriptsInit => TokensIInv
    BY ScriptTypesInit, ApartInit, TokensInit DEF TokensIInv
  <1>2. IInv /\ NodeTypeOK /\ TokensIInv /\ [ScriptsNext]_scriptVars => TokensIInv'
    BY ScriptTypesNext, ApartNext, TokensNext DEF TokensIInv
  <1>3. ScriptsSpec => [](IInv /\ NodeTypeOK) /\ []LastWriteStands
    BY ScriptsImplementNodeClient, NodeInvariants, LastCommittedWriteStands, PTL
  <1> QED
    BY <1>1, <1>2, <1>3, PTL DEF ScriptsSpec

\* Of any scripts, beside any clients with keys of their own, a token is there whole or not
\* at all: its metadata exists exactly when the script's last transaction is committed,
\* and for a tour its attributes with it.
THEOREM TokensAreWhole == ScriptsSpec => []TokensWhole
  <1>1. NodeTypeOK /\ LastWriteStands /\ TokensIInv => TokensWhole
    BY WholeTokens
  <1> QED
    BY <1>1, TokensInvariant, PTL

-----------------------------------------------------------------------------
(* Scripts find what they asked for *)

\* What has been read back is the data of accounts, or nothing.
FoundTypes == found \in [Scripts -> Seq(AccountData \cup {Absent})]

LEMMA ScriptText ==
    ASSUME NEW s \in Scripts, NEW m \in Mints
    PROVE  Script[s].text \in [Field -> Text]
  <1> DEFINE c == Script[s]
             create == create_metadata_ix(c.payer, m, c.payer, c.text, FALSE)
  <1>1. create.op = "CreateMetadata" /\ create.text = c.text
    BY DEF create_metadata_ix
  <1>2. CASE c.kind = "tour"
    <2>1. 1 \in DOMAIN Sequence(s, m)
      BY <1>2, Sequences
    <2>2. Sequence(s, m)[1].instructions = tour_instructions(c.payer, m, c.text, c.entries)
      BY <1>2, <2>1, Sequences DEF Steps
    <2>3. /\ 3 \in DOMAIN Sequence(s, m)[1].instructions
          /\ Sequence(s, m)[1].instructions[3] = create
      BY <2>2 DEF tour_instructions
    <2>4. \A j \in DOMAIN Sequence(s, m)[1].instructions :
            Sequence(s, m)[1].instructions[j] \in Instructions
      BY <2>1, ScriptInstructions
    <2> QED
      BY <1>1, <2>3, <2>4, InstructionTypes
  <1>3. CASE c.kind = "test"
    <2>1. 2 \in DOMAIN Sequence(s, m)
      BY <1>3, Sequences
    <2>2. Steps(s, m, 2) = <<create>>
      BY <1>3 DEF Steps, build_create_metadata_ix
    <2>3. Sequence(s, m)[2].instructions = <<create>>
      BY <2>1, <2>2, Sequences
    <2>4. 1 \in DOMAIN Sequence(s, m)[2].instructions /\ Sequence(s, m)[2].instructions[1] = create
      BY <2>3
    <2>5. \A j \in DOMAIN Sequence(s, m)[2].instructions :
            Sequence(s, m)[2].instructions[j] \in Instructions
      BY <2>1, ScriptInstructions
    <2> QED
      BY <1>1, <2>4, <2>5, InstructionTypes
  <1> QED
    BY <1>2, <1>3, ScriptAssumption

LEMMA ReadAddresses ==
    ASSUME ScriptTypes, NEW s \in Scripts, stage[s] # "idle"
    PROVE  /\ Len(ReadsOf(s)) = IF Script[s].kind = "tour" THEN 2 ELSE 1
           /\ ReadsOf(s)[1] = MetadataPda(mint[s])
           /\ Script[s].kind = "tour" => ReadsOf(s)[2] = AttributesPda(mint[s])
           /\ \A j \in 1..Len(ReadsOf(s)) :
                 ReadsOf(s)[j] \in Address /\ (j = 1 \/ (Script[s].kind = "tour" /\ j = 2))
  <1>1. MetadataPda(mint[s]) \in Address /\ AttributesPda(mint[s]) \in Address
    BY CurrentIsTransaction, DerivedAddresses
  <1>2. CASE Script[s].kind = "tour"
    <2>1. ReadsOf(s) = <<MetadataPda(mint[s]), AttributesPda(mint[s])>>
      BY <1>2 DEF ReadsOf
    <2>2. /\ Len(ReadsOf(s)) = 2 /\ ReadsOf(s)[1] = MetadataPda(mint[s])
          /\ ReadsOf(s)[2] = AttributesPda(mint[s])
      BY <2>1
    <2>3. \A j \in 1..2 : j = 1 \/ j = 2
      OBVIOUS
    <2>4. \A j \in 1..2 : ReadsOf(s)[j] \in Address
      BY <1>1, <2>2, <2>3
    <2> QED
      BY <1>2, <2>2, <2>3, <2>4
  <1>3. CASE Script[s].kind # "tour"
    <2>1. ReadsOf(s) = <<MetadataPda(mint[s])>>
      BY <1>3 DEF ReadsOf
    <2>2. Len(ReadsOf(s)) = 1 /\ ReadsOf(s)[1] = MetadataPda(mint[s])
      BY <2>1
    <2>3. \A j \in 1..1 : j = 1
      OBVIOUS
    <2>4. \A j \in 1..1 : ReadsOf(s)[j] \in Address
      BY <1>1, <2>2, <2>3
    <2> QED
      BY <1>3, <2>2, <2>3, <2>4
  <1> QED
    BY <1>2, <1>3

\* Once a script's last transaction is committed, its token's accounts hold what it asked for.
LEMMA ReadIsAsked ==
    ASSUME IInv, NodeTypeOK, LastWriteStands, TokensIInv, NEW s \in Scripts, stage[s] # "idle",
           Status(FinalOf(s, mint[s])) = "Processed"
    PROVE  LET md == ledger[MetadataPda(mint[s])]
               at == ledger[AttributesPda(mint[s])]
           IN  /\ md.owner = MetadataProgram
               /\ md.data.mint = mint[s] /\ md.data.text = Script[s].text
               /\ Script[s].kind = "tour" =>
                     at.owner = MetadataProgram /\ at.data.entries = Script[s].entries
  <1> DEFINE m == mint[s]
             md == ledger[MetadataPda(m)]
             at == ledger[AttributesPda(m)]
  <1>1. /\ m \in Fresh /\ m \in Mints
        /\ MetadataPda(m) \in Address /\ AttributesPda(m) \in Address /\ m # NoMint
    BY CurrentIsTransaction, DerivedAddresses, FreshAssumption DEF TokensIInv
  <1>2. TokensWhole
    BY WholeTokens
  <1>3. /\ MetadataExists(ledger, m)
        /\ Script[s].kind = "tour" => AttributesExist(ledger, m)
    BY <1>1, <1>2 DEF TokensWhole, FinalOf
  <1>4. md.data.kind = "metadata" /\ HoldsMetadata(ledger, MetadataPda(m))
    BY <1>3 DEF MetadataExists, HoldsMetadata
  <1>5. md.owner = MetadataProgram
    BY <1>1, <1>4 DEF IInv, Legal, Complete
  <1>6. md.data \in TokenMetadata /\ MetadataPda(m) = MetadataPda(md.data.mint)
    BY <1>1, <1>4, MetadataInPlace DEF IInv
  <1>7. md.data.mint = m
    BY <1>6, DerivedAddresses
  <1>8. ASSUME NEW part \in TokenPart
        PROVE  ValueIn(ledger[Holder(m, part)].data, part) = Asked(s, part)
    BY <1>1, <1>8, TokenWritten, TokenParts DEF LastWriteStands, TokensIInv
  <1>9. md.data.text = Script[s].text
    <2>1. md.data.text \in [Field -> Text] /\ Script[s].text \in [Field -> Text]
      BY <1>1, <1>6, ScriptText DEF TokenMetadata
    <2>2. ASSUME NEW f \in Field PROVE md.data.text[f] = Script[s].text[f]
      <3>1. f \in TokenPart /\ f \notin MintPart /\ f # "attributes" /\ f # "update_authority"
        BY DEF TokenPart, MetadataPart, MintPart, Field
      <3>2. Holder(m, f) = MetadataPda(m)
        BY <3>1 DEF Holder
      <3> DEFINE data == md.data
      <3>3. data.kind = "metadata"
        BY <1>4
      <3> HIDE DEF data
      <3>4. ValueIn(data, f) = {data.text[f]}
        BY <3>1, <3>3 DEF ValueIn
      <3>5. Asked(s, f) = {Script[s].text[f]}
        BY <3>1 DEF Asked
      <3>6. ValueIn(data, f) = Asked(s, f)
        BY <1>8, <3>1, <3>2 DEF data
      <3>7. {data.text[f]} = {Script[s].text[f]}
        BY <3>4, <3>5, <3>6
      <3> QED
        BY <3>7 DEF data
    <2> QED
      BY <2>1, <2>2
  <1>10. ASSUME Script[s].kind = "tour"
         PROVE  at.owner = MetadataProgram /\ at.data.entries = Script[s].entries
    <2>1. HoldsAttributes(ledger, AttributesPda(m)) /\ at.data.kind = "attributes"
      BY <1>3, <1>10 DEF AttributesExist, HoldsAttributes
    <2>2. at.owner = MetadataProgram
      BY <1>1, <2>1 DEF IInv, Legal, Complete
    <2>3. "attributes" \in TokenPart /\ Holder(m, "attributes") = AttributesPda(m)
      BY DEF TokenPart, MetadataPart, Holder
    <2>4. ValueIn(at.data, "attributes") = {at.data.entries}
      BY <2>1 DEF ValueIn
    <2>5. Asked(s, "attributes") = {Script[s].entries}
      BY <1>10 DEF Asked, Field
    <2>6. {at.data.entries} = {Script[s].entries}
      BY <1>8, <2>3, <2>4, <2>5
    <2> QED
      BY <2>2, <2>6
  <1> QED
    BY <1>5, <1>7, <1>9, <1>10

LEMMA FoundNext ==
    ASSUME IInv, ScriptTypes, FoundTypes, [ScriptsNext]_scriptVars
    PROVE  FoundTypes'
  <1>1. ASSUME NEW s \in Scripts, NEW x \in AccountData \cup {Absent},
               found' = [found EXCEPT ![s] = Append(@, x)]
        PROVE  FoundTypes'
    <2>1. Append(found[s], x) \in Seq(AccountData \cup {Absent})
      BY DEF FoundTypes
    <2> QED
      BY <1>1, <2>1 DEF FoundTypes
  <1>2. ASSUME NEW s \in Scripts, Read(s) PROVE FoundTypes'
    <2>1. stage[s] = "reading" /\ Len(found[s]) < Len(ReadsOf(s)) /\ Len(found[s]) \in Nat
      BY <1>2 DEF Read, Reading, FoundTypes
    <2> DEFINE n == Len(found[s]) + 1
    <2>2. n \in 1..Len(ReadsOf(s))
      BY <2>1, ReadAddresses
    <2>3. ReadsOf(s)[n] \in Address
      BY <2>1, <2>2, ReadAddresses
    <2>4. ledger[ReadsOf(s)[n]].data \in AccountData
      BY <2>3, TypedData DEF IInv, TypeOK
    <2> QED
      BY <1>1, <1>2, <2>4 DEF Read
  <1>3. ASSUME NEW s \in Scripts, ReadFails(s) PROVE FoundTypes'
    BY <1>1, <1>3 DEF ReadFails
  <1>4. ASSUME NEW s \in Scripts,
               \/ Generate(s) \/ Send(s) \/ SendFails(s) \/ Continue(s) \/ Bail(s) \/ Verify(s)
        PROVE  found' = found
    BY <1>4 DEF Generate, Send, SendFails, Continue, Bail, Verify
  <1> QED
    BY <1>2, <1>3, <1>4 DEF ScriptsNext, scriptVars, scripts, FoundTypes

\* What a script has read stays so while it does nothing, whatever the others do.
LEMMA ReadStays ==
    ASSUME NodeTypeOK, ScriptTypes, [ScriptsNext]_scriptVars, NEW s \in Scripts, ReadKept(s),
           stage'[s] = stage[s], found'[s] = found[s]
    PROVE  ReadKept(s)'
  <1>1. lost \subseteq lost'
    BY DEF ScriptsNext, scriptVars, scripts, Generate, Send, SendFails, Continue, Bail, Read,
           ReadFails, Verify
  <1>2. ToSet(committed) \subseteq ToSet(committed')
    BY ScriptStepIsNodeStep, CommittedGrows
  <1>3. ASSUME NEW tx, Status(tx) = "Processed" PROVE Status(tx)' = "Processed"
    BY <1>2, <1>3 DEF Status, ToSet
  <1>4. CASE Reached(s)
    <2>1. mint'[s] = mint[s]
      BY <1>4, MintsStay DEF Reached, ScriptTypes
    <2> QED
      BY <1>1, <1>3, <1>4, <2>1 DEF ReadKept, Reached, FoundAsAsked
  <1>5. CASE ~Reached(s)
    BY <1>5 DEF ReadKept, Reached
  <1> QED
    BY <1>4, <1>5

\* The state of one script: its reads, and what it concludes from them.
SafeScript(s) ==
    ReadKept(s) /\ stage[s] # "mismatch" /\ (stage[s] = "missing" => s \in lost)

LEMMA ScriptReads ==
    ASSUME IInv, NodeTypeOK, LastWriteStands, TokensIInv, FoundTypes, NEW s \in Scripts,
           SafeScript(s), Read(s) \/ ReadFails(s)
    PROVE  SafeScript(s)'
  <1>1. /\ found[s] \in Seq(AccountData \cup {Absent}) /\ Len(found[s]) \in Nat
        /\ DOMAIN found = Scripts
    BY DEF FoundTypes
  <1>2. PICK n \in Nat : n = Len(found[s])
    BY <1>1
  <1>3. /\ stage' = stage /\ mint' = mint /\ committed' = committed /\ failed' = failed
        /\ stage[s] = "reading" /\ n < Len(ReadsOf(s)) /\ lost \subseteq lost'
    BY <1>2 DEF Read, ReadFails, Reading, nodeVars, node
  <1>4. Reached(s) /\ Status(FinalOf(s, mint[s])) = "Processed"
    BY <1>3 DEF SafeScript, ReadKept, Reached, FinalOf
  <1>5. n + 1 \in 1..Len(ReadsOf(s)) /\ Len(ReadsOf(s)) \in Nat
    BY <1>1, <1>3, ReadAddresses DEF TokensIInv
  <1>6. PICK x : /\ found' = [found EXCEPT ![s] = Append(@, x)]
                 /\ \/ x = Absent /\ s \in lost'
                    \/ x = LET account == ledger[ReadsOf(s)[n + 1]]
                           IN  IF account.owner = MetadataProgram THEN account.data ELSE Absent
    BY <1>2 DEF Read, ReadFails
  <1>7. /\ found'[s] = Append(found[s], x) /\ DOMAIN found'[s] = 1..(n + 1)
        /\ \A j \in 1..n : found'[s][j] = found[s][j]
        /\ found'[s][n + 1] = x /\ DOMAIN found[s] = 1..n
    BY <1>1, <1>6, <1>2
  <1>8. IF x = Absent THEN s \in lost' ELSE FoundAsAsked(s, n + 1)'
    <2>1. CASE x = Absent /\ s \in lost'
      BY <2>1
    <2>2. CASE x = LET account == ledger[ReadsOf(s)[n + 1]]
                   IN  IF account.owner = MetadataProgram THEN account.data ELSE Absent
      <3> DEFINE account == ledger[ReadsOf(s)[n + 1]]
      <3>1. /\ ReadsOf(s)[n + 1] \in Address
            /\ n + 1 = 1 \/ (Script[s].kind = "tour" /\ n + 1 = 2)
            /\ ReadsOf(s)[1] = MetadataPda(mint[s])
            /\ Script[s].kind = "tour" => ReadsOf(s)[2] = AttributesPda(mint[s])
        BY <1>3, <1>5, ReadAddresses DEF TokensIInv
      <3>2. /\ account.owner = MetadataProgram
            /\ n + 1 = 1 => account.data.mint = mint[s] /\ account.data.text = Script[s].text
            /\ n + 1 # 1 => account.data.entries = Script[s].entries
        BY <1>3, <1>4, <3>1, ReadIsAsked
      <3>3. account.data \in AccountData
        BY <3>1, TypedData DEF IInv, TypeOK
      <3>4. x = account.data /\ x # Absent
        BY <2>2, <3>2, <3>3, AbsentAssumption
      <3> HIDE DEF account
      <3> QED
        BY <1>3, <1>7, <3>2, <3>4 DEF FoundAsAsked
    <2> QED
      BY <1>6, <2>1, <2>2
  <1>9. ASSUME NEW j \in 1..n
        PROVE  IF found'[s][j] = Absent THEN s \in lost' ELSE FoundAsAsked(s, j)'
    BY <1>3, <1>7, <1>9 DEF SafeScript, ReadKept, FoundAsAsked
  <1>10. \A j \in DOMAIN found'[s] :
          IF found'[s][j] = Absent THEN s \in lost' ELSE FoundAsAsked(s, j)'
    <2>1. \A j \in 1..(n + 1) : j \in 1..n \/ j = n + 1
      BY <1>1
    <2> QED
      BY <1>7, <1>8, <1>9, <2>1
  <1>11. Reached(s)' /\ Status(FinalOf(s, mint[s]))' = "Processed"
    BY <1>3, <1>4 DEF Reached, Status, FinalOf
  <1> QED
    BY <1>3, <1>10, <1>11 DEF SafeScript, ReadKept, FinalOf

LEMMA ScriptConcludes ==
    ASSUME ScriptTypes, FoundTypes, NEW s \in Scripts, SafeScript(s), Verify(s)
    PROVE  SafeScript(s)'
  <1>1. /\ found[s] \in Seq(AccountData \cup {Absent}) /\ stage[s] = "reading"
        /\ found' = found /\ mint' = mint /\ lost' = lost /\ committed' = committed
        /\ failed' = failed /\ Len(found[s]) = Len(ReadsOf(s))
        /\ stage'[s] = IF Absent \in ToSet(found[s]) THEN "missing"
                       ELSE IF AsAsked(s) THEN "verified" ELSE "mismatch"
    BY DEF Verify, Moves, FoundTypes, ScriptTypes, nodeVars, node
  <1>2. DOMAIN found[s] = 1..Len(ReadsOf(s))
    BY <1>1
  <1>3. CASE Absent \in ToSet(found[s])
    <2>1. s \in lost
      BY <1>3 DEF SafeScript, ReadKept, ToSet
    <2> QED
      BY <1>1, <1>3, <2>1 DEF SafeScript, ReadKept, Reached, FoundAsAsked, Status
  <1>4. CASE Absent \notin ToSet(found[s])
    <2>1. \A j \in DOMAIN found[s] : FoundAsAsked(s, j)
      BY <1>4 DEF SafeScript, ReadKept, ToSet
    <2>2. 1 \in DOMAIN found[s] /\ (Script[s].kind = "tour" => 2 \in DOMAIN found[s])
      BY <1>1, <1>2, ReadAddresses
    <2>3. AsAsked(s)
      BY <2>1, <2>2 DEF AsAsked, FoundAsAsked
    <2> QED
      BY <1>1, <1>4, <2>3 DEF SafeScript, ReadKept, Reached, FoundAsAsked, Status
  <1> QED
    BY <1>3, <1>4

\* A script starts to read when the transaction it is at, its last, is committed.
LEMMA ScriptContinues ==
    ASSUME ScriptTypes, NEW s \in Scripts, SafeScript(s), Continue(s)
    PROVE  SafeScript(s)'
  <1>1. /\ stage[s] = "sent" /\ found' = found /\ mint' = mint /\ lost' = lost
        /\ committed' = committed /\ failed' = failed /\ stage'[s] \in {"built", "reading"}
    BY DEF Continue, Moves, ScriptTypes, nodeVars, node
  <1>2. found[s] = <<>>
    BY <1>1 DEF SafeScript, ReadKept, Reached
  <1>3. ASSUME stage'[s] = "reading" PROVE Status(FinalOf(s, mint[s])) = "Processed"
    <2>1. mint[s] \in Mints /\ step[s] \in DOMAIN Sequence(s, mint[s])
      BY <1>1, CurrentIsTransaction
    <2>2. ~(step[s] < Len(Sequence(s, mint[s])))
      BY <1>1, <1>3 DEF Continue, Moves, ScriptTypes
    <2>3. DOMAIN Sequence(s, mint[s]) = 1..Len(Sequence(s, mint[s]))
          /\ Len(Sequence(s, mint[s])) \in Nat
      BY <2>1, Sequences, ScriptAssumption
    <2> DEFINE k == Len(Sequence(s, mint[s]))
               i == step[s]
    <2>4. i \in 1..k /\ k \in Nat /\ ~(i < k)
      BY <2>1, <2>2, <2>3
    <2> HIDE DEF i, k
    <2>5. i = k
      BY <2>4
    <2>6. Current(s) = FinalOf(s, mint[s])
      BY <2>5 DEF i, k, Current, FinalOf
    <2> QED
      BY <2>6 DEF Continue
  <1> QED
    BY <1>1, <1>2, <1>3 DEF SafeScript, ReadKept, Reached, Status, FinalOf

LEMMA ReadsNext ==
    ASSUME IInv, NodeTypeOK, LastWriteStands, TokensIInv, FoundTypes, [ScriptsNext]_scriptVars,
           NEW s \in Scripts, SafeScript(s)
    PROVE  SafeScript(s)'
  <1>1. ScriptTypes /\ lost \subseteq lost'
    BY DEF TokensIInv, ScriptsNext, scriptVars, scripts, Generate, Send, SendFails, Continue,
           Bail, Read, ReadFails, Verify
  <1>2. ASSUME stage'[s] = stage[s], found'[s] = found[s] PROVE SafeScript(s)'
    BY <1>1, <1>2, ReadStays DEF SafeScript
  <1>3. ASSUME NEW q \in Scripts, q # s,
               \/ Generate(q) \/ Send(q) \/ SendFails(q) \/ Continue(q) \/ Bail(q)
               \/ Read(q) \/ ReadFails(q) \/ Verify(q)
        PROVE  stage'[s] = stage[s] /\ found'[s] = found[s]
    BY <1>1, <1>3 DEF Generate, Send, SendFails, Continue, Bail, Read, ReadFails, Verify, Moves,
                      ScriptTypes
  <1>4. ASSUME Generate(s) \/ Send(s) \/ SendFails(s) \/ Bail(s) PROVE SafeScript(s)'
    <2>1. /\ stage[s] \in {"idle", "built", "sent"} /\ stage'[s] \in {"built", "sent", "failed"}
          /\ found' = found
      BY <1>1, <1>4 DEF Generate, Send, SendFails, Bail, Moves, ScriptTypes
    <2> QED
      BY <2>1 DEF SafeScript, ReadKept, Reached
  <1>5. ASSUME Continue(s) PROVE SafeScript(s)'
    BY <1>1, <1>5, ScriptContinues
  <1>6. ASSUME Read(s) \/ ReadFails(s) PROVE SafeScript(s)'
    BY <1>6, ScriptReads
  <1>7. ASSUME Verify(s) PROVE SafeScript(s)'
    BY <1>1, <1>7, ScriptConcludes
  <1>8. CASE UNCHANGED scripts
    BY <1>2, <1>8 DEF scripts
  <1> QED
    BY <1>2, <1>3, <1>4, <1>5, <1>6, <1>7, <1>8 DEF ScriptsNext, scriptVars

LEMMA ScriptsKept ==
    ScriptsSpec => [](NodeTypeOK /\ TokensIInv /\ ReadsKept /\ ScriptsVerify)
  <1> DEFINE Safe == \A s \in Scripts : SafeScript(s)
  <1>1. ScriptsInit => FoundTypes /\ Safe
    BY DEF ScriptsInit, FoundTypes, SafeScript, ReadKept, Reached
  <1>2. /\ IInv /\ NodeTypeOK /\ LastWriteStands /\ TokensIInv
        /\ FoundTypes /\ Safe /\ [ScriptsNext]_scriptVars
        => FoundTypes' /\ Safe'
    BY FoundNext, ReadsNext DEF TokensIInv
  <1>3. Safe <=> ReadsKept /\ ScriptsVerify
    BY DEF SafeScript, ReadsKept, ScriptsVerify
  <1> HIDE DEF Safe
  <1> QED
    BY <1>1, <1>2, <1>3, TokensInvariant, PTL DEF ScriptsSpec

\* A script that comes to read back its token finds what it asked for: it never reports a
\* difference, and reports the token as missing only when a read of its own failed, whatever
\* the other scripts and clients send in between.
THEOREM ScriptsFindTheirTokens == ScriptsSpec => []ScriptsVerify
  BY ScriptsKept, PTL

\* The invariant that the runs check of the scripts holds for any number of scripts, and
\* not only for those of the runs.
THEOREM ScriptsInvariant == ScriptsSpec => []ScriptsIInv
  <1>1. NodeTypeOK /\ TokensIInv /\ ReadsKept /\ ScriptsVerify => ScriptsIInv
    BY DEF TokensIInv, ScriptsIInv
  <1> QED
    BY <1>1, ScriptsKept, PTL
=============================================================================
