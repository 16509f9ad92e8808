--------------------------- MODULE MetadataCliProofs ---------------------------
(***************************************************************************)
(* Proofs about MetadataCli, for any number of commands: the tool only     *)
(* ever acts on the chain by sending the node transactions, so what is     *)
(* proved of the node and of the ledger holds beside it; and what a show   *)
(* prints is as recent as what others were told.                           *)
(***************************************************************************)
EXTENDS MetadataCli, MetadataNodeProofs

\* A command that has something to send has built a transaction the node knows.
CliIInv ==
    /\ DOMAIN stage = Invocations
    /\ DOMAIN tx = Invocations
    /\ \A i \in Invocations : stage[i] = "built" => tx[i] \in Transactions

LEMMA CliInitIInv == CliInit => CliIInv
  <1>1. ASSUME CliInit PROVE DOMAIN stage = Invocations /\ DOMAIN tx = Invocations
    BY <1>1 DEF CliInit
  <1>2. ASSUME CliInit, NEW i \in Invocations PROVE stage[i] # "built"
    BY <1>2 DEF CliInit
  <1> QED
    BY <1>1, <1>2 DEF CliIInv

LEMMA PreparedIsTransaction ==
    ASSUME NEW i \in Writing, ~Refused(Command[i]), NEW m \in MintsOf(i)
    PROVE  Built(i, m) \in Transactions
  BY CliAssumption DEF MintsOf

\* A step that only moves command i to a stage other than "built".
LEMMA StageMoves ==
    ASSUME CliIInv, NEW i \in Invocations, NEW to, to # "built",
           stage' = [stage EXCEPT ![i] = to], tx' = tx
    PROVE  CliIInv'
  <1>1. DOMAIN stage' = Invocations /\ DOMAIN tx' = Invocations
    BY DEF CliIInv
  <1>2. ASSUME NEW j \in Invocations, stage'[j] = "built" PROVE tx'[j] \in Transactions
    <2>1. j # i /\ stage[j] = "built"
      BY <1>2 DEF CliIInv
    <2> QED
      BY <2>1 DEF CliIInv
  <1> QED
    BY <1>1, <1>2 DEF CliIInv

LEMMA CliNextIInv ==
    ASSUME CliIInv, [CliNext]_cliVars
    PROVE  CliIInv'
  <1>1. ASSUME NEW i \in Invocations, Invoke(i) PROVE CliIInv'
    <2>1. CASE i \in Writing /\ Refuse(i)
      <3>1. stage' = [stage EXCEPT ![i] = "refused"] /\ tx' = tx
        BY <2>1 DEF Refuse, Moves
      <3> QED
        BY <3>1, StageMoves
    <2>2. CASE i \in Writing /\ Prepare(i)
      <3>1. PICK m \in MintsOf(i) : tx' = [tx EXCEPT ![i] = Built(i, m)]
        BY <2>2 DEF Prepare
      <3>2. Built(i, m) \in Transactions
        BY <2>2, PreparedIsTransaction DEF Prepare
      <3>3. stage' = [stage EXCEPT ![i] = "built"]
        BY <2>2 DEF Prepare, Moves
      <3> HIDE DEF Built
      <3> QED
        BY <3>1, <3>2, <3>3 DEF CliIInv
    <2>3. CASE BeginShow(i)
      <3>1. stage' = [stage EXCEPT ![i] = "showing"] /\ tx' = tx
        BY <2>3 DEF BeginShow, Moves
      <3> QED
        BY <3>1, StageMoves
    <2> QED
      BY <1>1, <2>1, <2>2, <2>3 DEF Invoke
  <1>2. ASSUME NEW i \in Invocations, Proceed(i) PROVE CliIInv'
    <2>1. CASE Send(i)
      <3>1. stage' = [stage EXCEPT ![i] = "sent"] /\ tx' = tx
        BY <2>1 DEF Send, Moves
      <3> QED
        BY <3>1, StageMoves
    <2>2. CASE Report(i)
      <3>1. stage' = [stage EXCEPT ![i] = "done"] /\ tx' = tx
        BY <2>2 DEF Report, Moves
      <3> QED
        BY <3>1, StageMoves
    <2>3. CASE ReadNext(i)
      BY <2>3 DEF ReadNext, CliIInv
    <2>4. CASE Show(i)
      <3>1. stage' = [stage EXCEPT ![i] = "done"] /\ tx' = tx
        BY <2>4 DEF Show, Moves
      <3> QED
        BY <3>1, StageMoves
    <2> QED
      BY <1>2, <2>1, <2>2, <2>3, <2>4 DEF Proceed
  <1>3. ASSUME NEW i \in Invocations, CallFails(i) PROVE CliIInv'
    <2>1. CASE SendFails(i)
      <3>1. stage' = [stage EXCEPT ![i] = "error"] /\ tx' = tx
        BY <2>1 DEF SendFails, Moves
      <3> QED
        BY <3>1, StageMoves
    <2>2. CASE WaitFails(i)
      <3>1. stage' = [stage EXCEPT ![i] = "error"] /\ tx' = tx
        BY <2>2 DEF WaitFails, Moves
      <3> QED
        BY <3>1, StageMoves
    <2>3. CASE ReadLost(i)
      BY <2>3 DEF ReadLost, CliIInv
    <2> QED
      BY <1>3, <2>1, <2>2, <2>3 DEF CallFails
  <1>4. CASE UNCHANGED cli
    BY <1>4 DEF cli, CliIInv
  <1> QED
    BY <1>1, <1>2, <1>3, <1>4 DEF CliNext, cliVars

\* Sending is the node's Receive; every other step of a command leaves the node alone.
LEMMA CliStepIsNodeStep ==
    ASSUME CliIInv, [CliNext]_cliVars
    PROVE  [NodeNext]_nodeVars
  <1>1. ASSUME NEW i \in Invocations, Invoke(i) PROVE UNCHANGED nodeVars
    BY <1>1 DEF Invoke, Refuse, Prepare, BeginShow
  <1>2. ASSUME NEW i \in Invocations, Proceed(i) PROVE [NodeNext]_nodeVars
    <2>1. CASE Send(i)
      BY <2>1 DEF Send, Moves, CliIInv, NodeNext
    <2> QED
      BY <1>2, <2>1 DEF Proceed, Report, ReadNext, Show
  <1>3. ASSUME NEW i \in Invocations, CallFails(i) PROVE [NodeNext]_nodeVars
    <2>1. CASE SendFails(i)
      BY <2>1 DEF SendFails, Moves, CliIInv, NodeNext
    <2> QED
      BY <1>3, <2>1 DEF CallFails, WaitFails, ReadLost
  <1> QED
    BY <1>1, <1>2, <1>3 DEF CliNext, cliVars, NodeNext

\* Beside any number of commands, whatever calls of theirs fail, the node behaves as a
\* node: the tool implements a client of MetadataNode.
THEOREM CliImplementsNodeClient == CliSpec => NodeSafety
  <1>1. CliInit => NodeInit /\ CliIInv
    BY CliInitIInv DEF CliInit
  <1>2. CliIInv /\ [CliNext]_cliVars => CliIInv' /\ [NodeNext]_nodeVars
    BY CliNextIInv, CliStepIsNodeStep
  <1> QED
    BY <1>1, <1>2, PTL DEF CliSpec, NodeSafety

\* However many users run `create', or run it again after a lost answer, the metadata
\* of a mint is created once.
THEOREM CliCreatesOnce == CliSpec => []CreatedOnce
  BY CliImplementsNodeClient, MetadataCreatedOnce, PTL

\* No command ever changes an immutable token, or one whose update authority has not
\* signed, whoever runs it and however often.
THEOREM CliKeepsPromises == CliSpec => ImmutableForever /\ ChangesAuthorised
  BY CliImplementsNodeClient, NodeKeepsPromises, PTL

\* Each part of each token is what the last committed command that names it wrote.
THEOREM CliLastWriteStands == CliSpec => []LastWriteStands
  BY CliImplementsNodeClient, LastCommittedWriteStands, PTL

-----------------------------------------------------------------------------
(* What a show has read *)

\* The j-th account invocation i shows is as recent as ShownIsRecent asks.
RecentAt(i, j) ==
    \E n \in 0..Len(committed) :
        /\ known[i] \subseteq ToSet(SubSeq(committed, 1, n))
        /\ ReadAfter(SubSeq(committed, 1, n), Command[i].mint,
                     Addresses(Command[i])[j], shown[i][j])

\* What was recent when it was read stays as recent as it has to be.
LEMMA RecentStays ==
    ASSUME NodeTypeOK, [NodeNext]_nodeVars, NEW i, NEW j, RecentAt(i, j),
           known'[i] = known[i], shown'[i][j] = shown[i][j]
    PROVE  RecentAt(i, j)'
  <1>1. PICK n \in 0..Len(committed) :
           /\ known[i] \subseteq ToSet(SubSeq(committed, 1, n))
           /\ ReadAfter(SubSeq(committed, 1, n), Command[i].mint,
                        Addresses(Command[i])[j], shown[i][j])
    BY DEF RecentAt
  <1>2. n \in 0..Len(committed') /\ SubSeq(committed', 1, n) = SubSeq(committed, 1, n)
    BY CommittedGrows
  <1> QED
    BY <1>1, <1>2 DEF RecentAt

\* What a read returns now is as the whole log left the account.
LEMMA ReadIsCurrent ==
    ASSUME IInv, LastWriteStands, NEW m \in Mints, NEW a
    PROVE  ReadAfter(committed, m, a, ShownAs(a, OwnerShown(a)))
  <1> DEFINE data == ShownAs(a, OwnerShown(a))
  <1>1. ASSUME NEW part \in Part, Holder(m, part) = a
        PROVE  LastWritten(committed, m, part) = IF data = None THEN {} ELSE ValueIn(data, part)
    <2>1. a \in Address /\ LastWritten(committed, m, part) = ValueIn(ledger[a].data, part)
      BY <1>1, Holders DEF LastWriteStands
    <2>2. ledger[a].data \in AccountData
      BY <2>1, TypedData DEF IInv, TypeOK
    <2>3. CASE ledger[a].owner = OwnerShown(a)
      BY <2>1, <2>2, <2>3, NoneAssumption DEF ShownAs
    <2>4. CASE ledger[a].owner # OwnerShown(a)
      <3>1. ValueIn(ledger[a].data, part) = {}
        <4>1. CASE part \in MintPart
          <5>1. a = m
            BY <1>1, <4>1, Holders
          <5>2. ~HoldsMint(ledger, a)
            BY <2>4, <5>1 DEF OwnerShown, IInv, Legal, Backed
          <5> QED
            BY <4>1, <5>2 DEF ValueIn, HoldsMint, MintPart, Field
        <4>2. CASE part \notin MintPart
          <5>1. a \notin Mints
            BY <1>1, <4>2, Holders DEF Part, TokenPart
          <5>2. ~HoldsMetadata(ledger, a) /\ ~HoldsAttributes(ledger, a)
            BY <2>1, <2>4, <5>1 DEF OwnerShown, IInv, Legal, Complete
          <5> QED
            BY <4>2, <5>2 DEF ValueIn, HoldsMetadata, HoldsAttributes
        <4> QED
          BY <4>1, <4>2
      <3> QED
        BY <2>1, <2>4, <3>1 DEF ShownAs
    <2> QED
      BY <2>3, <2>4
  <1> QED
    BY <1>1 DEF ReadAfter

\* The variables of a show are functions of the invocations, and what is shown is data.
ShowTypes ==
    /\ DOMAIN printed = Invocations /\ DOMAIN known = Invocations
    /\ DOMAIN lost = Invocations
    /\ shown \in [Invocations -> Seq(AccountData \cup {None})]
    /\ \A i \in Invocations : stage[i] = "showing" => i \in Showing

LEMMA ShowsInit == CliInit => ShowTypes /\ ShowsKept
  <1> SUFFICES ASSUME CliInit PROVE ShowTypes /\ ShowsKept
    OBVIOUS
  <1>1. /\ \A i \in Invocations : printed[i] = None /\ shown[i] = <<>> /\ known[i] = {}
        /\ DOMAIN printed = Invocations /\ DOMAIN known = Invocations
        /\ DOMAIN lost = Invocations /\ shown = [i \in Invocations |-> <<>>]
    BY DEF CliInit
  <1>2. ShowTypes
    <2>1. \A i \in Invocations : stage[i] # "showing"
      BY DEF CliInit
    <2> QED
      BY <1>1, <2>1 DEF ShowTypes
  <1>3. \A i \in Writing : printed[i] # "Processed"
    BY <1>1, NoneAssumption DEF Writing
  <1>4. \A i \in Showing : DOMAIN shown[i] = {}
    BY <1>1 DEF Showing
  <1> QED
    BY <1>1, <1>2, <1>3, <1>4 DEF ShowsKept, ReportedIsCommitted, ShownIsRecent, Showing

\* A command under way moves on, and one that is done stays done.
LEMMA MovesOn ==
    ASSUME CliIInv, NEW k \in Invocations, NEW from, NEW to, Moves(k, from, to),
           from # "done", to \notin {"idle", "showing"}
    PROVE  /\ \A i \in Invocations : stage[i] = "done" => i # k /\ stage'[i] = "done"
           /\ \A i \in Invocations : stage'[i] \in {"idle", "showing"} => stage'[i] = stage[i]
           /\ stage[k] = from /\ stage'[k] = to
  BY DEF Moves, CliIInv

\* A step that reads nothing and reports nothing.
LEMMA ShowsStay ==
    ASSUME ShowTypes, ShowsKept, NodeTypeOK, [NodeNext]_nodeVars,
           printed' = printed, known' = known, shown' = shown, lost' = lost,
           \A i \in Invocations : stage[i] = "done" => stage'[i] = "done" /\ tx'[i] = tx[i],
           \A i \in Invocations : stage'[i] \in {"idle", "showing"} => stage'[i] = stage[i]
    PROVE  ShowTypes' /\ ShowsKept'
  <1>1. ShowTypes'
    BY DEF ShowTypes
  <1>2. ToSet(committed) \subseteq ToSet(committed')
    BY CommittedGrows
  <1>3. ReportedIsCommitted'
    BY <1>2 DEF ShowsKept, ReportedIsCommitted, Writing
  <1>4. /\ \A i \in Showing : known'[i] \subseteq ToSet(committed')
        /\ \A i \in Showing : stage'[i] = "idle" => shown'[i] = <<>>
    BY <1>2 DEF ShowsKept, Showing
  <1>5. ASSUME NEW i \in Showing, NEW j \in DOMAIN shown'[i] \ lost'[i] PROVE RecentAt(i, j)'
    <2>1. RecentAt(i, j)
      BY <1>5 DEF ShowsKept, ShownIsRecent, RecentAt
    <2> QED
      BY <2>1, RecentStays
  <1> QED
    BY <1>1, <1>3, <1>4, <1>5 DEF ShowsKept, ShownIsRecent, RecentAt

\* A command that reports what the node says of its transaction.
LEMMA ReportShows ==
    ASSUME CliIInv, NodeTypeOK, ShowTypes, ShowsKept, [NodeNext]_nodeVars,
           NEW k \in Invocations, Report(k)
    PROVE  ShowTypes' /\ ShowsKept'
  <1>1. /\ Moves(k, "sent", "done")
        /\ printed' = [printed EXCEPT ![k] = Status(tx[k])]
        /\ known' = known /\ shown' = shown /\ lost' = lost /\ tx' = tx
        /\ committed' = committed
    BY DEF Report, nodeVars, node
  <1>2. /\ \A i \in Invocations : stage[i] = "done" => i # k /\ stage'[i] = "done"
        /\ \A i \in Invocations : stage'[i] \in {"idle", "showing"} => stage'[i] = stage[i]
        /\ stage'[k] = "done"
    BY <1>1, MovesOn
  <1>3. ShowTypes'
    BY <1>1, <1>2 DEF ShowTypes
  <1>4. ReportedIsCommitted'
    <2>1. ASSUME NEW i \in Writing, printed'[i] = "Processed"
          PROVE  stage'[i] = "done" /\ tx'[i] \in ToSet(committed')
      <3>1. CASE i = k
        <4>1. Status(tx[k]) = "Processed"
          BY <1>1, <2>1, <3>1 DEF ShowTypes
        <4>2. tx[k] \in ToSet(committed)
          BY <4>1 DEF Status, ToSet
        <4> QED
          BY <1>1, <1>2, <3>1, <4>2
      <3>2. CASE i # k
        BY <1>1, <1>2, <2>1, <3>2 DEF ShowTypes, ShowsKept, ReportedIsCommitted, Writing
      <3> QED
        BY <3>1, <3>2
    <2> QED
      BY <2>1 DEF ReportedIsCommitted
  <1>5. /\ \A i \in Showing : known'[i] \subseteq ToSet(committed')
        /\ \A i \in Showing : stage'[i] = "idle" => shown'[i] = <<>>
    BY <1>1, <1>2 DEF ShowsKept, Showing
  <1>6. ShownIsRecent'
    BY <1>1 DEF ShowsKept, ShownIsRecent
  <1> QED
    BY <1>3, <1>4, <1>5, <1>6 DEF ShowsKept

\* A show that begins knows what others were told, all of which is committed.
LEMMA BeginShows ==
    ASSUME CliIInv, NodeTypeOK, ShowTypes, ShowsKept, [NodeNext]_nodeVars,
           NEW k \in Showing, BeginShow(k)
    PROVE  ShowTypes' /\ ShowsKept'
  <1>1. /\ Moves(k, "idle", "showing")
        /\ known' = [known EXCEPT ![k] = Reported]
        /\ printed' = printed /\ shown' = shown /\ lost' = lost /\ tx' = tx
        /\ committed' = committed
    BY DEF BeginShow, nodeVars, node
  <1>2. /\ k \in Invocations /\ stage[k] = "idle" /\ stage'[k] = "showing"
        /\ \A i \in Invocations : i # k => stage'[i] = stage[i]
    BY <1>1 DEF Showing, Moves, CliIInv
  <1>3. ShowTypes'
    BY <1>1, <1>2 DEF ShowTypes
  <1>4. ReportedIsCommitted'
    BY <1>1, <1>2 DEF ShowsKept, ReportedIsCommitted, Writing
  <1>5. Reported \subseteq ToSet(committed)
    BY DEF Reported, ShowsKept, ReportedIsCommitted
  <1>6. /\ \A i \in Showing : known'[i] \subseteq ToSet(committed')
        /\ \A i \in Showing : stage'[i] = "idle" => shown'[i] = <<>>
    BY <1>1, <1>2, <1>5 DEF ShowsKept, ShowTypes, Showing
  <1>7. ASSUME NEW i \in Showing, NEW j \in DOMAIN shown'[i] \ lost'[i] PROVE RecentAt(i, j)'
    <2>1. i # k
      BY <1>1, <1>2, <1>7 DEF ShowsKept
    <2>2. known'[i] = known[i]
      BY <1>1, <2>1 DEF ShowTypes
    <2>3. RecentAt(i, j)
      BY <1>1, <1>7 DEF ShowsKept, ShownIsRecent, RecentAt
    <2> QED
      BY <1>1, <2>2, <2>3, RecentStays
  <1> QED
    BY <1>3, <1>4, <1>6, <1>7 DEF ShowsKept, ShownIsRecent, RecentAt

\* A read, answered or not, adds one account to what is shown.
LEMMA ReadShows ==
    ASSUME CliIInv, NodeTypeOK, ShowTypes, ShowsKept, [NodeNext]_nodeVars,
           NEW k \in Showing, stage[k] = "showing",
           NEW data \in AccountData \cup {None},
           shown' = [shown EXCEPT ![k] = Append(@, data)],
           UNCHANGED <<stage, tx, printed, known, committed>>,
           DOMAIN lost' = Invocations,
           \A i \in Invocations : lost[i] \subseteq lost'[i],
           \/ Len(shown[k]) + 1 \in lost'[k]
           \/ ReadAfter(committed, Command[k].mint,
                        Addresses(Command[k])[Len(shown[k]) + 1], data)
    PROVE  ShowTypes' /\ ShowsKept'
  <1> DEFINE n == Len(shown[k])
  <1>1. /\ k \in Invocations /\ shown[k] \in Seq(AccountData \cup {None}) /\ n \in Nat
        /\ DOMAIN shown[k] = 1..n
    BY DEF Showing, ShowTypes
  <1>2. /\ shown'[k] = Append(shown[k], data) /\ shown'[k] \in Seq(AccountData \cup {None})
        /\ DOMAIN shown'[k] = 1..(n + 1)
        /\ \A j \in 1..n : shown'[k][j] = shown[k][j]
        /\ shown'[k][n + 1] = data
        /\ \A i \in Invocations : i # k => shown'[i] = shown[i]
    BY <1>1 DEF ShowTypes
  <1>3. ShowTypes'
    BY <1>2 DEF ShowTypes
  <1>4. /\ ReportedIsCommitted'
        /\ \A i \in Showing : known'[i] \subseteq ToSet(committed')
    BY DEF ShowsKept, ReportedIsCommitted
  <1>5. \A i \in Showing : stage'[i] = "idle" => shown'[i] = <<>>
    BY <1>2 DEF ShowsKept, Showing
  <1>6. ASSUME NEW i \in Showing, NEW j \in DOMAIN shown'[i] \ lost'[i] PROVE RecentAt(i, j)'
    <2>1. CASE i # k \/ j # n + 1
      <3>1. i \in Invocations /\ j \in DOMAIN shown[i] \ lost[i] /\ shown'[i][j] = shown[i][j]
        BY <1>1, <1>2, <1>6, <2>1 DEF Showing
      <3>2. RecentAt(i, j)
        BY <3>1 DEF ShowsKept, ShownIsRecent, RecentAt
      <3> QED
        BY <3>1, <3>2, RecentStays
    <2>2. CASE i = k /\ j = n + 1
      <3>1. ReadAfter(committed, Command[k].mint, Addresses(Command[k])[n + 1], data)
        BY <1>6, <2>2
      <3>2. /\ committed \in Seq(Transactions) /\ Len(committed) \in Nat
            /\ SubSeq(committed, 1, Len(committed)) = committed
        BY SubSeqFull DEF NodeTypeOK
      <3>3. known[k] \subseteq ToSet(committed)
        BY DEF ShowsKept
      <3>4. shown'[i][j] = data /\ Len(committed) \in 0..Len(committed)
        BY <1>2, <2>2, <3>2
      <3> HIDE DEF n
      <3> QED
        BY <2>2, <3>1, <3>2, <3>3, <3>4 DEF RecentAt
    <2> QED
      BY <2>1, <2>2
  <1> QED
    BY <1>3, <1>4, <1>5, <1>6 DEF ShowsKept, ShownIsRecent, RecentAt

\* A read that succeeds shows the account as it is.
LEMMA ReadNextShows ==
    ASSUME CliIInv, IInv, NodeTypeOK, LastWriteStands, ShowTypes, ShowsKept,
           [NodeNext]_nodeVars, NEW k \in Invocations, ReadNext(k)
    PROVE  ShowTypes' /\ ShowsKept'
  <1> DEFINE a == Addresses(Command[k])[Len(shown[k]) + 1]
             data == ShownAs(a, OwnerShown(a))
  <1>1. /\ shown' = [shown EXCEPT ![k] = Append(@, data)]
        /\ stage[k] = "showing"
        /\ UNCHANGED <<stage, tx, printed, lost, known, committed>>
        /\ Len(shown[k]) + 1 <= Len(Addresses(Command[k]))
    BY DEF ReadNext, nodeVars, node
  <1>2. k \in Showing /\ Command[k].mint \in Mints
    BY <1>1, ShowAssumption DEF ShowTypes
  <1>3. shown[k] \in Seq(AccountData \cup {None}) /\ Len(shown[k]) \in Nat
    BY DEF ShowTypes
  <1>4. a \in Address
    <2>1. /\ Command[k].mint \in Address /\ MetadataPda(Command[k].mint) \in Address
          /\ AttributesPda(Command[k].mint) \in Address
      BY <1>2, DerivedAddresses
    <2> DEFINE m == Command[k].mint
    <2>2. Addresses(Command[k]) \in {<<m>>, <<m, MetadataPda(m), AttributesPda(m)>>}
      BY DEF Addresses
    <2>3. <<m>> \in Seq(Address) /\ <<m, MetadataPda(m), AttributesPda(m)>> \in Seq(Address)
      BY <2>1
    <2>4. Addresses(Command[k]) \in Seq(Address)
      BY <2>2, <2>3
    <2> QED
      BY <1>1, <1>3, <2>4
  <1>5. data \in AccountData \cup {None}
    BY <1>4, TypedData DEF ShownAs, IInv, TypeOK
  <1>6. ReadAfter(committed, Command[k].mint, a, data)
    BY <1>2, ReadIsCurrent
  <1>7. DOMAIN lost' = Invocations
    BY <1>1 DEF ShowTypes
  <1> HIDE DEF data
  <1> QED
    BY <1>1, <1>2, <1>5, <1>6, <1>7, ReadShows

\* A read that fails is shown as null and counted as lost.
LEMMA ReadLostShows ==
    ASSUME CliIInv, NodeTypeOK, ShowTypes, ShowsKept,
           [NodeNext]_nodeVars, NEW k \in Invocations, ReadLost(k)
    PROVE  ShowTypes' /\ ShowsKept'
  <1>1. /\ shown' = [shown EXCEPT ![k] = Append(@, None)]
        /\ lost' = [lost EXCEPT ![k] = @ \cup {Len(shown'[k])}]
        /\ stage[k] = "showing"
        /\ UNCHANGED <<stage, tx, printed, known, committed>>
    BY DEF ReadLost, nodeVars, node
  <1>2. k \in Showing /\ shown[k] \in Seq(AccountData \cup {None})
    BY <1>1 DEF ShowTypes
  <1>3. Len(shown'[k]) = Len(shown[k]) + 1
    BY <1>1, <1>2 DEF ShowTypes
  <1>4. /\ DOMAIN lost' = Invocations
        /\ \A i \in Invocations : lost[i] \subseteq lost'[i]
        /\ Len(shown[k]) + 1 \in lost'[k]
    BY <1>1, <1>3 DEF ShowTypes
  <1> QED
    BY <1>1, <1>2, <1>4, ReadShows

LEMMA ShowsNext ==
    ASSUME CliIInv, IInv, NodeTypeOK, WritesKept, ShowTypes, ShowsKept, [CliNext]_cliVars
    PROVE  ShowTypes' /\ ShowsKept'
  <1>n. [NodeNext]_nodeVars /\ LastWriteStands
    BY CliStepIsNodeStep DEF WritesKept
  <1>m. ASSUME NEW k \in Invocations, NEW from \in {"idle", "built", "sent", "showing"},
               NEW to \in {"refused", "sent", "error", "done"}, Moves(k, from, to), tx' = tx,
               printed' = printed, known' = known, shown' = shown, lost' = lost
        PROVE  ShowTypes' /\ ShowsKept'
    <2>1. /\ \A i \in Invocations : stage[i] = "done" => stage'[i] = "done" /\ tx'[i] = tx[i]
          /\ \A i \in Invocations : stage'[i] \in {"idle", "showing"} => stage'[i] = stage[i]
      BY <1>m, MovesOn
    <2> QED
      BY <1>n, <1>m, <2>1, ShowsStay
  <1>1. ASSUME NEW k \in Invocations, Invoke(k) PROVE ShowTypes' /\ ShowsKept'
    <2>1. CASE k \in Writing /\ Refuse(k)
      BY <1>m, <2>1 DEF Refuse
    <2>2. CASE k \in Writing /\ Prepare(k)
      <3>1. /\ Moves(k, "idle", "built") /\ \A i \in Invocations : i # k => tx'[i] = tx[i]
            /\ printed' = printed /\ known' = known /\ shown' = shown /\ lost' = lost
        BY <2>2 DEF Prepare, CliIInv
      <3>2. /\ \A i \in Invocations : stage[i] = "done" => stage'[i] = "done" /\ tx'[i] = tx[i]
            /\ \A i \in Invocations : stage'[i] \in {"idle", "showing"} => stage'[i] = stage[i]
        BY <3>1, MovesOn
      <3> QED
        BY <1>n, <3>1, <3>2, ShowsStay
    <2>3. CASE k \in Showing /\ BeginShow(k)
      BY <1>n, <2>3, BeginShows
    <2> QED
      BY <1>1, <2>1, <2>2, <2>3 DEF Invoke, Showing
  <1>2. ASSUME NEW k \in Invocations, Proceed(k) PROVE ShowTypes' /\ ShowsKept'
    <2>1. CASE Send(k)
      BY <1>m, <2>1 DEF Send
    <2>2. CASE Report(k)
      BY <1>n, <2>2, ReportShows
    <2>3. CASE ReadNext(k)
      BY <1>n, <2>3, ReadNextShows
    <2>4. CASE Show(k)
      BY <1>m, <2>4 DEF Show
    <2> QED
      BY <1>2, <2>1, <2>2, <2>3, <2>4 DEF Proceed
  <1>3. ASSUME NEW k \in Invocations, CallFails(k) PROVE ShowTypes' /\ ShowsKept'
    <2>1. CASE SendFails(k)
      BY <1>m, <2>1 DEF SendFails
    <2>2. CASE WaitFails(k)
      BY <1>m, <2>2 DEF WaitFails
    <2>3. CASE ReadLost(k)
      BY <1>n, <2>3, ReadLostShows
    <2> QED
      BY <1>3, <2>1, <2>2, <2>3 DEF CallFails
  <1>4. CASE UNCHANGED cli
    BY <1>n, <1>4, ShowsStay DEF cli
  <1> QED
    BY <1>1, <1>2, <1>3, <1>4 DEF CliNext, cliVars

\* Whatever else is under way, a transaction reported as processed is committed, and
\* every account a show has read is as recent as what was reported when it began.
THEOREM ShowsAccounted == CliSpec => []ShowsKept
  <1>1. CliInit => CliIInv /\ ShowTypes /\ ShowsKept
    BY CliInitIInv, ShowsInit
  <1>2. /\ CliIInv /\ IInv /\ NodeTypeOK /\ WritesKept /\ ShowTypes /\ ShowsKept
        /\ [CliNext]_cliVars
        => CliIInv' /\ ShowTypes' /\ ShowsKept'
    BY CliNextIInv, ShowsNext
  <1>3. CliSpec => [](IInv /\ NodeTypeOK) /\ []WritesKept
    BY CliImplementsNodeClient, NodeInvariants, WritesAccounted, PTL
  <1> QED
    BY <1>1, <1>2, <1>3, PTL DEF CliSpec

\* What one user was told is processed, another can see: each account shown is as some
\* prefix of the committed transactions left it that has all that was reported before.
THEOREM ShowsAreRecent == CliSpec => []ShownIsRecent
  <1>1. ShowsKept => ShownIsRecent
    BY DEF ShowsKept
  <1> QED
    BY <1>1, ShowsAccounted, PTL
-----------------------------------------------------------------------------
(* Nothing doomed is sent *)

\* A transaction that a command builds which is not refused.
FromCommand(t) ==
    \E i \in Writing : \E m : ~Refused(Command[i]) /\ t = Built(i, m)

\* What was built, what waits at the node and what it runs all come from such commands.
SentByCommands ==
    /\ \A i \in Invocations : stage[i] = "built" => FromCommand(tx[i])
    /\ \A t \in pending : FromCommand(t)
    /\ running # NoTx => FromCommand(running)

\* Instruction ix is one of command c about mint m.
InstructedBy(c, m, ix) ==
    \/ /\ c.cmd = "mint create"
       /\ \/ ix = create_mint_account_ix(PayerKey(c), m)
          \/ ix = initialize_mint2_ix(m, AuthorityKey(c), c.freeze_authority)
    \/ /\ c.cmd = "create"
       /\ ix = create_metadata_ix(PayerKey(c), m, AuthorityKey(c), c.text, c.immutable)
    \/ c.cmd = "update" /\ ix = update_metadata_ix(m, AuthorityKey(c), c.text)
    \/ /\ c.cmd = "create-attributes"
       /\ ix = create_attributes_ix(PayerKey(c), m, AuthorityKey(c), c.kvs)
    \/ c.cmd = "replace-attributes" /\ ix = replace_attributes_ix(m, AuthorityKey(c), c.kvs)
    \/ /\ c.cmd = "transfer-authority"
       /\ ix = transfer_authority_ix(m, AuthorityKey(c), c.new_authority)
    \/ c.cmd = "make-immutable" /\ ix = make_immutable_ix(m, AuthorityKey(c))

LEMMA InstructionOfCommand ==
    ASSUME NEW c, c.cmd \in Subcommands, NEW m, NEW k \in DOMAIN Instruct(c, m)
    PROVE  InstructedBy(c, m, Instruct(c, m)[k])
  <1>1. CASE c.cmd = "mint create"
    <2> DEFINE a1 == create_mint_account_ix(PayerKey(c), m)
               a2 == initialize_mint2_ix(m, AuthorityKey(c), c.freeze_authority)
    <2>1. Instruct(c, m) = <<a1, a2>>
      BY <1>1 DEF Instruct, MintCreate
    <2>2. \A ix : ix \in {a1, a2} => InstructedBy(c, m, ix)
      BY <1>1 DEF InstructedBy
    <2> HIDE DEF a1, a2
    <2> QED
      BY <2>1, <2>2
  <1>2. CASE c.cmd = "create"
    <2>1. Instruct(c, m) = MetadataCreate(c, m)
      BY <1>2 DEF Instruct
    <2> QED
      BY <1>2, <2>1 DEF MetadataCreate, InstructedBy
  <1>3. CASE c.cmd = "update"
    <2>1. Instruct(c, m) = MetadataUpdate(c, m)
      BY <1>3 DEF Instruct
    <2> QED
      BY <1>3, <2>1 DEF MetadataUpdate, InstructedBy
  <1>4. CASE c.cmd = "create-attributes"
    <2>1. Instruct(c, m) = MetadataCreateAttributes(c, m)
      BY <1>4 DEF Instruct
    <2> QED
      BY <1>4, <2>1 DEF MetadataCreateAttributes, InstructedBy
  <1>5. CASE c.cmd = "replace-attributes"
    <2>1. Instruct(c, m) = MetadataReplaceAttributes(c, m)
      BY <1>5 DEF Instruct
    <2> QED
      BY <1>5, <2>1 DEF MetadataReplaceAttributes, InstructedBy
  <1>6. CASE c.cmd = "transfer-authority"
    <2>1. Instruct(c, m) = MetadataTransferAuthority(c, m)
      BY <1>6 DEF Instruct
    <2> QED
      BY <1>6, <2>1 DEF MetadataTransferAuthority, InstructedBy
  <1>7. CASE c.cmd = "make-immutable"
    <2>1. Instruct(c, m) = MetadataMakeImmutable(c, m)
      BY <1>7 DEF Instruct
    <2> QED
      BY <1>7, <2>1 DEF MetadataMakeImmutable, InstructedBy
  <1> QED
    BY <1>1, <1>2, <1>3, <1>4, <1>5, <1>6, <1>7 DEF Subcommands

\* Each command measures, addresses and signs for each of its instructions.
LEMMA CommandsInstruct ==
    ASSUME NEW i \in Writing, ~Refused(Command[i]), NEW m, NEW ix \in Instructions,
           InstructedBy(Command[i], m, ix)
    PROVE  ~Oversize(ix) /\ ~Misaddressed(ix) /\ ~Unsigned(ix, Signers(Command[i], m))
  <1> DEFINE c == Command[i]
  <1>1. WithinLimits(c) /\ InstructedBy(c, m, ix)
    BY DEF Refused
  <1>2. /\ ix.op \in TextOps => ix.text \in PartialText
        /\ ix.op \in EntryOps => ix.entries \in Seq(Entry)
    BY MeasuredTyped
  <1> HIDE DEF c
  <1>3. /\ ix.op \in TextOps => c.cmd \in {"create", "update"} /\ ix.text = c.text
        /\ ix.op \in EntryOps =>
              c.cmd \in {"create-attributes", "replace-attributes"} /\ ix.entries = c.kvs
        /\ ~Misaddressed(ix)
        /\ ~Unsigned(ix, Signers(c, m))
    <2> USE DEF TextOps, EntryOps, Misaddressed, Unsigned, Signers, MetadataPda
    <2>1. CASE /\ c.cmd = "create"
               /\ ix = create_metadata_ix(PayerKey(c), m, AuthorityKey(c), c.text, c.immutable)
      BY <2>1 DEF create_metadata_ix
    <2>2. CASE c.cmd = "update" /\ ix = update_metadata_ix(m, AuthorityKey(c), c.text)
      BY <2>2 DEF update_metadata_ix
    <2>3. CASE /\ c.cmd = "create-attributes"
               /\ ix = create_attributes_ix(PayerKey(c), m, AuthorityKey(c), c.kvs)
      BY <2>3 DEF create_attributes_ix
    <2>4. CASE c.cmd = "replace-attributes" /\ ix = replace_attributes_ix(m, AuthorityKey(c), c.kvs)
      BY <2>4 DEF replace_attributes_ix
    <2>5. CASE /\ c.cmd = "transfer-authority"
               /\ ix = transfer_authority_ix(m, AuthorityKey(c), c.new_authority)
      BY <2>5 DEF transfer_authority_ix
    <2>6. CASE c.cmd = "make-immutable" /\ ix = make_immutable_ix(m, AuthorityKey(c))
      BY <2>6 DEF make_immutable_ix
    <2>7. CASE c.cmd = "mint create" /\ ix = create_mint_account_ix(PayerKey(c), m)
      BY <2>7 DEF create_mint_account_ix
    <2>8. CASE /\ c.cmd = "mint create"
               /\ ix = initialize_mint2_ix(m, AuthorityKey(c), c.freeze_authority)
      BY <2>8 DEF initialize_mint2_ix
    <2> QED
      BY <1>1, <2>1, <2>2, <2>3, <2>4, <2>5, <2>6, <2>7, <2>8 DEF InstructedBy
  <1>4. ~Oversize(ix)
    <2>1. ix.op \in TextOps => ~TextTooLong(ix.text)
      BY <1>1, <1>2, <1>3, MetadataValidatorExact DEF WithinLimits
    <2>2. ix.op \in EntryOps => ~EntriesRefused(ix.entries)
      BY <1>1, <1>2, <1>3, AttributesValidatorExact DEF WithinLimits
    <2> QED
      BY <2>1, <2>2 DEF Oversize
  <1> QED
    BY <1>3, <1>4 DEF c

\* What is sent was built, and what is started waited.
LEMMA SentNext ==
    ASSUME CliIInv, SentByCommands, [CliNext]_cliVars
    PROVE  SentByCommands'
  <1> USE DEF SentByCommands
  <1>1. CASE UNCHANGED cliVars
    BY <1>1 DEF cliVars, cli, nodeVars, node
  <1>2. ASSUME NEW i \in Writing, Prepare(i) PROVE SentByCommands'
    <2>1. PICK m : tx' = [tx EXCEPT ![i] = Built(i, m)]
      BY <1>2 DEF Prepare
    <2>2. FromCommand(Built(i, m))
      BY <1>2 DEF Prepare, FromCommand
    <2>3. stage' = [stage EXCEPT ![i] = "built"] /\ UNCHANGED <<pending, running>>
      BY <1>2 DEF Prepare, Moves, nodeVars, node
    <2> HIDE DEF Built
    <2> QED
      BY <2>1, <2>2, <2>3 DEF CliIInv, FromCommand
  <1>3. ASSUME NEW i \in Invocations, NEW to, to # "built", stage' = [stage EXCEPT ![i] = to],
               tx' = tx, running' = running,
               \A t \in pending' : t \in pending \/ (stage[i] = "built" /\ t = tx[i])
        PROVE  SentByCommands'
    <2>1. \A j \in Invocations : stage'[j] = "built" => stage[j] = "built"
      BY <1>3 DEF CliIInv
    <2>2. \A j \in Invocations : stage'[j] = "built" => FromCommand(tx'[j])
      BY <1>3, <2>1
    <2>3. \A t \in pending' : FromCommand(t)
      BY <1>3
    <2> QED
      BY <1>3, <2>2, <2>3 DEF FromCommand
  <1>4. ASSUME NEW i \in Invocations, UNCHANGED <<nodeVars, stage, tx>> PROVE SentByCommands'
    BY <1>4 DEF nodeVars, node
  <1>5. ASSUME Work, UNCHANGED cli PROVE SentByCommands'
    <2>1. UNCHANGED <<stage, tx>>
      BY <1>5 DEF cli
    <2>2. ASSUME NEW t \in pending, Start(t) PROVE SentByCommands'
      BY <2>1, <2>2 DEF Start
    <2>3. ASSUME Advance PROVE SentByCommands'
      BY <2>1, <2>3 DEF Advance
    <2>4. ASSUME Finish PROVE SentByCommands'
      BY <2>1, <2>4 DEF Finish
    <2> QED
      BY <1>5, <2>2, <2>3, <2>4 DEF Work
  <1> HIDE DEF SentByCommands
  <1>6. ASSUME NEW i \in Invocations, Invoke(i) PROVE SentByCommands'
    <2>1. ASSUME Refuse(i) PROVE SentByCommands'
      BY <1>3, <2>1 DEF Refuse, Moves, nodeVars, node
    <2>2. ASSUME BeginShow(i) PROVE SentByCommands'
      BY <1>3, <2>2 DEF BeginShow, Moves, nodeVars, node
    <2> QED
      BY <1>2, <1>6, <2>1, <2>2 DEF Invoke
  <1>7. ASSUME NEW i \in Invocations, Proceed(i) PROVE SentByCommands'
    <2>1. ASSUME Send(i) PROVE SentByCommands'
      BY <1>3, <2>1 DEF Send, Moves, Receive, nodeVars, node
    <2>2. ASSUME Report(i) PROVE SentByCommands'
      BY <1>3, <2>2 DEF Report, Moves, nodeVars, node
    <2>3. ASSUME ReadNext(i) PROVE SentByCommands'
      BY <1>4, <2>3 DEF ReadNext
    <2>4. ASSUME Show(i) PROVE SentByCommands'
      BY <1>3, <2>4 DEF Show, Moves, nodeVars, node
    <2> QED
      BY <1>7, <2>1, <2>2, <2>3, <2>4 DEF Proceed
  <1>8. ASSUME NEW i \in Invocations, CallFails(i) PROVE SentByCommands'
    <2>1. ASSUME SendFails(i) PROVE SentByCommands'
      BY <1>3, <2>1 DEF SendFails, Moves, Receive, nodeVars, node
    <2>2. ASSUME WaitFails(i) PROVE SentByCommands'
      BY <1>3, <2>2 DEF WaitFails, Moves, nodeVars, node
    <2>3. ASSUME ReadLost(i) PROVE SentByCommands'
      BY <1>4, <2>3 DEF ReadLost
    <2> QED
      BY <1>8, <2>1, <2>2, <2>3 DEF CallFails
  <1> QED
    BY <1>1, <1>5, <1>6, <1>7, <1>8 DEF CliNext

\* An instruction of a command may be refused for the state it meets, never for what the
\* command could have known of it.
LEMMA AdvanceIsNotDoomed ==
    ASSUME IInv, NodeTypeOK, SentByCommands, executed \in Nat, (outcome # "Panicked")', Advance
    PROVE  outcome' \notin Avoidable
  <1> SUFFICES ASSUME outcome' \in Avoidable PROVE FALSE
    OBVIOUS
  <1>0. PICK i \in Writing : \E m : ~Refused(Command[i]) /\ running = Built(i, m)
    BY DEF SentByCommands, FromCommand, Advance
  <1>1. PICK m : ~Refused(Command[i]) /\ running = Built(i, m)
    BY <1>0
  <1> DEFINE n == executed + 1
             ix == Instruct(Command[i], m)[n]
  <1>2. /\ running.instructions = Instruct(Command[i], m)
        /\ signers = Signers(Command[i], m)
    BY <1>1 DEF Built, NodeTypeOK, Advance
  <1>3. n \in DOMAIN Instruct(Command[i], m) /\ ix \in Instructions
    <2>1. running.instructions \in Seq(Instructions) /\ executed < Len(running.instructions)
      BY TransactionsAssumption DEF NodeTypeOK, Advance
    <2> QED
      BY <1>2, <2>1
  <1>4. Run(ix)
    BY <1>2 DEF Advance
  <1>5. outcome' \in Errors
    BY DEF Avoidable, Errors
  <1>6. RefusedFor(ix, signers, outcome')
    BY <1>3, <1>4, <1>5, RefusalMeans
  <1>7. InstructedBy(Command[i], m, ix)
    BY <1>3, CommandAssumption, InstructionOfCommand
  <1> HIDE DEF ix
  <1>8. ~Oversize(ix) /\ ~Misaddressed(ix) /\ ~Unsigned(ix, Signers(Command[i], m))
    BY <1>1, <1>3, <1>7, CommandsInstruct
  <1> QED
    BY <1>2, <1>5, <1>6, <1>8 DEF RefusedFor, Avoidable, OfSizes

\* What any number of commands send may fail for the state it meets, in whatever order it
\* is executed, but never for its own sizes, addresses or missing signatures.
THEOREM CommandsAreNotDoomed == CliSpec => NothingDoomedIsSent
  <1>1. CliInit => CliIInv /\ SentByCommands
    <2>1. CliInit => SentByCommands
      BY DEF CliInit, NodeInit, SentByCommands
    <2> QED
      BY <2>1, CliInitIInv
  <1>2. CliIInv /\ SentByCommands /\ [CliNext]_cliVars => CliIInv' /\ SentByCommands'
    BY CliNextIInv, SentNext
  <1>3. /\ IInv /\ NodeTypeOK /\ SentByCommands /\ executed \in Nat
        /\ NeverPanics' /\ [CliNext]_cliVars
        => [Advance => outcome' \notin Avoidable]_cliVars
    BY AdvanceIsNotDoomed DEF NeverPanics
  <1>4. CliSpec => [](IInv /\ NodeTypeOK /\ executed \in Nat /\ NeverPanics)
    <2>1. TypeOK => executed \in Nat
      BY MaxInstructionsAssumption DEF TypeOK
    <2> QED
      BY <2>1, CliImplementsNodeClient, NodeInvariants, NodeRunsLedger, TypeCorrect, NoPanic, PTL
  <1> QED
    BY <1>1, <1>2, <1>3, <1>4, PTL DEF CliSpec, NothingDoomedIsSent
=============================================================================
