---------------------------- MODULE ClusterProofs ----------------------------
(***************************************************************************)
(* What holds of the distributed database in every cluster: first whatever *)
(* the Discipline is, then if time is as the tests make it.                *)
(***************************************************************************)
EXTENDS Cluster, ClusterRefinement, OmniPaxosProofs, CommittedStateProofs

DatabaseLogEntry == [tx_offset : Offset, tx_data : TxData]

\* The two replicated offsets of a node are one.
InStep(nd) == nd.last_applied_index = nd.datastore.replicated_tx_offset

NodesInStep == {nd \in NodeType : InStep(nd)}

-----------------------------------------------------------------------------
\* The fields of a Node.
LEMMA NodeParts ==
  ASSUME NEW nd \in NodeType
  PROVE  /\ nd.datastore \in CommittedStateType
         /\ nd.last_applied_index \in OptionOffset
         /\ nd.poisoned \in BOOLEAN
         /\ nd.is_running \in BOOLEAN
         /\ nd.got_promoted_leader \in BOOLEAN
         /\ nd.current_leader \in Server \cup {NoLeader}
BY DEF NodeType

\* One turn of the replay loop keeps the two offsets together.
LEMMA ReplayEntryInStep ==
  ASSUME NEW nd \in NodesInStep, NEW entry \in DatabaseLogEntry
  PROVE  ReplayEntry(nd, entry) \in NodesInStep
<1> DEFINE before == IF CanReplay(nd.datastore)
                     THEN Replay(nd.datastore, entry.tx_data)
                     ELSE nd.datastore
           datastore == Advance(before, entry.tx_offset)
<1>1. nd \in NodeType /\ entry.tx_offset \in Nat /\ entry.tx_data \in TxData
  BY DEF NodesInStep, DatabaseLogEntry, Offset
<1>2. before \in CommittedStateType
  BY <1>1, NodeParts, ReplayType
<1>3. datastore \in CommittedStateType
  <2> HIDE DEF before
  <2> QED BY <1>1, <1>2, AdvanceType
<1>4. datastore.replicated_tx_offset = entry.tx_offset
  BY DEF Advance
<1>5. ReplayEntry(nd, entry) = [nd EXCEPT !.datastore = datastore,
                                          !.last_applied_index = entry.tx_offset]
  BY DEF ReplayEntry
<1> HIDE DEF datastore
<1> QED BY <1>1, <1>3, <1>4, <1>5 DEF NodesInStep, NodeType, InStep, OptionOffset

\* The replay loop, by its turns.
LEMMA ReplayLoop ==
  ASSUME NEW nd, NEW entries, Len(entries) \in Nat
  PROVE  \E after :
           /\ after[0] = nd
           /\ \A i \in 1 .. Len(entries) : after[i] = ReplayEntry(after[i - 1], entries[i])
           /\ ReplayEntries(nd, entries) = after[Len(entries)]
<1> DEFINE Loop(f, k) == f = [i \in 0 .. k |-> IF i = 0 THEN nd ELSE ReplayEntry(f[i - 1], entries[i])]
           Missing == {k \in Nat : ~\E f : Loop(f, k)}
           after == CHOOSE f : Loop(f, Len(entries))
<1>1. Missing = {}
  <2> SUFFICES ASSUME Missing # {} PROVE FALSE
    OBVIOUS
  <2>1. PICK k \in Missing : \A j \in Missing : k <= j
    <3> HIDE DEF Missing
    <3>1. Missing \subseteq Nat
      BY DEF Missing
    <3> QED BY <3>1, LeastElement
  <2>2. k \in Nat
    OBVIOUS
  <2>3. CASE k = 0
    <3> DEFINE f == [i \in 0 .. k |-> nd]
    <3>1. \A i \in 0 .. k : i = 0
      BY <2>3
    <3>2. f = [i \in 0 .. k |-> IF i = 0 THEN nd ELSE ReplayEntry(f[i - 1], entries[i])]
      BY <3>1
    <3> QED BY <3>2
  <2>4. CASE k # 0
    <3>1. k - 1 \in Nat /\ k - 1 \notin Missing
      BY <2>1, <2>2, <2>4, SMTT(30)
    <3>2. PICK g : Loop(g, k - 1)
      BY <3>1
    <3> DEFINE f == [i \in 0 .. k |-> IF i < k THEN g[i] ELSE ReplayEntry(g[k - 1], entries[k])]
    <3>3. \A i \in 0 .. k - 1 : g[i] = IF i = 0 THEN nd ELSE ReplayEntry(g[i - 1], entries[i])
      BY <3>2
    <3>4. \A i \in 0 .. k : f[i] = IF i = 0 THEN nd ELSE ReplayEntry(f[i - 1], entries[i])
      BY <3>3, <2>2, <2>4
    <3>5. f = [i \in 0 .. k |-> IF i = 0 THEN nd ELSE ReplayEntry(f[i - 1], entries[i])]
      BY <3>4
    <3> QED BY <3>5
  <2> QED BY <2>3, <2>4
<1>2. Loop(after, Len(entries))
  BY <1>1
<1>3. ReplayEntries(nd, entries) = after[Len(entries)]
  BY DEF ReplayEntries
<1>4. \A i \in 0 .. Len(entries) :
        after[i] = IF i = 0 THEN nd ELSE ReplayEntry(after[i - 1], entries[i])
  <2> HIDE DEF after
  <2> QED BY <1>2
<1> HIDE DEF after
<1> QED BY <1>3, <1>4

\* So does the loop.
LEMMA ReplayEntriesInStep ==
  ASSUME NEW nd \in NodesInStep, NEW entries \in Seq(DatabaseLogEntry)
  PROVE  ReplayEntries(nd, entries) \in NodesInStep
<1>1. Len(entries) \in Nat /\ \A i \in 1 .. Len(entries) : entries[i] \in DatabaseLogEntry
  OBVIOUS
<1>2. PICK after :
        /\ after[0] = nd
        /\ \A i \in 1 .. Len(entries) : after[i] = ReplayEntry(after[i - 1], entries[i])
        /\ ReplayEntries(nd, entries) = after[Len(entries)]
  BY <1>1, ReplayLoop
<1> DEFINE Wrong == {i \in 0 .. Len(entries) : after[i] \notin NodesInStep}
<1>3. Wrong = {}
  <2> SUFFICES ASSUME Wrong # {} PROVE FALSE
    OBVIOUS
  <2>1. PICK i \in Wrong : \A j \in Wrong : i <= j
    <3>1. Wrong \subseteq Nat
      BY <1>1
    <3> HIDE DEF Wrong
    <3> QED BY <3>1, LeastElement
  <2>2. i \in 0 .. Len(entries) /\ after[i] \notin NodesInStep
    OBVIOUS
  <2>3. i # 0
    BY <1>2, <2>2
  <2>4. i - 1 \in 0 .. Len(entries) /\ i \in 1 .. Len(entries)
    BY <1>1, <2>2, <2>3
  <2>5. after[i - 1] \in NodesInStep
    BY <2>1, <2>4
  <2>6. after[i] = ReplayEntry(after[i - 1], entries[i]) /\ entries[i] \in DatabaseLogEntry
    BY <1>1, <1>2, <2>4
  <2> QED BY <2>2, <2>5, <2>6, ReplayEntryInStep
<1> QED BY <1>1, <1>2, <1>3

-----------------------------------------------------------------------------
\* What a node reads of its log.
LEMMA LogReads ==
  ASSUME NEW n \in Server, log[n] \in Seq(DatabaseLogEntry), decided_idx[n] \in Nat
  PROVE  /\ DurableTxOffsetOptional(n) \in OptionOffset
         /\ \A from \in Nat : IterStartingFromOffset(n, from) \in Seq(DatabaseLogEntry)
<1> DEFINE entries == log[n]
           decided == decided_idx[n]
<1>1. /\ entries \in Seq(DatabaseLogEntry) /\ Len(entries) \in Nat /\ decided \in Nat
      /\ \A i \in 1 .. Len(entries) : entries[i].tx_offset \in Nat
  <2>1. entries \in Seq(DatabaseLogEntry) /\ Len(entries) \in Nat /\ decided \in Nat
    OBVIOUS
  <2>2. \A i \in 1 .. Len(entries) : entries[i] \in DatabaseLogEntry
    BY <2>1
  <2> QED BY <2>1, <2>2 DEF DatabaseLogEntry, Offset
<1>2. DecidedLen(n) \in 0 .. Len(entries)
  BY <1>1, DecidedSlackAssumption DEF DecidedLen, MinOf
<1>3. DurableTxOffsetOptional(n) \in OptionOffset
  BY <1>1, <1>2 DEF DurableTxOffsetOptional, OptionOffset, NoTxOffset, NoOffset
<1>4. ASSUME NEW from \in Nat
      PROVE  IterStartingFromOffset(n, from) \in Seq(DatabaseLogEntry)
  <2>1. \A p \in 1 .. Len(entries) + 2, q \in 0 .. Len(entries) :
          SubSeq(entries, p, q) \in Seq(DatabaseLogEntry)
    BY <1>1
  <2>2. \A p \in Nat \ {0}, q \in 0 .. Len(entries) :
          SubSeq(entries, p, q) \in Seq(DatabaseLogEntry)
    <3> TAKE p \in Nat \ {0}, q \in 0 .. Len(entries)
    <3>1. CASE p <= q
      BY <3>1, <1>1
    <3>2. CASE q < p
      <4>1. SubSeq(entries, p, q) = << >>
        BY <3>2, <1>1
      <4> QED BY <4>1
    <3> QED BY <3>1, <3>2, <1>1
  <2>3. MinOf(from + 1, DecidedLen(n)) \in 0 .. Len(entries)
    BY <1>1, <1>2 DEF MinOf
  <2>4. from + 1 \in Nat \ {0} /\ from + 2 \in Nat \ {0}
    OBVIOUS
  <2> HIDE DEF entries, decided
  <2>5. /\ SubSeq(entries, from + 1, MinOf(from + 1, DecidedLen(n))) \in Seq(DatabaseLogEntry)
        /\ SubSeq(entries, from + 2, DecidedLen(n)) \in Seq(DatabaseLogEntry)
    BY <1>2, <2>2, <2>3, <2>4
  <2> QED BY <2>5 DEF IterStartingFromOffset, entries
<1> QED BY <1>3, <1>4

\* apply_replicated_txns, in each of its returns.
LEMMA ApplyInStep ==
  ASSUME NEW n \in Server, log[n] \in Seq(DatabaseLogEntry), decided_idx[n] \in Nat,
         NEW nd \in NodesInStep
  PROVE  ApplyReplicatedTxns(n, nd) \in NodesInStep
<1> DEFINE durable == DurableTxOffsetOptional(n)
           datastore == Advance(nd.datastore, durable)
           advanced == [nd EXCEPT !.last_applied_index = durable,
                                  !.datastore = datastore,
                                  !.got_promoted_leader = FALSE]
           entries == IterStartingFromOffset(n, ReplayFrom(nd))
           after == ReplayEntries(nd, entries)
           replayed == [after EXCEPT !.got_promoted_leader = FALSE]
<1>1. nd \in NodeType /\ InStep(nd)
  BY DEF NodesInStep
<1>2. Panicked(nd) \in NodesInStep
  BY <1>1 DEF NodesInStep, NodeType, InStep, Panicked
<1>3. DecidedNews(n, nd) => advanced \in NodesInStep
  <2> SUFFICES ASSUME DecidedNews(n, nd) PROVE advanced \in NodesInStep
    OBVIOUS
  <2>1. durable \in Nat
    BY LogReads DEF DecidedNews, OptionOffset
  <2>2. datastore \in CommittedStateType
    BY <1>1, <2>1, NodeParts, AdvanceType
  <2>3. datastore.replicated_tx_offset = durable
    BY DEF Advance
  <2> HIDE DEF datastore, durable
  <2> QED BY <1>1, <2>1, <2>2, <2>3 DEF NodesInStep, NodeType, InStep, OptionOffset
<1>4. replayed \in NodesInStep
  <2>1. ReplayFrom(nd) \in Nat
    BY <1>1, NodeParts DEF ReplayFrom, OptionOffset, NoOffset
  <2>2. entries \in Seq(DatabaseLogEntry)
    BY <2>1, LogReads
  <2>3. after \in NodesInStep
    <3> HIDE DEF entries
    <3> QED BY <2>2, ReplayEntriesInStep
  <2> HIDE DEF after
  <2> QED BY <2>3 DEF NodesInStep, NodeType, InStep
<1>5. \/ ApplyReplicatedTxns(n, nd) = nd
      \/ ApplyReplicatedTxns(n, nd) = Panicked(nd)
      \/ ApplyReplicatedTxns(n, nd) = replayed
      \/ DecidedNews(n, nd) /\ ApplyReplicatedTxns(n, nd) = advanced
  BY Zenon DEF ApplyReplicatedTxns
<1> HIDE DEF replayed, advanced
<1> QED BY <1>2, <1>3, <1>4, <1>5

\* update_leader, with the apply_replicated_txns in it.
LEMMA UpdateInStep ==
  ASSUME NEW n \in Server, log[n] \in Seq(DatabaseLogEntry), decided_idx[n] \in Nat,
         NEW nd \in NodesInStep, GetCurrentLeader(n) \in Server
  PROVE  UpdatedLeader(n, nd) \in NodesInStep
<1> DEFINE promoted == [nd EXCEPT !.got_promoted_leader = TRUE]
           applied == ApplyReplicatedTxns(n, promoted)
           leader == GetCurrentLeader(n)
<1>1. nd \in NodeType /\ InStep(nd)
  BY DEF NodesInStep
<1>2. RolledBack(nd) \in NodesInStep
  <2> DEFINE datastore == Rollback(nd.datastore)
  <2>1. datastore \in CommittedStateType
    BY <1>1, NodeParts, RollbackType
  <2>2. datastore.replicated_tx_offset = nd.datastore.replicated_tx_offset
    BY DEF Rollback
  <2>3. RolledBack(nd) = [nd EXCEPT !.datastore = datastore]
    BY DEF RolledBack
  <2> HIDE DEF datastore
  <2> QED BY <1>1, <2>1, <2>2, <2>3 DEF NodesInStep, NodeType, InStep
<1>3. applied \in NodesInStep
  <2>1. promoted \in NodesInStep
    BY <1>1 DEF NodesInStep, NodeType, InStep
  <2> HIDE DEF promoted
  <2> QED BY <2>1, ApplyInStep
<1>4. \A x \in NodesInStep : [x EXCEPT !.current_leader = leader] \in NodesInStep
  <2> HIDE DEF leader
  <2>1. leader \in Server
    BY DEF leader
  <2> QED BY <2>1 DEF NodesInStep, NodeType, InStep
<1>5. \E x \in {nd, RolledBack(nd), applied} :
        UpdatedLeader(n, nd) \in {x, [x EXCEPT !.current_leader = leader]}
  BY DEF UpdatedLeader
<1> HIDE DEF applied, leader
<1> QED BY <1>2, <1>3, <1>4, <1>5

-----------------------------------------------------------------------------
\* What holds whatever the timing.
ClusterInv ==
  /\ PaxosInv(DatabaseLogEntry)
  /\ node \in [Server -> NodesInStep]
  /\ polling \subseteq Server
  /\ commits \in 0 .. Len(Transactions)

\* What the cluster does to omnipaxos is what omnipaxos does, with entries
\* that commit_mut_tx makes.
LEMMA NextIsPaxosNext ==
  ASSUME ClusterInv, [Next]_vars
  PROVE  [PaxosNext(DatabaseLogEntry)]_paxos_vars
<1>1. ASSUME NEW n \in Server, CommitMutTx(n)
      PROVE  PaxosStep(n, DatabaseLogEntry)
  <2> DEFINE entry == LogEntry(node[n].datastore.next_tx_offset,
                               TxDataOf(Transactions[commits + 1]))
  <2>1. GetCurrentLeader(n) = n /\ AppendEntry(n, entry)
    BY <1>1 DEF CommitMutTx, IsLeader, AppendTx
  <2>2. node[n].datastore.next_tx_offset \in Nat
    BY NodeParts, CommittedStateParts DEF ClusterInv, NodesInStep
  <2>3. TxDataOf(Transactions[commits + 1]) \in TxData
    <3>1. commits + 1 \in 1 .. Len(Transactions)
      BY <1>1, TransactionsAssumption DEF CommitMutTx, ClusterInv
    <3>2. Transactions[commits + 1] \in Diffs
      BY <3>1, TransactionsAssumption
    <3> QED BY <3>2, TxDataOfType
  <2>4. entry \in DatabaseLogEntry
    BY <2>2, <2>3 DEF LogEntry, DatabaseLogEntry, Offset
  <2> HIDE DEF entry
  <2> QED BY <2>1, <2>4 DEF PaxosStep
<1>2. ASSUME NEW n \in Server, Elect(n)
      PROVE  PaxosStep(n, DatabaseLogEntry)
  BY <1>2 DEF Elect, PaxosStep
<1>3. ASSUME NEW n \in Server, HandleIncoming(n)
      PROVE  PaxosStep(n, DatabaseLogEntry)
  <2>1. \A i \in 0 .. Len(Transactions) : i \in Nat
    BY TransactionsAssumption
  <2> QED BY <1>3, <2>1 DEF HandleIncoming, PaxosStep
<1>4. ASSUME NEW n \in Server, UpdateLeader(n) \/ Apply(n) \/ Stop(n)
      PROVE  UNCHANGED paxos_vars
  BY <1>4 DEF UpdateLeader, Apply, Stop
<1> QED BY <1>1, <1>2, <1>3, <1>4 DEF Next, PaxosNext, vars

LEMMA ClusterInvInitially == Init => ClusterInv
<1> SUFFICES ASSUME Init PROVE ClusterInv
  OBVIOUS
<1>1. PaxosInv(DatabaseLogEntry)
  BY PaxosInvInitially DEF Init
<1>2. NewNode \in NodesInStep
  BY FreshType DEF NewNode, NodesInStep, NodeType, InStep, Fresh, OptionOffset, NoOffset
<1>3. 0 \in 0 .. Len(Transactions)
  BY TransactionsAssumption
<1> QED BY <1>1, <1>2, <1>3 DEF Init, ClusterInv

LEMMA ClusterInvStep ==
  ASSUME ClusterInv, [Next]_vars
  PROVE  ClusterInv'
<1>1. PaxosInv(DatabaseLogEntry)'
  BY NextIsPaxosNext, PaxosInvStep DEF ClusterInv
<1>2. node \in [Server -> NodesInStep] /\ polling \subseteq Server
      /\ commits \in Nat /\ commits <= Len(Transactions) /\ Len(Transactions) \in Nat
  BY TransactionsAssumption DEF ClusterInv
<1>3. \A n \in Server : log[n] \in Seq(DatabaseLogEntry) /\ decided_idx[n] \in Nat
  BY ServerTypes DEF ClusterInv, PaxosInv, Local
<1>4. ASSUME NEW n \in Server, UpdateLeader(n)
      PROVE  node' \in [Server -> NodesInStep] /\ polling' \subseteq Server /\ commits' = commits
  <2>1. GetCurrentLeader(n) \in Server
    <3>1. promised[n] # 0
      BY <1>4 DEF UpdateLeader, LeaderNews, GetCurrentLeader
    <3>2. promised[n] \in Ballot
      BY <3>1, ServerTypes DEF ClusterInv, PaxosInv, Local, ServersOK, ServerOK, Ballot
    <3> QED BY <3>1, <3>2, BallotTypes DEF GetCurrentLeader, ClusterInv, PaxosInv, Local
  <2>2. UpdatedLeader(n, node[n]) \in NodesInStep
    BY <1>2, <1>3, <2>1, UpdateInStep
  <2> QED BY <1>2, <1>4, <2>2 DEF UpdateLeader
<1>5. ASSUME NEW n \in Server, Apply(n)
      PROVE  node' \in [Server -> NodesInStep] /\ polling' \subseteq Server /\ commits' = commits
  <2>1. ApplyReplicatedTxns(n, node[n]) \in NodesInStep
    BY <1>2, <1>3, ApplyInStep
  <2> QED BY <1>2, <1>5, <2>1 DEF Apply
<1>6. ASSUME NEW n \in Server, CommitMutTx(n)
      PROVE  /\ node' \in [Server -> NodesInStep] /\ polling' \subseteq Server
             /\ commits' \in 0 .. Len(Transactions)
  <2> DEFINE nd == node[n]
             datastore == Commit(nd.datastore, Transactions[commits + 1])
             committed == [nd EXCEPT !.datastore = datastore]
  <2>1. commits + 1 \in 1 .. Len(Transactions) /\ commits' = commits + 1 /\ polling' = polling
    BY <1>2, <1>6 DEF CommitMutTx
  <2>2. Transactions[commits + 1] \in Diffs
    BY <2>1, TransactionsAssumption
  <2>3. nd \in NodeType /\ InStep(nd)
    BY <1>2 DEF NodesInStep
  <2>4. datastore \in CommittedStateType
    BY <2>2, <2>3, NodeParts, CommitType
  <2>5. datastore.replicated_tx_offset = nd.datastore.replicated_tx_offset
    BY DEF Commit
  <2>6. committed \in NodesInStep
    <3> HIDE DEF datastore, nd
    <3> QED BY <2>3, <2>4, <2>5 DEF NodesInStep, NodeType, InStep
  <2>7. node' = [node EXCEPT ![n] = committed]
    BY <1>6 DEF CommitMutTx
  <2> HIDE DEF committed
  <2> QED BY <1>2, <2>1, <2>6, <2>7
<1>7. ASSUME NEW n \in Server, Stop(n)
      PROVE  node' \in [Server -> NodesInStep] /\ polling' \subseteq Server /\ commits' = commits
  <2> DEFINE stopped == [node[n] EXCEPT !.is_running = FALSE]
  <2>1. stopped \in NodesInStep
    BY <1>2 DEF NodesInStep, NodeType, InStep
  <2>2. node' = [node EXCEPT ![n] = stopped]
    BY <1>7 DEF Stop
  <2> HIDE DEF stopped
  <2> QED BY <1>2, <1>7, <2>1, <2>2 DEF Stop
<1>8. ASSUME NEW n \in Server, Elect(n) \/ HandleIncoming(n)
      PROVE  UNCHANGED <<node, polling, commits>>
  BY <1>8 DEF Elect, HandleIncoming
<1>9. CASE UNCHANGED vars
  BY <1>1, <1>9 DEF ClusterInv, vars
<1> QED
  BY <1>1, <1>2, <1>4, <1>5, <1>6, <1>7, <1>8, <1>9 DEF Next, ClusterInv

\* Offsets, logs and the fields of the nodes have their types; a decided
\* index is within the log.
LEMMA ClusterInvTypes == ClusterInv => TypeOK
<1> SUFFICES ASSUME ClusterInv PROVE TypeOK
  OBVIOUS
<1>0. PaxosTypeOK(DatabaseLogEntry) /\ BallotsOK /\ ServersOK
  BY DEF ClusterInv, PaxosInv, Local
<1>1. ASSUME NEW b \in Ballot
      PROVE  /\ ballots[b].leader \in Server /\ ballots[b].ready \in BOOLEAN
             /\ ballots[b].decided \in 0 .. Len(ballots[b].log)
  BY <1>0, BallotTypes DEF BallotsOK
<1>2. ASSUME NEW n \in Server
      PROVE  /\ promised[n] \in 0 .. Len(ballots) /\ accepted_round[n] \in 0 .. Len(ballots)
             /\ decided_idx[n] \in 0 .. Len(log[n])
  <2>1. Len(ballots) \in Nat
    BY <1>0 DEF PaxosTypeOK
  <2> QED BY <1>0, <2>1, ServerTypes DEF ServersOK, ServerOK
<1>3. /\ promised \in [Server -> 0 .. Len(ballots)]
      /\ accepted_round \in [Server -> 0 .. Len(ballots)]
  BY <1>0, <1>2 DEF PaxosTypeOK
<1>4. node \in [Server -> NodeType] /\ polling \subseteq Server /\ commits \in 0 .. Len(Transactions)
  BY DEF ClusterInv, NodesInStep
<1> QED BY <1>1, <1>2, <1>3, <1>4 DEF TypeOK

-----------------------------------------------------------------------------
THEOREM ClusterInvariant == Spec => []ClusterInv
BY ClusterInvInitially, ClusterInvStep, PTL DEF Spec

\* Cluster!TypeOK, for every cluster and every Discipline.
THEOREM TypeCorrect == Spec => []TypeOK
BY ClusterInvariant, ClusterInvTypes, PTL

\* The replicated offset of the Node and that of its datastore, two variables
\* behind two mutexes, are the same between any two critical sections.
THEOREM AppliedIsReplicated == Spec => []LastAppliedIsReplicated
<1>1. ClusterInv => LastAppliedIsReplicated
  BY DEF ClusterInv, NodesInStep, InStep, LastAppliedIsReplicated
<1> QED BY <1>1, ClusterInvariant, PTL

\* The cluster does to omnipaxos only what omnipaxos does.
THEOREM ClusterUsesPaxos == Spec => PaxosSpec(DatabaseLogEntry)
<1>1. Init => PaxosInit
  BY DEF Init
<1> QED BY <1>1, NextIsPaxosNext, ClusterInvariant, PTL DEF Spec, PaxosSpec

\* The nodes of the database agree on the decided entries of their logs.
THEOREM LogsAgree == Spec => []DecidedAgreement
<1>1. PaxosSpec(DatabaseLogEntry) => []DecidedAgreement
  BY PaxosAgreement
<1> QED BY <1>1, ClusterUsesPaxos, PTL

\* No entry that a node knows decided is ever taken back or replaced.
THEOREM DecidedStays == Spec => DecidedIsStable
<1>1. PaxosSpec(DatabaseLogEntry) => DecidedIsStable
  BY PaxosKeepsDecided
<1> QED BY <1>1, ClusterUsesPaxos, PTL

-----------------------------------------------------------------------------
(***************************************************************************)
(* What holds of the distributed database in every cluster, if time is as  *)
(* the tests make it.                                                      *)
(*                                                                         *)
(* A node is in one of two states. Mostly it is Level: its datastore has   *)
(* nothing in memory, and in its replicated state the first a entries of   *)
(* its log. A leader that has committed a transaction is Ahead by that one *)
(* entry, the last of its log, until it learns that it is decided. Which   *)
(* way an entry goes from the log into the datastore, replay or advance,   *)
(* depends on got_promoted_leader; the invariant says why the flag is set  *)
(* whenever a leader adopted entries that its datastore does not have, and *)
(* why it does no harm when it is set for no reason.                       *)
(*                                                                         *)
(* From this follows what the properties of Cluster say of one node and    *)
(* its log, and in the last part that all nodes together implement         *)
(* ReplicatedDatabase: ChosenLog only grows, one transaction at a time,    *)
(* and what a node shows is what a prefix of it leaves.                    *)
(***************************************************************************)

\* All that the tests leave to time, and the label that read gives.
Disciplined ==
  /\ DecidedSlack = 1
  /\ {PromptPolls, OneInFlight, BallotsSeen, QuietSync, FirstTxEverywhere} \subseteq Discipline

-----------------------------------------------------------------------------
(***************************************************************************)
(* The logs, with no node in sight.                                        *)
(***************************************************************************)
Numbered(entries) == \A i \in 1 .. Len(entries) : entries[i].tx_offset = i - 1

\* Nothing is proposed while Prepare lasts, and from then on one entry at a
\* time.
BallotQuiet(b) ==
  LET r == ballots[b]
  IN  /\ Numbered(r.log)
      /\ ~r.ready => r.log = << >>
      /\ \A j \in r.adopted + 1 .. Len(r.log) : r.decided_at[j] = j - 1
      /\ commits = 0 => r.log = << >>

\* At most one entry of a log is undecided, none while Prepare lasts. The
\* log of a leader is that of its ballot, whatever it has promised since.
LogQuiet(n) ==
  LET a == accepted_round[n]
  IN  /\ Numbered(log[n])
      /\ Len(log[n]) <= decided_idx[n] + 1
      /\ promised[n] # 0 /\ ~ballots[promised[n]].ready => decided_idx[n] = Len(log[n])
      /\ a # 0 /\ ballots[a].leader = n => log[n] = ballots[a].log
      /\ commits = 0 => log[n] = << >>

LogsQuiet == (\A b \in Ballot : BallotQuiet(b)) /\ (\A n \in Server : LogQuiet(n))

\* While a server has not applied the first transaction, there is no other
\* ballot than the one in which it was committed.
FirstInv ==
  commits > 0 =>
    /\ \/ \A n \in Server : decided_idx[n] > 0
       \/ \A n \in Server : accepted_round[n] = Len(ballots)
    /\ \A n \in Server : promised[n] # 0 /\ node[n].current_leader # NoLeader

-----------------------------------------------------------------------------
(***************************************************************************)
(* One node and its log.                                                   *)
(***************************************************************************)

\* How many entries of its log a server reads as decided.
Known(n) == IF decided_idx[n] = 0 THEN MinOf(1, Len(log[n])) ELSE decided_idx[n]

TxDatas(entries) == [i \in 1 .. Len(entries) |-> entries[i].tx_data]

\* The datastore has applied the first a entries.
Applied(cs, entries, a) ==
  /\ cs.replicated_tx_offset = a - 1
  /\ \A k \in Key : LogLeaves(TxDatas(entries), a, k, cs.replicated_state[k])

Level(cs, entries, a) ==
  /\ Applied(cs, entries, a)
  /\ cs.next_tx_offset = a
  /\ \A k \in Key : cs.committed_diff[k] = << >>

\* What the entry at offset a left in the history of k.
DiffOf(history, data, a, k) ==
  IF Touches(data, k)
  THEN Len(history) = 1 /\ history[1].offset = a /\ Writes(data, k, history[1].diff)
  ELSE history = << >>

Ahead(cs, entries, a) ==
  /\ Applied(cs, entries, a)
  /\ cs.next_tx_offset = a + 1
  /\ a + 1 = Len(entries)
  /\ \A k \in Key : DiffOf(cs.committed_diff[k], entries[a + 1].tx_data, a, k)

AppliedLenOf(n) == node[n].datastore.replicated_tx_offset + 1

\* The node is level or ahead with what it has applied, and has applied what
\* it reads as decided, or else all of its log is.
NodeLevel(n) ==
  LET nd == node[n]
      a == AppliedLenOf(n)
  IN  /\ ~nd.poisoned
      /\ \/ Level(nd.datastore, log[n], a)
         \/ Ahead(nd.datastore, log[n], a) /\ nd.current_leader = n /\ promised[n] # 0
      /\ a <= Known(n)
      /\ a < Known(n) => Known(n) = Len(log[n])
      /\ decided_idx[n] > 0 => a > 0

News(n) == AppliedLenOf(n) # Known(n)

\* Polls come in time.
NodePolled(n) ==
  /\ n \in polling => ~LeaderNews(n)
  /\ LeaderNews(n) => ~News(n)
  /\ IsLeader(n) /\ ~ballots[promised[n]].ready => ~News(n)
  /\ IsLeader(n) /\ LeaderNews(n) => ~ballots[promised[n]].ready

\* A leader whose Prepare lasts adopts nothing that is new to it, as nobody
\* led since it did.
LedSince(n) ==
  LET a == accepted_round[n]
  IN  /\ a # 0
      /\ \A c \in a .. promised[n] : ballots[c].leader = n /\ (c # a => ~ballots[c].ready)

\* A leader is ahead of what is decided, or was promoted if it is behind.
NodeLeads(n) ==
  IsLeader(n) =>
    /\ commits > 0 => node[n].datastore.next_tx_offset > 0
    /\ ~LeaderNews(n) =>
       IF ballots[promised[n]].ready
       THEN /\ decided_idx[n] < Len(log[n]) => node[n].datastore.next_tx_offset = Len(log[n])
            /\ News(n) => \/ node[n].got_promoted_leader
                          \/ node[n].datastore.next_tx_offset = AppliedLenOf(n) + 1
       ELSE node[n].got_promoted_leader \/ commits = 0 \/ LedSince(n)

NodeInv(n) == NodeLevel(n) /\ NodePolled(n) /\ NodeLeads(n)

DisciplinedInv ==
  /\ ClusterInv
  /\ LogsQuiet
  /\ FirstInv
  /\ \A n \in Server : NodeInv(n)

-----------------------------------------------------------------------------
(***************************************************************************)
(* What the operations do to a datastore that is level or ahead.           *)
(***************************************************************************)

\* A log that begins with the same a entries.
LEMMA AppliedKept ==
  ASSUME NEW cs, NEW entries, NEW more, NEW a \in Nat,
         Len(entries) \in Nat, Len(more) \in Nat, a <= Len(entries), a <= Len(more),
         \A i \in 1 .. a : more[i] = entries[i], Applied(cs, entries, a)
  PROVE  Applied(cs, more, a)
<1>1. \A i \in 1 .. a : TxDatas(more)[i] = TxDatas(entries)[i]
  BY DEF TxDatas
<1> QED BY <1>1, LogLeavesAgree DEF Applied

\* replay_transaction with the next entry, and the advance behind it.
LEMMA ReplayLevel ==
  ASSUME NEW nd \in NodesInStep, NEW entries \in Seq(DatabaseLogEntry), Numbered(entries),
         NEW a \in Nat, a < Len(entries), Level(nd.datastore, entries, a)
  PROVE  LET next == ReplayEntry(nd, entries[a + 1])
         IN  /\ Level(next.datastore, entries, a + 1)
             /\ next.poisoned = nd.poisoned
             /\ next.current_leader = nd.current_leader
<1> DEFINE cs == nd.datastore
           entry == entries[a + 1]
           replayed == Replay(cs, entry.tx_data)
           advanced == Advance(replayed, entry.tx_offset)
           datas == TxDatas(entries)
<1>0. Len(entries) \in Nat /\ a + 1 \in 1 .. Len(entries) /\ entry \in DatabaseLogEntry
  OBVIOUS
<1>1. entry.tx_offset = a /\ datas[a + 1] = entry.tx_data
  BY <1>0 DEF Numbered, TxDatas
<1>2. CanReplay(cs)
  BY DEF CanReplay, Level, Applied
<1>3. ReplayEntry(nd, entry) = [nd EXCEPT !.datastore = advanced,
                                          !.last_applied_index = entry.tx_offset]
  BY <1>2 DEF ReplayEntry
<1>4. /\ replayed.next_tx_offset = a + 1
      /\ \A k \in Key : replayed.committed_diff[k] = << >>
      /\ \A k \in Key : replayed.replicated_state[k] =
           IF k \in entry.tx_data.deletes THEN NoValue
           ELSE IF k \in DOMAIN entry.tx_data.inserts THEN entry.tx_data.inserts[k]
           ELSE cs.replicated_state[k]
  BY DEF Replay, Level
<1>5. ASSUME NEW k \in Key
      PROVE  /\ advanced.committed_diff[k] = << >>
             /\ advanced.replicated_state[k] = replayed.replicated_state[k]
  <2> HIDE DEF replayed
  <2>1. << >> \in Seq(HistoryEntry) /\ Len(<< >>) = 0 /\ a \in Int
    OBVIOUS
  <2>2. AppliedLen(<< >>, a) = 0
    <3>1. AppliedLen(<< >>, a) \in 0 .. 0
      BY <2>1, AppliedLenProperties
    <3> QED BY <3>1
  <2>3. SubSeq(<< >>, 2, 0) = << >>
    OBVIOUS
  <2> QED BY <1>1, <1>4, <2>1, <2>2, <2>3 DEF Advance
<1>6. /\ advanced.next_tx_offset = a + 1
      /\ advanced.replicated_tx_offset = a
  BY <1>1, <1>4 DEF Advance
<1>7. ASSUME NEW k \in Key
      PROVE  LogLeaves(datas, a + 1, k, replayed.replicated_state[k])
  <2>1. a + 1 \in Nat /\ a + 1 \in 1 .. a + 1 /\ (a + 1) + 1 .. a + 1 = {}
    OBVIOUS
  <2>2. CASE Touches(entry.tx_data, k)
    <3>1. Writes(datas[a + 1], k, replayed.replicated_state[k])
      BY <1>1, <1>4, <2>2 DEF Touches, Writes
    <3> HIDE DEF replayed, datas
    <3> QED BY <2>1, <3>1, LogLeavesWrite
  <2>3. CASE ~Touches(entry.tx_data, k)
    <3>1. replayed.replicated_state[k] = cs.replicated_state[k]
      BY <1>4, <2>3 DEF Touches
    <3>2. LogLeaves(datas, a, k, cs.replicated_state[k])
      BY DEF Level, Applied
    <3>3. \A i \in a + 1 .. a + 1 : ~Touches(datas[i], k)
      BY <1>1, <2>3
    <3> HIDE DEF replayed, datas, cs
    <3> QED BY <2>1, <3>1, <3>2, <3>3, LogLeavesExtends
  <2> QED BY <2>2, <2>3
<1>8. Level(advanced, entries, a + 1)
  <2> HIDE DEF advanced, replayed
  <2> QED BY <1>5, <1>6, <1>7 DEF Level, Applied
<1>9. nd \in NodeType
  BY DEF NodesInStep
<1> HIDE DEF advanced
<1> QED BY <1>3, <1>8, <1>9 DEF NodeType

\* The loop over the entries up to position t.
LEMMA ReplaysLevel ==
  ASSUME NEW nd \in NodesInStep, NEW entries \in Seq(DatabaseLogEntry), Numbered(entries),
         NEW a \in Nat, NEW t \in Nat, a <= t, t <= Len(entries),
         Level(nd.datastore, entries, a)
  PROVE  LET last == ReplayEntries(nd, SubSeq(entries, a + 1, t))
         IN  /\ Level(last.datastore, entries, t)
             /\ last \in NodesInStep
             /\ last.poisoned = nd.poisoned
             /\ last.current_leader = nd.current_leader
<1> DEFINE part == SubSeq(entries, a + 1, t)
<1>1. /\ part \in Seq(DatabaseLogEntry) /\ Len(part) = t - a /\ Len(part) \in Nat
      /\ \A i \in 1 .. t - a : part[i] = entries[a + i] /\ entries[a + i] \in DatabaseLogEntry
  <2>1. Len(entries) \in Nat
    OBVIOUS
  <2>2. CASE a < t
    <3>1. a + 1 \in 1 .. Len(entries) /\ t \in 1 .. Len(entries)
      BY <2>1, <2>2
    <3> QED BY <2>1, <2>2, <3>1
  <2>3. CASE a = t
    <3>1. part = << >>
      BY <2>1, <2>3
    <3> HIDE DEF part
    <3> QED BY <2>1, <2>3, <3>1
  <2> QED BY <2>2, <2>3
<1>2. PICK after :
        /\ after[0] = nd
        /\ \A i \in 1 .. Len(part) : after[i] = ReplayEntry(after[i - 1], part[i])
        /\ ReplayEntries(nd, part) = after[Len(part)]
  <2>1. Len(part) \in Nat
    BY <1>1
  <2> HIDE DEF part
  <2> QED BY <2>1, ReplayLoop, ZenonT(60)
<1> DEFINE Right(i) == /\ after[i] \in NodesInStep
                       /\ Level(after[i].datastore, entries, a + i)
                       /\ after[i].poisoned = nd.poisoned
                       /\ after[i].current_leader = nd.current_leader
           Wrong == {i \in 0 .. t - a : ~Right(i)}
<1>3. Wrong = {}
  <2> SUFFICES ASSUME Wrong # {} PROVE FALSE
    OBVIOUS
  <2>1. PICK i \in Wrong : \A j \in Wrong : i <= j
    <3>1. Wrong \subseteq Nat
      OBVIOUS
    <3> HIDE DEF Wrong
    <3> QED BY <3>1, LeastElement
  <2>2. i \in 0 .. t - a /\ ~Right(i)
    OBVIOUS
  <2>3. i # 0
    BY <1>2, <2>2
  <2>4. i - 1 \in 0 .. t - a /\ i \in 1 .. t - a
    BY <2>2, <2>3
  <2>5. Right(i - 1)
    BY <2>1, <2>4
  <2> DEFINE b == a + (i - 1)
             before == after[i - 1]
  <2>6. /\ b \in Nat /\ b + 1 = a + i /\ b < Len(entries)
        /\ after[i] = ReplayEntry(before, entries[b + 1]) /\ entries[b + 1] \in DatabaseLogEntry
    BY <1>1, <1>2, <2>4
  <2>7. before \in NodesInStep /\ Level(before.datastore, entries, b)
        /\ before.poisoned = nd.poisoned /\ before.current_leader = nd.current_leader
    BY <2>5
  <2> HIDE DEF b, before, Right
  <2>8. /\ after[i] \in NodesInStep
        /\ Level(after[i].datastore, entries, a + i)
        /\ after[i].poisoned = nd.poisoned
        /\ after[i].current_leader = nd.current_leader
    BY <2>6, <2>7, ReplayLevel, ReplayEntryInStep
  <2> QED BY <2>2, <2>8 DEF Right
<1>4. t - a \in 0 .. t - a /\ a + (t - a) = t
  OBVIOUS
<1>5. Right(t - a)
  <2> HIDE DEF Right
  <2> QED BY <1>3, <1>4
<1>6. /\ Level(after[t - a].datastore, entries, t) /\ after[t - a] \in NodesInStep
      /\ after[t - a].poisoned = nd.poisoned /\ after[t - a].current_leader = nd.current_leader
  BY <1>4, <1>5
<1>7. ReplayEntries(nd, part) = after[t - a]
  BY <1>1, <1>2
<1> QED BY <1>6, <1>7

\* advance_replicated_durability_offset at a leader, when its entry is decided.
LEMMA AdvanceAhead ==
  ASSUME NEW cs \in CommittedStateType, NEW entries \in Seq(DatabaseLogEntry),
         NEW a \in Nat, Ahead(cs, entries, a)
  PROVE  Level(Advance(cs, a), entries, a + 1)
<1> DEFINE data == entries[a + 1].tx_data
           advanced == Advance(cs, a)
           datas == TxDatas(entries)
<1>0. Len(entries) \in Nat /\ a + 1 \in 1 .. Len(entries) /\ datas[a + 1] = data
      /\ a + 1 \in Nat /\ a + 1 \in 1 .. a + 1 /\ (a + 1) + 1 .. a + 1 = {}
  BY DEF Ahead, TxDatas
<1>1. advanced.next_tx_offset = a + 1 /\ advanced.replicated_tx_offset = a
  BY DEF Advance, Ahead
<1>2. ASSUME NEW k \in Key
      PROVE  /\ advanced.committed_diff[k] = << >>
             /\ LogLeaves(datas, a + 1, k, advanced.replicated_state[k])
  <2> DEFINE history == cs.committed_diff[k]
             n == AppliedLen(history, a)
  <2>1. history \in Seq(HistoryEntry) /\ Len(history) \in Nat /\ a \in Int
    BY CommittedStateParts
  <2>2. DiffOf(history, data, a, k)
    BY DEF Ahead
  <2>3. n \in 0 .. Len(history) /\ (n < Len(history) => history[n + 1].offset > a)
    <3> HIDE DEF history
    <3> QED BY <2>1, AppliedLenProperties
  <2>4. /\ advanced.committed_diff[k] = SubSeq(history, n + 2, Len(history))
        /\ advanced.replicated_state[k] =
             IF n > 0 THEN history[n].diff ELSE cs.replicated_state[k]
    BY DEF Advance
  <2>5. LogLeaves(datas, a, k, cs.replicated_state[k])
    BY DEF Ahead, Applied
  <2> HIDE DEF history, n, data, datas, advanced
  <2>6. CASE Touches(data, k)
    <3>1. Len(history) = 1 /\ history[1].offset = a /\ Writes(data, k, history[1].diff)
      BY <2>2, <2>6 DEF DiffOf
    <3>2. n = 1
      BY <2>1, <2>3, <3>1
    <3>3. advanced.committed_diff[k] = << >>
      BY <2>1, <2>4, <3>1, <3>2, RemainderProperties
    <3>4. Writes(datas[a + 1], k, advanced.replicated_state[k])
      BY <1>0, <2>4, <3>1, <3>2
    <3> QED BY <1>0, <3>3, <3>4, LogLeavesWrite
  <2>7. CASE ~Touches(data, k)
    <3>1. history = << >> /\ Len(history) = 0
      BY <2>2, <2>7 DEF DiffOf
    <3>2. n = 0
      BY <2>3, <3>1
    <3>3. advanced.committed_diff[k] = << >> /\ advanced.replicated_state[k] = cs.replicated_state[k]
      BY <2>1, <2>4, <3>1, <3>2, RemainderProperties
    <3>4. \A i \in a + 1 .. a + 1 : ~Touches(datas[i], k)
      BY <1>0, <2>7
    <3> QED BY <1>0, <2>5, <3>3, <3>4, LogLeavesExtends
  <2> QED BY <2>6, <2>7
<1> HIDE DEF advanced
<1> QED BY <1>1, <1>2 DEF Level, Applied, advanced

\* rollback_to_replicated_durability_offset
LEMMA RollbackLevel ==
  ASSUME NEW cs, NEW entries, NEW a \in Nat, Applied(cs, entries, a)
  PROVE  Level(Rollback(cs), entries, a)
BY DEF Rollback, Level, Applied

\* commit_mut_tx at a leader that has its whole log.
LEMMA CommitAhead ==
  ASSUME NEW cs \in CommittedStateType, NEW entries \in Seq(DatabaseLogEntry),
         Level(cs, entries, Len(entries)), NEW d \in Diffs,
         NEW tx_offset \in Nat
  PROVE  Ahead(Commit(cs, d), Append(entries, LogEntry(tx_offset, TxDataOf(d))), Len(entries))
<1> DEFINE data == TxDataOf(d)
           entry == LogEntry(tx_offset, data)
           longer == Append(entries, entry)
           a == Len(entries)
           committed == Commit(cs, d)
<1>1. a \in Nat /\ data \in TxData /\ entry \in DatabaseLogEntry /\ entry.tx_data = data
  BY TxDataOfType DEF LogEntry, DatabaseLogEntry, Offset
<1> HIDE DEF data, entry
<1>2. /\ longer \in Seq(DatabaseLogEntry) /\ Len(longer) = a + 1 /\ longer[a + 1] = entry
      /\ \A i \in 1 .. a : longer[i] = entries[i]
  BY <1>1
<1>3. Applied(cs, longer, a)
  <2> HIDE DEF longer
  <2>1. Len(longer) \in Nat /\ a <= Len(entries) /\ a <= Len(longer) /\ Len(entries) \in Nat
    BY <1>1, <1>2
  <2>2. Applied(cs, entries, a)
    BY DEF Level
  <2> QED BY <1>1, <1>2, <2>1, <2>2, AppliedKept
<1>4. Applied(committed, longer, a) /\ committed.next_tx_offset = a + 1
  BY <1>3 DEF Applied, Commit, Level
<1>5. ASSUME NEW k \in Key
      PROVE  DiffOf(committed.committed_diff[k], data, a, k)
  <2>1. /\ Touches(data, k) <=> k \in DOMAIN d
        /\ k \in DOMAIN d => Writes(data, k, d[k])
    BY TxDataWrites DEF data
  <2>2. committed.committed_diff[k] =
          IF k \in DOMAIN d THEN Append(<< >>, [offset |-> a, diff |-> d[k]]) ELSE << >>
    BY DEF Commit, Level
  <2>3. k \in DOMAIN d => d[k] \in ValueOrNone
    BY DiffsDefinition
  <2>4. k \in DOMAIN d =>
          /\ Len(committed.committed_diff[k]) = 1
          /\ committed.committed_diff[k][1].offset = a
          /\ committed.committed_diff[k][1].diff = d[k]
    <3>1. Len(<< >>) = 0 /\ << >> \in Seq(HistoryEntry)
      OBVIOUS
    <3> HIDE DEF a, committed
    <3> QED BY <1>1, <2>2, <2>3, <3>1, LongerHistory
  <2> HIDE DEF committed
  <2> QED BY <2>1, <2>2, <2>4 DEF DiffOf
<1> HIDE DEF committed
<1> QED BY <1>1, <1>2, <1>4, <1>5 DEF Ahead, data, entry, committed

-----------------------------------------------------------------------------
(***************************************************************************)
(* What a node reads of its log.                                           *)
(***************************************************************************)
LEMMA ServerFacts ==
  ASSUME ClusterInv, NEW n \in Server
  PROVE  /\ Len(ballots) \in Nat
         /\ promised[n] \in Nat /\ promised[n] <= Len(ballots)
         /\ accepted_round[n] \in Nat /\ accepted_round[n] <= promised[n]
         /\ log[n] \in Seq(DatabaseLogEntry) /\ Len(log[n]) \in Nat
         /\ decided_idx[n] \in Nat /\ decided_idx[n] <= Len(log[n])
         /\ accepted_round[n] # 0 => ballots[accepted_round[n]].ready
         /\ promised[n] # 0 => promised[n] \in Ballot
         /\ accepted_round[n] # 0 => accepted_round[n] \in Ballot
<1>1. PaxosTypeOK(DatabaseLogEntry) /\ ServerOK(n) /\ Len(ballots) \in Nat
  BY DEF ClusterInv, PaxosInv, Local, ServersOK, PaxosTypeOK
<1>2. /\ promised[n] \in Nat /\ promised[n] <= Len(ballots)
      /\ accepted_round[n] \in Nat /\ accepted_round[n] <= promised[n]
      /\ log[n] \in Seq(DatabaseLogEntry) /\ Len(log[n]) \in Nat
      /\ decided_idx[n] \in Nat /\ decided_idx[n] <= Len(log[n])
      /\ accepted_round[n] # 0 => ballots[accepted_round[n]].ready
  BY <1>1, ServerTypes DEF ServerOK
<1>3. \A b \in Nat : b # 0 /\ b <= Len(ballots) => b \in Ballot
  BY <1>1 DEF Ballot
<1>4. accepted_round[n] <= Len(ballots)
  BY <1>1, <1>2
<1> QED BY <1>1, <1>2, <1>3, <1>4

LEMMA NodeFacts ==
  ASSUME ClusterInv, NEW n \in Server
  PROVE  /\ node[n] \in NodesInStep /\ node[n] \in NodeType
         /\ node[n].datastore \in CommittedStateType
         /\ AppliedLenOf(n) \in Nat
         /\ node[n].datastore.next_tx_offset \in Nat
         /\ node[n].last_applied_index = AppliedLenOf(n) - 1
<1>1. node[n] \in NodesInStep /\ node[n] \in NodeType /\ InStep(node[n])
  BY DEF ClusterInv, NodesInStep
<1>2. node[n].datastore \in CommittedStateType
  BY <1>1, NodeParts
<1>3. /\ node[n].datastore.next_tx_offset \in Nat
      /\ node[n].datastore.replicated_tx_offset \in Int
      /\ node[n].datastore.replicated_tx_offset >= -1
  BY <1>2, CommittedStateParts
<1> QED BY <1>1, <1>2, <1>3 DEF InStep, AppliedLenOf

LEMMA LeaderFacts ==
  ASSUME ClusterInv, NEW n \in Server
  PROVE  /\ GetCurrentLeader(n) \in Server \cup {NoLeader}
         /\ GetCurrentLeader(n) = NoLeader <=> promised[n] = 0
         /\ IsLeader(n) <=> promised[n] # 0 /\ ballots[promised[n]].leader = n
         /\ IsLeader(n) /\ ballots[promised[n]].ready =>
              /\ accepted_round[n] = promised[n]
              /\ log[n] = ballots[promised[n]].log
              /\ decided_idx[n] = ballots[promised[n]].decided
<1>1. PaxosTypeOK(DatabaseLogEntry) /\ LeadersOK
  BY DEF ClusterInv, PaxosInv, Local
<1>2. promised[n] # 0 => promised[n] \in Ballot /\ ballots[promised[n]].leader \in Server
  BY <1>1, ServerFacts, BallotTypes
<1>3. IsLeader(n) <=> promised[n] # 0 /\ ballots[promised[n]].leader = n
  BY NoLeaderAssumption DEF IsLeader, GetCurrentLeader
<1>4. ASSUME IsLeader(n), ballots[promised[n]].ready
      PROVE  /\ accepted_round[n] = promised[n]
             /\ log[n] = ballots[promised[n]].log
             /\ decided_idx[n] = ballots[promised[n]].decided
  BY <1>1, <1>2, <1>3, <1>4 DEF LeadersOK, LeaderOK
<1> QED BY <1>2, <1>3, <1>4, NoLeaderAssumption DEF GetCurrentLeader

\* get_durable_tx_offset_optional
LEMMA DurableIsKnown ==
  ASSUME ClusterInv, DecidedSlack = 1, NEW n \in Server, Numbered(log[n])
  PROVE  /\ Known(n) \in 0 .. Len(log[n])
         /\ DurableTxOffsetOptional(n) = Known(n) - 1
<1>1. /\ Len(log[n]) \in Nat /\ decided_idx[n] \in Nat /\ decided_idx[n] <= Len(log[n])
      /\ \A i \in 1 .. Len(log[n]) : log[n][i].tx_offset = i - 1
  BY ServerFacts DEF Numbered
<1>2. Known(n) \in 0 .. Len(log[n])
  BY <1>1 DEF Known, MinOf
<1>3. DecidedLen(n) = IF decided_idx[n] = Len(log[n]) THEN Len(log[n]) ELSE decided_idx[n] + 1
  BY <1>1 DEF DecidedLen, MinOf
<1>4. CASE decided_idx[n] = 0
  <2>1. DurableTxOffsetOptional(n) = IF 0 < DecidedLen(n) THEN log[n][0 + 1].tx_offset ELSE -1
    BY <1>4 DEF DurableTxOffsetOptional, NoTxOffset
  <2>2. Known(n) = IF Len(log[n]) = 0 THEN 0 ELSE 1
    BY <1>1, <1>4 DEF Known, MinOf
  <2>3. CASE Len(log[n]) = 0
    BY <1>3, <1>4, <2>1, <2>2, <2>3
  <2>4. CASE Len(log[n]) # 0
    <3>1. 0 < DecidedLen(n) /\ 1 \in 1 .. Len(log[n]) /\ 0 + 1 = 1
      BY <1>1, <1>3, <1>4, <2>4
    <3>2. log[n][1].tx_offset = 1 - 1
      BY <1>1, <3>1
    <3> QED BY <2>1, <2>2, <2>4, <3>1, <3>2
  <2> QED BY <2>3, <2>4
<1>5. CASE decided_idx[n] # 0
  <2>1. /\ decided_idx[n] - 1 < DecidedLen(n) /\ (decided_idx[n] - 1) + 1 = decided_idx[n]
        /\ decided_idx[n] \in 1 .. Len(log[n]) /\ decided_idx[n] > 0
    BY <1>1, <1>3, <1>5
  <2>2. DurableTxOffsetOptional(n) = log[n][decided_idx[n]].tx_offset
    BY <2>1 DEF DurableTxOffsetOptional
  <2> QED BY <1>1, <1>5, <2>1, <2>2 DEF Known
<1>6. DurableTxOffsetOptional(n) = Known(n) - 1
  BY <1>4, <1>5
<1> QED BY <1>2, <1>6

LEMMA DecidedNewsIsNews ==
  ASSUME ClusterInv, DecidedSlack = 1, NEW n \in Server, Numbered(log[n]),
         AppliedLenOf(n) <= Known(n)
  PROVE  DecidedNews(n, node[n]) <=> News(n)
<1>1. Known(n) \in Nat /\ DurableTxOffsetOptional(n) = Known(n) - 1
  BY DurableIsKnown, ServerFacts
<1>2. AppliedLenOf(n) \in Nat /\ node[n].last_applied_index = AppliedLenOf(n) - 1
  BY NodeFacts
<1> QED BY <1>1, <1>2 DEF DecidedNews, News, NoOffset

\* iter_starting_from_offset: the entries that are known and not applied.
LEMMA IterIsNext ==
  ASSUME ClusterInv, DecidedSlack = 1, NEW n \in Server, Numbered(log[n]),
         NodeLevel(n), News(n)
  PROVE  /\ ~IterPanics(n, ReplayFrom(node[n]))
         /\ IterStartingFromOffset(n, ReplayFrom(node[n]))
              = SubSeq(log[n], AppliedLenOf(n) + 1, Known(n))
<1> DEFINE a == AppliedLenOf(n)
           d == decided_idx[n]
           len == Len(log[n])
<1>1. /\ a \in Nat /\ d \in Nat /\ len \in Nat /\ d <= len
      /\ Known(n) \in 0 .. len /\ node[n].last_applied_index = a - 1
  BY NodeFacts, ServerFacts, DurableIsKnown
<1>2. a < Known(n) /\ Known(n) = len /\ (d > 0 => a > 0)
  BY <1>1 DEF NodeLevel, News
<1>3. ReplayFrom(node[n]) = IF a = 0 THEN 0 ELSE a - 1
  BY <1>1 DEF ReplayFrom, NoOffset
<1>4. ASSUME d = 0 PROVE a = 0 /\ len = 1 /\ Known(n) = 1
  <2>1. Known(n) = IF 1 <= len THEN 1 ELSE len
    BY <1>4 DEF Known, MinOf
  <2> HIDE DEF a, d, len
  <2> QED BY <1>1, <1>2, <2>1
<1>5. d # 0 => d = len
  BY <1>1, <1>2 DEF Known
<1>6. DecidedLen(n) = len
  <2>1. DecidedLen(n) = IF d + 1 <= len THEN d + 1 ELSE len
    BY DEF DecidedLen, MinOf
  <2> HIDE DEF d, len
  <2> QED BY <1>1, <1>4, <1>5, <2>1
<1>7. CASE d = 0
  <2>1. MinOf(1, len) = 1
    BY <1>4, <1>7 DEF MinOf
  <2>2. ReplayFrom(node[n]) = 0 /\ a + 1 = 1
    BY <1>3, <1>4, <1>7
  <2>3. 0 + 1 = 1 /\ ~(0 >= len)
    <3>1. len = 1
      BY <1>4, <1>7
    <3> HIDE DEF len
    <3> QED BY <3>1
  <2>4. IterStartingFromOffset(n, 0) = SubSeq(log[n], 1, 1)
    BY <1>4, <1>6, <1>7, <2>1, <2>3 DEF IterStartingFromOffset
  <2>5. ~IterPanics(n, 0)
    BY <2>3 DEF IterPanics
  <2> HIDE DEF a, len
  <2> QED BY <1>4, <1>7, <2>2, <2>4, <2>5 DEF a
<1>8. CASE d # 0
  <2>1. (a - 1) + 2 = a + 1 /\ a # 0
    BY <1>1, <1>2, <1>8
  <2>2. ReplayFrom(node[n]) = a - 1
    BY <1>3, <2>1
  <2>3. IterStartingFromOffset(n, a - 1) = SubSeq(log[n], a + 1, len)
    <3> HIDE DEF a, len
    <3> QED BY <1>6, <1>8, <2>1 DEF IterStartingFromOffset
  <2>4. ~IterPanics(n, a - 1)
    BY <1>8 DEF IterPanics
  <2> HIDE DEF a, len
  <2> QED BY <1>2, <2>2, <2>3, <2>4 DEF a
<1> QED BY <1>7, <1>8

\* A node that is ahead, and sees who leads, leads.
LEMMA AheadLeads ==
  ASSUME ClusterInv, NEW n \in Server, node[n].current_leader = n, promised[n] # 0,
         ~LeaderNews(n)
  PROVE  IsLeader(n)
BY LeaderFacts DEF LeaderNews, IsLeader

\* The invariant of a node, for reference where the proofs of the steps start.
LEMMA DisciplinedFacts ==
  ASSUME DisciplinedInv, NEW n \in Server
  PROVE  /\ ClusterInv /\ LogsQuiet /\ FirstInv
         /\ LogQuiet(n) /\ Numbered(log[n])
         /\ NodeLevel(n) /\ NodePolled(n) /\ NodeLeads(n)
         /\ commits \in Nat
<1>1. commits \in Nat
  BY TransactionsAssumption DEF DisciplinedInv, ClusterInv
<1> QED BY <1>1 DEF DisciplinedInv, LogsQuiet, LogQuiet, NodeInv

(***************************************************************************)
(* apply_replicated_txns at a node that sees who leads: afterwards it is   *)
(* level with what it knows decided, in whichever way it got there.        *)
(***************************************************************************)
LEMMA ApplyLevels ==
  ASSUME DisciplinedInv, Disciplined, NEW n \in Server, ~LeaderNews(n)
  PROVE  LET nd == ApplyReplicatedTxns(n, node[n])
         IN  /\ ~nd.poisoned
             /\ nd.current_leader = node[n].current_leader
             /\ ~News(n) => nd = node[n]
             /\ News(n) => Level(nd.datastore, log[n], Known(n))
<1> DEFINE nd == node[n]
           a == AppliedLenOf(n)
           t == Known(n)
           entries == log[n]
<1>0. /\ ClusterInv /\ Numbered(entries) /\ NodeLevel(n) /\ NodePolled(n) /\ NodeLeads(n)
      /\ DecidedSlack = 1 /\ LogQuiet(n) /\ commits \in Nat
  BY DisciplinedFacts DEF Disciplined
<1>1. /\ nd \in NodesInStep /\ nd \in NodeType /\ nd.datastore \in CommittedStateType
      /\ a \in Nat /\ nd.last_applied_index = a - 1
      /\ entries \in Seq(DatabaseLogEntry) /\ Len(entries) \in Nat
      /\ t \in 0 .. Len(entries) /\ t \in Nat /\ DurableTxOffsetOptional(n) = t - 1
  BY <1>0, NodeFacts, ServerFacts, DurableIsKnown
<1>2. a <= t /\ ~nd.poisoned /\ (a < t => t = Len(entries))
  BY <1>0 DEF NodeLevel
<1>3. DecidedNews(n, nd) <=> News(n)
  BY <1>0, <1>2, DecidedNewsIsNews
<1>4. CASE ~News(n)
  BY <1>2, <1>3, <1>4 DEF ApplyReplicatedTxns
<1>5. CASE News(n)
  <2>1. a < t /\ t = Len(entries) /\ DecidedNews(n, nd)
    BY <1>1, <1>2, <1>3, <1>5 DEF News
  <2>2. \/ Level(nd.datastore, entries, a)
        \/ Ahead(nd.datastore, entries, a) /\ IsLeader(n)
    BY <1>0, AheadLeads DEF NodeLevel
  <2>3. IsLeader(n) => /\ nd.datastore.next_tx_offset > 0
                       /\ nd.got_promoted_leader \/ nd.datastore.next_tx_offset = a + 1
    <3> SUFFICES ASSUME IsLeader(n)
                 PROVE  /\ nd.datastore.next_tx_offset > 0
                        /\ nd.got_promoted_leader \/ nd.datastore.next_tx_offset = a + 1
      OBVIOUS
    <3>1. ballots[promised[n]].ready
      BY <1>0, <1>5 DEF NodePolled
    <3>2. commits > 0
      <4>1. Len(<< >>) = 0
        OBVIOUS
      <4>2. entries # << >>
        BY <1>1, <2>1, <4>1
      <4> QED BY <1>0, <4>2 DEF LogQuiet
    <3> QED BY <1>0, <1>5, <3>1, <3>2 DEF NodeLeads
  <2>4. CASE Ahead(nd.datastore, entries, a) /\ IsLeader(n)
    <3> DEFINE datastore == Advance(nd.datastore, t - 1)
               advanced == [nd EXCEPT !.last_applied_index = t - 1,
                                      !.datastore = datastore,
                                      !.got_promoted_leader = FALSE]
    <3>1. nd.datastore.next_tx_offset = a + 1 /\ t = a + 1 /\ t - 1 = a
      BY <1>1, <2>1, <2>4 DEF Ahead
    <3>2. GetCurOffset(nd.datastore) = t - 1 /\ GetCurOffset(nd.datastore) # NoOffset
      BY <1>1, <3>1 DEF GetCurOffset, NoOffset
    <3>3. AppliesAsLeader(n, nd)
      BY <1>1, <2>4, <3>2 DEF AppliesAsLeader
    <3>4. ApplyReplicatedTxns(n, nd) = advanced
      BY <1>1, <2>1, <3>2, <3>3 DEF ApplyReplicatedTxns
    <3>5. Level(datastore, entries, t)
      BY <1>1, <2>4, <3>1, AdvanceAhead
    <3> HIDE DEF datastore
    <3>6. /\ advanced.datastore = datastore /\ advanced.poisoned = nd.poisoned
          /\ advanced.current_leader = nd.current_leader
      BY <1>1 DEF NodeType
    <3> HIDE DEF advanced
    <3> QED BY <1>2, <1>5, <3>4, <3>5, <3>6
  <2>5. CASE Level(nd.datastore, entries, a)
    <3> DEFINE last == ReplayEntries(nd, SubSeq(entries, a + 1, t))
               replayed == [last EXCEPT !.got_promoted_leader = FALSE]
    <3>1. nd.datastore.next_tx_offset = a
      BY <2>5 DEF Level
    <3>2. ~(/\ IsLeader(n) /\ nd.got_promoted_leader
            /\ GetCurOffset(nd.datastore) = NoOffset)
      BY <1>1, <2>3, <3>1 DEF GetCurOffset, NoOffset
    <3>3. ~AppliesAsLeader(n, nd)
      <4>1. GetCurOffset(nd.datastore) # t - 1
        BY <1>1, <2>1, <3>1 DEF GetCurOffset
      <4>2. IsLeader(n) => nd.got_promoted_leader
        BY <1>1, <2>3, <3>1
      <4> QED BY <1>1, <4>1, <4>2 DEF AppliesAsLeader
    <3>4. /\ ~IterPanics(n, ReplayFrom(nd))
          /\ IterStartingFromOffset(n, ReplayFrom(nd)) = SubSeq(entries, a + 1, t)
      BY <1>0, <1>5, IterIsNext
    <3>5. ApplyReplicatedTxns(n, nd) = replayed
      BY <2>1, <3>2, <3>3, <3>4 DEF ApplyReplicatedTxns
    <3>6. /\ Level(last.datastore, entries, t) /\ last \in NodesInStep
          /\ last.poisoned = nd.poisoned /\ last.current_leader = nd.current_leader
      <4>1. a <= t /\ t <= Len(entries)
        BY <2>1, <1>1
      <4> HIDE DEF a, t, nd, entries
      <4> QED BY <1>0, <1>1, <2>5, <4>1, ReplaysLevel
    <3> HIDE DEF last
    <3>7. /\ replayed.datastore = last.datastore /\ replayed.poisoned = last.poisoned
          /\ replayed.current_leader = last.current_leader
      BY <3>6 DEF NodesInStep, NodeType
    <3> HIDE DEF replayed
    <3> QED BY <1>2, <1>5, <3>5, <3>6, <3>7
  <2> QED BY <2>2, <2>4, <2>5
<1> QED BY <1>4, <1>5

-----------------------------------------------------------------------------
(***************************************************************************)
(* A node that a step of another server does not reach.                    *)
(***************************************************************************)
LEMMA LeaderKept ==
  ASSUME ClusterInv, NEW m \in Server, promised'[m] = promised[m],
         \A c \in Ballot : /\ ballots'[c].leader = ballots[c].leader
                           /\ ballots[c].leader = m => ballots'[c].ready = ballots[c].ready
  PROVE  /\ GetCurrentLeader(m)' = GetCurrentLeader(m)
         /\ IsLeader(m)' <=> IsLeader(m)
         /\ node'[m].current_leader = node[m].current_leader => (LeaderNews(m)' <=> LeaderNews(m))
         /\ IsLeader(m) => ballots'[promised[m]].ready = ballots[promised[m]].ready
<1>1. promised[m] # 0 => promised[m] \in Ballot
  BY ServerFacts
<1>2. GetCurrentLeader(m)' = GetCurrentLeader(m)
  BY <1>1 DEF GetCurrentLeader
<1>3. IsLeader(m) => promised[m] # 0 /\ ballots[promised[m]].leader = m
  BY LeaderFacts
<1> QED BY <1>1, <1>2, <1>3 DEF IsLeader, LeaderNews

LEMMA NodeKept ==
  ASSUME ClusterInv, commits \in Nat, commits' \in Nat, NEW m \in Server, NodeInv(m),
         promised'[m] = promised[m], accepted_round'[m] = accepted_round[m],
         log'[m] = log[m], decided_idx'[m] = decided_idx[m],
         node'[m].datastore = node[m].datastore,
         node'[m].current_leader = node[m].current_leader,
         node'[m].got_promoted_leader = node[m].got_promoted_leader,
         node'[m].poisoned = node[m].poisoned,
         m \in polling' => m \in polling,
         \A c \in Ballot : /\ ballots'[c].leader = ballots[c].leader
                           /\ ballots[c].leader = m => ballots'[c].ready = ballots[c].ready,
         commits' # commits => commits < commits' /\ (commits = 0 => ~IsLeader(m))
  PROVE  NodeInv(m)'
<1>1. /\ IsLeader(m)' <=> IsLeader(m)
      /\ LeaderNews(m)' <=> LeaderNews(m)
      /\ IsLeader(m) => ballots'[promised[m]].ready = ballots[promised[m]].ready
  BY LeaderKept
<1>2. Known(m)' = Known(m) /\ AppliedLenOf(m)' = AppliedLenOf(m) /\ (News(m)' <=> News(m))
  BY DEF Known, AppliedLenOf, News
<1>3. NodeLevel(m)'
  BY <1>2 DEF NodeLevel, NodeInv
<1>4. NodePolled(m)'
  BY <1>1, <1>2 DEF NodePolled, NodeInv
<1>5. LedSince(m) => LedSince(m)'
  <2> SUFFICES ASSUME LedSince(m) PROVE LedSince(m)'
    OBVIOUS
  <2> DEFINE a == accepted_round[m]
             p == promised[m]
  <2>1. /\ a # 0 /\ a \in Nat /\ p \in Nat /\ p <= Len(ballots) /\ Len(ballots) \in Nat
        /\ \A c \in a .. p : ballots[c].leader = m /\ (c # a => ~ballots[c].ready)
    BY ServerFacts DEF LedSince
  <2>2. \A c \in a .. p : c \in Ballot
    BY <2>1 DEF Ballot
  <2>3. \A c \in a .. p : ballots'[c].leader = m /\ (c # a => ~ballots'[c].ready)
    BY <2>1, <2>2
  <2> QED BY <2>1, <2>3 DEF LedSince
<1>6. NodeLeads(m)'
  <2>1. NodeLeads(m)
    BY DEF NodeInv
  <2>2. IsLeader(m) => (commits' = 0 <=> commits = 0) /\ (commits' > 0 => commits > 0)
    OBVIOUS
  <2> QED BY <1>1, <1>2, <1>5, <2>1, <2>2 DEF NodeLeads
<1> QED BY <1>3, <1>4, <1>6 DEF NodeInv

\* What the step of a server changes is its own, or in a ballot that it leads.
OwnStep(n) ==
  /\ \A m \in Server : m # n =>
       /\ promised'[m] = promised[m] /\ accepted_round'[m] = accepted_round[m]
       /\ log'[m] = log[m] /\ decided_idx'[m] = decided_idx[m]
       /\ node'[m] = node[m] /\ (m \in polling' => m \in polling)
  /\ Len(ballots) <= Len(ballots')
  /\ \A c \in Ballot :
       /\ ballots'[c].leader = ballots[c].leader
       /\ ballots[c].leader # n => ballots'[c] = ballots[c]
       /\ ballots[c].ready => ballots'[c].ready
       /\ ballots'[c] = ballots[c] \/ BallotQuiet(c)'
  /\ \A c \in Ballot' : c \in Ballot \/ BallotQuiet(c)'
  /\ commits' \in Nat
  /\ commits' # commits =>
       /\ commits < commits'
       /\ commits = 0 => \A m \in Server : m # n => ~IsLeader(m)

LEMMA RestKept ==
  ASSUME DisciplinedInv, NEW n \in Server, OwnStep(n), LogQuiet(n)', NodeInv(n)'
  PROVE  LogsQuiet' /\ \A m \in Server : NodeInv(m)'
<1>0. ClusterInv /\ LogsQuiet /\ commits \in Nat /\ Len(ballots) \in Nat
  BY ServerFacts, DisciplinedFacts
<1>1. ASSUME NEW m \in Server PROVE NodeInv(m)'
  <2>1. CASE m = n
    BY <2>1
  <2>2. CASE m # n
    <3>1. NodeInv(m)
      BY DEF DisciplinedInv
    <3>2. \A c \in Ballot : /\ ballots'[c].leader = ballots[c].leader
                            /\ ballots[c].leader = m => ballots'[c].ready = ballots[c].ready
      BY <2>2 DEF OwnStep
    <3>3. commits' # commits => commits < commits' /\ (commits = 0 => ~IsLeader(m))
      BY <2>2 DEF OwnStep
    <3> QED BY <1>0, <2>2, <3>1, <3>2, <3>3, NodeKept DEF OwnStep
  <2> QED BY <2>1, <2>2
<1>2. commits' = 0 => commits = 0
  BY <1>0 DEF OwnStep
<1>3. ASSUME NEW m \in Server PROVE LogQuiet(m)'
  <2>1. CASE m = n
    BY <2>1
  <2>2. CASE m # n
    <3>1. LogQuiet(m) /\ (promised[m] # 0 => promised[m] \in Ballot)
          /\ (accepted_round[m] # 0 => accepted_round[m] \in Ballot)
      BY <1>0, ServerFacts, DisciplinedFacts
    <3>2. /\ promised'[m] = promised[m] /\ accepted_round'[m] = accepted_round[m]
          /\ log'[m] = log[m] /\ decided_idx'[m] = decided_idx[m]
      BY <2>2 DEF OwnStep
    <3>3. promised[m] # 0 => (ballots[promised[m]].ready => ballots'[promised[m]].ready)
      BY <3>1 DEF OwnStep
    <3>4. ASSUME accepted_round[m] # 0, ballots'[accepted_round[m]].leader = m
          PROVE  log[m] = ballots'[accepted_round[m]].log
      <4>1. ballots[accepted_round[m]].leader = m /\ accepted_round[m] \in Ballot
        BY <3>1, <3>4 DEF OwnStep
      <4>2. ballots'[accepted_round[m]] = ballots[accepted_round[m]]
        BY <2>2, <4>1 DEF OwnStep
      <4> QED BY <3>1, <3>4, <4>1, <4>2 DEF LogQuiet
    <3> QED BY <1>2, <3>1, <3>2, <3>3, <3>4 DEF LogQuiet
  <2> QED BY <2>1, <2>2
<1>4. ASSUME NEW c \in Ballot' PROVE BallotQuiet(c)'
  <2>1. CASE c \in Ballot /\ ballots'[c] = ballots[c]
    <3>1. BallotQuiet(c)
      BY <1>0, <2>1 DEF LogsQuiet
    <3> QED BY <1>2, <2>1, <3>1 DEF BallotQuiet
  <2> QED BY <2>1 DEF OwnStep
<1> QED BY <1>1, <1>3, <1>4 DEF LogsQuiet

\* Nobody is told that less is decided, nor forgets who leads.
LEMMA FirstKept ==
  ASSUME DisciplinedInv, commits' = commits,
         \A m \in Server : /\ decided_idx[m] <= decided_idx'[m] /\ decided_idx'[m] \in Nat
                           /\ promised[m] # 0 => promised'[m] # 0
                           /\ node[m].current_leader # NoLeader => node'[m].current_leader # NoLeader,
         \/ commits > 0 => \A m \in Server : decided_idx[m] > 0
         \/ Len(ballots') = Len(ballots) /\ accepted_round' = accepted_round
  PROVE  FirstInv'
<1>1. FirstInv /\ \A m \in Server : decided_idx[m] \in Nat
  BY ServerFacts DEF DisciplinedInv
<1>2. CASE commits > 0 => \A m \in Server : decided_idx[m] > 0
  <2>1. commits > 0 => \A m \in Server : decided_idx'[m] > 0
    BY <1>1, <1>2
  <2> QED BY <1>1, <2>1 DEF FirstInv
<1>3. CASE Len(ballots') = Len(ballots) /\ accepted_round' = accepted_round
  <2>1. (\A m \in Server : decided_idx[m] > 0) => \A m \in Server : decided_idx'[m] > 0
    BY <1>1
  <2> QED BY <1>1, <1>3, <2>1 DEF FirstInv
<1> QED BY <1>2, <1>3

\* A server that has polled, as it has before it handles a message.
LEMMA PolledFacts ==
  ASSUME DisciplinedInv, Disciplined, NEW n \in Server, Polled(n)
  PROVE  /\ n \notin polling /\ ~LeaderNews(n) /\ ~News(n)
         /\ AppliedLenOf(n) = Known(n)
         /\ decided_idx[n] > 0 => AppliedLenOf(n) = decided_idx[n]
         /\ decided_idx[n] = 0 /\ commits = 0 => AppliedLenOf(n) = 0
         /\ decided_idx[n] = Len(log[n]) => AppliedLenOf(n) = decided_idx[n]
         /\ ~IsLeader(n) \/ decided_idx[n] = Len(log[n])
              => Level(node[n].datastore, log[n], AppliedLenOf(n))
<1>1. /\ ClusterInv /\ DecidedSlack = 1 /\ Numbered(log[n]) /\ NodeLevel(n) /\ LogQuiet(n)
      /\ decided_idx[n] \in Nat /\ Len(log[n]) \in Nat
  BY ServerFacts, DisciplinedFacts DEF Disciplined
<1>2. n \notin polling /\ ~LeaderNews(n) /\ ~News(n)
  BY <1>1, DecidedNewsIsNews DEF Polled, NodeLevel
<1>3. AppliedLenOf(n) = Known(n)
  BY <1>2 DEF News
<1>4. Len(<< >>) = 0
  OBVIOUS
<1>5. /\ decided_idx[n] > 0 => Known(n) = decided_idx[n]
      /\ decided_idx[n] = 0 => Known(n) = IF 1 <= Len(log[n]) THEN 1 ELSE Len(log[n])
  BY <1>1 DEF Known, MinOf
<1>6. commits = 0 => Len(log[n]) = 0
  BY <1>1, <1>4 DEF LogQuiet
<1>7. decided_idx[n] = Len(log[n]) => AppliedLenOf(n) = decided_idx[n]
  BY <1>1, <1>3, <1>5
<1>8. Ahead(node[n].datastore, log[n], AppliedLenOf(n))
        => AppliedLenOf(n) + 1 = Len(log[n]) /\ (node[n].current_leader = n => IsLeader(n) \/ promised[n] = 0)
  BY <1>1, <1>2, AheadLeads DEF Ahead
<1>9. ~IsLeader(n) \/ decided_idx[n] = Len(log[n])
        => Level(node[n].datastore, log[n], AppliedLenOf(n))
  BY <1>1, <1>7, <1>8 DEF NodeLevel
<1> QED BY <1>1, <1>2, <1>3, <1>5, <1>6, <1>7, <1>9

-----------------------------------------------------------------------------
(***************************************************************************)
(* The steps of a node.                                                    *)
(***************************************************************************)

\* What update_leader leaves of a node that has nothing to apply.
LEMMA UpdatedLevel ==
  ASSUME DisciplinedInv, Disciplined, NEW n \in Server, LeaderNews(n)
  PROVE  LET nd == UpdatedLeader(n, node[n])
         IN  /\ ~nd.poisoned
             /\ nd.current_leader = GetCurrentLeader(n)
             /\ Level(nd.datastore, log[n], AppliedLenOf(n))
             /\ node[n].current_leader # n => nd.datastore = node[n].datastore
             /\ IsLeader(n) /\ node[n].current_leader # NoLeader => nd.got_promoted_leader
<1> DEFINE nd == node[n]
           a == AppliedLenOf(n)
           leader == GetCurrentLeader(n)
           promoted == [nd EXCEPT !.got_promoted_leader = TRUE]
           changed == IF nd.current_leader = NoLeader THEN nd
                      ELSE IF nd.current_leader = n THEN RolledBack(nd)
                      ELSE IF leader = n THEN ApplyReplicatedTxns(n, promoted)
                      ELSE nd
<1>0. /\ ClusterInv /\ DecidedSlack = 1 /\ Numbered(log[n]) /\ NodeLevel(n) /\ NodePolled(n)
  BY DisciplinedFacts DEF Disciplined
<1>1. /\ nd \in NodeType /\ nd.datastore \in CommittedStateType
      /\ ~nd.poisoned /\ a \in Nat
  BY <1>0, NodeFacts DEF NodeLevel
<1>2. ~DecidedNews(n, nd)
  BY <1>0, DecidedNewsIsNews DEF NodeLevel, NodePolled
<1>3. /\ promoted.last_applied_index = nd.last_applied_index
      /\ promoted.datastore = nd.datastore /\ promoted.poisoned = nd.poisoned
      /\ promoted.got_promoted_leader = TRUE /\ promoted \in NodeType
  BY <1>1 DEF NodeType
<1> HIDE DEF promoted
<1>4. ApplyReplicatedTxns(n, promoted) = promoted
  BY <1>2, <1>3 DEF ApplyReplicatedTxns, DecidedNews
<1>5. Applied(nd.datastore, log[n], a) /\ (nd.current_leader # n => Level(nd.datastore, log[n], a))
  BY <1>0 DEF NodeLevel, Level, Ahead
<1>6. n # NoLeader /\ (IsLeader(n) <=> leader = n) /\ leader # nd.current_leader
  BY NoLeaderAssumption DEF IsLeader, LeaderNews
<1>7. /\ ~changed.poisoned /\ changed \in NodeType
      /\ Level(changed.datastore, log[n], a)
      /\ nd.current_leader # n => changed.datastore = nd.datastore
      /\ leader = n /\ nd.current_leader # NoLeader => changed.got_promoted_leader
  <2>1. CASE nd.current_leader = n
    <3> DEFINE datastore == Rollback(nd.datastore)
               back == [nd EXCEPT !.datastore = datastore]
    <3>1. changed = back
      BY <1>6, <2>1 DEF RolledBack
    <3>2. Level(datastore, log[n], a) /\ datastore \in CommittedStateType
      BY <1>1, <1>5, RollbackLevel, RollbackType
    <3> HIDE DEF datastore
    <3>3. /\ back.datastore = datastore /\ back.poisoned = nd.poisoned /\ back \in NodeType
      BY <1>1, <3>2 DEF NodeType
    <3> HIDE DEF back, changed
    <3> QED BY <1>1, <1>6, <2>1, <3>1, <3>2, <3>3
  <2>2. CASE nd.current_leader # n
    BY <1>1, <1>3, <1>4, <1>5, <2>2
  <2> QED BY <2>1, <2>2
<1>8. UpdatedLeader(n, nd) = [changed EXCEPT !.current_leader = leader]
  BY <1>7 DEF UpdatedLeader, promoted
<1> HIDE DEF changed
<1> QED BY <1>6, <1>7, <1>8 DEF NodeType

LEMMA UpdateLeaderKeeps ==
  ASSUME DisciplinedInv, Disciplined, NEW n \in Server, UpdateLeader(n)
  PROVE  LogsQuiet' /\ FirstInv' /\ \A m \in Server : NodeInv(m)'
<1> DEFINE nd == UpdatedLeader(n, node[n])
           a == AppliedLenOf(n)
<1>0. /\ ClusterInv /\ FirstInv /\ LogQuiet(n) /\ NodeLevel(n) /\ NodePolled(n) /\ NodeLeads(n)
      /\ commits \in Nat /\ Len(ballots) \in Nat
  BY ServerFacts, DisciplinedFacts
<1>1. /\ LeaderNews(n) /\ n \notin polling /\ commits' = commits
      /\ ballots' = ballots /\ promised' = promised /\ log' = log
      /\ accepted_round' = accepted_round /\ decided_idx' = decided_idx
      /\ polling' = polling \cup {n}
  BY DEF UpdateLeader, paxos_vars
<1>2. node' = [node EXCEPT ![n] = nd]
  BY DEF UpdateLeader
<1>3. node'[n] = nd /\ \A m \in Server : m # n => node'[m] = node[m]
  BY <1>0, <1>2 DEF ClusterInv
<1>4. /\ ~nd.poisoned
      /\ nd.current_leader = GetCurrentLeader(n)
      /\ Level(nd.datastore, log[n], a)
      /\ node[n].current_leader # n => nd.datastore = node[n].datastore
      /\ IsLeader(n) /\ node[n].current_leader # NoLeader => nd.got_promoted_leader
  BY <1>1, UpdatedLevel
<1> HIDE DEF nd
<1>5. /\ GetCurrentLeader(n)' = GetCurrentLeader(n) /\ (IsLeader(n)' <=> IsLeader(n))
      /\ ~LeaderNews(n)'
  BY <1>1, <1>3, <1>4 DEF GetCurrentLeader, IsLeader, LeaderNews
<1>6. AppliedLenOf(n)' = a /\ Known(n)' = Known(n) /\ (News(n)' <=> a # Known(n)) /\ a = Known(n)
  <2>1. a \in Nat /\ node'[n].datastore.replicated_tx_offset = a - 1
    BY <1>0, <1>3, <1>4, NodeFacts DEF Level, Applied
  <2>2. AppliedLenOf(n)' = a
    <3> HIDE DEF a
    <3> QED BY <2>1 DEF AppliedLenOf
  <2>3. a = Known(n)
    BY <1>0, <1>1 DEF NodePolled, News
  <2> QED BY <1>1, <2>2, <2>3 DEF Known, News
<1>7. NodeLevel(n)'
  <2>1. /\ a <= Known(n) /\ (a < Known(n) => Known(n) = Len(log[n]))
        /\ (decided_idx[n] > 0 => a > 0)
    BY <1>0 DEF NodeLevel
  <2> HIDE DEF a
  <2> QED BY <1>1, <1>3, <1>4, <1>6, <2>1 DEF NodeLevel
<1>8. NodePolled(n)'
  BY <1>5, <1>6 DEF NodePolled
<1>9. NodeLeads(n)'
  <2> SUFFICES ASSUME IsLeader(n)
               PROVE  /\ commits > 0 => nd.datastore.next_tx_offset > 0
                      /\ ~ballots[promised[n]].ready
                      /\ commits # 0 => nd.got_promoted_leader
    BY <1>1, <1>3, <1>5 DEF NodeLeads
  <2>1. ~ballots[promised[n]].ready
    BY <1>0, <1>1 DEF NodePolled
  <2>2. node[n].current_leader # n
    BY <1>1 DEF LeaderNews, IsLeader
  <2>3. commits # 0 => node[n].current_leader # NoLeader
    BY <1>0 DEF FirstInv
  <2>4. commits > 0 => node[n].datastore.next_tx_offset > 0
    BY <1>0 DEF NodeLeads
  <2> QED BY <1>4, <2>1, <2>2, <2>3, <2>4
<1>10. LogQuiet(n)'
  BY <1>0, <1>1 DEF LogQuiet
<1>11. OwnStep(n)
  BY <1>0, <1>1, <1>3 DEF OwnStep, Ballot
<1>12. FirstInv'
  <2>1. nd.current_leader # NoLeader
    BY <1>1, <1>4 DEF LeaderNews
  <2> QED BY <1>0, <1>1, <1>3, <2>1 DEF FirstInv
<1> QED BY <1>7, <1>8, <1>9, <1>10, <1>11, <1>12, RestKept DEF NodeInv

LEMMA ApplyKeeps ==
  ASSUME DisciplinedInv, Disciplined, NEW n \in Server, Apply(n)
  PROVE  LogsQuiet' /\ FirstInv' /\ \A m \in Server : NodeInv(m)'
<1> DEFINE nd == ApplyReplicatedTxns(n, node[n])
           t == Known(n)
<1>0. /\ ClusterInv /\ FirstInv /\ LogQuiet(n) /\ NodeLevel(n) /\ NodePolled(n) /\ NodeInv(n)
      /\ commits \in Nat /\ Len(ballots) \in Nat /\ DecidedSlack = 1 /\ Numbered(log[n])
  BY ServerFacts, DisciplinedFacts DEF Disciplined, NodeInv
<1>1. /\ ~LeaderNews(n) /\ commits' = commits
      /\ ballots' = ballots /\ promised' = promised /\ log' = log
      /\ accepted_round' = accepted_round /\ decided_idx' = decided_idx
      /\ polling' = polling \ {n}
  BY <1>0 DEF Apply, NodePolled, paxos_vars
<1>2. node' = [node EXCEPT ![n] = nd]
  BY DEF Apply
<1>3. node'[n] = nd /\ \A m \in Server : m # n => node'[m] = node[m]
  BY <1>0, <1>2 DEF ClusterInv
<1>4. /\ ~nd.poisoned /\ nd.current_leader = node[n].current_leader
      /\ ~News(n) => nd = node[n]
      /\ News(n) => Level(nd.datastore, log[n], t)
  BY <1>1, ApplyLevels
<1> HIDE DEF nd
<1>5. NodeInv(n)'
  <2>1. CASE ~News(n)
    <3>1. node'[n] = node[n]
      BY <1>3, <1>4, <2>1
    <3> QED BY <1>0, <1>1, <3>1, NodeKept
  <2>2. CASE News(n)
    <3>1. /\ GetCurrentLeader(n)' = GetCurrentLeader(n) /\ (IsLeader(n)' <=> IsLeader(n))
          /\ ~LeaderNews(n)'
      BY <1>1, <1>3, <1>4 DEF GetCurrentLeader, IsLeader, LeaderNews
    <3>2. /\ t \in Nat /\ t > 0 /\ t = Len(log[n])
          /\ decided_idx[n] > 0 => t > 0
      <4>1. AppliedLenOf(n) \in Nat /\ t \in 0 .. Len(log[n]) /\ Len(log[n]) \in Nat
        BY <1>0, NodeFacts, DurableIsKnown, ServerFacts
      <4>2. AppliedLenOf(n) < t
        BY <1>0, <2>2, <4>1 DEF NodeLevel, News
      <4> QED BY <1>0, <4>1, <4>2 DEF NodeLevel
    <3>3. /\ node'[n].datastore.replicated_tx_offset = t - 1
          /\ node'[n].datastore.next_tx_offset = t
      BY <1>3, <1>4, <2>2 DEF Level, Applied
    <3>4. AppliedLenOf(n)' = t /\ Known(n)' = t
      <4>1. Known(n)' = t
        BY <1>1 DEF Known
      <4> HIDE DEF t
      <4> QED BY <3>2, <3>3, <4>1 DEF AppliedLenOf
    <3>5. ~News(n)'
      BY <3>4 DEF News
    <3> HIDE DEF t
    <3>6. NodeLevel(n)'
      BY <1>1, <1>3, <1>4, <2>2, <3>2, <3>4 DEF NodeLevel
    <3>7. NodePolled(n)'
      BY <3>1, <3>5 DEF NodePolled
    <3>8. NodeLeads(n)'
      <4>1. IsLeader(n) => ballots[promised[n]].ready
        BY <1>0, <2>2 DEF NodePolled
      <4> QED BY <1>1, <3>1, <3>2, <3>3, <3>5, <4>1 DEF NodeLeads
    <3> QED BY <3>6, <3>7, <3>8 DEF NodeInv
  <2> QED BY <2>1, <2>2
<1>6. LogQuiet(n)'
  BY <1>0, <1>1 DEF LogQuiet
<1>7. OwnStep(n)
  BY <1>0, <1>1, <1>3 DEF OwnStep, Ballot
<1>8. FirstInv'
  BY <1>0, <1>1, <1>3, <1>4 DEF FirstInv
<1> QED BY <1>5, <1>6, <1>7, <1>8, RestKept

LEMMA StopKeeps ==
  ASSUME DisciplinedInv, NEW n \in Server, Stop(n)
  PROVE  LogsQuiet' /\ FirstInv' /\ \A m \in Server : NodeInv(m)'
<1>0. /\ ClusterInv /\ FirstInv /\ LogQuiet(n) /\ NodeInv(n)
      /\ commits \in Nat /\ Len(ballots) \in Nat /\ node[n] \in NodeType
  BY ServerFacts, NodeFacts, DisciplinedFacts DEF NodeInv
<1>1. /\ commits' = commits /\ polling' = polling
      /\ ballots' = ballots /\ promised' = promised /\ log' = log
      /\ accepted_round' = accepted_round /\ decided_idx' = decided_idx
      /\ node' = [node EXCEPT ![n].is_running = FALSE]
  BY DEF Stop, paxos_vars
<1>2. /\ node'[n].datastore = node[n].datastore
      /\ node'[n].current_leader = node[n].current_leader
      /\ node'[n].got_promoted_leader = node[n].got_promoted_leader
      /\ node'[n].poisoned = node[n].poisoned
      /\ \A m \in Server : m # n => node'[m] = node[m]
  BY <1>0, <1>1 DEF ClusterInv, NodeType
<1>3. NodeInv(n)'
  BY <1>0, <1>1, <1>2, NodeKept
<1>4. LogQuiet(n)'
  BY <1>0, <1>1 DEF LogQuiet
<1>5. OwnStep(n)
  BY <1>0, <1>1, <1>2 DEF OwnStep, Ballot
<1>6. FirstInv'
  BY <1>0, <1>1, <1>2 DEF FirstInv
<1> QED BY <1>3, <1>4, <1>5, <1>6, RestKept

LEMMA ElectKeeps ==
  ASSUME DisciplinedInv, Disciplined, NEW n \in Server, Elect(n)
  PROVE  LogsQuiet' /\ FirstInv' /\ \A m \in Server : NodeInv(m)'
<1>b. PICK b : b = Len(ballots) + 1
  OBVIOUS
<1> DEFINE p == promised[n]
           d == decided_idx[n]
           r == [ leader |-> n, ready |-> FALSE, adopted |-> 0,
                  log |-> << >>, decided_at |-> << >>, decided |-> 0 ]
<1>0. /\ ClusterInv /\ FirstInv /\ LogQuiet(n) /\ NodeLevel(n) /\ NodeLeads(n)
      /\ commits \in Nat /\ Len(ballots) \in Nat /\ p \in Nat /\ d \in Nat
      /\ accepted_round[n] \in Nat /\ accepted_round[n] <= p
      /\ p # 0 => p \in Ballot
      /\ accepted_round[n] # 0 => accepted_round[n] \in Ballot
      /\ PaxosTypeOK(DatabaseLogEntry)
  BY ServerFacts, DisciplinedFacts DEF ClusterInv, PaxosInv, Local
<1>1. /\ Polled(n) /\ d = Len(log[n]) /\ p = Len(ballots) /\ ~LeaderNews(n)
      /\ commits > 0 => \A m \in Server : decided_idx[m] > 0
  BY DEF Elect, HandlesMessage, Quiet, Disciplined, FirstTxApplied
<1>2. /\ ballots' = Append(ballots, r) /\ promised' = [promised EXCEPT ![n] = b]
      /\ log' = log /\ accepted_round' = accepted_round /\ decided_idx' = decided_idx
      /\ node' = node /\ polling' = polling /\ commits' = commits
  BY <1>b DEF Elect, Lead
<1>3. /\ n \notin polling /\ ~News(n) /\ AppliedLenOf(n) = d
      /\ Level(node[n].datastore, log[n], d)
  BY <1>1, PolledFacts
<1>4. /\ promised'[n] = b /\ b \in Nat /\ b # 0 /\ b > p
      /\ \A m \in Server : m # n => promised'[m] = promised[m]
  BY <1>0, <1>1, <1>2, <1>b DEF PaxosTypeOK
<1>5. /\ Len(ballots') = b /\ ballots'[b] = r
      /\ \A c \in Ballot : ballots'[c] = ballots[c]
      /\ \A c \in Ballot' : c \in Ballot \/ c = b
      /\ Len(ballots) <= Len(ballots')
  <2>1. ballots \in Seq(BallotRecord(DatabaseLogEntry))
    BY <1>0 DEF PaxosTypeOK
  <2> HIDE DEF r
  <2> QED BY <1>0, <1>2, <1>b, <2>1 DEF Ballot
<1>6. /\ ballots'[b].leader = n /\ ~ballots'[b].ready /\ ballots'[b].log = << >>
      /\ Len(ballots'[b].log) = 0 /\ ballots'[b].adopted = 0
  BY <1>5
<1> HIDE DEF r, d, p
<1>7. BallotQuiet(b)'
  <2>1. Numbered(ballots'[b].log)
    BY <1>6 DEF Numbered
  <2>2. \A j \in 0 + 1 .. 0 : FALSE
    OBVIOUS
  <2> QED BY <1>6, <2>1, <2>2 DEF BallotQuiet
<1>8. OwnStep(n)
  BY <1>0, <1>2, <1>4, <1>5, <1>7 DEF OwnStep
<1>9. LogQuiet(n)'
  BY <1>0, <1>1, <1>2, <1>4, <1>5 DEF LogQuiet, d
<1>10. FirstInv'
  <2>1. \A m \in Server : decided_idx[m] \in Nat
    BY <1>0, ServerFacts
  <2>2. \A m \in Server : promised[m] # 0 => promised'[m] # 0
    BY <1>4
  <2> QED BY <1>1, <1>2, <2>1, <2>2, FirstKept
<1>11. GetCurrentLeader(n)' = n /\ IsLeader(n)'
  BY <1>4, <1>6 DEF GetCurrentLeader, IsLeader
<1>12. AppliedLenOf(n)' = AppliedLenOf(n) /\ Known(n)' = Known(n) /\ ~News(n)'
  BY <1>2, <1>3 DEF AppliedLenOf, Known, News
<1>13. NodeLevel(n)'
  BY <1>0, <1>2, <1>4, <1>12 DEF NodeLevel
<1>14. NodePolled(n)'
  BY <1>2, <1>3, <1>4, <1>6, <1>12 DEF NodePolled
<1>15. NodeLeads(n)'
  <2>1. commits > 0 => node[n].datastore.next_tx_offset > 0
    BY <1>1, <1>3 DEF Level, d
  <2>2. ASSUME ~LeaderNews(n)', commits # 0
        PROVE  node[n].got_promoted_leader \/ LedSince(n)'
    <3>1. node[n].current_leader = n
      BY <1>2, <1>11, <2>2, NoLeaderAssumption DEF LeaderNews
    <3>2. p # 0
      BY <1>0, <2>2 DEF FirstInv, p
    <3>3. GetCurrentLeader(n) = n /\ IsLeader(n) /\ ballots[p].leader = n
      BY <1>0, <1>1, <3>1, <3>2, LeaderFacts DEF LeaderNews, IsLeader, p
    <3>4. CASE ballots[p].ready
      <4>1. accepted_round[n] = p
        BY <1>0, <3>3, <3>4, LeaderFacts DEF p
      <4>2. \A c \in p .. b : c = p \/ c = b
        BY <1>0, <1>1, <1>b
      <4>3. ballots'[p].leader = n
        BY <1>0, <1>5, <3>2, <3>3
      <4> QED BY <1>2, <1>4, <1>6, <3>2, <4>1, <4>2, <4>3 DEF LedSince
    <3>5. CASE ~ballots[p].ready
      <4>1. node[n].got_promoted_leader \/ LedSince(n)
        BY <1>0, <1>1, <2>2, <3>3, <3>5 DEF NodeLeads, p
      <4>2. ASSUME LedSince(n) PROVE LedSince(n)'
        <5> DEFINE a == accepted_round[n]
        <5>1. /\ a # 0 /\ a \in Nat /\ a <= p
              /\ \A c \in a .. p : ballots[c].leader = n /\ (c # a => ~ballots[c].ready)
          BY <1>0, <4>2 DEF LedSince, p
        <5> HIDE DEF a
        <5>2. \A c \in a .. b : c # b => c \in a .. p /\ c \in Ballot
          <6>1. b = p + 1 /\ p \in Nat /\ Ballot = 1 .. p
            BY <1>0, <1>1, <1>b DEF Ballot
          <6> QED BY <5>1, <6>1
        <5>3. \A c \in a .. b : ballots'[c].leader = n /\ (c # a => ~ballots'[c].ready)
          BY <1>5, <1>6, <5>1, <5>2
        <5> QED BY <1>2, <1>4, <5>1, <5>3 DEF LedSince, a
      <4> QED BY <4>1, <4>2
    <3> QED BY <3>4, <3>5
  <2> QED BY <1>0, <1>2, <1>4, <1>6, <2>1, <2>2 DEF NodeLeads
<1> QED BY <1>8, <1>9, <1>10, <1>13, <1>14, <1>15, RestKept DEF NodeInv

LEMMA PromiseKeeps ==
  ASSUME DisciplinedInv, Disciplined, NEW n \in Server, Polled(n), NEW b \in Ballot,
         Promise(n, b), ballots[b].ready \/ Quiet(n), UNCHANGED <<node, polling, commits>>
  PROVE  LogsQuiet' /\ FirstInv' /\ \A m \in Server : NodeInv(m)'
<1>0. /\ ClusterInv /\ FirstInv /\ LogQuiet(n) /\ NodeLevel(n)
      /\ commits \in Nat /\ Len(ballots) \in Nat /\ promised[n] \in Nat
      /\ b \in Nat \ {0} /\ ballots[b].leader \in Server
      /\ PaxosTypeOK(DatabaseLogEntry) /\ LeaderOK(b)
      /\ ballots[b].ready \/ decided_idx[n] = Len(log[n])
  BY ServerFacts, DisciplinedFacts, BallotTypes
     DEF ClusterInv, PaxosInv, Local, LeadersOK, Disciplined, Quiet
<1>1. /\ b > promised[n] /\ promised' = [promised EXCEPT ![n] = b]
      /\ ballots' = ballots /\ log' = log
      /\ accepted_round' = accepted_round /\ decided_idx' = decided_idx
      /\ node' = node /\ polling' = polling /\ commits' = commits
  BY DEF Promise
<1>2. n \notin polling /\ ~News(n)
  BY PolledFacts
<1>3. /\ promised'[n] = b
      /\ \A m \in Server : m # n => promised'[m] = promised[m]
  BY <1>0, <1>1 DEF PaxosTypeOK
<1>4. ballots[b].leader # n
  BY <1>0, <1>1 DEF LeaderOK
<1>5. ~IsLeader(n)'
  BY <1>0, <1>1, <1>3, <1>4 DEF IsLeader, GetCurrentLeader
<1>6. AppliedLenOf(n)' = AppliedLenOf(n) /\ Known(n)' = Known(n) /\ ~News(n)'
  BY <1>1, <1>2 DEF AppliedLenOf, Known, News
<1>7. NodeLevel(n)'
  BY <1>0, <1>1, <1>3, <1>6 DEF NodeLevel
<1>8. NodePolled(n)'
  BY <1>1, <1>2, <1>5, <1>6 DEF NodePolled
<1>9. NodeLeads(n)'
  BY <1>5 DEF NodeLeads
<1>10. LogQuiet(n)'
  BY <1>0, <1>1, <1>3 DEF LogQuiet
<1>11. OwnStep(n)
  BY <1>0, <1>1, <1>3 DEF OwnStep, Ballot
<1>12. FirstInv'
  <2>1. \A m \in Server : decided_idx[m] \in Nat
    BY <1>0, ServerFacts
  <2>2. \A m \in Server : promised[m] # 0 => promised'[m] # 0
    BY <1>0, <1>3
  <2> QED BY <1>1, <2>1, <2>2, FirstKept
<1> QED BY <1>7, <1>8, <1>9, <1>10, <1>11, <1>12, RestKept DEF NodeInv

\* A follower takes something from its leader.
LEMMA FollowerKeeps ==
  ASSUME DisciplinedInv, Disciplined, NEW n \in Server, Polled(n), Follows(n),
         ballots' = ballots, promised' = promised,
         UNCHANGED <<node, polling, commits>>,
         \A m \in Server : m # n => /\ accepted_round'[m] = accepted_round[m]
                                    /\ log'[m] = log[m] /\ decided_idx'[m] = decided_idx[m],
         decided_idx[n] <= decided_idx'[n], decided_idx'[n] \in Nat,
         \/ commits > 0 => \A m \in Server : decided_idx[m] > 0
         \/ accepted_round' = accepted_round,
         NodeLevel(n)', LogQuiet(n)'
  PROVE  LogsQuiet' /\ FirstInv' /\ \A m \in Server : NodeInv(m)'
<1>0. /\ ClusterInv /\ NodePolled(n) /\ commits \in Nat /\ Len(ballots) \in Nat
      /\ ~IsLeader(n)
  BY ServerFacts, DisciplinedFacts, LeaderFacts DEF Follows
<1>1. n \notin polling /\ ~LeaderNews(n)
  BY PolledFacts
<1>2. ~IsLeader(n)' /\ ~LeaderNews(n)'
  BY <1>0, <1>1 DEF IsLeader, GetCurrentLeader, LeaderNews
<1>3. NodePolled(n)' /\ NodeLeads(n)'
  BY <1>1, <1>2 DEF NodePolled, NodeLeads
<1>4. OwnStep(n)
  BY <1>0 DEF OwnStep, Ballot
<1>5. FirstInv'
  <2>1. \A m \in Server : decided_idx[m] \in Nat
    BY <1>0, ServerFacts
  <2>2. \A m \in Server : decided_idx[m] <= decided_idx'[m] /\ decided_idx'[m] \in Nat
    BY <2>1
  <2> QED BY <2>2, FirstKept
<1> QED BY <1>3, <1>4, <1>5, RestKept DEF NodeInv

\* A log that begins with what is decided keeps what has been applied.
LEMMA DecidedLevel ==
  ASSUME ClusterInv, [Next]_vars, NEW n \in Server, log'[n] \in Seq(DatabaseLogEntry),
         Level(node[n].datastore, log[n], decided_idx[n])
  PROVE  Level(node[n].datastore, log'[n], decided_idx[n])
<1> DEFINE d == decided_idx[n]
           entries == log[n]
           more == log'[n]
           cs == node[n].datastore
<1>1. PaxosInv(DatabaseLogEntry) /\ [PaxosNext(DatabaseLogEntry)]_paxos_vars
  BY NextIsPaxosNext DEF ClusterInv
<1>2. d <= Len(more) /\ SubSeq(more, 1, d) = SubSeq(entries, 1, d)
  BY <1>1, DecidedKept
<1>3. /\ d \in Nat /\ d <= Len(entries) /\ Len(entries) \in Nat /\ Len(more) \in Nat
      /\ entries \in Seq(DatabaseLogEntry)
  BY ServerFacts
<1> HIDE DEF d, entries, more, cs
<1>4. \A i \in 1 .. d : more[i] = entries[i]
  <2> SUFFICES ASSUME NEW i \in 1 .. d PROVE more[i] = entries[i]
    OBVIOUS
  <2>1. SubSeq(more, 1, d)[i] = more[i] /\ SubSeq(entries, 1, d)[i] = entries[i]
    BY <1>2, <1>3 DEF more
  <2> QED BY <1>2, <2>1
<1>5. Applied(cs, entries, d)
  BY DEF Level, d, entries, cs
<1>6. Applied(cs, more, d)
  BY <1>2, <1>3, <1>4, <1>5, AppliedKept
<1> QED BY <1>6 DEF Level, d, more, cs

\* Nobody accepts another ballot before the first transaction is applied.
LEMMA FirstDecided ==
  ASSUME DisciplinedInv, NEW n \in Server, accepted_round[n] # promised[n], commits > 0
  PROVE  \A m \in Server : decided_idx[m] > 0
<1>1. /\ accepted_round[n] \in Nat /\ promised[n] \in Nat /\ Len(ballots) \in Nat
      /\ accepted_round[n] <= promised[n] /\ promised[n] <= Len(ballots)
      /\ FirstInv
  BY ServerFacts, DisciplinedFacts
<1> QED BY <1>1 DEF FirstInv

LEMMA LearnDecidedKeeps ==
  ASSUME DisciplinedInv, Disciplined, NEW n \in Server, Polled(n), LearnDecided(n),
         UNCHANGED <<node, polling, commits>>
  PROVE  LogsQuiet' /\ FirstInv' /\ \A m \in Server : NodeInv(m)'
<1> DEFINE len == Len(log[n])
           d == decided_idx[n]
           a == AppliedLenOf(n)
           e == DecidedAfter(promised[n], len)
<1>0. /\ ClusterInv /\ LogQuiet(n) /\ NodeLevel(n) /\ Local(DatabaseLogEntry)
      /\ len \in Nat /\ d \in Nat /\ d <= len /\ log[n] \in Seq(DatabaseLogEntry)
      /\ commits \in Nat
  BY ServerFacts, DisciplinedFacts DEF ClusterInv, PaxosInv
<1>1. /\ Follows(n) /\ accepted_round[n] = promised[n] /\ d < e
      /\ decided_idx' = [decided_idx EXCEPT ![n] = e]
      /\ ballots' = ballots /\ promised' = promised /\ log' = log
      /\ accepted_round' = accepted_round
      /\ node' = node /\ polling' = polling /\ commits' = commits
  BY DEF LearnDecided
<1>2. /\ promised[n] \in Ballot /\ ballots[promised[n]].ready
      /\ ballots[promised[n]].adopted <= len /\ len <= Len(ballots[promised[n]].log)
      /\ ballots[promised[n]].leader # n
  BY <1>0, <1>1, FollowerOK
<1>3. e \in Nat /\ e <= len
  BY <1>0, <1>2, DecidedAfterOK
<1>4. /\ decided_idx'[n] = e
      /\ \A m \in Server : m # n => decided_idx'[m] = decided_idx[m]
  BY <1>0, <1>1 DEF Local, PaxosTypeOK
<1>5. e = len /\ len = d + 1
  <2>1. len <= d + 1
    BY <1>0 DEF LogQuiet
  <2> HIDE DEF e, len, d
  <2> QED BY <1>0, <1>1, <1>3, <2>1
<1>6. /\ ~IsLeader(n) /\ a = Known(n)
      /\ d > 0 => a = d
      /\ Level(node[n].datastore, log[n], a)
  BY <1>0, <1>1, PolledFacts, LeaderFacts DEF Follows
<1>7. a \in Nat /\ a > 0 /\ a <= len
  <2>1. d = 0 => Known(n) = 1
    <3>1. d = 0 => len = 1
      BY <1>5
    <3> HIDE DEF len
    <3> QED BY <3>1 DEF Known, MinOf, len
  <2> HIDE DEF a, d, len
  <2> QED BY <1>0, <1>5, <1>6, <2>1
<1>8. Known(n)' = len /\ AppliedLenOf(n)' = a /\ decided_idx'[n] = len
  <2>1. len # 0
    BY <1>0, <1>5
  <2> QED BY <1>1, <1>4, <1>5, <2>1 DEF Known, AppliedLenOf
<1> HIDE DEF a, len, d, e
<1>9. NodeLevel(n)'
  BY <1>0, <1>1, <1>6, <1>7, <1>8 DEF NodeLevel, len
<1>10. LogQuiet(n)'
  BY <1>0, <1>1, <1>2, <1>8 DEF LogQuiet, len
<1> QED BY <1>0, <1>1, <1>3, <1>4, <1>9, <1>10, FollowerKeeps DEF d

LEMMA AcceptDecideKeeps ==
  ASSUME DisciplinedInv, Disciplined, [Next]_vars, NEW n \in Server, Polled(n), AcceptDecide(n),
         UNCHANGED <<node, polling, commits>>
  PROVE  LogsQuiet' /\ FirstInv' /\ \A m \in Server : NodeInv(m)'
<1> DEFINE len == Len(log[n])
           d == decided_idx[n]
           r == ballots[promised[n]]
           e == r.log[len + 1]
           longer == Append(log[n], e)
<1>0. /\ ClusterInv /\ LogQuiet(n) /\ NodeLevel(n) /\ Local(DatabaseLogEntry) /\ LogsQuiet
      /\ len \in Nat /\ d \in Nat /\ d <= len /\ log[n] \in Seq(DatabaseLogEntry)
      /\ commits \in Nat
  BY ServerFacts, DisciplinedFacts DEF ClusterInv, PaxosInv
<1>1. /\ Follows(n) /\ accepted_round[n] = promised[n] /\ len < Len(r.log)
      /\ d >= DecidedAfter(promised[n], len)
      /\ log' = [log EXCEPT ![n] = longer]
      /\ ballots' = ballots /\ promised' = promised /\ decided_idx' = decided_idx
      /\ accepted_round' = accepted_round
      /\ node' = node /\ polling' = polling /\ commits' = commits
  BY DEF AcceptDecide
<1>2. /\ promised[n] \in Ballot /\ r.ready /\ r.adopted <= len /\ r.leader # n
      /\ r.adopted \in Nat /\ r.log \in Seq(DatabaseLogEntry) /\ Len(r.log) \in Nat
      /\ BallotQuiet(promised[n])
  BY <1>0, <1>1, FollowerOK, BallotTypes DEF Local, LogsQuiet
<1>3. d = len
  <2>1. DecidedAfter(promised[n], len) = r.decided_at[len + 1]
    BY <1>1 DEF DecidedAfter
  <2>2. len + 1 \in r.adopted + 1 .. Len(r.log)
    <3> HIDE DEF len, r
    <3> QED BY <1>0, <1>1, <1>2
  <2>3. r.decided_at[len + 1] = (len + 1) - 1
    <3> HIDE DEF len
    <3> QED BY <1>2, <2>2 DEF BallotQuiet
  <2> HIDE DEF len, d, r
  <2> QED BY <1>0, <1>1, <2>1, <2>3
<1>4. AppliedLenOf(n) = d /\ Level(node[n].datastore, log[n], d) /\ n \notin polling
  BY <1>3, PolledFacts
<1>5. len + 1 \in 1 .. Len(r.log) /\ e \in DatabaseLogEntry /\ e.tx_offset = len
  <2>1. len + 1 \in 1 .. Len(r.log) /\ (len + 1) - 1 = len
    <3> HIDE DEF len, r
    <3> QED BY <1>0, <1>1, <1>2
  <2> HIDE DEF len
  <2> QED BY <1>2, <2>1 DEF BallotQuiet, Numbered
<1> HIDE DEF e
<1>6. /\ longer \in Seq(DatabaseLogEntry) /\ Len(longer) = len + 1 /\ longer[len + 1] = e
      /\ \A i \in 1 .. len : longer[i] = log[n][i]
  BY <1>0, <1>5
<1> HIDE DEF longer, r
<1>7. /\ log'[n] = longer
      /\ \A m \in Server : m # n => log'[m] = log[m]
  BY <1>0, <1>1 DEF Local, PaxosTypeOK
<1>8. Numbered(longer)
  <2> HIDE DEF len
  <2>1. \A i \in 1 .. len : log[n][i].tx_offset = i - 1
    BY <1>0 DEF LogQuiet, Numbered, len
  <2>2. (len + 1) - 1 = len /\ \A i \in 1 .. len + 1 : i \in 1 .. len \/ i = len + 1
    BY <1>0
  <2> QED BY <1>5, <1>6, <2>1, <2>2 DEF Numbered
<1>9. Level(node[n].datastore, longer, d)
  BY <1>0, <1>4, <1>6, <1>7, DecidedLevel
<1>10. AppliedLenOf(n)' = d /\ Known(n)' = IF d = 0 THEN 1 ELSE d
  <2> HIDE DEF len
  <2>1. d = 0 => MinOf(1, Len(longer)) = 1
    BY <1>0, <1>3, <1>6 DEF MinOf
  <2> QED BY <1>1, <1>4, <1>7, <2>1 DEF Known, AppliedLenOf
<1>11. decided_idx'[n] = d /\ d' = d
  BY <1>1
<1> HIDE DEF d, len
<1>12. NodeLevel(n)'
  <2>1. ~node[n].poisoned
    BY <1>0 DEF NodeLevel
  <2>2. /\ d <= Known(n)' /\ (d < Known(n)' => Known(n)' = Len(longer))
        /\ d > 0 => d > 0
    BY <1>0, <1>3, <1>6, <1>10
  <2> QED BY <1>1, <1>7, <1>9, <1>10, <1>11, <2>1, <2>2 DEF NodeLevel
<1>13. LogQuiet(n)'
  <2>1. commits # 0
    <3>1. commits = 0 => Len(r.log) = 0
      <4>1. Len(<< >>) = 0
        OBVIOUS
      <4> QED BY <1>2, <4>1 DEF BallotQuiet, r
    <3> QED BY <1>0, <1>1, <3>1 DEF r
  <2>2. Len(longer) <= d + 1
    BY <1>0, <1>3, <1>6
  <2>3. ballots[promised[n]].ready /\ ballots[promised[n]].leader # n
    BY <1>2 DEF r
  <2> QED BY <1>1, <1>7, <1>8, <1>11, <2>1, <2>2, <2>3 DEF LogQuiet
<1>14. decided_idx[n] <= decided_idx'[n] /\ decided_idx'[n] \in Nat
  BY <1>0, <1>1 DEF d
<1> QED BY <1>1, <1>7, <1>12, <1>13, <1>14, FollowerKeeps

LEMMA AcceptSyncKeeps ==
  ASSUME DisciplinedInv, Disciplined, [Next]_vars, ClusterInv', NEW n \in Server, Polled(n),
         NEW i \in Nat, AcceptSync(n, i), Quiet(n)',
         UNCHANGED <<node, polling, commits>>
  PROVE  LogsQuiet' /\ FirstInv' /\ \A m \in Server : NodeInv(m)'
<1> DEFINE d == decided_idx[n]
           r == ballots[promised[n]]
           synced == SubSeq(r.log, 1, i)
<1>0. /\ ClusterInv /\ LogQuiet(n) /\ NodeLevel(n) /\ Local(DatabaseLogEntry) /\ LogsQuiet
      /\ d \in Nat /\ d <= Len(log[n]) /\ log[n] \in Seq(DatabaseLogEntry)
      /\ Len(log[n]) \in Nat /\ commits \in Nat /\ accepted_round[n] \in Nat
  BY ServerFacts, DisciplinedFacts DEF ClusterInv, PaxosInv
<1>1. /\ Follows(n) /\ accepted_round[n] # promised[n]
      /\ r.adopted <= i /\ i <= Len(r.log)
      /\ log' = [log EXCEPT ![n] = synced]
      /\ accepted_round' = [accepted_round EXCEPT ![n] = promised[n]]
      /\ decided_idx' = [decided_idx EXCEPT ![n] = MaxOf({d, DecidedAfter(promised[n], i)})]
      /\ ballots' = ballots /\ promised' = promised
      /\ node' = node /\ polling' = polling /\ commits' = commits
  BY DEF AcceptSync
<1>2. /\ promised[n] \in Ballot /\ r.ready /\ r.leader # n
      /\ r.log \in Seq(DatabaseLogEntry) /\ Len(r.log) \in Nat
      /\ BallotQuiet(promised[n])
  BY <1>0, <1>1, FollowerOK, BallotTypes DEF Local, LogsQuiet
<1>3. /\ synced \in Seq(DatabaseLogEntry) /\ Len(synced) = i
      /\ \A j \in 1 .. i : synced[j] = r.log[j]
  <2> HIDE DEF r
  <2> QED BY <1>1, <1>2 DEF r
<1>4. /\ log'[n] = synced /\ accepted_round'[n] = promised[n]
      /\ decided_idx'[n] = i
      /\ \A m \in Server : m # n => /\ log'[m] = log[m] /\ accepted_round'[m] = accepted_round[m]
                                    /\ decided_idx'[m] = decided_idx[m]
  <2>1. log'[n] = synced
    BY <1>0, <1>1 DEF Local, PaxosTypeOK
  <2>2. decided_idx'[n] = Len(log'[n])
    BY DEF Quiet, Disciplined
  <2> HIDE DEF synced
  <2> QED BY <1>0, <1>1, <1>3, <2>1, <2>2 DEF Local, PaxosTypeOK
<1>5. d <= i
  <2>1. PaxosInv(DatabaseLogEntry) /\ [PaxosNext(DatabaseLogEntry)]_paxos_vars
    BY <1>0, NextIsPaxosNext DEF ClusterInv
  <2> QED BY <1>4, <2>1, DecidedKept
<1>6. /\ ~IsLeader(n) /\ n \notin polling
      /\ commits > 0 => \A m \in Server : decided_idx[m] > 0
  BY <1>0, <1>1, PolledFacts, LeaderFacts, FirstDecided DEF Follows
<1>7. AppliedLenOf(n) = d /\ Level(node[n].datastore, log[n], d)
  <2>1. commits = 0 \/ d > 0
    BY <1>0, <1>6
  <2>2. d = 0 => AppliedLenOf(n) = 0
    BY <1>0, <2>1, PolledFacts
  <2> QED BY <1>0, <1>6, <2>2, PolledFacts
<1>8. Level(node[n].datastore, synced, d)
  BY <1>0, <1>3, <1>4, <1>7, DecidedLevel
<1>9. commits = 0 => synced = << >> /\ i = 0
  <2>1. Len(<< >>) = 0
    OBVIOUS
  <2>2. commits = 0 => Len(r.log) = 0
    BY <1>2, <2>1 DEF BallotQuiet
  <2>3. commits = 0 => i = 0
    BY <1>1, <1>2, <2>2
  <2> HIDE DEF synced
  <2> QED BY <1>3, <2>3
<1> HIDE DEF synced
<1>10. AppliedLenOf(n)' = d /\ Known(n)' = i
  <2>1. i = 0 => MinOf(1, Len(synced)) = 0
    BY <1>3 DEF MinOf
  <2> QED BY <1>1, <1>3, <1>4, <1>7, <2>1 DEF Known, AppliedLenOf
<1> HIDE DEF r
<1>11. NodeLevel(n)'
  <2>1. ~node[n].poisoned
    BY <1>0 DEF NodeLevel
  <2>2. d <= i /\ (d < i => i = Len(synced)) /\ (i > 0 => d > 0)
    BY <1>0, <1>3, <1>5, <1>6, <1>9
  <2> HIDE DEF d
  <2> QED BY <1>1, <1>4, <1>8, <1>10, <2>1, <2>2 DEF NodeLevel
<1>12. LogQuiet(n)'
  <2>1. Numbered(synced)
    BY <1>1, <1>2, <1>3 DEF BallotQuiet, Numbered, r
  <2>2. Len(synced) <= i + 1
    BY <1>3
  <2>3. ballots[promised[n]].ready /\ ballots[promised[n]].leader # n
    BY <1>2 DEF r
  <2> QED BY <1>1, <1>4, <1>9, <2>1, <2>2, <2>3 DEF LogQuiet
<1> QED BY <1>1, <1>4, <1>5, <1>6, <1>11, <1>12, FollowerKeeps DEF d

LEMMA DecideKeeps ==
  ASSUME DisciplinedInv, Disciplined, NEW n \in Server, Polled(n), Decide(n),
         UNCHANGED <<node, polling, commits>>
  PROVE  LogsQuiet' /\ FirstInv' /\ \A m \in Server : NodeInv(m)'
<1> DEFINE len == Len(log[n])
           d == decided_idx[n]
           b == promised[n]
           a == AppliedLenOf(n)
<1>0. /\ ClusterInv /\ LogQuiet(n) /\ NodeLevel(n) /\ NodeLeads(n) /\ LogsQuiet
      /\ len \in Nat /\ d \in Nat /\ d <= len /\ log[n] \in Seq(DatabaseLogEntry)
      /\ commits \in Nat /\ Len(ballots) \in Nat /\ a \in Nat
      /\ PaxosTypeOK(DatabaseLogEntry)
  BY ServerFacts, NodeFacts, DisciplinedFacts DEF ClusterInv, PaxosInv, Local
<1>1. PICK i \in d + 1 .. len :
        /\ b # 0 /\ ballots[b].leader = n /\ ballots[b].ready
        /\ decided_idx' = [decided_idx EXCEPT ![n] = i]
        /\ ballots' = [ballots EXCEPT ![b].decided = i]
        /\ promised' = promised /\ log' = log /\ accepted_round' = accepted_round
        /\ node' = node /\ polling' = polling /\ commits' = commits
  BY DEF Decide
<1>2. i = len /\ len = d + 1
  <2>1. len <= d + 1
    BY <1>0 DEF LogQuiet
  <2> HIDE DEF len, d
  <2> QED BY <1>0, <1>1, <2>1
<1>3. b \in Ballot
  BY <1>0, <1>1, ServerFacts
<1> DEFINE r == ballots[b]
           s == [r EXCEPT !.decided = i]
<1>4. ballots' = [ballots EXCEPT ![b] = s] /\ r \in BallotRecord(DatabaseLogEntry) /\ i \in Nat
  BY <1>0, <1>1, <1>2, <1>3, BallotTypes DEF PaxosTypeOK
<1> HIDE DEF r
<1>5. /\ s \in BallotRecord(DatabaseLogEntry)
      /\ s.leader = r.leader /\ s.ready = r.ready /\ s.adopted = r.adopted /\ s.log = r.log
      /\ s.decided_at = r.decided_at
  BY <1>4 DEF BallotRecord
<1> HIDE DEF s
<1>6. /\ Ballot' = Ballot /\ Len(ballots') = Len(ballots) /\ ballots'[b] = s
      /\ \A c \in Ballot : c # b => ballots'[c] = ballots[c]
  <2> HIDE DEF b
  <2> QED BY <1>0, <1>3, <1>4, <1>5, BallotUpdated
<1> HIDE DEF b
<1>7. BallotQuiet(promised[n])'
  <2>1. BallotQuiet(b)
    BY <1>0, <1>3 DEF LogsQuiet
  <2> QED BY <1>1, <1>5, <1>6, <2>1 DEF BallotQuiet, r, b
<1>8. /\ decided_idx'[n] = len
      /\ \A m \in Server : m # n => decided_idx'[m] = decided_idx[m]
  BY <1>0, <1>1, <1>2 DEF PaxosTypeOK
<1>9. OwnStep(n)
  <2>1. BallotQuiet(b)'
    BY <1>1, <1>7 DEF b
  <2>2. ASSUME NEW c \in Ballot
        PROVE  /\ ballots'[c].leader = ballots[c].leader
               /\ ballots[c].leader # n => ballots'[c] = ballots[c]
               /\ ballots[c].ready => ballots'[c].ready
               /\ ballots'[c] = ballots[c] \/ BallotQuiet(c)'
    <3>1. CASE c # b
      BY <1>6, <3>1
    <3>2. CASE c = b
      <4>1. BallotQuiet(c)'
        BY <1>7, <1>1, <3>2 DEF BallotQuiet, b
      <4> QED BY <1>1, <1>5, <1>6, <3>2, <4>1 DEF r
    <3> QED BY <3>1, <3>2
  <2> QED BY <1>0, <1>1, <1>6, <1>8, <2>2 DEF OwnStep
<1>10. /\ n \notin polling /\ ~LeaderNews(n) /\ a = Known(n) /\ (d > 0 => a = d)
       /\ IsLeader(n) /\ node[n].datastore.next_tx_offset = len
       /\ commits > 0 => node[n].datastore.next_tx_offset > 0
  <2>1. IsLeader(n)
    BY <1>0, <1>1, LeaderFacts DEF b
  <2>2. d < len
    <3> HIDE DEF d, len
    <3> QED BY <1>0, <1>2
  <2> QED BY <1>0, <1>1, <2>1, <2>2, PolledFacts DEF NodeLeads, b
<1>11. /\ GetCurrentLeader(n)' = GetCurrentLeader(n) /\ IsLeader(n)' /\ ~LeaderNews(n)'
       /\ ballots'[promised[n]].ready
  <2>1. ballots'[b].leader = ballots[b].leader /\ ballots'[b].ready
    BY <1>1, <1>5, <1>6 DEF r
  <2> QED BY <1>1, <1>10, <2>1 DEF GetCurrentLeader, IsLeader, LeaderNews, b
<1>12. Known(n)' = len /\ AppliedLenOf(n)' = a /\ a > 0 /\ a <= len /\ (a # len => len = a + 1)
  <2>1. len # 0
    <3> HIDE DEF len, d
    <3> QED BY <1>0, <1>2
  <2>2. d = 0 => Known(n) = 1
    <3>1. d = 0 => len = 1
      BY <1>2
    <3> HIDE DEF len
    <3> QED BY <3>1 DEF Known, MinOf, len
  <2>3. Known(n)' = len /\ AppliedLenOf(n)' = a
    BY <1>1, <1>8, <2>1 DEF Known, AppliedLenOf
  <2> HIDE DEF len, d, a
  <2> QED BY <1>0, <1>2, <1>10, <2>1, <2>2, <2>3
<1> HIDE DEF len, d, a
<1>13. NodeLevel(n)'
  <2>1. /\ ~node[n].poisoned
        /\ \/ Level(node[n].datastore, log[n], a)
           \/ Ahead(node[n].datastore, log[n], a) /\ node[n].current_leader = n /\ promised[n] # 0
    BY <1>0 DEF NodeLevel, a
  <2> QED BY <1>0, <1>1, <1>8, <1>12, <2>1 DEF NodeLevel, len
<1>14. NodePolled(n)'
  BY <1>1, <1>10, <1>11 DEF NodePolled
<1>15. NodeLeads(n)'
  <2>1. News(n)' => node[n].datastore.next_tx_offset = a + 1
    BY <1>10, <1>12 DEF News
  <2>2. ~(decided_idx'[n] < Len(log'[n]))
    BY <1>0, <1>1, <1>8 DEF len
  <2> QED BY <1>1, <1>10, <1>11, <1>12, <2>1, <2>2 DEF NodeLeads
<1>16. LogQuiet(n)'
  <2>1. ballots'[promised[n]].ready /\ Len(log[n]) <= decided_idx'[n] + 1
    BY <1>0, <1>8, <1>11 DEF len
  <2>2. ASSUME accepted_round[n] # 0, ballots'[accepted_round[n]].leader = n
        PROVE  log[n] = ballots'[accepted_round[n]].log
    <3>1. accepted_round[n] \in Ballot
      BY <1>0, <2>2, ServerFacts
    <3>2. /\ ballots'[accepted_round[n]].leader = ballots[accepted_round[n]].leader
          /\ ballots'[accepted_round[n]].log = ballots[accepted_round[n]].log
      BY <1>5, <1>6, <3>1 DEF r
    <3> QED BY <1>0, <2>2, <3>2 DEF LogQuiet
  <2> QED BY <1>0, <1>1, <2>1, <2>2 DEF LogQuiet
<1>17. FirstInv'
  <2>1. \A m \in Server : decided_idx[m] \in Nat
    BY <1>0, ServerFacts
  <2>2. decided_idx[n] <= decided_idx'[n] /\ decided_idx'[n] \in Nat
    BY <1>0, <1>2, <1>8 DEF d
  <2>3. \A m \in Server : decided_idx[m] <= decided_idx'[m] /\ decided_idx'[m] \in Nat
    BY <1>8, <2>1, <2>2
  <2> QED BY <1>1, <1>6, <2>3, FirstKept
<1> QED BY <1>9, <1>13, <1>14, <1>15, <1>16, <1>17, RestKept DEF NodeInv

\* What n adopts at the end of Prepare, when nothing was in flight.
LEMMA PreparedQuiet ==
  ASSUME DisciplinedInv, NEW n \in Server, Prepared(n)
  PROVE  \E m \in Server :
           LET b == promised[n]
               len == Len(log[m])
           IN  /\ b \in Ballot /\ ballots[b].leader = n /\ ~ballots[b].ready
               /\ promised[m] = b
               /\ \/ accepted_round[n] < accepted_round[m]
                  \/ accepted_round[n] = accepted_round[m] /\ Len(log[n]) <= len
               /\ promised' = promised
               /\ log'[n] = log[m] /\ accepted_round'[n] = b /\ decided_idx'[n] = len
               /\ \A k \in Server : k # n => /\ log'[k] = log[k]
                                             /\ accepted_round'[k] = accepted_round[k]
                                             /\ decided_idx'[k] = decided_idx[k]
               /\ Len(ballots') = Len(ballots) /\ Ballot' = Ballot
               /\ \A c \in Ballot : c # b => ballots'[c] = ballots[c]
               /\ ballots'[b].leader = n /\ ballots'[b].ready
               /\ ballots'[b].log = log[m] /\ ballots'[b].adopted = len
<1> DEFINE b == promised[n]
           Q == {k \in Server : promised[k] = b}
           d == MaxOf({decided_idx[q] : q \in Q})
<1>0. /\ ClusterInv /\ LogsQuiet /\ Local(DatabaseLogEntry) /\ PaxosInv(DatabaseLogEntry)
      /\ PaxosTypeOK(DatabaseLogEntry)
  BY DisciplinedFacts DEF ClusterInv, PaxosInv, Local
<1>1. PICK m \in {q \in Q : MostUpdated(q, Q)} :
        /\ b # 0 /\ ballots[b].leader = n /\ ~ballots[b].ready /\ IsQuorum(Q)
        /\ log' = [log EXCEPT ![n] = log[m] \o ballots[b].log]
        /\ accepted_round' = [accepted_round EXCEPT ![n] = b]
        /\ decided_idx' = [decided_idx EXCEPT ![n] = d]
        /\ ballots' = [ballots EXCEPT ![b] =
             [ leader |-> n, ready |-> TRUE,
               adopted |-> Len(log[m] \o ballots[b].log), log |-> log[m] \o ballots[b].log,
               decided_at |-> [i \in 1 .. Len(log[m] \o ballots[b].log) |-> d],
               decided |-> d ]]
        /\ promised' = promised
  BY DEF Prepared
<1>2. /\ b \in Ballot /\ m \in Server /\ promised[m] = b /\ n \in Q /\ m \in Q
      /\ MostUpdated(m, Q)
      /\ log[m] \in Seq(DatabaseLogEntry) /\ Len(log[m]) \in Nat
      /\ \A q \in Q : decided_idx[q] \in Nat
  BY <1>0, <1>1, ServerFacts
<1>3. ballots[b].log = << >>
  BY <1>0, <1>1, <1>2 DEF LogsQuiet, BallotQuiet
<1>4. log[m] \o ballots[b].log = log[m]
  BY <1>2, <1>3
<1>5. log'[n] = log[m] /\ accepted_round'[n] = b /\ decided_idx'[n] = d
      /\ \A k \in Server : k # n => /\ log'[k] = log[k]
                                    /\ accepted_round'[k] = accepted_round[k]
                                    /\ decided_idx'[k] = decided_idx[k]
  <2> HIDE DEF b, d
  <2> QED BY <1>0, <1>1, <1>4 DEF PaxosTypeOK
<1>6. d = Len(log[m])
  <2> DEFINE S == {decided_idx[q] : q \in Q}
  <2>1. Q \in SUBSET Server /\ IsQuorum(Q) /\ \A q \in Q : promised[q] = b
    BY <1>1
  <2>2. \A q \in Q : decided_idx[q] <= Len(log[m])
    <3> HIDE DEF Q, b
    <3> QED BY <1>0, <1>1, <1>2, <2>1, AdoptedOK
  <2>3. S \subseteq Nat /\ decided_idx[m] \in S /\ \A x \in S : x <= Len(log[m])
    BY <1>2, <2>2
  <2>4. decided_idx[m] = Len(log[m])
    BY <1>0, <1>1, <1>2 DEF LogsQuiet, LogQuiet
  <2> HIDE DEF S, Q
  <2>5. MaxOf(S) \in S /\ \A y \in S : y <= MaxOf(S)
    BY <1>2, <2>3, MaxOfBounded
  <2>6. d = MaxOf(S)
    BY DEF S
  <2> HIDE DEF d
  <2> QED BY <1>2, <2>3, <2>4, <2>5, <2>6
<1> DEFINE at == [i \in 1 .. Len(log[m]) |-> d]
           r == [ leader |-> n, ready |-> TRUE, adopted |-> Len(log[m]), log |-> log[m],
                  decided_at |-> at, decided |-> d ]
<1>7. ballots' = [ballots EXCEPT ![b] = r]
  BY <1>1, <1>4
<1>8. r \in BallotRecord(DatabaseLogEntry) /\ r.leader = n /\ r.ready /\ r.log = log[m]
      /\ r.adopted = Len(log[m])
  <2>1. d \in Nat
    BY <1>2, <1>6
  <2> HIDE DEF d
  <2>2. at \in Seq(Nat)
    BY <1>2, <2>1
  <2> HIDE DEF at
  <2> QED BY <1>2, <2>1, <2>2 DEF BallotRecord
<1> HIDE DEF r, d
<1>9. /\ Len(ballots') = Len(ballots) /\ Ballot' = Ballot /\ ballots'[b] = r
      /\ \A c \in Ballot : c # b => ballots'[c] = ballots[c]
  <2>1. /\ PaxosTypeOK(DatabaseLogEntry) /\ b \in Ballot
        /\ r \in BallotRecord(DatabaseLogEntry)
    BY <1>0, <1>2, <1>8
  <2> HIDE DEF b, Q
  <2> QED BY <1>7, <2>1, BallotUpdated
<1>10. \/ accepted_round[n] < accepted_round[m]
       \/ accepted_round[n] = accepted_round[m] /\ Len(log[n]) <= Len(log[m])
  BY <1>2 DEF MostUpdated
<1>11. /\ m \in Server /\ b \in Ballot /\ ballots[b].leader = n /\ ~ballots[b].ready
       /\ promised[m] = b /\ promised' = promised
  BY <1>1, <1>2
<1>12. ballots'[b].leader = n /\ ballots'[b].ready
       /\ ballots'[b].log = log[m] /\ ballots'[b].adopted = Len(log[m])
  BY <1>8, <1>9
<1>13. decided_idx'[n] = Len(log[m])
  BY <1>5, <1>6
<1> HIDE DEF b
<1> QED BY <1>5, <1>9, <1>10, <1>11, <1>12, <1>13, SMTT(30) DEF b

LEMMA PreparedKeeps ==
  ASSUME DisciplinedInv, Disciplined, [Next]_vars, NEW n \in Server, Polled(n), Prepared(n),
         UNCHANGED <<node, polling, commits>>
  PROVE  LogsQuiet' /\ FirstInv' /\ \A m \in Server : NodeInv(m)'
<1> DEFINE d == decided_idx[n]
           b == promised[n]
<1>0. /\ ClusterInv /\ LogQuiet(n) /\ NodeLevel(n) /\ NodeLeads(n) /\ LogsQuiet
      /\ d \in Nat /\ log[n] \in Seq(DatabaseLogEntry) /\ Len(log[n]) \in Nat
      /\ commits \in Nat /\ Len(ballots) \in Nat /\ b \in Nat /\ accepted_round[n] \in Nat
      /\ accepted_round[n] # 0 => accepted_round[n] \in Ballot
      /\ accepted_round[n] <= b
  BY ServerFacts, DisciplinedFacts
<1>1. PICK m \in Server :
        LET len == Len(log[m])
        IN  /\ b \in Ballot /\ ballots[b].leader = n /\ ~ballots[b].ready
            /\ promised[m] = b
            /\ \/ accepted_round[n] < accepted_round[m]
               \/ accepted_round[n] = accepted_round[m] /\ Len(log[n]) <= len
            /\ promised' = promised
            /\ log'[n] = log[m] /\ accepted_round'[n] = b /\ decided_idx'[n] = len
            /\ \A k \in Server : k # n => /\ log'[k] = log[k]
                                          /\ accepted_round'[k] = accepted_round[k]
                                          /\ decided_idx'[k] = decided_idx[k]
            /\ Len(ballots') = Len(ballots) /\ Ballot' = Ballot
            /\ \A c \in Ballot : c # b => ballots'[c] = ballots[c]
            /\ ballots'[b].leader = n /\ ballots'[b].ready
            /\ ballots'[b].log = log[m] /\ ballots'[b].adopted = len
  BY PreparedQuiet
<1> DEFINE len == Len(log[m])
<1>2. /\ len \in Nat /\ log[m] \in Seq(DatabaseLogEntry) /\ LogQuiet(m)
      /\ accepted_round[m] \in Nat /\ accepted_round[m] <= b
      /\ accepted_round[m] # 0 => ballots[accepted_round[m]].ready
      /\ ServerOK(m) /\ Numbered(log[m])
      /\ node' = node /\ polling' = polling /\ commits' = commits /\ b # 0
  BY <1>0, <1>1, ServerFacts, DisciplinedFacts
     DEF ClusterInv, PaxosInv, Local, ServersOK, Ballot
<1>3. accepted_round[n] # b /\ accepted_round[m] # b
      /\ (commits > 0 => \A k \in Server : decided_idx[k] > 0)
  <2>1. accepted_round[n] # b /\ accepted_round[m] # b
    BY <1>0, <1>1, <1>2, ServerFacts
  <2> QED BY <2>1, FirstDecided
<1>4. /\ IsLeader(n) /\ ~LeaderNews(n) /\ n \notin polling
      /\ d = Len(log[n])
      /\ AppliedLenOf(n) = d /\ Level(node[n].datastore, log[n], d)
  <2>1. IsLeader(n)
    BY <1>0, <1>1, <1>2, LeaderFacts
  <2>2. d = Len(log[n])
    BY <1>0, <1>1, <1>2 DEF LogQuiet
  <2> QED BY <2>1, <2>2, PolledFacts
<1>5. Level(node[n].datastore, log[m], d)
  BY <1>0, <1>1, <1>2, <1>4, DecidedLevel
<1>6. d <= len
  <2>1. PaxosInv(DatabaseLogEntry) /\ [PaxosNext(DatabaseLogEntry)]_paxos_vars
    BY <1>0, NextIsPaxosNext DEF ClusterInv
  <2> QED BY <1>1, <2>1, DecidedKept
<1>7. commits = 0 => log[m] = << >> /\ len = 0
  <2>1. Len(<< >>) = 0
    OBVIOUS
  <2> QED BY <1>2, <2>1 DEF LogQuiet
<1>8. AppliedLenOf(n)' = d /\ Known(n)' = len
  <2>1. len = 0 => MinOf(1, len) = 0
    BY DEF MinOf
  <2> QED BY <1>1, <1>2, <1>4, <2>1 DEF AppliedLenOf, Known
<1>9. LedSince(n) => len = d
  <2> SUFFICES ASSUME LedSince(n) PROVE len = d
    OBVIOUS
  <2> DEFINE a == accepted_round[n]
             c == accepted_round[m]
  <2>1. /\ a # 0 /\ a \in Nat /\ a <= c /\ c # 0
        /\ \A e \in a .. b : ballots[e].leader = n /\ (e # a => ~ballots[e].ready)
        /\ a <= b
    BY <1>0, <1>1, <1>2 DEF LedSince
  <2>2. c = a
    <3>1. c \in a .. b
      BY <1>0, <1>2, <2>1
    <3> HIDE DEF a
    <3> QED BY <1>2, <2>1, <3>1
  <2>3. ballots[a].leader = n
    <3>1. a \in a .. b
      BY <1>0, <2>1
    <3> HIDE DEF a
    <3> QED BY <2>1, <3>1
  <2>4. log[n] = ballots[a].log
    BY <1>0, <2>1, <2>3 DEF LogQuiet
  <2>5. len <= Len(log[n])
    BY <1>2, <2>1, <2>2, <2>4 DEF ServerOK, Agree
  <2> HIDE DEF d, len, a, c
  <2> QED BY <1>0, <1>2, <1>4, <1>6, <2>5
<1> HIDE DEF b, d, len
<1>10. /\ IsLeader(n)' /\ GetCurrentLeader(n)' = GetCurrentLeader(n) /\ ~LeaderNews(n)'
       /\ ballots'[promised[n]].ready
  BY <1>1, <1>2, <1>4 DEF IsLeader, GetCurrentLeader, LeaderNews, b
<1>11. NodeLevel(n)'
  <2>1. ~node[n].poisoned
    BY <1>0 DEF NodeLevel
  <2>2. len > 0 => d > 0
    <3>1. commits > 0 => d > 0
      BY <1>3 DEF d
    <3> QED BY <1>0, <1>2, <1>7, <3>1
  <2> QED BY <1>1, <1>2, <1>5, <1>6, <1>8, <2>1, <2>2 DEF NodeLevel, len
<1>12. NodePolled(n)'
  BY <1>1, <1>2, <1>4, <1>10 DEF NodePolled
<1>13. NodeLeads(n)'
  <2>1. /\ commits > 0 => node[n].datastore.next_tx_offset > 0
        /\ node[n].got_promoted_leader \/ commits = 0 \/ LedSince(n)
    BY <1>0, <1>1, <1>4 DEF NodeLeads, b
  <2>2. News(n)' => node[n].got_promoted_leader
    <3>1. News(n)' => d # len
      BY <1>8 DEF News
    <3>2. commits = 0 => d = len
      BY <1>0, <1>2, <1>6, <1>7
    <3> QED BY <1>9, <2>1, <3>1, <3>2
  <2>3. ~(decided_idx'[n] < Len(log'[n]))
    BY <1>1, <1>2 DEF len
  <2> QED BY <1>1, <1>2, <1>10, <2>1, <2>2, <2>3 DEF NodeLeads
<1>14. LogQuiet(n)'
  <2>1. Len(log'[n]) <= decided_idx'[n] + 1
    BY <1>1, <1>2 DEF len
  <2>2. accepted_round'[n] = b /\ log'[n] = ballots'[b].log
    BY <1>1
  <2> QED BY <1>1, <1>2, <1>7, <1>10, <2>1, <2>2 DEF LogQuiet
<1>15. BallotQuiet(promised[n])'
  <2>1. \A j \in len + 1 .. len : FALSE
    BY <1>2
  <2>2. commits' = 0 => ballots'[b].log = << >>
    BY <1>1, <1>2, <1>7
  <2>3. /\ ballots'[promised'[n]].log = log[m] /\ ballots'[promised'[n]].ready
        /\ ballots'[promised'[n]].adopted = len /\ Len(ballots'[promised'[n]].log) = len
    BY <1>1 DEF len, b
  <2> QED BY <1>1, <1>2, <2>1, <2>2, <2>3 DEF BallotQuiet, Numbered, b
<1>16. OwnStep(n)
  <2>1. ASSUME NEW c \in Ballot
        PROVE  /\ ballots'[c].leader = ballots[c].leader
               /\ ballots[c].leader # n => ballots'[c] = ballots[c]
               /\ ballots[c].ready => ballots'[c].ready
               /\ ballots'[c] = ballots[c] \/ BallotQuiet(c)'
    <3>1. CASE c # b
      BY <1>1, <3>1
    <3>2. CASE c = b
      <4>1. BallotQuiet(c)'
        BY <1>15, <1>1, <3>2 DEF BallotQuiet, b
      <4> QED BY <1>1, <3>2, <4>1
    <3> QED BY <3>1, <3>2
  <2> QED BY <1>0, <1>1, <1>2, <2>1 DEF OwnStep
<1>17. FirstInv'
  <2>1. \A k \in Server : decided_idx[k] \in Nat
    BY <1>0, ServerFacts
  <2>2. decided_idx[n] <= decided_idx'[n] /\ decided_idx'[n] \in Nat
    BY <1>1, <1>2, <1>6 DEF d, len
  <2>3. \A k \in Server : decided_idx[k] <= decided_idx'[k] /\ decided_idx'[k] \in Nat
    BY <1>1, <2>1, <2>2
  <2> QED BY <1>1, <1>2, <1>3, <2>3, FirstKept
<1> QED BY <1>11, <1>12, <1>13, <1>14, <1>16, <1>17, RestKept DEF NodeInv

LEMMA CommitKeeps ==
  ASSUME DisciplinedInv, Disciplined, NEW n \in Server, CommitMutTx(n)
  PROVE  LogsQuiet' /\ FirstInv' /\ \A m \in Server : NodeInv(m)'
<1> DEFINE len == Len(log[n])
           b == promised[n]
           cs == node[n].datastore
           writes == Transactions[commits + 1]
           entry == LogEntry(cs.next_tx_offset, TxDataOf(writes))
           committed == Commit(cs, writes)
           longer == Append(log[n], entry)
           nd == [node[n] EXCEPT !.datastore = committed]
           r == ballots[b]
           s == [r EXCEPT !.log = Append(@, entry), !.decided_at = Append(@, r.decided)]
<1>0. /\ ClusterInv /\ LogQuiet(n) /\ NodeLevel(n) /\ LogsQuiet /\ FirstInv
      /\ len \in Nat /\ log[n] \in Seq(DatabaseLogEntry) /\ decided_idx[n] \in Nat
      /\ commits \in Nat /\ Len(ballots) \in Nat
      /\ PaxosTypeOK(DatabaseLogEntry) /\ BallotsOK
      /\ node[n] \in NodeType /\ cs \in CommittedStateType
  BY ServerFacts, NodeFacts, DisciplinedFacts DEF ClusterInv, PaxosInv, Local
<1>1. /\ IsLeader(n) /\ commits < Len(Transactions)
      /\ node' = [node EXCEPT ![n].datastore = committed]
      /\ AppendEntry(n, entry)
      /\ commits' = commits + 1 /\ polling' = polling
      /\ Polled(n) /\ decided_idx[n] = len /\ (b # 0 => r.ready)
      /\ commits = 0 => \A m \in Server : accepted_round[m] = Len(ballots) /\ ~LeaderNews(m)
      /\ commits > 0 => \A m \in Server : decided_idx[m] > 0
  BY DEF CommitMutTx, AppendTx, Settled, FirstTxApplied, Disciplined
<1>2. /\ b # 0 /\ b \in Ballot /\ r.leader = n /\ r.ready
      /\ accepted_round[n] = b /\ log[n] = r.log /\ decided_idx[n] = r.decided
  BY <1>0, <1>1, LeaderFacts, ServerFacts
<1>3. /\ n \notin polling /\ ~LeaderNews(n)
      /\ AppliedLenOf(n) = len /\ Level(cs, log[n], len) /\ cs.next_tx_offset = len
      /\ node[n].current_leader = n
  <2>1. /\ n \notin polling /\ ~LeaderNews(n)
        /\ AppliedLenOf(n) = len /\ Level(cs, log[n], len)
    BY <1>1, PolledFacts
  <2>2. node[n].current_leader = n
    BY <1>1, <2>1, NoLeaderAssumption DEF LeaderNews, IsLeader
  <2> QED BY <2>1, <2>2 DEF Level
<1>4. writes \in Diffs /\ committed \in CommittedStateType
  <2>1. writes \in Diffs
    <3>1. commits + 1 \in 1 .. Len(Transactions)
      BY <1>0, <1>1, TransactionsAssumption
    <3> QED BY <3>1, TransactionsAssumption
  <2> HIDE DEF writes, cs
  <2> QED BY <1>0, <2>1, CommitType
<1>5. /\ Ahead(committed, longer, len) /\ entry \in DatabaseLogEntry /\ entry.tx_offset = len
      /\ entry = LogEntry(len, TxDataOf(writes))
  <2> HIDE DEF writes, cs
  <2>1. entry \in DatabaseLogEntry /\ entry.tx_offset = len
    BY <1>0, <1>3, <1>4, TxDataOfType DEF LogEntry, DatabaseLogEntry, Offset
  <2> QED BY <1>0, <1>3, <1>4, <2>1, CommitAhead
<1>6. committed.replicated_tx_offset = cs.replicated_tx_offset
      /\ committed.next_tx_offset = len + 1
  BY <1>3 DEF Commit
<1> HIDE DEF entry, committed, writes
<1>7. /\ longer \in Seq(DatabaseLogEntry) /\ Len(longer) = len + 1 /\ longer[len + 1] = entry
      /\ \A i \in 1 .. len : longer[i] = log[n][i]
  BY <1>0, <1>5
<1>8. Numbered(longer)
  <2> HIDE DEF len, longer
  <2>1. \A i \in 1 .. len : log[n][i].tx_offset = i - 1
    BY <1>0 DEF LogQuiet, Numbered, len
  <2>2. (len + 1) - 1 = len /\ \A i \in 1 .. len + 1 : i \in 1 .. len \/ i = len + 1
    BY <1>0
  <2> QED BY <1>5, <1>7, <2>1, <2>2 DEF Numbered
<1>9. /\ r \in BallotRecord(DatabaseLogEntry) /\ r.adopted \in Nat
      /\ r.decided_at \in Seq(Nat) /\ r.decided \in Nat /\ r.log \in Seq(DatabaseLogEntry)
      /\ Len(r.decided_at) = len /\ r.adopted <= len
  <2> HIDE DEF r, b
  <2> QED BY <1>0, <1>2, BallotTypes DEF BallotsOK, r
<1>10. ballots' = [ballots EXCEPT ![b] = s]
  <2>1. ballots' = [ballots EXCEPT ![b].log = Append(@, entry),
                                   ![b].decided_at = Append(@, ballots[b].decided)]
    BY <1>1 DEF AppendEntry
  <2>2. ballots \in Seq(BallotRecord(DatabaseLogEntry))
    BY <1>0 DEF PaxosTypeOK
  <2> QED BY <1>2, <2>1, <2>2
<1>11. /\ s \in BallotRecord(DatabaseLogEntry) /\ s.leader = n /\ s.ready
       /\ s.adopted = r.adopted /\ s.log = longer
       /\ s.decided_at = Append(r.decided_at, r.decided)
  <2>1. longer = Append(r.log, entry) /\ Append(r.decided_at, r.decided) \in Seq(Nat)
    BY <1>2, <1>9
  <2> HIDE DEF r, longer
  <2> QED BY <1>2, <1>7, <1>9, <2>1 DEF BallotRecord
<1> HIDE DEF s
<1>12. /\ Len(ballots') = Len(ballots) /\ Ballot' = Ballot /\ ballots'[b] = s
       /\ \A c \in Ballot : c # b => ballots'[c] = ballots[c]
  <2> HIDE DEF b
  <2> QED BY <1>0, <1>2, <1>10, <1>11, BallotUpdated
<1>13. /\ promised' = promised /\ accepted_round' = accepted_round /\ decided_idx' = decided_idx
       /\ log'[n] = longer
       /\ \A m \in Server : m # n => log'[m] = log[m]
  <2>1. /\ promised' = promised /\ accepted_round' = accepted_round /\ decided_idx' = decided_idx
        /\ log' = [log EXCEPT ![n] = longer]
    BY <1>1, <1>2 DEF AppendEntry
  <2> HIDE DEF longer
  <2> QED BY <1>0, <2>1 DEF PaxosTypeOK
<1>14. /\ node'[n] = nd
       /\ nd.datastore = committed /\ nd.current_leader = n
       /\ nd.poisoned = node[n].poisoned
       /\ \A m \in Server : m # n => node'[m] = node[m]
  BY <1>0, <1>1, <1>3, <1>4 DEF ClusterInv, NodeType
<1> HIDE DEF nd, longer, cs
<1>15. BallotQuiet(promised[n])'
  <2>1. \A j \in r.adopted + 1 .. len + 1 : s.decided_at[j] = j - 1
    <3> SUFFICES ASSUME NEW j \in r.adopted + 1 .. len + 1 PROVE s.decided_at[j] = j - 1
      OBVIOUS
    <3>0. BallotQuiet(b)
      BY <1>0, <1>2 DEF LogsQuiet
    <3>1. CASE j = len + 1
      <4>1. s.decided_at[len + 1] = r.decided /\ r.decided = len
        <5> HIDE DEF len, r
        <5>1. r.decided = len
          BY <1>1, <1>2
        <5>2. r.decided_at \in Seq(Nat) /\ Len(r.decided_at) = len /\ r.decided \in Nat
          BY <1>9
        <5> QED BY <1>11, <5>1, <5>2
      <4> HIDE DEF len
      <4> QED BY <1>0, <3>1, <4>1
    <3>2. CASE j # len + 1
      <4>1. j \in r.adopted + 1 .. len /\ j \in 1 .. len
        <5> HIDE DEF len, r
        <5> QED BY <1>0, <1>9, <3>2
      <4>2. r.decided_at[j] = j - 1
        BY <1>2, <3>0, <4>1 DEF BallotQuiet
      <4>3. s.decided_at[j] = r.decided_at[j]
        <5> HIDE DEF len, r
        <5> QED BY <1>9, <1>11, <4>1
      <4> QED BY <4>2, <4>3
    <3> QED BY <3>1, <3>2
  <2>2. ballots'[promised'[n]] = s /\ commits' # 0
    BY <1>0, <1>1, <1>12, <1>13
  <2>3. s.adopted = r.adopted /\ Len(s.log) = len + 1 /\ Numbered(s.log) /\ s.ready
    BY <1>7, <1>8, <1>11
  <2> HIDE DEF len, r
  <2> QED BY <2>1, <2>2, <2>3 DEF BallotQuiet
<1> HIDE DEF r, b, len
<1>16. OwnStep(n)
  <2>1. ASSUME NEW c \in Ballot
        PROVE  /\ ballots'[c].leader = ballots[c].leader
               /\ ballots[c].leader # n => ballots'[c] = ballots[c]
               /\ ballots[c].ready => ballots'[c].ready
               /\ ballots'[c] = ballots[c] \/ BallotQuiet(c)'
    <3>1. CASE c # b
      BY <1>12, <3>1
    <3>2. CASE c = b
      <4>1. BallotQuiet(c)'
        BY <1>13, <1>15, <3>2 DEF BallotQuiet, b
      <4> QED BY <1>2, <1>11, <1>12, <3>2, <4>1 DEF r
    <3> QED BY <3>1, <3>2
  <2>2. ASSUME commits = 0, NEW m \in Server, m # n
        PROVE  ~IsLeader(m)
    <3>1. /\ promised[m] = Len(ballots) /\ promised[n] = Len(ballots)
      BY <1>0, <1>1, <2>2, ServerFacts
    <3> QED BY <1>0, <1>2, <2>2, <3>1, LeaderFacts DEF b, r
  <2> QED BY <1>0, <1>1, <1>12, <1>13, <1>14, <2>1, <2>2 DEF OwnStep
<1>17. LogQuiet(n)'
  <2>1. /\ Len(longer) <= decided_idx[n] + 1 /\ Numbered(longer) /\ commits' # 0
    BY <1>0, <1>1, <1>7, <1>8
  <2>2. ballots'[promised[n]].ready /\ ballots'[accepted_round[n]].log = longer
    BY <1>2, <1>11, <1>12 DEF b
  <2> QED BY <1>13, <2>1, <2>2 DEF LogQuiet
<1>18. /\ IsLeader(n)' /\ ~LeaderNews(n)' /\ ballots'[promised[n]].ready
  <2>1. ballots'[promised'[n]].leader = n
    BY <1>11, <1>12, <1>13 DEF b
  <2>2. GetCurrentLeader(n)' = n
    BY <1>2, <1>13, <2>1 DEF GetCurrentLeader, b
  <2> QED BY <1>2, <1>11, <1>12, <1>14, <2>2 DEF IsLeader, LeaderNews, b
<1>19. /\ AppliedLenOf(n)' = len /\ len <= Known(n)'
       /\ (len < Known(n)' => Known(n)' = Len(longer))
       /\ len > 0 => Known(n)' = len
  <2>1. AppliedLenOf(n)' = len
    BY <1>3, <1>6, <1>14 DEF AppliedLenOf, cs
  <2>2. Known(n)' = IF len = 0 THEN 1 ELSE len
    <3>1. len = 0 => MinOf(1, Len(longer)) = 1
      BY <1>7 DEF MinOf
    <3> QED BY <1>1, <1>13, <3>1 DEF Known, len
  <2> QED BY <1>0, <1>7, <2>1, <2>2
<1>20. NodeLevel(n)'
  <2>1. ~node[n].poisoned
    BY <1>0 DEF NodeLevel
  <2>2. decided_idx'[n] > 0 => len > 0
    BY <1>1, <1>13
  <2> QED BY <1>2, <1>5, <1>13, <1>14, <1>19, <2>1, <2>2 DEF NodeLevel, b
<1>21. NodePolled(n)'
  BY <1>1, <1>3, <1>13, <1>18 DEF NodePolled
<1>22. NodeLeads(n)'
  <2>1. node'[n].datastore.next_tx_offset = len + 1 /\ len + 1 > 0
    BY <1>0, <1>6, <1>14
  <2> QED BY <1>7, <1>13, <1>18, <1>19, <2>1 DEF NodeLeads
<1>23. FirstInv'
  <2>1. CASE commits = 0
    <3>1. \A m \in Server : promised[m] # 0 /\ node[m].current_leader # NoLeader
      <4> SUFFICES ASSUME NEW m \in Server
                   PROVE  promised[m] # 0 /\ node[m].current_leader # NoLeader
        OBVIOUS
      <4>1. promised[m] # 0
        <5>1. Len(ballots) # 0
          BY <1>0, <1>2 DEF Ballot
        <5> QED BY <1>0, <1>1, <2>1, <5>1, ServerFacts
      <4>2. GetCurrentLeader(m) # NoLeader
        BY <1>0, <4>1, LeaderFacts
      <4> QED BY <1>1, <2>1, <4>1, <4>2 DEF LeaderNews
    <3> QED BY <1>1, <1>12, <1>13, <1>14, <2>1, <3>1, NoLeaderAssumption DEF FirstInv
  <2>2. CASE commits # 0
    BY <1>0, <1>1, <1>13, <1>14, <2>2, NoLeaderAssumption DEF FirstInv
  <2> QED BY <2>1, <2>2
<1> QED BY <1>16, <1>17, <1>20, <1>21, <1>22, <1>23, RestKept DEF NodeInv

-----------------------------------------------------------------------------
(***************************************************************************)
(* The invariant, and what it implies.                                     *)
(***************************************************************************)
LEMMA DisciplinedInvStep ==
  ASSUME DisciplinedInv, Disciplined, [Next]_vars
  PROVE  DisciplinedInv'
<1>0. ClusterInv /\ ClusterInv'
  BY ClusterInvStep DEF DisciplinedInv
<1> SUFFICES LogsQuiet' /\ FirstInv' /\ \A m \in Server : NodeInv(m)'
  BY <1>0 DEF DisciplinedInv
<1>1. ASSUME NEW n \in Server, HandleIncoming(n)
      PROVE  LogsQuiet' /\ FirstInv' /\ \A m \in Server : NodeInv(m)'
  <2>1. Polled(n) /\ UNCHANGED <<node, polling, commits>>
    BY <1>1 DEF HandleIncoming, HandlesMessage, Disciplined
  <2>2. \/ \E b \in Ballot : Promise(n, b) /\ (ballots[b].ready \/ Quiet(n))
        \/ Prepared(n)
        \/ \E i \in 0 .. Len(Transactions) : AcceptSync(n, i) /\ Quiet(n)'
        \/ LearnDecided(n)
        \/ AcceptDecide(n)
        \/ Decide(n)
    BY <1>1 DEF HandleIncoming
  <2>3. CASE \E b \in Ballot : Promise(n, b) /\ (ballots[b].ready \/ Quiet(n))
    BY <2>1, <2>3, PromiseKeeps
  <2>4. CASE Prepared(n)
    BY <2>1, <2>4, PreparedKeeps
  <2>5. CASE \E i \in 0 .. Len(Transactions) : AcceptSync(n, i) /\ Quiet(n)'
    BY <1>0, <2>1, <2>5, AcceptSyncKeeps
  <2>6. CASE LearnDecided(n)
    BY <2>1, <2>6, LearnDecidedKeeps
  <2>7. CASE AcceptDecide(n)
    BY <2>1, <2>7, AcceptDecideKeeps
  <2>8. CASE Decide(n)
    BY <2>1, <2>8, DecideKeeps
  <2> QED BY <2>2, <2>3, <2>4, <2>5, <2>6, <2>7, <2>8
<1>2. ASSUME UNCHANGED vars
      PROVE  LogsQuiet' /\ FirstInv' /\ \A m \in Server : NodeInv(m)'
  <2>1. /\ ballots' = ballots /\ promised' = promised /\ log' = log
        /\ accepted_round' = accepted_round /\ decided_idx' = decided_idx
        /\ node' = node /\ polling' = polling /\ commits' = commits
    BY <1>2 DEF vars, paxos_vars
  <2>2. ASSUME NEW m \in Server PROVE NodeInv(m)'
    <3>1. NodeInv(m) /\ commits \in Nat
      BY DisciplinedFacts DEF DisciplinedInv
    <3> QED BY <1>0, <2>1, <3>1, NodeKept
  <2>3. LogsQuiet' /\ FirstInv'
    <3>1. LogsQuiet /\ FirstInv
      BY DEF DisciplinedInv
    <3> QED BY <2>1, <3>1 DEF LogsQuiet, LogQuiet, BallotQuiet, FirstInv, Ballot
  <2> QED BY <2>2, <2>3
<1>3. CASE Next
  <2>1. PICK n \in Server : \/ UpdateLeader(n) \/ Apply(n) \/ CommitMutTx(n)
                            \/ Stop(n) \/ Elect(n) \/ HandleIncoming(n)
    BY <1>3 DEF Next
  <2> QED BY <1>1, <2>1, UpdateLeaderKeeps, ApplyKeeps, CommitKeeps, StopKeeps, ElectKeeps
<1> QED BY <1>2, <1>3

LEMMA DisciplinedInvInitially == Init => DisciplinedInv
<1> SUFFICES ASSUME Init PROVE DisciplinedInv
  OBVIOUS
<1>1. ClusterInv
  BY ClusterInvInitially
<1>2. /\ commits = 0 /\ polling = {} /\ ballots = << >> /\ Len(ballots) = 0
      /\ \A n \in Server : /\ promised[n] = 0 /\ log[n] = << >> /\ accepted_round[n] = 0
                           /\ decided_idx[n] = 0 /\ node[n] = NewNode
  BY DEF Init, PaxosInit
<1>3. Len(<< >>) = 0 /\ Numbered(<< >>) /\ \A k : LogLeaves(TxDatas(<< >>), 0, k, NoValue)
  <2>1. Len(<< >>) = 0 /\ 1 .. 0 = {}
    OBVIOUS
  <2> QED BY <2>1 DEF Numbered, LogLeaves
<1>4. LogsQuiet /\ FirstInv
  <2>1. Ballot = {}
    BY <1>2 DEF Ballot
  <2> QED BY <1>2, <1>3, <2>1 DEF LogsQuiet, LogQuiet, FirstInv
<1>5. ASSUME NEW n \in Server PROVE NodeInv(n)
  <2>1. /\ AppliedLenOf(n) = 0 /\ Known(n) = 0 /\ ~IsLeader(n) /\ ~LeaderNews(n)
    BY <1>2, <1>3, NoLeaderAssumption
       DEF AppliedLenOf, Known, MinOf, NewNode, Fresh, NoOffset, IsLeader, GetCurrentLeader, LeaderNews
  <2>2. Level(node[n].datastore, log[n], 0) /\ ~node[n].poisoned
    BY <1>2, <1>3 DEF Level, Applied, NewNode, Fresh, NoOffset
  <2> QED BY <1>2, <2>1, <2>2 DEF NodeInv, NodeLevel, NodePolled, NodeLeads, News
<1> QED BY <1>1, <1>4, <1>5 DEF DisciplinedInv

\* The invariant holds in every cluster in which time is as the tests make it.
THEOREM DisciplinedInvariant == Disciplined => (Spec => []DisciplinedInv)
<1> SUFFICES ASSUME Disciplined PROVE Spec => []DisciplinedInv
  OBVIOUS
<1>1. DisciplinedInv /\ [Next]_vars => DisciplinedInv'
  BY DisciplinedInvStep
<1> QED BY <1>1, DisciplinedInvInitially, PTL DEF Spec

\* What a read at Memory finds, level or ahead.
LEMMA MemoryReads ==
  ASSUME NEW cs, NEW entries, NEW a \in Nat, Len(entries) \in Nat, a <= Len(entries),
         Level(cs, entries, a) \/ Ahead(cs, entries, a)
  PROVE  /\ cs.next_tx_offset <= Len(entries) /\ cs.replicated_tx_offset < cs.next_tx_offset
         /\ \A k \in Key :
              /\ LogLeaves(TxDatas(entries), a, k, Get(cs, k, Replicated))
              /\ LogLeaves(TxDatas(entries), cs.next_tx_offset, k, Get(cs, k, Memory))
<1> DEFINE datas == TxDatas(entries)
           data == entries[a + 1].tx_data
<1>1. Memory # Replicated
  BY DEF Memory, Replicated
<1>2. \A k \in Key : /\ Get(cs, k, Replicated) = cs.replicated_state[k]
                     /\ LogLeaves(datas, a, k, cs.replicated_state[k])
  BY <1>1 DEF Get, Level, Ahead, Applied
<1>3. CASE Level(cs, entries, a)
  <2>1. cs.next_tx_offset = a /\ cs.replicated_tx_offset = a - 1
        /\ \A k \in Key : cs.committed_diff[k] = << >>
    BY <1>3 DEF Level, Applied
  <2>2. \A k \in Key : Get(cs, k, Memory) = cs.replicated_state[k]
    BY <2>1 DEF Get
  <2> HIDE DEF datas
  <2> QED BY <1>2, <2>1, <2>2 DEF datas
<1>4. CASE Ahead(cs, entries, a)
  <2>1. /\ cs.next_tx_offset = a + 1 /\ cs.replicated_tx_offset = a - 1 /\ a + 1 = Len(entries)
        /\ \A k \in Key : DiffOf(cs.committed_diff[k], data, a, k)
    BY <1>4 DEF Ahead, Applied
  <2>2. /\ a + 1 \in 1 .. Len(entries) /\ a + 1 \in 1 .. a + 1 /\ a + 1 \in Nat
        /\ (a + 1) + 1 .. a + 1 = {}
    BY <2>1
  <2>3. datas[a + 1] = data
    BY <2>2 DEF TxDatas
  <2>4. ASSUME NEW k \in Key
        PROVE  LogLeaves(datas, a + 1, k, Get(cs, k, Memory))
    <3> DEFINE history == cs.committed_diff[k]
    <3>1. DiffOf(history, data, a, k)
      BY <2>1
    <3>2. CASE Touches(data, k)
      <4>1. Len(history) = 1 /\ Writes(data, k, history[1].diff)
        BY <3>1, <3>2 DEF DiffOf
      <4>2. history # << >>
        <5>1. Len(<< >>) = 0
          OBVIOUS
        <5>2. Len(history) # 0
          BY <4>1
        <5> HIDE DEF history
        <5> QED BY <5>1, <5>2
      <4>3. Get(cs, k, Memory) = history[1].diff
        BY <4>1, <4>2 DEF Get, GetLatest
      <4>4. Writes(datas[a + 1], k, Get(cs, k, Memory))
        BY <2>3, <4>1, <4>3
      <4> HIDE DEF datas
      <4> QED BY <2>2, <4>4, LogLeavesWrite
    <3>3. CASE ~Touches(data, k)
      <4>1. Get(cs, k, Memory) = cs.replicated_state[k]
        BY <3>1, <3>3 DEF DiffOf, Get
      <4>2. \A i \in a + 1 .. a + 1 : ~Touches(datas[i], k)
        BY <2>2, <2>3, <3>3
      <4>3. LogLeaves(datas, a, k, cs.replicated_state[k])
        BY <1>2
      <4> HIDE DEF datas
      <4> QED BY <2>2, <4>1, <4>2, <4>3, LogLeavesExtends
    <3> QED BY <3>2, <3>3
  <2> HIDE DEF datas
  <2> QED BY <1>2, <2>1, <2>4 DEF datas
<1> QED BY <1>3, <1>4

LEMMA DisciplinedReads ==
  ASSUME DisciplinedInv, Disciplined, NEW n \in Server
  PROVE  LET cs == node[n].datastore
             a == AppliedLenOf(n)
         IN  /\ Level(cs, log[n], a) \/ Ahead(cs, log[n], a)
             /\ a \in Nat /\ a <= Len(log[n]) /\ Len(log[n]) \in Nat
             /\ cs.replicated_tx_offset = a - 1
             /\ TxDataLog(n) = TxDatas(log[n])
<1>1. ClusterInv /\ NodeLevel(n) /\ Numbered(log[n]) /\ DecidedSlack = 1
  BY DisciplinedFacts DEF Disciplined
<1>2. AppliedLenOf(n) \in Nat /\ Known(n) \in 0 .. Len(log[n]) /\ Len(log[n]) \in Nat
  BY <1>1, NodeFacts, ServerFacts, DurableIsKnown
<1>3. Level(node[n].datastore, log[n], AppliedLenOf(n)) \/ Ahead(node[n].datastore, log[n], AppliedLenOf(n))
  BY <1>1 DEF NodeLevel
<1>4. node[n].datastore.replicated_tx_offset = AppliedLenOf(n) - 1
  BY <1>3 DEF Level, Ahead, Applied
<1>5. AppliedLenOf(n) <= Len(log[n])
  BY <1>1, <1>2 DEF NodeLevel
<1>6. TxDataLog(n) = TxDatas(log[n])
  BY DEF TxDataLog, TxDatas
<1> QED BY <1>2, <1>3, <1>4, <1>5, <1>6

\* Where time is as the tests make it, in a cluster of any size: the offsets
\* that apply_replicated_txns takes for positions in the log are positions.
THEOREM OffsetsArePositions == Disciplined => (Spec => []OffsetIsPosition)
<1> SUFFICES ASSUME Disciplined PROVE Spec => []OffsetIsPosition
  OBVIOUS
<1>1. DisciplinedInv => OffsetIsPosition
  BY DEF DisciplinedInv, LogsQuiet, LogQuiet, Numbered, OffsetIsPosition
<1> QED BY <1>1, DisciplinedInvariant, PTL

\* A read at Replicated sees what the decided log says.
THEOREM ReplicatedReadsLog == Disciplined => (Spec => []ReplicatedStateIsLogPrefix)
<1> SUFFICES ASSUME Disciplined PROVE Spec => []ReplicatedStateIsLogPrefix
  OBVIOUS
<1>1. DisciplinedInv => ReplicatedStateIsLogPrefix
  <2> SUFFICES ASSUME DisciplinedInv, NEW n \in Server
               PROVE  LET cs == node[n].datastore
                      IN  /\ cs.replicated_tx_offset < Len(log[n])
                          /\ \A k \in Key :
                               LogLeaves(TxDataLog(n), cs.replicated_tx_offset + 1, k, Get(cs, k, Replicated))
    BY DEF ReplicatedStateIsLogPrefix
  <2> DEFINE cs == node[n].datastore
             a == AppliedLenOf(n)
  <2>1. /\ Level(cs, log[n], a) \/ Ahead(cs, log[n], a)
        /\ a \in Nat /\ a <= Len(log[n]) /\ Len(log[n]) \in Nat
        /\ cs.replicated_tx_offset = a - 1
        /\ TxDataLog(n) = TxDatas(log[n])
    BY DisciplinedReads
  <2> HIDE DEF cs, a
  <2>2. \A k \in Key : LogLeaves(TxDataLog(n), a, k, Get(cs, k, Replicated))
    BY <2>1, MemoryReads
  <2>3. cs.replicated_tx_offset < Len(log[n]) /\ cs.replicated_tx_offset + 1 = a
    BY <2>1
  <2> QED BY <2>2, <2>3 DEF cs
<1> QED BY <1>1, DisciplinedInvariant, PTL

\* A read at Memory sees what the log says, and is not ahead of it.
THEOREM MemoryReadsLog == Disciplined => (Spec => []MemoryStateIsLogPrefix)
<1> SUFFICES ASSUME Disciplined PROVE Spec => []MemoryStateIsLogPrefix
  OBVIOUS
<1>1. DisciplinedInv => MemoryStateIsLogPrefix
  <2> SUFFICES ASSUME DisciplinedInv, NEW n \in Server
               PROVE  LET cs == node[n].datastore
                      IN  /\ cs.next_tx_offset <= Len(log[n])
                          /\ \A k \in Key :
                               LogLeaves(TxDataLog(n), cs.next_tx_offset, k, Get(cs, k, Memory))
    BY DEF MemoryStateIsLogPrefix
  <2> DEFINE cs == node[n].datastore
             a == AppliedLenOf(n)
  <2>1. /\ Level(cs, log[n], a) \/ Ahead(cs, log[n], a)
        /\ a \in Nat /\ a <= Len(log[n]) /\ Len(log[n]) \in Nat
        /\ TxDataLog(n) = TxDatas(log[n])
    BY DisciplinedReads
  <2> HIDE DEF cs, a
  <2> QED BY <2>1, MemoryReads DEF cs
<1> QED BY <1>1, DisciplinedInvariant, PTL

\* A node that does not lead, and knows it, has nothing in memory.
THEOREM FollowersHaveNoDiffs == Disciplined => (Spec => []NoDiffsAtFollower)
<1> SUFFICES ASSUME Disciplined PROVE Spec => []NoDiffsAtFollower
  OBVIOUS
<1>1. DisciplinedInv => NoDiffsAtFollower
  <2> SUFFICES ASSUME DisciplinedInv, NEW n \in Server, GetCurrentLeader(n) # n, ~LeaderNews(n)
               PROVE  \A k \in Key : node[n].datastore.committed_diff[k] = << >>
    BY DEF NoDiffsAtFollower
  <2>1. ClusterInv /\ NodeLevel(n) /\ ~IsLeader(n)
    BY DisciplinedFacts DEF IsLeader
  <2>2. Level(node[n].datastore, log[n], AppliedLenOf(n))
    BY <2>1, AheadLeads DEF NodeLevel
  <2> QED BY <2>2 DEF Level
<1> QED BY <1>1, DisciplinedInvariant, PTL

\* A node declares nothing replicated that it has not committed.
THEOREM ReplicatedIsCommitted == Disciplined => (Spec => []WatermarkIsCommitted)
<1> SUFFICES ASSUME Disciplined PROVE Spec => []WatermarkIsCommitted
  OBVIOUS
<1>1. DisciplinedInv => WatermarkIsCommitted
  BY DisciplinedReads, MemoryReads DEF WatermarkIsCommitted
<1> QED BY <1>1, DisciplinedInvariant, PTL

-----------------------------------------------------------------------------
(***************************************************************************)
(* A poll does not panic in any cluster, if every server has the first     *)
(* transaction before there is a new election, whatever else happens: with *)
(* late polls, transactions in flight and logs that are not numbered.      *)
(* Before the first transaction there is nothing to apply. While servers   *)
(* wait for it, none changes its ballot, and the leader has it in memory.  *)
(* Afterwards every datastore has a current offset and every log a decided *)
(* entry, and neither is ever lost.                                        *)
(***************************************************************************)

\* A datastore that has a replicated offset has a current one.
Sound(nd) ==
  /\ ~nd.poisoned
  /\ nd.datastore.replicated_tx_offset >= 0 => nd.datastore.next_tx_offset > 0

\* There is nothing to read anywhere.
BeforeFirst ==
  /\ commits = 0
  /\ \A b \in Ballot : ballots[b].log = << >>
  /\ \A n \in Server : /\ node[n].last_applied_index = NoOffset
                       /\ node[n].datastore.next_tx_offset = 0

\* All servers are in the ballot of the leader that committed the only
\* transaction there is, and all of them know it.
DuringFirst ==
  /\ commits > 0
  /\ \A b \in Ballot : \A i \in 1 .. Len(ballots[b].log) : ballots[b].log[i].tx_offset = 0
  /\ \A n \in Server :
       /\ promised[n] = Len(ballots) /\ accepted_round[n] = Len(ballots) /\ ~LeaderNews(n)
       /\ node[n].last_applied_index \in {NoOffset, 0}
       /\ IsLeader(n) => node[n].datastore.next_tx_offset > 0

AfterFirst ==
  /\ commits > 0
  /\ \A n \in Server : decided_idx[n] > 0 /\ node[n].last_applied_index >= 0

FirstTxInv ==
  /\ ClusterInv
  /\ BeforeFirst \/ DuringFirst \/ AfterFirst
  /\ \A n \in Server : Sound(node[n])

\* One turn of the replay loop, whether replay_transaction fails or not: if
\* it fails at offset 0, the datastore was not empty.
LEMMA ReplayEntrySound ==
  ASSUME NEW nd \in NodesInStep, Sound(nd), NEW entry \in DatabaseLogEntry
  PROVE  /\ Sound(ReplayEntry(nd, entry))
         /\ ReplayEntry(nd, entry).last_applied_index = entry.tx_offset
         /\ ReplayEntry(nd, entry).datastore.next_tx_offset > 0
         /\ ReplayEntry(nd, entry).current_leader = nd.current_leader
<1> DEFINE before == IF CanReplay(nd.datastore)
                     THEN Replay(nd.datastore, entry.tx_data)
                     ELSE nd.datastore
           datastore == Advance(before, entry.tx_offset)
<1>1. /\ nd \in NodeType /\ nd.datastore \in CommittedStateType
      /\ nd.datastore.next_tx_offset \in Nat
      /\ nd.datastore.replicated_tx_offset \in Int
      /\ nd.datastore.replicated_tx_offset >= -1
  BY NodeParts, CommittedStateParts DEF NodesInStep
<1>2. before.next_tx_offset > 0
  <2>1. CASE CanReplay(nd.datastore)
    BY <1>1, <2>1 DEF Replay
  <2>2. CASE ~CanReplay(nd.datastore)
    BY <1>1, <2>2 DEF CanReplay, Sound
  <2> QED BY <2>1, <2>2
<1>3. datastore.next_tx_offset = before.next_tx_offset
  BY DEF Advance
<1>4. ReplayEntry(nd, entry) = [nd EXCEPT !.datastore = datastore,
                                          !.last_applied_index = entry.tx_offset]
  BY DEF ReplayEntry
<1> HIDE DEF datastore, before
<1>5. /\ ReplayEntry(nd, entry).datastore = datastore
      /\ ReplayEntry(nd, entry).last_applied_index = entry.tx_offset
      /\ ReplayEntry(nd, entry).poisoned = nd.poisoned
      /\ ReplayEntry(nd, entry).current_leader = nd.current_leader
  BY <1>1, <1>4 DEF NodeType
<1> QED BY <1>2, <1>3, <1>5 DEF Sound

\* The loop: it ends at the offset of its last entry, or has none.
LEMMA ReplayEntriesSound ==
  ASSUME NEW nd \in NodesInStep, Sound(nd), NEW entries \in Seq(DatabaseLogEntry)
  PROVE  LET after == ReplayEntries(nd, entries)
         IN  /\ Sound(after)
             /\ after.current_leader = nd.current_leader
             /\ \/ Len(entries) = 0 /\ after = nd
                \/ /\ Len(entries) > 0
                   /\ after.last_applied_index = entries[Len(entries)].tx_offset
                   /\ after.datastore.next_tx_offset > 0
<1>1. Len(entries) \in Nat /\ \A i \in 1 .. Len(entries) : entries[i] \in DatabaseLogEntry
  OBVIOUS
<1>2. PICK after :
        /\ after[0] = nd
        /\ \A i \in 1 .. Len(entries) : after[i] = ReplayEntry(after[i - 1], entries[i])
        /\ ReplayEntries(nd, entries) = after[Len(entries)]
  BY <1>1, ReplayLoop
<1> DEFINE Kept(x) == x \in NodesInStep /\ Sound(x) /\ x.current_leader = nd.current_leader
           Wrong == {i \in 0 .. Len(entries) : ~Kept(after[i])}
<1>3. Wrong = {}
  <2> SUFFICES ASSUME Wrong # {} PROVE FALSE
    OBVIOUS
  <2>1. PICK i \in Wrong : \A j \in Wrong : i <= j
    <3>1. Wrong \subseteq Nat
      BY <1>1
    <3> HIDE DEF Wrong
    <3> QED BY <3>1, LeastElement
  <2>2. i \in 0 .. Len(entries) /\ ~Kept(after[i])
    OBVIOUS
  <2>3. i # 0
    BY <1>2, <2>2
  <2>4. i - 1 \in 0 .. Len(entries) /\ i \in 1 .. Len(entries)
    BY <1>1, <2>2, <2>3
  <2>5. Kept(after[i - 1])
    <3> HIDE DEF Kept
    <3> QED BY <2>1, <2>4
  <2>6. after[i] = ReplayEntry(after[i - 1], entries[i]) /\ entries[i] \in DatabaseLogEntry
    BY <1>1, <1>2, <2>4
  <2>7. \A x, entry : Kept(x) /\ entry \in DatabaseLogEntry => Kept(ReplayEntry(x, entry))
    BY ReplayEntryInStep, ReplayEntrySound
  <2> HIDE DEF Kept
  <2> QED BY <2>2, <2>5, <2>6, <2>7
<1>4. \A i \in 0 .. Len(entries) : Kept(after[i])
  <2> HIDE DEF Kept
  <2> QED BY <1>3
<1>5. CASE Len(entries) = 0
  BY <1>2, <1>5
<1>6. CASE Len(entries) > 0
  <2> DEFINE last == Len(entries)
  <2>1. last - 1 \in 0 .. last /\ last \in 1 .. last
    BY <1>1, <1>6
  <2>2. /\ after[last] = ReplayEntry(after[last - 1], entries[last])
        /\ entries[last] \in DatabaseLogEntry
        /\ Kept(after[last - 1]) /\ Kept(after[last])
    <3>1. last \in 0 .. last
      BY <2>1
    <3> HIDE DEF Kept, last
    <3> QED BY <1>1, <1>2, <1>4, <2>1, <3>1 DEF last
  <2> QED BY <1>2, <1>6, <2>2, ReplayEntrySound
<1> QED BY <1>1, <1>5, <1>6

\* What iter_starting_from_offset returns is in the log.
LEMMA IterIsLogged ==
  ASSUME NEW n \in Server, log[n] \in Seq(DatabaseLogEntry), decided_idx[n] \in Nat,
         NEW from \in Nat
  PROVE  \A i \in 1 .. Len(IterStartingFromOffset(n, from)) :
           \E j \in 1 .. Len(log[n]) : IterStartingFromOffset(n, from)[i] = log[n][j]
<1> DEFINE entries == log[n]
<1>1. entries \in Seq(DatabaseLogEntry) /\ Len(entries) \in Nat
  OBVIOUS
<1>2. DecidedLen(n) \in 0 .. Len(entries) /\ MinOf(from + 1, DecidedLen(n)) \in 0 .. Len(entries)
  BY <1>1, DecidedSlackAssumption DEF DecidedLen, MinOf
<1>3. ASSUME NEW p \in Nat \ {0}, NEW q \in 0 .. Len(entries)
      PROVE  \A i \in 1 .. Len(SubSeq(entries, p, q)) :
               \E j \in 1 .. Len(entries) : SubSeq(entries, p, q)[i] = entries[j]
  <2>1. CASE p <= q
    <3>1. /\ Len(SubSeq(entries, p, q)) = q - p + 1
          /\ \A i \in 1 .. q - p + 1 : SubSeq(entries, p, q)[i] = entries[p + i - 1]
      BY <1>1, <2>1
    <3>2. \A i \in 1 .. q - p + 1 : p + i - 1 \in 1 .. Len(entries)
      BY <1>1, <2>1
    <3> QED BY <3>1, <3>2
  <2>2. CASE q < p
    <3>1. SubSeq(entries, p, q) = << >>
      BY <2>2, <1>1
    <3>2. Len(<< >>) = 0
      OBVIOUS
    <3> QED BY <3>1, <3>2
  <2> QED BY <1>1, <2>1, <2>2
<1>4. from + 1 \in Nat \ {0} /\ from + 2 \in Nat \ {0}
  OBVIOUS
<1> HIDE DEF entries
<1>5. CASE decided_idx[n] = 0
  <2>1. IterStartingFromOffset(n, from) =
          SubSeq(entries, from + 1, MinOf(from + 1, DecidedLen(n)))
    BY <1>5 DEF IterStartingFromOffset, entries
  <2> QED BY <1>2, <1>3, <1>4, <2>1 DEF entries
<1>6. CASE decided_idx[n] # 0
  <2>1. IterStartingFromOffset(n, from) = SubSeq(entries, from + 2, DecidedLen(n))
    BY <1>6 DEF IterStartingFromOffset, entries
  <2> QED BY <1>2, <1>3, <1>4, <2>1 DEF entries
<1> QED BY <1>5, <1>6

\* What a call of apply_replicated_txns may do to a node.
AppliesSoundly(n, nd, after) ==
  /\ Sound(after)
  /\ after.current_leader = nd.current_leader
  /\ nd.datastore.next_tx_offset > 0 => after.datastore.next_tx_offset > 0
  /\ \/ after.last_applied_index = nd.last_applied_index
     \/ \E i \in 1 .. Len(log[n]) : after.last_applied_index = log[n][i].tx_offset

\* What get_durable_tx_offset_optional returns is in the log.
LEMMA DurableIsLogged ==
  ASSUME NEW n \in Server, Len(log[n]) \in Nat, decided_idx[n] \in Nat,
         decided_idx[n] <= Len(log[n]), NEW nd, DecidedNews(n, nd)
  PROVE  \E i \in 1 .. Len(log[n]) : DurableTxOffsetOptional(n) = log[n][i].tx_offset
<1> DEFINE position == IF decided_idx[n] > 0 THEN decided_idx[n] - 1 ELSE 0
<1>1. position < DecidedLen(n) /\ DurableTxOffsetOptional(n) = log[n][position + 1].tx_offset
  BY DEF DecidedNews, DurableTxOffsetOptional, NoTxOffset, NoOffset
<1>2. position + 1 \in 1 .. Len(log[n])
  BY <1>1, DecidedSlackAssumption DEF DecidedLen, MinOf
<1> HIDE DEF position
<1> QED BY <1>1, <1>2

\* apply_replicated_txns does not panic: where there is something to apply, a
\* leader has a current offset; and an entry is read where one was reported.
LEMMA ApplySound ==
  ASSUME NEW n \in Server, log[n] \in Seq(DatabaseLogEntry), decided_idx[n] \in Nat,
         decided_idx[n] <= Len(log[n]), NEW nd \in NodesInStep, Sound(nd),
         DecidedNews(n, nd) =>
           /\ IsLeader(n) => nd.datastore.next_tx_offset > 0
           /\ decided_idx[n] = 0 => nd.last_applied_index = NoOffset
  PROVE  AppliesSoundly(n, nd, ApplyReplicatedTxns(n, nd))
<1> DEFINE durable == DurableTxOffsetOptional(n)
           datastore == Advance(nd.datastore, durable)
           advanced == [nd EXCEPT !.last_applied_index = durable,
                                  !.datastore = datastore,
                                  !.got_promoted_leader = FALSE]
           entries == IterStartingFromOffset(n, ReplayFrom(nd))
           after == ReplayEntries(nd, entries)
           replayed == [after EXCEPT !.got_promoted_leader = FALSE]
<1>1. /\ nd \in NodeType /\ nd.datastore.next_tx_offset \in Nat
      /\ \A i \in 1 .. Len(log[n]) : log[n][i].tx_offset \in Nat
      /\ Len(log[n]) \in Nat
  <2>1. nd \in NodeType /\ nd.datastore.next_tx_offset \in Nat
    BY NodeParts, CommittedStateParts DEF NodesInStep
  <2>2. \A i \in 1 .. Len(log[n]) : log[n][i] \in DatabaseLogEntry
    OBVIOUS
  <2> QED BY <2>1, <2>2 DEF DatabaseLogEntry, Offset
<1>2. AppliesSoundly(n, nd, nd)
  BY DEF AppliesSoundly
<1>3. DecidedNews(n, nd) =>
        \E i \in 1 .. Len(log[n]) : durable = log[n][i].tx_offset
  BY <1>1, DurableIsLogged
<1>4. ASSUME DecidedNews(n, nd)
      PROVE  ~(IsLeader(n) /\ GetCurOffset(nd.datastore) = NoOffset)
  BY <1>1, <1>4 DEF GetCurOffset, NoOffset
<1>5. ASSUME DecidedNews(n, nd)
      PROVE  ~IterPanics(n, ReplayFrom(nd))
  <2>1. PICK i \in 1 .. Len(log[n]) : durable = log[n][i].tx_offset
    BY <1>3, <1>5
  <2>2. Len(log[n]) > 0
    BY <1>1, <2>1
  <2> QED BY <1>1, <1>5, <2>2 DEF IterPanics, ReplayFrom
<1>6. ASSUME DecidedNews(n, nd), IsLeader(n)
      PROVE  AppliesSoundly(n, nd, advanced)
  <2>1. datastore.next_tx_offset = nd.datastore.next_tx_offset
        /\ nd.datastore.next_tx_offset > 0
    BY <1>6 DEF Advance
  <2> HIDE DEF datastore, durable
  <2>2. /\ advanced.datastore = datastore /\ advanced.last_applied_index = durable
        /\ advanced.poisoned = nd.poisoned /\ advanced.current_leader = nd.current_leader
    BY <1>1 DEF NodeType
  <2> HIDE DEF advanced
  <2> QED BY <1>3, <1>6, <2>1, <2>2 DEF AppliesSoundly, Sound
<1>7. AppliesSoundly(n, nd, replayed)
  <2>1. ReplayFrom(nd) \in Nat
    BY <1>1, NodeParts DEF ReplayFrom, OptionOffset, NoOffset
  <2>2. entries \in Seq(DatabaseLogEntry)
    BY <2>1, LogReads
  <2>3. \A i \in 1 .. Len(entries) : \E j \in 1 .. Len(log[n]) : entries[i] = log[n][j]
    BY <2>1, IterIsLogged
  <2> HIDE DEF entries
  <2>4. /\ after \in NodesInStep /\ Sound(after) /\ after.current_leader = nd.current_leader
        /\ \/ Len(entries) = 0 /\ after = nd
           \/ /\ Len(entries) > 0
              /\ after.last_applied_index = entries[Len(entries)].tx_offset
              /\ after.datastore.next_tx_offset > 0
    BY <2>2, ReplayEntriesInStep, ReplayEntriesSound
  <2>5. Len(entries) > 0 => Len(entries) \in 1 .. Len(entries)
    BY <2>2
  <2> HIDE DEF after
  <2>6. AppliesSoundly(n, nd, after)
    BY <2>3, <2>4, <2>5 DEF AppliesSoundly
  <2>7. /\ replayed.datastore = after.datastore
        /\ replayed.last_applied_index = after.last_applied_index
        /\ replayed.poisoned = after.poisoned
        /\ replayed.current_leader = after.current_leader
    BY <2>4 DEF NodesInStep, NodeType
  <2> HIDE DEF replayed
  <2> QED BY <2>6, <2>7 DEF AppliesSoundly, Sound
<1>8. \/ ApplyReplicatedTxns(n, nd) = nd
      \/ /\ DecidedNews(n, nd)
         /\ \/ IsLeader(n) /\ GetCurOffset(nd.datastore) = NoOffset
            \/ AppliesAsLeader(n, nd) /\ ApplyReplicatedTxns(n, nd) = advanced
            \/ IterPanics(n, ReplayFrom(nd))
            \/ ApplyReplicatedTxns(n, nd) = replayed
  BY Zenon DEF ApplyReplicatedTxns
<1> HIDE DEF advanced, replayed
<1> QED BY <1>2, <1>4, <1>5, <1>6, <1>7, <1>8 DEF AppliesAsLeader

\* update_leader, rolled back, promoted or neither.
LEMMA UpdateSound ==
  ASSUME NEW n \in Server, log[n] \in Seq(DatabaseLogEntry), decided_idx[n] \in Nat,
         decided_idx[n] <= Len(log[n]), NEW nd \in NodesInStep, Sound(nd),
         DecidedNews(n, nd) =>
           /\ IsLeader(n) => nd.datastore.next_tx_offset > 0
           /\ decided_idx[n] = 0 => nd.last_applied_index = NoOffset
  PROVE  LET after == UpdatedLeader(n, nd)
         IN  /\ Sound(after)
             /\ \/ after.last_applied_index = nd.last_applied_index
                \/ \E i \in 1 .. Len(log[n]) : after.last_applied_index = log[n][i].tx_offset
             /\ ~DecidedNews(n, nd) =>
                  after.datastore.next_tx_offset \in
                    {nd.datastore.next_tx_offset, nd.last_applied_index + 1}
<1> DEFINE promoted == [nd EXCEPT !.got_promoted_leader = TRUE]
           applied == ApplyReplicatedTxns(n, promoted)
           leader == GetCurrentLeader(n)
           Fine(x) ==
             /\ x \in NodeType /\ Sound(x)
             /\ \/ x.last_applied_index = nd.last_applied_index
                \/ \E i \in 1 .. Len(log[n]) : x.last_applied_index = log[n][i].tx_offset
             /\ ~DecidedNews(n, nd) =>
                  x.datastore.next_tx_offset \in
                    {nd.datastore.next_tx_offset, nd.last_applied_index + 1}
<1>1. /\ nd \in NodeType /\ InStep(nd)
      /\ nd.datastore.replicated_tx_offset \in Int
  BY NodeParts, CommittedStateParts DEF NodesInStep
<1>2. Fine(nd)
  BY <1>1
<1>3. Fine(RolledBack(nd))
  <2> DEFINE datastore == Rollback(nd.datastore)
  <2>1. /\ datastore.next_tx_offset = nd.datastore.replicated_tx_offset + 1
        /\ datastore.replicated_tx_offset = nd.datastore.replicated_tx_offset
        /\ datastore \in CommittedStateType
    BY <1>1, NodeParts, RollbackType DEF Rollback
  <2>2. RolledBack(nd) = [nd EXCEPT !.datastore = datastore]
    BY DEF RolledBack
  <2> HIDE DEF datastore
  <2>3. /\ RolledBack(nd) \in NodeType /\ RolledBack(nd).datastore = datastore
        /\ RolledBack(nd).last_applied_index = nd.last_applied_index
        /\ RolledBack(nd).poisoned = nd.poisoned
    BY <1>1, <2>1, <2>2 DEF NodeType
  <2>4. Sound(RolledBack(nd))
    BY <1>1, <2>1, <2>3 DEF Sound
  <2> QED BY <1>1, <2>1, <2>3, <2>4 DEF InStep
<1>4. Fine(applied)
  <2>1. /\ promoted \in NodeType
        /\ promoted.datastore = nd.datastore
        /\ promoted.last_applied_index = nd.last_applied_index
        /\ promoted.poisoned = nd.poisoned
    BY <1>1 DEF NodeType
  <2> HIDE DEF promoted
  <2>2. promoted \in NodesInStep /\ Sound(promoted)
        /\ (DecidedNews(n, promoted) <=> DecidedNews(n, nd))
    BY <1>1, <2>1 DEF NodesInStep, InStep, Sound, DecidedNews
  <2>3. AppliesSoundly(n, promoted, applied) /\ applied \in NodesInStep
    BY <2>1, <2>2, ApplySound, ApplyInStep
  <2>4. ~DecidedNews(n, nd) => applied = promoted
    BY <2>2 DEF ApplyReplicatedTxns
  <2> HIDE DEF applied
  <2> QED BY <2>1, <2>3, <2>4 DEF AppliesSoundly, NodesInStep
<1>5. \A x : Fine(x) => /\ ~x.poisoned
                        /\ Sound([x EXCEPT !.current_leader = leader])
                        /\ [x EXCEPT !.current_leader = leader].last_applied_index = x.last_applied_index
                        /\ [x EXCEPT !.current_leader = leader].datastore = x.datastore
  <2> HIDE DEF leader
  <2> QED BY DEF NodeType, Sound
<1>6. PICK x \in {nd, RolledBack(nd), applied} :
        UpdatedLeader(n, nd) = IF x.poisoned THEN x ELSE [x EXCEPT !.current_leader = leader]
  BY DEF UpdatedLeader
<1>7. Fine(x)
  <2> HIDE DEF applied, Fine
  <2> QED BY <1>2, <1>3, <1>4
<1> HIDE DEF applied, leader
<1>8. UpdatedLeader(n, nd) = [x EXCEPT !.current_leader = leader]
  BY <1>5, <1>6, <1>7
<1> QED BY <1>5, <1>7, <1>8

\* Before the first transaction there is nothing to apply.
LEMMA NothingBeforeFirst ==
  ASSUME ClusterInv, BeforeFirst, NEW n \in Server
  PROVE  /\ log[n] = << >> /\ Len(log[n]) = 0 /\ decided_idx[n] = 0
         /\ \A nd : ~DecidedNews(n, nd)
<1> DEFINE b == accepted_round[n]
<1>1. /\ ServerOK(n) /\ log[n] \in Seq(DatabaseLogEntry) /\ Len(log[n]) \in Nat
      /\ decided_idx[n] \in Nat /\ decided_idx[n] <= Len(log[n])
      /\ b # 0 => b \in Ballot
  BY ServerFacts DEF ClusterInv, PaxosInv, Local, ServersOK
<1>2. Len(<< >>) = 0
  OBVIOUS
<1>3. Len(log[n]) = 0
  BY <1>1, <1>2 DEF ServerOK, BeforeFirst, Agree
<1>4. log[n] = << >> /\ decided_idx[n] = 0
  BY <1>1, <1>3
<1>5. ASSUME NEW nd, DecidedNews(n, nd) PROVE FALSE
  BY <1>1, <1>3, <1>5, DurableIsLogged
<1> QED BY <1>3, <1>4, <1>5

\* A log has the entries of the ballot that it was written in.
LEMMA FirstOffsets ==
  ASSUME ClusterInv, DuringFirst, NEW n \in Server, NEW i \in 1 .. Len(log[n])
  PROVE  log[n][i].tx_offset = 0
<1> DEFINE b == accepted_round[n]
<1>1. /\ ServerOK(n) /\ log[n] \in Seq(DatabaseLogEntry) /\ Len(log[n]) \in Nat
      /\ b # 0 => b \in Ballot
  BY ServerFacts DEF ClusterInv, PaxosInv, Local, ServersOK
<1>2. b # 0
  <2>1. Len(<< >>) = 0
    OBVIOUS
  <2> QED BY <1>1, <2>1 DEF ServerOK
<1>3. Agree(ballots[b].log, log[n], Len(log[n])) /\ Len(ballots[b].log) \in Nat
  BY <1>1, <1>2, BallotTypes DEF ServerOK, ClusterInv, PaxosInv, Local
<1>4. i \in 1 .. Len(ballots[b].log) /\ ballots[b].log[i] = log[n][i]
  BY <1>1, <1>3 DEF Agree
<1> QED BY <1>1, <1>2, <1>4 DEF DuringFirst

\* Nothing that a poll finds can make it panic.
LEMMA NewsAreSound ==
  ASSUME FirstTxInv, NEW n \in Server, DecidedNews(n, node[n])
  PROVE  /\ IsLeader(n) => node[n].datastore.next_tx_offset > 0
         /\ decided_idx[n] = 0 => node[n].last_applied_index = NoOffset
<1>1. /\ ClusterInv /\ Sound(node[n]) /\ InStep(node[n])
      /\ Len(log[n]) \in Nat /\ decided_idx[n] \in Nat /\ decided_idx[n] <= Len(log[n])
  BY ServerFacts, NodeFacts DEF FirstTxInv, NodesInStep
<1>2. CASE BeforeFirst
  BY <1>1, <1>2, NothingBeforeFirst
<1>3. CASE DuringFirst
  <2>1. DurableTxOffsetOptional(n) = 0
    BY <1>1, <1>3, DurableIsLogged, FirstOffsets
  <2> QED BY <1>3, <2>1 DEF DuringFirst, DecidedNews
<1>4. CASE AfterFirst
  BY <1>1, <1>4 DEF AfterFirst, Sound, InStep
<1> QED BY <1>2, <1>3, <1>4 DEF FirstTxInv

\* A step in which nobody goes to another ballot or is told of another leader.
LEMMA DuringFirstKept ==
  ASSUME ClusterInv, DuringFirst, commits' = commits,
         promised' = promised, accepted_round' = accepted_round, Len(ballots') = Len(ballots),
         \A b \in Ballot : /\ ballots'[b].log = ballots[b].log
                           /\ ballots'[b].leader = ballots[b].leader
                           /\ ballots'[b].ready = ballots[b].ready,
         \A m \in Server :
           /\ node'[m].current_leader = node[m].current_leader
           /\ node'[m].last_applied_index \in {NoOffset, 0}
           /\ node[m].datastore.next_tx_offset > 0 => node'[m].datastore.next_tx_offset > 0
  PROVE  DuringFirst'
<1>1. \A b \in Ballot' : \A i \in 1 .. Len(ballots'[b].log) : ballots'[b].log[i].tx_offset = 0
  BY DEF DuringFirst, Ballot
<1>2. ASSUME NEW m \in Server
      PROVE  ~LeaderNews(m)' /\ (IsLeader(m)' => IsLeader(m))
  BY <1>2, LeaderKept DEF DuringFirst
<1> QED BY <1>1, <1>2 DEF DuringFirst

\* A step of one node in a poll, that leaves omnipaxos as it is.
LEMMA PollKeepsFirst ==
  ASSUME FirstTxInv, ClusterInv', NEW n \in Server, NEW after,
         UNCHANGED <<paxos_vars, commits>>, node' = [node EXCEPT ![n] = after],
         Sound(after),
         \/ after.last_applied_index = node[n].last_applied_index
         \/ \E i \in 1 .. Len(log[n]) : after.last_applied_index = log[n][i].tx_offset,
         BeforeFirst => after.datastore.next_tx_offset = 0,
         DuringFirst =>
           /\ after.current_leader = node[n].current_leader
           /\ node[n].datastore.next_tx_offset > 0 => after.datastore.next_tx_offset > 0
  PROVE  FirstTxInv'
<1>1. /\ ClusterInv /\ log[n] \in Seq(DatabaseLogEntry) /\ Len(log[n]) \in Nat
      /\ node'[n] = after /\ \A m \in Server : m # n => node'[m] = node[m]
      /\ ballots' = ballots /\ promised' = promised /\ log' = log
      /\ accepted_round' = accepted_round /\ decided_idx' = decided_idx /\ commits' = commits
  BY ServerFacts DEF FirstTxInv, ClusterInv, paxos_vars
<1>2. \A m \in Server : Sound(node'[m])
  BY <1>1 DEF FirstTxInv
<1>3. CASE BeforeFirst
  <2>1. after.last_applied_index = NoOffset
    <3>1. Len(log[n]) = 0 /\ node[n].last_applied_index = NoOffset
      BY <1>1, <1>3, NothingBeforeFirst DEF BeforeFirst
    <3> QED BY <3>1
  <2>2. BeforeFirst'
    BY <1>1, <1>3, <2>1 DEF BeforeFirst, Ballot
  <2> QED BY <1>2, <2>2 DEF FirstTxInv
<1>4. CASE DuringFirst
  <2>1. after.last_applied_index \in {NoOffset, 0}
    BY <1>1, <1>4, FirstOffsets DEF DuringFirst
  <2>2. \A m \in Server :
          /\ node'[m].current_leader = node[m].current_leader
          /\ node'[m].last_applied_index \in {NoOffset, 0}
          /\ node[m].datastore.next_tx_offset > 0 => node'[m].datastore.next_tx_offset > 0
    BY <1>1, <1>4, <2>1 DEF DuringFirst
  <2>3. DuringFirst'
    BY <1>1, <1>4, <2>2, DuringFirstKept
  <2> QED BY <1>2, <2>3 DEF FirstTxInv
<1>5. CASE AfterFirst
  <2>1. \A i \in 1 .. Len(log[n]) : log[n][i].tx_offset >= 0
    <3>1. \A i \in 1 .. Len(log[n]) : log[n][i] \in DatabaseLogEntry
      BY <1>1
    <3> QED BY <3>1 DEF DatabaseLogEntry, Offset
  <2>2. after.last_applied_index >= 0
    BY <1>5, <2>1 DEF AfterFirst
  <2>3. AfterFirst'
    BY <1>1, <1>5, <2>2 DEF AfterFirst
  <2> QED BY <1>2, <2>3 DEF FirstTxInv
<1> QED BY <1>3, <1>4, <1>5 DEF FirstTxInv

LEMMA UpdateLeaderKeepsFirst ==
  ASSUME FirstTxInv, ClusterInv', NEW n \in Server, UpdateLeader(n)
  PROVE  FirstTxInv'
<1> DEFINE after == UpdatedLeader(n, node[n])
<1>1. /\ ClusterInv /\ node[n] \in NodesInStep /\ Sound(node[n])
      /\ log[n] \in Seq(DatabaseLogEntry) /\ decided_idx[n] \in Nat
      /\ decided_idx[n] <= Len(log[n])
  BY ServerFacts, NodeFacts DEF FirstTxInv
<1>2. /\ Sound(after)
      /\ \/ after.last_applied_index = node[n].last_applied_index
         \/ \E i \in 1 .. Len(log[n]) : after.last_applied_index = log[n][i].tx_offset
      /\ ~DecidedNews(n, node[n]) =>
           after.datastore.next_tx_offset \in
             {node[n].datastore.next_tx_offset, node[n].last_applied_index + 1}
  BY <1>1, NewsAreSound, UpdateSound
<1> HIDE DEF after
<1>3. BeforeFirst => after.datastore.next_tx_offset = 0
  <2> SUFFICES ASSUME BeforeFirst PROVE after.datastore.next_tx_offset = 0
    OBVIOUS
  <2>1. ~DecidedNews(n, node[n])
    BY <1>1, NothingBeforeFirst
  <2> QED BY <1>2, <2>1 DEF BeforeFirst, NoOffset
<1>4. ~DuringFirst
  BY DEF DuringFirst, UpdateLeader
<1>5. UNCHANGED <<paxos_vars, commits>> /\ node' = [node EXCEPT ![n] = after]
  BY DEF UpdateLeader, after
<1> QED BY <1>2, <1>3, <1>4, <1>5, PollKeepsFirst

LEMMA ApplyKeepsFirst ==
  ASSUME FirstTxInv, ClusterInv', NEW n \in Server, Apply(n)
  PROVE  FirstTxInv'
<1> DEFINE after == ApplyReplicatedTxns(n, node[n])
<1>1. /\ ClusterInv /\ node[n] \in NodesInStep /\ Sound(node[n])
      /\ log[n] \in Seq(DatabaseLogEntry) /\ decided_idx[n] \in Nat
      /\ decided_idx[n] <= Len(log[n])
  BY ServerFacts, NodeFacts DEF FirstTxInv
<1>2. AppliesSoundly(n, node[n], after)
  BY <1>1, NewsAreSound, ApplySound
<1>3. BeforeFirst => after.datastore.next_tx_offset = 0
  <2> SUFFICES ASSUME BeforeFirst PROVE after.datastore.next_tx_offset = 0
    OBVIOUS
  <2>1. after = node[n]
    BY <1>1, NothingBeforeFirst DEF ApplyReplicatedTxns
  <2> QED BY <2>1 DEF BeforeFirst
<1> HIDE DEF after
<1>4. UNCHANGED <<paxos_vars, commits>> /\ node' = [node EXCEPT ![n] = after]
  BY DEF Apply, after
<1> QED BY <1>2, <1>3, <1>4, PollKeepsFirst DEF AppliesSoundly

LEMMA StopKeepsFirst ==
  ASSUME FirstTxInv, ClusterInv', NEW n \in Server, Stop(n)
  PROVE  FirstTxInv'
<1> DEFINE after == [node[n] EXCEPT !.is_running = FALSE]
<1>1. node[n] \in NodeType /\ Sound(node[n])
  BY NodeFacts DEF FirstTxInv
<1>2. /\ after.poisoned = node[n].poisoned /\ after.datastore = node[n].datastore
      /\ after.last_applied_index = node[n].last_applied_index
      /\ after.current_leader = node[n].current_leader
  BY <1>1 DEF NodeType
<1>3. UNCHANGED <<paxos_vars, commits>> /\ node' = [node EXCEPT ![n] = after]
  BY DEF Stop
<1> HIDE DEF after
<1>4. Sound(after) /\ (BeforeFirst => after.datastore.next_tx_offset = 0)
  BY <1>1, <1>2 DEF Sound, BeforeFirst
<1> QED BY <1>2, <1>3, <1>4, PollKeepsFirst

\* An election begins with an empty ballot. While servers wait for the first
\* transaction there is none.
LEMMA ElectKeepsFirst ==
  ASSUME FirstTxInv, ClusterInv', FirstTxEverywhere \in Discipline,
         NEW n \in Server, Elect(n)
  PROVE  FirstTxInv'
<1>1. /\ ClusterInv /\ PaxosTypeOK(DatabaseLogEntry) /\ Len(ballots) \in Nat
  BY ServerFacts DEF FirstTxInv, ClusterInv, PaxosInv, Local
<1>2. /\ node' = node /\ commits' = commits /\ decided_idx' = decided_idx
      /\ commits > 0 => FirstTxApplied
  BY DEF Elect, Lead
<1>3. CASE BeforeFirst
  <2> DEFINE r == [ leader |-> n, ready |-> FALSE, adopted |-> 0,
                    log |-> << >>, decided_at |-> << >>, decided |-> 0 ]
  <2>1. ballots' = Append(ballots, r) /\ r.log = << >>
    BY DEF Elect, Lead
  <2>2. ballots \in Seq(BallotRecord(DatabaseLogEntry))
    BY <1>1 DEF PaxosTypeOK
  <2> HIDE DEF r
  <2>3. \A b \in Ballot' : (b \in Ballot /\ ballots'[b] = ballots[b]) \/ ballots'[b] = r
    BY <1>1, <2>1, <2>2 DEF Ballot
  <2>4. BeforeFirst'
    BY <1>2, <1>3, <2>1, <2>3 DEF BeforeFirst
  <2> QED BY <1>2, <2>4 DEF FirstTxInv
<1>4. CASE ~BeforeFirst
  <2>1. commits > 0
    BY <1>4 DEF FirstTxInv, DuringFirst, AfterFirst
  <2>2. AfterFirst
    BY <1>2, <2>1 DEF FirstTxApplied, AfterFirst
  <2>3. AfterFirst'
    BY <1>2, <2>2 DEF AfterFirst
  <2> QED BY <1>2, <2>3 DEF FirstTxInv
<1> QED BY <1>3, <1>4

\* Messages bring nothing where nothing was committed; and once the first
\* transaction is everywhere, it stays.
LEMMA HandleIncomingKeepsFirst ==
  ASSUME FirstTxInv, ClusterInv', NEW n \in Server, HandleIncoming(n)
  PROVE  FirstTxInv'
<1> DEFINE p == promised[n]
<1>1. /\ ClusterInv /\ PaxosInv(DatabaseLogEntry) /\ PaxosTypeOK(DatabaseLogEntry)
      /\ Len(ballots) \in Nat /\ (p # 0 => p \in Ballot)
      /\ accepted_round[n] # 0 => ballots[accepted_round[n]].ready
  BY ServerFacts DEF FirstTxInv, ClusterInv, PaxosInv, Local
<1>2. /\ node' = node /\ commits' = commits
      /\ \/ \E b \in Ballot : Promise(n, b)
         \/ Prepared(n)
         \/ \E i \in 0 .. Len(Transactions) : AcceptSync(n, i)
         \/ LearnDecided(n)
         \/ AcceptDecide(n)
         \/ Decide(n)
  BY DEF HandleIncoming
<1>3. \/ ballots' = ballots
      \/ Prepared(n)
      \/ Decide(n)
  BY <1>2 DEF Promise, AcceptSync, LearnDecided, AcceptDecide
<1>4. ASSUME Decide(n)
      PROVE  /\ Len(ballots') = Len(ballots)
             /\ \A b \in Ballot : /\ ballots'[b].log = ballots[b].log
                                  /\ ballots'[b].leader = ballots[b].leader
                                  /\ ballots'[b].ready = ballots[b].ready
  <2> DEFINE r(i) == [ballots[p] EXCEPT !.decided = i]
  <2>1. PICK i : ballots' = [ballots EXCEPT ![p] = r(i)]
    BY <1>4 DEF Decide
  <2>2. p \in Ballot /\ ballots \in Seq(BallotRecord(DatabaseLogEntry))
    BY <1>1, <1>4 DEF Decide, PaxosTypeOK
  <2>3. ballots[p] \in BallotRecord(DatabaseLogEntry)
    BY <1>1, <2>2, BallotTypes
  <2>4. /\ r(i).log = ballots[p].log /\ r(i).leader = ballots[p].leader
        /\ r(i).ready = ballots[p].ready
    BY <2>3 DEF BallotRecord
  <2> HIDE DEF r, p
  <2>5. /\ Len(ballots') = Len(ballots)
        /\ \A b \in Ballot : ballots'[b] = IF b = p THEN r(i) ELSE ballots[b]
    BY <2>1, <2>2 DEF Ballot
  <2> QED BY <2>4, <2>5
<1>5. CASE BeforeFirst
  <2>1. ASSUME Prepared(n)
        PROVE  /\ Len(ballots') = Len(ballots)
               /\ \A b \in Ballot : ballots'[b].log = << >>
    <3>1. p \in Ballot /\ ballots[p].log = << >> /\ ballots \in Seq(BallotRecord(DatabaseLogEntry))
      BY <1>1, <1>5, <2>1 DEF Prepared, BeforeFirst, PaxosTypeOK
    <3> DEFINE Adopted(m, d) ==
                 [ leader |-> n, ready |-> TRUE, adopted |-> Len(log[m] \o ballots[p].log),
                   log |-> log[m] \o ballots[p].log,
                   decided_at |-> [i \in 1 .. Len(log[m] \o ballots[p].log) |-> d],
                   decided |-> d ]
    <3>2. PICK m \in Server : \E d : ballots' = [ballots EXCEPT ![p] = Adopted(m, d)]
      BY <2>1, Zenon DEF Prepared
    <3>3. PICK d : ballots' = [ballots EXCEPT ![p] = Adopted(m, d)]
      BY <3>2
    <3>4. PICK r : ballots' = [ballots EXCEPT ![p] = r] /\ r.log = log[m] \o ballots[p].log
      <4>1. Adopted(m, d).log = log[m] \o ballots[p].log
        OBVIOUS
      <4> HIDE DEF Adopted
      <4> QED BY <3>3, <4>1
    <3>5. log[m] = << >>
      BY <1>1, <1>5, NothingBeforeFirst
    <3>6. r.log = << >>
      BY <3>1, <3>4, <3>5
    <3> HIDE DEF p
    <3>7. /\ Len(ballots') = Len(ballots)
          /\ \A b \in Ballot : ballots'[b] = IF b = p THEN r ELSE ballots[b]
      BY <3>1, <3>4 DEF Ballot
    <3> QED BY <1>5, <3>6, <3>7 DEF BeforeFirst
  <2>2. /\ Len(ballots') = Len(ballots)
        /\ \A b \in Ballot : ballots'[b].log = << >>
    BY <1>3, <1>4, <1>5, <2>1 DEF BeforeFirst
  <2>3. BeforeFirst'
    BY <1>2, <1>5, <2>2 DEF BeforeFirst, Ballot
  <2> QED BY <1>2, <2>3 DEF FirstTxInv
<1>6. CASE DuringFirst
  <2>1. /\ p = Len(ballots) /\ accepted_round[n] = p
        /\ \A b \in Ballot : ~(b > p)
    BY <1>1, <1>6 DEF DuringFirst, Ballot
  <2>2. /\ ~\E b \in Ballot : Promise(n, b)
        /\ ~Prepared(n)
        /\ ~\E i \in 0 .. Len(Transactions) : AcceptSync(n, i)
    BY <1>1, <2>1 DEF Promise, Prepared, AcceptSync
  <2>3. promised' = promised /\ accepted_round' = accepted_round
    BY <1>2, <2>2 DEF LearnDecided, AcceptDecide, Decide
  <2>4. /\ Len(ballots') = Len(ballots)
        /\ \A b \in Ballot : /\ ballots'[b].log = ballots[b].log
                             /\ ballots'[b].leader = ballots[b].leader
                             /\ ballots'[b].ready = ballots[b].ready
    BY <1>3, <1>4, <2>2
  <2>5. DuringFirst'
    BY <1>1, <1>2, <1>6, <2>3, <2>4, DuringFirstKept DEF DuringFirst
  <2> QED BY <1>2, <2>5 DEF FirstTxInv
<1>7. CASE AfterFirst
  <2>1. PaxosStep(n, DatabaseLogEntry)
    <3>1. \A i \in 0 .. Len(Transactions) : i \in Nat
      BY TransactionsAssumption
    <3> QED BY <1>2, <3>1 DEF PaxosStep
  <2>2. \A m \in Server : decided_idx[m] <= decided_idx'[m]
    BY <1>1, <2>1, StepIsOK DEF StepOK, DecidedGrows
  <2>3. \A m \in Server : decided_idx[m] \in Nat /\ decided_idx'[m] \in Nat
    BY <1>1, ServerTypes DEF ClusterInv, PaxosInv, Local, PaxosTypeOK
  <2>4. AfterFirst'
    BY <1>2, <1>7, <2>2, <2>3 DEF AfterFirst
  <2> QED BY <1>2, <2>4 DEF FirstTxInv
<1> QED BY <1>5, <1>6, <1>7 DEF FirstTxInv

\* The first transaction is committed at offset 0, by the leader that every
\* server follows; another one, when the first is everywhere.
LEMMA CommitKeepsFirst ==
  ASSUME FirstTxInv, ClusterInv', FirstTxEverywhere \in Discipline,
         NEW n \in Server, CommitMutTx(n)
  PROVE  FirstTxInv'
<1> DEFINE b == promised[n]
           cs == node[n].datastore
           writes == Transactions[commits + 1]
           entry == LogEntry(cs.next_tx_offset, TxDataOf(writes))
           committed == Commit(cs, writes)
<1>1. /\ ClusterInv /\ PaxosTypeOK(DatabaseLogEntry) /\ commits \in Nat
      /\ node[n] \in NodeType /\ cs.next_tx_offset \in Nat
      /\ node \in [Server -> NodesInStep]
  BY NodeFacts, TransactionsAssumption DEF FirstTxInv, ClusterInv, PaxosInv, Local
<1>2. /\ IsLeader(n) /\ node' = [node EXCEPT ![n].datastore = committed]
      /\ AppendEntry(n, entry) /\ commits' = commits + 1 /\ FirstTxApplied
  BY DEF CommitMutTx, AppendTx
<1>3. /\ committed.next_tx_offset = cs.next_tx_offset + 1
      /\ committed.replicated_tx_offset = cs.replicated_tx_offset
  BY DEF Commit
<1>4. entry.tx_offset = cs.next_tx_offset
  BY DEF LogEntry
<1> HIDE DEF entry, committed, writes
<1>5. /\ node'[n].datastore = committed
      /\ \A m \in Server :
           /\ m # n => node'[m] = node[m]
           /\ node'[m].poisoned = node[m].poisoned
           /\ node'[m].last_applied_index = node[m].last_applied_index
           /\ node'[m].current_leader = node[m].current_leader
  BY <1>1, <1>2 DEF NodesInStep, NodeType
<1>6. \A m \in Server : Sound(node'[m])
  BY <1>1, <1>3, <1>5 DEF Sound, FirstTxInv
<1>7. promised' = promised /\ accepted_round' = accepted_round /\ decided_idx' = decided_idx
  BY <1>2 DEF AppendEntry
<1>8. CASE commits = 0
  <2>1. BeforeFirst /\ \A m \in Server : accepted_round[m] = Len(ballots) /\ ~LeaderNews(m)
    BY <1>2, <1>8 DEF FirstTxInv, DuringFirst, AfterFirst, FirstTxApplied
  <2>2. /\ cs.next_tx_offset = 0
        /\ \A m \in Server : node[m].last_applied_index = NoOffset
        /\ \A c \in Ballot : ballots[c].log = << >>
    BY <2>1 DEF BeforeFirst
  <2>3. \A m \in Server : promised[m] = Len(ballots)
    BY <1>1, <2>1, ServerFacts
  <2>4. b \in Ballot /\ ballots[b].leader = n
    BY <1>1, <1>2, LeaderFacts, ServerFacts
  <2> DEFINE r == [ballots[b] EXCEPT !.log = Append(@, entry),
                                     !.decided_at = Append(@, ballots[b].decided)]
  <2>5. ballots' = [ballots EXCEPT ![b] = r] /\ ballots \in Seq(BallotRecord(DatabaseLogEntry))
    BY <1>1, <1>2 DEF AppendEntry, PaxosTypeOK
  <2>6. /\ r.leader = ballots[b].leader /\ r.ready = ballots[b].ready
        /\ r.log = Append(<< >>, entry)
    <3>1. ballots[b] \in BallotRecord(DatabaseLogEntry)
      BY <1>1, <2>4, BallotTypes
    <3> QED BY <2>2, <2>4, <3>1 DEF BallotRecord
  <2> HIDE DEF r, b
  <2>7. /\ Len(ballots') = Len(ballots)
        /\ \A c \in Ballot : ballots'[c] = IF c = b THEN r ELSE ballots[c]
    BY <2>4, <2>5 DEF Ballot
  <2>8. \A c \in Ballot' : \A i \in 1 .. Len(ballots'[c].log) : ballots'[c].log[i].tx_offset = 0
    <3>1. Len(r.log) = 1 /\ r.log[1] = entry /\ Len(<< >>) = 0
      BY <2>6
    <3> QED BY <1>4, <2>2, <2>7, <3>1 DEF Ballot
  <2>9. ASSUME NEW m \in Server
        PROVE  ~LeaderNews(m)' /\ (IsLeader(m)' => node'[m].datastore.next_tx_offset > 0)
    <3>1. /\ GetCurrentLeader(m)' = GetCurrentLeader(m)
          /\ IsLeader(m)' => IsLeader(m)
          /\ LeaderNews(m)' => LeaderNews(m)
      BY <1>1, <1>5, <1>7, <2>6, <2>7, LeaderKept
    <3>2. IsLeader(m) => m = n
      BY <1>1, <2>3, <2>4, LeaderFacts DEF b
    <3>3. node'[n].datastore.next_tx_offset > 0
      BY <1>3, <1>5, <2>2
    <3> QED BY <2>1, <3>1, <3>2, <3>3
  <2>10. DuringFirst'
    BY <1>2, <1>5, <1>7, <1>8, <2>1, <2>2, <2>3, <2>7, <2>8, <2>9 DEF DuringFirst
  <2> QED BY <1>6, <2>10 DEF FirstTxInv
<1>9. CASE commits # 0
  <2>1. AfterFirst
    BY <1>1, <1>2, <1>9 DEF FirstTxApplied, AfterFirst
  <2>2. AfterFirst'
    BY <1>1, <1>2, <1>5, <1>7, <2>1 DEF AfterFirst
  <2> QED BY <1>6, <2>2 DEF FirstTxInv
<1> QED BY <1>8, <1>9

LEMMA FirstTxInvStep ==
  ASSUME FirstTxInv, FirstTxEverywhere \in Discipline, [Next]_vars
  PROVE  FirstTxInv'
<1>1. ClusterInv'
  BY ClusterInvStep DEF FirstTxInv
<1>2. CASE UNCHANGED vars
  <2>1. /\ ballots' = ballots /\ promised' = promised /\ log' = log
        /\ accepted_round' = accepted_round /\ decided_idx' = decided_idx
        /\ node' = node /\ commits' = commits
    BY <1>2 DEF vars, paxos_vars
  <2> QED BY <1>1, <2>1
       DEF FirstTxInv, BeforeFirst, DuringFirst, AfterFirst, Ballot, LeaderNews, IsLeader,
           GetCurrentLeader
<1>3. CASE Next
  <2>1. PICK n \in Server : \/ UpdateLeader(n) \/ Apply(n) \/ CommitMutTx(n)
                            \/ Stop(n) \/ Elect(n) \/ HandleIncoming(n)
    BY <1>3 DEF Next
  <2> QED BY <1>1, <2>1, UpdateLeaderKeepsFirst, ApplyKeepsFirst, CommitKeepsFirst,
             StopKeepsFirst, ElectKeepsFirst, HandleIncomingKeepsFirst
<1> QED BY <1>2, <1>3

LEMMA FirstTxInvInitially == Init => FirstTxInv
<1> SUFFICES ASSUME Init PROVE FirstTxInv
  OBVIOUS
<1>1. ClusterInv
  BY ClusterInvInitially
<1>2. /\ commits = 0 /\ Ballot = {} /\ \A n \in Server : node[n] = NewNode
  BY DEF Init, PaxosInit, Ballot
<1>3. BeforeFirst /\ \A n \in Server : Sound(node[n])
  BY <1>2 DEF BeforeFirst, Sound, NewNode, Fresh, NoOffset
<1> QED BY <1>1, <1>3 DEF FirstTxInv

\* No unwrap of a poll panics, and so no mutex is poisoned, if all servers have
\* applied the first transaction before there is a new election; the other
\* four disciplines and the label that read gives do not matter for it.
THEOREM PollsDoNotPanic == FirstTxEverywhere \in Discipline => (Spec => []NoPanic)
<1> SUFFICES ASSUME FirstTxEverywhere \in Discipline PROVE Spec => []NoPanic
  OBVIOUS
<1>1. FirstTxInv /\ [Next]_vars => FirstTxInv'
  BY FirstTxInvStep
<1>2. FirstTxInv => NoPanic
  BY DEF FirstTxInv, Sound, NoPanic
<1> QED BY <1>1, <1>2, FirstTxInvInitially, PTL DEF Spec

-----------------------------------------------------------------------------
(***************************************************************************)
(* The cluster as one replicated database.                                 *)
(***************************************************************************)

\* A log has no more entries than were committed, and begins with the first
\* transaction, as that is the only one until it is decided.
FromCommits(entries) ==
  /\ Len(entries) <= commits
  /\ entries # << >> => entries[1].tx_data = TxDataOf(Transactions[1])

\* What was sent decided in a ballot is decided at its leader.
SentInv ==
  \A b \in Ballot :
    /\ FromCommits(ballots[b].log)
    /\ ballots[b].decided <= decided_idx[ballots[b].leader]

RefinementInv == DisciplinedInv /\ SentInv

LEMMA LogsFromCommits ==
  ASSUME DisciplinedInv, SentInv, NEW n \in Server
  PROVE  FromCommits(log[n])
<1> DEFINE b == accepted_round[n]
<1>1. /\ ServerOK(n) /\ Local(DatabaseLogEntry) /\ ClusterInv /\ commits \in Nat
      /\ log[n] \in Seq(DatabaseLogEntry) /\ Len(log[n]) \in Nat
      /\ b # 0 => b \in Ballot
  BY ServerFacts, DisciplinedFacts DEF ClusterInv, PaxosInv, Local, ServersOK
<1>2. CASE b = 0
  <2>1. log[n] = << >>
    BY <1>1, <1>2 DEF ServerOK
  <2>2. Len(<< >>) = 0
    OBVIOUS
  <2> QED BY <1>1, <2>1, <2>2 DEF FromCommits
<1>3. CASE b # 0
  <2> DEFINE sent == ballots[b].log
  <2>1. FromCommits(sent) /\ Agree(sent, log[n], Len(log[n]))
    BY <1>1, <1>3 DEF SentInv, ServerOK
  <2>2. sent \in Seq(DatabaseLogEntry) /\ Len(sent) \in Nat
    BY <1>1, <1>3, BallotTypes DEF Local
  <2> HIDE DEF sent, b
  <2>3. Len(log[n]) <= commits
    BY <1>1, <2>1, <2>2 DEF FromCommits, Agree
  <2>4. ASSUME log[n] # << >> PROVE log[n][1].tx_data = TxDataOf(Transactions[1])
    <3>1. Len(log[n]) # 0
      BY <1>1, <2>4
    <3>2. 1 \in 1 .. Len(log[n]) /\ Len(sent) # 0
      BY <1>1, <2>1, <2>2, <3>1 DEF Agree
    <3>3. sent # << >>
      BY <3>2
    <3> QED BY <2>1, <3>2, <3>3 DEF FromCommits, Agree
  <2> QED BY <2>3, <2>4 DEF FromCommits
<1> QED BY <1>2, <1>3

\* A step that adds nothing to what was sent.
LEMMA SentKept ==
  ASSUME DisciplinedInv, SentInv, commits' = commits, NEW b \in Ballot,
         ballots'[b].log = ballots[b].log, ballots'[b].leader = ballots[b].leader,
         ballots'[b].decided = ballots[b].decided,
         \A n \in Server : decided_idx[n] <= decided_idx'[n] /\ decided_idx'[n] \in Nat
  PROVE  /\ FromCommits(ballots[b].log)'
         /\ ballots'[b].decided <= decided_idx'[ballots'[b].leader]
<1>1. Local(DatabaseLogEntry) /\ ClusterInv
  BY DEF DisciplinedInv, ClusterInv, PaxosInv
<1>2. /\ FromCommits(ballots[b].log)
      /\ ballots[b].decided <= decided_idx[ballots[b].leader]
  BY DEF SentInv
<1>3. /\ ballots[b].leader \in Server /\ ballots[b].decided \in Nat
      /\ \A n \in Server : decided_idx[n] \in Nat
  BY <1>1, BallotTypes, ServerFacts DEF Local
<1>4. FromCommits(ballots[b].log)'
  BY <1>2 DEF FromCommits
<1> QED BY <1>2, <1>3, <1>4

LEMMA SentElect ==
  ASSUME DisciplinedInv, SentInv, ClusterInv', NEW n \in Server, Elect(n),
         \A m \in Server : decided_idx[m] <= decided_idx'[m] /\ decided_idx'[m] \in Nat
  PROVE  SentInv'
<1> DEFINE r == [ leader |-> n, ready |-> FALSE, adopted |-> 0,
                  log |-> << >>, decided_at |-> << >>, decided |-> 0 ]
<1>1. /\ ballots' = Append(ballots, r) /\ commits' = commits /\ decided_idx' = decided_idx
      /\ commits \in Nat
  BY DisciplinedFacts DEF Elect, Lead
<1>2. ballots \in Seq(BallotRecord(DatabaseLogEntry)) /\ Len(ballots) \in Nat
  BY DEF DisciplinedInv, ClusterInv, PaxosInv, Local, PaxosTypeOK
<1>3. r.leader = n /\ r.log = << >> /\ r.decided = 0 /\ r \in BallotRecord(DatabaseLogEntry)
  BY DEF BallotRecord
<1> HIDE DEF r
<1>4. /\ Len(ballots') = Len(ballots) + 1 /\ ballots'[Len(ballots) + 1] = r
      /\ \A b \in 1 .. Len(ballots) : ballots'[b] = ballots[b]
  BY <1>1, <1>2, <1>3
<1> SUFFICES ASSUME NEW b \in Ballot'
             PROVE  /\ FromCommits(ballots[b].log)'
                    /\ ballots'[b].decided <= decided_idx'[ballots'[b].leader]
  BY DEF SentInv
<1>5. b \in Ballot \/ b = Len(ballots) + 1
  BY <1>2, <1>4 DEF Ballot
<1>6. CASE b \in Ballot
  <2>1. ballots'[b] = ballots[b]
    BY <1>4, <1>6 DEF Ballot
  <2> QED BY <1>1, <1>6, <2>1, SentKept
<1>7. CASE b = Len(ballots) + 1
  <2>1. Len(<< >>) = 0
    OBVIOUS
  <2>2. ballots'[b].log = << >> /\ ballots'[b].decided = 0 /\ ballots'[b].leader = n
    BY <1>3, <1>4, <1>7
  <2>3. commits' \in Nat /\ decided_idx'[n] \in Nat
    BY <1>1
  <2> QED BY <2>1, <2>2, <2>3 DEF FromCommits
<1> QED BY <1>5, <1>6, <1>7

LEMMA SentDecide ==
  ASSUME DisciplinedInv, SentInv, ClusterInv', NEW n \in Server, Decide(n), commits' = commits,
         \A m \in Server : decided_idx[m] <= decided_idx'[m] /\ decided_idx'[m] \in Nat
  PROVE  SentInv'
<1> DEFINE b == promised[n]
<1>0. ClusterInv /\ PaxosTypeOK(DatabaseLogEntry) /\ LeadersOK'
  BY DEF DisciplinedInv, ClusterInv, PaxosInv, Local
<1>1. PICK i \in decided_idx[n] + 1 .. Len(log[n]) :
        /\ b # 0 /\ ballots[b].leader = n /\ ballots[b].ready
        /\ ballots' = [ballots EXCEPT ![b].decided = i]
        /\ decided_idx' = [decided_idx EXCEPT ![n] = i]
        /\ promised' = promised
  BY DEF Decide
<1> DEFINE r == ballots[b]
           s == [r EXCEPT !.decided = i]
<1>2. b \in Ballot /\ i \in Nat /\ decided_idx'[n] = i
  BY <1>0, <1>1, ServerFacts DEF PaxosTypeOK
<1>3. ballots' = [ballots EXCEPT ![b] = s] /\ r \in BallotRecord(DatabaseLogEntry)
  BY <1>0, <1>1, <1>2, BallotTypes DEF PaxosTypeOK
<1> HIDE DEF r
<1>4. /\ s \in BallotRecord(DatabaseLogEntry) /\ s.decided = i
      /\ s.leader = r.leader /\ s.log = r.log
  BY <1>2, <1>3 DEF BallotRecord
<1> HIDE DEF s
<1>5. /\ Ballot' = Ballot /\ ballots'[b] = s
      /\ \A c \in Ballot : c # b => ballots'[c] = ballots[c]
  <2> HIDE DEF b
  <2> QED BY <1>0, <1>2, <1>3, <1>4, BallotUpdated
<1> HIDE DEF b
<1> SUFFICES ASSUME NEW c \in Ballot
             PROVE  /\ FromCommits(ballots[c].log)'
                    /\ ballots'[c].decided <= decided_idx'[ballots'[c].leader]
  BY <1>5 DEF SentInv
<1>6. CASE c # b
  BY <1>5, <1>6, SentKept
<1>7. CASE c = b
  <2>1. FromCommits(ballots[c].log)
    BY DEF SentInv
  <2>2. ballots'[c].log = ballots[c].log /\ ballots'[c].leader = n /\ ballots'[c].decided = i
    BY <1>1, <1>4, <1>5, <1>7 DEF r, b
  <2>3. FromCommits(ballots[c].log)'
    BY <2>1, <2>2 DEF FromCommits
  <2> QED BY <1>2, <2>2, <2>3
<1> QED BY <1>6, <1>7

LEMMA SentPrepared ==
  ASSUME DisciplinedInv, SentInv, ClusterInv', NEW n \in Server, Prepared(n), commits' = commits,
         \A m \in Server : decided_idx[m] <= decided_idx'[m] /\ decided_idx'[m] \in Nat
  PROVE  SentInv'
<1> DEFINE b == promised[n]
<1>0. LeadersOK'
  BY DEF ClusterInv, PaxosInv, Local
<1>1. PICK m \in Server :
        /\ b \in Ballot /\ promised' = promised /\ Ballot' = Ballot
        /\ \A c \in Ballot : c # b => ballots'[c] = ballots[c]
        /\ ballots'[b].leader = n /\ ballots'[b].ready /\ ballots'[b].log = log[m]
  BY PreparedQuiet
<1>2. PICK c : c = b
  OBVIOUS
<1>3. ballots'[c].decided = decided_idx'[n]
  <2>1. LeaderOK(c)'
    BY <1>0, <1>1, <1>2 DEF LeadersOK
  <2> QED BY <1>1, <1>2, <2>1 DEF LeaderOK
<1>4. FromCommits(ballots[c].log)'
  <2>1. FromCommits(log[m])
    BY LogsFromCommits
  <2> QED BY <1>1, <1>2, <2>1 DEF FromCommits
<1>5. ballots'[c].decided <= decided_idx'[ballots'[c].leader]
  BY <1>1, <1>2, <1>3
<1> HIDE DEF b
<1> SUFFICES ASSUME NEW e \in Ballot
             PROVE  /\ FromCommits(ballots[e].log)'
                    /\ ballots'[e].decided <= decided_idx'[ballots'[e].leader]
  BY <1>1 DEF SentInv
<1>6. CASE e # c
  BY <1>1, <1>2, <1>6, SentKept
<1> QED BY <1>4, <1>5, <1>6

LEMMA SentCommit ==
  ASSUME DisciplinedInv, Disciplined, SentInv, ClusterInv', NEW n \in Server, CommitMutTx(n),
         \A m \in Server : decided_idx[m] <= decided_idx'[m] /\ decided_idx'[m] \in Nat
  PROVE  SentInv'
<1> DEFINE b == promised[n]
           r == ballots[b]
           entry == LogEntry(node[n].datastore.next_tx_offset, TxDataOf(Transactions[commits + 1]))
           longer == Append(r.log, entry)
           at == Append(r.decided_at, r.decided)
           s == [r EXCEPT !.log = longer, !.decided_at = at]
<1>0. /\ ClusterInv /\ PaxosTypeOK(DatabaseLogEntry) /\ LeadersOK' /\ LogQuiet(n)
      /\ commits \in Nat
  BY DisciplinedFacts DEF ClusterInv, PaxosInv, Local
<1>1. /\ IsLeader(n) /\ (b # 0 => r.ready) /\ commits' = commits + 1
      /\ ballots' = [ballots EXCEPT ![b].log = Append(@, entry),
                                    ![b].decided_at = Append(@, ballots[b].decided)]
      /\ decided_idx' = decided_idx
      /\ commits > 0 => decided_idx[n] > 0
  BY DEF CommitMutTx, AppendTx, AppendEntry, Settled, FirstTxApplied, Disciplined
<1>2. b \in Ballot /\ r.leader = n /\ r.log = log[n]
  BY <1>0, <1>1, LeaderFacts, ServerFacts
<1>3. /\ r \in BallotRecord(DatabaseLogEntry) /\ r.log \in Seq(DatabaseLogEntry)
      /\ r.decided_at \in Seq(Nat) /\ r.decided \in Nat /\ Len(r.log) \in Nat
  BY <1>0, <1>2, BallotTypes
<1>4. entry \in DatabaseLogEntry /\ entry.tx_data = TxDataOf(Transactions[commits + 1])
  <2>1. node[n].datastore.next_tx_offset \in Nat
    BY <1>0, NodeFacts
  <2>2. Transactions[commits + 1] \in Diffs
    <3>1. commits + 1 \in 1 .. Len(Transactions)
      BY <1>0, TransactionsAssumption DEF CommitMutTx
    <3> QED BY <3>1, TransactionsAssumption
  <2> QED BY <2>1, <2>2, TxDataOfType DEF LogEntry, DatabaseLogEntry, Offset
<1>5. ballots' = [ballots EXCEPT ![b] = s]
  <2>1. ballots \in Seq(BallotRecord(DatabaseLogEntry))
    BY <1>0 DEF PaxosTypeOK
  <2> HIDE DEF entry
  <2> QED BY <1>1, <1>2, <2>1
<1> HIDE DEF entry
<1>6. /\ longer \in Seq(DatabaseLogEntry) /\ at \in Seq(Nat) /\ Len(longer) = Len(r.log) + 1
      /\ longer[Len(r.log) + 1] = entry /\ \A i \in 1 .. Len(r.log) : longer[i] = r.log[i]
  <2> HIDE DEF r
  <2> QED BY <1>3, <1>4
<1> HIDE DEF longer, at, r
<1>7. /\ s \in BallotRecord(DatabaseLogEntry) /\ s.leader = r.leader
      /\ s.log = longer /\ s.decided = r.decided
  BY <1>3, <1>6 DEF BallotRecord
<1> HIDE DEF s
<1>8. /\ Ballot' = Ballot /\ ballots'[b] = s
      /\ \A c \in Ballot : c # b => ballots'[c] = ballots[c]
  <2> HIDE DEF b
  <2> QED BY <1>0, <1>2, <1>5, <1>7, BallotUpdated
<1>9. FromCommits(r.log) /\ r.decided <= decided_idx[n]
  BY <1>2 DEF SentInv, r
<1>10. Len(longer) <= commits + 1 /\ longer[1].tx_data = TxDataOf(Transactions[1])
  <2>1. Len(longer) <= commits + 1
    BY <1>0, <1>3, <1>6, <1>9 DEF FromCommits
  <2>2. CASE commits = 0
    <3>1. Len(r.log) = 0
      BY <1>3, <1>9, <2>2 DEF FromCommits
    <3>2. longer[1] = entry
      BY <1>6, <3>1
    <3> QED BY <1>4, <2>1, <2>2, <3>2
  <2>3. CASE commits # 0
    <3>1. decided_idx[n] > 0 /\ decided_idx[n] <= Len(log[n]) /\ decided_idx[n] \in Nat
      BY <1>0, <1>1, <2>3, ServerFacts
    <3>2. Len(r.log) # 0 /\ 1 \in 1 .. Len(r.log)
      BY <1>2, <1>3, <3>1
    <3>3. r.log # << >>
      BY <3>2
    <3> QED BY <1>6, <1>9, <2>1, <3>2, <3>3 DEF FromCommits
  <2> QED BY <2>2, <2>3
<1> SUFFICES ASSUME NEW c \in Ballot
             PROVE  /\ FromCommits(ballots[c].log)'
                    /\ ballots'[c].decided <= decided_idx'[ballots'[c].leader]
  BY <1>8 DEF SentInv
<1>11. CASE c = b
  <2>1. ballots'[c].log = longer /\ ballots'[c].leader = n /\ ballots'[c].decided = r.decided
    BY <1>2, <1>7, <1>8, <1>11
  <2>2. FromCommits(ballots[c].log)'
    BY <1>1, <1>10, <2>1 DEF FromCommits
  <2> QED BY <1>1, <1>9, <2>1, <2>2
<1>12. CASE c # b
  <2>1. FromCommits(ballots[c].log) /\ ballots[c].decided <= decided_idx[ballots[c].leader]
    BY DEF SentInv
  <2>2. ballots'[c] = ballots[c]
    BY <1>8, <1>12
  <2>3. Len(ballots[c].log) \in Nat
    BY <1>0, BallotTypes
  <2>4. FromCommits(ballots[c].log)'
    <3>1. commits' = commits + 1 /\ commits \in Nat
      BY <1>0, <1>1
    <3>2. Len(ballots[c].log) <= commits + 1
      BY <2>1, <2>3, <3>1 DEF FromCommits
    <3> QED BY <2>1, <2>2, <3>1, <3>2 DEF FromCommits
  <2> QED BY <1>1, <2>1, <2>2, <2>4
<1> QED BY <1>11, <1>12

\* What is sent is made of transactions, and decided at its leader.
LEMMA RefinementInvStep ==
  ASSUME RefinementInv, Disciplined, [Next]_vars
  PROVE  RefinementInv'
<1>1. DisciplinedInv /\ SentInv /\ DisciplinedInv' /\ ClusterInv /\ ClusterInv'
  BY DisciplinedInvStep DEF RefinementInv, DisciplinedInv
<1>2. \A m \in Server : decided_idx[m] <= decided_idx'[m] /\ decided_idx'[m] \in Nat
  <2>1. PaxosInv(DatabaseLogEntry) /\ [PaxosNext(DatabaseLogEntry)]_paxos_vars
    BY <1>1, NextIsPaxosNext DEF ClusterInv
  <2>2. \A m \in Server : decided_idx'[m] \in Nat
    BY <1>1 DEF ClusterInv, PaxosInv, Local, PaxosTypeOK
  <2> QED BY <2>1, <2>2, DecidedKept
<1> SUFFICES SentInv'
  BY <1>1 DEF RefinementInv
<1>3. ASSUME ballots' = ballots, commits' = commits
      PROVE  SentInv'
  <2>1. ASSUME NEW b \in Ballot
        PROVE  /\ FromCommits(ballots[b].log)'
               /\ ballots'[b].decided <= decided_idx'[ballots'[b].leader]
    BY <1>1, <1>2, <1>3, SentKept
  <2>2. Ballot' = Ballot
    BY <1>3 DEF Ballot
  <2> QED BY <2>1, <2>2 DEF SentInv
<1>4. ASSUME NEW n \in Server, HandleIncoming(n)
      PROVE  SentInv'
  <2>1. commits' = commits
    BY <1>4 DEF HandleIncoming
  <2>2. \/ \E b \in Ballot : Promise(n, b)
        \/ Prepared(n)
        \/ \E i \in 0 .. Len(Transactions) : AcceptSync(n, i)
        \/ LearnDecided(n)
        \/ AcceptDecide(n)
        \/ Decide(n)
    BY <1>4 DEF HandleIncoming
  <2>3. ballots' = ballots \/ Prepared(n) \/ Decide(n)
    BY <2>2 DEF Promise, AcceptSync, LearnDecided, AcceptDecide
  <2>4. CASE Prepared(n)
    BY <1>1, <1>2, <2>1, <2>4, SentPrepared
  <2>5. CASE Decide(n)
    BY <1>1, <1>2, <2>1, <2>5, SentDecide
  <2> QED BY <1>3, <2>1, <2>3, <2>4, <2>5
<1>5. CASE UNCHANGED vars
  BY <1>3, <1>5 DEF vars, paxos_vars
<1>6. CASE Next
  <2>1. PICK n \in Server : \/ UpdateLeader(n) \/ Apply(n) \/ CommitMutTx(n)
                            \/ Stop(n) \/ Elect(n) \/ HandleIncoming(n)
    BY <1>6 DEF Next
  <2>2. CASE UpdateLeader(n) \/ Apply(n) \/ Stop(n)
    BY <1>3, <2>2 DEF UpdateLeader, Apply, Stop, paxos_vars
  <2>3. CASE Elect(n)
    BY <1>1, <1>2, <2>3, SentElect
  <2>4. CASE CommitMutTx(n)
    BY <1>1, <1>2, <2>4, SentCommit
  <2> QED BY <1>4, <2>1, <2>2, <2>3, <2>4
<1> QED BY <1>5, <1>6

LEMMA RefinementInvInitially == Init => RefinementInv
<1> SUFFICES ASSUME Init PROVE RefinementInv
  OBVIOUS
<1>1. Ballot = {}
  <2>1. Len(<< >>) = 0
    OBVIOUS
  <2> QED BY <2>1 DEF Init, PaxosInit, Ballot
<1> QED BY <1>1, DisciplinedInvInitially DEF RefinementInv, SentInv

-----------------------------------------------------------------------------
(***************************************************************************)
(* What is chosen.                                                         *)
(***************************************************************************)

LEMMA MostFacts ==
  ASSUME RefinementInv
  PROVE  /\ MostDecided \in Nat /\ MostDecided <= commits
         /\ \E n \in Server : decided_idx[n] = MostDecided
         /\ \A n \in Server : decided_idx[n] <= MostDecided
<1> DEFINE S == {decided_idx[n] : n \in Server}
<1>1. DisciplinedInv /\ SentInv /\ commits \in Nat
  BY ServerAssumption, DisciplinedFacts DEF RefinementInv
<1>2. \A n \in Server : decided_idx[n] \in Nat /\ decided_idx[n] <= commits
  <2>1. ClusterInv
    BY <1>1 DEF DisciplinedInv
  <2> QED BY <1>1, <2>1, ServerFacts, LogsFromCommits DEF FromCommits
<1>3. S \subseteq Nat /\ S # {} /\ \A x \in S : x <= commits
  BY <1>2, ServerAssumption
<1> HIDE DEF S
<1>4. MaxOf(S) \in S /\ \A y \in S : y <= MaxOf(S)
  BY <1>1, <1>3, MaxOfBounded
<1>5. MostDecided = MaxOf(S)
  BY DEF MostDecided, S
<1> QED BY <1>3, <1>4, <1>5 DEF S

\* How many transactions are chosen.
ChosenLen == IF MostDecided = 0 /\ commits > 0 THEN 1 ELSE MostDecided

\* What a server knows decided, or reads as decided, is chosen.
LEMMA ChosenFacts ==
  ASSUME RefinementInv
  PROVE  /\ ChosenLog \in Seq(TxData) /\ Len(ChosenLog) = ChosenLen /\ ChosenLen \in Nat
         /\ 0 < ChosenLen => ChosenLog[1] = TxDataOf(Transactions[1])
         /\ \A n \in Server :
              /\ Known(n) \in 0 .. ChosenLen
              /\ \A i \in 1 .. Known(n) : ChosenLog[i] = log[n][i].tx_data
<1>1. /\ DisciplinedInv /\ SentInv /\ ClusterInv /\ commits \in Nat
      /\ MostDecided \in Nat /\ MostDecided <= commits
      /\ \A n \in Server : decided_idx[n] <= MostDecided
  BY MostFacts, ServerAssumption, DisciplinedFacts DEF RefinementInv
<1>2. /\ \A n \in Server : /\ log[n] \in Seq(DatabaseLogEntry) /\ Len(log[n]) \in Nat
                           /\ decided_idx[n] \in Nat /\ decided_idx[n] <= Len(log[n])
                           /\ FromCommits(log[n])
  BY <1>1, ServerFacts, LogsFromCommits
<1>3. DecidedAgreement
  BY <1>1, PaxosInvAgrees DEF ClusterInv
<1>4. ASSUME NEW n \in Server
      PROVE  /\ Known(n) \in 0 .. ChosenLen
             /\ decided_idx[n] = 0 /\ Known(n) # 0 => Known(n) = 1 /\ commits > 0 /\ Len(log[n]) > 0
             /\ decided_idx[n] # 0 => Known(n) = decided_idx[n]
  <2>1. CASE decided_idx[n] # 0
    BY <1>1, <1>2, <2>1 DEF Known, ChosenLen
  <2>2. CASE decided_idx[n] = 0 /\ Len(log[n]) = 0
    <3>1. Known(n) = 0
      BY <2>2 DEF Known, MinOf
    <3> QED BY <1>1, <2>2, <3>1 DEF ChosenLen
  <2>3. CASE decided_idx[n] = 0 /\ Len(log[n]) > 0
    <3>1. commits > 0
      BY <1>1, <1>2, <2>3 DEF FromCommits
    <3>2. Known(n) = 1
      BY <1>2, <2>3 DEF Known, MinOf
    <3> QED BY <1>1, <2>3, <3>1, <3>2 DEF ChosenLen
  <2> QED BY <1>2, <2>1, <2>2, <2>3
<1>5. CASE MostDecided = 0 /\ commits > 0
  <2> DEFINE data == TxDataOf(Transactions[1])
  <2>1. ChosenLog = << data >> /\ ChosenLen = 1
    BY <1>5 DEF ChosenLog, ChosenLen
  <2>2. data \in TxData
    <3>1. 1 \in 1 .. Len(Transactions)
      BY <1>1, <1>5, TransactionsAssumption DEF ClusterInv
    <3>2. Transactions[1] \in Diffs
      BY <3>1, TransactionsAssumption
    <3> QED BY <3>2, TxDataOfType
  <2>3. << data >> \in Seq(TxData) /\ Len(<< data >>) = 1 /\ << data >>[1] = data
    <3> HIDE DEF data
    <3> QED BY <2>2
  <2>4. ASSUME NEW n \in Server, NEW i \in 1 .. Known(n)
        PROVE  ChosenLog[i] = log[n][i].tx_data
    <3>1. decided_idx[n] = 0 /\ Known(n) = 1 /\ i = 1 /\ Len(log[n]) > 0
      BY <1>1, <1>2, <1>4, <1>5
    <3>2. log[n] # << >>
      <4>1. Len(<< >>) = 0
        OBVIOUS
      <4> QED BY <3>1, <4>1
    <3> QED BY <1>2, <2>1, <2>3, <3>1, <3>2 DEF FromCommits
  <2> HIDE DEF data
  <2> QED BY <1>4, <2>1, <2>2, <2>3, <2>4 DEF data
<1>6. CASE ~(MostDecided = 0 /\ commits > 0)
  <2> DEFINE most == MostDecided
  <2>1. PICK m \in Server : /\ decided_idx[m] = most
                            /\ ChosenLog = SubSeq(TxDataLog(m), 1, most)
    <3>1. \E m \in Server : decided_idx[m] = most
      BY MostFacts
    <3> QED BY <1>6, <3>1 DEF ChosenLog
  <2>2. ChosenLen = most /\ most \in Nat /\ most <= Len(log[m])
    BY <1>1, <1>2, <1>6, <2>1 DEF ChosenLen
  <2>3. /\ TxDataLog(m) \in Seq(TxData) /\ Len(TxDataLog(m)) = Len(log[m])
        /\ \A i \in 1 .. Len(log[m]) : TxDataLog(m)[i] = log[m][i].tx_data
    <3>1. \A i \in 1 .. Len(log[m]) : log[m][i].tx_data \in TxData
      <4>1. \A i \in 1 .. Len(log[m]) : log[m][i] \in DatabaseLogEntry
        BY <1>2
      <4> QED BY <4>1 DEF DatabaseLogEntry
    <3> QED BY <1>2, <3>1 DEF TxDataLog
  <2> HIDE DEF most
  <2>4. /\ ChosenLog \in Seq(TxData) /\ Len(ChosenLog) = most
        /\ \A i \in 1 .. most : ChosenLog[i] = log[m][i].tx_data
    <3> DEFINE datas == TxDataLog(m)
    <3>1. most <= Len(datas) /\ Len(datas) \in Nat /\ datas \in Seq(TxData)
      BY <1>2, <2>2, <2>3
    <3> HIDE DEF datas
    <3>2. /\ SubSeq(datas, 1, most) \in Seq(TxData) /\ Len(SubSeq(datas, 1, most)) = most
          /\ \A i \in 1 .. most : SubSeq(datas, 1, most)[i] = datas[i]
      BY <2>2, <3>1
    <3>3. \A i \in 1 .. most : i \in 1 .. Len(log[m])
      BY <1>2, <2>2
    <3> QED BY <2>1, <2>3, <3>2, <3>3 DEF datas
  <2>5. 0 < most => ChosenLog[1] = TxDataOf(Transactions[1])
    <3> SUFFICES ASSUME 0 < most PROVE ChosenLog[1] = TxDataOf(Transactions[1])
      OBVIOUS
    <3>1. 1 \in 1 .. most /\ Len(log[m]) # 0
      BY <1>2, <2>2
    <3>2. log[m] # << >>
      <4>1. Len(<< >>) = 0
        OBVIOUS
      <4> QED BY <3>1, <4>1
    <3> QED BY <1>2, <2>4, <3>1, <3>2 DEF FromCommits
  <2>6. ASSUME NEW n \in Server, NEW i \in 1 .. Known(n)
        PROVE  ChosenLog[i] = log[n][i].tx_data
    <3> DEFINE d == decided_idx[n]
    <3>1. CASE d # 0
      <4>1. i \in 1 .. d /\ d <= most /\ d \in Nat /\ i \in 1 .. most /\ d <= Len(log[n])
        BY <1>1, <1>2, <1>4, <2>2, <3>1 DEF most
      <4>2. SubSeq(log[n], 1, d) = SubSeq(log[m], 1, d)
        BY <1>3, <2>1, <4>1 DEF DecidedAgreement
      <4>3. log[n] \in Seq(DatabaseLogEntry) /\ log[m] \in Seq(DatabaseLogEntry)
            /\ d <= Len(log[m]) /\ Len(log[m]) \in Nat /\ Len(log[n]) \in Nat
        BY <1>2, <2>2, <4>1
      <4> HIDE DEF d
      <4>4. SubSeq(log[n], 1, d)[i] = log[n][i] /\ SubSeq(log[m], 1, d)[i] = log[m][i]
        BY <4>1, <4>3
      <4> QED BY <2>4, <4>1, <4>2, <4>4
    <3>2. CASE d = 0
      <4>1. i = 1 /\ commits > 0 /\ Len(log[n]) > 0
        BY <1>4, <3>2
      <4>2. 0 < most
        BY <1>6, <2>2, <4>1 DEF most
      <4>3. log[n] # << >>
        <5>1. Len(<< >>) = 0
          OBVIOUS
        <5> QED BY <4>1, <5>1
      <4> QED BY <1>2, <2>5, <4>1, <4>2, <4>3 DEF FromCommits
    <3> QED BY <3>1, <3>2
  <2> QED BY <1>4, <2>2, <2>4, <2>5, <2>6
<1> QED BY <1>5, <1>6

\* No step decides more than one entry that was not decided anywhere.
LEMMA DecidesOne ==
  ASSUME RefinementInv, Disciplined, [Next]_vars, NEW m \in Server
  PROVE  decided_idx'[m] <= MostDecided + 1
<1>0. /\ DisciplinedInv /\ ClusterInv /\ Local(DatabaseLogEntry) /\ PaxosTypeOK(DatabaseLogEntry)
      /\ MostDecided \in Nat
      /\ \A n \in Server : decided_idx[n] <= MostDecided /\ decided_idx[n] \in Nat
  BY MostFacts, ServerFacts DEF RefinementInv, DisciplinedInv, ClusterInv, PaxosInv, Local
<1>1. CASE decided_idx' = decided_idx
  BY <1>0, <1>1
<1>2. ASSUME NEW b \in Ballot, NEW i \in Nat, ballots[b].adopted <= i, i <= Len(ballots[b].log)
      PROVE  DecidedAfter(b, i) \in Nat /\ DecidedAfter(b, i) <= MostDecided
  <2>1. DecidedAfter(b, i) \in Nat /\ DecidedAfter(b, i) <= ballots[b].decided
    BY <1>0, <1>2, DecidedAfterOK
  <2>2. ballots[b].decided <= decided_idx[ballots[b].leader]
    BY DEF RefinementInv, SentInv
  <2>3. ballots[b].decided \in Nat /\ ballots[b].leader \in Server
    BY <1>0, BallotTypes
  <2> QED BY <1>0, <2>1, <2>2, <2>3
<1>3. ASSUME NEW n \in Server, LearnDecided(n)
      PROVE  decided_idx'[m] <= MostDecided + 1
  <2> DEFINE b == promised[n]
             d == DecidedAfter(b, Len(log[n]))
  <2>1. /\ b \in Ballot /\ decided_idx' = [decided_idx EXCEPT ![n] = d]
        /\ accepted_round[n] = b
    BY <1>0, <1>3, FollowerOK DEF LearnDecided
  <2>2. Len(log[n]) \in Nat /\ ballots[b].adopted <= Len(log[n]) /\ Len(log[n]) <= Len(ballots[b].log)
    <3>1. ServerOK(n) /\ b \in Nat \ {0}
      BY <1>0, <2>1, BallotTypes DEF Local, ServersOK
    <3> QED BY <1>0, <2>1, <3>1, ServerFacts DEF ServerOK, Agree
  <2>3. d \in Nat /\ d <= MostDecided
    BY <1>2, <2>1, <2>2
  <2> HIDE DEF d
  <2> QED BY <1>0, <2>1, <2>3 DEF PaxosTypeOK
<1>4. ASSUME NEW n \in Server, NEW i \in Nat, AcceptSync(n, i)
      PROVE  decided_idx'[m] <= MostDecided + 1
  <2> DEFINE b == promised[n]
             d == DecidedAfter(b, i)
             S == {decided_idx[n], d}
  <2>1. /\ b \in Ballot /\ decided_idx' = [decided_idx EXCEPT ![n] = MaxOf({@, d})]
        /\ i \in ballots[b].adopted .. Len(ballots[b].log)
    BY <1>0, <1>4, FollowerOK DEF AcceptSync
  <2>2. d \in Nat /\ d <= MostDecided
    <3>1. ballots[b].adopted <= i /\ i <= Len(ballots[b].log)
      BY <1>0, <2>1, BallotTypes
    <3> QED BY <1>2, <2>1, <3>1
  <2> HIDE DEF d
  <2>3. S \subseteq Nat /\ S # {} /\ \A x \in S : x <= MostDecided
    BY <1>0, <2>2
  <2>4. MaxOf(S) \in S
    <3> HIDE DEF S
    <3> QED BY <1>0, <2>3, MaxOfBounded
  <2>5. decided_idx' = [decided_idx EXCEPT ![n] = MaxOf(S)]
    BY <2>1
  <2> HIDE DEF S
  <2>6. PICK x \in S : x = MaxOf(S)
    BY <2>4
  <2>7. x \in Nat /\ x <= MostDecided /\ decided_idx' = [decided_idx EXCEPT ![n] = x]
    BY <2>3, <2>5, <2>6
  <2> QED BY <1>0, <2>7 DEF PaxosTypeOK
<1>5. ASSUME NEW n \in Server, Decide(n)
      PROVE  decided_idx'[m] <= MostDecided + 1
  <2>1. PICK i \in decided_idx[n] + 1 .. Len(log[n]) : decided_idx' = [decided_idx EXCEPT ![n] = i]
    BY <1>5 DEF Decide
  <2>2. Len(log[n]) <= decided_idx[n] + 1 /\ Len(log[n]) \in Nat
    BY <1>0, DisciplinedFacts, ServerFacts DEF LogQuiet
  <2>3. i \in Nat /\ i <= MostDecided + 1
    BY <1>0, <2>2
  <2> QED BY <1>0, <2>1, <2>3 DEF PaxosTypeOK
<1>6. ASSUME NEW n \in Server, Prepared(n)
      PROVE  decided_idx'[m] <= MostDecided + 1
  <2>1. PICK q \in Server :
          /\ promised[n] \in Ballot /\ ~ballots[promised[n]].ready /\ promised[q] = promised[n]
          /\ decided_idx'[n] = Len(log[q])
          /\ \A k \in Server : k # n => decided_idx'[k] = decided_idx[k]
    BY <1>0, <1>6, PreparedQuiet
  <2>2. decided_idx[q] = Len(log[q])
    <3>1. LogQuiet(q)
      BY <1>0, DisciplinedFacts
    <3>2. promised[q] # 0
      BY <1>0, <2>1, BallotTypes
    <3> QED BY <2>1, <3>1, <3>2 DEF LogQuiet
  <2> QED BY <1>0, <2>1, <2>2
<1>7. CASE UNCHANGED vars
  BY <1>1, <1>7 DEF vars, paxos_vars
<1>8. CASE Next
  <2>1. PICK n \in Server : \/ UpdateLeader(n) \/ Apply(n) \/ CommitMutTx(n)
                            \/ Stop(n) \/ Elect(n) \/ HandleIncoming(n)
    BY <1>8 DEF Next
  <2>2. CASE UpdateLeader(n) \/ Apply(n) \/ Stop(n) \/ Elect(n)
    BY <1>1, <2>2 DEF UpdateLeader, Apply, Stop, Elect, Lead, paxos_vars
  <2>3. CASE CommitMutTx(n)
    BY <1>1, <2>3 DEF CommitMutTx, AppendTx, AppendEntry
  <2>4. CASE HandleIncoming(n)
    <3>1. \/ \E b \in Ballot : Promise(n, b)
          \/ Prepared(n)
          \/ \E i \in 0 .. Len(Transactions) : AcceptSync(n, i)
          \/ LearnDecided(n)
          \/ AcceptDecide(n)
          \/ Decide(n)
      BY <2>4 DEF HandleIncoming
    <3>2. CASE (\E b \in Ballot : Promise(n, b)) \/ AcceptDecide(n)
      BY <1>1, <3>2 DEF Promise, AcceptDecide
    <3>3. CASE \E i \in 0 .. Len(Transactions) : AcceptSync(n, i)
      <4>1. PICK i \in 0 .. Len(Transactions) : AcceptSync(n, i)
        BY <3>3
      <4>2. i \in Nat
        OBVIOUS
      <4> QED BY <1>4, <4>1, <4>2
    <3> QED BY <1>3, <1>5, <1>6, <3>1, <3>2, <3>3
  <2> QED BY <2>1, <2>2, <2>3, <2>4
<1> QED BY <1>7, <1>8

\* Client transactions are committed one by one, and change nothing decided.
LEMMA CommitsOne ==
  ASSUME RefinementInv, [Next]_vars
  PROVE  \/ commits' = commits
         \/ commits' = commits + 1 /\ decided_idx' = decided_idx
<1>1. CASE UNCHANGED vars
  BY <1>1 DEF vars
<1>2. CASE Next
  <2>1. PICK n \in Server : \/ UpdateLeader(n) \/ Apply(n) \/ CommitMutTx(n)
                            \/ Stop(n) \/ Elect(n) \/ HandleIncoming(n)
    BY <1>2 DEF Next
  <2> QED BY <2>1 DEF UpdateLeader, Apply, CommitMutTx, AppendTx, AppendEntry, Stop, Elect, HandleIncoming
<1> QED BY <1>1, <1>2

\* The same facts of the state that a step leads to.
LEMMA ChosenFactsAfter ==
  RefinementInv' =>
    ( /\ MostDecided \in Nat
      /\ \E n \in Server : decided_idx[n] = MostDecided
      /\ \A n \in Server : decided_idx[n] <= MostDecided
      /\ ChosenLog \in Seq(TxData) /\ Len(ChosenLog) = ChosenLen /\ ChosenLen \in Nat
      /\ 0 < ChosenLen => ChosenLog[1] = TxDataOf(Transactions[1])
      /\ \A n \in Server :
           /\ Known(n) \in 0 .. ChosenLen
           /\ \A i \in 1 .. Known(n) : ChosenLog[i] = log[n][i].tx_data )'
<1>1. RefinementInv =>
        ( /\ MostDecided \in Nat
          /\ \E n \in Server : decided_idx[n] = MostDecided
          /\ \A n \in Server : decided_idx[n] <= MostDecided
          /\ ChosenLog \in Seq(TxData) /\ Len(ChosenLog) = ChosenLen /\ ChosenLen \in Nat
          /\ 0 < ChosenLen => ChosenLog[1] = TxDataOf(Transactions[1])
          /\ \A n \in Server :
               /\ Known(n) \in 0 .. ChosenLen
               /\ \A i \in 1 .. Known(n) : ChosenLog[i] = log[n][i].tx_data )
  BY MostFacts, ChosenFacts
<1> QED BY <1>1, PTL

\* What is chosen stays, and at most one transaction is added.
LEMMA ChosenGrows ==
  ASSUME RefinementInv, Disciplined, [Next]_vars
  PROVE  \/ ChosenLog' = ChosenLog
         \/ \E data \in TxData : ChosenLog' = Append(ChosenLog, data)
<1>1. RefinementInv'
  BY RefinementInvStep
<1>2. /\ DisciplinedInv /\ ClusterInv /\ DisciplinedInv'
      /\ commits \in Nat /\ MostDecided \in Nat /\ MostDecided' \in Nat
      /\ MostDecided <= commits
  BY <1>1, MostFacts, ChosenFactsAfter, ServerAssumption, DisciplinedFacts DEF RefinementInv, DisciplinedInv
<1>3. ASSUME NEW n \in Server
      PROVE  /\ log[n] \in Seq(DatabaseLogEntry) /\ decided_idx[n] \in Nat /\ decided_idx'[n] \in Nat
             /\ decided_idx[n] <= Len(log[n]) /\ Len(log[n]) \in Nat
             /\ log'[n] \in Seq(DatabaseLogEntry) /\ Len(log'[n]) \in Nat
             /\ decided_idx[n] <= decided_idx'[n] /\ decided_idx[n] <= Len(log'[n])
             /\ SubSeq(log'[n], 1, decided_idx[n]) = SubSeq(log[n], 1, decided_idx[n])
  <2>1. PaxosInv(DatabaseLogEntry) /\ [PaxosNext(DatabaseLogEntry)]_paxos_vars
    BY <1>2, NextIsPaxosNext DEF ClusterInv
  <2>2. PaxosTypeOK(DatabaseLogEntry)'
    BY <1>2 DEF DisciplinedInv, ClusterInv, PaxosInv, Local
  <2>3. decided_idx'[n] \in Nat /\ log'[n] \in Seq(DatabaseLogEntry)
    BY <2>2 DEF PaxosTypeOK
  <2>4. Len(log'[n]) \in Nat
    BY <2>3
  <2> QED BY <1>2, <2>1, <2>3, <2>4, DecidedKept, ServerFacts
<1>4. MostDecided <= MostDecided' /\ MostDecided' <= MostDecided + 1
  <2>1. PICK n \in Server : decided_idx[n] = MostDecided
    BY MostFacts
  <2>2. PICK m \in Server : decided_idx'[m] = MostDecided'
    BY <1>1, ChosenFactsAfter
  <2>3. decided_idx'[m] <= MostDecided + 1
    BY DecidesOne
  <2>4. decided_idx[n] <= decided_idx'[n] /\ decided_idx'[n] <= MostDecided'
    BY <1>1, <1>3, ChosenFactsAfter
  <2> QED BY <1>2, <1>3, <2>1, <2>2, <2>3, <2>4
<1>5. ChosenLen <= ChosenLen' /\ ChosenLen' <= ChosenLen + 1
  <2>1. CASE commits' = commits
    BY <1>2, <1>4, <2>1 DEF ChosenLen
  <2>2. CASE commits' = commits + 1 /\ decided_idx' = decided_idx
    <3>1. MostDecided' = MostDecided
      BY <2>2 DEF MostDecided
    <3> QED BY <1>2, <2>2, <3>1 DEF ChosenLen
  <2> QED BY <2>1, <2>2, CommitsOne
<1> DEFINE before == ChosenLog
           len == ChosenLen
<1>6. PICK after, more : after = ChosenLog' /\ more = ChosenLen'
  OBVIOUS
<1>7. /\ before \in Seq(TxData) /\ Len(before) = len /\ len \in Nat
      /\ after \in Seq(TxData) /\ Len(after) = more /\ more \in Nat
      /\ len <= more /\ more <= len + 1
  BY <1>1, <1>5, <1>6, ChosenFacts, ChosenFactsAfter
<1>8. ASSUME NEW i \in 1 .. len PROVE after[i] = before[i]
  <2>1. CASE MostDecided = 0
    <3>1. i = 1 /\ 0 < len /\ 0 < more
      BY <1>7, <2>1 DEF ChosenLen
    <3> QED BY <1>1, <1>6, <3>1, ChosenFacts, ChosenFactsAfter
  <2>2. CASE MostDecided # 0
    <3>1. PICK n \in Server : decided_idx[n] = MostDecided
      BY MostFacts
    <3> DEFINE d == decided_idx[n]
    <3>2. i \in 1 .. d /\ i \in 1 .. decided_idx'[n] /\ decided_idx'[n] # 0 /\ d # 0
      BY <1>2, <1>3, <2>2, <3>1 DEF ChosenLen
    <3>3. Known(n) = d /\ Known(n)' = decided_idx'[n]
      BY <3>2 DEF Known
    <3>4. before[i] = log[n][i].tx_data
      BY <3>2, <3>3, ChosenFacts
    <3>5. after[i] = log'[n][i].tx_data
      <4>1. i \in 1 .. Known(n)'
        BY <3>2, <3>3
      <4> QED BY <1>1, <1>6, <4>1, ChosenFactsAfter
    <3>6. log'[n][i] = log[n][i]
      <4> DEFINE s == log[n]
      <4>1. PICK t : t = log'[n]
        OBVIOUS
      <4>2. /\ s \in Seq(DatabaseLogEntry) /\ t \in Seq(DatabaseLogEntry) /\ d \in Nat
            /\ d <= Len(s) /\ d <= Len(t) /\ SubSeq(t, 1, d) = SubSeq(s, 1, d)
        BY <1>3, <4>1
      <4> HIDE DEF s, d
      <4>3. SubSeq(t, 1, d)[i] = t[i] /\ SubSeq(s, 1, d)[i] = s[i]
        BY <3>2, <4>2
      <4> QED BY <4>1, <4>2, <4>3 DEF s
    <3> QED BY <3>4, <3>5, <3>6
  <2> QED BY <2>1, <2>2
<1> HIDE DEF before, len
<1>9. CASE more = len
  <2>1. after = before
    BY <1>7, <1>8, <1>9, SeqEqual
  <2> QED BY <1>6, <2>1 DEF before
<1>10. CASE more = len + 1
  <2> DEFINE data == after[more]
  <2>1. data \in TxData
    BY <1>7, <1>10
  <2>2. Append(before, data) \in Seq(TxData) /\ Len(Append(before, data)) = more
        /\ Append(before, data)[more] = data
        /\ \A i \in 1 .. len : Append(before, data)[i] = before[i]
    <3> HIDE DEF data
    <3> QED BY <1>7, <1>10, <2>1
  <2>3. \A i \in 1 .. more : Append(before, data)[i] = after[i]
    <3>1. \A i \in 1 .. more : i \in 1 .. len \/ i = more
      BY <1>7, <1>10
    <3> QED BY <1>8, <2>2, <3>1
  <2> HIDE DEF data
  <2>4. after = Append(before, data)
    BY <1>7, <2>2, <2>3, SeqEqual
  <2> QED BY <1>6, <2>1, <2>4 DEF before
<1> QED BY <1>7, <1>9, <1>10

-----------------------------------------------------------------------------
(***************************************************************************)
(* What is applied.                                                        *)
(***************************************************************************)

\* What a server shows is what the chosen transactions leave.
LEMMA ViewFacts ==
  ASSUME RefinementInv, Disciplined, NEW n \in Server
  PROVE  /\ AppliedLenOf(n) \in 0 .. Len(ChosenLog)
         /\ \A k \in Key :
              /\ Get(node[n].datastore, k, Replicated) \in ValueOrNone
              /\ LogLeaves(ChosenLog, AppliedLenOf(n), k, Get(node[n].datastore, k, Replicated))
<1> DEFINE cs == node[n].datastore
           a == AppliedLenOf(n)
           datas == TxDatas(log[n])
<1>1. /\ DisciplinedInv /\ ClusterInv /\ NodeLevel(n)
      /\ Level(cs, log[n], a) \/ Ahead(cs, log[n], a)
      /\ a \in Nat /\ a <= Len(log[n]) /\ Len(log[n]) \in Nat /\ a <= Known(n)
  BY DisciplinedReads, DisciplinedFacts DEF RefinementInv, NodeLevel
<1>2. /\ Known(n) \in 0 .. Len(ChosenLog) /\ Len(ChosenLog) \in Nat
      /\ \A i \in 1 .. Known(n) : ChosenLog[i] = log[n][i].tx_data
  BY ChosenFacts
<1>3. \A i \in 1 .. a : ChosenLog[i] = datas[i]
  BY <1>1, <1>2 DEF TxDatas
<1>4. ASSUME NEW k \in Key
      PROVE  /\ Get(cs, k, Replicated) \in ValueOrNone
             /\ LogLeaves(ChosenLog, a, k, Get(cs, k, Replicated))
  <2>1. Get(cs, k, Replicated) = cs.replicated_state[k]
    BY DEF Get, Memory, Replicated
  <2>2. cs.replicated_state[k] \in ValueOrNone
    BY <1>1, NodeFacts, CommittedStateParts
  <2>3. LogLeaves(datas, a, k, Get(cs, k, Replicated))
    <3> HIDE DEF cs, a
    <3> QED BY <1>1, MemoryReads
  <2> HIDE DEF cs, a, datas
  <2> QED BY <1>1, <1>3, <2>1, <2>2, <2>3, LogLeavesAgree
<1> QED BY <1>1, <1>2, <1>4

LEMMA ViewFactsAfter ==
  Disciplined =>
    (RefinementInv' =>
      ( \A n \in Server :
          /\ AppliedLenOf(n) \in 0 .. Len(ChosenLog)
          /\ \A k \in Key :
               /\ Get(node[n].datastore, k, Replicated) \in ValueOrNone
               /\ LogLeaves(ChosenLog, AppliedLenOf(n), k, Get(node[n].datastore, k, Replicated)) )')
<1> SUFFICES ASSUME Disciplined
    PROVE  RefinementInv' =>
      ( \A n \in Server :
          /\ AppliedLenOf(n) \in 0 .. Len(ChosenLog)
          /\ \A k \in Key :
               /\ Get(node[n].datastore, k, Replicated) \in ValueOrNone
               /\ LogLeaves(ChosenLog, AppliedLenOf(n), k, Get(node[n].datastore, k, Replicated)) )'
  OBVIOUS
<1>1. RefinementInv =>
      ( \A n \in Server :
          /\ AppliedLenOf(n) \in 0 .. Len(ChosenLog)
          /\ \A k \in Key :
               /\ Get(node[n].datastore, k, Replicated) \in ValueOrNone
               /\ LogLeaves(ChosenLog, AppliedLenOf(n), k, Get(node[n].datastore, k, Replicated)) )
  BY ViewFacts
<1> QED BY <1>1, PTL

\* A poll never takes a server back.
LEMMA PollsAdvance ==
  ASSUME DisciplinedInv, Disciplined, NEW n \in Server, UpdateLeader(n) \/ Apply(n)
  PROVE  /\ AppliedLenOf(n) <= AppliedLenOf(n)'
         /\ \A m \in Server : m # n => node'[m] = node[m]
         /\ UNCHANGED <<paxos_vars, commits>>
<1>1. /\ ClusterInv /\ NodeLevel(n) /\ NodePolled(n) /\ AppliedLenOf(n) \in Nat
      /\ node \in [Server -> NodesInStep]
      /\ Known(n) \in Nat /\ AppliedLenOf(n) <= Known(n)
  <2>1. ClusterInv /\ NodeLevel(n) /\ NodePolled(n) /\ Numbered(log[n]) /\ DecidedSlack = 1
    BY DisciplinedFacts DEF Disciplined
  <2> QED BY <2>1, NodeFacts, ServerFacts, DurableIsKnown DEF ClusterInv, NodeLevel
<1>2. CASE UpdateLeader(n)
  <2> DEFINE nd == UpdatedLeader(n, node[n])
  <2>1. /\ LeaderNews(n) /\ node' = [node EXCEPT ![n] = nd]
        /\ UNCHANGED <<paxos_vars, commits>>
    BY <1>2 DEF UpdateLeader
  <2>2. nd.datastore.replicated_tx_offset = AppliedLenOf(n) - 1
    <3> HIDE DEF nd
    <3> QED BY <2>1, UpdatedLevel DEF Level, Applied, nd
  <2> HIDE DEF nd
  <2>3. node'[n] = nd /\ \A m \in Server : m # n => node'[m] = node[m]
    BY <1>1, <2>1
  <2>4. AppliedLenOf(n)' = AppliedLenOf(n)
    BY <1>1, <2>2, <2>3 DEF AppliedLenOf
  <2> QED BY <1>1, <2>1, <2>3, <2>4
<1>3. CASE Apply(n)
  <2> DEFINE nd == ApplyReplicatedTxns(n, node[n])
  <2>1. /\ ~LeaderNews(n) /\ node' = [node EXCEPT ![n] = nd]
        /\ UNCHANGED <<paxos_vars, commits>>
    BY <1>1, <1>3 DEF Apply, NodePolled
  <2>2. nd = node[n] \/ nd.datastore.replicated_tx_offset = Known(n) - 1
    <3> HIDE DEF nd
    <3> QED BY <2>1, ApplyLevels DEF Level, Applied, nd
  <2> HIDE DEF nd
  <2>3. node'[n] = nd /\ \A m \in Server : m # n => node'[m] = node[m]
    BY <1>1, <2>1
  <2>4. AppliedLenOf(n)' = AppliedLenOf(n) \/ AppliedLenOf(n)' = Known(n)
    BY <1>1, <2>2, <2>3 DEF AppliedLenOf
  <2> QED BY <1>1, <2>1, <2>3, <2>4
<1> QED BY <1>2, <1>3

\* Nothing but a poll changes what a server shows.
LEMMA RestStays ==
  ASSUME DisciplinedInv, [Next]_vars, ~(\E n \in Server : UpdateLeader(n) \/ Apply(n)),
         NEW m \in Server
  PROVE  /\ node'[m].datastore.replicated_tx_offset = node[m].datastore.replicated_tx_offset
         /\ node'[m].datastore.replicated_state = node[m].datastore.replicated_state
<1>1. ClusterInv /\ node \in [Server -> NodesInStep] /\ node[m] \in NodeType
  BY NodeFacts DEF DisciplinedInv, ClusterInv
<1>2. CASE node' = node
  BY <1>2
<1>3. ASSUME NEW n \in Server, CommitMutTx(n)
      PROVE  /\ node'[m].datastore.replicated_tx_offset = node[m].datastore.replicated_tx_offset
             /\ node'[m].datastore.replicated_state = node[m].datastore.replicated_state
  <2> DEFINE committed == Commit(node[n].datastore, Transactions[commits + 1])
  <2>1. node' = [node EXCEPT ![n].datastore = committed]
    BY <1>3 DEF CommitMutTx
  <2>2. /\ committed.replicated_tx_offset = node[n].datastore.replicated_tx_offset
        /\ committed.replicated_state = node[n].datastore.replicated_state
    BY DEF Commit
  <2>3. node[n] \in NodeType
    BY <1>1, NodeFacts
  <2> HIDE DEF committed
  <2>4. CASE m = n
    <3>1. node'[n].datastore = committed
      BY <1>1, <2>1, <2>3 DEF NodeType
    <3> QED BY <2>2, <2>4, <3>1
  <2>5. CASE m # n
    BY <1>1, <2>1, <2>5
  <2> QED BY <2>4, <2>5
<1>4. ASSUME NEW n \in Server, Stop(n)
      PROVE  node'[m].datastore = node[m].datastore
  <2>1. node' = [node EXCEPT ![n].is_running = FALSE] /\ node[n] \in NodeType
    BY <1>1, <1>4, NodeFacts DEF Stop
  <2> QED BY <1>1, <2>1 DEF NodeType
<1>5. CASE UNCHANGED vars
  BY <1>2, <1>5 DEF vars
<1>6. CASE Next
  <2>1. PICK n \in Server : \/ UpdateLeader(n) \/ Apply(n) \/ CommitMutTx(n)
                            \/ Stop(n) \/ Elect(n) \/ HandleIncoming(n)
    BY <1>6 DEF Next
  <2>2. CASE Elect(n) \/ HandleIncoming(n)
    BY <1>2, <2>2 DEF Elect, HandleIncoming
  <2> QED BY <1>3, <1>4, <2>1, <2>2
<1> QED BY <1>5, <1>6

-----------------------------------------------------------------------------
(***************************************************************************)
(* The steps of the cluster are steps of ReplicatedDatabase.               *)
(***************************************************************************)

LEMMA SameVocabulary ==
  /\ Database!ValueOrNone = ValueOrNone /\ Database!TxData = TxData
  /\ \A datas, m, k, v : Database!LogLeaves(datas, m, k, v) <=> LogLeaves(datas, m, k, v)
BY DEF Database!ValueOrNone, ValueOrNone, Database!TxData, TxData,
       Database!LogLeaves, LogLeaves, Database!Touches, Touches, Database!Writes, Writes

LEMMA RefinesInitially == Init => Database!Init
<1> SUFFICES ASSUME Init PROVE Database!Init
  OBVIOUS
<1>1. RefinementInv
  BY RefinementInvInitially
<1>2. commits = 0 /\ \A n \in Server : node[n] = NewNode
  BY DEF Init
<1>3. ChosenLog = << >>
  <2>1. ChosenLog \in Seq(TxData) /\ Len(ChosenLog) = ChosenLen
    BY <1>1, ChosenFacts
  <2>2. ChosenLen = 0
    BY <1>1, <1>2, MostFacts DEF ChosenLen
  <2> QED BY <2>1, <2>2
<1>4. ASSUME NEW n \in Server
      PROVE  /\ node[n].datastore.replicated_tx_offset + 1 = 0
             /\ \A k \in Key : Get(node[n].datastore, k, Replicated) = NoValue
  <2>1. /\ node[n].datastore.replicated_tx_offset = -1
        /\ \A k \in Key : node[n].datastore.replicated_state[k] = NoValue
    BY <1>2 DEF NewNode, Fresh, NoOffset
  <2> QED BY <2>1 DEF Get, Memory, Replicated
<1> QED BY <1>3, <1>4 DEF Database!Init

\* A poll is an Apply of all that it applies, or does not show.
LEMMA PollRefines ==
  ASSUME RefinementInv, Disciplined, [Next]_vars, NEW n \in Server, UpdateLeader(n) \/ Apply(n)
  PROVE  Database!Apply(n) \/ UNCHANGED Database!vars
<1> DEFINE applied == [m \in Server |-> node[m].datastore.replicated_tx_offset + 1]
           view == [m \in Server |-> [k \in Key |-> Get(node[m].datastore, k, Replicated)]]
<1>1. /\ DisciplinedInv /\ RefinementInv'
      /\ AppliedLenOf(n) <= AppliedLenOf(n)'
      /\ \A m \in Server : m # n => node'[m] = node[m]
      /\ UNCHANGED <<paxos_vars, commits>>
  BY PollsAdvance, RefinementInvStep DEF RefinementInv
<1>2. ChosenLog' = ChosenLog
  BY <1>1 DEF ChosenLog, MostDecided, TxDataLog, paxos_vars
<1>3. PICK a : a = AppliedLenOf(n)'
  OBVIOUS
<1>4. /\ AppliedLenOf(n) \in Nat /\ a \in Nat /\ AppliedLenOf(n) <= a
      /\ a <= Len(ChosenLog) /\ Len(ChosenLog) \in Nat
      /\ \A k \in Key :
           /\ Get(node[n].datastore, k, Replicated) \in ValueOrNone
           /\ LogLeaves(ChosenLog, AppliedLenOf(n), k, Get(node[n].datastore, k, Replicated))
           /\ Get(node'[n].datastore, k, Replicated) \in ValueOrNone
           /\ LogLeaves(ChosenLog, a, k, Get(node'[n].datastore, k, Replicated))
  <2>1. Len(ChosenLog) \in Nat
    BY ChosenFacts
  <2>2. /\ AppliedLenOf(n) \in 0 .. Len(ChosenLog)
        /\ \A k \in Key :
             /\ Get(node[n].datastore, k, Replicated) \in ValueOrNone
             /\ LogLeaves(ChosenLog, AppliedLenOf(n), k, Get(node[n].datastore, k, Replicated))
    BY ViewFacts
  <2>3. /\ a \in 0 .. Len(ChosenLog')
        /\ \A k \in Key :
             /\ Get(node'[n].datastore, k, Replicated) \in ValueOrNone
             /\ LogLeaves(ChosenLog', a, k, Get(node'[n].datastore, k, Replicated))
    BY <1>1, <1>3, ViewFactsAfter
  <2> QED BY <1>1, <1>2, <1>3, <2>1, <2>2, <2>3
<1>5. /\ \A m \in Server : m # n => applied'[m] = applied[m] /\ view'[m] = view[m]
      /\ applied[n] = AppliedLenOf(n) /\ applied'[n] = a
  BY <1>1, <1>3 DEF AppliedLenOf
<1>6. CASE a = AppliedLenOf(n)
  <2>1. view'[n] = view[n]
    <3>1. ASSUME NEW k \in Key
          PROVE  Get(node'[n].datastore, k, Replicated) = Get(node[n].datastore, k, Replicated)
      BY <1>4, <1>6, LogLeavesOne
    <3> QED BY <3>1
  <2>2. applied' = applied /\ view' = view
    BY <1>5, <1>6, <2>1
  <2> QED BY <1>2, <2>2 DEF Database!vars
<1>7. CASE a # AppliedLenOf(n)
  <2>1. a \in applied[n] + 1 .. Len(ChosenLog)
    BY <1>4, <1>5, <1>7
  <2>2. view'[n] = Database!StateAfter(a)
    <3>1. ASSUME NEW k \in Key
          PROVE  Get(node'[n].datastore, k, Replicated)
                   = CHOOSE v \in ValueOrNone : LogLeaves(ChosenLog, a, k, v)
      <4> DEFINE shown == Get(node'[n].datastore, k, Replicated)
      <4>1. shown \in ValueOrNone /\ LogLeaves(ChosenLog, a, k, shown)
        BY <1>4
      <4>2. \A v \in ValueOrNone : LogLeaves(ChosenLog, a, k, v) => v = shown
        BY <1>4, <4>1, LogLeavesOne
      <4> HIDE DEF shown
      <4>3. shown = CHOOSE v \in ValueOrNone : LogLeaves(ChosenLog, a, k, v)
        BY <4>1, <4>2
      <4> QED BY <4>3 DEF shown
    <3>2. \A k \in Key : (CHOOSE v \in Database!ValueOrNone : Database!LogLeaves(ChosenLog, a, k, v))
                           = CHOOSE v \in ValueOrNone : LogLeaves(ChosenLog, a, k, v)
      BY SameVocabulary
    <3> QED BY <3>1, <3>2 DEF Database!StateAfter
  <2>3. applied' = [applied EXCEPT ![n] = a] /\ view' = [view EXCEPT ![n] = Database!StateAfter(a)]
    BY <1>5, <2>2
  <2> QED BY <1>2, <2>1, <2>3 DEF Database!Apply
<1> QED BY <1>6, <1>7

LEMMA StepRefines ==
  ASSUME RefinementInv, Disciplined, [Next]_vars
  PROVE  [Database!Next]_(Database!vars)
<1>1. CASE \E n \in Server : UpdateLeader(n) \/ Apply(n)
  BY <1>1, PollRefines DEF Database!Next
<1>2. CASE ~(\E n \in Server : UpdateLeader(n) \/ Apply(n))
  <2>1. ASSUME NEW m \in Server
        PROVE  /\ node'[m].datastore.replicated_tx_offset + 1 = node[m].datastore.replicated_tx_offset + 1
               /\ \A k \in Key : Get(node'[m].datastore, k, Replicated) = Get(node[m].datastore, k, Replicated)
    BY <1>2, RestStays DEF RefinementInv, Get, Memory, Replicated
  <2>2. /\ [m \in Server |-> node[m].datastore.replicated_tx_offset + 1]'
             = [m \in Server |-> node[m].datastore.replicated_tx_offset + 1]
        /\ [m \in Server |-> [k \in Key |-> Get(node[m].datastore, k, Replicated)]]'
             = [m \in Server |-> [k \in Key |-> Get(node[m].datastore, k, Replicated)]]
    BY <2>1
  <2>3. CASE ChosenLog' = ChosenLog
    BY <2>2, <2>3 DEF Database!vars
  <2>4. CASE \E data \in TxData : ChosenLog' = Append(ChosenLog, data)
    BY <2>2, <2>4, SameVocabulary DEF Database!Next, Database!Choose
  <2> QED BY <2>3, <2>4, ChosenGrows
<1> QED BY <1>1, <1>2

\* Where time is as the tests make it, a cluster of any size, with any number of
\* elections and transactions, is one replicated database to those who read
\* at Replicated: what a server shows is always the effect of some prefix of
\* one log of transactions, which only grows, and of a longer and longer one.
THEOREM ImplementsDatabase == Disciplined => (Spec => ImplementsReplicatedDatabase)
<1> SUFFICES ASSUME Disciplined PROVE Spec => ImplementsReplicatedDatabase
  OBVIOUS
<1>1. RefinementInv /\ [Next]_vars => RefinementInv'
  BY RefinementInvStep
<1>2. RefinementInv /\ [Next]_vars => [Database!Next]_(Database!vars)
  BY StepRefines
<1> QED BY <1>1, <1>2, RefinementInvInitially, RefinesInitially, PTL
        DEF Spec, ImplementsReplicatedDatabase, Database!Spec
=============================================================================
