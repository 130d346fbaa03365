------------------------------- MODULE Cluster -------------------------------
(***************************************************************************)
(* The distributed database: at every server a Node, its ExampleDatastore  *)
(* and its OmniPaxosDurability, glued as node/mod.rs does it.              *)
(*                                                                         *)
(* The runner of a node alternates between polling (update_leader, then    *)
(* apply_replicated_txns) and handing messages to omnipaxos; a client on   *)
(* another thread commits in between. Each of the three holds the node's   *)
(* mutex, so each is one step. A poll that finds nothing new changes       *)
(* nothing and is not a step.                                              *)
(*                                                                         *)
(* The code relies on time for what it does not check: that a poll comes   *)
(* before the next message, that clients wait before the next transaction. *)
(* Each such reliance is a member of Discipline, and the model can be run  *)
(* with and without it.                                                    *)
(***************************************************************************)
EXTENDS CommittedState, OmniPaxosDurability

CONSTANTS
  Transactions,  \* the diffs clients commit, in this order (bound)
  MaxStops,      \* bound: how many nodes are stopped
  Discipline     \* what timing ensures, see below

PromptPolls == "PromptPolls"
OneInFlight == "OneInFlight"
BallotsSeen == "BallotsSeen"
QuietSync == "QuietSync"
FirstTxEverywhere == "FirstTxEverywhere"

ASSUME TransactionsAssumption == Transactions \in Seq(Diffs)
ASSUME MaxStopsAssumption == MaxStops \in Nat
ASSUME DisciplineAssumption ==
  Discipline \subseteq {PromptPolls, OneInFlight, BallotsSeen, QuietSync, FirstTxEverywhere}

VARIABLES
  node,     \* the Node of each server with its datastore's CommittedState
  polling,  \* the servers between the two calls of a poll
  commits   \* history: how many Transactions were committed

vars == <<paxos_vars, node, polling, commits>>

NodeType ==
  [ datastore           : CommittedStateType,
    last_applied_index  : OptionOffset,
    current_leader      : Server \cup {NoLeader},
    got_promoted_leader : BOOLEAN,
    is_running          : BOOLEAN,
    poisoned            : BOOLEAN ]   \* a panic poisoned the mutexes

\* Node::new
NewNode ==
  [ datastore           |-> Fresh,
    last_applied_index  |-> NoOffset,
    current_leader      |-> NoLeader,
    got_promoted_leader |-> FALSE,
    is_running          |-> TRUE,
    poisoned            |-> FALSE ]

Init ==
  /\ PaxosInit
  /\ node = [n \in Server |-> NewNode]
  /\ polling = {}
  /\ commits = 0

-----------------------------------------------------------------------------
\* Node::rollback_unreplicated_txns
RolledBack(nd) == [nd EXCEPT !.datastore = Rollback(@)]

\* Poisoned: every later lock().unwrap() panics as well.
Panicked(nd) == [nd EXCEPT !.poisoned = TRUE]

\* Something decided that is not the last thing applied.
DecidedNews(n, nd) ==
  DurableTxOffsetOptional(n) \notin {NoOffset, nd.last_applied_index}

AppliesAsLeader_MutIgnoresPromotion(n, nd) == IsLeader(n)

\* The leader's datastore holds what was decided, in memory.
AppliesAsLeader(n, nd) ==
  /\ IsLeader(n)
  /\ \/ ~nd.got_promoted_leader
     \/ GetCurOffset(nd.datastore) = DurableTxOffsetOptional(n)

ReplayEntry_MutSkipsFailed(nd, entry) ==
  [nd EXCEPT !.datastore = IF CanReplay(@)
                           THEN Advance(Replay(@, entry.tx_data), entry.tx_offset)
                           ELSE @,
             !.last_applied_index = entry.tx_offset]

\* One turn of the replay loop. A failed replay is printed, and the entry
\* counts as applied all the same.
ReplayEntry(nd, entry) ==
  LET datastore == IF CanReplay(nd.datastore)
                   THEN Replay(nd.datastore, entry.tx_data)
                   ELSE nd.datastore
  IN  [nd EXCEPT !.datastore = Advance(datastore, entry.tx_offset),
                 !.last_applied_index = entry.tx_offset]

\* The loop over the entries of the iterator.
ReplayEntries(nd, entries) ==
  LET after[i \in 0 .. Len(entries)] ==
        IF i = 0 THEN nd ELSE ReplayEntry(after[i - 1], entries[i])
  IN  after[Len(entries)]

\* replicated_offset.unwrap_or(TxOffset(0))
ReplayFrom(nd) == IF nd.last_applied_index = NoOffset THEN 0 ELSE nd.last_applied_index

ApplyReplicatedTxns_MutNoEarlyReturn(n, nd) ==
  IF AppliesAsLeader(n, nd)
  THEN [nd EXCEPT !.last_applied_index = DurableTxOffsetOptional(n),
                  !.datastore = Advance(@, DurableTxOffsetOptional(n)),
                  !.got_promoted_leader = FALSE]
  ELSE IF IterPanics(n, ReplayFrom(nd))
  THEN Panicked(nd)
  ELSE [ReplayEntries(nd, IterStartingFromOffset(n, ReplayFrom(nd)))
          EXCEPT !.got_promoted_leader = FALSE]

(***************************************************************************)
(* Node::apply_replicated_txns. get_cur_offset().unwrap() panics at a      *)
(* promoted leader whose datastore is empty.                               *)
(***************************************************************************)
ApplyReplicatedTxns(n, nd) ==
  IF ~DecidedNews(n, nd) THEN nd
  ELSE IF /\ IsLeader(n) /\ nd.got_promoted_leader
          /\ GetCurOffset(nd.datastore) = NoOffset
  THEN Panicked(nd)
  ELSE IF AppliesAsLeader(n, nd)
  THEN [nd EXCEPT !.last_applied_index = DurableTxOffsetOptional(n),
                  !.datastore = Advance(@, DurableTxOffsetOptional(n)),
                  !.got_promoted_leader = FALSE]
  ELSE IF IterPanics(n, ReplayFrom(nd))
  THEN Panicked(nd)
  ELSE [ReplayEntries(nd, IterStartingFromOffset(n, ReplayFrom(nd)))
          EXCEPT !.got_promoted_leader = FALSE]

LeaderNews(n) == GetCurrentLeader(n) \notin {NoLeader, node[n].current_leader}

UpdatedLeader_MutNoRollback(n, nd) ==
  LET leader == GetCurrentLeader(n)
      changed ==
        IF nd.current_leader # NoLeader /\ leader = n
        THEN ApplyReplicatedTxns(n, [nd EXCEPT !.got_promoted_leader = TRUE])
        ELSE nd
  IN  IF changed.poisoned THEN changed ELSE [changed EXCEPT !.current_leader = leader]

(***************************************************************************)
(* Node::update_leader, when the leader is another one than last time. The *)
(* first leader that a node sees is only written down, itself included.    *)
(***************************************************************************)
UpdatedLeader(n, nd) ==
  LET leader == GetCurrentLeader(n)
      changed ==
        IF nd.current_leader = NoLeader THEN nd
        ELSE IF nd.current_leader = n THEN RolledBack(nd)
        ELSE IF leader = n
        THEN ApplyReplicatedTxns(n, [nd EXCEPT !.got_promoted_leader = TRUE])
        ELSE nd
  IN  IF changed.poisoned THEN changed ELSE [changed EXCEPT !.current_leader = leader]

-----------------------------------------------------------------------------
\* The runner of n is in its loop.
Runs(n) == node[n].is_running /\ ~node[n].poisoned

UpdateLeader(n) ==
  /\ Runs(n) /\ n \notin polling
  /\ LeaderNews(n)
  /\ node' = [node EXCEPT ![n] = UpdatedLeader(n, @)]
  /\ polling' = polling \cup {n}
  /\ UNCHANGED <<paxos_vars, commits>>

\* The second call of the poll: the first one has just seen the leader.
Apply(n) ==
  /\ ~node[n].poisoned
  /\ \/ n \in polling
     \/ Runs(n) /\ ~LeaderNews(n) /\ DecidedNews(n, node[n])
  /\ node' = [node EXCEPT ![n] = ApplyReplicatedTxns(n, @)]
  /\ polling' = polling \ {n}
  /\ UNCHANGED <<paxos_vars, commits>>

Polled(n) == n \notin polling /\ ~LeaderNews(n) /\ ~DecidedNews(n, node[n])

\* Everything in n's log is decided, and n has nothing left to poll.
Settled(n) ==
  /\ Polled(n)
  /\ decided_idx[n] = Len(log[n])
  /\ promised[n] # 0 => ballots[promised[n]].ready

\* Every server has the first transaction; before there is one, every
\* server follows the leader that will commit it.
FirstTxApplied ==
  \A n \in Server :
    IF commits = 0
    THEN accepted_round[n] = Len(ballots) /\ ~LeaderNews(n)
    ELSE decided_idx[n] > 0 /\ node[n].last_applied_index >= 0

(***************************************************************************)
(* Node::commit_mut_tx at a leader; elsewhere it only returns NotLeader.   *)
(* The transaction holds the datastore's write guard from begin_mut_tx on, *)
(* so all it does takes effect here.                                       *)
(*                                                                         *)
(* OneInFlight: the tests sleep WAIT_COMMIT_TIMEOUT after each commit and  *)
(* WAIT_LEADER_TIMEOUT before the first one at a new leader.               *)
(***************************************************************************)
CommitMutTx(n) ==
  /\ ~node[n].poisoned
  /\ IsLeader(n)
  /\ commits < Len(Transactions)
  /\ OneInFlight \in Discipline => Settled(n)
  /\ FirstTxEverywhere \in Discipline => FirstTxApplied
  /\ LET datastore == node[n].datastore
         writes == Transactions[commits + 1]
     IN  /\ node' = [node EXCEPT ![n].datastore = Commit(datastore, writes)]
         /\ AppendTx(n, datastore.next_tx_offset, TxDataOf(writes))
  /\ commits' = commits + 1
  /\ UNCHANGED polling

\* Node::stop ends the runner at its next turn. The Node stays, and clients
\* may still hold it.
Stop(n) ==
  /\ node[n].is_running
  /\ Cardinality({m \in Server : ~node[m].is_running}) < MaxStops
  /\ node' = [node EXCEPT ![n].is_running = FALSE]
  /\ UNCHANGED <<paxos_vars, polling, commits>>

(***************************************************************************)
(* handle_incoming and tick are other branches of the runner's select.     *)
(*                                                                         *)
(* PromptPolls: polls come every millisecond, and before the next message. *)
(***************************************************************************)
HandlesMessage(n) ==
  /\ Runs(n) /\ n \notin polling
  /\ PromptPolls \in Discipline => Polled(n)

(***************************************************************************)
(* QuietSync: when logs are compared and copied, in an election and when a *)
(* server comes back, no transaction is in flight among those that take    *)
(* part: the tests sleep WAIT_REPLICATION_TIMEOUT before either.           *)
(***************************************************************************)
Quiet(n) == QuietSync \in Discipline => decided_idx[n] = Len(log[n])

(***************************************************************************)
(* BallotsSeen: a server that is elected has taken part in the ballot      *)
(* before, and has noticed its leader.                                     *)
(***************************************************************************)
Elect(n) ==
  /\ HandlesMessage(n)
  /\ Quiet(n)
  /\ BallotsSeen \in Discipline => promised[n] = Len(ballots) /\ ~LeaderNews(n)
  /\ FirstTxEverywhere \in Discipline /\ commits > 0 => FirstTxApplied
  /\ Lead(n)
  /\ UNCHANGED <<node, polling, commits>>

HandleIncoming(n) ==
  /\ HandlesMessage(n)
  /\ \/ \E b \in Ballot : Promise(n, b) /\ (ballots[b].ready \/ Quiet(n))
     \/ Prepared(n)
     \/ \E i \in 0 .. Len(Transactions) : AcceptSync(n, i) /\ Quiet(n)'
     \/ LearnDecided(n)
     \/ AcceptDecide(n)
     \/ Decide(n)
  /\ UNCHANGED <<node, polling, commits>>

Next ==
  \E n \in Server :
    \/ UpdateLeader(n)
    \/ Apply(n)
    \/ CommitMutTx(n)
    \/ Stop(n)
    \/ Elect(n)
    \/ HandleIncoming(n)

Spec == Init /\ [][Next]_vars

(***************************************************************************)
(* The runner's select polls every millisecond as long as it runs, and     *)
(* between connected servers messages arrive. Nobody has to be elected,    *)
(* and no client has to commit.                                            *)
(***************************************************************************)
Fairness ==
  \A n \in Server : /\ WF_vars(UpdateLeader(n))
                    /\ WF_vars(Apply(n))
                    /\ WF_vars(HandleIncoming(n))

FairSpec == Spec /\ Fairness

-----------------------------------------------------------------------------
TypeOK ==
  /\ \A b \in Ballot :
       /\ ballots[b].leader \in Server /\ ballots[b].ready \in BOOLEAN
       /\ ballots[b].decided \in 0 .. Len(ballots[b].log)
  /\ promised \in [Server -> 0 .. Len(ballots)]
  /\ accepted_round \in [Server -> 0 .. Len(ballots)]
  /\ \A n \in Server : decided_idx[n] \in 0 .. Len(log[n])
  /\ node \in [Server -> NodeType]
  /\ polling \subseteq Server
  /\ commits \in 0 .. Len(Transactions)

TxDataLog(n) == [i \in 1 .. Len(log[n]) |-> log[n][i].tx_data]

(***************************************************************************)
(* apply_replicated_txns hands a tx_offset to iter_starting_from_offset,   *)
(* which takes it for a position in the log. It is one.                    *)
(***************************************************************************)
OffsetIsPosition ==
  \A n \in Server : \A i \in 1 .. Len(log[n]) : log[n][i].tx_offset = i - 1

(***************************************************************************)
(* What a read at Replicated sees at a node is what the log of its own     *)
(* omnipaxos says, up to the node's replicated offset.                     *)
(***************************************************************************)
ReplicatedStateIsLogPrefix ==
  \A n \in Server :
    LET ds == node[n].datastore
    IN  /\ ds.replicated_tx_offset < Len(log[n])
        /\ \A k \in Key :
             LogLeaves(TxDataLog(n), ds.replicated_tx_offset + 1, k, Get(ds, k, Replicated))

(***************************************************************************)
(* The same of a read at Memory, where the log of a deposed leader may not *)
(* have been noticed to be stale yet.                                      *)
(***************************************************************************)
MemoryStateIsLogPrefix ==
  \A n \in Server : Polled(n) =>
    LET ds == node[n].datastore
    IN  /\ ds.next_tx_offset <= Len(log[n])
        /\ \A k \in Key : LogLeaves(TxDataLog(n), ds.next_tx_offset, k, Get(ds, k, Memory))

(***************************************************************************)
(* update_leader: "If a node loses leadership, it needs to rollback the    *)
(* txns committed in memory that have not been replicated yet."            *)
(***************************************************************************)
NoDiffsAtFollower ==
  \A n \in Server :
    GetCurrentLeader(n) # n /\ ~LeaderNews(n) =>
      \A k \in Key : node[n].datastore.committed_diff[k] = << >>

\* No unwrap of the poll panics.
NoPanic == \A n \in Server : ~node[n].poisoned

\* The node's last_applied_index and the datastore's replicated offset are
\* two variables behind two mutexes that the code never compares.
LastAppliedIsReplicated ==
  \A n \in Server :
    node[n].last_applied_index = node[n].datastore.replicated_tx_offset

\* A node never declares replicated what its datastore has not committed.
WatermarkIsCommitted ==
  \A n \in Server :
    node[n].datastore.replicated_tx_offset < node[n].datastore.next_tx_offset

(***************************************************************************)
(* tests.rs:572: "logs should now be synced": once elections and clients   *)
(* rest, every server has the same log, all of it decided, and has applied *)
(* it.                                                                     *)
(***************************************************************************)
Converged ==
  \A n \in Server :
    LET ds == node[n].datastore
    IN  /\ decided_idx[n] = Len(log[n])
        /\ \A m \in Server : log[m] = log[n]
        /\ ds.replicated_tx_offset = Len(log[n]) - 1
        /\ \A k \in Key :
             /\ LogLeaves(TxDataLog(n), Len(log[n]), k, Get(ds, k, Replicated))
             /\ ds.committed_diff[k] = << >>

Converges == <>[]Converged
=============================================================================
