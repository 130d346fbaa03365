# Verification of the distributed SpacetimeDB on OmniPaxos

TLA+ modules, TLC configurations and TLAPS proofs for the database in `src/`:
an in-memory key-value store with two durability levels (`ExampleDatastore`),
replicated by the `omnipaxos` crate, with a `Node` in between that decides what
a decided log entry, a new leader or a lost leadership does to the store.

Paths below are relative to the crate's `src/` unless they name a file at the
root of the repository.

## 1. The system

### Components

| component | state it keeps | operations | module(s) |
|---|---|---|---|
| `ExampleDatastore` (`datastore/example_datastore.rs`, `mod.rs`, `tx_data.rs`) | one `RwLock<CommittedState>`: `replicated_state`, `committed_diff` (per key a queue of diffs in memory), `replicated_tx_offset`, `next_tx_offset`; in a `MutTx` its own `diff` | `begin_tx`, `release_tx`, `begin_mut_tx`, `get/set/delete_mut_tx`, `commit_mut_tx`, `rollback_mut_tx`, `advance_replicated_durability_offset`, `rollback_to_replicated_durability_offset`, `replay_transaction` | `CommittedState`, `Datastore` |
| `OmniPaxosDurability` (`durability/omnipaxos_durability.rs`) | an `OmniPaxos` over a `MemoryStorage` | `append_tx`, `iter`, `iter_starting_from_offset`, `get_durable_tx_offset(_optional)`, `is_leader`, `tick`, `handle_incoming` | `OmniPaxosDurability` |
| `omnipaxos` crate (external, `Cargo.toml`) | ballots, the log and its decided index at each server | ballot leader election, Prepare/Promise, AcceptSync, AcceptDecide, Decide | `OmniPaxos` |
| `Node`, `NodeRunner` (`node/mod.rs`) | `last_applied_index`, `current_leader`, `got_promoted_leader`, `is_running`, maps of connections | `update_leader`, `apply_replicated_txns`, `begin_tx`, `release_tx`, `begin_mut_tx`, `commit_mut_tx`, `stop`; the runner's `select!` loop | `Cluster`, `NodeLocks`, `Transport` |
| transport (`utils.rs`, `node/mod.rs:40-63`) | a bounded channel per node, connected and disconnected senders | `spawn_nodes`, `send_outgoing_msgs`, `delete_connections`, `reconnect_nodes` | `Transport` |
| `ExampleDurabilityLayer` (`durability/example_durability.rs`) | a file, a writer task, two locks | `append_tx`, `iter`, `get_durable_tx_offset` | `FileDurability` |
| serialisation of `TxData` (`datastore/tx_data/serde.rs`) | none (the file and the message it writes to) | varints, rows, lists, `TxData`, the `LogEntry` of the file log | `TxDataSerde` |
| `DatastoreError`, `main.rs` | none | texts, start-up | not modelled |
| `tests.rs` | – | what the team expects; the sleeps everything relies on | `Cluster!Discipline` |

### How they interact

* The runner of a node is a task. Every millisecond (`MSG_HANDLING_PERIOD`) it
  **polls**: `update_leader`, then `apply_replicated_txns`, then it sends what
  omnipaxos has to send. Otherwise it hands one message to `handle_incoming`
  or calls `tick`. Each call is made under the node's mutex; between the two
  calls of a poll the mutex is free.
* A client is another thread. `begin_mut_tx` and `commit_mut_tx` also take the
  node's mutex. A commit goes **first to the datastore, in memory**, which
  gives it the offset `next_tx_offset`, and then to omnipaxos.
* omnipaxos elects leaders, copies logs and decides entries when messages come.
  The node only finds out at its next poll, by comparing `get_current_leader`
  with the leader it wrote down, and the offset of the last decided entry with
  the last one it applied.
* At a leader that executed the transactions itself, decided entries are already
  in the datastore in memory, and `advance_replicated_durability_offset` moves
  them to the replicated state. At a follower, and once at a leader that was
  just promoted, they are replayed from the log.

Three notions of "how far" therefore have to agree: the position in omnipaxos'
log, the `tx_offset` written into each entry, and the node's
`last_applied_index`. Nothing in the code compares them, and this is where
most of what can go wrong does.

### What is hard

`PROJECT.json` lists every hazard at its line; in groups:

* **Stale state.** The node's view of who leads is up to one poll old, while
  `commit_mut_tx` asks omnipaxos. Leaders are compared, not ballots.
* **Order.** Advance or replay is decided by `got_promoted_leader`, set in one
  call and cleared in another.
* **Boundaries.** `remove(0)` before the comparison in advance; `None` and
  `Some(0)` both becoming offset 0; the inclusive end of
  `iter_starting_from_offset`.
* **Partial failure.** A failed replay is printed, and the entry counts as applied.
* **Locks.** Calls wait for the store's `RwLock` with the node's mutex held.
* **Channels.** A runner waits for room in the channels of others in the same
  loop in which it empties its own; messages are skipped as connections come and
  go; a connection is deleted, and given back, in several critical sections.
* **Bytes.** Lengths and numbers at the end of a byte; a file that ends in the
  middle of an entry; a diff whose keys come in any order.
* **Files and tasks.** The file log is written by one task per entry, a writer
  and a forwarder, and outlives the process.
* **Liveness.** A server that was behind must end up with the same applied log.

### What makes each component correct

* datastore: reads at `Replicated` see the replicated prefix of the transaction
  log, reads at `Memory` all of it; a held `Tx` is a snapshot; the queues of
  diffs stay between the two offsets;
* omnipaxos: what two servers know decided is the same log (assumed of the
  crate, checked of the model);
* node: the store of each server is a function of the log of its own omnipaxos,
  at all times; a follower keeps nothing in memory; it never panics; all
  together look like one replicated database;
* locks: every call returns;
* transport: a link keeps its order, delivers once and loses nothing while it is
  not cut; no connection is lost by deleting and reconnecting; what is to be
  sent is sent;
* serialisation: what is read is what was written, whole entries only, and what
  is replayed is what was committed;
* file log: each entry is written once, and what was reported durable is in the
  file and stays there, which is true of every reported offset but 0.

## 2. The modules

```
CommittedState <-- Datastore <-- MCDatastore
      ^  ^              ^------- DatastoreProofs --> CommittedStateProofs
      |  |
      |  +------ Cluster --> OmniPaxosDurability --> OmniPaxos
      |             ^
ReplicatedDatabase <-(refines)- ClusterRefinement <-- MCCluster

Cluster, ClusterRefinement, OmniPaxosProofs, CommittedStateProofs <-- ClusterProofs

NodeLocks <-- NodeLocksProofs          FileDurability <-- FileDurabilityProofs
Transport <-- TransportProofs          TxDataSerde <-- MCTxDataSerde, TxDataSerdeProofs
```

**CommittedState** is the record behind the `RwLock` and the operations on it as
operators: `Commit`, `Advance`, `Rollback`, `CanReplay`/`Replay`, `Get`. A
`HashMap` is a total function with `NoValue` for absent keys, an `Option` offset
is -1 for `None`. `Advance` is the loop of the code including the entry it
removes before it looks at it. Because the operators take the record as an
argument, `Datastore` (one store under arbitrary calls) and `Cluster` (a store
in every server) use the same definitions, and so do the proofs.

**Datastore** is one `ExampleDatastore` under every legal sequence of calls of
several clients and the node, with the `RwLock` as guards. `Lag` says how far
behind the newest transaction the watermark of advance may be. `tx_log` is a
history variable: the transaction log that the README_template of the repository
speaks of.

**OmniPaxos** is external: the crate's source is not in the repository, so the
module has what the code in `src/` can see of it (leader, log, decided index)
and the Sequence Paxos steps that change that. Elections can happen at any
moment at any server, and a message taken late or never is a step taken late or
never, which covers disconnection, partial connectivity and loss. Deliberate
restrictions: messages of one ballot are taken in order; ballots start in the
order of their numbers; a Prepare completes on the promises of servers that are
still in the ballot; proposals are not forwarded by followers (the node never
proposes at one); no reconfiguration, no snapshots, no trimming (the code uses
none).

**OmniPaxosDurability** is what the node reads of that log, with the code's
positions: `DurableTxOffsetOptional` and `IterStartingFromOffset` with all of
their boundary cases. `DecidedSlack` stands for the one thing about the crate
that the code depends on and does not show: `OmniPaxos::read(i)` labels entry
`i` `Decided` already when `i = decided_idx`. It is 1. The evidence is in the
repository: with 0, `iter_starting_from_offset(0)` would start behind the first
transaction as soon as it is decided, no follower would ever apply it and every
replication test would fail, while the recorded outputs show followers with
`ReplicatedDurability: 0` after one transaction
(`test_outputs/test5.txt:24-28`); and `omnipaxos_durability.rs:138-140` reads the
entry at an offset while nothing is decided and expects it to be there.

**Cluster** puts a `Node` with its `CommittedState` on every server's omnipaxos.
Its actions are the critical sections of the node's mutex: `UpdateLeader` and
`Apply` (the two calls of a poll, `polling` remembers that the second is due),
`CommitMutTx`, `HandleIncoming`, `Elect`, `Stop`. A poll that finds nothing to do
changes nothing and is not a step. A failing `unwrap` under the mutex poisons it
(`poisoned`), and nothing happens at that server's runner or clients any more.

**ReplicatedDatabase** is the promise: one growing log of chosen transactions;
each server shows a prefix of it at `Replicated`, a longer and longer one.
**ClusterRefinement** has the mapping.

**NodeLocks** is who waits for whom at one node: the node's mutex, the `RwLock`,
the runner and any number of clients, data left out. The mutexes of the store
and of omnipaxos are only ever taken with the node's mutex held, so they add no
waiting.

**FileDurability** is the file log, which the distributed database does not use:
the spawned tasks that send an entry, the writer with its two bounded channels,
the forwarder that keeps `durable_offset`, clones of the layer, panics of readers
that poison the lock, and restarts. An entry is its offset. `reported` is a
history: every offset that `get_durable_tx_offset` returned, be it from
`durable_offset` or, where that is empty, from the file (which it then caches).
`AppendsAfterRestart` says whether a log that is there is appended to or only
read. I/O errors are left out, and with them the panics of the writer when it
opens, serialises, writes, flushes or syncs; the one panic of `iter` that is
there is for a file that nobody has created yet. A restart keeps all that was
written: what an operating system loses when it stops is not in the model.

**Transport** is the runner's loop seen from its channel: `Receive` takes a
message, `Poll` leaves a batch of messages to send, `LookUp` reads the map of
connections for the next of them (under the mutex) and skips it or goes on with a
clone of the sender, `Send` is the `send().await` that waits for room, and fails
without waiting when the receiver is dropped. A message is its link and its
number on it. The controller is the test thread: `delete_connections` is four
critical sections (`DeleteStep`), with the two senders in its hands (`removed`)
in between; `reconnect_nodes` clones, inserts and clears node by node. In
`Cluster` all of this is "a message is taken late or never, and those of a ballot
in order"; `LinksKeepOrder` is what that rests on. Not connected to `Cluster` by
a refinement: the two share no state but the order of messages.

**TxDataSerde** has the writers and readers of `serde.rs`, the rows of the
datastore and the entries of the file log as functions on sequences of bytes,
and the writer that puts them into the file byte by byte, so that every moment
at which the log may be read, or the process may die, is a state. A reader is a
function from the bytes there are to the set of what it returns: one pair of a value
and the rest, or nothing when the bytes end; the readers of the code that run one
after the other are `Then`, its loops `ReadItems` and `ReadList`. What may be
written is any diff whose keys are Strings, and any other `TxData`
(`DiffsAssumption`, `OtherTxDataAssumption`). Numbers are not cut to their width:
the module is the code as long as tables and lengths are below 2^32 (`u32` in
`serde.rs`, and `len() as u32`) and offsets below 2^64. `FileDurability` writes an
entry in one step and `CommittedState` takes `TxData` for a diff:
`IterYieldsWritten` and `ReplayIsCommit` are why they may.

An operator whose name contains `_Mut` is a plausible mistake in the definition
after it. No specification uses it; each property is re-checked with one of them
in place, to show that it would notice.

### Timing the code takes for granted

The node is correct only if some things happen quickly, and the tests sleep so
that they do (`WAIT_COMMIT_TIMEOUT` 20 ms, `WAIT_LEADER_TIMEOUT` 400 ms,
`WAIT_REPLICATION_TIMEOUT` 800 ms, `tests.rs:28-30`, against a poll every
millisecond, `node/mod.rs:25`). Each is a member of the constant `Discipline` of
`Cluster`, so that one sees what rests on it:

| discipline | what it says | without it |
|---|---|---|
| `PromptPolls` | a node polls before it takes the next message | replicated, memory and watermark properties fail |
| `OneInFlight` | a client commits when the last transaction is decided and applied at the leader (it sleeps after each commit and after an election) | two entries with the same `tx_offset` (run `cluster_eager_client`) |
| `BallotsSeen` | a server that is elected has taken part in the ballot before and noticed its leader | a leader deposed and re-elected between two polls keeps what it should roll back (`ReplicatedStateIsLogPrefix` fails) |
| `QuietSync` | logs are compared and copied when no transaction is in flight among those that take part | a follower applies an undecided entry that another leader replaces |
| `FirstTxEverywhere` | all servers have applied the first transaction before there is a new election, and followed the leader when it was committed | a panic (run `cluster_promoted_empty`); a follower that skips the first transaction (`Converges` fails, section 5) |

The rows are the outcome of model checking with one discipline left out at a
time and three ballots. With only `BallotsSeen` and `QuietSync` assumed even
`NoDiffsAtFollower` fails: a leader that commits and is deposed before its first
poll takes the new leader for the first one it sees and rolls nothing back. Each
of the other three disciplines excludes that.

What a discipline excludes cannot go wrong in `cluster_disciplined`, and the
properties checked there say nothing of it: a failed replay (`node/mod.rs:235`), a
change of leader that a poll misses (`:159`), a commit between the two calls of a
poll (`:76`), a follower that comes late (`:230`), a leadership that its node
never notices (`:185`), an undecided entry that is
applied and then replaced (`omnipaxos_durability.rs:142`). `PROJECT.json` says at
each hazard which run meets it, or that none does.

## 3. What is checked

| run | question | outcome |
|---|---|---|
| `datastore` | Does each level read what it should, does a `Tx` stay a snapshot, do the queues stay in their window and is replay safe, when watermarks are the newest offset? | holds |
| `datastore_lag_loses_a_write` | Does `Replicated` see the log's prefix when the watermark lags by one? | violated |
| `cluster_free` | What holds with no assumption about time? | decided logs agree and never change; `last_applied_index` is the store's replicated offset |
| `cluster_disciplined` | Is the glue right when time is as the tests make it? Three elections, a stopped node, set/overwrite/delete of one key. | holds, and implements `ReplicatedDatabase` |
| `cluster_converges` | Does every server catch up, once elections and clients rest? | holds |
| `cluster_eager_client` | … if clients do not wait? | `OffsetIsPosition` violated |
| `cluster_promoted_empty` | … if a server is elected before it has applied anything? | `NoPanic` violated |
| `filedurability` | Is each entry written to the file in the end, and once, in whatever order the tasks run; is what was reported (but for 0) in the file, after a restart as well? Both channels full and tasks waiting. | holds, if the log is only read after the restart |
| `filedurability_restart` | … if it is appended to afterwards? | `FileIsAppendOnly` violated |
| `nodelocks` | Who can wait for ever, runner and three clients? | exactly those who find the `RwLock` taken |
| `transport` | What can a link lose or swap, can a connection get lost, and what stops the traffic, with deletions, reconnections and stopped nodes at any time? | only what was cut or sent to a stopped node; no; only runners that wait for each other, and those for ever |
| `serde` | Is what is read from the log what was written, at any moment, and what is replayed what was committed? | holds |

The properties, by the question they answer:

* `HistoryInWindow`, `ReplayOnReplicatedState`: the queues of `committed_diff`
  hold exactly the offsets between the two watermarks in order, and replay never
  runs below one of them.
* `ReplicatedViewIsLogPrefix`, `MemoryViewIsLog`, `TxReadsAreStable`: what each
  read returns, against the log, and over time.
* `DecidedAgreement`, `DecidedIsStable`: what two servers know decided is the same
  log, and stays what it was at every server, whatever log it adopts.
* `OffsetIsPosition`, `LastAppliedIsReplicated`, `WatermarkIsCommitted`: the
  three notions of "how far" agree.
* `ReplicatedStateIsLogPrefix`, `MemoryStateIsLogPrefix`, `NoDiffsAtFollower`,
  `NoPanic`: the node's glue, in every interleaving of polls, messages, clients
  and elections.
* `ImplementsReplicatedDatabase`, `CatchesUp`, `Converges`: the whole.
* `WaitIsForever`, `UncontendedCallsReturn`: the locks.
* `LinksKeepOrder`, `ConnectionsAreKept`, `ReconnectConnectsAll`: messages and
  connections, through everything that runners and controller do in between each
  other's steps. `ConnectionsAreKept` speaks of the maps between two calls of the
  controller, `ReconnectConnectsAll` of the moment `reconnect_nodes` returns.
* `JamIsForever`, `TrafficSettles`: runners that wait for each other's channels
  never go on, and nothing else stops the traffic: also a stopped runner ends,
  and batches to stopped or disconnected nodes are got through.
* `IterYieldsWritten`, `ReplayIsCommit`: the bytes.
* `EachWrittenOnce`, `ReportedSurvives`, `FileIsAppendOnly`,
  `EveryAppendIsWritten`: the file log. `ReportedSurvives` is less than the doc of
  `get_durable_tx_offset` promises (`durability/mod.rs:26`, a watermark): it leaves out
  the offset 0, which is reported for an empty log too, and says nothing of
  lower offsets, which may still be missing. Both are in section 5.

### Bounds, and why they are enough

* `Datastore`: two clients (a reader and a writer, or two readers), offsets
  below `MaxOffset`, `Lag = 0`: a watermark is always the newest offset, so
  that the entry which `advance` loses behind an older one is met only in
  `datastore_lag_loses_a_write`. One entry too few or too many in a queue
  shows with two or three offsets. The theorems below drop the bounds, and
  those about the window and about replay hold for every `Lag`.
* `Cluster`: three servers, the smallest majority that is not everybody; three
  transactions on one key (set, overwrite, delete), so that applying one too
  many, too few, twice or in the wrong order shows in the key; three elections in
  the safety run: one to lead, one to be deposed, one to come back;
  `MaxStops = 1`, as a majority must remain. The free run has two elections and
  two transactions, the convergence run two elections and nobody stopped (a
  stopped server never catches up). Servers are symmetric in the safety runs;
  runs with liveness use no symmetry. The theorems have every safety property of
  these runs for any servers, ballots, transactions and stops.
* `Transport`: two nodes, channels of one message (`MSG_BUFFER_SIZE` is 10000),
  four messages in all in batches of any size, two calls of `delete_connections`
  (so that a pair can be deleted twice, or again after it was reconnected). With
  one message each way a channel is full, with two each way both runners wait:
  the jam happens. Three nodes are too many for liveness; the theorems have the
  other five properties for any nodes and any size of channel.
* `TxDataSerde`: two entries, so that one is read behind another; keys, values
  and rows of 0, 1, 127 and 128 bytes, inserts and deletes of two keys in either
  order; table ids and truncs up to 2^31 - 1 on both sides of each byte of a
  varint (of the 32 bits of a `u32`, TLC's integers leave 31); offsets that cross
  a byte. Strings are their bytes and always valid UTF-8.
* `NodeLocks`: three clients have every combination of a reader, a writer and a
  waiting client. The theorem drops the bound.

* `FileDurability`: five transactions and channels of one entry (64 in the code),
  so that both channels are full, the writer holds an entry and two tasks wait,
  in either order; one restart, after any number of the appends. The run that appends
  afterwards needs no more than two. The theorems drop these bounds.

Deadlock checking is off where the system may rest: a cluster with no more
ballots and transactions does nothing, nor do a writer after its last entry and
nodes that are all stopped; a jam of runners is what `Transport`, and a lock
cycle at one node what `NodeLocks` asks about by its own properties.

### Fairness, and why the code has it

* `Cluster!Fairness`: weak fairness of `UpdateLeader`, `Apply` and
  `HandleIncoming` at every server. The `select!` of the runner is `biased`
  towards the interval timers, each of which fires and is then pending for a
  while, so polls and messages both get their turn; and between connected
  servers a message arrives. No fairness of `Elect`, `CommitMutTx` or `Stop`:
  `Converges` and `CatchesUp` speak of what follows once those rest.
* `NodeLocks!FairSpec`: strong fairness of getting the mutex (nobody waiting
  for it is passed over for ever, though others take it in between), weak
  fairness of what a thread does with it, and of a client going on with a
  transaction that it has open, as every client in `tests.rs` does. With less,
  nothing returns for reasons that are not the code's.
* `Transport!FairSpec`: weak fairness of `Poll`, of `Receive`, and of going on
  with a message (`LookUp` or `Send`), at every node. `select!` polls the timers
  first, but as long as a poll takes less than its period
  (`MSG_HANDLING_PERIOD`, 1 ms) the timers are not ready in between and `recv` has
  its turn; a slower poll would starve `recv`, which a model without time does not
  show. A `send` that finds room goes on: tokio's channel serves waiting senders
  in turn. Nobody has to stop, delete or reconnect.
* `FileDurability!FairSpec`: weak fairness of each spawned task, which tokio
  gives. Nobody has to append, ask or restart.

## 4. What is proved

With TLAPS, for every number of keys, values, clients, servers, elections and
transactions. `CommittedStateProofs` has the lemmas about the operators on the
store and about what a log leaves in a key, which the datastore and the cluster
both need.

`DatastoreProofs`, from the assumptions of the constants alone:

* `TypeCorrect`, `HistoryCorrect`, `ReplayCorrect`: `Spec => []TypeOK`,
  `[]HistoryInWindow`, `[]ReplayOnReplicatedState`, whatever `Lag` is.
  The inductive invariant is `IInv`: `TypeOK`, `OffsetsInOrder` (the replicated
  offset is below the next one, which is the length of the log), `LockExcludes`
  (the `RwLock`) and `HistoryInWindow`. The window is not inductive alone: a
  commit puts `next_tx_offset` into a queue, which is above the replicated
  offset only because of `OffsetsInOrder`. `NextTypeOK`, `NextOffsetsInOrder`,
  `NextLockExcludes` and `NextHistoryInWindow` are the steps; the properties of
  the loop in advance are `AppliedLenProperties` and `RemainderProperties`.
* `ReadsAreStable`: `Spec => TxReadsAreStable`, from `LockExcludes`.

In the same module, for `Lag = 0`:

* `ReplicatedViewCorrect`, `MemoryViewCorrect`: what reads return at the two
  levels is what the log leaves in the key. The strengthening is `LogInv`: the
  replicated state is the effect of the replicated prefix; every entry of a
  queue is the write of the transaction at its offset; and every transaction in
  memory has its entries. `Lag = 0` is what the node does as long as its last
  decided entry is the newest one; for a greater `Lag` the first property is
  false (run `datastore_lag_loses_a_write`).

`OmniPaxosProofs`, for any finite set of servers that is not empty, any number of
ballots, and any entries, whoever appends them at a leader (`PaxosSpec`):

* `PaxosInvariant`, `PaxosAgreement`, `PaxosKeepsDecided`: `PaxosSpec(Entry)` implies
  `[]PaxosInv(Entry)`, `[]DecidedAgreement` and `DecidedIsStable`. Agreement is a
  fact about logs that were written in different ballots, so the invariant speaks
  of the records of the ballots. `Local`: a log is a beginning of the log of its
  ballot, a leader still has what it sent. `ContinuesOrBlocked`: a ballot that is
  ready has adopted the first `i` entries of a lower one, or a majority has left
  that one for good without them. `ReadyIsPromised`: no ballot is ready without a
  majority. `DecidedIsChosen`: what anybody takes for decided is `Chosen`, held by a
  majority and adopted by every later ballot. `AdoptedOK` is the step that matters,
  what the log taken from a majority of promises begins with; `PaxosInvKept` is what
  the other steps have in common.

`ClusterProofs`, in its first part, whatever the `Discipline` is:

* `TypeCorrect`: `Spec => []TypeOK` of `Cluster`. The replay loop is a recursive
  function; `ReplayLoop` gets its turns from the least length at which there would
  be none.
* `ClusterUsesPaxos`: `Spec => PaxosSpec(DatabaseLogEntry)`. Nodes and clients do
  nothing to omnipaxos but what omnipaxos does, hence `LogsAgree` (`[]DecidedAgreement`)
  and `DecidedStays` (`DecidedIsStable`): what run `cluster_free` checks.
* `AppliedIsReplicated`: `Spec => []LastAppliedIsReplicated`: two copies of a number,
  one in the node and one in its datastore, that no code compares.

In its second part, with the hypothesis `Disciplined`, that is all five disciplines
and `DecidedSlack = 1` (`PollsDoNotPanic` needs one of them only). Run `cluster_disciplined` is an instance of it; section 2 says
which property fails without which of them.

* `DisciplinedInvariant`: `[]DisciplinedInv`. A node is `Level` (nothing in memory, the
  first `a` entries of its log in the replicated state) or, a leader only, `Ahead`
  by the last entry of its log. `NodeLeads` is the heart of it: where a leader
  adopted entries that its datastore does not have, `got_promoted_leader` is set, so
  that they are replayed and not advanced over; and where it is set for no reason
  (a leader that was elected again, with a Prepare that lasts: `LedSince`), it does
  no harm. `NodePolled` is what prompt polls give, `LogsQuiet` what is true of the
  logs with one entry in flight, `FirstInv` what is special about the first
  transaction, which everybody reads as decided too early.
* `OffsetsArePositions`, `ReplicatedReadsLog`, `MemoryReadsLog`, `FollowersHaveNoDiffs`,
  `ReplicatedIsCommitted`: `[]OffsetIsPosition`, `[]ReplicatedStateIsLogPrefix`,
  `[]MemoryStateIsLogPrefix`, `[]NoDiffsAtFollower`, `[]WatermarkIsCommitted`, each
  from `DisciplinedInv`.
* `PollsDoNotPanic`: `FirstTxEverywhere \in Discipline => (Spec => []NoPanic)`, with late
  polls, transactions in flight and whatever label `read` gives. `FirstTxInv` has
  three phases: `BeforeFirst`, there is nothing to apply; `DuringFirst`, all servers are
  in the ballot of the leader that committed the only transaction, none leaves it,
  and that leader has a current offset; `AfterFirst`, every server has decided and
  applied something, so that (`Sound`) its datastore has a current offset even where
  a replay failed. Run `cluster_promoted_empty` is what happens without the hypothesis.
* `ImplementsDatabase`: `Spec => ImplementsReplicatedDatabase`. `SentInv` is added: the
  first entry of a log is the first transaction, and what a leader has sent as
  decided is decided at itself, so that a follower never learns of a longer
  decided log than the leader knows. `ChosenGrows`: `ChosenLog` changes by one
  transaction at its end (it rests on agreement and on decided logs that stay).
  `ViewFacts`: what a node shows is what a prefix of it leaves, and by `LogLeavesOne` a
  prefix leaves one thing only. `PollRefines` maps `Apply` to the database's own step at
  that server, `StepRefines` every other step to a choice or to nothing.

`NodeLocksProofs`:

* `GuardsAreNeverGivenBack`: `Spec => WaitIsForever`. Whoever waits for the
  `RwLock` has the mutex, and each step that gives a guard back needs it. It uses
  `TypeCorrect` of that module.

`TransportProofs`, for any set of nodes and any size of channel:

* `TypeCorrect`: no channel holds more than its bound, and a runner has messages
  left exactly while it looks up or sends.
* `JamLasts`: `Spec => JamIsForever`. Whoever is in the jam can only `Send`, for
  which there is no room; whoever is not cannot take from those channels.
* `ConnectionsCorrect`, `ReconnectCorrect`: `Spec => []ConnectionsAreKept`,
  `Spec => ReconnectConnectsAll`. The properties only speak of the controller at
  the end of a call; `ControlInv` says what holds at each point of its calls:
  which links are in its hands, which nodes are already reconnected.
* `OrderCorrect`: `Spec => []LinksKeepOrder`. `OrderInv` splits the messages of a
  link into those in the channel and those left to send: each part is in
  order, the first part is older than the second (`Before`), all are newer than
  the last one taken, and those of a link that may not lose any are in one of
  the parts. It needs that messages are in the channel of their receiver
  (`Addressed`), that a node's numbers only grow (`NumbersKnown`), and that a link
  that was never cut is connected (`CutKnown`). `LinkSkips`, `LinkDelivers`,
  `LinkPassed`, `LinkReceives`, `LinkMakes` are the things that can happen to one
  link; one lemma per action says which of them happens to which.

`FileDurabilityProofs`, for any size of channel and any number of transactions and
restarts. `TypeCorrect` holds for any number of handles; the other three assume
`OneLog`: one handle, and a log that is only read after a restart. Without it
`FileIsAppendOnly` is false (run `filedurability_restart`; a second handle's writer
creates the file anew in the same way).

* `ReportsSurvive`, `AppendOnly`: `Spec => []ReportedSurvives`,
  `Spec => FileIsAppendOnly`. `LogInv` has two parts: the one writer there ever is
  finds the file empty and stays at its end (`WriterAtEnd`); what it holds and what
  it has sent are in the file (`ReportsWritten`), and so is, but for 0, what was
  reported and what is cached (`WatermarkWritten`). For what is read of the file
  `WatermarkWritten` adds that there is no hole in it, so that the last entry iter
  yields is one that was written (`LastIsEntry`). `Wrote` says that a write at the
  cursor is then an append.
* `WrittenOnce`: `Spec => []EachWrittenOnce`. `OnceInv` says that tasks, channel and
  file share no offset and have none twice (`Apart`), that theirs were all given out
  (`Known`: a new offset is in none of them), that no writer or forwarder ends while
  the mutex is not poisoned (`Going`), and that until then none is lost
  (`NoneLost`). `AppendOnce`, `SendOnce` and `WriteOnce` are the steps that move an
  entry.

`TxDataSerdeProofs`, for any transactions and any number of entries, with the
hypothesis `OffsetsFit`: the offsets that are given out are below 2^64, as those of
an `u64` are (with others `to_le_bytes` would write another number, and
`IterYieldsWritten` would be false):

* `TypeCorrect`, `EntriesAreRead`, `ReplayedAsCommitted`: `Spec => []TypeOK`,
  `[]IterYieldsWritten`, `[]ReplayIsCommit`. Two facts are proved of each reader, from
  `read_varint` up to a whole log entry. `Reads(R, w, v)`: of the bytes `w` that
  its writer makes of `v` it reads `v` and leaves nothing. `Reader(R, V)`: it does not
  look beyond what it reads, so with more bytes behind it returns the same value,
  and those bytes too. `ThenReader`, `ItemsReader`, `ListReader`, `ListReads` and the like
  carry both from a reader to those made of it, so that a new field costs two
  lemmas. `IterInFront` follows: an entry is read in front of anything. And
  `IterNone`: of a part of an entry nothing is read, or else the whole would leave
  bytes over. `ReplayOfCommit` is the other half: whatever order the keys of a
  diff come in, the loops of `replay_transaction` put it together again.
* The inductive invariant is `IInv`. `FileInv`: behind the entries that are written
  the file has the first bytes of the one being written, never all, and `src` has
  the others; `IterYieldsWritten` alone says nothing of those bytes. `OffsetInv` and
  `DiffInv`: every offset is given once, so that a later commit does not change
  what an earlier entry has to be replayed to. `EntryInv`: types and bounds.
* Readers and `Iter` are recursive functions whose value has to be proved, as
  the prover knows a recursive function only as a CHOOSE: `Recursion` gives the
  function for any recursion along which some size gets smaller, by a least
  counterexample, `UpRecursion` for one over numbers.

Both `IInv`, both `LogInv`, `ControlInv`, `OrderInv`, `OnceInv`, `PaxosInv`,
`DisciplinedInv`, `SentInv` and every property proved were checked with TLC on the instances above before
they were proved.

What is assumed of the constants: that `Server` is finite and not empty (a cluster
has its nodes), that `NoLeader` is no server, that what a log file is to hold is of the
types that `tx_data.rs` gives it, and that the bounds are numbers. The
bounds stay as guards of the actions in the theorems, but for every value of
them: what is proved has no bound on ballots or transactions.

Only model-checked: all liveness (`CatchesUp`, `Converges`, `TrafficSettles`,
`UncontendedCallsReturn`, `EveryAppendIsWritten`), for which the prover lacks `ENABLED`,
hence fairness. Every invariant and every other action property that a run
checks, and the refinement, is also a theorem. Induction is out of the prover's
reach as a rule (it takes an operator as a parameter); where the proofs need it (the
replay loop, majorities, greatest elements, the readers) they take a least
counterexample (`LeastElement`, `SizeInduction`, `UpTo`), and `LogLeaves` says what a
log leaves in a key by its last write, without recursion.

## 5. What the runs found

1. **A watermark behind the newest transaction loses a write**
   (`example_datastore.rs:139`). `advance` takes an entry out of its queue before
   it compares the offset and does not put it back. No test has two transactions
   in flight when the first is decided.
2. **Two transactions with the same offset** (`node/mod.rs:279`). A new leader
   gives out `next_tx_offset` of a store that has not applied what it adopted.
3. **A panic at an empty promoted leader** (`node/mod.rs:215`).
4. **A log that is not append-only** (`example_durability.rs:73`). The writer
   truncates the file when it starts, after a restart or in a second clone.

Two ways in which a node stops for ever are stated by properties that hold:
the runner and a client wait for each other when a poll meets an open transaction
(`node/mod.rs:77`, `WaitIsForever`; the comment at `example_datastore.rs:366` warns of
the same thread only), and runners whose channels are full of each other's
messages wait for each other (`node/mod.rs:61`, `JamIsForever`), which takes
10000 messages at once in the code.

Not checked by a run of its own, but shown by TLC when the named property or
discipline is changed:

* **A watermark without its entry** (`example_durability.rs:136`). Of a file that
  has just been created `get_durable_tx_offset` reports offset 0, as of one that
  has the first entry, and caches it: `reported \subseteq Entries`, which is
  `ReportedSurvives` without its exception, fails after `AppendTx`, `CreateFile`,
  `GetDurableTxOffset`. `durability/mod.rs:26` calls the result "the durability
  watermark i.e., where in the log the entry is guaranteed to be durable."
* **A watermark that is not one** (`example_durability.rs:118`). Entries are written
  in the order in which their tasks run, so that nothing follows for the offsets
  below a reported one: `\A r \in reported \ {0} : 0 .. r \subseteq Entries` fails with two
  transactions, of which the second is sent first.
* **A follower that skips the first transaction** (`node/mod.rs:230`). No offset and
  offset 0 are the same to `iter_starting_from_offset`: a follower that is sent
  the log with its first entry already decided never replays that entry. Leave
  `FirstTxEverywhere` out of `cluster_converges`, with one election: `Converges`
  fails.
* **A lost leadership that goes unnoticed** (`node/mod.rs:185`). A node that was
  elected, took a commit and was deposed before its first poll takes the new
  leader for the first one it sees and rolls nothing back. Check
  `NoDiffsAtFollower` in `cluster_eager_client` with only `BallotsSeen` and `QuietSync`.

Noticed on the way and visible in the definitions: a leader that is deposed and elected again between two polls rolls nothing back,
because leaders are compared and not ballots (`node/mod.rs:159`; leave
`BallotsSeen` out of `cluster_disciplined`);
`iter()` is documented to start at the beginning and leaves out the first entry
(`omnipaxos_durability.rs:128-130`); with decided index 0 the first entry counts
as decided as soon as it exists (`:114-124`), and because the loop of
`iter_starting_from_offset` runs to the decided index inclusive, a follower may
apply one undecided entry (`:142`); the data assertion of `check_replication`
(`tests.rs:738`) compares a value with itself.

## 6. Not modelled, and the plan

Not modelled: texts and printing, `DatastoreError` (values, texts and
conversions, without state), byte counts (`received_messages_size`), the serde
derives that omnipaxos and the byte counts use, the `main` function; wall-clock
time (see `Discipline` and the fairness of `Transport`); two threads that
delete or reconnect at the same time, as the tests call both from one thread;
`open_log_file` and `close_log_file`, which nobody calls.

Done, in this order: `CommittedState`, `Datastore` and its proofs; `OmniPaxos`,
`OmniPaxosDurability`, `Cluster`; the abstract `ReplicatedDatabase` and the
refinement; `NodeLocks` and its proofs; `FileDurability` and its proofs;
`Transport` and its proofs; `TxDataSerde`; `OmniPaxosProofs`; `ClusterProofs` with the
refinement; `TxDataSerdeProofs`.

Left: the other theorems of the second part of `ClusterProofs` from fewer disciplines
each, where the table in section 2 leaves room; and the omnipaxos crate at the
version the repository pins, in place of what `src/` shows of it.
