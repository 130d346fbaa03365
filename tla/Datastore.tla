------------------------------ MODULE Datastore ------------------------------
(***************************************************************************)
(* ExampleDatastore under every legal sequence of calls: read-only and     *)
(* mutable transactions of several clients, and the three calls of the     *)
(* node (advance, rollback, replay). A Tx holds the read guard of the      *)
(* RwLock for as long as it lives, a MutTx the write guard; the node's     *)
(* calls take the write guard for the duration of the call.                *)
(*                                                                         *)
(* tx_log is a history variable: the transaction log of README_template,   *)
(* without the transactions that were rolled back. The code does not keep  *)
(* it; the properties relate what the code does keep to it.                *)
(***************************************************************************)
EXTENDS CommittedState, FiniteSets

CONSTANTS
  Client,      \* the owners of Tx and MutTx values
  MaxOffset,   \* bound: transactions with offsets below MaxOffset only
  Lag          \* how far behind the newest transaction a watermark may be

ASSUME LagAssumption == Lag \in Nat
ASSUME MaxOffsetAssumption == MaxOffset \in Nat

VARIABLES
  committed_state,  \* the record of CommittedState.tla
  tx,               \* what each client holds: None, a level, or Mut
  diff,             \* MutTx.diff of the open MutTx
  tx_log            \* history: the TxData by offset (offset o at o + 1)

vars == <<committed_state, tx, diff, tx_log>>

None == "None"
Mut == "Mut"
NoDiff == [k \in {} |-> NoValue]

CanRead == \A c \in Client : tx[c] # Mut
CanWrite == \A c \in Client : tx[c] = None

TypeOK ==
  /\ committed_state \in CommittedStateType
  /\ tx \in [Client -> DurabilityLevel \cup {None, Mut}]
  /\ diff \in Diffs
  /\ tx_log \in Seq(TxData)

Init ==
  /\ committed_state = Fresh
  /\ tx = [c \in Client |-> None]
  /\ diff = NoDiff
  /\ tx_log = << >>

-----------------------------------------------------------------------------
\* begin_tx: read_arc waits for the writer only.
BeginTx(c, level) ==
  /\ tx[c] = None
  /\ CanRead
  /\ tx' = [tx EXCEPT ![c] = level]
  /\ UNCHANGED <<committed_state, diff, tx_log>>

\* release_tx, or the Tx goes out of scope.
ReleaseTx(c) ==
  /\ tx[c] \in DurabilityLevel
  /\ tx' = [tx EXCEPT ![c] = None]
  /\ UNCHANGED <<committed_state, diff, tx_log>>

\* begin_mut_tx: write_arc waits for every guard.
BeginMutTx(c) ==
  /\ CanWrite
  /\ tx' = [tx EXCEPT ![c] = Mut]
  /\ diff' = NoDiff
  /\ UNCHANGED <<committed_state, tx_log>>

\* MutTx::get, reads its own writes first.
MutTxGet(k) == IF k \in DOMAIN diff THEN diff[k] ELSE Get(committed_state, k, Memory)

Write(k, v) == [j \in DOMAIN diff \cup {k} |-> IF j = k THEN v ELSE diff[j]]

\* MutTx::set
SetMutTx(c, k, v) ==
  /\ tx[c] = Mut
  /\ diff' = Write(k, v)
  /\ UNCHANGED <<committed_state, tx, tx_log>>

\* MutTx::delete: what it returns is MutTxGet(k); a key that exists nowhere
\* gets its Diff::Delete all the same.
DeleteMutTx(c, k) ==
  /\ tx[c] = Mut
  /\ diff' = Write(k, NoValue)
  /\ UNCHANGED <<committed_state, tx, tx_log>>

CommitMutTx(c) ==
  /\ tx[c] = Mut
  /\ committed_state.next_tx_offset < MaxOffset
  /\ committed_state' = Commit(committed_state, diff)
  /\ tx_log' = Append(tx_log, TxDataOf(diff))
  /\ tx' = [tx EXCEPT ![c] = None]
  /\ diff' = NoDiff

\* rollback_mut_tx: the MutTx is dropped and its diff with it.
RollbackMutTx(c) ==
  /\ tx[c] = Mut
  /\ tx' = [tx EXCEPT ![c] = None]
  /\ diff' = NoDiff
  /\ UNCHANGED <<committed_state, tx_log>>

-----------------------------------------------------------------------------
AdvanceReplicatedDurabilityOffset_MutNoLock(watermark) ==
  /\ watermark >= 0
  /\ watermark >= committed_state.replicated_tx_offset
  /\ watermark < committed_state.next_tx_offset
  /\ committed_state.next_tx_offset - 1 - watermark <= Lag
  /\ committed_state' = Advance(committed_state, watermark)
  /\ UNCHANGED <<tx, diff, tx_log>>

(***************************************************************************)
(* advance_replicated_durability_offset. The code accepts any offset; a    *)
(* watermark is the offset of a transaction this datastore has committed,  *)
(* it never moves back, and it is at most Lag transactions behind.         *)
(***************************************************************************)
AdvanceReplicatedDurabilityOffset(watermark) ==
  /\ CanWrite
  /\ watermark >= 0
  /\ watermark >= committed_state.replicated_tx_offset
  /\ watermark < committed_state.next_tx_offset
  /\ committed_state.next_tx_offset - 1 - watermark <= Lag
  /\ committed_state' = Advance(committed_state, watermark)
  /\ UNCHANGED <<tx, diff, tx_log>>

RollbackToReplicatedDurabilityOffset ==
  /\ CanWrite
  /\ committed_state' = Rollback(committed_state)
  /\ tx_log' = SubSeq(tx_log, 1, committed_state.replicated_tx_offset + 1)
  /\ UNCHANGED <<tx, diff>>

\* replay_transaction, whose error return changes nothing.
ReplayTransaction(data) ==
  /\ CanWrite
  /\ CanReplay(committed_state)
  /\ committed_state.next_tx_offset < MaxOffset
  /\ committed_state' = Replay(committed_state, data)
  /\ tx_log' = Append(tx_log, data)
  /\ UNCHANGED <<tx, diff>>

Next ==
  \/ \E c \in Client :
       \/ \E level \in DurabilityLevel : BeginTx(c, level)
       \/ ReleaseTx(c)
       \/ BeginMutTx(c)
       \/ \E k \in Key : \/ \E v \in Value : SetMutTx(c, k, v)
                         \/ DeleteMutTx(c, k)
       \/ CommitMutTx(c)
       \/ RollbackMutTx(c)
  \/ \E watermark \in 0 .. committed_state.next_tx_offset :
       AdvanceReplicatedDurabilityOffset(watermark)
  \/ RollbackToReplicatedDurabilityOffset
  \/ \E d \in Diffs : ReplayTransaction(TxDataOf(d))

Spec == Init /\ [][Next]_vars

-----------------------------------------------------------------------------
(***************************************************************************)
(* The histories of committed_diff hold exactly transactions that are      *)
(* committed and not replicated: their offsets are above the replicated    *)
(* offset, below the next one, and ascend. get_latest returns the newest   *)
(* write, and the loop of advance may stop at the first entry above the    *)
(* watermark, only because of this.                                        *)
(***************************************************************************)
HistoryInWindow ==
  \A k \in Key :
    LET history == committed_state.committed_diff[k]
    IN  /\ \A i \in 1 .. Len(history) :
             /\ history[i].offset > committed_state.replicated_tx_offset
             /\ history[i].offset < committed_state.next_tx_offset
        /\ \A i, j \in 1 .. Len(history) :
             i < j => history[i].offset < history[j].offset

(***************************************************************************)
(* "You should not be able to replay a transaction on top of a state that  *)
(* is ahead of the replicated state" (replay_transaction): what the guard  *)
(* lets through finds no diff of any key and no transaction in memory, or  *)
(* the replayed write would be hidden behind an older one.                 *)
(***************************************************************************)
ReplayOnReplicatedState ==
  CanReplay(committed_state) =>
    \A k \in Key : committed_state.committed_diff[k] = << >>

(***************************************************************************)
(* README_template, "There is a replicated state determined by the         *)
(* replicated durability offset": a read at Replicated sees the log up to  *)
(* that offset.                                                            *)
(***************************************************************************)
ReplicatedViewIsLogPrefix ==
  /\ committed_state.replicated_tx_offset + 1 <= Len(tx_log)
  /\ \A k \in Key :
       LogLeaves(tx_log, committed_state.replicated_tx_offset + 1, k,
                 Get(committed_state, k, Replicated))

(***************************************************************************)
(* A read at Memory sees every transaction of the log: those replicated    *)
(* and those "currently only committed in memory".                         *)
(***************************************************************************)
MemoryViewIsLog ==
  /\ committed_state.next_tx_offset = Len(tx_log)
  /\ \A k \in Key :
       LogLeaves(tx_log, committed_state.next_tx_offset, k,
                 Get(committed_state, k, Memory))

(***************************************************************************)
(* A Tx keeps its SharedReadGuard: until it is released no call of the     *)
(* node and no MutTx changes what it reads, at either level.               *)
(***************************************************************************)
TxReadsAreStable ==
  [][\A c \in Client :
       tx[c] \in DurabilityLevel /\ tx'[c] = tx[c] =>
         \A k \in Key : Get(committed_state', k, tx[c]) = Get(committed_state, k, tx[c])]_vars
=============================================================================
