--------------------------- MODULE DatastoreProofs ---------------------------
(***************************************************************************)
(* Proofs about Datastore, for any number of keys, values, clients and     *)
(* transactions.                                                           *)
(***************************************************************************)
EXTENDS Datastore, CommittedStateProofs

-----------------------------------------------------------------------------
(***************************************************************************)
(* The inductive invariant at any Lag. The history is as long as the       *)
(* offsets say, which is what a rollback cuts it by; and the lock excludes *)
(* a MutTx and any other transaction from each other.                      *)
(***************************************************************************)
OffsetsInOrder ==
  /\ committed_state.replicated_tx_offset < committed_state.next_tx_offset
  /\ committed_state.next_tx_offset = Len(tx_log)

LockExcludes ==
  \A c, d \in Client : tx[c] = Mut /\ c # d => tx[d] = None

IInv == TypeOK /\ OffsetsInOrder /\ LockExcludes /\ HistoryInWindow

\* ExampleDatastore::new satisfies the inductive invariant.
LEMMA InitIInv == Init => IInv
<1> SUFFICES ASSUME Init PROVE IInv
  OBVIOUS
<1>1. TypeOK
  <2>1. committed_state \in CommittedStateType
    BY FreshType DEF Init
  <2>2. NoDiff \in Diffs
    BY DiffsDefinition DEF NoDiff
  <2> QED
    BY <2>1, <2>2 DEF Init, TypeOK
<1>2. OffsetsInOrder
  BY DEF Init, OffsetsInOrder, Fresh, NoOffset
<1>3. LockExcludes
  BY DEF Init, LockExcludes, None, Mut
<1>4. HistoryInWindow
  <2>1. \A k \in Key : committed_state.committed_diff[k] = << >>
    BY DEF Init, Fresh
  <2>2. Len(<< >>) = 0 /\ 1 .. 0 = {}
    OBVIOUS
  <2> QED
    BY <2>1, <2>2 DEF HistoryInWindow
<1> QED
  BY <1>1, <1>2, <1>3, <1>4 DEF IInv

\* The writes of a MutTx stay a set of writes.
LEMMA WriteType ==
  ASSUME diff \in Diffs, NEW k \in Key, NEW v \in ValueOrNone
  PROVE  Write(k, v) \in Diffs
<1>1. /\ DOMAIN diff \cup {k} \in SUBSET Key
      /\ \A j \in DOMAIN diff : diff[j] \in ValueOrNone
  BY DiffsDefinition
<1>2. Write(k, v) \in [DOMAIN diff \cup {k} -> ValueOrNone]
  BY <1>1 DEF Write
<1> QED
  BY <1>1, <1>2 DEF Diffs

\* Cutting the history back to the replicated offset.
LEMMA RolledBackLog ==
  ASSUME TypeOK, OffsetsInOrder
  PROVE  LET kept == SubSeq(tx_log, 1, committed_state.replicated_tx_offset + 1)
         IN  /\ kept \in Seq(TxData)
             /\ Len(kept) = committed_state.replicated_tx_offset + 1
             /\ \A i \in 1 .. Len(kept) : kept[i] = tx_log[i]
<1> DEFINE n == committed_state.replicated_tx_offset + 1
           kept == SubSeq(tx_log, 1, n)
<1>1. n \in Nat /\ n <= Len(tx_log) /\ tx_log \in Seq(TxData)
  BY CommittedStateParts DEF TypeOK, OffsetsInOrder
<1> HIDE DEF n
<1>2. /\ kept \in Seq(TxData)
      /\ Len(kept) = IF 1 <= n THEN n - 1 + 1 ELSE 0
      /\ \A i \in 1 .. n - 1 + 1 : kept[i] = tx_log[1 + i - 1]
  <2>1. \A i \in 1 .. n : tx_log[i] \in TxData
    BY <1>1
  <2>2. 1 \in Int /\ n \in Int
    BY <1>1
  <2> QED
    BY <2>1, <2>2, SubSeqProperties
<1> HIDE DEF kept
<1>3. kept \in Seq(TxData) /\ Len(kept) = n /\ \A i \in 1 .. Len(kept) : kept[i] = tx_log[i]
  BY <1>1, <1>2
<1> QED
  BY <1>3 DEF n, kept

\* Every operation of the Datastore keeps the type of all its variables.
LEMMA NextTypeOK ==
  ASSUME IInv, Next
  PROVE  TypeOK'
<1> USE DEF IInv
<1>1. ASSUME NEW c \in Client, NEW level \in DurabilityLevel, BeginTx(c, level)
      PROVE  TypeOK'
  BY <1>1 DEF BeginTx, TypeOK
<1>2. ASSUME NEW c \in Client, ReleaseTx(c)
      PROVE  TypeOK'
  BY <1>2 DEF ReleaseTx, TypeOK
<1>3. ASSUME NEW c \in Client, BeginMutTx(c)
      PROVE  TypeOK'
  <2>1. NoDiff \in Diffs
    BY DiffsDefinition DEF NoDiff
  <2> QED
    BY <1>3, <2>1 DEF BeginMutTx, TypeOK
<1>4. ASSUME NEW c \in Client, NEW k \in Key, NEW v \in Value, SetMutTx(c, k, v)
      PROVE  TypeOK'
  BY <1>4, WriteType DEF SetMutTx, TypeOK, ValueOrNone
<1>5. ASSUME NEW c \in Client, NEW k \in Key, DeleteMutTx(c, k)
      PROVE  TypeOK'
  BY <1>5, WriteType DEF DeleteMutTx, TypeOK, ValueOrNone
<1>6. ASSUME NEW c \in Client, CommitMutTx(c)
      PROVE  TypeOK'
  <2>1. NoDiff \in Diffs
    BY DiffsDefinition DEF NoDiff
  <2>2. committed_state' \in CommittedStateType
    BY <1>6, CommitType DEF CommitMutTx, TypeOK
  <2>3. tx_log' \in Seq(TxData)
    BY <1>6, TxDataOfType, AppendProperties DEF CommitMutTx, TypeOK
  <2> QED
    BY <1>6, <2>1, <2>2, <2>3 DEF CommitMutTx, TypeOK
<1>7. ASSUME NEW c \in Client, RollbackMutTx(c)
      PROVE  TypeOK'
  <2>1. NoDiff \in Diffs
    BY DiffsDefinition DEF NoDiff
  <2> QED
    BY <1>7, <2>1 DEF RollbackMutTx, TypeOK
<1>8. ASSUME NEW watermark \in 0 .. committed_state.next_tx_offset,
             AdvanceReplicatedDurabilityOffset(watermark)
      PROVE  TypeOK'
  <2>1. watermark \in Nat
    OBVIOUS
  <2> QED
    BY <1>8, <2>1, AdvanceType DEF AdvanceReplicatedDurabilityOffset, TypeOK
<1>9. ASSUME RollbackToReplicatedDurabilityOffset
      PROVE  TypeOK'
  BY <1>9, RollbackType, RolledBackLog DEF RollbackToReplicatedDurabilityOffset, TypeOK
<1>10. ASSUME NEW d \in Diffs, ReplayTransaction(TxDataOf(d))
       PROVE  TypeOK'
  <2>1. TxDataOf(d) \in TxData
    BY TxDataOfType
  <2>2. committed_state' \in CommittedStateType
    BY <1>10, <2>1, ReplayType DEF ReplayTransaction, TypeOK
  <2>3. tx_log' \in Seq(TxData)
    BY <1>10, <2>1, AppendProperties DEF ReplayTransaction, TypeOK
  <2> QED
    BY <1>10, <2>2, <2>3 DEF ReplayTransaction, TypeOK
<1> QED
  BY <1>1, <1>2, <1>3, <1>4, <1>5, <1>6, <1>7, <1>8, <1>9, <1>10 DEF Next

(***************************************************************************)
(* The replicated offset stays below the next one: advance only goes to    *)
(* offsets that were committed, commit and replay count up, and rollback   *)
(* resets the next offset to the successor of the replicated one.          *)
(***************************************************************************)
LEMMA NextOffsetsInOrder ==
  ASSUME IInv, Next
  PROVE  OffsetsInOrder'
<1> USE DEF IInv, OffsetsInOrder
<1>0. /\ committed_state.next_tx_offset \in Nat
      /\ committed_state.replicated_tx_offset \in Int
      /\ tx_log \in Seq(TxData)
  BY CommittedStateParts DEF TypeOK
<1>1. ASSUME UNCHANGED <<committed_state, tx_log>>
      PROVE  OffsetsInOrder'
  BY <1>1
<1>2. ASSUME NEW c \in Client, CommitMutTx(c)
      PROVE  OffsetsInOrder'
  <2>1. Len(tx_log') = Len(tx_log) + 1
    BY <1>0, <1>2, TxDataOfType, AppendProperties DEF CommitMutTx, TypeOK
  <2> QED
    BY <1>0, <1>2, <2>1 DEF CommitMutTx, Commit
<1>3. ASSUME NEW watermark \in 0 .. committed_state.next_tx_offset,
             AdvanceReplicatedDurabilityOffset(watermark)
      PROVE  OffsetsInOrder'
  BY <1>0, <1>3 DEF AdvanceReplicatedDurabilityOffset, Advance
<1>4. ASSUME RollbackToReplicatedDurabilityOffset
      PROVE  OffsetsInOrder'
  BY <1>0, <1>4, RolledBackLog DEF RollbackToReplicatedDurabilityOffset, Rollback
<1>5. ASSUME NEW d \in Diffs, ReplayTransaction(TxDataOf(d))
      PROVE  OffsetsInOrder'
  <2>1. Len(tx_log') = Len(tx_log) + 1
    BY <1>0, <1>5, TxDataOfType, AppendProperties DEF ReplayTransaction
  <2> QED
    BY <1>0, <1>5, <2>1 DEF ReplayTransaction, Replay
<1> QED
  BY <1>1, <1>2, <1>3, <1>4, <1>5
  DEF Next, BeginTx, ReleaseTx, BeginMutTx, SetMutTx, DeleteMutTx, RollbackMutTx

\* The lock: BeginTx waits for the writer, BeginMutTx for everybody.
LEMMA NextLockExcludes ==
  ASSUME IInv, Next
  PROVE  LockExcludes'
<1> USE DEF IInv, LockExcludes, TypeOK
<1>1. ASSUME UNCHANGED tx
      PROVE  LockExcludes'
  BY <1>1
<1>2. ASSUME NEW c \in Client, NEW level \in DurabilityLevel, BeginTx(c, level)
      PROVE  LockExcludes'
  BY <1>2 DEF BeginTx, CanRead, DurabilityLevel, Memory, Replicated, Mut
<1>3. ASSUME NEW c \in Client, tx' = [tx EXCEPT ![c] = None]
      PROVE  LockExcludes'
  BY <1>3 DEF None, Mut
<1>4. ASSUME NEW c \in Client, BeginMutTx(c)
      PROVE  LockExcludes'
  BY <1>4 DEF BeginMutTx, CanWrite, None, Mut
<1> QED
  BY <1>1, <1>2, <1>3, <1>4
  DEF Next, ReleaseTx, SetMutTx, DeleteMutTx, CommitMutTx, RollbackMutTx,
      AdvanceReplicatedDurabilityOffset, RollbackToReplicatedDurabilityOffset,
      ReplayTransaction

-----------------------------------------------------------------------------
(***************************************************************************)
(* HistoryInWindow, one history at a time.                                 *)
(***************************************************************************)
InWindow(history, replicated, next) ==
  /\ \A i \in 1 .. Len(history) : /\ history[i].offset > replicated
                                  /\ history[i].offset < next
  /\ \A i, j \in 1 .. Len(history) : i < j => history[i].offset < history[j].offset

\* HistoryInWindow, one history at a time.
LEMMA HistoryInWindowDefinition ==
  HistoryInWindow <=>
    \A k \in Key : InWindow(committed_state.committed_diff[k],
                            committed_state.replicated_tx_offset,
                            committed_state.next_tx_offset)
BY DEF HistoryInWindow, InWindow

\* Commit appends the next offset, which is above all others.
LEMMA AppendInWindow ==
  ASSUME NEW history \in Seq(HistoryEntry), NEW replicated \in Int, NEW next \in Nat,
         NEW v \in ValueOrNone, InWindow(history, replicated, next), replicated < next
  PROVE  InWindow(Append(history, [offset |-> next, diff |-> v]), replicated, next + 1)
<1> DEFINE e == [offset |-> next, diff |-> v]
           longer == Append(history, e)
<1>1. e \in HistoryEntry
  BY DEF HistoryEntry, Offset
<1>2. /\ Len(history) \in Nat
      /\ Len(longer) = Len(history) + 1
      /\ \A i \in 1 .. Len(history) : longer[i] = history[i]
      /\ longer[Len(history) + 1] = e
  BY <1>1, AppendProperties
<1>3. e.offset = next
  OBVIOUS
<1>4. \A i \in 1 .. Len(history) : history[i].offset \in Nat
  BY HistoryParts
<1> HIDE DEF longer, e
<1>5. \A i \in 1 .. Len(longer) : /\ longer[i].offset > replicated
                                  /\ longer[i].offset < next + 1
  BY <1>2, <1>3, <1>4 DEF InWindow
<1>6. ASSUME NEW i \in 1 .. Len(longer), NEW j \in 1 .. Len(longer), i < j
      PROVE  longer[i].offset < longer[j].offset
  BY <1>2, <1>3, <1>4, <1>6 DEF InWindow
<1> QED
  BY <1>5, <1>6 DEF InWindow, longer, e

\* Advance leaves entries above the watermark only.
LEMMA RemainderInWindow ==
  ASSUME NEW history \in Seq(HistoryEntry), NEW replicated \in Int, NEW next \in Nat,
         NEW watermark \in Nat, InWindow(history, replicated, next)
  PROVE  InWindow(SubSeq(history, AppliedLen(history, watermark) + 2, Len(history)),
                  watermark, next)
<1> DEFINE n == AppliedLen(history, watermark)
           rest == SubSeq(history, n + 2, Len(history))
<1>0. watermark \in Int
  OBVIOUS
<1>1. /\ n \in 0 .. Len(history)
      /\ n < Len(history) => history[n + 1].offset > watermark
  BY <1>0, AppliedLenProperties, Zenon
<1>2. /\ Len(rest) \in 0 .. Len(history)
      /\ \A i \in 1 .. Len(rest) : /\ n + 1 + i \in 1 .. Len(history)
                                   /\ rest[i] = history[n + 1 + i]
  BY <1>1, RemainderProperties
<1>3. Len(history) \in Nat /\ \A i \in 1 .. Len(history) : history[i].offset \in Nat
  BY HistoryParts
<1> HIDE DEF n, rest
<1>4. \A i \in 1 .. Len(rest) : rest[i].offset > watermark /\ rest[i].offset < next
  <2> TAKE i \in 1 .. Len(rest)
  <2>1. n + 1 \in 1 .. Len(history) /\ n + 1 < n + 1 + i /\ n < Len(history)
    BY <1>1, <1>2, <1>3
  <2>2. history[n + 1].offset < history[n + 1 + i].offset
    BY <1>2, <2>1 DEF InWindow
  <2>3. /\ history[n + 1].offset > watermark
        /\ history[n + 1].offset \in Nat /\ history[n + 1 + i].offset \in Nat
        /\ rest[i] = history[n + 1 + i]
    BY <1>1, <1>2, <1>3, <2>1
  <2>4. history[n + 1 + i].offset < next
    BY <1>2 DEF InWindow
  <2> QED
    BY <2>2, <2>3, <2>4
<1>5. ASSUME NEW i \in 1 .. Len(rest), NEW j \in 1 .. Len(rest), i < j
      PROVE  rest[i].offset < rest[j].offset
  <2>1. i \in Int /\ j \in Int /\ n \in Int
    BY <1>1, <1>2
  <2>2. n + 1 + i < n + 1 + j
    BY <1>5, <2>1
  <2>3. history[n + 1 + i].offset < history[n + 1 + j].offset
    BY <1>2, <2>2 DEF InWindow
  <2> QED
    BY <1>2, <2>3
<1> QED
  BY <1>4, <1>5 DEF InWindow, n, rest

\* A datastore with a transaction in memory only cannot replay; one without
\* has no history.
LEMMA CanReplayEmpty ==
  ASSUME TypeOK, HistoryInWindow, CanReplay(committed_state)
  PROVE  \A k \in Key : committed_state.committed_diff[k] = << >>
<1> TAKE k \in Key
<1> DEFINE history == committed_state.committed_diff[k]
<1>1. /\ committed_state.next_tx_offset = committed_state.replicated_tx_offset + 1
      /\ committed_state.replicated_tx_offset \in Int
      /\ history \in Seq(HistoryEntry)
      /\ \A i \in 1 .. Len(history) : history[i].offset \in Nat
  BY CommittedStateParts DEF CanReplay, TypeOK
<1>2. \A i \in 1 .. Len(history) : /\ history[i].offset > committed_state.replicated_tx_offset
                                   /\ history[i].offset < committed_state.next_tx_offset
  BY DEF HistoryInWindow
<1>3. Len(history) = 0
  <2>1. Len(history) \in Nat
    BY <1>1
  <2>2. SUFFICES ASSUME Len(history) > 0 PROVE FALSE
    BY <2>1
  <2>3. 1 \in 1 .. Len(history)
    BY <2>1, <2>2
  <2> HIDE DEF history
  <2> QED
    BY <1>1, <1>2, <2>3
<1> QED
  BY <1>1, <1>3

(***************************************************************************)
(* The histories stay in the window: commit appends at its upper end,      *)
(* advance raises the lower end and drops what falls below it, rollback    *)
(* empties them, and replay, which moves both ends, runs only when they    *)
(* are empty.                                                              *)
(***************************************************************************)
LEMMA NextHistoryInWindow ==
  ASSUME IInv, Next
  PROVE  HistoryInWindow'
<1> USE DEF IInv
<1> DEFINE cs == committed_state
<1>0. /\ cs \in CommittedStateType
      /\ cs.next_tx_offset \in Nat /\ cs.replicated_tx_offset \in Int
      /\ cs.replicated_tx_offset < cs.next_tx_offset
      /\ \A k \in Key : /\ cs.committed_diff[k] \in Seq(HistoryEntry)
                        /\ InWindow(cs.committed_diff[k], cs.replicated_tx_offset,
                                    cs.next_tx_offset)
  BY CommittedStateParts, HistoryInWindowDefinition DEF TypeOK, OffsetsInOrder
<1>1. ASSUME UNCHANGED committed_state
      PROVE  HistoryInWindow'
  BY <1>1 DEF HistoryInWindow
<1>2. ASSUME NEW c \in Client, CommitMutTx(c)
      PROVE  HistoryInWindow'
  <2>1. \A k \in DOMAIN diff : k \in Key /\ diff[k] \in ValueOrNone
    BY DiffsDefinition DEF TypeOK
  <2>2. ASSUME NEW k \in Key
        PROVE  InWindow(cs'.committed_diff[k], cs.replicated_tx_offset,
                        cs.next_tx_offset + 1)
    <3>1. CASE k \in DOMAIN diff
      BY <1>0, <1>2, <2>1, <3>1, AppendInWindow DEF CommitMutTx, Commit
    <3>2. CASE k \notin DOMAIN diff
      <4>1. cs'.committed_diff[k] = cs.committed_diff[k]
        BY <1>2, <3>2 DEF CommitMutTx, Commit
      <4>2. \A i \in 1 .. Len(cs.committed_diff[k]) :
              cs.committed_diff[k][i].offset \in Nat
        BY <1>0, CommittedStateParts
      <4> QED
        BY <1>0, <4>1, <4>2 DEF InWindow
    <3> QED
      BY <3>1, <3>2
  <2>3. /\ cs'.replicated_tx_offset = cs.replicated_tx_offset
        /\ cs'.next_tx_offset = cs.next_tx_offset + 1
    BY <1>2 DEF CommitMutTx, Commit
  <2> QED
    BY <2>2, <2>3 DEF HistoryInWindow, InWindow
<1>3. ASSUME NEW watermark \in 0 .. committed_state.next_tx_offset,
             AdvanceReplicatedDurabilityOffset(watermark)
      PROVE  HistoryInWindow'
  <2>1. /\ cs'.replicated_tx_offset = watermark
        /\ cs'.next_tx_offset = cs.next_tx_offset
        /\ \A k \in Key : cs'.committed_diff[k] =
             SubSeq(cs.committed_diff[k], AppliedLen(cs.committed_diff[k], watermark) + 2,
                    Len(cs.committed_diff[k]))
    BY <1>3 DEF AdvanceReplicatedDurabilityOffset, Advance
  <2>2. \A k \in Key : InWindow(cs'.committed_diff[k], watermark, cs.next_tx_offset)
    <3> TAKE k \in Key
    <3>1. watermark \in Nat
      BY <1>0
    <3>2. InWindow(SubSeq(cs.committed_diff[k],
                          AppliedLen(cs.committed_diff[k], watermark) + 2,
                          Len(cs.committed_diff[k])), watermark, cs.next_tx_offset)
      BY <1>0, <3>1, RemainderInWindow
    <3> QED
      BY <2>1, <3>2
  <2> QED
    BY <2>1, <2>2 DEF HistoryInWindow, InWindow
<1>4. ASSUME RollbackToReplicatedDurabilityOffset
      PROVE  HistoryInWindow'
  <2>1. \A k \in Key : cs'.committed_diff[k] = << >>
    BY <1>4 DEF RollbackToReplicatedDurabilityOffset, Rollback
  <2> QED
    BY <2>1 DEF HistoryInWindow
<1>5. ASSUME NEW d \in Diffs, ReplayTransaction(TxDataOf(d))
      PROVE  HistoryInWindow'
  <2>1. \A k \in Key : cs'.committed_diff[k] = << >>
    BY <1>5, CanReplayEmpty DEF ReplayTransaction, Replay
  <2> QED
    BY <2>1 DEF HistoryInWindow
<1> QED
  BY <1>1, <1>2, <1>3, <1>4, <1>5
  DEF Next, BeginTx, ReleaseTx, BeginMutTx, SetMutTx, DeleteMutTx, RollbackMutTx

\* A step that changes nothing keeps the invariant.
LEMMA StutterIInv ==
  ASSUME IInv, UNCHANGED vars
  PROVE  IInv'
BY DEF IInv, vars, TypeOK, OffsetsInOrder, LockExcludes, HistoryInWindow

(***************************************************************************)
(* Type, order of the offsets, exclusion by the RwLock and window of the   *)
(* histories hold in every reachable state. The window needs the order: an *)
(* entry gets next_tx_offset, which has to be above the replicated offset. *)
(* What a held Tx keeps out rests on the exclusion.                        *)
(***************************************************************************)
THEOREM InductiveInvariant == Spec => []IInv
<1>1. IInv /\ [Next]_vars => IInv'
  BY NextTypeOK, NextOffsetsInOrder, NextLockExcludes, NextHistoryInWindow, StutterIInv
  DEF IInv
<1> QED
  BY InitIInv, <1>1, PTL DEF Spec

(***************************************************************************)
(* Whatever sequence of calls the node and its clients make, the state of  *)
(* ExampleDatastore keeps its type.                                        *)
(***************************************************************************)
THEOREM TypeCorrect == Spec => []TypeOK
<1>1. IInv => TypeOK
  BY DEF IInv
<1> QED
  BY <1>1, InductiveInvariant, PTL

(***************************************************************************)
(* For any lag of the watermark, the history of every key holds offsets    *)
(* above the replicated one and below next_tx_offset, oldest first, as Get *)
(* and advance_replicated_durability_offset assume.                        *)
(***************************************************************************)
THEOREM HistoryCorrect == Spec => []HistoryInWindow
<1>1. IInv => HistoryInWindow
  BY DEF IInv
<1> QED
  BY <1>1, InductiveInvariant, PTL

(***************************************************************************)
(* The guard of replay_transaction (next_tx_offset against the replicated  *)
(* offset) is enough to keep it from a key that has a diff.                *)
(***************************************************************************)
THEOREM ReplayCorrect == Spec => []ReplayOnReplicatedState
<1>1. IInv => ReplayOnReplicatedState
  BY CanReplayEmpty DEF IInv, ReplayOnReplicatedState
<1> QED
  BY <1>1, InductiveInvariant, PTL

(***************************************************************************)
(* A step that changes the committed state took the write guard, or ended  *)
(* a MutTx; neither is possible while a Tx is held.                        *)
(***************************************************************************)
LEMMA HeldTxBlocksWrites ==
  ASSUME IInv, Next, NEW c \in Client, tx[c] \in DurabilityLevel
  PROVE  UNCHANGED committed_state
<1>1. tx[c] # None /\ tx[c] # Mut
  BY DEF DurabilityLevel, Memory, Replicated, None, Mut
<1>2. ASSUME NEW d \in Client, CommitMutTx(d)
      PROVE  FALSE
  BY <1>1, <1>2 DEF CommitMutTx, IInv, LockExcludes
<1>3. ~CanWrite
  BY <1>1 DEF CanWrite
<1> QED
  BY <1>2, <1>3
  DEF Next, BeginTx, ReleaseTx, BeginMutTx, SetMutTx, DeleteMutTx, RollbackMutTx,
      AdvanceReplicatedDurabilityOffset, RollbackToReplicatedDurabilityOffset,
      ReplayTransaction

(***************************************************************************)
(* While a client holds a Tx, nothing the node or another client does      *)
(* changes what it reads: whatever changes the state needs the RwLock.     *)
(***************************************************************************)
THEOREM ReadsAreStable == Spec => TxReadsAreStable
<1> DEFINE Stable == \A c \in Client :
             tx[c] \in DurabilityLevel /\ tx'[c] = tx[c] =>
               \A k \in Key : Get(committed_state', k, tx[c]) = Get(committed_state, k, tx[c])
<1>1. IInv /\ [Next]_vars => [Stable]_vars
  <2>1. IInv /\ Next => Stable
    <3> SUFFICES ASSUME IInv, Next, NEW c \in Client, tx[c] \in DurabilityLevel
                 PROVE  \A k \in Key : Get(committed_state', k, tx[c])
                                         = Get(committed_state, k, tx[c])
      OBVIOUS
    <3> QED
      BY HeldTxBlocksWrites
  <2> HIDE DEF Stable
  <2> QED
    BY <2>1
<1>2. Spec => [][Stable]_vars
  <2> HIDE DEF Stable
  <2> QED
    BY <1>1, InductiveInvariant, PTL DEF Spec
<1> QED
  BY <1>2 DEF TxReadsAreStable

-----------------------------------------------------------------------------
(***************************************************************************)
(* What reads return, when every watermark is the offset of the newest     *)
(* transaction (Lag = 0). With a greater Lag ReplicatedViewIsLogPrefix is  *)
(* false of the code: see datastore_lag_loses_a_write.cfg.                 *)
(***************************************************************************)

(***************************************************************************)
(* The replicated state is the prefix of the log, and the histories are    *)
(* the rest of it: every entry is the write of the transaction at its      *)
(* offset, and every transaction in memory has its entries.                *)
(***************************************************************************)
PrefixReplicated(cs, log) ==
  \A k \in Key : LogLeaves(log, cs.replicated_tx_offset + 1, k, cs.replicated_state[k])

EntriesAreWrites(cs, log) ==
  \A k \in Key : \A i \in 1 .. Len(cs.committed_diff[k]) :
    Writes(log[cs.committed_diff[k][i].offset + 1], k, cs.committed_diff[k][i].diff)

WritesAreEntries(cs, log) ==
  \A k \in Key : \A o \in cs.replicated_tx_offset + 2 .. Len(log) :
    Touches(log[o], k) =>
      \E i \in 1 .. Len(cs.committed_diff[k]) : cs.committed_diff[k][i].offset + 1 = o

IsLog(cs, log) ==
  PrefixReplicated(cs, log) /\ EntriesAreWrites(cs, log) /\ WritesAreEntries(cs, log)

LogInv == IsLog(committed_state, tx_log)

\* The parts of IInv the proofs below use.
LEMMA Parts ==
  ASSUME IInv
  PROVE  /\ committed_state \in CommittedStateType
         /\ committed_state.next_tx_offset \in Nat
         /\ committed_state.replicated_tx_offset \in Int
         /\ committed_state.replicated_tx_offset >= -1
         /\ committed_state.replicated_tx_offset < committed_state.next_tx_offset
         /\ tx_log \in Seq(TxData)
         /\ Len(tx_log) = committed_state.next_tx_offset
         /\ \A k \in Key :
              LET history == committed_state.committed_diff[k]
              IN  /\ history \in Seq(HistoryEntry)
                  /\ Len(history) \in Nat
                  /\ \A i \in 1 .. Len(history) :
                       /\ history[i].offset \in Nat
                       /\ history[i].diff \in ValueOrNone
                       /\ history[i].offset > committed_state.replicated_tx_offset
                       /\ history[i].offset < committed_state.next_tx_offset
                  /\ \A i, j \in 1 .. Len(history) :
                       i < j => history[i].offset < history[j].offset
<1>1. \A k \in Key : committed_state.committed_diff[k] \in Seq(HistoryEntry)
  BY CommittedStateParts DEF IInv, TypeOK
<1>2. \A k \in Key :
        LET history == committed_state.committed_diff[k]
        IN  /\ Len(history) \in Nat
            /\ \A i \in 1 .. Len(history) : /\ history[i].offset \in Nat
                                            /\ history[i].diff \in ValueOrNone
  BY <1>1, HistoryParts
<1> QED
  BY <1>1, <1>2, CommittedStateParts DEF IInv, TypeOK, OffsetsInOrder, HistoryInWindow

(***************************************************************************)
(* What a key has in memory is what the whole log leaves in it: the newest *)
(* entry of its history is the last transaction that touches it, and       *)
(* without a history the replicated prefix is.                             *)
(***************************************************************************)
LEMMA MemoryViewFromLogInv ==
  ASSUME IInv, LogInv, NEW k \in Key
  PROVE  LogLeaves(tx_log, committed_state.next_tx_offset, k,
                   Get(committed_state, k, Memory))
<1> DEFINE history == committed_state.committed_diff[k]
           r == committed_state.replicated_tx_offset
           n == committed_state.next_tx_offset
<1>0. /\ n \in Nat /\ r \in Int /\ r >= -1 /\ r < n /\ Len(tx_log) = n
      /\ history \in Seq(HistoryEntry) /\ Len(history) \in Nat
      /\ \A i \in 1 .. Len(history) : history[i].offset \in Nat
      /\ \A i \in 1 .. Len(history) : history[i].offset > r /\ history[i].offset < n
      /\ \A i, j \in 1 .. Len(history) : i < j => history[i].offset < history[j].offset
  BY Parts
<1>1. \A o \in r + 2 .. n :
        Touches(tx_log[o], k) => \E i \in 1 .. Len(history) : history[i].offset + 1 = o
  BY <1>0 DEF LogInv, IsLog, WritesAreEntries
<1>2. \A i \in 1 .. Len(history) : Writes(tx_log[history[i].offset + 1], k, history[i].diff)
  BY DEF LogInv, IsLog, EntriesAreWrites
<1>3. LogLeaves(tx_log, r + 1, k, committed_state.replicated_state[k])
  BY DEF LogInv, IsLog, PrefixReplicated
<1>4. CASE history = << >>
  <2>1. Get(committed_state, k, Memory) = committed_state.replicated_state[k]
    BY <1>4 DEF Get
  <2>2. \A o \in r + 2 .. n : ~Touches(tx_log[o], k)
    <3>1. Len(history) = 0 /\ 1 .. 0 = {}
      BY <1>4
    <3> HIDE DEF history
    <3> QED
      BY <1>1, <3>1
  <2>3. r + 1 \in Nat /\ r + 1 <= n /\ (r + 1) + 1 = r + 2
    BY <1>0
  <2> HIDE DEF r, n
  <2> QED
    BY <1>0, <1>3, <2>1, <2>2, <2>3, LogLeavesExtends DEF r, n
<1>5. CASE history # << >>
  <2> DEFINE last == Len(history)
             o == history[last].offset + 1
  <2>1. last \in 1 .. Len(history) /\ o \in 1 .. n
    <3>1. last \in 1 .. Len(history)
      BY <1>0, <1>5, EmptySeq
    <3> HIDE DEF history, n, r
    <3> QED
      BY <1>0, <3>1
  <2>2. Get(committed_state, k, Memory) = history[last].diff
    BY <1>5 DEF Get, GetLatest
  <2>3. Writes(tx_log[o], k, history[last].diff)
    BY <1>2, <2>1
  <2>4. \A j \in o + 1 .. n : ~Touches(tx_log[j], k)
    <3> SUFFICES ASSUME NEW j \in o + 1 .. n, Touches(tx_log[j], k)
                 PROVE  FALSE
      OBVIOUS
    <3> HIDE DEF history, n, r
    <3>1. history[last].offset \in Nat /\ history[last].offset > r
      BY <1>0, <2>1
    <3>2. j \in r + 2 .. n
      BY <1>0, <3>1
    <3>3. PICK i \in 1 .. Len(history) : history[i].offset + 1 = j
      BY <1>1, <3>2
    <3>4. i = last \/ i < last
      BY <1>0
    <3>5. history[i].offset <= history[last].offset
      BY <1>0, <2>1, <3>4
    <3> QED
      BY <1>0, <3>1, <3>3, <3>5
  <2> HIDE DEF history, n, r, last, o
  <2> QED
    BY <1>0, <2>1, <2>2, <2>3, <2>4, LogLeavesWrite DEF n
<1> QED
  BY <1>4, <1>5

-----------------------------------------------------------------------------
\* With no history and the whole log replicated, the prefix is all there is.
LEMMA NothingInMemory ==
  ASSUME NEW cs, NEW log, cs.replicated_tx_offset \in Int,
         \A k \in Key : cs.committed_diff[k] = << >>,
         Len(log) = cs.replicated_tx_offset + 1,
         PrefixReplicated(cs, log)
  PROVE  IsLog(cs, log)
<1>1. Len(<< >>) = 0 /\ 1 .. 0 = {}
  OBVIOUS
<1>2. EntriesAreWrites(cs, log)
  BY <1>1 DEF EntriesAreWrites
<1>3. WritesAreEntries(cs, log)
  BY DEF WritesAreEntries
<1> QED
  BY <1>2, <1>3 DEF IsLog

\* An empty datastore has an empty log.
LEMMA InitLogInv == Init => LogInv
<1> SUFFICES ASSUME Init PROVE LogInv
  OBVIOUS
<1>1. /\ committed_state.replicated_tx_offset = -1
      /\ tx_log = << >> /\ Len(tx_log) = 0
      /\ \A k \in Key : /\ committed_state.replicated_state[k] = NoValue
                        /\ committed_state.committed_diff[k] = << >>
  BY DEF Init, Fresh, NoOffset
<1>2. \A k \in Key : LogLeaves(tx_log, 0, k, committed_state.replicated_state[k])
  <2>1. 1 .. 0 = {}
    OBVIOUS
  <2> QED
    BY <1>1, <2>1 DEF LogLeaves
<1>3. PrefixReplicated(committed_state, tx_log)
  <2>1. committed_state.replicated_tx_offset + 1 = 0
    BY <1>1
  <2> QED
    BY <1>2, <2>1 DEF PrefixReplicated
<1> QED
  BY <1>1, <1>3, NothingInMemory DEF LogInv

(***************************************************************************)
(* commit_mut_tx: the new entry of each history is a write of the new last *)
(* transaction of the log, and the old ones are where they were.           *)
(***************************************************************************)
LEMMA CommitLogInv ==
  ASSUME IInv, LogInv, NEW c \in Client, CommitMutTx(c)
  PROVE  LogInv'
<1> DEFINE cs == committed_state
           data == TxDataOf(diff)
<1>1. /\ diff \in Diffs /\ data \in TxData
      /\ \A k \in DOMAIN diff : k \in Key /\ diff[k] \in ValueOrNone
  BY TxDataOfType, DiffsDefinition DEF IInv, TypeOK
<1>2. /\ tx_log' = Append(tx_log, data)
      /\ Len(tx_log') = cs.next_tx_offset + 1
      /\ \A i \in 1 .. cs.next_tx_offset : tx_log'[i] = tx_log[i]
      /\ tx_log'[cs.next_tx_offset + 1] = data
  BY <1>1, Parts, AppendProperties DEF CommitMutTx
<1>3. /\ cs'.replicated_tx_offset = cs.replicated_tx_offset
      /\ cs'.replicated_state = cs.replicated_state
  BY DEF CommitMutTx, Commit
<1>4. ASSUME NEW k \in Key
      PROVE  cs'.committed_diff[k] =
               IF k \in DOMAIN diff
               THEN Append(cs.committed_diff[k],
                           [offset |-> cs.next_tx_offset, diff |-> diff[k]])
               ELSE cs.committed_diff[k]
  BY DEF CommitMutTx, Commit
<1>5. PrefixReplicated(cs', tx_log')
  <2> SUFFICES ASSUME NEW k \in Key
               PROVE  LogLeaves(tx_log', cs.replicated_tx_offset + 1, k,
                                cs.replicated_state[k])
    BY <1>3 DEF PrefixReplicated
  <2>1. LogLeaves(tx_log, cs.replicated_tx_offset + 1, k, cs.replicated_state[k])
    BY DEF LogInv, IsLog, PrefixReplicated
  <2>2. /\ cs.replicated_tx_offset + 1 \in Nat
        /\ \A i \in 1 .. cs.replicated_tx_offset + 1 : tx_log'[i] = tx_log[i]
    BY <1>2, Parts
  <2> QED
    BY <2>1, <2>2, LogLeavesAgree
<1>6. \A k \in DOMAIN diff :
        /\ k \in Key
        /\ Len(cs.committed_diff[k]) \in Nat
        /\ Len(cs'.committed_diff[k]) = Len(cs.committed_diff[k]) + 1
        /\ \A i \in 1 .. Len(cs.committed_diff[k]) :
             cs'.committed_diff[k][i] = cs.committed_diff[k][i]
        /\ cs'.committed_diff[k][Len(cs.committed_diff[k]) + 1].offset = cs.next_tx_offset
        /\ cs'.committed_diff[k][Len(cs.committed_diff[k]) + 1].diff = diff[k]
  <2> TAKE k \in DOMAIN diff
  <2>1. /\ k \in Key /\ diff[k] \in ValueOrNone
        /\ cs.committed_diff[k] \in Seq(HistoryEntry)
        /\ Len(cs.committed_diff[k]) \in Nat
        /\ cs.next_tx_offset \in Nat
    BY <1>1, Parts
  <2>2. cs'.committed_diff[k] = Append(cs.committed_diff[k],
                                       [offset |-> cs.next_tx_offset, diff |-> diff[k]])
    BY <1>4, <2>1
  <2> HIDE DEF cs
  <2> QED
    BY <2>1, <2>2, LongerHistory
<1>7. EntriesAreWrites(cs', tx_log')
  <2> SUFFICES ASSUME NEW k \in Key, NEW i \in 1 .. Len(cs'.committed_diff[k])
               PROVE  Writes(tx_log'[cs'.committed_diff[k][i].offset + 1], k,
                             cs'.committed_diff[k][i].diff)
    BY DEF EntriesAreWrites
  <2>1. ASSUME i \in 1 .. Len(cs.committed_diff[k]),
               cs'.committed_diff[k][i] = cs.committed_diff[k][i]
        PROVE  Writes(tx_log'[cs'.committed_diff[k][i].offset + 1], k,
                      cs'.committed_diff[k][i].diff)
    <3>1. cs.committed_diff[k][i].offset + 1 \in 1 .. cs.next_tx_offset
      BY <2>1, Parts
    <3>2. Writes(tx_log[cs.committed_diff[k][i].offset + 1], k, cs.committed_diff[k][i].diff)
      BY <2>1 DEF LogInv, IsLog, EntriesAreWrites
    <3> QED
      BY <1>2, <2>1, <3>1, <3>2
  <2>2. CASE k \notin DOMAIN diff
    BY <1>4, <2>1, <2>2
  <2>3. CASE k \in DOMAIN diff
    <3>1. CASE i = Len(cs.committed_diff[k]) + 1
      <4>1. /\ cs'.committed_diff[k][i].offset + 1 = cs.next_tx_offset + 1
            /\ cs'.committed_diff[k][i].diff = diff[k]
        BY <1>6, <2>3, <3>1
      <4>2. Writes(TxDataOf(diff), k, diff[k])
        BY <1>1, <2>3, TxDataWrites
      <4> QED
        BY <1>2, <4>1, <4>2
    <3>2. CASE i # Len(cs.committed_diff[k]) + 1
      <4>1. i \in 1 .. Len(cs.committed_diff[k])
        <5>1. /\ Len(cs.committed_diff[k]) \in Nat
              /\ i \in 1 .. Len(cs.committed_diff[k]) + 1
          BY <1>6, <2>3
        <5> QED
          BY <3>2, <5>1
      <4> QED
        BY <1>6, <2>1, <2>3, <4>1
    <3> QED
      BY <3>1, <3>2
  <2> QED
    BY <2>2, <2>3
<1>8. WritesAreEntries(cs', tx_log')
  <2> SUFFICES ASSUME NEW k \in Key,
                      NEW o \in cs.replicated_tx_offset + 2 .. cs.next_tx_offset + 1,
                      Touches(tx_log'[o], k)
               PROVE  \E i \in 1 .. Len(cs'.committed_diff[k]) :
                        cs'.committed_diff[k][i].offset + 1 = o
    BY <1>2, <1>3 DEF WritesAreEntries
  <2>1. CASE o = cs.next_tx_offset + 1
    <3>1. k \in DOMAIN diff
      BY <1>1, <1>2, <2>1, TxDataWrites
    <3>2. Len(cs.committed_diff[k]) + 1 \in 1 .. Len(cs'.committed_diff[k])
      BY <1>6, <3>1
    <3> QED
      BY <1>6, <2>1, <3>1, <3>2
  <2>2. CASE o # cs.next_tx_offset + 1
    <3>1. /\ o \in 1 .. cs.next_tx_offset
          /\ o \in cs.replicated_tx_offset + 2 .. Len(tx_log)
      BY <2>2, Parts
    <3>2. Touches(tx_log[o], k)
      BY <1>2, <3>1
    <3>3. PICK i \in 1 .. Len(cs.committed_diff[k]) : cs.committed_diff[k][i].offset + 1 = o
      BY <3>1, <3>2 DEF LogInv, IsLog, WritesAreEntries
    <3>4. i \in 1 .. Len(cs'.committed_diff[k])
          /\ cs'.committed_diff[k][i] = cs.committed_diff[k][i]
      <4>1. CASE k \in DOMAIN diff
        BY <1>6, <4>1
      <4>2. CASE k \notin DOMAIN diff
        BY <1>4, <4>2
      <4> QED
        BY <4>1, <4>2
    <3> QED
      BY <3>3, <3>4
  <2> QED
    BY <2>1, <2>2
<1> QED
  BY <1>5, <1>7, <1>8 DEF LogInv, IsLog

(***************************************************************************)
(* With no lag the watermark is the newest offset: the loop of advance     *)
(* applies every entry, so it never stops at one and drops none, and the   *)
(* replicated state becomes what a read at Memory returned before.         *)
(***************************************************************************)
LEMMA AdvanceLogInv ==
  ASSUME IInv, LogInv, Lag = 0, NEW watermark \in Nat,
         AdvanceReplicatedDurabilityOffset(watermark)
  PROVE  LogInv'
<1> DEFINE cs == committed_state
<1>1. /\ watermark = cs.next_tx_offset - 1
      /\ cs' = Advance(cs, watermark)
      /\ tx_log' = tx_log
  BY Parts DEF AdvanceReplicatedDurabilityOffset
<1>2. ASSUME NEW k \in Key
      PROVE  AppliedLen(cs.committed_diff[k], watermark) = Len(cs.committed_diff[k])
  <2> DEFINE history == cs.committed_diff[k]
             n == AppliedLen(history, watermark)
  <2>1. /\ history \in Seq(HistoryEntry) /\ Len(history) \in Nat
        /\ cs.next_tx_offset \in Nat
        /\ \A i \in 1 .. Len(history) : /\ history[i].offset \in Nat
                                        /\ history[i].offset < cs.next_tx_offset
    BY Parts
  <2>2. /\ n \in 0 .. Len(history)
        /\ n < Len(history) => history[n + 1].offset > watermark
    <3>1. watermark \in Int
      OBVIOUS
    <3> HIDE DEF history
    <3> QED
      BY <2>1, <3>1, AppliedLenProperties
  <2> HIDE DEF history, n
  <2>3. ~(n < Len(history))
    BY <1>1, <2>1, <2>2
  <2> QED
    BY <2>1, <2>2, <2>3 DEF history, n
<1>3. ASSUME NEW k \in Key
      PROVE  /\ cs'.committed_diff[k] = << >>
             /\ cs'.replicated_state[k] = Get(cs, k, Memory)
  <2>1. cs.committed_diff[k] \in Seq(HistoryEntry) /\ Len(cs.committed_diff[k]) \in Nat
    BY Parts
  <2>2. cs'.committed_diff[k] = SubSeq(cs.committed_diff[k], Len(cs.committed_diff[k]) + 2,
                                       Len(cs.committed_diff[k]))
    BY <1>1, <1>2 DEF Advance
  <2>3. cs'.committed_diff[k] = << >>
    BY <2>1, <2>2, RemainderProperties
  <2>4. cs'.replicated_state[k] = IF Len(cs.committed_diff[k]) > 0
                                  THEN cs.committed_diff[k][Len(cs.committed_diff[k])].diff
                                  ELSE cs.replicated_state[k]
    BY <1>1, <1>2 DEF Advance
  <2>5. Len(cs.committed_diff[k]) > 0 <=> cs.committed_diff[k] # << >>
    BY <2>1, EmptySeq
  <2> QED
    BY <2>3, <2>4, <2>5 DEF Get, GetLatest
<1>4. /\ cs'.replicated_tx_offset = watermark
      /\ cs'.replicated_tx_offset + 1 = cs.next_tx_offset
      /\ Len(tx_log') = cs.next_tx_offset
  BY <1>1, Parts DEF Advance
<1>5. PrefixReplicated(cs', tx_log')
  BY <1>1, <1>3, <1>4, MemoryViewFromLogInv DEF PrefixReplicated
<1> QED
  BY <1>3, <1>4, <1>5, NothingInMemory DEF LogInv

(***************************************************************************)
(* Rollback cuts the log back to the replicated prefix, and leaves no      *)
(* history behind.                                                         *)
(***************************************************************************)
LEMMA RollbackLogInv ==
  ASSUME IInv, LogInv, RollbackToReplicatedDurabilityOffset
  PROVE  LogInv'
<1> DEFINE cs == committed_state
           n == cs.replicated_tx_offset + 1
<1>1. /\ cs'.replicated_tx_offset = cs.replicated_tx_offset
      /\ cs'.replicated_state = cs.replicated_state
      /\ \A k \in Key : cs'.committed_diff[k] = << >>
  BY DEF RollbackToReplicatedDurabilityOffset, Rollback
<1>2. /\ n \in Nat
      /\ Len(tx_log') = n
      /\ \A i \in 1 .. n : tx_log'[i] = tx_log[i]
  BY Parts, RolledBackLog DEF IInv, RollbackToReplicatedDurabilityOffset
<1>3. ASSUME NEW k \in Key
      PROVE  LogLeaves(tx_log', n, k, cs.replicated_state[k])
  <2>1. LogLeaves(tx_log, n, k, cs.replicated_state[k])
    BY DEF LogInv, IsLog, PrefixReplicated
  <2> HIDE DEF n, cs
  <2> QED
    BY <1>2, <2>1, LogLeavesAgree
<1>4. PrefixReplicated(cs', tx_log')
  BY <1>1, <1>3 DEF PrefixReplicated
<1> QED
  BY <1>1, <1>2, <1>4, Parts, NothingInMemory DEF LogInv

\* The replayed transaction is the last of the log, and what it does not
\* touch keeps what the log before it left there.
LEMMA ReplayLogInv ==
  ASSUME IInv, LogInv, NEW data \in TxData, ReplayTransaction(data)
  PROVE  LogInv'
<1> DEFINE cs == committed_state
           n == cs.next_tx_offset
<1>1. /\ n \in Nat
      /\ cs.replicated_tx_offset \in Int
      /\ n = cs.replicated_tx_offset + 1
      /\ cs' = Replay(cs, data)
  BY Parts DEF ReplayTransaction, CanReplay
<1>2. /\ Len(tx_log') = n + 1
      /\ \A i \in 1 .. n : tx_log'[i] = tx_log[i]
      /\ tx_log'[n + 1] = data
  BY Parts, AppendProperties DEF ReplayTransaction
<1>3. /\ cs'.replicated_tx_offset = cs.replicated_tx_offset + 1
      /\ cs'.committed_diff = cs.committed_diff
      /\ \A k \in Key : cs'.replicated_state[k] =
           IF k \in data.deletes THEN NoValue
           ELSE IF k \in DOMAIN data.inserts THEN data.inserts[k]
           ELSE cs.replicated_state[k]
  BY <1>1 DEF Replay
<1>4. ASSUME NEW k \in Key
      PROVE  LogLeaves(tx_log', n + 1, k, cs'.replicated_state[k])
  <2>1. n + 1 \in Nat /\ n + 1 \in 1 .. n + 1 /\ (n + 1) + 1 .. n + 1 = {}
    BY <1>1
  <2>2. CASE Touches(data, k)
    <3>1. Writes(tx_log'[n + 1], k, cs'.replicated_state[k])
      BY <1>2, <1>3, <2>2 DEF Touches, Writes
    <3> QED
      BY <2>1, <3>1, LogLeavesWrite
  <2>3. CASE ~Touches(data, k)
    <3>1. cs'.replicated_state[k] = cs.replicated_state[k]
      BY <1>3, <2>3 DEF Touches
    <3>2. LogLeaves(tx_log, n, k, cs.replicated_state[k])
      BY <1>1 DEF LogInv, IsLog, PrefixReplicated
    <3>3. LogLeaves(tx_log', n, k, cs.replicated_state[k])
      <4> HIDE DEF cs, n
      <4> QED
        BY <1>1, <1>2, <3>2, LogLeavesAgree
    <3>4. \A i \in n + 1 .. n + 1 : ~Touches(tx_log'[i], k)
      BY <1>1, <1>2, <2>3
    <3>5. n <= n + 1
      BY <1>1
    <3> HIDE DEF cs, n
    <3> QED
      BY <1>1, <2>1, <3>1, <3>3, <3>4, <3>5, LogLeavesExtends
  <2> QED
    BY <2>2, <2>3
<1>5. PrefixReplicated(cs', tx_log')
  BY <1>1, <1>3, <1>4 DEF PrefixReplicated
<1>6. \A k \in Key : cs'.committed_diff[k] = << >>
  BY <1>3, CanReplayEmpty DEF IInv, ReplayTransaction
<1>7. cs'.replicated_tx_offset \in Int /\ Len(tx_log') = cs'.replicated_tx_offset + 1
  BY <1>1, <1>2, <1>3
<1> QED
  BY <1>5, <1>6, <1>7, NothingInMemory DEF LogInv

\* Every operation of the Datastore keeps LogInv.
LEMMA NextLogInv ==
  ASSUME IInv, LogInv, Lag = 0, [Next]_vars
  PROVE  LogInv'
<1>1. ASSUME UNCHANGED <<committed_state, tx_log>>
      PROVE  LogInv'
  BY <1>1 DEF LogInv
<1>2. ASSUME NEW watermark \in 0 .. committed_state.next_tx_offset,
             AdvanceReplicatedDurabilityOffset(watermark)
      PROVE  LogInv'
  BY <1>2, AdvanceLogInv
<1>3. ASSUME NEW d \in Diffs, ReplayTransaction(TxDataOf(d))
      PROVE  LogInv'
  BY <1>3, TxDataOfType, ReplayLogInv
<1> QED
  BY <1>1, <1>2, <1>3, CommitLogInv, RollbackLogInv
  DEF Next, vars, BeginTx, ReleaseTx, BeginMutTx, SetMutTx, DeleteMutTx, RollbackMutTx

-----------------------------------------------------------------------------
(***************************************************************************)
(* With no lag LogInv holds in every reachable state: the datastore keeps  *)
(* its transaction log apart into a replicated prefix and the histories.   *)
(***************************************************************************)
LEMMA LogInductive == Lag = 0 => (Spec => []LogInv)
<1> SUFFICES ASSUME Lag = 0 PROVE Spec => []LogInv
  OBVIOUS
<1>1. IInv /\ LogInv /\ [Next]_vars => LogInv'
  BY NextLogInv
<1> QED
  BY <1>1, InitLogInv, InductiveInvariant, PTL DEF Spec

(***************************************************************************)
(* get at DurabilityLevel::Replicated returns what the log up to the       *)
(* replicated offset leaves in a key, if every watermark the node hands to *)
(* advance_replicated_durability_offset is the newest offset.              *)
(***************************************************************************)
THEOREM ReplicatedViewCorrect == Lag = 0 => (Spec => []ReplicatedViewIsLogPrefix)
<1> SUFFICES ASSUME Lag = 0 PROVE Spec => []ReplicatedViewIsLogPrefix
  OBVIOUS
<1>1. IInv /\ LogInv => ReplicatedViewIsLogPrefix
  <2> SUFFICES ASSUME IInv, LogInv PROVE ReplicatedViewIsLogPrefix
    OBVIOUS
  <2>1. committed_state.replicated_tx_offset + 1 <= Len(tx_log)
    BY Parts
  <2>2. \A k \in Key : Get(committed_state, k, Replicated) = committed_state.replicated_state[k]
    BY DEF Get, Memory, Replicated
  <2> QED
    BY <2>1, <2>2 DEF ReplicatedViewIsLogPrefix, LogInv, IsLog, PrefixReplicated
<1> QED
  BY <1>1, LogInductive, InductiveInvariant, PTL

(***************************************************************************)
(* get at DurabilityLevel::Memory returns what the whole log leaves in a   *)
(* key, under the same condition.                                          *)
(***************************************************************************)
THEOREM MemoryViewCorrect == Lag = 0 => (Spec => []MemoryViewIsLog)
<1> SUFFICES ASSUME Lag = 0 PROVE Spec => []MemoryViewIsLog
  OBVIOUS
<1>1. IInv /\ LogInv => MemoryViewIsLog
  BY Parts, MemoryViewFromLogInv DEF MemoryViewIsLog
<1> QED
  BY <1>1, LogInductive, InductiveInvariant, PTL
=============================================================================
