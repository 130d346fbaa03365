------------------------ MODULE CommittedStateProofs ------------------------
(***************************************************************************)
(* Lemmas about the operators of CommittedState: the types they return,    *)
(* how much of a history a watermark applies, and what a log leaves.       *)
(***************************************************************************)
EXTENDS CommittedState, TLAPS, SequenceTheorems, WellFoundedInduction

\* A nonempty set of naturals has a smallest element.
LEMMA SmallestNat ==
  ASSUME NEW T \in SUBSET Nat, T # {}
  PROVE  \E x \in T : \A y \in T : x <= y
<1> DEFINE Below == {p \in Nat \X Nat : p[1] < p[2]}
<1>1. IsWellFoundedOn(Below, Nat)
  BY NatLessThanWellFounded DEF OpToRel
<1>2. PICK x \in T : \A y \in T : ~(<<y, x>> \in Below)
  BY <1>1, WFMin
<1>3. \A y \in T : ~(y < x)
  BY <1>2
<1> QED
  BY <1>3

-----------------------------------------------------------------------------
(***************************************************************************)
(* The operators of CommittedState keep the type.                          *)
(***************************************************************************)
LEMMA FreshType == Fresh \in CommittedStateType
BY DEF Fresh, CommittedStateType, Offset, OptionOffset, NoOffset, ValueOrNone

\* What it is to be a set of writes.
LEMMA DiffsDefinition ==
  \A d : d \in Diffs <=> /\ DOMAIN d \subseteq Key
                         /\ d = [k \in DOMAIN d |-> d[k]]
                         /\ \A k \in DOMAIN d : d[k] \in ValueOrNone
BY DEF Diffs

\* commit_mut_tx makes a TxData of the writes of a MutTx.
LEMMA TxDataOfType ==
  ASSUME NEW d \in Diffs
  PROVE  TxDataOf(d) \in TxData
<1> DEFINE inserted == {k \in DOMAIN d : d[k] # NoValue}
           inserts == [k \in inserted |-> d[k]]
<1>1. inserted \in SUBSET Key /\ inserts \in [inserted -> Value]
  BY DiffsDefinition DEF ValueOrNone
<1>2. inserts \in UNION {[S -> Value] : S \in SUBSET Key}
  BY <1>1
<1>3. {k \in DOMAIN d : d[k] = NoValue} \in SUBSET Key
  BY DiffsDefinition
<1> QED
  BY <1>2, <1>3 DEF TxDataOf, TxData

\* commit_mut_tx: the histories get entries of their type.
LEMMA CommitType ==
  ASSUME NEW cs \in CommittedStateType, NEW d \in Diffs
  PROVE  Commit(cs, d) \in CommittedStateType
<1>1. \A k \in DOMAIN d : k \in Key /\ d[k] \in ValueOrNone
  BY DiffsDefinition
<1>2. \A k \in DOMAIN d : [offset |-> cs.next_tx_offset, diff |-> d[k]] \in HistoryEntry
  BY <1>1 DEF HistoryEntry, CommittedStateType
<1>3. \A k \in DOMAIN d :
        Append(cs.committed_diff[k], [offset |-> cs.next_tx_offset, diff |-> d[k]])
          \in Seq(HistoryEntry)
  BY <1>1, <1>2, AppendProperties DEF CommittedStateType
<1> QED
  BY <1>1, <1>3 DEF Commit, CommittedStateType, Offset

\* An entry of a history is a tx_offset and a write.
LEMMA HistoryParts ==
  ASSUME NEW history \in Seq(HistoryEntry)
  PROVE  /\ Len(history) \in Nat
         /\ \A i \in 1 .. Len(history) : /\ history[i].offset \in Nat
                                         /\ history[i].diff \in ValueOrNone
<1>1. \A i \in 1 .. Len(history) : history[i] \in HistoryEntry
  OBVIOUS
<1> QED
  BY <1>1 DEF HistoryEntry, Offset

\* The CHOOSE of AppliedLen has a value: the entries before the first one
\* above the watermark.
LEMMA AppliedLenProperties ==
  ASSUME NEW history \in Seq(HistoryEntry), NEW watermark \in Int
  PROVE  LET n == AppliedLen(history, watermark)
         IN  /\ n \in 0 .. Len(history)
             /\ \A i \in 1 .. n : history[i].offset <= watermark
             /\ n < Len(history) => history[n + 1].offset > watermark
<1> DEFINE Stops(n) ==
             /\ \A i \in 1 .. n : history[i].offset <= watermark
             /\ n < Len(history) => history[n + 1].offset > watermark
           Above == {i \in 1 .. Len(history) : history[i].offset > watermark}
<1>1. Len(history) \in Nat /\ \A i \in 1 .. Len(history) : history[i].offset \in Nat
  BY HistoryParts
<1>2. \E n \in 0 .. Len(history) : Stops(n)
  <2>1. CASE Above = {}
    <3>1. Stops(Len(history))
      BY <2>1, <1>1
    <3> QED
      BY <3>1, <1>1
  <2>2. CASE Above # {}
    <3>1. PICK x \in Above : \A y \in Above : x <= y
      <4>1. Above \in SUBSET Nat
        BY <1>1
      <4> HIDE DEF Above
      <4> QED
        BY <2>2, <4>1, SmallestNat
    <3>2. \A i \in 1 .. x - 1 : history[i].offset <= watermark
      BY <3>1, <1>1
    <3>3. Stops(x - 1) /\ x - 1 \in 0 .. Len(history)
      BY <3>1, <3>2, <1>1
    <3> QED
      BY <3>3
  <2> QED
    BY <2>1, <2>2
<1> QED
  BY <1>2 DEF AppliedLen

\* What advance leaves of a history when n entries were applied: nothing, or
\* the entries after the one that stopped the loop.
LEMMA RemainderProperties ==
  ASSUME NEW history \in Seq(HistoryEntry), NEW n \in 0 .. Len(history)
  PROVE  LET rest == SubSeq(history, n + 2, Len(history))
         IN  /\ rest \in Seq(HistoryEntry)
             /\ n = Len(history) => rest = << >>
             /\ Len(rest) \in 0 .. Len(history)
             /\ \A i \in 1 .. Len(rest) : /\ n + 1 + i \in 1 .. Len(history)
                                         /\ rest[i] = history[n + 1 + i]
<1> DEFINE rest == SubSeq(history, n + 2, Len(history))
<1>1. /\ Len(history) \in Nat
      /\ n \in Int /\ n + 2 \in Int
      /\ \A i \in n + 2 .. Len(history) : history[i] \in HistoryEntry
  OBVIOUS
<1>2. /\ rest \in Seq(HistoryEntry)
      /\ Len(rest) = IF n + 2 <= Len(history) THEN Len(history) - (n + 2) + 1 ELSE 0
      /\ \A i \in 1 .. Len(history) - (n + 2) + 1 : rest[i] = history[n + 2 + i - 1]
  BY <1>1, SubSeqProperties
<1>3. n = Len(history) => rest = << >>
  BY <1>1, SubSeqEmpty
<1> HIDE DEF rest
<1>4. \A i \in 1 .. Len(rest) : /\ n + 1 + i \in 1 .. Len(history)
                               /\ rest[i] = history[n + 1 + i]
  <2> TAKE i \in 1 .. Len(rest)
  <2>1. i \in 1 .. Len(history) - (n + 2) + 1 /\ n + 2 + i - 1 = n + 1 + i
    BY <1>1, <1>2
  <2>2. rest[i] = history[n + 2 + i - 1]
    BY <1>2, <2>1
  <2>3. rest[i] = history[n + 1 + i]
    BY <2>1, <2>2
  <2>4. n + 1 + i \in 1 .. Len(history)
    BY <1>1, <2>1
  <2> QED
    BY <2>3, <2>4
<1>5. Len(rest) \in 0 .. Len(history)
  BY <1>1, <1>2
<1> QED
  BY <1>2, <1>3, <1>4, <1>5 DEF rest

(***************************************************************************)
(* advance_replicated_durability_offset: what it moves to the replicated   *)
(* state are values, and what it leaves of a history is one.               *)
(***************************************************************************)
LEMMA AdvanceType ==
  ASSUME NEW cs \in CommittedStateType, NEW watermark \in Nat
  PROVE  Advance(cs, watermark) \in CommittedStateType
<1> DEFINE n(k) == AppliedLen(cs.committed_diff[k], watermark)
<1>1. \A k \in Key : cs.committed_diff[k] \in Seq(HistoryEntry)
  BY DEF CommittedStateType
<1>2. \A k \in Key : n(k) \in 0 .. Len(cs.committed_diff[k])
  <2> TAKE k \in Key
  <2>1. cs.committed_diff[k] \in Seq(HistoryEntry) /\ watermark \in Int
    BY <1>1
  <2> QED
    BY <2>1, AppliedLenProperties
<1>3. \A k \in Key : n(k) > 0 => cs.committed_diff[k][n(k)].diff \in ValueOrNone
  <2> HIDE DEF n
  <2>1. \A k \in Key : n(k) > 0 => cs.committed_diff[k][n(k)] \in HistoryEntry
    BY <1>1, <1>2
  <2> QED
    BY <2>1 DEF HistoryEntry
<1>4. \A k \in Key : SubSeq(cs.committed_diff[k], n(k) + 2, Len(cs.committed_diff[k]))
                       \in Seq(HistoryEntry)
  BY <1>1, <1>2, RemainderProperties
<1> HIDE DEF n
<1>5. [k \in Key |-> IF n(k) > 0 THEN cs.committed_diff[k][n(k)].diff
                                ELSE cs.replicated_state[k]] \in [Key -> ValueOrNone]
  BY <1>3 DEF CommittedStateType
<1>6. [k \in Key |-> SubSeq(cs.committed_diff[k], n(k) + 2, Len(cs.committed_diff[k]))]
        \in [Key -> Seq(HistoryEntry)]
  BY <1>4
<1> QED
  BY <1>5, <1>6 DEF Advance, CommittedStateType, OptionOffset, n

(***************************************************************************)
(* rollback_to_replicated_durability_offset: empty histories, the          *)
(* successor of the replicated offset or 0.                                *)
(***************************************************************************)
LEMMA RollbackType ==
  ASSUME NEW cs \in CommittedStateType
  PROVE  Rollback(cs) \in CommittedStateType
BY DEF Rollback, CommittedStateType, Offset, OptionOffset, NoOffset

\* replay_transaction: rows inserted and deleted are writes.
LEMMA ReplayType ==
  ASSUME NEW cs \in CommittedStateType, NEW data \in TxData
  PROVE  Replay(cs, data) \in CommittedStateType
<1>1. \A k \in DOMAIN data.inserts : data.inserts[k] \in Value
  BY DEF TxData
<1> QED
  BY <1>1 DEF Replay, CommittedStateType, Offset, OptionOffset, NoOffset, ValueOrNone

\* The offsets and histories of the record have their types.
LEMMA CommittedStateParts ==
  ASSUME NEW cs \in CommittedStateType
  PROVE  /\ cs.next_tx_offset \in Nat
         /\ cs.replicated_tx_offset \in Int /\ cs.replicated_tx_offset >= -1
         /\ cs.replicated_state \in [Key -> ValueOrNone]
         /\ cs.committed_diff \in [Key -> Seq(HistoryEntry)]
         /\ \A k \in Key : \A i \in 1 .. Len(cs.committed_diff[k]) :
              cs.committed_diff[k][i].offset \in Nat
<1>1. \A k \in Key : cs.committed_diff[k] \in Seq(HistoryEntry)
  BY DEF CommittedStateType
<1>2. \A k \in Key : \A i \in 1 .. Len(cs.committed_diff[k]) :
        cs.committed_diff[k][i].offset \in Nat
  BY <1>1, HistoryParts
<1> QED
  BY <1>2 DEF CommittedStateType, Offset, OptionOffset, NoOffset

-----------------------------------------------------------------------------
(***************************************************************************)
(* LogLeaves of a log that grows or is cut.                                *)
(***************************************************************************)

\* Only the first n transactions matter.
LEMMA LogLeavesAgree ==
  ASSUME NEW log1, NEW log2, NEW n \in Nat, NEW k, NEW v,
         \A i \in 1 .. n : log2[i] = log1[i], LogLeaves(log1, n, k, v)
  PROVE  LogLeaves(log2, n, k, v)
<1>1. CASE v = NoValue /\ \A i \in 1 .. n : ~Touches(log1[i], k)
  BY <1>1 DEF LogLeaves
<1>2. CASE \E i \in 1 .. n : /\ Writes(log1[i], k, v)
                             /\ \A j \in i + 1 .. n : ~Touches(log1[j], k)
  <2>1. PICK i \in 1 .. n : /\ Writes(log1[i], k, v)
                            /\ \A j \in i + 1 .. n : ~Touches(log1[j], k)
    BY <1>2
  <2>2. \A j \in i + 1 .. n : j \in 1 .. n
    OBVIOUS
  <2>3. Writes(log2[i], k, v) /\ \A j \in i + 1 .. n : ~Touches(log2[j], k)
    BY <2>1, <2>2
  <2> QED
    BY <2>3 DEF LogLeaves
<1> QED
  BY <1>1, <1>2 DEF LogLeaves

\* Transactions that do not touch a key leave it alone.
LEMMA LogLeavesExtends ==
  ASSUME NEW log, NEW m \in Nat, NEW n \in Nat, m <= n, NEW k, NEW v,
         LogLeaves(log, m, k, v), \A i \in m + 1 .. n : ~Touches(log[i], k)
  PROVE  LogLeaves(log, n, k, v)
<1>1. CASE v = NoValue /\ \A i \in 1 .. m : ~Touches(log[i], k)
  <2>1. \A i \in 1 .. n : i \in 1 .. m \/ i \in m + 1 .. n
    OBVIOUS
  <2> QED
    BY <1>1, <2>1 DEF LogLeaves
<1>2. CASE \E i \in 1 .. m : /\ Writes(log[i], k, v)
                             /\ \A j \in i + 1 .. m : ~Touches(log[j], k)
  <2>1. PICK i \in 1 .. m : /\ Writes(log[i], k, v)
                            /\ \A j \in i + 1 .. m : ~Touches(log[j], k)
    BY <1>2
  <2>2. i \in 1 .. n /\ \A j \in i + 1 .. n : j \in i + 1 .. m \/ j \in m + 1 .. n
    OBVIOUS
  <2>3. \A j \in i + 1 .. n : ~Touches(log[j], k)
    BY <2>1, <2>2
  <2> QED
    BY <2>1, <2>2, <2>3 DEF LogLeaves
<1> QED
  BY <1>1, <1>2 DEF LogLeaves

\* The last transaction to touch a key decides it.
LEMMA LogLeavesWrite ==
  ASSUME NEW log, NEW n \in Nat, NEW i \in 1 .. n, NEW k, NEW v,
         Writes(log[i], k, v), \A j \in i + 1 .. n : ~Touches(log[j], k)
  PROVE  LogLeaves(log, n, k, v)
BY DEF LogLeaves

\* A log leaves one value in a key.
LEMMA LogLeavesOne ==
  ASSUME NEW datas, NEW n \in Nat, NEW k, NEW v, NEW w,
         LogLeaves(datas, n, k, v), LogLeaves(datas, n, k, w)
  PROVE  v = w
<1>1. \A i, x : Writes(datas[i], k, x) => Touches(datas[i], k)
  BY DEF Writes, Touches
<1>2. CASE \A i \in 1 .. n : ~Touches(datas[i], k)
  BY <1>1, <1>2 DEF LogLeaves
<1>3. CASE ~(\A i \in 1 .. n : ~Touches(datas[i], k))
  <2>1. PICK i \in 1 .. n : /\ Writes(datas[i], k, v)
                            /\ \A l \in i + 1 .. n : ~Touches(datas[l], k)
    BY <1>3 DEF LogLeaves
  <2>2. PICK j \in 1 .. n : /\ Writes(datas[j], k, w)
                            /\ \A l \in j + 1 .. n : ~Touches(datas[l], k)
    BY <1>3 DEF LogLeaves
  <2>3. i = j \/ i \in j + 1 .. n \/ j \in i + 1 .. n
    OBVIOUS
  <2>4. i = j
    BY <1>1, <2>1, <2>2, <2>3
  <2> QED BY <2>1, <2>2, <2>4 DEF Writes
<1> QED BY <1>2, <1>3

\* A TxData has the writes of the diff it is made of, and no others.
LEMMA TxDataWrites ==
  ASSUME NEW d \in Diffs, NEW k \in Key
  PROVE  /\ Touches(TxDataOf(d), k) <=> k \in DOMAIN d
         /\ k \in DOMAIN d => Writes(TxDataOf(d), k, d[k])
<1>1. \A j \in DOMAIN d : j \in Key
  BY DiffsDefinition
<1> QED
  BY <1>1 DEF TxDataOf, Touches, Writes

\* A history with a write more: the old entries and the new one.
LEMMA LongerHistory ==
  ASSUME NEW history \in Seq(HistoryEntry), NEW o \in Nat, NEW v \in ValueOrNone
  PROVE  LET longer == Append(history, [offset |-> o, diff |-> v])
         IN  /\ Len(longer) = Len(history) + 1
             /\ \A i \in 1 .. Len(history) : longer[i] = history[i]
             /\ longer[Len(history) + 1].offset = o
             /\ longer[Len(history) + 1].diff = v
<1> DEFINE e == [offset |-> o, diff |-> v]
<1>1. e \in HistoryEntry /\ e.offset = o /\ e.diff = v
  BY DEF HistoryEntry, Offset
<1> HIDE DEF e
<1>2. /\ Len(Append(history, e)) = Len(history) + 1
      /\ \A i \in 1 .. Len(history) : Append(history, e)[i] = history[i]
      /\ Append(history, e)[Len(history) + 1] = e
  BY <1>1, AppendProperties
<1> QED
  BY <1>1, <1>2 DEF e
=============================================================================
