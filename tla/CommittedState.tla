--------------------------- MODULE CommittedState ---------------------------
(***************************************************************************)
(* The state behind the RwLock of ExampleDatastore, and the operations     *)
(* that read and change it, as operators on a record.                      *)
(*                                                                         *)
(*   replicated_state   what is replicated: a total function, NoValue for  *)
(*                      a key that is not in the HashMap                   *)
(*   committed_diff     for each key the history of diffs that are         *)
(*                      committed in memory only: a sequence of            *)
(*                      [offset, diff], the empty one for a key that is    *)
(*                      not in the HashMap; a deletion is NoValue          *)
(*   next_tx_offset, replicated_tx_offset                                  *)
(*                      offsets; Option::None is NoOffset                  *)
(*                                                                         *)
(* An operator named ..._Mut... is a mistake somebody could make in the    *)
(* definition below it. Nothing in the specifications uses it: the runs    *)
(* are repeated with it to see that the properties notice.                 *)
(***************************************************************************)
EXTENDS Integers, Sequences

CONSTANTS Key, Value, NoValue

ASSUME NoValueAssumption == NoValue \notin Value

ValueOrNone == Value \cup {NoValue}

(***************************************************************************)
(* Offsets are u64 in the code and start at 0. NoOffset is Option::None,   *)
(* one below the first offset, so that "the offset after" reads the same   *)
(* in every case of the code's map_or and match on the Option.             *)
(***************************************************************************)
NoOffset == -1
Offset == Nat
OptionOffset == Nat \cup {NoOffset}

Memory == "Memory"
Replicated == "Replicated"
DurabilityLevel == {Memory, Replicated}

\* The writes of one transaction: a partial function from keys.
Diffs == UNION {[S -> ValueOrNone] : S \in SUBSET Key}

\* What replay needs to know of a transaction (tx_data.rs TxData).
TxData == [inserts : UNION {[S -> Value] : S \in SUBSET Key}, deletes : SUBSET Key]

HistoryEntry == [offset : Offset, diff : ValueOrNone]

CommittedStateType ==
  [ next_tx_offset       : Offset,
    replicated_tx_offset : OptionOffset,
    replicated_state     : [Key -> ValueOrNone],
    committed_diff       : [Key -> Seq(HistoryEntry)] ]

-----------------------------------------------------------------------------
\* ExampleDatastore::new
Fresh ==
  [ next_tx_offset       |-> 0,
    replicated_tx_offset |-> NoOffset,
    replicated_state     |-> [k \in Key |-> NoValue],
    committed_diff       |-> [k \in Key |-> << >>] ]

GetLatest(history) == history[Len(history)].diff

Get_MutOldest(cs, k, level) ==
  IF level = Memory /\ cs.committed_diff[k] # << >>
  THEN cs.committed_diff[k][1].diff
  ELSE cs.replicated_state[k]

\* CommittedState::get
Get(cs, k, level) ==
  IF level = Memory /\ cs.committed_diff[k] # << >>
  THEN GetLatest(cs.committed_diff[k])
  ELSE cs.replicated_state[k]

-----------------------------------------------------------------------------
\* The TxData that commit_mut_tx builds: the inserts and the deletes of the
\* diff apart. A key has one diff, so it is in one of them.
TxDataOf(diff) ==
  [ inserts |-> [k \in {j \in DOMAIN diff : diff[j] # NoValue} |-> diff[k]],
    deletes |-> {k \in DOMAIN diff : diff[k] = NoValue} ]

\* commit_mut_tx: the diffs join the histories under the next offset.
Commit(cs, diff) ==
  [ next_tx_offset       |-> cs.next_tx_offset + 1,
    replicated_tx_offset |-> cs.replicated_tx_offset,
    replicated_state     |-> cs.replicated_state,
    committed_diff       |-> [k \in Key |->
      IF k \in DOMAIN diff
      THEN Append(cs.committed_diff[k],
                  [offset |-> cs.next_tx_offset, diff |-> diff[k]])
      ELSE cs.committed_diff[k]] ]

-----------------------------------------------------------------------------
\* How many entries at the front of a history are at or below the watermark.
AppliedLen(history, watermark) ==
  CHOOSE n \in 0 .. Len(history) :
    /\ \A i \in 1 .. n : history[i].offset <= watermark
    /\ n < Len(history) => history[n + 1].offset > watermark

Advance_MutAppliesFirst(cs, watermark) ==
  [ next_tx_offset       |-> cs.next_tx_offset,
    replicated_tx_offset |-> watermark,
    replicated_state     |-> [k \in Key |->
      LET history == cs.committed_diff[k]
          n == AppliedLen(history, watermark)
      IN  IF n > 0 THEN history[1].diff ELSE cs.replicated_state[k]],
    committed_diff       |-> [k \in Key |->
      LET history == cs.committed_diff[k]
          n == AppliedLen(history, watermark)
      IN  SubSeq(history, n + 2, Len(history))] ]

(***************************************************************************)
(* CommittedState::advance_replicated_durability_offset. The loop takes    *)
(* the first entry OUT of the history before it compares its offset, so    *)
(* the entry on which it stops is in neither place afterwards: what        *)
(* remains starts at n + 2, not at n + 1.                                  *)
(***************************************************************************)
Advance(cs, watermark) ==
  [ next_tx_offset       |-> cs.next_tx_offset,
    replicated_tx_offset |-> watermark,
    replicated_state     |-> [k \in Key |->
      LET history == cs.committed_diff[k]
          n == AppliedLen(history, watermark)
      IN  IF n > 0 THEN history[n].diff ELSE cs.replicated_state[k]],
    committed_diff       |-> [k \in Key |->
      LET history == cs.committed_diff[k]
          n == AppliedLen(history, watermark)
      IN  SubSeq(history, n + 2, Len(history))] ]

Rollback_MutNoSuccessor(cs) ==
  [ cs EXCEPT !.committed_diff = [k \in Key |-> << >>],
              !.next_tx_offset = cs.replicated_tx_offset ]

Rollback_MutKeepsDiffs(cs) ==
  [ cs EXCEPT !.next_tx_offset = cs.replicated_tx_offset + 1 ]

Rollback_MutKeepsOffset(cs) ==
  [ cs EXCEPT !.committed_diff = [k \in Key |-> << >>] ]

\* CommittedState::rollback_to_replicated_durability_offset
Rollback(cs) ==
  [ next_tx_offset       |-> cs.replicated_tx_offset + 1,
    replicated_tx_offset |-> cs.replicated_tx_offset,
    replicated_state     |-> cs.replicated_state,
    committed_diff       |-> [k \in Key |-> << >>] ]

-----------------------------------------------------------------------------
CanReplay_MutAhead(cs) == cs.next_tx_offset >= cs.replicated_tx_offset + 1

\* The guard of replay_transaction, both cases of its match.
CanReplay(cs) == cs.next_tx_offset = cs.replicated_tx_offset + 1

\* The state part of replay_transaction once its guard has passed: inserts,
\* then deletes, straight into the replicated state.
Replay(cs, data) ==
  [ next_tx_offset       |-> cs.next_tx_offset + 1,
    replicated_tx_offset |-> cs.replicated_tx_offset + 1,
    replicated_state     |-> [k \in Key |->
      IF k \in data.deletes THEN NoValue
      ELSE IF k \in DOMAIN data.inserts THEN data.inserts[k]
      ELSE cs.replicated_state[k]],
    committed_diff       |-> cs.committed_diff ]

\* get_cur_offset: None while nothing was ever committed.
GetCurOffset(cs) == cs.next_tx_offset - 1

-----------------------------------------------------------------------------
(***************************************************************************)
(* What a log of transactions, a sequence of TxData, means for a key: the  *)
(* vocabulary of the properties. No code computes it.                      *)
(***************************************************************************)
Touches(data, k) == k \in data.deletes \/ k \in DOMAIN data.inserts

Writes(data, k, v) ==
  \/ k \in data.deletes /\ v = NoValue
  \/ k \notin data.deletes /\ k \in DOMAIN data.inserts /\ v = data.inserts[k]

\* The first n transactions of the log leave v in k.
LogLeaves(tx_log, n, k, v) ==
  \/ /\ v = NoValue
     /\ \A i \in 1 .. n : ~Touches(tx_log[i], k)
  \/ \E i \in 1 .. n :
       /\ Writes(tx_log[i], k, v)
       /\ \A j \in i + 1 .. n : ~Touches(tx_log[j], k)
=============================================================================
