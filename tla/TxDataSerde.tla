----------------------------- MODULE TxDataSerde -----------------------------
(***************************************************************************)
(* A transaction as bytes: the rows of the datastore, the lists of TxData, *)
(* the entries of the log file; and the writer, which puts the bytes of    *)
(* one entry after the other into the file while anybody may read it, also *)
(* after the process died in the middle of an entry.                       *)
(*                                                                         *)
(* A String is the sequence of its bytes: as only those of Strings are     *)
(* written, from_utf8 has nothing to refuse. A reader is a function from   *)
(* the bytes there are to a set: the one <<value, rest>> it returns, or    *)
(* none at UnexpectedEof. Numbers are u32 and u64, none of them wraps.     *)
(***************************************************************************)
EXTENDS Integers, SequencesExt, FiniteSets

CONSTANTS
  Diffs,        \* the diffs of transactions that are committed
  OtherTxData,  \* TxData that no commit makes: of other tables, with truncs
  FirstOffsets, \* the log begins anywhere, after a restart
  NoValue,      \* what a diff says of a key that is deleted
  MaxEntries    \* bound

ASSUME MaxEntriesAssumption == MaxEntries \in Nat

VARIABLES
  file,      \* what is in the file
  src,       \* what is still to be written of an entry
  entry,     \* the entry that src is from
  next_tx_offset,
  written,   \* history: the entries whose last byte is in the file
  diff_at    \* history: the diff of each offset a commit had

vars == <<file, src, entry, next_tx_offset, written, diff_at>>

Byte == 0 .. 255
Bytes == Seq(Byte)

InsertLists == [table_id : Nat, inserts : Seq(Bytes)]
DeleteLists == [table_id : Nat, deletes : Seq(Bytes)]
TxDatas == [inserts : Seq(InsertLists), deletes : Seq(DeleteLists), truncs : Seq(Nat)]

ASSUME DiffsAssumption ==
  \A diff \in Diffs :
    /\ diff \in [DOMAIN diff -> {NoValue} \cup Bytes]
    /\ DOMAIN diff \subseteq Bytes /\ IsFiniteSet(DOMAIN diff)

ASSUME OtherTxDataAssumption == OtherTxData \subseteq TxDatas

ASSUME FirstOffsetsAssumption == FirstOffsets \subseteq Nat

-----------------------------------------------------------------------------
(* Numbers. *)

WriteVarint_MutStrict(value) ==
  LET bytes[v \in Nat] == IF v > 128 THEN <<(v % 128) + 128>> \o bytes[v \div 128] ELSE <<v>>
  IN  bytes[value]

\* Seven bits a byte, the lowest first, with the top bit set but in the last.
WriteVarint(value) ==
  LET bytes[v \in Nat] == IF v >= 128 THEN <<(v % 128) + 128>> \o bytes[v \div 128] ELSE <<v>>
  IN  bytes[value]

ReadVarint[s \in Bytes] ==
  IF s = << >> THEN {}
  ELSE IF Head(s) < 128 THEN {<<Head(s), Tail(s)>>}
  ELSE {<<(Head(s) % 128) + 128 * high[1], high[2]>> : high \in ReadVarint[Tail(s)]}

ToLeBytes_MutNoMask(n) ==
  LET left[i \in 1 .. 8] == IF i = 1 THEN n ELSE left[i - 1] \div 256
  IN  [i \in 1 .. 8 |-> left[i]]

ToLeBytes(n) ==
  LET left[i \in 1 .. 8] == IF i = 1 THEN n ELSE left[i - 1] \div 256
  IN  [i \in 1 .. 8 |-> left[i] % 256]

FromLeBytes(s) ==
  LET high[i \in 1 .. 8] == IF i = 8 THEN s[8] ELSE s[i] + 256 * high[i + 1]
  IN  high[1]

-----------------------------------------------------------------------------
(* Rows and lists. *)

\* serialize_row_data, and a String in a row: the length, then the bytes.
SerializeRowData(row_data) == WriteVarint(Len(row_data)) \o row_data

After(n, s) == SubSeq(s, n + 1, Len(s))

DeserializeRowData ==
  [s \in Bytes |-> {<<SubSeq(len[2], 1, len[1]), After(len[1], len[2])>> :
                      len \in {l \in ReadVarint[s] : l[1] <= Len(l[2])}}]

\* One reader after the other.
Then(First, Second) ==
  [s \in Bytes |-> UNION {{<< <<a[1], b[1]>>, b[2]>> : b \in Second[a[2]]} : a \in First[s]}]

\* The number of items, and each of them.
WriteList(items) == WriteVarint(Len(items)) \o FlattenSeq(items)

ReadItems(Read, num, s) ==
  LET reads[n \in Nat] ==
        IF n = 0 THEN {<< << >>, s>>}
        ELSE UNION {{<<Append(r[1], item[1]), item[2]>> : item \in Read[r[2]]} : r \in reads[n - 1]}
  IN  reads[num]

ReadList(Read) == [s \in Bytes |-> UNION {ReadItems(Read, num[1], num[2]) : num \in ReadVarint[s]}]

SerializeInsertList(list) ==
  WriteVarint(list.table_id)
    \o WriteList([i \in DOMAIN list.inserts |-> SerializeRowData(list.inserts[i])])

DeserializeInsertList ==
  [s \in Bytes |-> {<<[table_id |-> l[1][1], inserts |-> l[1][2]], l[2]>> :
                      l \in Then(ReadVarint, ReadList(DeserializeRowData))[s]}]

SerializeDeleteList(list) ==
  WriteVarint(list.table_id)
    \o WriteList([i \in DOMAIN list.deletes |-> SerializeRowData(list.deletes[i])])

DeserializeDeleteList ==
  [s \in Bytes |-> {<<[table_id |-> l[1][1], deletes |-> l[1][2]], l[2]>> :
                      l \in Then(ReadVarint, ReadList(DeserializeRowData))[s]}]

SerializeTxData(data) ==
  WriteList([i \in DOMAIN data.inserts |-> SerializeInsertList(data.inserts[i])])
    \o WriteList([i \in DOMAIN data.deletes |-> SerializeDeleteList(data.deletes[i])])
    \o WriteList([i \in DOMAIN data.truncs |-> WriteVarint(data.truncs[i])])

DeserializeTxData ==
  LET Lists == Then(ReadList(DeserializeInsertList), ReadList(DeserializeDeleteList))
  IN  [s \in Bytes |-> {<<[inserts |-> l[1][1][1], deletes |-> l[1][1][2], truncs |-> l[1][2]], l[2]>> :
                          l \in Then(Lists, ReadList(ReadVarint))[s]}]

\* What the tests of serde.rs expect.
Inserts(id, rows) == [table_id |-> id, inserts |-> rows]
OnlyInserts(lists) == [inserts |-> lists, deletes |-> << >>, truncs |-> << >>]

ASSUME SerdeTests ==
  /\ SerializeTxData(OnlyInserts(<< >>)) = <<0, 0, 0>>
  /\ SerializeTxData(OnlyInserts(<<Inserts(42, << >>), Inserts(33, << >>)>>)) =
       <<2, 42, 0, 33, 0, 0, 0>>
  /\ SerializeTxData(OnlyInserts(<<Inserts(42, << <<1, 2, 3, 4, 5>> >>),
                                   Inserts(33, << <<6, 7, 8, 9, 10>> >>)>>)) =
       <<2, 42, 1, 5, 1, 2, 3, 4, 5, 33, 1, 5, 6, 7, 8, 9, 10, 0, 0>>

-----------------------------------------------------------------------------
(* What a commit makes of its diff, and a replay of that. *)

SerializeExampleRow_MutNoKeyLength(row) == row.key \o SerializeRowData(row.value)

SerializeExampleRow(row) == SerializeRowData(row.key) \o SerializeRowData(row.value)

DeserializeExampleRow(s) ==
  {[key |-> row[1][1], value |-> row[1][2]] :
     row \in Then(DeserializeRowData, DeserializeRowData)[s]}

\* The diff is a HashMap: its keys come in any order.
TxDataOf(diff) ==
  LET deleted == {key \in DOMAIN diff : diff[key] = NoValue}
      Row(key) == SerializeExampleRow([key |-> key, value |-> diff[key]])
      Data(inserts, deletes) ==
        [ inserts |-> <<Inserts(0, [i \in DOMAIN inserts |-> Row(inserts[i])])>>,
          deletes |-> <<[table_id |-> 0, deletes |-> deletes]>>,
          truncs  |-> << >> ]
  IN  {Data(i, d) : i \in SetToSeqs(DOMAIN diff \ deleted), d \in SetToSeqs(deleted)}

\* A map with one entry more, or another one for its key.
Put(map, key, value) ==
  [k \in DOMAIN map \cup {key} |-> IF k = key THEN value ELSE map[k]]

InsertRow(diffs, row_data) ==
  {Put(diff, row.key, row.value) : diff \in diffs, row \in DeserializeExampleRow(row_data)}

DeleteRow(diffs, key) == {Put(diff, key, NoValue) : diff \in diffs}

\* What replay_transaction does to a state, as a diff: the inserts, then the
\* deletes. None, if a row cannot be read or is of another table.
ReplayedDiffs(data) ==
  LET rows == FlattenSeq([i \in DOMAIN data.inserts |-> data.inserts[i].inserts])
      keys == FlattenSeq([i \in DOMAIN data.deletes |-> data.deletes[i].deletes])
      inserted[n \in 0 .. Len(rows)] ==
        IF n = 0 THEN {<< >>}
        ELSE InsertRow(inserted[n - 1], rows[n])
      deleted[n \in 0 .. Len(keys)] ==
        IF n = 0 THEN inserted[Len(rows)]
        ELSE DeleteRow(deleted[n - 1], keys[n])
  IN  IF \A list \in ToSet(data.inserts) \cup ToSet(data.deletes) : list.table_id = 0
      THEN deleted[Len(keys)] ELSE {}

-----------------------------------------------------------------------------
(* The file. *)

SerializeLogEntry(e) == ToLeBytes(e.tx_offset) \o SerializeTxData(e.tx_data)

ReadTxOffset ==
  [s \in Bytes |-> IF Len(s) < 8 THEN {} ELSE {<<FromLeBytes(SubSeq(s, 1, 8)), After(8, s)>>}]

DeserializeLogEntry ==
  [s \in Bytes |-> {<<[tx_offset |-> e[1][1], tx_data |-> e[1][2]], e[2]>> :
                      e \in Then(ReadTxOffset, DeserializeTxData)[s]}]

\* Entries, until one cannot be read.
Iter(s) ==
  LET entries[rest \in Bytes] ==
        LET reads == DeserializeLogEntry[rest]
        IN  IF reads = {} THEN << >>
            ELSE LET read == CHOOSE r \in reads : TRUE
                 IN  <<read[1]>> \o entries[read[2]]
  IN  entries[s]

NoEntry == [tx_offset |-> -1]

Init ==
  /\ file = << >>
  /\ src = << >>
  /\ entry = NoEntry
  /\ next_tx_offset \in FirstOffsets
  /\ written = << >>
  /\ diff_at = << >>

\* The task receives the next transaction and serialises it.
Receive(data) ==
  /\ src = << >>
  /\ Len(written) < MaxEntries
  /\ entry' = [tx_offset |-> next_tx_offset, tx_data |-> data]
  /\ src' = SerializeLogEntry(entry')
  /\ next_tx_offset' = next_tx_offset + 1
  /\ UNCHANGED <<file, written>>

ReceiveCommit(diff) ==
  /\ \E data \in TxDataOf(diff) : Receive(data)
  /\ diff_at' = Put(diff_at, next_tx_offset, diff)

ReceiveOther(data) == Receive(data) /\ UNCHANGED diff_at

\* write_all: what a reader finds in the file may end at any byte.
WriteByte ==
  /\ src # << >>
  /\ file' = Append(file, Head(src))
  /\ src' = Tail(src)
  /\ written' = IF Len(src) = 1 THEN Append(written, entry) ELSE written
  /\ UNCHANGED <<entry, next_tx_offset, diff_at>>

Next ==
  \/ \E diff \in Diffs : ReceiveCommit(diff)
  \/ \E data \in OtherTxData : ReceiveOther(data)
  \/ WriteByte

Spec == Init /\ [][Next]_vars

-----------------------------------------------------------------------------
(***************************************************************************)
(* What is written are bytes, and all of an entry.                         *)
(***************************************************************************)
TypeOK ==
  /\ file \in Bytes /\ src \in Bytes
  /\ Len(written) <= MaxEntries
  /\ DOMAIN diff_at \subseteq Nat

(***************************************************************************)
(* Whenever the log is read, also while an entry is being written or after *)
(* the writer died in the middle of one, iter yields the entries that are  *)
(* wholly written, as they were, and nothing else: an entry shows its own  *)
(* end, and no part of it is taken for an entry. (This is why a write is   *)
(* one step in FileDurability.)                                            *)
(***************************************************************************)
IterYieldsWritten == Iter(file) = written

(***************************************************************************)
(* What a replica replays of an entry it has read is the diff that was     *)
(* committed at that offset, in whatever order its keys came. (This is why *)
(* TxData is a diff in CommittedState.)                                    *)
(***************************************************************************)
ReplayIsCommit ==
  \A e \in ToSet(Iter(file)) :
    e.tx_offset \in DOMAIN diff_at => ReplayedDiffs(e.tx_data) = {diff_at[e.tx_offset]}
=============================================================================
