------------------------- MODULE OmniPaxosDurability -------------------------
(***************************************************************************)
(* OmniPaxosDurability: what the node reads of the replicated log, and the *)
(* one thing it writes to it. Positions in the log count from 0, as in the *)
(* code; TLA+ sequences from 1.                                            *)
(***************************************************************************)
EXTENDS OmniPaxos

CONSTANT
  DecidedSlack  \* OmniPaxos::read labels position i Decided when
                \* i < decided_idx + DecidedSlack

ASSUME DecidedSlackAssumption == DecidedSlack \in {0, 1}

\* Option<TxOffset>::None. (Offsets count from 0.)
NoTxOffset == -1

\* DatabaseLogEntry
LogEntry(tx_offset, tx_data) == [tx_offset |-> tx_offset, tx_data |-> tx_data]

IsLeader(n) == GetCurrentLeader(n) = n

MinOf(a, b) == IF a <= b THEN a ELSE b

\* How many positions of n's log read labels Decided.
DecidedLen(n) == MinOf(decided_idx[n] + DecidedSlack, Len(log[n]))

DurableTxOffsetOptional_MutNoDecrement(n) ==
  LET position == decided_idx[n]
  IN  IF position < DecidedLen(n) THEN log[n][position + 1].tx_offset ELSE NoTxOffset

\* get_durable_tx_offset_optional: the tx_offset of the last decided entry.
DurableTxOffsetOptional(n) ==
  LET position == IF decided_idx[n] > 0 THEN decided_idx[n] - 1 ELSE 0
  IN  IF position < DecidedLen(n) THEN log[n][position + 1].tx_offset ELSE NoTxOffset

\* iter_starting_from_offset unwraps the entry at offset while nothing is
\* decided, and there may be none.
IterPanics(n, offset) == decided_idx[n] = 0 /\ offset >= Len(log[n])

IterStartingFromOffset_MutSkipsOne(n, offset) ==
  IF decided_idx[n] = 0
  THEN SubSeq(log[n], offset + 1, MinOf(offset + 1, DecidedLen(n)))
  ELSE SubSeq(log[n], offset + 3, DecidedLen(n))

(***************************************************************************)
(* iter_starting_from_offset: the single entry at offset while nothing is  *)
(* decided, else the positions offset + 1 .. decided_idx that exist; of    *)
(* those, the ones that read labels Decided.                               *)
(***************************************************************************)
IterStartingFromOffset(n, offset) ==
  IF decided_idx[n] = 0
  THEN SubSeq(log[n], offset + 1, MinOf(offset + 1, DecidedLen(n)))
  ELSE SubSeq(log[n], offset + 2, DecidedLen(n))

\* append_tx
AppendTx(n, tx_offset, tx_data) == AppendEntry(n, LogEntry(tx_offset, tx_data))
=============================================================================
