---------------------------- MODULE MCTxDataSerde ----------------------------
(* TxDataSerde for TLC: lengths, numbers and offsets at the ends of bytes. *)
EXTENDS TxDataSerde

Text(n) == [i \in 1 .. n |-> 97]

\* Lengths of 0, 1, 127 and 128, and rows of those: a row with the one key is
\* three bytes longer than its value. 195, 169 is one letter of two bytes.
k1 == Text(1)
k2 == <<195, 169>>
MCDiffs ==
  {(k1 :> v) : v \in {<< >>, Text(124), Text(125), Text(127), Text(128), NoValue}}
  \cup {(k1 :> v) @@ (k2 :> w) : v, w \in {<< >>, k2, NoValue}}
  \cup {(Text(128) :> NoValue), << >>}

Numbers == {0, 127, 128, 16383, 16384, 2097151, 2097152, 268435455, 268435456, 2147483647}

MCOtherTxData ==
  {OnlyInserts(<<Inserts(n, << >>)>>) : n \in Numbers}
  \cup {[inserts |-> <<Inserts(1, <<k1, k2>>), Inserts(2, << >>)>>,
         deletes |-> <<[table_id |-> n, deletes |-> <<k2>>]>>,
         truncs |-> <<n, 3>>] : n \in {0, 128}}

MCFirstOffsets == {0, 255, 16777215}
=============================================================================
