------------------------- MODULE ReplicatedDatabase -------------------------
(***************************************************************************)
(* What the cluster promises to a client that reads at Replicated: there   *)
(* is one log of chosen transactions, it only grows, and what a server     *)
(* shows is always the effect of some prefix of it, at every server a      *)
(* longer and longer one. Leaders, elections, the copies of the log and    *)
(* what is only committed in memory do not show.                           *)
(***************************************************************************)
EXTENDS CommittedState

CONSTANT Server

VARIABLES
  chosen,   \* the chosen transactions, a sequence of TxData
  applied,  \* how many of them each server has applied
  view      \* what a read at Replicated sees at each server

vars == <<chosen, applied, view>>

Init ==
  /\ chosen = << >>
  /\ applied = [n \in Server |-> 0]
  /\ view = [n \in Server |-> [k \in Key |-> NoValue]]

Choose ==
  /\ \E data \in TxData : chosen' = Append(chosen, data)
  /\ UNCHANGED <<applied, view>>

\* What the first m chosen transactions leave in the keys.
StateAfter(m) ==
  [k \in Key |-> CHOOSE v \in ValueOrNone : LogLeaves(chosen, m, k, v)]

Apply(n) ==
  /\ \E m \in applied[n] + 1 .. Len(chosen) :
       /\ applied' = [applied EXCEPT ![n] = m]
       /\ view' = [view EXCEPT ![n] = StateAfter(m)]
  /\ UNCHANGED chosen

Next == Choose \/ \E n \in Server : Apply(n)

Spec == Init /\ [][Next]_vars

\* Every server catches up.
FairSpec == Spec /\ \A n \in Server : WF_vars(Apply(n))
=============================================================================
