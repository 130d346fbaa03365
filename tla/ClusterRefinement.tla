-------------------------- MODULE ClusterRefinement --------------------------
(***************************************************************************)
(* Cluster implements ReplicatedDatabase.                                  *)
(***************************************************************************)
EXTENDS Cluster

MostDecided == MaxOf({decided_idx[n] : n \in Server})

(***************************************************************************)
(* The longest log that some server knows decided. The first transaction   *)
(* is an exception: read labels it Decided as soon as it is in the log, so *)
(* the nodes apply it before a majority has it.                            *)
(***************************************************************************)
ChosenLog ==
  LET n == CHOOSE m \in Server : decided_idx[m] = MostDecided
  IN  IF MostDecided = 0 /\ commits > 0
      THEN << TxDataOf(Transactions[1]) >>
      ELSE SubSeq(TxDataLog(n), 1, MostDecided)

Database == INSTANCE ReplicatedDatabase WITH
  chosen  <- ChosenLog,
  applied <- [n \in Server |-> node[n].datastore.replicated_tx_offset + 1],
  view    <- [n \in Server |->
                [k \in Key |-> Get(node[n].datastore, k, Replicated)]]

(***************************************************************************)
(* Reads at Replicated move forward along one log of chosen transactions   *)
(* at every server, whatever elections, rollbacks and replays happen       *)
(* below: "Verify that the transaction was first committed in memory but   *)
(* later rolled back" (tests.rs) at Memory only.                           *)
(***************************************************************************)
ImplementsReplicatedDatabase == Database!Spec

\* And they all catch up: Fairness carries over.
CatchesUp == Database!FairSpec
=============================================================================
