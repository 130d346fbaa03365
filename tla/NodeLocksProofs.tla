--------------------------- MODULE NodeLocksProofs ---------------------------
(***************************************************************************)
(* A thread that waits for the RwLock of its node waits for ever, however  *)
(* many clients there are.                                                 *)
(***************************************************************************)
EXTENDS NodeLocks, TLAPS

(***************************************************************************)
(* The locks and the calls of a node keep their types: a step of a thread  *)
(* gives the mutex and the guards to a thread of this node or to nobody.   *)
(***************************************************************************)
THEOREM TypeCorrect == Spec => []TypeOK
<1>1. Init => TypeOK
  BY DEF Init, TypeOK, Nobody, Runner, Thread, NoCall
<1>2. TypeOK /\ [Next]_vars => TypeOK'
  <2> SUFFICES ASSUME TypeOK, [Next]_vars PROVE TypeOK'
    OBVIOUS
  <2>1. ASSUME NEW t \in Thread, CallNode(t) PROVE TypeOK'
    <3>1. \A s \in Thread : NextCalls(s) \subseteq ClientCall \cup RunnerCall
      BY DEF NextCalls, ClientCall, RunnerCall
    <3> QED
      BY <2>1, <3>1 DEF CallNode, TypeOK
  <2>2. ASSUME NEW t \in Thread, Lock(t) PROVE TypeOK'
    BY <2>2 DEF Lock, TypeOK
  <2>3. ASSUME NEW c \in Client,
               BeginTx(c) \/ ReleaseTx(c) \/ BeginMutTx(c) \/ CommitMutTx(c)
        PROVE  TypeOK'
    BY <2>3 DEF BeginTx, ReleaseTx, BeginMutTx, CommitMutTx, Return, TypeOK
  <2>4. CASE HandleIncoming
    BY <2>4 DEF HandleIncoming, Return, TypeOK
  <2>5. CASE UpdateLeader
    BY <2>5 DEF UpdateLeader, RunnerCall, TypeOK
  <2>6. CASE ApplyReplicatedTxns
    BY <2>6 DEF ApplyReplicatedTxns, Return, TypeOK
  <2>7. CASE UNCHANGED vars
    BY <2>7 DEF vars, TypeOK
  <2> QED
    BY <2>1, <2>2, <2>3, <2>4, <2>5, <2>6, <2>7 DEF Next, Finish, Thread
<1> QED
  BY <1>1, <1>2, PTL DEF Spec

(***************************************************************************)
(* Whoever finds the RwLock taken has the node's mutex, and whoever could  *)
(* give a guard back needs that mutex first: so no step of any thread ends *)
(* the wait. In begin_mut_tx, begin_tx and the poll alike.                 *)
(***************************************************************************)
THEOREM GuardsAreNeverGivenBack == Spec => WaitIsForever
<1>1. ASSUME TypeOK, [Next]_vars, NEW t \in Thread, WaitsForGuard(t)
      PROVE  WaitsForGuard(t)'
  <2>1. mutex = t /\ call[t] # NoCall /\ mutex # Nobody
    BY <1>1, ClientAssumption DEF WaitsForGuard, In, NoCall, Thread, Nobody, Runner
  <2>2. ASSUME NEW s \in Thread, CallNode(s) PROVE WaitsForGuard(t)'
    BY <1>1, <2>1, <2>2
    DEF CallNode, WaitsForGuard, In, NoWriter, NoGuard, TypeOK
  <2>3. ASSUME NEW s \in Thread PROVE ~Lock(s)
    BY <2>1 DEF Lock
  <2>4. ASSUME NEW c \in Client
        PROVE  ~(BeginTx(c) \/ ReleaseTx(c) \/ BeginMutTx(c) \/ CommitMutTx(c))
    BY <1>1, <2>1
    DEF BeginTx, ReleaseTx, BeginMutTx, CommitMutTx, WaitsForGuard, In, NoWriter, NoGuard
  <2>5. ~(HandleIncoming \/ UpdateLeader \/ ApplyReplicatedTxns)
    BY <1>1, <2>1
    DEF HandleIncoming, UpdateLeader, ApplyReplicatedTxns, WaitsForGuard, In, NoWriter, NoGuard
  <2>6. CASE UNCHANGED vars
    BY <1>1, <2>6 DEF vars, WaitsForGuard, In, NoWriter, NoGuard
  <2> QED
    BY <1>1, <2>2, <2>3, <2>4, <2>5, <2>6 DEF Next, Finish, Thread
<1>2. TypeOK /\ [Next]_vars => [\A t \in Thread : WaitsForGuard(t) => WaitsForGuard(t)']_vars
  BY <1>1
<1> QED
  BY <1>2, TypeCorrect, PTL DEF Spec, WaitIsForever
=============================================================================
