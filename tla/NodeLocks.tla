------------------------------ MODULE NodeLocks ------------------------------
(***************************************************************************)
(* Who waits for whom at one node: its mutex, the RwLock of its datastore, *)
(* the runner and the clients that share them.                             *)
(*                                                                         *)
(* Every call of a Node is made under its mutex, and a call that needs the *)
(* RwLock waits for it with the mutex held. A Tx or a MutTx keeps its      *)
(* guard of the RwLock between two calls, and ends through a call again,   *)
(* as the tests do it. (A Tx that only goes out of scope is dropped        *)
(* without the mutex.) The mutexes of the datastore and of omnipaxos are   *)
(* left out: who takes one holds the node's, so nobody waits for them.     *)
(*                                                                         *)
(* Data are left out but for what decides whether a call needs the RwLock. *)
(***************************************************************************)
CONSTANT Client

VARIABLES
  mutex,    \* the thread that has the node's mutex
  readers,  \* the clients with a Tx, each a read guard
  writer,   \* the client with a MutTx, the write guard
  call,     \* the call each thread is in, waiting for the mutex or with it
  leads,    \* is_leader of the node's omnipaxos
  news      \* what the next poll will have to do at the datastore

vars == <<mutex, readers, writer, call, leads, news>>

Nobody == "Nobody"
Runner == "Runner"
Thread == Client \cup {Runner}

ASSUME ClientAssumption == {Nobody, Runner} \cap Client = {}

NoCall == "NoCall"
ClientCall == {"begin_tx", "release_tx", "begin_mut_tx", "commit_mut_tx"}
RunnerCall == {"handle_incoming", "update_leader", "apply_replicated_txns"}

\* A leader has lost or won its place; an entry is decided and not applied.
News == {"leader", "decided"}

TypeOK ==
  /\ mutex \in Thread \cup {Nobody}
  /\ readers \subseteq Client
  /\ writer \in Client \cup {Nobody}
  /\ call \in [Thread -> {NoCall} \cup ClientCall \cup RunnerCall]
  /\ leads \in BOOLEAN
  /\ news \subseteq News

Init ==
  /\ mutex = Nobody
  /\ readers = {}
  /\ writer = Nobody
  /\ call = [t \in Thread |-> NoCall]
  /\ leads = FALSE
  /\ news = {}

-----------------------------------------------------------------------------
\* The calls a thread may make next. A client has one transaction at a time;
\* the runner handles a message or starts a poll.
NextCalls(t) ==
  IF t = Runner THEN {"handle_incoming", "update_leader"}
  ELSE IF t \in readers THEN {"release_tx"}
  ELSE IF t = writer THEN {"commit_mut_tx"}
  ELSE {"begin_tx", "begin_mut_tx"}

CallNode(t) ==
  /\ call[t] = NoCall
  /\ \E name \in NextCalls(t) : call' = [call EXCEPT ![t] = name]
  /\ UNCHANGED <<mutex, readers, writer, leads, news>>

\* node.lock().unwrap()
Lock(t) ==
  /\ call[t] # NoCall
  /\ mutex = Nobody
  /\ mutex' = t
  /\ UNCHANGED <<readers, writer, call, leads, news>>

In(t, name) == mutex = t /\ call[t] = name

Return(t) ==
  /\ mutex' = Nobody
  /\ call' = [call EXCEPT ![t] = NoCall]

NoWriter == writer = Nobody
NoGuard == writer = Nobody /\ readers = {}

BeginTx(c) ==
  /\ In(c, "begin_tx")
  /\ NoWriter
  /\ readers' = readers \cup {c}
  /\ Return(c)
  /\ UNCHANGED <<writer, leads, news>>

ReleaseTx_MutOutsideMutex(c) ==
  /\ call[c] = "release_tx"
  /\ readers' = readers \ {c}
  /\ call' = [call EXCEPT ![c] = NoCall]
  /\ UNCHANGED <<mutex, writer, leads, news>>

ReleaseTx(c) ==
  /\ In(c, "release_tx")
  /\ readers' = readers \ {c}
  /\ Return(c)
  /\ UNCHANGED <<writer, leads, news>>

BeginMutTx_MutErrorKeepsMutex(c) ==
  /\ In(c, "begin_mut_tx")
  /\ \/ ~leads /\ UNCHANGED <<mutex, writer>>
     \/ leads /\ NoGuard /\ writer' = c /\ mutex' = Nobody
  /\ call' = [call EXCEPT ![c] = NoCall]
  /\ UNCHANGED <<readers, leads, news>>

\* NotLeader, or wait for the write guard.
BeginMutTx(c) ==
  /\ In(c, "begin_mut_tx")
  /\ \/ ~leads /\ UNCHANGED writer
     \/ leads /\ NoGuard /\ writer' = c
  /\ Return(c)
  /\ UNCHANGED <<readers, leads, news>>

\* Committed or NotLeader: the MutTx is consumed, and its guard with it.
CommitMutTx(c) ==
  /\ In(c, "commit_mut_tx")
  /\ writer' = Nobody
  /\ Return(c)
  /\ UNCHANGED <<readers, leads, news>>

-----------------------------------------------------------------------------
\* tick or handle_incoming: omnipaxos alone changes.
HandleIncoming ==
  /\ In(Runner, "handle_incoming")
  /\ leads' \in BOOLEAN
  /\ news' \in {news \cup more : more \in SUBSET News}
  /\ Return(Runner)
  /\ UNCHANGED <<readers, writer>>

\* What is new since the last poll needs the write guard: a deposed leader
\* rolls back, a promoted one applies what is decided. The other call of the
\* poll follows, for which the runner locks the node again.
UpdateLeader ==
  /\ In(Runner, "update_leader")
  /\ "leader" \in news => NoGuard
  /\ news' = news \ {"leader"}
  /\ mutex' = Nobody
  /\ call' = [call EXCEPT ![Runner] = "apply_replicated_txns"]
  /\ UNCHANGED <<readers, writer, leads>>

\* Advance or replay; before that a promoted leader reads get_cur_offset.
ApplyReplicatedTxns ==
  /\ In(Runner, "apply_replicated_txns")
  /\ "decided" \in news => NoGuard
  /\ news' = news \ {"decided"}
  /\ Return(Runner)
  /\ UNCHANGED <<readers, writer, leads>>

\* What a thread does once it has the mutex.
Finish(t) ==
  IF t = Runner
  THEN HandleIncoming \/ UpdateLeader \/ ApplyReplicatedTxns
  ELSE BeginTx(t) \/ ReleaseTx(t) \/ BeginMutTx(t) \/ CommitMutTx(t)

Next == \E t \in Thread : CallNode(t) \/ Lock(t) \/ Finish(t)

Spec == Init /\ [][Next]_vars

(***************************************************************************)
(* A client goes on with the transaction it has begun, and whoever has the *)
(* mutex goes on when it can. Nobody who waits for the mutex is passed     *)
(* over for ever.                                                          *)
(***************************************************************************)
FairSpec ==
  /\ Spec
  /\ \A t \in Thread : SF_vars(Lock(t)) /\ WF_vars(Finish(t))
  /\ \A c \in Client : WF_vars(CallNode(c) /\ c \in readers \cup {writer})

-----------------------------------------------------------------------------
\* t has the node's mutex, and needs a guard that somebody else holds.
WaitsForGuard(t) ==
  \/ In(t, "begin_tx") /\ ~NoWriter
  \/ In(t, "begin_mut_tx") /\ leads /\ ~NoGuard
  \/ In(t, "update_leader") /\ "leader" \in news /\ ~NoGuard
  \/ In(t, "apply_replicated_txns") /\ "decided" \in news /\ ~NoGuard

(***************************************************************************)
(* Whoever waits for the RwLock waits for ever, on whatever thread: it     *)
(* holds the mutex without which no guard is given back. So begin_mut_tx   *)
(* never waits its turn, and the poll never waits for a reader: either     *)
(* finds the RwLock free, or the node is lost. ("Warning: This will        *)
(* deadlock if used on the same thread as an open mutable transaction",    *)
(* get_cur_offset, is true of the poll's own thread as well.)              *)
(***************************************************************************)
WaitIsForever == [][\A t \in Thread : WaitsForGuard(t) => WaitsForGuard(t)']_vars

\* Every call returns.
CallsReturn == \A t \in Thread : call[t] # NoCall ~> call[t] = NoCall

(***************************************************************************)
(* There is no other way to get stuck: as long as nobody meets a guard,    *)
(* every call of every thread returns.                                     *)
(***************************************************************************)
UncontendedCallsReturn == [](\A t \in Thread : ~WaitsForGuard(t)) => CallsReturn
=============================================================================
