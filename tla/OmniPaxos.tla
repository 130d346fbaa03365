------------------------------ MODULE OmniPaxos ------------------------------
(***************************************************************************)
(* The omnipaxos crate as the repository uses it (EXTERNAL: its source is  *)
(* not in the repository). What the code in src/ can see of it is, at      *)
(* every server, get_current_leader, get_decided_idx, read and append, so  *)
(* that is what is kept: the ballot a server has promised, its log, how    *)
(* much of it is decided.                                                  *)
(*                                                                         *)
(* What a leader sends in a ballot stays readable in the record of the     *)
(* ballot, and a follower takes it in order, one message a step: a message *)
(* that is late is a step not taken yet, and one that is lost a step never *)
(* taken. A server elects itself at any moment, which is what the timeouts  *)
(* of ballot leader election and every pattern of connectivity amount to   *)
(* as far as safety goes.                                                  *)
(***************************************************************************)
EXTENDS Integers, Sequences, FiniteSets

CONSTANTS
  Server,     \* the node ids
  MaxBallot   \* bound: the number of elections

NoLeader == "NoLeader"

ASSUME ServerAssumption == IsFiniteSet(Server) /\ Server # {}
ASSUME NoLeaderAssumption == NoLeader \notin Server
ASSUME MaxBallotAssumption == MaxBallot \in Nat

VARIABLES
  ballots,         \* what the leader of each ballot has sent, see Lead
  promised,        \* the ballot of each server, 0 before the first
  log,             \* the log in the MemoryStorage of each server
  accepted_round,  \* the ballot in which a server's log was last written
  decided_idx      \* how many entries of its log a server knows decided

paxos_vars == <<ballots, promised, log, accepted_round, decided_idx>>

Ballot == 1 .. Len(ballots)

IsQuorum(Q) == 2 * Cardinality(Q) > Cardinality(Server)

MaxOf(S) == CHOOSE x \in S : \A y \in S : y <= x

PaxosInit ==
  /\ ballots = << >>
  /\ promised = [n \in Server |-> 0]
  /\ log = [n \in Server |-> << >>]
  /\ accepted_round = [n \in Server |-> 0]
  /\ decided_idx = [n \in Server |-> 0]

-----------------------------------------------------------------------------
\* OmniPaxos::get_current_leader: the server whose ballot is promised.
GetCurrentLeader(n) ==
  IF promised[n] = 0 THEN NoLeader ELSE ballots[promised[n]].leader

(***************************************************************************)
(* Election and Prepare: n promises its own ballot. In the record of the   *)
(* ballot, ready says that Prepare is over; log is the leader's log, while *)
(* Prepare lasts only what is proposed in it; adopted is the length it had *)
(* when it became ready; decided is the leader's decided index, decided_at *)
(* what that was when each entry was appended.                             *)
(***************************************************************************)
Lead(n) ==
  /\ Len(ballots) < MaxBallot
  /\ ballots' = Append(ballots, [ leader |-> n, ready |-> FALSE, adopted |-> 0,
                                   log |-> << >>, decided_at |-> << >>, decided |-> 0 ])
  /\ promised' = [promised EXCEPT ![n] = Len(ballots) + 1]
  /\ UNCHANGED <<log, accepted_round, decided_idx>>

\* A server receives Prepare of a higher ballot.
Promise(n, b) ==
  /\ b > promised[n]
  /\ promised' = [promised EXCEPT ![n] = b]
  /\ UNCHANGED <<ballots, log, accepted_round, decided_idx>>

MostUpdated_MutAnyLength(m, Q) == \A q \in Q : accepted_round[q] <= accepted_round[m]

\* m's log is the one to adopt among Q: last written in the highest ballot,
\* the longest of those.
MostUpdated(m, Q) ==
  \A q \in Q :
    \/ accepted_round[q] < accepted_round[m]
    \/ accepted_round[q] = accepted_round[m] /\ Len(log[q]) <= Len(log[m])

\* A majority has promised n's ballot: n adopts the most updated log and
\* appends to it what was proposed meanwhile.
Prepared(n) ==
  LET b == promised[n]
      Q == {m \in Server : promised[m] = b}
  IN  /\ b # 0
      /\ ballots[b].leader = n /\ ~ballots[b].ready
      /\ IsQuorum(Q)
      /\ \E m \in {q \in Q : MostUpdated(q, Q)} :
           LET adopted == log[m] \o ballots[b].log
               decided == MaxOf({decided_idx[q] : q \in Q})
           IN  /\ log' = [log EXCEPT ![n] = adopted]
               /\ accepted_round' = [accepted_round EXCEPT ![n] = b]
               /\ decided_idx' = [decided_idx EXCEPT ![n] = decided]
               /\ ballots' = [ballots EXCEPT ![b] =
                    [ leader |-> n, ready |-> TRUE,
                      adopted |-> Len(adopted), log |-> adopted,
                      decided_at |-> [i \in 1 .. Len(adopted) |-> decided],
                      decided |-> decided ]]
      /\ UNCHANGED promised

\* n follows a ballot that has its log.
Follows(n) ==
  /\ promised[n] # 0
  /\ ballots[promised[n]].ready
  /\ ballots[promised[n]].leader # n

\* What a follower that has the leader's first i entries is told decided
\* before it is sent the next one.
DecidedAfter(b, i) ==
  IF i < Len(ballots[b].log) THEN ballots[b].decided_at[i + 1] ELSE ballots[b].decided

\* AcceptSync: the leader's log as it was when it was sent, with i entries.
AcceptSync(n, i) ==
  LET b == promised[n]
  IN  /\ Follows(n)
      /\ accepted_round[n] # b
      /\ i \in ballots[b].adopted .. Len(ballots[b].log)
      /\ log' = [log EXCEPT ![n] = SubSeq(ballots[b].log, 1, i)]
      /\ accepted_round' = [accepted_round EXCEPT ![n] = b]
      /\ decided_idx' = [decided_idx EXCEPT ![n] = MaxOf({@, DecidedAfter(b, i)})]
      /\ UNCHANGED <<ballots, promised>>

\* Decide: the leader's decided index.
LearnDecided(n) ==
  LET decided == DecidedAfter(promised[n], Len(log[n]))
  IN  /\ Follows(n)
      /\ accepted_round[n] = promised[n]
      /\ decided_idx[n] < decided
      /\ decided_idx' = [decided_idx EXCEPT ![n] = decided]
      /\ UNCHANGED <<ballots, promised, log, accepted_round>>

\* AcceptDecide: the next entry, after what was decided before it.
AcceptDecide(n) ==
  LET b == promised[n]
  IN  /\ Follows(n)
      /\ accepted_round[n] = b
      /\ Len(log[n]) < Len(ballots[b].log)
      /\ decided_idx[n] >= DecidedAfter(b, Len(log[n]))
      /\ log' = [log EXCEPT ![n] = Append(@, ballots[b].log[Len(@) + 1])]
      /\ UNCHANGED <<ballots, promised, accepted_round, decided_idx>>

AcceptedBy_MutAnyRound(b, i) == {m \in Server : Len(log[m]) >= i}

\* The servers that have the first i entries of ballot b.
AcceptedBy(b, i) == {m \in Server : accepted_round[m] = b /\ Len(log[m]) >= i}

\* The leader of a ballot learns that a majority accepted its first i entries.
Decide(n) ==
  LET b == promised[n]
  IN  /\ b # 0
      /\ ballots[b].leader = n /\ ballots[b].ready
      /\ \E i \in decided_idx[n] + 1 .. Len(log[n]) :
           /\ IsQuorum(AcceptedBy(b, i))
           /\ decided_idx' = [decided_idx EXCEPT ![n] = i]
           /\ ballots' = [ballots EXCEPT ![b].decided = i]
      /\ UNCHANGED <<promised, log, accepted_round>>

\* append at the leader, buffered in the ballot while Prepare lasts.
AppendEntry(n, entry) ==
  LET b == promised[n]
  IN  /\ ballots' = [ballots EXCEPT ![b].log = Append(@, entry),
                                    ![b].decided_at = Append(@, ballots[b].decided)]
      /\ log' = IF ballots[b].ready THEN [log EXCEPT ![n] = Append(@, entry)] ELSE log
      /\ UNCHANGED <<promised, accepted_round, decided_idx>>

-----------------------------------------------------------------------------
\* Two servers agree on what both know decided.
DecidedAgreement ==
  \A m, n \in Server :
    decided_idx[m] <= decided_idx[n] =>
      SubSeq(log[m], 1, decided_idx[m]) = SubSeq(log[n], 1, decided_idx[m])

(***************************************************************************)
(* What a server knows decided stays decided, and stays as it is, whatever *)
(* log it adopts later.                                                    *)
(***************************************************************************)
DecidedIsStable ==
  [][\A n \in Server :
       /\ decided_idx[n] <= decided_idx'[n] /\ decided_idx[n] <= Len(log'[n])
       /\ SubSeq(log'[n], 1, decided_idx[n]) = SubSeq(log[n], 1, decided_idx[n])
    ]_paxos_vars
=============================================================================
