--------------------------- MODULE OmniPaxosProofs ---------------------------
(***************************************************************************)
(* Why two servers agree on what both know decided, for every finite set   *)
(* of servers, any number of ballots and any log entries.                  *)
(*                                                                         *)
(* The argument goes over the records of the ballots. A ballot that is     *)
(* ready has adopted the first i entries of every lower one, or else those *)
(* i entries are Blocked there: a majority has left that ballot without    *)
(* them, for good. An index that a leader decides is held by a majority,   *)
(* which meets every other, so it is not Blocked: it is Chosen, every      *)
(* higher ballot that is ready starts with it, and so does every higher    *)
(* ballot that becomes ready later. Whatever a server knows decided was    *)
(* Chosen in the ballot that its log is from or in a lower one.            *)
(***************************************************************************)
EXTENDS OmniPaxos, FiniteSetTheorems, WellFoundedInduction, TLAPS

\* What a server can do, whoever it is that appends entries at a leader.
PaxosStep(n, Entry) ==
  \/ Lead(n)
  \/ \E b \in Ballot : Promise(n, b)
  \/ Prepared(n)
  \/ \E i \in Nat : AcceptSync(n, i)
  \/ LearnDecided(n)
  \/ AcceptDecide(n)
  \/ Decide(n)
  \/ \E entry \in Entry : GetCurrentLeader(n) = n /\ AppendEntry(n, entry)

PaxosNext(Entry) == \E n \in Server : PaxosStep(n, Entry)

PaxosSpec(Entry) == PaxosInit /\ [][PaxosNext(Entry)]_paxos_vars

-----------------------------------------------------------------------------
BallotRecord(Entry) ==
  [ leader : Server, ready : BOOLEAN, adopted : Nat,
    log : Seq(Entry), decided_at : Seq(Nat), decided : Nat ]

PaxosTypeOK(Entry) ==
  /\ ballots \in Seq(BallotRecord(Entry))
  /\ promised \in [Server -> Nat]
  /\ log \in [Server -> Seq(Entry)]
  /\ accepted_round \in [Server -> Nat]
  /\ decided_idx \in [Server -> Nat]

Ready(b) == b \in Ballot /\ ballots[b].ready

\* s and t have the same first i elements.
Agree(s, t, i) == i <= Len(s) /\ i <= Len(t) /\ \A j \in 1 .. i : s[j] = t[j]

\* What is sent in a ballot is in step: no entry is followed by a decided
\* index that the entries before it do not reach.
BallotsOK ==
  \A b \in Ballot :
    LET r == ballots[b]
    IN  /\ Len(r.decided_at) = Len(r.log)
        /\ r.decided <= Len(r.log) /\ r.adopted <= Len(r.log)
        /\ ~r.ready => r.adopted = 0 /\ r.decided = 0
        /\ \A j \in 1 .. Len(r.log) :
             /\ r.decided_at[j] <= r.decided
             /\ r.adopted < j => r.decided_at[j] < j

\* A log is a beginning of the log of the ballot it was accepted in.
ServerOK(n) ==
  /\ promised[n] <= Len(ballots)
  /\ accepted_round[n] <= promised[n]
  /\ decided_idx[n] <= Len(log[n])
  /\ accepted_round[n] = 0 => log[n] = << >>
  /\ accepted_round[n] # 0 =>
       LET r == ballots[accepted_round[n]]
       IN  r.ready /\ r.adopted <= Len(log[n]) /\ Agree(r.log, log[n], Len(log[n]))

ServersOK == \A n \in Server : ServerOK(n)

\* A leader that has not promised another ballot has what it sent.
LeaderOK(b) ==
  LET r == ballots[b]
  IN  /\ b <= promised[r.leader]
      /\ promised[r.leader] = b /\ r.ready =>
           /\ accepted_round[r.leader] = b
           /\ log[r.leader] = r.log
           /\ decided_idx[r.leader] = r.decided

LeadersOK == \A b \in Ballot : LeaderOK(b)

\* A majority has gone on from ballot b without its first i entries.
Blocked(b, i) ==
  \E Q \in SUBSET Server :
    /\ IsQuorum(Q)
    /\ \A m \in Q : b < promised[m] /\ ~(accepted_round[m] = b /\ i <= Len(log[m]))

\* Ballot c starts with the first i entries of b.
Continues(b, c, i) == i <= ballots[c].adopted /\ Agree(ballots[b].log, ballots[c].log, i)

ContinuesOrBlocked ==
  \A b, c \in Ballot : Ready(b) /\ Ready(c) /\ b < c =>
    \A i \in Nat : Continues(b, c, i) \/ Blocked(b, i)

\* A majority has promised every ballot that is ready.
Promised(b) ==
  \E Q \in SUBSET Server : IsQuorum(Q) /\ \A m \in Q : b <= promised[m]

ReadyIsPromised == \A b \in Ballot : Ready(b) => Promised(b)

\* A majority had the first i entries of ballot b, and may have gone on.
Held(b, i) ==
  \E Q \in SUBSET Server :
    /\ IsQuorum(Q)
    /\ \A m \in Q : \/ b < accepted_round[m]
                    \/ accepted_round[m] = b /\ i <= Len(log[m])

Chosen(b, i) ==
  /\ Ready(b) /\ i \in 0 .. Len(ballots[b].log)
  /\ Held(b, i)
  /\ \A c \in Ballot : Ready(c) /\ b < c => Continues(b, c, i)

\* Index i was chosen in ballot b or before.
ChosenBy(b, i) == i = 0 \/ \E c \in 1 .. b : Chosen(c, i)

DecidedIsChosen ==
  /\ \A n \in Server : ChosenBy(accepted_round[n], decided_idx[n])
  /\ \A b \in Ballot : ChosenBy(b, ballots[b].decided)

Local(Entry) ==
  /\ PaxosTypeOK(Entry)
  /\ BallotsOK
  /\ ServersOK
  /\ LeadersOK

PaxosInv(Entry) ==
  /\ Local(Entry)
  /\ ContinuesOrBlocked
  /\ ReadyIsPromised
  /\ DecidedIsChosen

-----------------------------------------------------------------------------
\* Servers go to higher ballots only. What one accepts is of the ballot it
\* has promised, and it loses nothing that it accepted in that ballot.
ServersGrow ==
  \A m \in Server :
    /\ promised[m] <= promised'[m]
    /\ \/ accepted_round'[m] = accepted_round[m] /\ log'[m] = log[m]
       \/ /\ promised'[m] = promised[m] /\ accepted_round'[m] = promised[m]
          /\ accepted_round[m] = promised[m] => Len(log[m]) <= Len(log'[m])

\* What a ballot that is ready has sent, it has sent.
BallotsGrow ==
  /\ Len(ballots) <= Len(ballots')
  /\ \A b \in Ballot :
       LET r == ballots[b]
           t == ballots'[b]
       IN  /\ t.leader = r.leader /\ r.decided <= t.decided
           /\ r.ready => t.ready /\ t.adopted = r.adopted /\ Agree(r.log, t.log, Len(r.log))

Grows == ServersGrow /\ BallotsGrow

NoNewReady == \A b \in Ballot' : Ready(b)' => Ready(b)

\* Only ballot p becomes ready, above the others that are, with all that was
\* chosen in them, or can still be.
NewlyReady(p) ==
  /\ Promised(p)
  /\ \A c \in Ballot' : Ready(c)' => Ready(c) \/ c = p
  /\ \A b \in Ballot : Ready(b) => b < p
  /\ \A b \in Ballot : \A i \in Nat : Chosen(b, i) => Continues(b, p, i)'
  /\ \A b \in Ballot : \A i \in Nat : Ready(b) => Continues(b, p, i)' \/ Blocked(b, i)

\* What servers and ballots take for decided after the step was chosen before.
DecidedWasChosen ==
  /\ \A n \in Server : ChosenBy(accepted_round'[n], decided_idx'[n])
  /\ \A b \in Ballot' : ChosenBy(b, ballots'[b].decided)

-----------------------------------------------------------------------------
\* A set of natural numbers that is not empty has a least element.
LEMMA LeastElement ==
  ASSUME NEW T, T \subseteq Nat, T # {}
  PROVE  \E x \in T : \A y \in T : x <= y
<1> DEFINE Less == {p \in Nat \X Nat : p[1] < p[2]}
<1>1. IsWellFoundedOn(Less, Nat)
  BY NatLessThanWellFounded DEF OpToRel
<1>2. \E x \in T : \A y \in T : ~(<<y, x>> \in Less)
  <2> HIDE DEF Less
  <2> QED BY <1>1, WFMin
<1>3. PICK x \in T : \A y \in T : ~(<<y, x>> \in Less)
  BY <1>2
<1>4. ASSUME NEW y \in T PROVE x <= y
  <2>1. x \in Nat /\ y \in Nat
    OBVIOUS
  <2>2. <<y, x>> \in Nat \X Nat
    BY <2>1
  <2>3. y < x => <<y, x>> \in Less
    BY <2>2
  <2> QED BY <1>3, <2>1, <2>3
<1> QED BY <1>4

\* Two majorities have a server in common.
LEMMA QuorumsMeet ==
  ASSUME NEW P \in SUBSET Server, NEW Q \in SUBSET Server, IsQuorum(P), IsQuorum(Q)
  PROVE  \E n \in Server : n \in P /\ n \in Q
<1>1. IsFiniteSet(P) /\ IsFiniteSet(Q) /\ IsFiniteSet(Server)
  BY ServerAssumption, FS_Subset
<1>2. P \cap Q # {}
  <2>1. Cardinality(P) \in Nat /\ Cardinality(Q) \in Nat /\ Cardinality(Server) \in Nat
    BY <1>1, FS_CardinalityType
  <2>2. Cardinality(P) + Cardinality(Q) > Cardinality(Server)
    BY <2>1 DEF IsQuorum
  <2> QED BY <1>1, <2>2, FS_MajoritiesIntersect
<1> QED BY <1>2

\* A majority is not empty.
LEMMA QuorumNonEmpty ==
  ASSUME NEW Q \in SUBSET Server, IsQuorum(Q)
  PROVE  Q # {}
BY QuorumsMeet

-----------------------------------------------------------------------------
\* The fields of a ballot's record.
LEMMA BallotTypes ==
  ASSUME NEW Entry, PaxosTypeOK(Entry), NEW b \in Ballot
  PROVE  /\ b \in Nat \ {0} /\ b <= Len(ballots) /\ Len(ballots) \in Nat
         /\ ballots[b] \in BallotRecord(Entry)
         /\ ballots[b].leader \in Server
         /\ ballots[b].ready \in BOOLEAN
         /\ ballots[b].adopted \in Nat
         /\ ballots[b].log \in Seq(Entry)
         /\ Len(ballots[b].log) \in Nat
         /\ ballots[b].decided_at \in Seq(Nat)
         /\ ballots[b].decided \in Nat
<1>1. ballots \in Seq(BallotRecord(Entry)) /\ Len(ballots) \in Nat
  BY DEF PaxosTypeOK
<1>2. ballots[b] \in BallotRecord(Entry) /\ b \in Nat \ {0} /\ b <= Len(ballots)
  BY <1>1 DEF Ballot
<1>3. ballots[b].log \in Seq(Entry)
  BY <1>2 DEF BallotRecord
<1>4. Len(ballots[b].log) \in Nat
  BY <1>3
<1> QED BY <1>1, <1>2, <1>3, <1>4 DEF BallotRecord

LEMMA ServerTypes ==
  ASSUME NEW Entry, PaxosTypeOK(Entry), NEW n \in Server
  PROVE  /\ promised[n] \in Nat
         /\ accepted_round[n] \in Nat
         /\ decided_idx[n] \in Nat
         /\ log[n] \in Seq(Entry)
         /\ Len(log[n]) \in Nat
BY DEF PaxosTypeOK

\* One ballot's record is replaced.
LEMMA BallotUpdated ==
  ASSUME NEW Entry, PaxosTypeOK(Entry), NEW b \in Ballot, NEW r \in BallotRecord(Entry),
         ballots' = [ballots EXCEPT ![b] = r]
  PROVE  /\ ballots' \in Seq(BallotRecord(Entry))
         /\ Len(ballots') = Len(ballots)
         /\ Ballot' = Ballot
         /\ ballots'[b] = r
         /\ \A c \in Ballot : c # b => ballots'[c] = ballots[c]
<1>1. ballots \in Seq(BallotRecord(Entry))
  BY DEF PaxosTypeOK
<1>2. /\ ballots' \in Seq(BallotRecord(Entry))
      /\ Len(ballots') = Len(ballots)
      /\ ballots'[b] = r
      /\ \A c \in 1 .. Len(ballots) : c # b => ballots'[c] = ballots[c]
  BY <1>1 DEF Ballot
<1> QED BY <1>2 DEF Ballot

\* A server whose log stays, in ballots that grow.
LEMMA ServerStays ==
  ASSUME NEW Entry, PaxosTypeOK(Entry), PaxosTypeOK(Entry)', NEW n \in Server, ServerOK(n),
         BallotsGrow, promised[n] <= promised'[n], promised'[n] <= Len(ballots'),
         accepted_round'[n] = accepted_round[n], log'[n] = log[n],
         decided_idx'[n] <= Len(log'[n])
  PROVE  ServerOK(n)'
<1> DEFINE a == accepted_round[n]
<1>1. a \in Nat /\ promised[n] \in Nat /\ promised'[n] \in Nat /\ Len(log[n]) \in Nat
      /\ Len(ballots) \in Nat
  BY ServerTypes DEF PaxosTypeOK
<1>2. a <= promised'[n]
  BY <1>1 DEF ServerOK
<1>3. ASSUME a # 0
      PROVE  /\ ballots'[a].ready /\ ballots'[a].adopted <= Len(log[n])
             /\ Agree(ballots'[a].log, log[n], Len(log[n]))
  <2>1. a \in Ballot
    BY <1>1, <1>3 DEF ServerOK, Ballot
  <2>2. /\ ballots[a].ready /\ ballots[a].adopted <= Len(log[n])
        /\ Agree(ballots[a].log, log[n], Len(log[n]))
    BY <1>3 DEF ServerOK
  <2>3. /\ ballots'[a].ready /\ ballots'[a].adopted = ballots[a].adopted
        /\ Agree(ballots[a].log, ballots'[a].log, Len(ballots[a].log))
    BY <2>1, <2>2 DEF BallotsGrow
  <2>4. Len(ballots[a].log) \in Nat
    BY <2>1, BallotTypes
  <2>5. a \in Ballot'
    BY <2>1, <1>1 DEF BallotsGrow, Ballot, PaxosTypeOK
  <2>6. Len(ballots'[a].log) \in Nat
    <3>1. ballots' \in Seq(BallotRecord(Entry))
      BY DEF PaxosTypeOK
    <3>2. ballots'[a] \in BallotRecord(Entry)
      BY <3>1, <2>5 DEF Ballot
    <3>3. ballots'[a].log \in Seq(Entry)
      BY <3>2 DEF BallotRecord
    <3> QED BY <3>3
  <2>7. Agree(ballots'[a].log, log[n], Len(log[n]))
    <3>1. PICK s, t : s = ballots[a].log /\ t = ballots'[a].log
      OBVIOUS
    <3>2. /\ Len(s) \in Nat /\ Len(t) \in Nat /\ Len(log[n]) \in Nat
          /\ Agree(s, log[n], Len(log[n])) /\ Agree(s, t, Len(s))
      BY <1>1, <2>2, <2>3, <2>4, <2>6, <3>1
    <3>3. Agree(t, log[n], Len(log[n]))
      BY <3>2 DEF Agree
    <3> QED BY <3>1, <3>3
  <2> QED BY <2>2, <2>3, <2>7
<1>4. accepted_round'[n] = 0 => log'[n] = << >>
  BY DEF ServerOK
<1> QED BY <1>2, <1>3, <1>4 DEF ServerOK

\* The record of a ballot stays, and its leader stays or goes on.
LEMMA LeaderStays ==
  ASSUME NEW Entry, PaxosTypeOK(Entry), PaxosTypeOK(Entry)',
         NEW c \in Ballot, LeaderOK(c), ballots'[c] = ballots[c],
         NEW l, l = ballots[c].leader, promised[l] <= promised'[l],
         promised'[l] = c => /\ promised[l] = c
                             /\ log'[l] = log[l]
                             /\ accepted_round'[l] = accepted_round[l]
                             /\ decided_idx'[l] = decided_idx[l]
  PROVE  LeaderOK(c)'
<1>1. l \in Server /\ c \in Nat
  BY BallotTypes
<1>2. promised[l] \in Nat /\ promised'[l] \in Nat
  BY <1>1 DEF PaxosTypeOK
<1> QED BY <1>1, <1>2 DEF LeaderOK

LEMMA LeadStep ==
  ASSUME NEW Entry, Local(Entry), NEW n \in Server, Lead(n)
  PROVE  Local(Entry)' /\ Grows /\ NoNewReady
<1> DEFINE b == Len(ballots) + 1
           r == [ leader |-> n, ready |-> FALSE, adopted |-> 0,
                  log |-> << >>, decided_at |-> << >>, decided |-> 0 ]
<1>0. PaxosTypeOK(Entry) /\ BallotsOK /\ ServersOK /\ LeadersOK
  BY DEF Local
<1>1. /\ ballots' = Append(ballots, r)
      /\ promised' = [promised EXCEPT ![n] = b]
      /\ log' = log /\ accepted_round' = accepted_round /\ decided_idx' = decided_idx
  BY DEF Lead
<1>2. r \in BallotRecord(Entry)
  <2>1. << >> \in Seq(Entry) /\ << >> \in Seq(Nat)
    OBVIOUS
  <2> QED BY <2>1 DEF BallotRecord
<1>3. r.leader = n /\ r.ready = FALSE /\ r.adopted = 0 /\ r.log = << >>
      /\ r.decided_at = << >> /\ r.decided = 0
  OBVIOUS
<1> HIDE DEF r
<1>4. ballots \in Seq(BallotRecord(Entry)) /\ Len(ballots) \in Nat
  BY <1>0 DEF PaxosTypeOK
<1>5. /\ ballots' \in Seq(BallotRecord(Entry)) /\ Len(ballots') = b
      /\ ballots'[b] = r /\ \A c \in 1 .. Len(ballots) : ballots'[c] = ballots[c]
  BY <1>1, <1>2, <1>4
<1>6. /\ \A c \in Ballot : c \in Ballot' /\ ballots'[c] = ballots[c]
      /\ \A c \in Ballot' : c \in Ballot \/ c = b
  BY <1>4, <1>5 DEF Ballot
<1>7. PaxosTypeOK(Entry)'
  <2>1. promised' \in [Server -> Nat]
    BY <1>0, <1>1, <1>4 DEF PaxosTypeOK
  <2> QED BY <1>0, <1>1, <1>5, <2>1 DEF PaxosTypeOK
<1>8. BallotsOK'
  <2>1. Len(<< >>) = 0 /\ 1 .. 0 = {}
    OBVIOUS
  <2> QED BY <1>0, <1>3, <1>5, <1>6, <2>1 DEF BallotsOK
<1>9. \A m \in Server : /\ promised[m] <= promised'[m]
                        /\ promised'[m] = IF m = n THEN b ELSE promised[m]
                        /\ promised[m] \in Nat /\ promised[m] <= Len(ballots)
  BY <1>0, <1>1, <1>4 DEF PaxosTypeOK, ServersOK, ServerOK
<1>10. BallotsGrow
  <2> SUFFICES ASSUME NEW c \in Ballot
               PROVE  /\ ballots[c].decided <= ballots[c].decided
                      /\ Agree(ballots[c].log, ballots[c].log, Len(ballots[c].log))
    BY <1>4, <1>5, <1>6 DEF BallotsGrow
  <2> QED BY <1>0, BallotTypes DEF Agree
<1>11. ServersOK'
  <2> SUFFICES ASSUME NEW m \in Server PROVE ServerOK(m)'
    BY DEF ServersOK
  <2>1. promised'[m] <= Len(ballots')
    BY <1>4, <1>5, <1>9
  <2>2. decided_idx'[m] <= Len(log'[m])
    BY <1>0, <1>1 DEF ServersOK, ServerOK
  <2>3. ServerOK(m)
    BY <1>0 DEF ServersOK
  <2> QED BY <1>0, <1>1, <1>7, <1>9, <1>10, <2>1, <2>2, <2>3, ServerStays
<1>12. LeadersOK'
  <2> SUFFICES ASSUME NEW c \in Ballot' PROVE LeaderOK(c)'
    BY DEF LeadersOK
  <2>1. CASE c = b
    BY <1>3, <1>4, <1>5, <1>9, <2>1 DEF LeaderOK
  <2>2. CASE c \in Ballot
    <3> DEFINE l == ballots[c].leader
    <3>1. l \in Server /\ c # b
      BY <1>0, <1>4, <2>2, BallotTypes
    <3> HIDE DEF l
    <3>2. promised'[l] = c => promised[l] = c
      BY <1>9, <3>1
    <3>3. LeaderOK(c)
      BY <1>0, <2>2 DEF LeadersOK
    <3> QED BY <1>0, <1>1, <1>6, <1>7, <1>9, <2>2, <3>1, <3>2, <3>3, LeaderStays DEF l
  <2> QED BY <1>6, <2>1, <2>2
<1>13. ServersGrow
  BY <1>1, <1>9 DEF ServersGrow
<1>14. NoNewReady
  BY <1>3, <1>5, <1>6 DEF NoNewReady, Ready
<1> QED BY <1>7, <1>8, <1>10, <1>11, <1>12, <1>13, <1>14 DEF Local, Grows

\* A step that sends nothing.
LEMMA BallotsStay ==
  ASSUME NEW Entry, Local(Entry), ballots' = ballots
  PROVE  BallotsOK' /\ BallotsGrow /\ NoNewReady /\ Ballot' = Ballot
<1>1. PaxosTypeOK(Entry) /\ BallotsOK
  BY DEF Local
<1>2. Ballot' = Ballot
  BY DEF Ballot
<1>3. BallotsOK'
  BY <1>1, <1>2 DEF BallotsOK
<1>4. BallotsGrow
  <2> SUFFICES ASSUME NEW c \in Ballot
               PROVE  /\ ballots[c].decided <= ballots[c].decided
                      /\ Agree(ballots[c].log, ballots[c].log, Len(ballots[c].log))
    BY <1>1 DEF BallotsGrow, PaxosTypeOK
  <2> QED BY <1>1, BallotTypes DEF Agree
<1> QED BY <1>2, <1>3, <1>4 DEF NoNewReady, Ready

LEMMA PromiseStep ==
  ASSUME NEW Entry, Local(Entry), NEW n \in Server, NEW b \in Ballot, Promise(n, b)
  PROVE  Local(Entry)' /\ Grows /\ NoNewReady
<1>0. PaxosTypeOK(Entry) /\ BallotsOK /\ ServersOK /\ LeadersOK
  BY DEF Local
<1>1. /\ promised[n] < b /\ promised' = [promised EXCEPT ![n] = b]
      /\ ballots' = ballots /\ log' = log
      /\ accepted_round' = accepted_round /\ decided_idx' = decided_idx
  BY DEF Promise
<1>2. BallotsOK' /\ BallotsGrow /\ NoNewReady /\ Ballot' = Ballot
  BY <1>1, BallotsStay
<1>3. b \in Nat /\ b <= Len(ballots)
  BY <1>0, BallotTypes
<1>4. PaxosTypeOK(Entry)'
  <2>1. promised' \in [Server -> Nat]
    BY <1>0, <1>1, <1>3 DEF PaxosTypeOK
  <2> QED BY <1>0, <1>1, <2>1 DEF PaxosTypeOK
<1>5. \A m \in Server : /\ promised[m] <= promised'[m] /\ promised'[m] <= Len(ballots)
                        /\ m # n => promised'[m] = promised[m]
                        /\ promised'[m] = promised[m] \/ promised'[m] = b
  BY <1>0, <1>1, <1>3 DEF PaxosTypeOK, ServersOK, ServerOK
<1>6. ServersOK'
  <2> SUFFICES ASSUME NEW m \in Server PROVE ServerOK(m)'
    BY DEF ServersOK
  <2>1. ServerOK(m)
    BY <1>0 DEF ServersOK
  <2>2. decided_idx'[m] <= Len(log'[m])
    BY <1>1, <2>1 DEF ServerOK
  <2> QED BY <1>0, <1>1, <1>2, <1>4, <1>5, <2>1, <2>2, ServerStays
<1>7. LeadersOK'
  <2> SUFFICES ASSUME NEW c \in Ballot PROVE LeaderOK(c)'
    BY <1>2 DEF LeadersOK
  <2> DEFINE l == ballots[c].leader
  <2>1. l \in Server /\ LeaderOK(c) /\ c <= promised[l] /\ c \in Nat
    BY <1>0, BallotTypes DEF LeadersOK, LeaderOK
  <2> HIDE DEF l
  <2>2. promised[n] \in Nat /\ promised[l] \in Nat
    BY <1>0, <2>1, ServerTypes
  <2>3. promised'[l] = c => promised[l] = c
    BY <1>1, <1>3, <1>5, <2>1, <2>2
  <2> QED BY <1>0, <1>1, <1>4, <1>5, <2>1, <2>3, LeaderStays DEF l
<1>8. ServersGrow
  BY <1>1, <1>5 DEF ServersGrow
<1> QED BY <1>2, <1>4, <1>6, <1>7, <1>8 DEF Local, Grows

\* What a follower is told decided is not beyond the entries it was sent.
LEMMA DecidedAfterOK ==
  ASSUME NEW Entry, Local(Entry), NEW b \in Ballot, NEW i \in Nat,
         ballots[b].adopted <= i, i <= Len(ballots[b].log)
  PROVE  /\ DecidedAfter(b, i) \in Nat
         /\ DecidedAfter(b, i) <= i
         /\ DecidedAfter(b, i) <= ballots[b].decided
<1> DEFINE r == ballots[b]
<1>1. /\ r.decided_at \in Seq(Nat) /\ Len(r.log) \in Nat /\ r.decided \in Nat
      /\ r.adopted \in Nat
  BY BallotTypes DEF Local
<1>2. /\ Len(r.decided_at) = Len(r.log) /\ r.decided <= Len(r.log)
      /\ \A j \in 1 .. Len(r.log) : /\ r.decided_at[j] <= r.decided
                                    /\ r.adopted < j => r.decided_at[j] < j
  BY DEF Local, BallotsOK
<1> HIDE DEF r
<1>3. CASE i < Len(r.log)
  <2>1. i + 1 \in 1 .. Len(r.log) /\ r.adopted < i + 1
    BY <1>1, <1>3 DEF r
  <2>2. r.decided_at[i + 1] \in Nat
    BY <1>1, <1>2, <2>1
  <2>3. r.decided_at[i + 1] <= r.decided /\ r.decided_at[i + 1] < i + 1
    BY <1>2, <2>1
  <2>4. DecidedAfter(b, i) = r.decided_at[i + 1]
    BY <1>3 DEF DecidedAfter, r
  <2> QED BY <2>2, <2>3, <2>4 DEF r
<1>4. CASE i = Len(r.log)
  <2>1. DecidedAfter(b, i) = r.decided
    BY <1>1, <1>4 DEF DecidedAfter, r
  <2> QED BY <1>1, <1>2, <1>4, <2>1 DEF r
<1> QED BY <1>1, <1>3, <1>4 DEF r

\* What a follower knows of the ballot it has promised.
LEMMA FollowerOK ==
  ASSUME NEW Entry, Local(Entry), NEW n \in Server, Follows(n)
  PROVE  /\ promised[n] \in Ballot /\ ballots[promised[n]].ready
         /\ ballots[promised[n]].leader # n
         /\ accepted_round[n] = promised[n] =>
              /\ ballots[promised[n]].adopted <= Len(log[n])
              /\ Agree(ballots[promised[n]].log, log[n], Len(log[n]))
              /\ Len(log[n]) <= Len(ballots[promised[n]].log)
<1>1. promised[n] \in Nat /\ promised[n] # 0 /\ ServerOK(n) /\ Len(ballots) \in Nat
  BY DEF Local, ServersOK, PaxosTypeOK, Follows
<1> QED BY <1>1 DEF ServerOK, Agree, Follows, Ballot

LEMMA LearnDecidedStep ==
  ASSUME NEW Entry, Local(Entry), NEW n \in Server, LearnDecided(n)
  PROVE  Local(Entry)' /\ Grows /\ NoNewReady
<1> DEFINE b == promised[n]
           d == DecidedAfter(b, Len(log[n]))
<1>0. PaxosTypeOK(Entry) /\ BallotsOK /\ ServersOK /\ LeadersOK
  BY DEF Local
<1>1. /\ Follows(n) /\ accepted_round[n] = b
      /\ decided_idx' = [decided_idx EXCEPT ![n] = d]
      /\ ballots' = ballots /\ promised' = promised /\ log' = log
      /\ accepted_round' = accepted_round
  BY DEF LearnDecided
<1>2. BallotsOK' /\ BallotsGrow /\ NoNewReady /\ Ballot' = Ballot
  BY <1>1, BallotsStay
<1>3. d \in Nat /\ d <= Len(log[n])
  BY <1>0, <1>1, FollowerOK, DecidedAfterOK, ServerTypes
<1> HIDE DEF d
<1>4. PaxosTypeOK(Entry)'
  <2>1. decided_idx' \in [Server -> Nat]
    BY <1>0, <1>1, <1>3 DEF PaxosTypeOK
  <2> QED BY <1>0, <1>1, <2>1 DEF PaxosTypeOK
<1>5. \A m \in Server : /\ promised[m] <= promised'[m] /\ promised'[m] <= Len(ballots)
                        /\ m # n => decided_idx'[m] = decided_idx[m]
                        /\ decided_idx'[m] <= Len(log[m])
  BY <1>0, <1>1, <1>3 DEF PaxosTypeOK, ServersOK, ServerOK
<1>6. ServersOK'
  BY <1>0, <1>1, <1>2, <1>4, <1>5, ServerStays DEF ServersOK
<1>7. LeadersOK'
  <2> SUFFICES ASSUME NEW c \in Ballot PROVE LeaderOK(c)'
    BY <1>2 DEF LeadersOK
  <2>1. ballots[c].leader \in Server /\ LeaderOK(c)
    BY <1>0, BallotTypes DEF LeadersOK
  <2>2. ballots[c].leader = n => promised[n] # c
    BY <1>1 DEF Follows
  <2> QED BY <1>0, <1>1, <1>4, <1>5, <2>1, <2>2, LeaderStays
<1>8. ServersGrow
  BY <1>1, <1>5 DEF ServersGrow
<1> QED BY <1>2, <1>4, <1>6, <1>7, <1>8 DEF Local, Grows

LEMMA AcceptDecideStep ==
  ASSUME NEW Entry, Local(Entry), NEW n \in Server, AcceptDecide(n)
  PROVE  Local(Entry)' /\ Grows /\ NoNewReady
<1> DEFINE b == promised[n]
           L == ballots[b].log
           e == L[Len(log[n]) + 1]
<1>0. PaxosTypeOK(Entry) /\ BallotsOK /\ ServersOK /\ LeadersOK
  BY DEF Local
<1>1. /\ Follows(n) /\ accepted_round[n] = b /\ Len(log[n]) < Len(L)
      /\ log' = [log EXCEPT ![n] = Append(@, e)]
      /\ ballots' = ballots /\ promised' = promised
      /\ accepted_round' = accepted_round /\ decided_idx' = decided_idx
  BY DEF AcceptDecide
<1>2. BallotsOK' /\ BallotsGrow /\ NoNewReady /\ Ballot' = Ballot
  BY <1>1, BallotsStay
<1>3. /\ b \in Ballot /\ ballots[b].ready /\ ballots[b].leader # n
      /\ ballots[b].adopted <= Len(log[n]) /\ Agree(L, log[n], Len(log[n]))
      /\ ballots[b].adopted \in Nat /\ L \in Seq(Entry) /\ Len(L) \in Nat
  BY <1>0, <1>1, FollowerOK, BallotTypes
<1>4. log[n] \in Seq(Entry) /\ Len(log[n]) \in Nat
  BY <1>0, ServerTypes
<1> HIDE DEF L
<1>5. e \in Entry
  BY <1>1, <1>3, <1>4
<1> HIDE DEF e
<1>6. /\ log'[n] = Append(log[n], e) /\ log' \in [Server -> Seq(Entry)]
      /\ \A m \in Server : m # n => log'[m] = log[m]
  <2>1. Append(log[n], e) \in Seq(Entry)
    BY <1>4, <1>5
  <2> QED BY <1>0, <1>1, <2>1 DEF PaxosTypeOK
<1>7. PaxosTypeOK(Entry)'
  BY <1>0, <1>1, <1>6 DEF PaxosTypeOK
<1>8. /\ Len(log'[n]) = Len(log[n]) + 1
      /\ \A j \in 1 .. Len(log[n]) : log'[n][j] = log[n][j]
      /\ log'[n][Len(log[n]) + 1] = e
  BY <1>4, <1>5, <1>6
<1>9. Agree(L, log'[n], Len(log'[n]))
  BY <1>1, <1>3, <1>4, <1>8 DEF Agree, e
<1>10. \A m \in Server : promised[m] \in Nat /\ promised[m] <= Len(ballots)
                         /\ ServerOK(m)
  BY <1>0 DEF PaxosTypeOK, ServersOK, ServerOK
<1>11. ServersOK'
  <2> SUFFICES ASSUME NEW m \in Server PROVE ServerOK(m)'
    BY DEF ServersOK
  <2>1. CASE m = n
    <3>1. promised[n] # 0 /\ decided_idx[n] <= Len(log[n]) /\ decided_idx[n] \in Nat
      BY <1>0, <1>1, <1>10 DEF Follows, ServerOK, PaxosTypeOK
    <3>2. decided_idx'[n] <= Len(log'[n]) /\ ballots[b].adopted <= Len(log'[n])
      BY <1>1, <1>3, <1>4, <1>8, <3>1
    <3> QED BY <1>1, <1>3, <1>9, <1>10, <2>1, <3>1, <3>2 DEF ServerOK, L
  <2>2. CASE m # n
    <3>1. log'[m] = log[m] /\ decided_idx'[m] <= Len(log'[m])
      BY <1>1, <1>6, <1>10, <2>2 DEF ServerOK
    <3> QED BY <1>0, <1>1, <1>2, <1>7, <1>10, <3>1, ServerStays
  <2> QED BY <2>1, <2>2
<1>12. LeadersOK'
  <2> SUFFICES ASSUME NEW c \in Ballot PROVE LeaderOK(c)'
    BY <1>2 DEF LeadersOK
  <2>1. ballots[c].leader \in Server /\ LeaderOK(c)
    BY <1>0, BallotTypes DEF LeadersOK
  <2>2. ballots[c].leader = n => promised[n] # c
    BY <1>1 DEF Follows
  <2> QED BY <1>0, <1>1, <1>6, <1>7, <1>10, <2>1, <2>2, LeaderStays
<1>13. ServersGrow
  BY <1>1, <1>4, <1>6, <1>8, <1>10 DEF ServersGrow
<1> QED BY <1>2, <1>7, <1>11, <1>12, <1>13 DEF Local, Grows

\* What was chosen below a ballot that is ready was adopted in it.
LEMMA ChosenIsAdopted ==
  ASSUME NEW a \in Nat, NEW b \in Ballot, NEW i \in Nat, a < b, Ready(b), ChosenBy(a, i)
  PROVE  i = 0 \/ i <= ballots[b].adopted
<1>1. CASE i # 0
  <2>1. PICK c \in 1 .. a : Chosen(c, i)
    BY <1>1 DEF ChosenBy
  <2>2. c < b
    BY <2>1 DEF Ballot
  <2> QED BY <2>1, <2>2 DEF Chosen, Continues
<1> QED BY <1>1

LEMMA AcceptSyncStep ==
  ASSUME NEW Entry, Local(Entry), NEW n \in Server, NEW i \in Nat, AcceptSync(n, i),
         ChosenBy(accepted_round[n], decided_idx[n])
  PROVE  /\ Local(Entry)' /\ Grows /\ NoNewReady
         /\ \/ decided_idx'[n] = decided_idx[n]
            \/ decided_idx'[n] <= ballots[promised[n]].decided
         /\ decided_idx[n] <= decided_idx'[n] /\ decided_idx'[n] \in Nat
<1> DEFINE b == promised[n]
           L == ballots[b].log
           d == MaxOf({decided_idx[n], DecidedAfter(b, i)})
<1>0. PaxosTypeOK(Entry) /\ BallotsOK /\ ServersOK /\ LeadersOK
  BY DEF Local
<1>1. /\ Follows(n) /\ accepted_round[n] # b
      /\ ballots[b].adopted <= i /\ i <= Len(L)
      /\ log' = [log EXCEPT ![n] = SubSeq(L, 1, i)]
      /\ accepted_round' = [accepted_round EXCEPT ![n] = b]
      /\ decided_idx' = [decided_idx EXCEPT ![n] = d]
      /\ ballots' = ballots /\ promised' = promised
  BY DEF AcceptSync
<1>2. BallotsOK' /\ BallotsGrow /\ NoNewReady /\ Ballot' = Ballot
  BY <1>1, BallotsStay
<1>3. /\ b \in Ballot /\ ballots[b].ready /\ ballots[b].leader # n /\ b \in Nat \ {0}
      /\ ballots[b].adopted \in Nat /\ L \in Seq(Entry) /\ Len(L) \in Nat
  BY <1>0, <1>1, FollowerOK, BallotTypes
<1>4. /\ \A m \in Server : /\ promised[m] \in Nat /\ promised[m] <= Len(ballots)
                           /\ accepted_round[m] \in Nat /\ ServerOK(m)
      /\ decided_idx[n] \in Nat
  BY <1>0 DEF PaxosTypeOK, ServersOK, ServerOK
<1>5. d \in Nat /\ d <= i /\ decided_idx[n] <= d /\ (d = decided_idx[n] \/ d <= ballots[b].decided)
  <2>1. /\ DecidedAfter(b, i) \in Nat /\ DecidedAfter(b, i) <= i
        /\ DecidedAfter(b, i) <= ballots[b].decided
    BY <1>1, <1>3, DecidedAfterOK
  <2>2. decided_idx[n] <= i
    <3>1. accepted_round[n] < b
      BY <1>1, <1>3, <1>4 DEF ServerOK
    <3>2. decided_idx[n] = 0 \/ decided_idx[n] <= ballots[b].adopted
      BY <1>3, <1>4, <3>1, ChosenIsAdopted DEF Ready
    <3> QED BY <1>1, <1>3, <1>4, <3>2
  <2>3. d \in {decided_idx[n], DecidedAfter(b, i)} /\ decided_idx[n] <= d
    <3> DEFINE S == {decided_idx[n], DecidedAfter(b, i)}
    <3>1. \E x \in S : \A y \in S : y <= x
      BY <1>4, <2>1
    <3> QED BY <3>1 DEF MaxOf
  <2> HIDE DEF d
  <2> QED BY <1>4, <2>1, <2>2, <2>3
<1> HIDE DEF L, d
<1>6. /\ log'[n] = SubSeq(L, 1, i) /\ log' \in [Server -> Seq(Entry)]
      /\ \A m \in Server : m # n => log'[m] = log[m]
  <2>1. SubSeq(L, 1, i) \in Seq(Entry)
    BY <1>1, <1>3
  <2> QED BY <1>0, <1>1, <2>1 DEF PaxosTypeOK
<1>7. /\ accepted_round'[n] = b /\ accepted_round' \in [Server -> Nat]
      /\ \A m \in Server : m # n => accepted_round'[m] = accepted_round[m]
      /\ decided_idx'[n] = d /\ decided_idx' \in [Server -> Nat]
      /\ \A m \in Server : m # n => decided_idx'[m] = decided_idx[m]
  BY <1>0, <1>1, <1>3, <1>5 DEF PaxosTypeOK
<1>8. PaxosTypeOK(Entry)'
  BY <1>0, <1>1, <1>6, <1>7 DEF PaxosTypeOK
<1>9. Len(log'[n]) = i /\ \A j \in 1 .. i : log'[n][j] = L[j]
  BY <1>1, <1>3, <1>6
<1>10. Agree(L, log'[n], Len(log'[n]))
  BY <1>1, <1>9 DEF Agree
<1>11. ServersOK'
  <2> SUFFICES ASSUME NEW m \in Server PROVE ServerOK(m)'
    BY DEF ServersOK
  <2>1. CASE m = n
    BY <1>1, <1>3, <1>4, <1>5, <1>7, <1>9, <1>10, <2>1 DEF ServerOK, L
  <2>2. CASE m # n
    <3>1. log'[m] = log[m] /\ decided_idx'[m] <= Len(log'[m])
          /\ accepted_round'[m] = accepted_round[m]
      BY <1>4, <1>6, <1>7, <2>2 DEF ServerOK
    <3> QED BY <1>0, <1>1, <1>2, <1>4, <1>8, <3>1, ServerStays
  <2> QED BY <2>1, <2>2
<1>12. LeadersOK'
  <2> SUFFICES ASSUME NEW c \in Ballot PROVE LeaderOK(c)'
    BY <1>2 DEF LeadersOK
  <2>1. ballots[c].leader \in Server /\ LeaderOK(c)
    BY <1>0, BallotTypes DEF LeadersOK
  <2>2. ballots[c].leader = n => promised[n] # c
    BY <1>1 DEF Follows
  <2> DEFINE l == ballots[c].leader
  <2>3. promised[l] <= promised'[l]
    BY <1>1, <1>4, <2>1
  <2>4. promised'[l] = c => l # n
    BY <1>1, <2>2
  <2>5. promised'[l] = c => /\ promised[l] = c
                            /\ log'[l] = log[l]
                            /\ accepted_round'[l] = accepted_round[l]
                            /\ decided_idx'[l] = decided_idx[l]
    BY <1>1, <1>6, <1>7, <2>1, <2>4
  <2> QED BY <1>0, <1>1, <1>8, <2>1, <2>3, <2>5, LeaderStays
<1>13. ServersGrow
  BY <1>1, <1>4, <1>6, <1>7 DEF ServersGrow
<1> QED BY <1>2, <1>5, <1>7, <1>8, <1>11, <1>12, <1>13 DEF Local, Grows

\* What a leader knows of its own ballot.
LEMMA LeadingOK ==
  ASSUME NEW Entry, Local(Entry), NEW n \in Server,
         promised[n] # 0, ballots[promised[n]].leader = n
  PROVE  /\ promised[n] \in Ballot
         /\ ballots[promised[n]].ready =>
              /\ accepted_round[n] = promised[n]
              /\ log[n] = ballots[promised[n]].log
              /\ decided_idx[n] = ballots[promised[n]].decided
         /\ ~ballots[promised[n]].ready =>
              \A m \in Server : accepted_round[m] # promised[n]
<1>1. promised[n] \in Nat /\ promised[n] <= Len(ballots) /\ Len(ballots) \in Nat
  BY DEF Local, ServersOK, ServerOK, PaxosTypeOK
<1>2. promised[n] \in Ballot
  BY <1>1 DEF Ballot
<1>3. LeaderOK(promised[n])
  BY <1>2 DEF Local, LeadersOK
<1>4. \A m \in Server : accepted_round[m] = promised[n] => ballots[promised[n]].ready
  BY DEF Local, ServersOK, ServerOK
<1> QED BY <1>2, <1>3, <1>4 DEF LeaderOK

LEMMA DecideStep ==
  ASSUME NEW Entry, Local(Entry), NEW n \in Server, Decide(n)
  PROVE  /\ Local(Entry)' /\ Grows /\ NoNewReady
         /\ Ready(promised[n]) /\ log[n] = ballots[promised[n]].log
         /\ decided_idx'[n] \in 1 .. Len(log[n]) /\ decided_idx[n] <= decided_idx'[n]
         /\ IsQuorum(AcceptedBy(promised[n], decided_idx'[n]))
         /\ decided_idx' = [decided_idx EXCEPT ![n] = decided_idx'[n]]
         /\ accepted_round' = accepted_round /\ accepted_round[n] = promised[n]
         /\ ballots'[promised[n]].decided = decided_idx'[n]
         /\ \A c \in Ballot : c # promised[n] => ballots'[c] = ballots[c]
<1> DEFINE b == promised[n]
<1>0. PaxosTypeOK(Entry) /\ BallotsOK /\ ServersOK /\ LeadersOK
  BY DEF Local
<1>1. PICK i \in decided_idx[n] + 1 .. Len(log[n]) :
        /\ b # 0 /\ ballots[b].leader = n /\ ballots[b].ready
        /\ IsQuorum(AcceptedBy(b, i))
        /\ decided_idx' = [decided_idx EXCEPT ![n] = i]
        /\ ballots' = [ballots EXCEPT ![b].decided = i]
        /\ promised' = promised /\ log' = log /\ accepted_round' = accepted_round
  BY DEF Decide
<1>2. /\ b \in Ballot /\ accepted_round[n] = b /\ log[n] = ballots[b].log
      /\ decided_idx[n] = ballots[b].decided
  BY <1>1, LeadingOK
<1>3. /\ b \in Nat /\ ballots[b] \in BallotRecord(Entry)
      /\ Len(log[n]) \in Nat /\ decided_idx[n] \in Nat /\ ballots[b].decided \in Nat
  BY <1>0, <1>2, BallotTypes, ServerTypes
<1>4. i \in Nat /\ i <= Len(log[n]) /\ decided_idx[n] < i
  BY <1>1, <1>3
<1> DEFINE r == [ballots[b] EXCEPT !.decided = i]
<1>5. /\ r \in BallotRecord(Entry)
      /\ r.leader = ballots[b].leader /\ r.ready = ballots[b].ready
      /\ r.adopted = ballots[b].adopted /\ r.log = ballots[b].log
      /\ r.decided_at = ballots[b].decided_at /\ r.decided = i
  BY <1>3, <1>4 DEF BallotRecord
<1>6. ballots' = [ballots EXCEPT ![b] = r]
  BY <1>1
<1> HIDE DEF r
<1>7. /\ ballots' \in Seq(BallotRecord(Entry))
      /\ Len(ballots') = Len(ballots) /\ Ballot' = Ballot /\ ballots'[b] = r
      /\ \A c \in Ballot : c # b => ballots'[c] = ballots[c]
  BY <1>0, <1>2, <1>5, <1>6, BallotUpdated
<1>8. /\ decided_idx'[n] = i /\ decided_idx' \in [Server -> Nat]
      /\ \A m \in Server : m # n => decided_idx'[m] = decided_idx[m]
  BY <1>0, <1>1, <1>4 DEF PaxosTypeOK
<1>9. PaxosTypeOK(Entry)'
  BY <1>0, <1>1, <1>7, <1>8 DEF PaxosTypeOK
<1>10. BallotsOK'
  <2> SUFFICES ASSUME NEW c \in Ballot, c = b
               PROVE  /\ Len(r.decided_at) = Len(r.log)
                      /\ r.decided <= Len(r.log) /\ r.adopted <= Len(r.log)
                      /\ r.ready
                      /\ \A j \in 1 .. Len(r.log) :
                           /\ r.decided_at[j] <= r.decided
                           /\ r.adopted < j => r.decided_at[j] < j
    BY <1>0, <1>7 DEF BallotsOK
  <2>1. \A j \in 1 .. Len(ballots[b].log) : ballots[b].decided_at[j] \in Nat
    BY <1>0, <1>2, BallotTypes, SMTT(30) DEF BallotsOK
  <2> QED BY <1>0, <1>1, <1>2, <1>3, <1>4, <1>5, <2>1 DEF BallotsOK
<1>11. BallotsGrow
  <2> SUFFICES ASSUME NEW c \in Ballot
               PROVE  /\ ballots'[c].leader = ballots[c].leader
                      /\ ballots[c].decided <= ballots'[c].decided
                      /\ ballots'[c].ready = ballots[c].ready
                      /\ ballots'[c].adopted = ballots[c].adopted
                      /\ ballots'[c].log = ballots[c].log
                      /\ Len(ballots[c].log) \in Nat
    BY <1>0, <1>7, SMTT(30) DEF BallotsGrow, Agree, PaxosTypeOK
  <2>1. ballots[c].decided \in Nat /\ Len(ballots[c].log) \in Nat
    BY <1>0, BallotTypes
  <2>2. CASE c = b
    BY <1>2, <1>3, <1>4, <1>5, <1>7, <2>1, <2>2
  <2>3. CASE c # b
    BY <1>7, <2>1, <2>3
  <2> QED BY <2>2, <2>3
<1>12. \A m \in Server : /\ promised[m] \in Nat /\ promised[m] <= Len(ballots)
                         /\ ServerOK(m)
  BY <1>0 DEF PaxosTypeOK, ServersOK, ServerOK
<1>13. ServersOK'
  <2> SUFFICES ASSUME NEW m \in Server PROVE ServerOK(m)'
    BY DEF ServersOK
  <2>1. decided_idx'[m] <= Len(log'[m])
    BY <1>1, <1>4, <1>8, <1>12 DEF ServerOK
  <2> QED BY <1>0, <1>1, <1>7, <1>9, <1>11, <1>12, <2>1, ServerStays
<1>14. LeadersOK'
  <2> SUFFICES ASSUME NEW c \in Ballot PROVE LeaderOK(c)'
    BY <1>7 DEF LeadersOK
  <2>1. CASE c = b
    BY <1>1, <1>2, <1>3, <1>5, <1>7, <1>8, <2>1 DEF LeaderOK
  <2>2. CASE c # b
    <3>1. ballots[c].leader \in Server /\ LeaderOK(c)
      BY <1>0, BallotTypes DEF LeadersOK
    <3>2. ballots[c].leader = n => promised[n] # c
      BY <2>2
    <3> DEFINE l == ballots[c].leader
    <3>3. promised[l] <= promised'[l]
      BY <1>1, <1>12, <3>1
    <3>4. promised'[l] = c => l # n
      BY <1>1, <3>2
    <3>5. promised'[l] = c => /\ promised[l] = c
                              /\ log'[l] = log[l]
                              /\ accepted_round'[l] = accepted_round[l]
                              /\ decided_idx'[l] = decided_idx[l]
      BY <1>1, <1>8, <3>1, <3>4
    <3> QED BY <1>0, <1>7, <1>9, <2>2, <3>1, <3>3, <3>5, LeaderStays
  <2> QED BY <2>1, <2>2
<1>15. ServersGrow
  BY <1>1, <1>12 DEF ServersGrow
<1>16. NoNewReady
  BY <1>5, <1>7 DEF NoNewReady, Ready
<1>17. decided_idx'[n] \in 1 .. Len(log[n]) /\ decided_idx[n] <= decided_idx'[n]
  BY <1>3, <1>4, <1>8
<1>18. Ready(b)
  BY <1>1, <1>2 DEF Ready
<1>19. ballots'[b].decided = decided_idx'[n]
  BY <1>5, <1>7, <1>8
<1>20. Local(Entry)' /\ Grows
  BY <1>9, <1>10, <1>11, <1>13, <1>14, <1>15 DEF Local, Grows
<1> QED BY <1>1, <1>2, <1>7, <1>8, <1>16, <1>17, <1>18, <1>19, <1>20

LEMMA AppendStep ==
  ASSUME NEW Entry, Local(Entry), NEW n \in Server, NEW entry \in Entry,
         GetCurrentLeader(n) = n, AppendEntry(n, entry)
  PROVE  /\ Local(Entry)' /\ Grows /\ NoNewReady
         /\ decided_idx' = decided_idx /\ accepted_round' = accepted_round
         /\ \A c \in Ballot : ballots'[c].decided = ballots[c].decided
<1> DEFINE b == promised[n]
<1>0. PaxosTypeOK(Entry) /\ BallotsOK /\ ServersOK /\ LeadersOK
  BY DEF Local
<1>1. /\ b # 0 /\ ballots[b].leader = n
      /\ ballots' = [ballots EXCEPT ![b].log = Append(@, entry),
                                    ![b].decided_at = Append(@, ballots[b].decided)]
      /\ log' = IF ballots[b].ready THEN [log EXCEPT ![n] = Append(@, entry)] ELSE log
      /\ promised' = promised /\ accepted_round' = accepted_round /\ decided_idx' = decided_idx
  BY NoLeaderAssumption DEF AppendEntry, GetCurrentLeader
<1>2. /\ b \in Ballot
      /\ ballots[b].ready => /\ accepted_round[n] = b
                             /\ log[n] = ballots[b].log
                             /\ decided_idx[n] = ballots[b].decided
      /\ ~ballots[b].ready => \A m \in Server : accepted_round[m] # b
  BY <1>1, LeadingOK
<1> DEFINE s == ballots[b]
           r == [s EXCEPT !.log = Append(@, entry), !.decided_at = Append(@, s.decided)]
<1>3. /\ b \in Nat /\ s \in BallotRecord(Entry) /\ s.log \in Seq(Entry)
      /\ s.decided_at \in Seq(Nat) /\ s.decided \in Nat /\ s.adopted \in Nat
      /\ Len(s.log) \in Nat /\ s.ready \in BOOLEAN
  BY <1>0, <1>2, BallotTypes
<1>4. /\ Len(s.decided_at) = Len(s.log)
      /\ s.decided <= Len(s.log) /\ s.adopted <= Len(s.log)
      /\ ~s.ready => s.adopted = 0 /\ s.decided = 0
      /\ \A j \in 1 .. Len(s.log) : /\ s.decided_at[j] <= s.decided
                                    /\ s.adopted < j => s.decided_at[j] < j
  BY <1>0, <1>2 DEF BallotsOK
<1>5. ballots' = [ballots EXCEPT ![b] = r]
  <2>1. ballots \in Seq(BallotRecord(Entry))
    BY <1>0 DEF PaxosTypeOK
  <2> QED BY <1>1, <1>2, <2>1
<1> HIDE DEF s
<1>6. /\ r \in BallotRecord(Entry)
      /\ r.leader = s.leader /\ r.ready = s.ready /\ r.adopted = s.adopted
      /\ r.log = Append(s.log, entry) /\ r.decided = s.decided
      /\ r.decided_at = Append(s.decided_at, s.decided)
  <2>1. Append(s.log, entry) \in Seq(Entry) /\ Append(s.decided_at, s.decided) \in Seq(Nat)
    BY <1>3
  <2> QED BY <1>3, <2>1 DEF BallotRecord
<1> HIDE DEF r
<1>7. /\ ballots' \in Seq(BallotRecord(Entry))
      /\ Len(ballots') = Len(ballots) /\ Ballot' = Ballot /\ ballots'[b] = r
      /\ \A c \in Ballot : c # b => ballots'[c] = ballots[c]
  BY <1>0, <1>2, <1>5, <1>6, BallotUpdated
<1>8. /\ Len(r.log) = Len(s.log) + 1
      /\ \A j \in 1 .. Len(s.log) : r.log[j] = s.log[j]
  BY <1>3, <1>6
<1>9. /\ Len(r.decided_at) = Len(s.log) + 1
      /\ \A j \in 1 .. Len(s.log) : r.decided_at[j] = s.decided_at[j]
      /\ r.decided_at[Len(s.log) + 1] = s.decided
  BY <1>3, <1>4, <1>6
<1>10. \A m \in Server : /\ promised[m] \in Nat /\ promised[m] <= Len(ballots)
                         /\ ServerOK(m) /\ log[m] \in Seq(Entry) /\ Len(log[m]) \in Nat
                         /\ decided_idx[m] \in Nat
  BY <1>0 DEF PaxosTypeOK, ServersOK, ServerOK
<1>11. /\ log' \in [Server -> Seq(Entry)]
       /\ s.ready => log'[n] = r.log
       /\ ~s.ready => log' = log
       /\ \A m \in Server : m # n => log'[m] = log[m]
  <2>1. CASE s.ready
    <3>1. log' = [log EXCEPT ![n] = r.log]
      BY <1>1, <1>2, <1>6, <2>1 DEF s
    <3>2. r.log \in Seq(Entry)
      BY <1>6 DEF BallotRecord
    <3> QED BY <1>0, <2>1, <3>1, <3>2 DEF PaxosTypeOK
  <2>2. CASE ~s.ready
    BY <1>0, <1>1, <2>2 DEF PaxosTypeOK, s
  <2> QED BY <2>1, <2>2
<1>12. PaxosTypeOK(Entry)'
  BY <1>0, <1>1, <1>7, <1>11 DEF PaxosTypeOK
<1>13. BallotsOK'
  <2>1. ASSUME NEW j \in 1 .. Len(r.log)
        PROVE  r.decided_at[j] <= r.decided /\ (r.adopted < j => r.decided_at[j] < j)
    <3>1. CASE j \in 1 .. Len(s.log)
      BY <1>4, <1>6, <1>9, <3>1
    <3>2. CASE j = Len(s.log) + 1
      BY <1>3, <1>4, <1>6, <1>9, <3>2
    <3> QED BY <1>3, <1>8, <2>1, <3>1, <3>2
  <2>2. /\ Len(r.decided_at) = Len(r.log)
        /\ r.decided <= Len(r.log) /\ r.adopted <= Len(r.log)
        /\ ~r.ready => r.adopted = 0 /\ r.decided = 0
    BY <1>3, <1>4, <1>6, <1>8, <1>9
  <2> QED BY <1>0, <1>7, <2>1, <2>2 DEF BallotsOK
<1>14. BallotsGrow
  <2> SUFFICES ASSUME NEW c \in Ballot
               PROVE  /\ ballots'[c].leader = ballots[c].leader
                      /\ ballots[c].decided <= ballots'[c].decided
                      /\ ballots'[c].ready = ballots[c].ready
                      /\ ballots'[c].adopted = ballots[c].adopted
                      /\ Agree(ballots[c].log, ballots'[c].log, Len(ballots[c].log))
    BY <1>0, <1>7 DEF BallotsGrow, PaxosTypeOK
  <2>1. ballots[c].decided \in Nat /\ Len(ballots[c].log) \in Nat
    BY <1>0, BallotTypes
  <2>2. CASE c = b
    <3>1. Agree(s.log, r.log, Len(s.log))
      BY <1>3, <1>8 DEF Agree
    <3>2. s.decided <= r.decided
      BY <1>3, <1>6
    <3> QED BY <1>6, <1>7, <2>2, <3>1, <3>2 DEF s
  <2>3. CASE c # b
    BY <1>7, <2>1, <2>3 DEF Agree
  <2> QED BY <2>2, <2>3
<1>15. ServersOK'
  <2> SUFFICES ASSUME NEW m \in Server PROVE ServerOK(m)'
    BY DEF ServersOK
  <2>1. CASE m = n /\ s.ready
    <3>1. /\ accepted_round'[n] = b /\ promised'[n] = b /\ b # 0 /\ b <= Len(ballots')
          /\ ballots'[b] = r /\ r.ready /\ log'[n] = r.log
      BY <1>1, <1>2, <1>6, <1>7, <1>10, <1>11, <2>1 DEF s
    <3>2. Len(r.log) \in Nat /\ r.adopted <= Len(r.log) /\ decided_idx'[n] <= Len(r.log)
      <4>1. /\ Len(s.log) \in Nat /\ s.adopted \in Nat /\ s.decided \in Nat
            /\ s.adopted <= Len(s.log) /\ s.decided <= Len(s.log)
        BY <1>3, <1>4
      <4>2. decided_idx'[n] = s.decided
        BY <1>1, <1>2, <2>1 DEF s
      <4>3. r.adopted = s.adopted /\ Len(r.log) = Len(s.log) + 1
        BY <1>6, <1>8
      <4> QED BY <4>1, <4>2, <4>3
    <3>3. Agree(r.log, r.log, Len(r.log))
      BY <3>2 DEF Agree
    <3> QED BY <1>3, <2>1, <3>1, <3>2, <3>3 DEF ServerOK
  <2>2. CASE m # n \/ ~s.ready
    <3>1. log'[m] = log[m] /\ decided_idx'[m] <= Len(log'[m])
      BY <1>1, <1>10, <1>11, <2>2 DEF ServerOK
    <3> QED BY <1>0, <1>1, <1>7, <1>10, <1>12, <1>14, <3>1, ServerStays
  <2> QED BY <2>1, <2>2
<1>16. LeadersOK'
  <2> SUFFICES ASSUME NEW c \in Ballot PROVE LeaderOK(c)'
    BY <1>7 DEF LeadersOK
  <2>1. CASE c = b
    <3>1. /\ ballots'[c] = r /\ r.leader = n /\ promised[n] = b
          /\ promised' = promised /\ accepted_round' = accepted_round
          /\ decided_idx' = decided_idx /\ r.ready = s.ready /\ r.decided = s.decided
      BY <1>1, <1>6, <1>7, <2>1 DEF s
    <3>2. s.ready => accepted_round[n] = b /\ log'[n] = r.log /\ decided_idx[n] = s.decided
      BY <1>2, <1>11 DEF s
    <3>3. b \in Nat
      BY <1>3
    <3> QED BY <2>1, <3>1, <3>2, <3>3 DEF LeaderOK
  <2>2. CASE c # b
    <3> DEFINE l == ballots[c].leader
    <3>1. l \in Server /\ LeaderOK(c)
      BY <1>0, BallotTypes DEF LeadersOK
    <3> HIDE DEF l
    <3>2. promised[l] <= promised'[l]
      BY <1>1, <1>10, <3>1
    <3>3. promised'[l] = c => l # n
      BY <1>1, <2>2
    <3>4. promised'[l] = c => /\ promised[l] = c
                              /\ log'[l] = log[l]
                              /\ accepted_round'[l] = accepted_round[l]
                              /\ decided_idx'[l] = decided_idx[l]
      BY <1>1, <1>11, <3>1, <3>3
    <3> QED BY <1>0, <1>7, <1>12, <2>2, <3>1, <3>2, <3>4, LeaderStays DEF l
  <2> QED BY <2>1, <2>2
<1>17. ServersGrow
  <2> SUFFICES ASSUME NEW m \in Server
               PROVE  \/ log'[m] = log[m]
                      \/ accepted_round[m] = promised[m] /\ Len(log[m]) <= Len(log'[m])
    BY <1>1, <1>10 DEF ServersGrow
  <2>1. CASE m = n /\ s.ready
    BY <1>2, <1>3, <1>8, <1>11, <2>1 DEF s
  <2> QED BY <1>11, <2>1
<1>18. NoNewReady
  BY <1>6, <1>7 DEF NoNewReady, Ready, s
<1>19. \A c \in Ballot : ballots'[c].decided = ballots[c].decided
  BY <1>6, <1>7 DEF s
<1> QED BY <1>1, <1>12, <1>13, <1>14, <1>15, <1>16, <1>17, <1>18, <1>19 DEF Local, Grows

-----------------------------------------------------------------------------
\* What is bounded has a greatest element.
LEMMA MaxOfBounded ==
  ASSUME NEW S, S \subseteq Nat, S # {}, NEW k \in Nat, \A x \in S : x <= k
  PROVE  MaxOf(S) \in S /\ \A y \in S : y <= MaxOf(S)
<1> DEFINE T == {j \in Nat : \A x \in S : x <= j}
<1>1. PICK t \in T : \A y \in T : t <= y
  <2>1. T \subseteq Nat /\ T # {}
    OBVIOUS
  <2> HIDE DEF T
  <2> QED BY <2>1, LeastElement
<1>2. t \in Nat /\ \A x \in S : x <= t
  OBVIOUS
<1>3. t \in S
  <2> SUFFICES ASSUME t \notin S PROVE FALSE
    OBVIOUS
  <2>1. \A x \in S : x < t
    BY <1>2
  <2>2. t # 0
    <3>1. PICK x \in S : TRUE
      OBVIOUS
    <3>2. x \in Nat /\ x < t
      BY <2>1, <3>1
    <3> QED BY <1>2, <3>2
  <2>3. t - 1 \in T
    BY <1>2, <2>1, <2>2
  <2> QED BY <1>1, <1>2, <2>3
<1>4. \E x \in S : \A y \in S : y <= x
  BY <1>2, <1>3
<1> QED BY <1>4 DEF MaxOf

\* The log adopted from a majority begins with all that was chosen, and with
\* all that is not blocked, in the ballots below.
LEMMA AdoptedOK ==
  ASSUME NEW Entry, PaxosInv(Entry), NEW b \in Ballot, ~ballots[b].ready,
         NEW Q \in SUBSET Server, IsQuorum(Q), \A q \in Q : promised[q] = b,
         NEW m \in Q, MostUpdated(m, Q)
  PROVE  /\ \A c \in Ballot : Ready(c) => c < b
         /\ \A c \in Ballot : \A i \in Nat : Chosen(c, i) =>
              Agree(ballots[c].log, log[m], i)
         /\ \A c \in Ballot : \A i \in Nat : Ready(c) =>
              \/ Agree(ballots[c].log, log[m], i)
              \/ Blocked(c, i)
         /\ \A q \in Q : decided_idx[q] <= Len(log[m])
<1> DEFINE r == accepted_round[m]
<1>0. Local(Entry) /\ PaxosTypeOK(Entry) /\ ContinuesOrBlocked /\ ReadyIsPromised /\ DecidedIsChosen
  BY DEF PaxosInv, Local
<1>1. \A q \in Q : /\ q \in Server /\ ServerOK(q)
                   /\ accepted_round[q] \in Nat /\ log[q] \in Seq(Entry) /\ Len(log[q]) \in Nat
                   /\ decided_idx[q] \in Nat
  BY <1>0 DEF Local, ServersOK, PaxosTypeOK
<1>2. b \in Nat /\ b <= Len(ballots) /\ Len(ballots) \in Nat
  BY <1>0, BallotTypes
<1>3. \A q \in Q : accepted_round[q] < b
  <2>1. \A q \in Q : accepted_round[q] # b
    BY <1>1, <1>2 DEF ServerOK, Ballot
  <2> QED BY <1>1, <1>2, <2>1 DEF ServerOK
<1>4. \A q \in Q : /\ accepted_round[q] <= r
                   /\ accepted_round[q] = r => Len(log[q]) <= Len(log[m])
  BY <1>1 DEF MostUpdated
<1>5. ASSUME NEW c \in Ballot, Ready(c) PROVE c < b
  <2>1. PICK P \in SUBSET Server : IsQuorum(P) /\ \A p \in P : c <= promised[p]
    BY <1>0, <1>5 DEF ReadyIsPromised, Promised
  <2>2. PICK q \in Server : q \in P /\ q \in Q
    BY <2>1, QuorumsMeet
  <2>3. c <= b
    BY <2>1, <2>2
  <2>4. c # b
    BY <1>5 DEF Ready
  <2> QED BY <1>2, <2>3, <2>4 DEF Ballot
<1>6. r # 0 => /\ r \in Ballot /\ Ready(r) /\ ballots[r].adopted <= Len(log[m])
               /\ Agree(ballots[r].log, log[m], Len(log[m]))
               /\ ballots[r].adopted \in Nat /\ Len(ballots[r].log) \in Nat
  <2> SUFFICES ASSUME r # 0
               PROVE  /\ r \in Ballot /\ Ready(r) /\ ballots[r].adopted <= Len(log[m])
                      /\ Agree(ballots[r].log, log[m], Len(log[m]))
                      /\ ballots[r].adopted \in Nat /\ Len(ballots[r].log) \in Nat
    OBVIOUS
  <2>1. r \in Ballot
    BY <1>1, <1>2, <1>3 DEF Ballot
  <2>2. /\ ballots[r].ready /\ ballots[r].adopted <= Len(log[m])
        /\ Agree(ballots[r].log, log[m], Len(log[m]))
    BY <1>1 DEF ServerOK
  <2> QED BY <1>0, <2>1, <2>2, BallotTypes DEF Ready
<1> HIDE DEF r
\* Entries of a lower ballot that the ballot of m's log goes on with, m has.
<1>7. ASSUME NEW c \in Ballot, NEW i \in Nat, r # 0, Continues(c, r, i)
      PROVE  Agree(ballots[c].log, log[m], i)
  <2>1. i <= ballots[r].adopted /\ Agree(ballots[c].log, ballots[r].log, i)
    BY <1>7 DEF Continues
  <2>2. i <= Len(log[m])
    BY <1>1, <1>6, <1>7, <2>1
  <2>3. Len(log[m]) \in Nat
    BY <1>1
  <2> QED BY <1>6, <1>7, <2>1, <2>2, <2>3 DEF Agree
\* Entries of the ballot of m's log itself.
<1>8. ASSUME NEW i \in Nat, r # 0, i <= Len(log[m])
      PROVE  Agree(ballots[r].log, log[m], i)
  <2>1. Len(log[m]) \in Nat
    BY <1>1
  <2> QED BY <1>6, <1>8, <2>1 DEF Agree
<1>9. ASSUME NEW c \in Ballot, NEW i \in Nat, Chosen(c, i)
      PROVE  Agree(ballots[c].log, log[m], i)
  <2>1. PICK P \in SUBSET Server :
          /\ IsQuorum(P)
          /\ \A p \in P : c < accepted_round[p] \/ (accepted_round[p] = c /\ i <= Len(log[p]))
    BY <1>9 DEF Chosen, Held
  <2>2. PICK q \in Server : q \in P /\ q \in Q
    BY <2>1, QuorumsMeet
  <2>3. c < r \/ (r = c /\ i <= Len(log[m]))
    <3>1. c < accepted_round[q] \/ (accepted_round[q] = c /\ i <= Len(log[q]))
      BY <2>1, <2>2
    <3>2. c \in Nat /\ r \in Nat
      BY <1>1 DEF Ballot, r
    <3> QED BY <1>1, <1>4, <2>2, <3>1, <3>2
  <2>4. r # 0
    BY <2>3 DEF Ballot
  <2>5. CASE c < r
    BY <1>6, <1>7, <1>9, <2>4, <2>5 DEF Chosen
  <2>6. CASE r = c /\ i <= Len(log[m])
    BY <1>8, <2>4, <2>6
  <2> QED BY <2>3, <2>5, <2>6
<1>10. ASSUME NEW c \in Ballot, NEW i \in Nat, Ready(c)
       PROVE  Agree(ballots[c].log, log[m], i) \/ Blocked(c, i)
  <2>1. c \in Nat \ {0} /\ r \in Nat /\ c < b
    BY <1>1, <1>5, <1>10 DEF Ballot, r
  <2>2. CASE r < c \/ (r = c /\ Len(log[m]) < i)
    <3>1. \A q \in Q : ~(accepted_round[q] = c /\ i <= Len(log[q]))
      BY <1>1, <1>4, <2>1, <2>2
    <3> QED BY <2>1, <3>1 DEF Blocked
  <2>3. CASE r = c /\ i <= Len(log[m])
    BY <1>8, <2>1, <2>3
  <2>4. CASE c < r
    <3>1. r # 0 /\ r \in Ballot /\ Ready(r)
      BY <1>6, <2>1, <2>4
    <3>2. Continues(c, r, i) \/ Blocked(c, i)
      BY <1>0, <1>10, <2>4, <3>1 DEF ContinuesOrBlocked
    <3> QED BY <1>7, <3>1, <3>2
  <2>5. Len(log[m]) \in Nat
    BY <1>1
  <2> QED BY <2>1, <2>2, <2>3, <2>4, <2>5
<1>11. ASSUME NEW q \in Q PROVE decided_idx[q] <= Len(log[m])
  <2>1. CASE decided_idx[q] = 0
    BY <1>1, <2>1
  <2>2. CASE decided_idx[q] # 0
    <3>1. PICK c \in 1 .. accepted_round[q] : Chosen(c, decided_idx[q])
      BY <1>0, <1>1, <2>2 DEF DecidedIsChosen, ChosenBy
    <3>2. c \in Ballot
      BY <3>1 DEF Chosen, Ready
    <3>3. Agree(ballots[c].log, log[m], decided_idx[q])
      BY <1>1, <1>9, <3>1, <3>2
    <3> QED BY <3>3 DEF Agree
  <2> QED BY <2>1, <2>2
<1> QED BY <1>5, <1>9, <1>10, <1>11

LEMMA ConcatOK ==
  ASSUME NEW Entry, NEW s \in Seq(Entry), NEW t \in Seq(Entry)
  PROVE  /\ s \o t \in Seq(Entry) /\ Len(s \o t) \in Nat /\ Len(s) <= Len(s \o t)
         /\ \A j \in 1 .. Len(s) : (s \o t)[j] = s[j]
<1>1. Len(s) \in Nat /\ Len(t) \in Nat /\ Len(s \o t) = Len(s) + Len(t)
  OBVIOUS
<1>2. s \o t \in Seq(Entry)
  OBVIOUS
<1>3. \A j \in 1 .. Len(s) : (s \o t)[j] = s[j]
  OBVIOUS
<1> QED BY <1>1, <1>2, <1>3

\* The end of Prepare: the record of the ballot is the log that n adopts, and
\* what n takes for decided is what one of the majority did.
LEMMA PreparedStep ==
  ASSUME NEW Entry, PaxosInv(Entry), NEW n \in Server, Prepared(n)
  PROVE  /\ Local(Entry)' /\ Grows /\ NewlyReady(promised[n])
         /\ accepted_round'[n] = promised[n] /\ decided_idx'[n] = ballots'[promised[n]].decided
         /\ \A k \in Server : k # n => /\ accepted_round'[k] = accepted_round[k]
                                       /\ decided_idx'[k] = decided_idx[k]
         /\ \A c \in Ballot : c # promised[n] => ballots'[c] = ballots[c]
         /\ \E q \in Server : /\ decided_idx[q] = decided_idx'[n]
                              /\ accepted_round[q] < promised[n]
         /\ decided_idx[n] <= decided_idx'[n]
<1> DEFINE b == promised[n]
           Q == {m \in Server : promised[m] = b}
           d == MaxOf({decided_idx[q] : q \in Q})
<1>0. /\ PaxosTypeOK(Entry) /\ Local(Entry) /\ BallotsOK /\ ServersOK /\ LeadersOK
      /\ DecidedIsChosen
  BY DEF PaxosInv, Local
<1>1. PICK m \in {q \in Q : MostUpdated(q, Q)} :
        /\ b # 0 /\ ballots[b].leader = n /\ ~ballots[b].ready /\ IsQuorum(Q)
        /\ log' = [log EXCEPT ![n] = log[m] \o ballots[b].log]
        /\ accepted_round' = [accepted_round EXCEPT ![n] = b]
        /\ decided_idx' = [decided_idx EXCEPT ![n] = d]
        /\ ballots' = [ballots EXCEPT ![b] =
             [ leader |-> n, ready |-> TRUE,
               adopted |-> Len(log[m] \o ballots[b].log), log |-> log[m] \o ballots[b].log,
               decided_at |-> [i \in 1 .. Len(log[m] \o ballots[b].log) |-> d],
               decided |-> d ]]
        /\ promised' = promised
  BY DEF Prepared
<1>2. /\ b \in Ballot /\ m \in Q /\ MostUpdated(m, Q) /\ Q \in SUBSET Server
      /\ m \in Server /\ n \in Q
      /\ \A k \in Server : accepted_round[k] # b
  BY <1>0, <1>1, LeadingOK
<1>3. b \in Nat \ {0} /\ ballots[b].log \in Seq(Entry)
  BY <1>0, <1>2, BallotTypes
<1>4. /\ \A c \in Ballot : Ready(c) => c < b
      /\ \A c \in Ballot : \A i \in Nat : Chosen(c, i) => Agree(ballots[c].log, log[m], i)
      /\ \A c \in Ballot : \A i \in Nat : Ready(c) =>
           Agree(ballots[c].log, log[m], i) \/ Blocked(c, i)
      /\ \A q \in Q : decided_idx[q] <= Len(log[m])
  <2> HIDE DEF Q
  <2>1. \A q \in Q : promised[q] = b
    BY DEF Q
  <2> QED BY <1>1, <1>2, <2>1, AdoptedOK
<1>5. \A k \in Server : /\ promised[k] \in Nat /\ promised[k] <= Len(ballots)
                        /\ accepted_round[k] \in Nat /\ accepted_round[k] <= promised[k]
                        /\ ServerOK(k) /\ log[k] \in Seq(Entry) /\ Len(log[k]) \in Nat
                        /\ decided_idx[k] \in Nat
  BY <1>0 DEF PaxosTypeOK, ServersOK, ServerOK
<1>6. d \in {decided_idx[q] : q \in Q} /\ \A q \in Q : decided_idx[q] <= d
  <2> DEFINE S == {decided_idx[q] : q \in Q}
  <2>1. S \subseteq Nat /\ S # {} /\ Len(log[m]) \in Nat /\ \A x \in S : x <= Len(log[m])
    BY <1>2, <1>4, <1>5
  <2>2. \A q \in Q : decided_idx[q] \in S
    OBVIOUS
  <2> HIDE DEF S
  <2>3. MaxOf(S) \in S /\ \A y \in S : y <= MaxOf(S)
    BY <2>1, MaxOfBounded
  <2> QED BY <2>2, <2>3 DEF S
<1> HIDE DEF d
<1>7. PICK q \in Q : decided_idx[q] = d
  BY <1>6
<1>8. d \in Nat /\ d <= Len(log[m]) /\ decided_idx[n] <= d
  BY <1>2, <1>4, <1>5, <1>6, <1>7
<1> DEFINE L == log[m] \o ballots[b].log
           at == [i \in 1 .. Len(L) |-> d]
           r == [ leader |-> n, ready |-> TRUE, adopted |-> Len(L), log |-> L,
                  decided_at |-> at, decided |-> d ]
<1>9. /\ L \in Seq(Entry) /\ Len(L) \in Nat /\ Len(log[m]) <= Len(L)
      /\ \A j \in 1 .. Len(log[m]) : L[j] = log[m][j]
  <2>1. log[m] \in Seq(Entry) /\ ballots[b].log \in Seq(Entry)
    BY <1>2, <1>3, <1>5
  <2> QED BY <2>1, ConcatOK, Zenon
<1>10. ballots' = [ballots EXCEPT ![b] = r]
  BY <1>1
<1>11. log' = [log EXCEPT ![n] = L]
  BY <1>1
<1> HIDE DEF L
<1>12. at \in Seq(Nat) /\ Len(at) = Len(L) /\ \A j \in 1 .. Len(L) : at[j] = d
  BY <1>8, <1>9
<1> HIDE DEF at
<1>13. /\ r \in BallotRecord(Entry)
       /\ r.leader = n /\ r.ready = TRUE /\ r.adopted = Len(L) /\ r.log = L
       /\ r.decided_at = at /\ r.decided = d
  BY <1>8, <1>9, <1>12 DEF BallotRecord
<1> HIDE DEF r
<1>14. /\ ballots' \in Seq(BallotRecord(Entry))
       /\ Len(ballots') = Len(ballots) /\ Ballot' = Ballot /\ ballots'[b] = r
       /\ \A c \in Ballot : c # b => ballots'[c] = ballots[c]
  <2>1. PaxosTypeOK(Entry) /\ b \in Ballot /\ r \in BallotRecord(Entry)
    BY <1>0, <1>2, <1>13
  <2> HIDE DEF Q, d, b
  <2> QED BY <1>10, <2>1, BallotUpdated
<1>15. /\ log'[n] = L /\ log' \in [Server -> Seq(Entry)]
       /\ accepted_round'[n] = b /\ accepted_round' \in [Server -> Nat]
       /\ decided_idx'[n] = d /\ decided_idx' \in [Server -> Nat]
       /\ \A k \in Server : k # n => /\ log'[k] = log[k]
                                     /\ accepted_round'[k] = accepted_round[k]
                                     /\ decided_idx'[k] = decided_idx[k]
  BY <1>0, <1>1, <1>3, <1>8, <1>9, <1>11 DEF PaxosTypeOK
<1>16. PaxosTypeOK(Entry)'
  BY <1>0, <1>1, <1>14, <1>15 DEF PaxosTypeOK
<1>17. BallotsOK'
  <2>1. /\ Len(r.decided_at) = Len(r.log)
        /\ r.decided <= Len(r.log) /\ r.adopted <= Len(r.log) /\ r.ready
        /\ \A j \in 1 .. Len(r.log) :
             r.decided_at[j] <= r.decided /\ (r.adopted < j => r.decided_at[j] < j)
    BY <1>5, <1>8, <1>9, <1>12, <1>13, <1>2
  <2> QED BY <1>0, <1>14, <2>1 DEF BallotsOK
<1>18. BallotsGrow
  <2> SUFFICES ASSUME NEW c \in Ballot
               PROVE  /\ ballots'[c].leader = ballots[c].leader
                      /\ ballots[c].decided <= ballots'[c].decided
                      /\ ballots[c].ready =>
                           /\ ballots'[c].ready /\ ballots'[c].adopted = ballots[c].adopted
                           /\ Agree(ballots[c].log, ballots'[c].log, Len(ballots[c].log))
    BY <1>0, <1>14 DEF BallotsGrow, PaxosTypeOK
  <2>1. CASE c = b
    <3>1. ballots[b].decided = 0
      BY <1>0, <1>1, <1>2 DEF BallotsOK
    <3>2. ballots'[b].leader = ballots[b].leader /\ ballots'[b].decided = d
      BY <1>1, <1>13, <1>14
    <3>3. ~ballots[c].ready
      BY <1>1, <2>1
    <3>4. ballots[b].decided <= ballots'[b].decided
      BY <1>8, <3>1, <3>2
    <3> QED BY <2>1, <3>2, <3>3, <3>4
  <2>2. CASE c # b
    BY <1>0, <1>14, <2>2, BallotTypes DEF Agree
  <2> QED BY <2>1, <2>2
<1>19. ServersOK'
  <2> SUFFICES ASSUME NEW k \in Server PROVE ServerOK(k)'
    BY DEF ServersOK
  <2>1. CASE k = n
    <3>1. Agree(r.log, L, Len(L)) /\ r.adopted <= Len(L) /\ d <= Len(L)
      BY <1>2, <1>5, <1>8, <1>9, <1>13 DEF Agree
    <3>2. /\ accepted_round'[n] = b /\ promised'[n] = b
          /\ log'[n] = L /\ decided_idx'[n] = d /\ ballots'[b] = r
      BY <1>1, <1>14, <1>15
    <3>3. b # 0 /\ b <= b /\ b <= Len(ballots')
      BY <1>3, <1>5, <1>14
    <3> QED BY <1>13, <2>1, <3>1, <3>2, <3>3 DEF ServerOK
  <2>2. CASE k # n
    <3>1. log'[k] = log[k] /\ decided_idx'[k] <= Len(log'[k])
          /\ accepted_round'[k] = accepted_round[k]
      BY <1>5, <1>15, <2>2 DEF ServerOK
    <3>2. promised[k] <= promised'[k] /\ promised'[k] <= Len(ballots')
      BY <1>1, <1>5, <1>14
    <3>3. ServerOK(k)
      BY <1>5
    <3> QED BY <1>0, <1>16, <1>18, <3>1, <3>2, <3>3, ServerStays
  <2> QED BY <2>1, <2>2
<1>20. LeadersOK'
  <2> SUFFICES ASSUME NEW c \in Ballot PROVE LeaderOK(c)'
    BY <1>14 DEF LeadersOK
  <2>1. CASE c = b
    <3>1. /\ ballots'[c] = r /\ r.leader = n /\ promised'[n] = b
          /\ accepted_round'[n] = b /\ log'[n] = r.log /\ decided_idx'[n] = r.decided
      BY <1>1, <1>13, <1>14, <1>15, <2>1
    <3>2. b \in Nat
      BY <1>3
    <3> QED BY <2>1, <3>1, <3>2 DEF LeaderOK
  <2>2. CASE c # b
    <3> DEFINE l == ballots[c].leader
    <3>1. l \in Server /\ LeaderOK(c)
      BY <1>0, BallotTypes DEF LeadersOK
    <3> HIDE DEF l
    <3>2. promised[l] <= promised'[l]
      BY <1>1, <1>5, <3>1
    <3>3. promised'[l] = c => l # n
      BY <1>1, <2>2
    <3>4. promised'[l] = c => /\ promised[l] = c
                              /\ log'[l] = log[l]
                              /\ accepted_round'[l] = accepted_round[l]
                              /\ decided_idx'[l] = decided_idx[l]
      BY <1>1, <1>15, <3>1, <3>3
    <3> QED BY <1>0, <1>14, <1>16, <2>2, <3>1, <3>2, <3>4, LeaderStays DEF l
  <2> QED BY <2>1, <2>2
<1>21. ServersGrow
  BY <1>1, <1>2, <1>5, <1>15, SMTT(30) DEF ServersGrow
<1>22. \A c \in Ballot' : Ready(c)' => Ready(c) \/ c = b
  BY <1>14 DEF Ready
<1>23. ASSUME NEW c \in Ballot, NEW i \in Nat, Ready(c), Agree(ballots[c].log, log[m], i)
       PROVE  Continues(c, b, i)'
  <2>1. ballots'[c].log = ballots[c].log /\ ballots'[b].log = L /\ ballots'[b].adopted = Len(L)
    BY <1>1, <1>13, <1>14, <1>23 DEF Ready
  <2>2. i <= Len(ballots[c].log) /\ i <= Len(log[m])
        /\ \A j \in 1 .. i : ballots[c].log[j] = log[m][j]
    BY <1>23 DEF Agree
  <2>3. Len(log[m]) \in Nat
    BY <1>2, <1>5
  <2>4. i <= Len(L) /\ \A j \in 1 .. i : ballots[c].log[j] = L[j]
    BY <1>9, <2>2, <2>3
  <2>5. i <= ballots'[b].adopted /\ Agree(ballots'[c].log, ballots'[b].log, i)
    BY <2>1, <2>2, <2>4 DEF Agree
  <2>6. promised'[n] = b
    BY <1>1
  <2> QED BY <2>5, <2>6 DEF Continues
<1>24. Promised(b)
  BY <1>1, <1>2, <1>3 DEF Promised
<1>25. \E k \in Server : decided_idx[k] = decided_idx'[n] /\ accepted_round[k] < b
  <2>1. q \in Server /\ promised[q] = b /\ accepted_round[q] # b
    BY <1>2
  <2>2. accepted_round[q] < b
    BY <1>3, <1>5, <2>1
  <2> QED BY <1>7, <1>15, <2>1, <2>2
<1>26. \A c \in Ballot : \A i \in Nat : Chosen(c, i) => Continues(c, b, i)'
  BY <1>4, <1>23 DEF Chosen
<1>27. \A c \in Ballot : \A i \in Nat : Ready(c) => Continues(c, b, i)' \/ Blocked(c, i)
  BY <1>4, <1>23
<1>28. decided_idx'[n] = ballots'[b].decided /\ decided_idx[n] <= decided_idx'[n]
  BY <1>8, <1>13, <1>14, <1>15
<1>29. Local(Entry)' /\ Grows
  BY <1>16, <1>17, <1>18, <1>19, <1>20, <1>21 DEF Local, Grows
<1> HIDE DEF Q
<1>30. NewlyReady(b)
  <2>1. promised'[n] = b
    BY <1>1
  <2> QED BY <1>4, <1>22, <1>24, <1>26, <1>27, <2>1 DEF NewlyReady
<1> QED BY <1>14, <1>15, <1>25, <1>28, <1>29, <1>30

-----------------------------------------------------------------------------
\* What is blocked stays blocked, what is held stays held.
LEMMA BlockedStable ==
  ASSUME NEW Entry, Local(Entry), Local(Entry)', ServersGrow,
         NEW b \in Nat, NEW i \in Nat, Blocked(b, i)
  PROVE  Blocked(b, i)'
<1>1. PICK Q \in SUBSET Server :
        /\ IsQuorum(Q)
        /\ \A m \in Q : b < promised[m] /\ ~(accepted_round[m] = b /\ i <= Len(log[m]))
  BY DEF Blocked
<1>2. ASSUME NEW m \in Q
      PROVE  b < promised'[m] /\ ~(accepted_round'[m] = b /\ i <= Len(log'[m]))
  <2>1. /\ m \in Server /\ promised[m] \in Nat /\ promised'[m] \in Nat
        /\ promised[m] <= promised'[m]
    BY <1>2 DEF Local, PaxosTypeOK, ServersGrow
  <2>2. b < promised[m] /\ ~(accepted_round[m] = b /\ i <= Len(log[m]))
    BY <1>1, <1>2
  <2>3. \/ accepted_round'[m] = accepted_round[m] /\ log'[m] = log[m]
        \/ accepted_round'[m] = promised[m]
    BY <2>1 DEF ServersGrow
  <2> QED BY <2>1, <2>2, <2>3
<1>3. IsQuorum(Q)'
  BY <1>1 DEF IsQuorum
<1> QED BY <1>2, <1>3 DEF Blocked

LEMMA HeldStable ==
  ASSUME NEW Entry, Local(Entry), Local(Entry)', ServersGrow,
         NEW b \in Nat, NEW i \in Nat, Held(b, i)
  PROVE  Held(b, i)'
<1>1. PICK Q \in SUBSET Server :
        /\ IsQuorum(Q)
        /\ \A m \in Q : \/ b < accepted_round[m]
                        \/ accepted_round[m] = b /\ i <= Len(log[m])
  BY DEF Held
<1>2. ASSUME NEW m \in Q
      PROVE  b < accepted_round'[m] \/ (accepted_round'[m] = b /\ i <= Len(log'[m]))
  <2>1. /\ m \in Server /\ promised[m] \in Nat /\ accepted_round[m] \in Nat
        /\ accepted_round[m] <= promised[m] /\ Len(log[m]) \in Nat /\ Len(log'[m]) \in Nat
    BY <1>2 DEF Local, PaxosTypeOK, ServersOK, ServerOK
  <2>2. b < accepted_round[m] \/ (accepted_round[m] = b /\ i <= Len(log[m]))
    BY <1>1, <1>2
  <2>3. \/ accepted_round'[m] = accepted_round[m] /\ log'[m] = log[m]
        \/ /\ accepted_round'[m] = promised[m]
           /\ accepted_round[m] = promised[m] => Len(log[m]) <= Len(log'[m])
    BY <2>1 DEF ServersGrow
  <2> QED BY <2>1, <2>2, <2>3
<1>3. IsQuorum(Q)'
  BY <1>1 DEF IsQuorum
<1> QED BY <1>2, <1>3 DEF Held

LEMMA PromisedStable ==
  ASSUME NEW Entry, Local(Entry), Local(Entry)', ServersGrow, NEW b \in Nat, Promised(b)
  PROVE  Promised(b)'
<1>1. PICK Q \in SUBSET Server : IsQuorum(Q) /\ \A m \in Q : b <= promised[m]
  BY DEF Promised
<1>2. ASSUME NEW m \in Q PROVE b <= promised'[m]
  <2>1. promised[m] \in Nat /\ promised'[m] \in Nat /\ promised[m] <= promised'[m]
    BY <1>2 DEF Local, PaxosTypeOK, ServersGrow
  <2> QED BY <1>1, <1>2, <2>1
<1>3. IsQuorum(Q)'
  BY <1>1 DEF IsQuorum
<1> QED BY <1>2, <1>3 DEF Promised

\* What a ballot that is ready has sent stays.
LEMMA ReadyStable ==
  ASSUME NEW Entry, Local(Entry), Local(Entry)', BallotsGrow, NEW b \in Ballot, Ready(b)
  PROVE  /\ b \in Ballot' /\ Ready(b)'
         /\ ballots'[b].adopted = ballots[b].adopted
         /\ Agree(ballots[b].log, ballots'[b].log, Len(ballots[b].log))
         /\ Len(ballots[b].log) \in Nat /\ Len(ballots'[b].log) \in Nat
         /\ Len(ballots[b].log) <= Len(ballots'[b].log)
<1>1. b \in Ballot'
  BY DEF BallotsGrow, Ballot, Local, PaxosTypeOK
<1>2. /\ ballots'[b].ready /\ ballots'[b].adopted = ballots[b].adopted
      /\ Agree(ballots[b].log, ballots'[b].log, Len(ballots[b].log))
  BY DEF BallotsGrow, Ready
<1>3. Len(ballots[b].log) \in Nat
  BY BallotTypes DEF Local
<1>4. Len(ballots'[b].log) \in Nat
  <2>1. ballots' \in Seq(BallotRecord(Entry))
    BY DEF Local, PaxosTypeOK
  <2>2. ballots'[b] \in BallotRecord(Entry)
    BY <1>1, <2>1 DEF Ballot
  <2>3. ballots'[b].log \in Seq(Entry)
    BY <2>2 DEF BallotRecord
  <2> QED BY <2>3
<1> QED BY <1>1, <1>2, <1>3, <1>4 DEF Ready, Agree

LEMMA ContinuesStable ==
  ASSUME NEW Entry, Local(Entry), Local(Entry)', BallotsGrow,
         NEW b \in Ballot, NEW c \in Ballot, Ready(b), Ready(c),
         NEW i \in Nat, Continues(b, c, i)
  PROVE  Continues(b, c, i)'
<1>1. /\ Agree(ballots[b].log, ballots'[b].log, Len(ballots[b].log))
      /\ Len(ballots[b].log) \in Nat /\ Len(ballots'[b].log) \in Nat
      /\ Len(ballots[b].log) <= Len(ballots'[b].log)
  BY ReadyStable
<1>2. /\ Agree(ballots[c].log, ballots'[c].log, Len(ballots[c].log))
      /\ Len(ballots[c].log) \in Nat /\ Len(ballots'[c].log) \in Nat
      /\ Len(ballots[c].log) <= Len(ballots'[c].log)
      /\ ballots'[c].adopted = ballots[c].adopted
  BY ReadyStable
<1>3. i <= ballots[c].adopted /\ Agree(ballots[b].log, ballots[c].log, i)
  BY DEF Continues
<1>4. Agree(ballots'[b].log, ballots'[c].log, i)
  BY <1>1, <1>2, <1>3, SMTT(30) DEF Agree
<1> QED BY <1>2, <1>3, <1>4 DEF Continues

LEMMA ChosenStable ==
  ASSUME NEW Entry, Local(Entry), Local(Entry)', Grows,
         NoNewReady \/ \E p \in Nat : NewlyReady(p),
         NEW b \in Nat, NEW i \in Nat, Chosen(b, i)
  PROVE  Chosen(b, i)'
<1>1. /\ b \in Ballot /\ Ready(b) /\ i \in 0 .. Len(ballots[b].log) /\ Held(b, i)
      /\ \A c \in Ballot : Ready(c) /\ b < c => Continues(b, c, i)
  BY DEF Chosen, Ready
<1>2. Ready(b)' /\ Len(ballots[b].log) \in Nat /\ Len(ballots'[b].log) \in Nat
      /\ Len(ballots[b].log) <= Len(ballots'[b].log)
  BY <1>1, ReadyStable DEF Grows
<1>3. i \in 0 .. Len(ballots'[b].log)
  BY <1>1, <1>2
<1>4. Held(b, i)'
  BY <1>1, HeldStable DEF Grows
<1>5. ASSUME NEW c \in Ballot', Ready(c)', b < c PROVE Continues(b, c, i)'
  <2>1. CASE c \in Ballot /\ Ready(c)
    BY <1>1, <1>5, <2>1, ContinuesStable DEF Grows
  <2>2. CASE ~Ready(c)
    BY <1>1, <1>5, <2>2 DEF NoNewReady, NewlyReady
  <2> QED BY <2>1, <2>2 DEF Ready
<1> QED BY <1>2, <1>3, <1>4, <1>5 DEF Chosen

\* A step that keeps the local invariants keeps the others, as long as what
\* it makes ready, and what it takes for decided, is as it should be.
LEMMA PaxosInvKept ==
  ASSUME NEW Entry, PaxosInv(Entry), Local(Entry)', Grows,
         NoNewReady \/ \E p \in Nat : NewlyReady(p),
         DecidedWasChosen
  PROVE  PaxosInv(Entry)'
<1>0. Local(Entry) /\ ContinuesOrBlocked /\ ReadyIsPromised /\ ServersGrow /\ BallotsGrow
  BY DEF PaxosInv, Grows
<1>1. \A b \in Ballot' : b \in Nat
  BY DEF Ballot
<1>2. ContinuesOrBlocked'
  <2> SUFFICES ASSUME NEW b \in Ballot', NEW c \in Ballot', Ready(b)', Ready(c)', b < c,
                      NEW i \in Nat
               PROVE  Continues(b, c, i)' \/ Blocked(b, i)'
    BY DEF ContinuesOrBlocked
  <2>1. CASE Ready(b) /\ Ready(c)
    <3>1. b \in Ballot /\ c \in Ballot
      BY <2>1 DEF Ready
    <3>2. Continues(b, c, i) \/ Blocked(b, i)
      BY <1>0, <2>1, <3>1 DEF ContinuesOrBlocked
    <3> QED BY <1>0, <1>1, <2>1, <3>1, <3>2, ContinuesStable, BlockedStable
  <2>2. CASE ~(Ready(b) /\ Ready(c))
    <3>1. PICK p \in Nat : NewlyReady(p)
      BY <2>2 DEF NoNewReady
    <3>2. Ready(b) \/ b = p
      BY <3>1 DEF NewlyReady
    <3>3. Ready(c) \/ c = p
      BY <3>1 DEF NewlyReady
    <3>4. Ready(b) /\ c = p
      <4>1. ~(Ready(c) /\ b = p)
        <5> SUFFICES ASSUME Ready(c), b = p PROVE FALSE
          OBVIOUS
        <5>1. c \in Ballot /\ c < p
          BY <3>1 DEF NewlyReady, Ready
        <5> QED BY <1>1, <5>1
      <4>2. b # c
        BY <1>1
      <4> QED BY <2>2, <3>2, <3>3, <4>1, <4>2
    <3>5. Continues(b, c, i)' \/ Blocked(b, i)
      BY <3>1, <3>4 DEF NewlyReady, Ready
    <3> QED BY <1>0, <1>1, <3>5, BlockedStable
  <2> QED BY <2>1, <2>2
<1>3. ReadyIsPromised'
  <2> SUFFICES ASSUME NEW b \in Ballot', Ready(b)' PROVE Promised(b)'
    BY DEF ReadyIsPromised
  <2>1. Promised(b)
    BY <1>0 DEF ReadyIsPromised, NoNewReady, NewlyReady, Ready
  <2> QED BY <1>0, <1>1, <2>1, PromisedStable
<1>4. ASSUME NEW a \in Nat, NEW i \in Nat, ChosenBy(a, i) PROVE ChosenBy(a, i)'
  <2>1. \A c \in 1 .. a : Chosen(c, i) => Chosen(c, i)'
    BY <1>0, ChosenStable
  <2> QED BY <1>4, <2>1 DEF ChosenBy
<1>5. DecidedIsChosen'
  <2>1. ASSUME NEW n \in Server PROVE ChosenBy(accepted_round[n], decided_idx[n])'
    <3>1. accepted_round'[n] \in Nat /\ decided_idx'[n] \in Nat
      BY DEF Local, PaxosTypeOK
    <3>2. ChosenBy(accepted_round'[n], decided_idx'[n])
      BY DEF DecidedWasChosen
    <3> QED BY <1>4, <3>1, <3>2
  <2>2. ASSUME NEW b \in Ballot' PROVE ChosenBy(b, ballots[b].decided)'
    <3>1. ballots'[b].decided \in Nat
      <4>1. ballots' \in Seq(BallotRecord(Entry))
        BY DEF Local, PaxosTypeOK
      <4>2. ballots'[b] \in BallotRecord(Entry)
        BY <4>1 DEF Ballot
      <4> QED BY <4>2 DEF BallotRecord
    <3>2. ChosenBy(b, ballots'[b].decided)
      BY DEF DecidedWasChosen
    <3> QED BY <1>1, <1>4, <3>1, <3>2
  <2> QED BY <2>1, <2>2 DEF DecidedIsChosen
<1> QED BY <1>2, <1>3, <1>5 DEF PaxosInv

-----------------------------------------------------------------------------
\* What comes before a chosen index is chosen, and so it is for a higher ballot.
LEMMA ChosenByLess ==
  ASSUME NEW Entry, PaxosTypeOK(Entry), NEW a \in Nat, NEW b \in Nat, a <= b,
         NEW i \in Nat, NEW j \in Nat, j <= i, ChosenBy(a, i)
  PROVE  ChosenBy(b, j)
<1>1. CASE j = 0
  BY <1>1 DEF ChosenBy
<1>2. CASE j # 0
  <2>1. PICK c \in 1 .. a : Chosen(c, i)
    BY <1>2 DEF ChosenBy
  <2>2. /\ c \in Ballot /\ Ready(c) /\ i <= Len(ballots[c].log) /\ Held(c, i)
        /\ \A d \in Ballot : Ready(d) /\ c < d => Continues(c, d, i)
    BY <2>1 DEF Chosen, Ready
  <2>3. Len(ballots[c].log) \in Nat
    BY <2>2, BallotTypes
  <2>4. Held(c, j)
    <3>1. PICK Q \in SUBSET Server :
            /\ IsQuorum(Q)
            /\ \A m \in Q : \/ c < accepted_round[m]
                            \/ accepted_round[m] = c /\ i <= Len(log[m])
      BY <2>2 DEF Held
    <3>2. \A m \in Q : \/ c < accepted_round[m]
                       \/ accepted_round[m] = c /\ j <= Len(log[m])
      BY <3>1, ServerTypes
    <3> QED BY <3>1, <3>2 DEF Held
  <2>5. ASSUME NEW d \in Ballot, Ready(d), c < d PROVE Continues(c, d, j)
    <3>1. Continues(c, d, i)
      BY <2>2, <2>5
    <3>2. ballots[d].adopted \in Nat /\ Len(ballots[d].log) \in Nat
      BY BallotTypes
    <3> QED BY <2>3, <3>1, <3>2, SMTT(30) DEF Continues, Agree
  <2>6. Chosen(c, j)
    BY <2>2, <2>3, <2>4, <2>5 DEF Chosen
  <2>7. c \in 1 .. b
    OBVIOUS
  <2> QED BY <2>6, <2>7 DEF ChosenBy
<1> QED BY <1>1, <1>2

\* What the leader of a ballot decides is chosen.
LEMMA AcceptedIsChosen ==
  ASSUME NEW Entry, PaxosInv(Entry), NEW b \in Ballot, Ready(b),
         NEW i \in 1 .. Len(ballots[b].log), IsQuorum(AcceptedBy(b, i))
  PROVE  Chosen(b, i)
<1> DEFINE A == AcceptedBy(b, i)
<1>1. A \in SUBSET Server /\ \A m \in A : accepted_round[m] = b /\ i <= Len(log[m])
  <2>1. \A m \in Server : Len(log[m]) \in Nat
    BY ServerTypes DEF PaxosInv, Local
  <2> QED BY <2>1 DEF AcceptedBy
<1> HIDE DEF A
<1>2. Held(b, i)
  BY <1>1 DEF Held, A
<1>3. ~Blocked(b, i)
  <2> SUFFICES ASSUME Blocked(b, i) PROVE FALSE
    OBVIOUS
  <2>1. PICK Q \in SUBSET Server :
          IsQuorum(Q) /\ \A m \in Q : ~(accepted_round[m] = b /\ i <= Len(log[m]))
    BY DEF Blocked
  <2>2. PICK m \in Server : m \in Q /\ m \in A
    BY <1>1, <2>1, QuorumsMeet DEF A
  <2> QED BY <1>1, <2>1, <2>2
<1>4. \A c \in Ballot : Ready(c) /\ b < c => Continues(b, c, i)
  BY <1>3 DEF PaxosInv, ContinuesOrBlocked
<1> QED BY <1>2, <1>4 DEF Chosen

\* What servers and ballots take for decided, where no more is.
LEMMA SameDecided ==
  ASSUME NEW Entry, PaxosInv(Entry), NEW n \in Server,
         ChosenBy(accepted_round'[n], decided_idx'[n]),
         \A m \in Server : m # n => /\ accepted_round'[m] = accepted_round[m]
                                    /\ decided_idx'[m] = decided_idx[m],
         \A b \in Ballot' : \/ b \in Ballot /\ ballots'[b].decided = ballots[b].decided
                            \/ ChosenBy(b, ballots'[b].decided)
  PROVE  DecidedWasChosen
<1>1. \A m \in Server : ChosenBy(accepted_round'[m], decided_idx'[m])
  BY DEF PaxosInv, DecidedIsChosen
<1>2. \A b \in Ballot' : ChosenBy(b, ballots'[b].decided)
  BY DEF PaxosInv, DecidedIsChosen
<1> QED BY <1>1, <1>2 DEF DecidedWasChosen

DecidedGrows == \A n \in Server : decided_idx[n] <= decided_idx'[n]

StepOK(Entry) ==
  /\ Local(Entry)'
  /\ Grows
  /\ NoNewReady \/ \E p \in Nat : NewlyReady(p)
  /\ DecidedWasChosen
  /\ DecidedGrows

\* Every step is as it should be.
LEMMA StepIsOK ==
  ASSUME NEW Entry, PaxosInv(Entry), NEW n \in Server, PaxosStep(n, Entry)
  PROVE  StepOK(Entry)
<1> DEFINE b == promised[n]
<1>0. /\ Local(Entry) /\ PaxosTypeOK(Entry) /\ DecidedIsChosen
      /\ \A m \in Server : /\ ChosenBy(accepted_round[m], decided_idx[m])
                           /\ decided_idx[m] \in Nat /\ accepted_round[m] \in Nat
                           /\ accepted_round[m] <= promised[m] /\ promised[m] \in Nat
  BY DEF PaxosInv, Local, DecidedIsChosen, PaxosTypeOK, ServersOK, ServerOK
<1>1. ASSUME ballots' = ballots, accepted_round' = accepted_round, decided_idx' = decided_idx
      PROVE  DecidedWasChosen /\ DecidedGrows
  <2>1. Ballot' = Ballot
    BY <1>1 DEF Ballot
  <2>2. DecidedWasChosen
    BY <1>0, <1>1, <2>1, SameDecided
  <2> QED BY <1>0, <1>1, <2>2 DEF DecidedGrows
<1>2. CASE Lead(n)
  <2>1. Local(Entry)' /\ Grows /\ NoNewReady
    BY <1>0, <1>2, LeadStep
  <2>2. /\ accepted_round' = accepted_round /\ decided_idx' = decided_idx
        /\ \A c \in Ballot' : \/ c \in Ballot /\ ballots'[c].decided = ballots[c].decided
                              \/ ballots'[c].decided = 0
    <3> DEFINE r == [ leader |-> n, ready |-> FALSE, adopted |-> 0,
                      log |-> << >>, decided_at |-> << >>, decided |-> 0 ]
    <3>1. /\ ballots' = Append(ballots, r) /\ r.decided = 0
          /\ accepted_round' = accepted_round /\ decided_idx' = decided_idx
      BY <1>2 DEF Lead
    <3> HIDE DEF r
    <3>2. /\ Len(ballots') = Len(ballots) + 1 /\ ballots'[Len(ballots) + 1] = r
          /\ \A c \in 1 .. Len(ballots) : ballots'[c] = ballots[c]
          /\ Len(ballots) \in Nat
      <4>1. ballots \in Seq(BallotRecord(Entry)) /\ ballots' \in Seq(BallotRecord(Entry))
        BY <1>0, <2>1 DEF PaxosTypeOK, Local
      <4> QED BY <3>1, <4>1
    <3> QED BY <3>1, <3>2 DEF Ballot
  <2>3. DecidedWasChosen
    BY <1>0, <2>2, SameDecided DEF ChosenBy
  <2> QED BY <1>0, <2>1, <2>2, <2>3 DEF StepOK, DecidedGrows
<1>3. ASSUME NEW c \in Ballot, Promise(n, c) PROVE StepOK(Entry)
  <2>1. Local(Entry)' /\ Grows /\ NoNewReady
    BY <1>0, <1>3, PromiseStep
  <2>2. DecidedWasChosen /\ DecidedGrows
    BY <1>1, <1>3 DEF Promise
  <2> QED BY <2>1, <2>2 DEF StepOK
<1>4. CASE Prepared(n)
  <2>1. /\ Local(Entry)' /\ Grows /\ NewlyReady(b)
        /\ accepted_round'[n] = b /\ decided_idx'[n] = ballots'[b].decided
        /\ \A k \in Server : k # n => /\ accepted_round'[k] = accepted_round[k]
                                      /\ decided_idx'[k] = decided_idx[k]
        /\ \A c \in Ballot : c # b => ballots'[c] = ballots[c]
        /\ decided_idx[n] <= decided_idx'[n]
    BY <1>4, PreparedStep
  <2>2. PICK q \in Server : decided_idx[q] = decided_idx'[n] /\ accepted_round[q] < b
    BY <1>4, PreparedStep
  <2>3. ChosenBy(b, decided_idx'[n])
    BY <1>0, <2>2, ChosenByLess
  <2>4. Ballot' = Ballot
    <3>1. Len(ballots') = Len(ballots)
      BY <1>0, <1>4 DEF Prepared, PaxosTypeOK
    <3> QED BY <3>1 DEF Ballot
  <2>5. DecidedWasChosen
    BY <2>1, <2>3, <2>4, SameDecided
  <2>6. DecidedGrows
    BY <1>0, <2>1 DEF DecidedGrows
  <2> QED BY <1>0, <2>1, <2>5, <2>6 DEF StepOK
<1>5. ASSUME NEW i \in Nat, AcceptSync(n, i) PROVE StepOK(Entry)
  <2>1. /\ Local(Entry)' /\ Grows /\ NoNewReady
        /\ \/ decided_idx'[n] = decided_idx[n]
           \/ decided_idx'[n] <= ballots[b].decided
        /\ decided_idx[n] <= decided_idx'[n] /\ decided_idx'[n] \in Nat
    BY <1>0, <1>5, AcceptSyncStep
  <2>2. /\ Follows(n) /\ ballots' = ballots
        /\ accepted_round' = [accepted_round EXCEPT ![n] = b]
        /\ \A m \in Server : m # n => decided_idx'[m] = decided_idx[m]
    BY <1>0, <1>5 DEF AcceptSync, PaxosTypeOK
  <2>3. /\ accepted_round'[n] = b
        /\ \A m \in Server : m # n => accepted_round'[m] = accepted_round[m]
    BY <1>0, <2>2 DEF PaxosTypeOK
  <2>4. b \in Ballot /\ b \in Nat /\ ballots[b].decided \in Nat
    BY <1>0, <2>2, FollowerOK, BallotTypes
  <2>5. ChosenBy(b, ballots[b].decided)
    BY <1>0, <2>4 DEF DecidedIsChosen
  <2>6. ChosenBy(b, decided_idx'[n])
    BY <1>0, <2>1, <2>4, <2>5, ChosenByLess
  <2>7. DecidedWasChosen
    <3>1. Ballot' = Ballot
      BY <2>2 DEF Ballot
    <3> QED BY <2>2, <2>3, <2>6, <3>1, SameDecided
  <2>8. DecidedGrows
    BY <1>0, <2>1, <2>2 DEF DecidedGrows
  <2> QED BY <2>1, <2>7, <2>8 DEF StepOK
<1>6. CASE LearnDecided(n)
  <2>1. Local(Entry)' /\ Grows /\ NoNewReady
    BY <1>0, <1>6, LearnDecidedStep
  <2>2. /\ Follows(n) /\ accepted_round[n] = b /\ ballots' = ballots
        /\ decided_idx[n] < DecidedAfter(b, Len(log[n]))
        /\ decided_idx'[n] = DecidedAfter(b, Len(log[n]))
        /\ \A m \in Server : m # n => decided_idx'[m] = decided_idx[m]
        /\ accepted_round' = accepted_round
    BY <1>0, <1>6 DEF LearnDecided, PaxosTypeOK
  <2>3. b \in Ballot /\ b \in Nat /\ ballots[b].decided \in Nat
    BY <1>0, <2>2, FollowerOK, BallotTypes
  <2>4. decided_idx'[n] \in Nat /\ decided_idx'[n] <= ballots[b].decided
    BY <1>0, <2>2, <2>3, FollowerOK, DecidedAfterOK, ServerTypes
  <2>5. ChosenBy(b, decided_idx'[n])
    <3>1. ChosenBy(b, ballots[b].decided)
      BY <1>0, <2>3 DEF DecidedIsChosen
    <3> QED BY <1>0, <2>3, <2>4, <3>1, ChosenByLess
  <2>6. DecidedWasChosen
    <3>1. Ballot' = Ballot
      BY <2>2 DEF Ballot
    <3> QED BY <2>2, <2>5, <3>1, SameDecided
  <2>7. DecidedGrows
    BY <1>0, <2>2, <2>4 DEF DecidedGrows
  <2> QED BY <2>1, <2>6, <2>7 DEF StepOK
<1>7. CASE AcceptDecide(n)
  <2>1. Local(Entry)' /\ Grows /\ NoNewReady
    BY <1>0, <1>7, AcceptDecideStep
  <2>2. DecidedWasChosen /\ DecidedGrows
    BY <1>1, <1>7 DEF AcceptDecide
  <2> QED BY <2>1, <2>2 DEF StepOK
<1>8. CASE Decide(n)
  <2>1. /\ Local(Entry)' /\ Grows /\ NoNewReady
        /\ Ready(b) /\ log[n] = ballots[b].log
        /\ decided_idx'[n] \in 1 .. Len(log[n]) /\ decided_idx[n] <= decided_idx'[n]
        /\ IsQuorum(AcceptedBy(b, decided_idx'[n]))
        /\ decided_idx' = [decided_idx EXCEPT ![n] = decided_idx'[n]]
        /\ accepted_round' = accepted_round /\ accepted_round[n] = b
        /\ ballots'[b].decided = decided_idx'[n]
        /\ \A c \in Ballot : c # b => ballots'[c] = ballots[c]
    BY <1>0, <1>8, DecideStep
  <2>2. b \in Ballot /\ b \in Nat \ {0}
    BY <2>1 DEF Ready, Ballot
  <2>3. Chosen(b, decided_idx'[n])
    BY <2>1, <2>2, AcceptedIsChosen
  <2>4. ChosenBy(b, decided_idx'[n])
    BY <2>2, <2>3 DEF ChosenBy
  <2>5. \A m \in Server : m # n => decided_idx'[m] = decided_idx[m]
    BY <1>0, <2>1 DEF PaxosTypeOK
  <2>6. Ballot' = Ballot
    <3>1. Len(ballots') = Len(ballots)
      BY <1>0, <1>8 DEF Decide, PaxosTypeOK
    <3> QED BY <3>1 DEF Ballot
  <2>7. DecidedWasChosen
    BY <2>1, <2>4, <2>5, <2>6, SameDecided
  <2>8. DecidedGrows
    BY <1>0, <2>1, <2>5 DEF DecidedGrows
  <2> QED BY <2>1, <2>7, <2>8 DEF StepOK
<1>9. ASSUME NEW entry \in Entry, GetCurrentLeader(n) = n, AppendEntry(n, entry)
      PROVE  StepOK(Entry)
  <2>1. /\ Local(Entry)' /\ Grows /\ NoNewReady
        /\ decided_idx' = decided_idx /\ accepted_round' = accepted_round
        /\ \A c \in Ballot : ballots'[c].decided = ballots[c].decided
    BY <1>0, <1>9, AppendStep
  <2>2. Ballot' = Ballot
    <3>1. Len(ballots') = Len(ballots)
      BY <1>0, <1>9 DEF AppendEntry, PaxosTypeOK
    <3> QED BY <3>1 DEF Ballot
  <2>3. DecidedWasChosen
    BY <1>0, <2>1, <2>2, SameDecided
  <2>4. DecidedGrows
    BY <1>0, <2>1 DEF DecidedGrows
  <2> QED BY <2>1, <2>3, <2>4 DEF StepOK
<1> QED BY <1>2, <1>3, <1>4, <1>5, <1>6, <1>7, <1>8, <1>9 DEF PaxosStep

LEMMA PaxosInvInitially ==
  ASSUME NEW Entry, PaxosInit
  PROVE  PaxosInv(Entry)
<1>1. /\ ballots = << >>
      /\ promised = [n \in Server |-> 0] /\ accepted_round = [n \in Server |-> 0]
      /\ decided_idx = [n \in Server |-> 0] /\ log = [n \in Server |-> << >>]
  BY DEF PaxosInit
<1>2. << >> \in Seq(Entry) /\ << >> \in Seq(BallotRecord(Entry)) /\ Len(ballots) = 0
      /\ \A n \in Server : Len(log[n]) = 0
  BY <1>1
<1>3. Ballot = {}
  BY <1>2 DEF Ballot
<1>4. PaxosTypeOK(Entry)
  BY <1>1, <1>2 DEF PaxosTypeOK
<1>5. ServersOK
  BY <1>1, <1>2 DEF ServersOK, ServerOK
<1>6. DecidedIsChosen
  BY <1>1, <1>3 DEF DecidedIsChosen, ChosenBy
<1> QED BY <1>3, <1>4, <1>5, <1>6 DEF PaxosInv, Local, BallotsOK, LeadersOK,
           ContinuesOrBlocked, ReadyIsPromised

LEMMA PaxosInvStutters ==
  ASSUME NEW Entry, PaxosInv(Entry), UNCHANGED paxos_vars
  PROVE  PaxosInv(Entry)'
<1>1. /\ ballots' = ballots /\ promised' = promised /\ log' = log
      /\ accepted_round' = accepted_round /\ decided_idx' = decided_idx
  BY DEF paxos_vars
<1>2. Ballot' = Ballot
  BY <1>1 DEF Ballot
<1>3. Local(Entry)'
  BY <1>1, <1>2 DEF PaxosInv, Local, PaxosTypeOK, BallotsOK, ServersOK, ServerOK,
                    LeadersOK, LeaderOK
<1>4. ASSUME NEW b, NEW i PROVE Held(b, i)' = Held(b, i) /\ Blocked(b, i)' = Blocked(b, i)
  BY <1>1 DEF Held, Blocked, IsQuorum
<1>5. ASSUME NEW b PROVE Ready(b)' = Ready(b) /\ Promised(b)' = Promised(b)
  BY <1>1, <1>2 DEF Ready, Promised, IsQuorum
<1>6. ASSUME NEW b, NEW c, NEW i PROVE Continues(b, c, i)' = Continues(b, c, i)
  BY <1>1 DEF Continues
<1>7. ContinuesOrBlocked' /\ ReadyIsPromised'
  BY <1>2, <1>4, <1>5, <1>6 DEF PaxosInv, ContinuesOrBlocked, ReadyIsPromised
<1>8. ASSUME NEW b, NEW i PROVE Chosen(b, i)' = Chosen(b, i)
  BY <1>1, <1>2, <1>4, <1>5, <1>6 DEF Chosen
<1>9. DecidedIsChosen'
  BY <1>1, <1>2, <1>8 DEF PaxosInv, DecidedIsChosen, ChosenBy
<1> QED BY <1>3, <1>7, <1>9 DEF PaxosInv

LEMMA PaxosInvStep ==
  ASSUME NEW Entry, PaxosInv(Entry), [PaxosNext(Entry)]_paxos_vars
  PROVE  PaxosInv(Entry)'
<1>1. CASE PaxosNext(Entry)
  <2>1. StepOK(Entry)
    BY <1>1, StepIsOK DEF PaxosNext
  <2> QED BY <2>1, PaxosInvKept DEF StepOK
<1> QED BY <1>1, PaxosInvStutters

\* The invariant of the consensus, for every set of servers and of entries.
THEOREM PaxosInvariant ==
  ASSUME NEW Entry
  PROVE  PaxosSpec(Entry) => []PaxosInv(Entry)
<1>1. PaxosInit => PaxosInv(Entry)
  BY PaxosInvInitially
<1>2. PaxosInv(Entry) /\ [PaxosNext(Entry)]_paxos_vars => PaxosInv(Entry)'
  BY PaxosInvStep
<1> QED BY <1>1, <1>2, PTL DEF PaxosSpec

-----------------------------------------------------------------------------
\* A server that accepted in a ballot, or in a higher one, has what was chosen
\* in it.
LEMMA ChosenIsLogged ==
  ASSUME NEW Entry, PaxosInv(Entry), NEW n \in Server, NEW c \in Nat, NEW i \in Nat,
         Chosen(c, i), c <= accepted_round[n], i <= Len(log[n])
  PROVE  Agree(ballots[c].log, log[n], i)
<1> DEFINE a == accepted_round[n]
<1>1. /\ c \in Ballot /\ c # 0 /\ i <= Len(ballots[c].log)
      /\ \A d \in Ballot : Ready(d) /\ c < d => Continues(c, d, i)
  BY DEF Chosen, Ready, Ballot
<1>2. /\ PaxosTypeOK(Entry) /\ ServerOK(n) /\ a \in Nat /\ promised[n] \in Nat
      /\ Len(log[n]) \in Nat /\ Len(ballots) \in Nat
  BY ServerTypes DEF PaxosInv, Local, ServersOK, PaxosTypeOK
<1>3. a # 0 /\ a \in Ballot
  BY <1>1, <1>2 DEF ServerOK, Ballot
<1>4. Ready(a) /\ Agree(ballots[a].log, log[n], Len(log[n]))
  BY <1>3 , <1>2 DEF ServerOK, Ready
<1>5. Len(ballots[a].log) \in Nat /\ Len(ballots[c].log) \in Nat
  BY <1>1, <1>2, <1>3, BallotTypes
<1>6. Agree(ballots[c].log, ballots[a].log, i)
  <2>1. CASE c = a
    BY <1>1, <2>1 DEF Agree
  <2>2. CASE c < a
    BY <1>1, <1>3, <1>4, <2>2 DEF Continues
  <2> QED BY <1>2, <2>1, <2>2
<1> QED BY <1>2, <1>4, <1>5, <1>6 DEF Agree

LEMMA ChosenIsLoggedAfter ==
  ASSUME NEW Entry, NEW n \in Server, NEW c \in Nat, NEW i \in Nat
  PROVE  ( /\ PaxosInv(Entry) /\ Chosen(c, i)
           /\ c <= accepted_round[n] /\ i <= Len(log[n])
           => Agree(ballots[c].log, log[n], i) )'
<1>1. /\ PaxosInv(Entry) /\ Chosen(c, i)
      /\ c <= accepted_round[n] /\ i <= Len(log[n])
      => Agree(ballots[c].log, log[n], i)
  BY ChosenIsLogged
<1> QED BY <1>1, PTL

\* Logs that agree on their first i entries.
LEMMA AgreeSubSeq ==
  ASSUME NEW Entry, NEW s \in Seq(Entry), NEW t \in Seq(Entry), NEW i \in Nat, Agree(s, t, i)
  PROVE  SubSeq(s, 1, i) = SubSeq(t, 1, i)
<1>1. SubSeq(s, 1, i) = [j \in 1 .. i |-> s[j]]
  BY DEF Agree
<1>2. SubSeq(t, 1, i) = [j \in 1 .. i |-> t[j]]
  BY DEF Agree
<1> QED BY <1>1, <1>2 DEF Agree

\* The invariant keeps the logs together.
LEMMA PaxosInvAgrees ==
  ASSUME NEW Entry, PaxosInv(Entry)
  PROVE  DecidedAgreement
<1> SUFFICES ASSUME NEW m \in Server, NEW n \in Server, decided_idx[m] <= decided_idx[n]
             PROVE  SubSeq(log[m], 1, decided_idx[m]) = SubSeq(log[n], 1, decided_idx[m])
  BY DEF DecidedAgreement
<1> DEFINE i == decided_idx[m]
<1>1. /\ PaxosTypeOK(Entry)
      /\ log[m] \in Seq(Entry) /\ log[n] \in Seq(Entry) /\ i \in Nat /\ decided_idx[n] \in Nat
      /\ Len(log[m]) \in Nat /\ Len(log[n]) \in Nat
      /\ accepted_round[m] \in Nat /\ accepted_round[n] \in Nat
      /\ i <= Len(log[m]) /\ i <= Len(log[n])
  <2>1. PaxosTypeOK(Entry) /\ ServerOK(m) /\ ServerOK(n)
    BY DEF PaxosInv, Local, ServersOK
  <2> QED BY <2>1, ServerTypes DEF ServerOK
<1>2. CASE i = 0
  BY <1>1, <1>2, AgreeSubSeq DEF Agree
<1>3. CASE i # 0
  <2>1. ChosenBy(accepted_round[m], i) /\ ChosenBy(accepted_round[n], i)
    BY <1>1, ChosenByLess DEF PaxosInv, DecidedIsChosen
  <2>2. PICK c \in 1 .. accepted_round[m] : Chosen(c, i)
    BY <1>3, <2>1 DEF ChosenBy
  <2>3. PICK d \in 1 .. accepted_round[n] : Chosen(d, i)
    BY <1>3, <2>1 DEF ChosenBy
  <2>4. /\ Agree(ballots[c].log, log[m], i)
        /\ Agree(ballots[d].log, log[n], i)
    BY <1>1, <2>2, <2>3, ChosenIsLogged
  <2>5. Agree(ballots[c].log, ballots[d].log, i) \/ Agree(ballots[d].log, ballots[c].log, i)
    <3>1. c \in Ballot /\ d \in Ballot /\ Ready(c) /\ Ready(d)
      BY <2>2, <2>3 DEF Chosen, Ready
    <3>2. CASE c < d
      BY <2>2, <3>1, <3>2 DEF Chosen, Continues
    <3>3. CASE d < c
      BY <2>3, <3>1, <3>3 DEF Chosen, Continues
    <3>4. CASE c = d
      BY <2>4, <3>4 DEF Agree
    <3> QED BY <1>1, <3>2, <3>3, <3>4
  <2>6. Agree(log[m], log[n], i)
    BY <2>4, <2>5 DEF Agree
  <2> QED BY <1>1, <2>6, AgreeSubSeq
<1> QED BY <1>2, <1>3

\* A step keeps what each server knows decided.
LEMMA DecidedKept ==
  ASSUME NEW Entry, PaxosInv(Entry), [PaxosNext(Entry)]_paxos_vars, NEW n \in Server
  PROVE  /\ decided_idx[n] <= decided_idx'[n] /\ decided_idx[n] <= Len(log'[n])
         /\ SubSeq(log'[n], 1, decided_idx[n]) = SubSeq(log[n], 1, decided_idx[n])
<1>0. decided_idx[n] \in Nat
  BY ServerTypes DEF PaxosInv, Local
<1> SUFFICES ASSUME NEW i \in Nat, i = decided_idx[n]
             PROVE  /\ i <= decided_idx'[n] /\ i <= Len(log'[n])
                    /\ SubSeq(log'[n], 1, i) = SubSeq(log[n], 1, i)
  BY <1>0
<1>1. /\ PaxosTypeOK(Entry) /\ log[n] \in Seq(Entry) /\ i \in Nat /\ accepted_round[n] \in Nat
      /\ i <= Len(log[n]) /\ Len(log[n]) \in Nat /\ ChosenBy(accepted_round[n], i)
  <2>1. PaxosTypeOK(Entry) /\ ServerOK(n) /\ DecidedIsChosen
    BY DEF PaxosInv, Local, ServersOK
  <2> QED BY <2>1, ServerTypes DEF ServerOK, DecidedIsChosen
<1>2. CASE UNCHANGED paxos_vars
  BY <1>1, <1>2 DEF paxos_vars
<1>3. CASE PaxosNext(Entry)
  <2>1. PaxosInv(Entry)'
    BY PaxosInvStep
  <2>2. StepOK(Entry)
    BY <1>3, StepIsOK DEF PaxosNext
  <2>3. /\ Local(Entry) /\ Local(Entry)' /\ Grows /\ i <= decided_idx'[n]
        /\ NoNewReady \/ \E p \in Nat : NewlyReady(p)
    BY <2>2 DEF StepOK, DecidedGrows, PaxosInv
  <2>4. /\ log'[n] \in Seq(Entry) /\ Len(log'[n]) \in Nat /\ decided_idx'[n] \in Nat
        /\ accepted_round'[n] \in Nat /\ accepted_round[n] <= accepted_round'[n]
        /\ i <= Len(log'[n])
    <3>1. /\ log'[n] \in Seq(Entry) /\ decided_idx'[n] \in Nat /\ accepted_round'[n] \in Nat
          /\ decided_idx'[n] <= Len(log'[n])
      BY <2>3 DEF Local, PaxosTypeOK, ServersOK, ServerOK
    <3>2. Len(log'[n]) \in Nat
      BY <3>1
    <3>3. accepted_round[n] <= promised[n] /\ promised[n] \in Nat
      BY <2>3 DEF Local, PaxosTypeOK, ServersOK, ServerOK
    <3>4. accepted_round'[n] = accepted_round[n] \/ accepted_round'[n] = promised[n]
      BY <2>3 DEF Grows, ServersGrow
    <3> QED BY <1>1, <2>3, <3>1, <3>2, <3>3, <3>4
  <2>5. CASE i = 0
    BY <1>1, <2>3, <2>4, <2>5, AgreeSubSeq DEF Agree
  <2>6. CASE i # 0
    <3>1. PICK c \in 1 .. accepted_round[n] : Chosen(c, i)
      BY <1>1, <2>6 DEF ChosenBy
    <3>2. Chosen(c, i)' /\ c \in Nat /\ c <= accepted_round'[n]
      <4>1. c \in Nat /\ c <= accepted_round'[n]
        BY <1>1, <2>4
      <4> QED BY <1>1, <2>3, <3>1, <4>1, ChosenStable
    <3>3. Agree(ballots[c].log, log[n], i)
      BY <1>1, <3>1, ChosenIsLogged
    <3>4. Agree(ballots'[c].log, log'[n], i)
      BY <1>1, <2>1, <2>4, <3>2, ChosenIsLoggedAfter
    <3>5. Agree(ballots[c].log, ballots'[c].log, Len(ballots[c].log))
          /\ i <= Len(ballots[c].log) /\ Len(ballots[c].log) \in Nat
      <4>1. c \in Ballot /\ Ready(c) /\ i <= Len(ballots[c].log)
        BY <3>1 DEF Chosen, Ready
      <4> QED BY <2>3, <4>1, ReadyStable DEF Grows
    <3>6. Agree(log'[n], log[n], i)
      BY <1>1, <3>3, <3>4, <3>5 DEF Agree
    <3> QED BY <1>1, <2>3, <2>4, <3>6, AgreeSubSeq
  <2> QED BY <2>5, <2>6
<1> QED BY <1>2, <1>3

\* Two servers agree on what both know decided.
THEOREM PaxosAgreement ==
  ASSUME NEW Entry
  PROVE  PaxosSpec(Entry) => []DecidedAgreement
<1>1. PaxosInv(Entry) => DecidedAgreement
  BY PaxosInvAgrees
<1> QED BY <1>1, PaxosInvariant, PTL

\* What a server knows decided stays.
THEOREM PaxosKeepsDecided ==
  ASSUME NEW Entry
  PROVE  PaxosSpec(Entry) => DecidedIsStable
<1>1. PaxosInv(Entry) /\ [PaxosNext(Entry)]_paxos_vars =>
        [\A n \in Server :
           /\ decided_idx[n] <= decided_idx'[n] /\ decided_idx[n] <= Len(log'[n])
           /\ SubSeq(log'[n], 1, decided_idx[n]) = SubSeq(log[n], 1, decided_idx[n])]_paxos_vars
  BY DecidedKept
<1> QED BY <1>1, PaxosInvariant, PTL DEF PaxosSpec, DecidedIsStable
=============================================================================
