------------------------------ MODULE Transport ------------------------------
(***************************************************************************)
(* How messages get from node to node: a bounded channel into every node,  *)
(* a map of connections at every node, and the runner that takes messages  *)
(* from its own channel and waits for room in those of the others, in one  *)
(* loop. A controller thread, the tests' own, deletes connections and      *)
(* reconnects nodes one lock at a time while the runners go on.            *)
(*                                                                         *)
(* A message is its link and its number on it. What omnipaxos does with it *)
(* and what a poll does at the datastore are left out: a poll finds any    *)
(* messages to send. The mutex of a node is never held while its runner    *)
(* waits, so a step is a critical section.                                 *)
(***************************************************************************)
EXTENDS Naturals, Sequences, FiniteSets, SequencesExt

CONSTANTS
  Node,
  ChannelSize,   \* MSG_BUFFER_SIZE, 10000
  MaxMessages,   \* bound: messages that omnipaxos has to send, in all
  MaxDeletes     \* bound: calls of delete_connections

ASSUME ChannelSizeAssumption == ChannelSize \in Nat \ {0}
ASSUME BoundsAssumption == MaxMessages \in Nat /\ MaxDeletes \in Nat

VARIABLES
  at,            \* where each runner is in its loop
  is_running,    \* the nodes that have not been stopped
  out_messages,  \* what is left to send of this poll
  channel,       \* the channel into each node
  connections,
  disconnected_connections,
  control,       \* what the controller does next
  pair,          \* the nodes it does that to
  removed,       \* the links delete_connections has in its hands
  nodes_left,    \* the nodes reconnect_nodes has not come to
  clone,         \* what it has still to insert at the node it is at
  numbered,      \* history: messages each node has had to send
  made,          \* history: the numbers of those for each link
  taken,         \* history: the number of the last message taken from a link
  cut,           \* history: the links that have been deleted
  deletes        \* history

runners == <<at, out_messages, channel>>
sent == <<numbered, made>>
call == <<control, pair, removed, nodes_left, clone, deletes>>
links == <<connections, disconnected_connections, cut, call>>
vars == <<runners, links, is_running, sent, taken>>

Link == {l \in Node \X Node : l[1] # l[2]}
Message == [from : Node, to : Node, number : Nat]

\* selecting: in the select!. looking: next it reads the connections, for the
\* first of out_messages. sending: it has the sender, and awaits send.
Place == {"selecting", "looking", "sending", "ended"}

Deleting == {"remove_a", "remove_b", "save_a", "save_b"}
Control == {"idle", "clone", "insert"} \cup Deleting

NoPair == << >>

TypeOK ==
  /\ at \in [Node -> Place]
  /\ is_running \subseteq Node
  /\ out_messages \in [Node -> Seq(Message)]
  /\ \A n \in Node : at[n] \in {"looking", "sending"} <=> out_messages[n] # << >>
  /\ channel \in [Node -> Seq(Message)]
  /\ \A n \in Node : Len(channel[n]) <= ChannelSize
  /\ connections \in [Node -> SUBSET Node]
  /\ disconnected_connections \in [Node -> SUBSET Node]
  /\ control \in Control
  /\ pair \in IF control \in Deleting THEN Link
              ELSE IF control = "insert" THEN {<<n, n>> : n \in Node} ELSE {NoPair}
  /\ removed \subseteq Link
  /\ nodes_left \subseteq Node
  /\ clone \subseteq Node
  /\ numbered \in [Node -> Nat]
  /\ made \in [Link -> SUBSET Nat]
  /\ taken \in [Link -> Nat]
  /\ cut \subseteq Link
  /\ deletes \in Nat

\* spawn_nodes: everybody is connected, "remove connection to itself".
Init ==
  /\ at = [n \in Node |-> "selecting"]
  /\ is_running = Node
  /\ out_messages = [n \in Node |-> << >>]
  /\ channel = [n \in Node |-> << >>]
  /\ connections = [n \in Node |-> Node \ {n}]
  /\ disconnected_connections = [n \in Node |-> {}]
  /\ control = "idle"
  /\ pair = NoPair
  /\ removed = {}
  /\ nodes_left = {}
  /\ clone = {}
  /\ numbered = [n \in Node |-> 0]
  /\ made = [l \in Link |-> {}]
  /\ taken = [l \in Link |-> 0]
  /\ cut = {}
  /\ deletes = 0

-----------------------------------------------------------------------------
(* The runner. *)

\* Where the runner of n is with rest still to send: after the last message,
\* and after any other branch of the select!, is_running is looked at again.
Goes(n, rest) ==
  /\ out_messages' = [out_messages EXCEPT ![n] = rest]
  /\ at' = [at EXCEPT ![n] = IF rest # << >> THEN "looking"
                             ELSE IF n \in is_running THEN "selecting" ELSE "ended"]

\* The messages to the peers that batch names, in its order.
Messages(n, batch) ==
  [i \in DOMAIN batch |-> [from |-> n, to |-> batch[i], number |-> numbered[n] + i]]

NumbersFor(l, batch) == {numbered[l[1]] + i : i \in {j \in DOMAIN batch : batch[j] = l[2]}}

NumberedInAll == FoldFunction(+, 0, numbered)

\* The end of a poll: outgoing_messages leaves omnipaxos nothing. The same
\* with nothing to send is a tick.
Poll(n) ==
  /\ at[n] = "selecting"
  /\ \E batch \in SeqOf(Node \ {n}, MaxMessages - NumberedInAll) :
       /\ numbered' = [numbered EXCEPT ![n] = @ + Len(batch)]
       /\ made' = [l \in Link |-> made[l] \cup IF l[1] = n THEN NumbersFor(l, batch) ELSE {}]
       /\ Goes(n, Messages(n, batch))
  /\ UNCHANGED <<links, is_running, channel, taken>>

Receive(n) ==
  /\ at[n] = "selecting"
  /\ channel[n] # << >>
  /\ LET msg == Head(channel[n])
     IN  taken' = [taken EXCEPT ![<<msg.from, n>>] = msg.number]
  /\ channel' = [channel EXCEPT ![n] = Tail(@)]
  /\ Goes(n, << >>)
  /\ UNCHANGED <<links, is_running, sent>>

Receiver(n) == Head(out_messages[n]).to

LookUp_MutExpects(n) ==
  /\ at[n] = "looking"
  /\ at' = [at EXCEPT ![n] = IF Receiver(n) \in connections[n] THEN "sending" ELSE "ended"]
  /\ out_messages' = [out_messages EXCEPT ![n] = IF Receiver(n) \in connections[n] THEN @ ELSE << >>]
  /\ UNCHANGED <<links, is_running, channel, sent, taken>>

\* Skip the message, or go on with a clone of the sender.
LookUp(n) ==
  /\ at[n] = "looking"
  /\ IF Receiver(n) \in connections[n]
     THEN at' = [at EXCEPT ![n] = "sending"] /\ UNCHANGED out_messages
     ELSE Goes(n, Tail(out_messages[n]))
  /\ UNCHANGED <<links, is_running, channel, sent, taken>>

Send_MutUnbounded(n) ==
  /\ at[n] = "sending"
  /\ channel' = [channel EXCEPT ![Receiver(n)] = Append(@, Head(out_messages[n]))]
  /\ Goes(n, Tail(out_messages[n]))
  /\ UNCHANGED <<links, is_running, sent, taken>>

Send_MutSpawned(n) ==
  /\ at[n] = "sending"
  /\ \E i \in DOMAIN out_messages[n] :
       LET msg == out_messages[n][i]
       IN  /\ Len(channel[msg.to]) < ChannelSize
           /\ channel' = [channel EXCEPT ![msg.to] = Append(@, msg)]
           /\ Goes(n, RemoveAt(out_messages[n], i))
  /\ UNCHANGED <<links, is_running, sent, taken>>

Send_MutDropsWhenFull(n) ==
  /\ at[n] = "sending"
  /\ LET p == Receiver(n)
     IN  channel' = [channel EXCEPT ![p] = IF Len(@) < ChannelSize
                                           THEN Append(@, Head(out_messages[n])) ELSE @]
  /\ Goes(n, Tail(out_messages[n]))
  /\ UNCHANGED <<links, is_running, sent, taken>>

\* send(msg).await: waits for room, unless the receiver is dropped.
Send(n) ==
  /\ at[n] = "sending"
  /\ LET p == Receiver(n)
     IN  IF at[p] = "ended" THEN UNCHANGED channel
         ELSE /\ Len(channel[p]) < ChannelSize
              /\ channel' = [channel EXCEPT ![p] = Append(@, Head(out_messages[n]))]
  /\ Goes(n, Tail(out_messages[n]))
  /\ UNCHANGED <<links, is_running, sent, taken>>

Stop(n) ==
  /\ n \in is_running
  /\ is_running' = is_running \ {n}
  /\ UNCHANGED <<runners, links, sent, taken>>

-----------------------------------------------------------------------------
(* The controller. *)

others == <<runners, is_running, sent, taken>>

DeleteConnections(a, b) ==
  /\ control = "idle"
  /\ deletes < MaxDeletes
  /\ deletes' = deletes + 1
  /\ control' = "remove_a"
  /\ pair' = <<a, b>>
  /\ UNCHANGED <<others, connections, disconnected_connections, cut, removed, nodes_left, clone>>

\* connections.remove, at one end
RemoveConnection(n, p) ==
  /\ connections' = [connections EXCEPT ![n] = @ \ {p}]
  /\ removed' = IF p \in connections[n] THEN removed \cup {<<n, p>>} ELSE removed
  /\ cut' = cut \cup {<<n, p>>}
  /\ UNCHANGED <<others, disconnected_connections, nodes_left, clone, deletes>>

SaveConnection_MutOwnKey(n, p) ==
  /\ disconnected_connections' =
       IF <<n, p>> \in removed THEN [disconnected_connections EXCEPT ![n] = @ \cup {n}]
       ELSE disconnected_connections
  /\ removed' = removed \ {<<n, p>>}
  /\ UNCHANGED <<others, connections, cut, nodes_left, clone, deletes>>

\* disconnected_connections.insert, if there was a connection
SaveConnection(n, p) ==
  /\ disconnected_connections' =
       IF <<n, p>> \in removed THEN [disconnected_connections EXCEPT ![n] = @ \cup {p}]
       ELSE disconnected_connections
  /\ removed' = removed \ {<<n, p>>}
  /\ UNCHANGED <<others, connections, cut, nodes_left, clone, deletes>>

\* The four critical sections of delete_connections.
DeleteStep ==
  \/ /\ control = "remove_a" /\ control' = "remove_b" /\ UNCHANGED pair
     /\ RemoveConnection(pair[1], pair[2])
  \/ /\ control = "remove_b" /\ control' = "save_a" /\ UNCHANGED pair
     /\ RemoveConnection(pair[2], pair[1])
  \/ /\ control = "save_a" /\ control' = "save_b" /\ UNCHANGED pair
     /\ SaveConnection(pair[1], pair[2])
  \/ /\ control = "save_b" /\ control' = "idle" /\ pair' = NoPair
     /\ SaveConnection(pair[2], pair[1])

ReconnectNodes ==
  /\ control = "idle"
  /\ control' = "clone"
  /\ nodes_left' = Node
  /\ UNCHANGED <<others, connections, disconnected_connections, cut, pair, removed, clone, deletes>>

\* The nodes come in any order, as those of a HashMap do, and so does what
\* is cloned.
CloneDisconnected(n) ==
  /\ control = "clone" /\ n \in nodes_left
  /\ control' = "insert"
  /\ pair' = <<n, n>>
  /\ nodes_left' = nodes_left \ {n}
  /\ clone' = disconnected_connections[n]
  /\ UNCHANGED <<others, connections, disconnected_connections, cut, removed, deletes>>

InsertConnection(p) ==
  /\ control = "insert" /\ p \in clone
  /\ connections' = [connections EXCEPT ![pair[1]] = @ \cup {p}]
  /\ clone' = clone \ {p}
  /\ UNCHANGED <<others, disconnected_connections, cut, control, pair, removed, nodes_left, deletes>>

ClearDisconnected_MutFirstNode ==
  /\ control = "insert" /\ clone = {}
  /\ disconnected_connections' = [disconnected_connections EXCEPT ![pair[1]] = {}]
  /\ control' = "idle"
  /\ pair' = NoPair
  /\ UNCHANGED <<others, connections, cut, removed, nodes_left, clone, deletes>>

ClearDisconnected ==
  /\ control = "insert" /\ clone = {}
  /\ disconnected_connections' = [disconnected_connections EXCEPT ![pair[1]] = {}]
  /\ control' = IF nodes_left = {} THEN "idle" ELSE "clone"
  /\ pair' = NoPair
  /\ UNCHANGED <<others, connections, cut, removed, nodes_left, clone, deletes>>

Controller ==
  \/ \E l \in Link : DeleteConnections(l[1], l[2])
  \/ DeleteStep
  \/ ReconnectNodes
  \/ \E n \in Node : CloneDisconnected(n) \/ InsertConnection(n)
  \/ ClearDisconnected

-----------------------------------------------------------------------------
Runner(n) == Receive(n) \/ Poll(n) \/ LookUp(n) \/ Send(n)

Next ==
  \/ \E n \in Node : Runner(n) \/ Stop(n)
  \/ Controller

Spec == Init /\ [][Next]_vars

(***************************************************************************)
(* The timers of the select! fire again and again, and what is in the      *)
(* channel gets its turn in between; a send goes on when there is room.    *)
(***************************************************************************)
FairSpec ==
  /\ Spec
  /\ \A n \in Node : WF_vars(Poll(n)) /\ WF_vars(Receive(n)) /\ WF_vars(LookUp(n) \/ Send(n))

-----------------------------------------------------------------------------
\* What can be under way on a link, oldest first.
UnderWay(l) == channel[l[2]] \o out_messages[l[1]]

On(l, msg) == msg.from = l[1] /\ msg.to = l[2]

(***************************************************************************)
(* What omnipaxos is told of a link: messages come in the order in which   *)
(* they were made and none comes twice, whatever is skipped; and as long   *)
(* as a link was not deleted and its receiver runs, every message that was *)
(* not taken is under way. (OmniPaxos.tla takes the messages of a ballot   *)
(* in order.)                                                              *)
(***************************************************************************)
LinksKeepOrder ==
  \A l \in Link :
    LET msgs == UnderWay(l)
        mine == {i \in DOMAIN msgs : On(l, msgs[i])}
    IN  /\ \A i, j \in mine : i < j => msgs[i].number < msgs[j].number
        /\ \A i \in mine : msgs[i].number \in made[l] /\ msgs[i].number > taken[l]
        /\ l \notin cut /\ at[l[2]] # "ended" =>
             \A k \in made[l] : k > taken[l] => \E i \in mine : msgs[i].number = k

(***************************************************************************)
(* "save the disconnected connections to be able to reconnect later"       *)
(* (delete_connections): whatever pairs are deleted, again and in either   *)
(* order, once the call returns each peer of a node is connected or saved, *)
(* not both, and the same at both ends.                                    *)
(***************************************************************************)
ConnectionsAreKept ==
  control = "idle" =>
    \A l \in Link :
      /\ l[2] \in connections[l[1]] <=> l[2] \notin disconnected_connections[l[1]]
      /\ l[2] \in connections[l[1]] <=> l[1] \in connections[l[2]]

(***************************************************************************)
(* When reconnect_nodes returns, each node is connected to each other one, *)
(* whatever was deleted before, and wherever a connection had been left.   *)
(***************************************************************************)
ReconnectConnectsAll ==
  [][control = "insert" /\ control' = "idle" =>
       \A l \in Link : l[2] \in connections'[l[1]]]_vars

\* The runners of S wait for room, each in the channel of another of S.
Jam(S) ==
  /\ S # {}
  /\ \A n \in S : /\ at[n] = "sending"
                  /\ Receiver(n) \in S
                  /\ Len(channel[Receiver(n)]) >= ChannelSize

(***************************************************************************)
(* A runner that waits for room takes nothing from its own channel:        *)
(* runners that wait for each other do so for ever. Neither stopping them  *)
(* nor deleting their connections lets them go on.                         *)
(***************************************************************************)
JamIsForever == [][\A S \in SUBSET Node : Jam(S) => Jam(S)']_vars

NoJam == ~\E S \in SUBSET Node : Jam(S)

\* Nobody waits, stopped runners have ended, and what was to be sent on links
\* that were not deleted, between runners that were not stopped, has arrived.
Settled ==
  /\ \A n \in Node : at[n] = IF n \in is_running THEN "selecting" ELSE "ended"
  /\ \A l \in Link \ cut : {l[1], l[2]} \subseteq is_running =>
       \A k \in made[l] : k <= taken[l]

(***************************************************************************)
(* There is no other way to get stuck: without a jam every poll gets       *)
(* through its messages, also those to nodes that were stopped or          *)
(* disconnected, a stopped runner ends, and every message arrives that can.*)
(***************************************************************************)
TrafficSettles == []NoJam => <>[]Settled
=============================================================================
