--------------------------- MODULE TransportProofs ---------------------------
(***************************************************************************)
(* The transport between any number of nodes, with channels of any size.   *)
(***************************************************************************)
EXTENDS Transport, TLAPS

\* A batch is a sequence of peers; its messages are messages.
LEMMA BatchType ==
  ASSUME TypeOK, NEW n \in Node, NEW k, NEW batch \in SeqOf(Node \ {n}, k)
  PROVE  /\ batch \in Seq(Node \ {n})
         /\ Messages(n, batch) \in Seq(Message)
         /\ Len(Messages(n, batch)) = Len(batch)
<1>1. PICK m \in 0 .. k : batch \in [1 .. m -> Node \ {n}]
  BY DEF SeqOf
<1>2. batch \in Seq(Node \ {n}) /\ Len(batch) = m /\ DOMAIN batch = 1 .. m /\ m \in Nat
  BY <1>1
<1>3. Messages(n, batch) \in [1 .. m -> Message]
  BY <1>1, <1>2 DEF Messages, Message, TypeOK
<1> QED
  BY <1>2, <1>3

\* After a message there are the others, or none.
LEMMA GoesType ==
  ASSUME TypeOK, NEW n \in Node, NEW rest \in Seq(Message), Goes(n, rest)
  PROVE  /\ at' \in [Node -> Place]
         /\ out_messages' \in [Node -> Seq(Message)]
         /\ \A m \in Node : at'[m] \in {"looking", "sending"} <=> out_messages'[m] # << >>
  BY DEF Goes, TypeOK, Place

(***************************************************************************)
(* Every variable keeps its type, no channel holds more than ChannelSize,  *)
(* and a runner has messages left exactly while it looks up or sends.      *)
(***************************************************************************)
THEOREM TypeCorrect == Spec => []TypeOK
<1>1. Init => TypeOK
  BY ChannelSizeAssumption DEF Init, TypeOK, Place, Control, Deleting, Message, Link
<1>2. TypeOK /\ [Next]_vars => TypeOK'
  <2> SUFFICES ASSUME TypeOK, [Next]_vars PROVE TypeOK'
    OBVIOUS
  <2> USE DEF vars, runners, links, call, sent, others
  <2>1. ASSUME NEW n \in Node, Receive(n) PROVE TypeOK'
    <3>1. << >> \in Seq(Message)
      OBVIOUS
    <3>2. Goes(n, << >>) /\ channel[n] # << >> /\ channel[n] \in Seq(Message)
      BY <2>1 DEF Receive, TypeOK
    <3>3. Tail(channel[n]) \in Seq(Message) /\ Len(Tail(channel[n])) <= ChannelSize
      BY <3>2, ChannelSizeAssumption DEF TypeOK
    <3>4. Head(channel[n]).number \in Nat
      <4>1. Head(channel[n]) \in Message
        BY <3>2
      <4> QED
        BY <4>1 DEF Message
    <3> QED
      BY <2>1, <3>1, <3>2, <3>3, <3>4, GoesType DEF Receive, TypeOK
  <2>2. ASSUME NEW n \in Node, Poll(n) PROVE TypeOK'
    <3>1. PICK batch \in SeqOf(Node \ {n}, MaxMessages - NumberedInAll) :
            /\ numbered' = [numbered EXCEPT ![n] = @ + Len(batch)]
            /\ made' = [l \in Link |-> made[l] \cup IF l[1] = n THEN NumbersFor(l, batch) ELSE {}]
            /\ Goes(n, Messages(n, batch))
      BY <2>2 DEF Poll
    <3>2. batch \in Seq(Node \ {n}) /\ Messages(n, batch) \in Seq(Message)
      BY BatchType
    <3>3. ASSUME NEW l \in Link PROVE NumbersFor(l, batch) \subseteq Nat
      <4>1. numbered[l[1]] \in Nat
        BY DEF TypeOK, Link
      <4>2. DOMAIN batch \subseteq Nat
        BY <3>2
      <4> QED
        BY <4>1, <4>2 DEF NumbersFor
    <3>4. numbered' \in [Node -> Nat] /\ made' \in [Link -> SUBSET Nat]
      BY <3>1, <3>2, <3>3 DEF TypeOK
    <3> QED
      BY <2>2, <3>1, <3>2, <3>4, GoesType DEF Poll, TypeOK
  <2>3. ASSUME NEW n \in Node, LookUp(n) PROVE TypeOK'
    <3>1. out_messages[n] # << >> /\ out_messages[n] \in Seq(Message)
      BY <2>3 DEF LookUp, TypeOK
    <3>2. Tail(out_messages[n]) \in Seq(Message)
      BY <3>1
    <3>3. CASE Receiver(n) \in connections[n]
      BY <2>3, <3>1, <3>3 DEF LookUp, TypeOK, Place
    <3>4. CASE Receiver(n) \notin connections[n]
      BY <2>3, <3>2, <3>4, GoesType DEF LookUp, TypeOK
    <3> QED
      BY <3>3, <3>4
  <2>4. ASSUME NEW n \in Node, Send(n) PROVE TypeOK'
    <3>1. out_messages[n] # << >> /\ out_messages[n] \in Seq(Message)
      BY <2>4 DEF Send, TypeOK
    <3>2. Tail(out_messages[n]) \in Seq(Message) /\ Head(out_messages[n]) \in Message
      BY <3>1
    <3>3. Receiver(n) \in Node
      BY <3>2 DEF Receiver, Message
    <3>4. channel' \in [Node -> Seq(Message)] /\ \A m \in Node : Len(channel'[m]) <= ChannelSize
      <4>1. CASE at[Receiver(n)] = "ended"
        BY <2>4, <4>1 DEF Send, TypeOK
      <4>2. CASE at[Receiver(n)] # "ended"
        <5> DEFINE p == Receiver(n)  more == Append(channel[p], Head(out_messages[n]))
        <5>1. Len(channel[p]) < ChannelSize /\ channel' = [channel EXCEPT ![p] = more]
          BY <2>4, <4>2 DEF Send
        <5>2. channel[p] \in Seq(Message)
          BY <3>3 DEF TypeOK
        <5>3. more \in Seq(Message) /\ Len(more) <= ChannelSize
          BY <3>2, <5>1, <5>2, ChannelSizeAssumption
        <5> QED
          BY <5>1, <5>3 DEF TypeOK
      <4> QED
        BY <4>1, <4>2
    <3> QED
      BY <2>4, <3>2, <3>4, GoesType DEF Send, TypeOK
  <2>5. ASSUME NEW n \in Node, Stop(n) PROVE TypeOK'
    BY <2>5 DEF Stop, TypeOK
  <2>6. ASSUME NEW l \in Link, DeleteConnections(l[1], l[2]) PROVE TypeOK'
    <3>1. <<l[1], l[2]>> \in Link
      BY DEF Link
    <3> QED
      BY <2>6, <3>1 DEF DeleteConnections, TypeOK, Control, Deleting
  <2>7. CASE DeleteStep
    <3>1. /\ control \in Deleting /\ pair \in Link
          /\ control' \in Control /\ pair' \in IF control' \in Deleting THEN Link ELSE {NoPair}
          /\ control' # "insert"
      BY <2>7 DEF DeleteStep, TypeOK, Deleting, Control
    <3>2. pair[1] \in Node /\ pair[2] \in Node
          /\ <<pair[1], pair[2]>> \in Link /\ <<pair[2], pair[1]>> \in Link
      BY <3>1 DEF Link
    <3>3. ASSUME NEW n \in Node, NEW p \in Node, <<n, p>> \in Link,
                 RemoveConnection(n, p) \/ SaveConnection(n, p)
          PROVE  TypeOK'
      <4>0. /\ connections[n] \ {p} \in SUBSET Node
            /\ disconnected_connections[n] \cup {p} \in SUBSET Node
        BY DEF TypeOK
      <4>1. connections' \in [Node -> SUBSET Node]
        BY <3>3, <4>0 DEF RemoveConnection, SaveConnection, TypeOK
      <4>2. disconnected_connections' \in [Node -> SUBSET Node]
        <5>1. CASE RemoveConnection(n, p)
          BY <5>1 DEF RemoveConnection, TypeOK
        <5>2. CASE SaveConnection(n, p)
          BY <4>0, <5>2 DEF SaveConnection, TypeOK
        <5> QED
          BY <3>3, <5>1, <5>2
      <4>3. removed' \subseteq Link /\ cut' \subseteq Link
        BY <3>3 DEF RemoveConnection, SaveConnection, TypeOK
      <4> QED
        BY <3>1, <3>3, <4>1, <4>2, <4>3 DEF RemoveConnection, SaveConnection, TypeOK
    <3> QED
      BY <2>7, <3>2, <3>3 DEF DeleteStep
  <2>8. CASE ReconnectNodes
    BY <2>8 DEF ReconnectNodes, TypeOK, Control, Deleting
  <2>9. ASSUME NEW n \in Node, CloneDisconnected(n) PROVE TypeOK'
    BY <2>9 DEF CloneDisconnected, TypeOK, Control, Deleting
  <2>10. ASSUME NEW n \in Node, InsertConnection(n) PROVE TypeOK'
    BY <2>10 DEF InsertConnection, TypeOK, Control, Deleting
  <2>11. CASE ClearDisconnected
    BY <2>11 DEF ClearDisconnected, TypeOK, Control, Deleting
  <2>12. CASE UNCHANGED vars
    BY <2>12 DEF TypeOK
  <2> QED
    BY <2>1, <2>2, <2>3, <2>4, <2>5, <2>6, <2>7, <2>8, <2>9, <2>10, <2>11, <2>12
    DEF Next, Runner, Controller
<1> QED
  BY <1>1, <1>2, PTL DEF Spec

(***************************************************************************)
(* A jam lasts: its runners are in send().await, so nothing is taken from  *)
(* their channels, and only that would make room. Who is not in it cannot  *)
(* take from those channels, stop a waiting runner or take its sender.     *)
(***************************************************************************)
THEOREM JamLasts == Spec => JamIsForever
<1>1. ASSUME TypeOK, [Next]_vars, NEW S \in SUBSET Node, Jam(S)
      PROVE  Jam(S)'
  <2> USE DEF vars, runners, links, call, sent, others
  <2>1. \A n \in S : /\ n \in Node /\ at[n] = "sending" /\ Receiver(n) \in S
                     /\ at[Receiver(n)] # "ended"
                     /\ Len(channel[Receiver(n)]) >= ChannelSize
    BY <1>1 DEF Jam
  <2>2. SUFFICES /\ \A n \in S : at'[n] = at[n] /\ out_messages'[n] = out_messages[n]
                 /\ \A n \in S : Len(channel'[Receiver(n)]) >= ChannelSize
    BY <1>1, <2>1 DEF Jam, Receiver
  <2>3. ASSUME NEW m \in Node, m \notin S,
               Receive(m) \/ Poll(m) \/ LookUp(m)
        PROVE  /\ \A n \in S : at'[n] = at[n] /\ out_messages'[n] = out_messages[n]
               /\ \A n \in S : channel'[n] = channel[n]
    BY <1>1, <2>1, <2>3 DEF Receive, Poll, LookUp, Goes, TypeOK
  <2>4. ASSUME NEW m \in Node, m \notin S, Send(m)
        PROVE  /\ \A n \in S : at'[n] = at[n] /\ out_messages'[n] = out_messages[n]
               /\ \A n \in S : channel'[Receiver(n)] = channel[Receiver(n)]
    <3>1. \A n \in S : Receiver(m) = Receiver(n) => FALSE
      <4> SUFFICES ASSUME NEW n \in S, Receiver(m) = Receiver(n) PROVE FALSE
        OBVIOUS
      <4>1. Len(channel[Receiver(n)]) < ChannelSize
        BY <2>1, <2>4 DEF Send
      <4>2. Len(channel[Receiver(n)]) \in Nat
        BY <1>1, <2>1 DEF TypeOK
      <4> QED
        BY <2>1, <4>1, <4>2, ChannelSizeAssumption
    <3> QED
      BY <1>1, <2>1, <2>4, <3>1 DEF Send, Goes, TypeOK
  <2>5. \A m \in S : ~(Receive(m) \/ Poll(m) \/ LookUp(m))
    BY <2>1 DEF Receive, Poll, LookUp
  <2>6. \A m \in S : ~Send(m)
    <3> SUFFICES ASSUME NEW m \in S, Send(m) PROVE FALSE
      OBVIOUS
    <3>1. Len(channel[Receiver(m)]) < ChannelSize /\ Len(channel[Receiver(m)]) \in Nat
      BY <1>1, <2>1 DEF Send, TypeOK
    <3> QED
      BY <2>1, <3>1, ChannelSizeAssumption
  <2>7. ASSUME Controller \/ UNCHANGED vars \/ \E m \in Node : Stop(m)
        PROVE  UNCHANGED <<at, out_messages, channel>>
    BY <2>7
    DEF Controller, DeleteConnections, DeleteStep, RemoveConnection, SaveConnection,
        ReconnectNodes, CloneDisconnected, InsertConnection, ClearDisconnected, Stop
  <2> QED
    BY <1>1, <2>1, <2>3, <2>4, <2>5, <2>6, <2>7 DEF Next, Runner
<1>2. TypeOK /\ [Next]_vars => [\A S \in SUBSET Node : Jam(S) => Jam(S)']_vars
  BY <1>1
<1> QED
  BY <1>2, TypeCorrect, PTL DEF Spec, JamIsForever

-----------------------------------------------------------------------------
(* The connections. *)

Opposite(l) == <<l[2], l[1]>>
Connected(l) == l[2] \in connections[l[1]]
Saved(l) == l[2] \in disconnected_connections[l[1]]

\* In one place, and at the other end likewise.
Kept(l) == (Connected(l) <=> ~Saved(l)) /\ (Connected(l) <=> Connected(Opposite(l)))

\* On the way from connected to saved, in the hands of delete_connections.
Moving(l) == ~Connected(l) /\ (Saved(l) <=> l \notin removed)

(***************************************************************************)
(* What holds at each point of the controller's calls.                     *)
(***************************************************************************)
ControlInv ==
  /\ control \in {"idle", "remove_a", "clone", "insert"} => removed = {}
  /\ control \in Deleting => removed \subseteq {pair, Opposite(pair)}
  /\ control \in {"idle", "remove_a"} => \A l \in Link : Kept(l)
  /\ control \in Deleting \ {"remove_a"} =>
       \A l \in Link \ {pair, Opposite(pair)} : Kept(l)
  /\ control = "remove_b" =>
       /\ Moving(pair)
       /\ Connected(Opposite(pair)) <=> ~Saved(Opposite(pair))
       /\ Connected(Opposite(pair)) <=> pair \in removed
       /\ Opposite(pair) \notin removed
  /\ control = "save_a" =>
       /\ Moving(pair) /\ Moving(Opposite(pair))
       /\ pair \in removed <=> Opposite(pair) \in removed
  /\ control = "save_b" =>
       ~Connected(pair) /\ Saved(pair) /\ Moving(Opposite(pair)) /\ pair \notin removed
  /\ control \in {"clone", "insert"} =>
       \A l \in Link :
         IF l[1] \in nodes_left THEN Connected(l) <=> ~Saved(l)
         ELSE IF control = "insert" /\ l[1] = pair[1]
         THEN Connected(l) \/ (Saved(l) /\ l[2] \in clone)
         ELSE Connected(l) /\ ~Saved(l)
  /\ control = "insert" => pair[1] \notin nodes_left

LEMMA OppositeLink ==
  ASSUME NEW l \in Link
  PROVE  /\ Opposite(l) \in Link /\ Opposite(Opposite(l)) = l /\ Opposite(l) # l
         /\ l[1] \in Node /\ l[2] \in Node /\ l[1] # l[2] /\ <<l[1], l[2]>> = l
  BY DEF Opposite, Link

\* What taking l from the connections changes.
LEMMA RemoveChanges ==
  ASSUME TypeOK, NEW l \in Link, RemoveConnection(l[1], l[2])
  PROVE  /\ ~Connected(l)' /\ (Saved(l)' <=> Saved(l))
         /\ \A k \in Link \ {l} : (Connected(k)' <=> Connected(k)) /\ (Saved(k)' <=> Saved(k))
         /\ removed' = IF Connected(l) THEN removed \cup {l} ELSE removed
<1> l[1] \in Node /\ l[2] \in Node /\ <<l[1], l[2]>> = l
  BY OppositeLink
<1>1. ASSUME NEW k \in Link \ {l} PROVE k[1] \in Node /\ (k[1] # l[1] \/ k[2] # l[2])
  BY DEF Link
<1>2. connections' = [connections EXCEPT ![l[1]] = @ \ {l[2]}]
  BY DEF RemoveConnection
<1>3. ~Connected(l)' /\ \A k \in Link \ {l} : Connected(k)' <=> Connected(k)
  BY <1>1, <1>2 DEF Connected, TypeOK
<1>4. \A k \in Link : Saved(k)' <=> Saved(k)
  BY DEF Saved, RemoveConnection
<1>5. removed' = IF Connected(l) THEN removed \cup {l} ELSE removed
  BY DEF Connected, RemoveConnection
<1> QED
  BY <1>3, <1>4, <1>5

\* What saving l changes, if it is in the controller's hands.
LEMMA SaveChanges ==
  ASSUME TypeOK, NEW l \in Link, SaveConnection(l[1], l[2])
  PROVE  /\ Saved(l)' <=> Saved(l) \/ l \in removed
         /\ \A k \in Link \ {l} : Saved(k)' <=> Saved(k)
         /\ \A k \in Link : Connected(k)' <=> Connected(k)
         /\ removed' = removed \ {l}
<1> l[1] \in Node /\ l[2] \in Node /\ <<l[1], l[2]>> = l
  BY OppositeLink
<1>1. ASSUME NEW k \in Link \ {l} PROVE k[1] \in Node /\ (k[1] # l[1] \/ k[2] # l[2])
  BY DEF Link
<1>2. disconnected_connections' =
        IF l \in removed THEN [disconnected_connections EXCEPT ![l[1]] = @ \cup {l[2]}]
        ELSE disconnected_connections
  BY DEF SaveConnection
<1>3. Saved(l)' <=> Saved(l) \/ l \in removed
  BY <1>2 DEF Saved, TypeOK
<1>4. \A k \in Link \ {l} : Saved(k)' <=> Saved(k)
  BY <1>1, <1>2 DEF Saved, TypeOK
<1>5. \A k \in Link : Connected(k)' <=> Connected(k)
  BY DEF Connected, SaveConnection
<1>6. removed' = removed \ {l}
  BY DEF SaveConnection
<1> QED
  BY <1>3, <1>4, <1>5, <1>6

LEMMA DeleteStepKeeps ==
  ASSUME TypeOK, ControlInv, DeleteStep
  PROVE  ControlInv'
<1>1. control \in Deleting /\ pair \in Link
  BY DEF DeleteStep, TypeOK, Deleting
<1>2. PICK l \in Link : l = pair
  BY <1>1
<1>3. PICK o \in Link : o = Opposite(l)
  BY OppositeLink
<1>4. l # o /\ Opposite(o) = l /\ o[1] = pair[2] /\ o[2] = pair[1]
  BY <1>2, <1>3, OppositeLink DEF Opposite
<1>5. \A k \in Link \ {l, o} : Opposite(k) \in Link \ {l, o}
  BY <1>3, <1>4, OppositeLink
<1>6. CASE control = "remove_a"
  <2>1. RemoveConnection(l[1], l[2]) /\ control' = "remove_b" /\ pair' = l
    BY <1>2, <1>6 DEF DeleteStep
  <2>2. removed = {} /\ \A k \in Link : Kept(k)
    BY <1>6 DEF ControlInv
  <2>3. /\ ~Connected(l)' /\ (Saved(l)' <=> Saved(l))
        /\ \A k \in Link \ {l} : (Connected(k)' <=> Connected(k)) /\ (Saved(k)' <=> Saved(k))
        /\ removed' = IF Connected(l) THEN {l} ELSE {}
    BY <2>1, <2>2, RemoveChanges
  <2>4. \A k \in Link \ {l, o} : Kept(k)'
    BY <1>5, <2>2, <2>3 DEF Kept
  <2>5. Moving(l)' /\ (Connected(o)' <=> ~Saved(o)')
        /\ (Connected(o)' <=> l \in removed') /\ o \notin removed'
    BY <1>3, <1>4, <2>2, <2>3 DEF Kept, Moving
  <2> QED
    BY <1>3, <2>1, <2>3, <2>4, <2>5 DEF ControlInv, Deleting
<1>7. CASE control = "remove_b"
  <2>1. RemoveConnection(o[1], o[2]) /\ control' = "save_a" /\ pair' = l
    BY <1>2, <1>4, <1>7 DEF DeleteStep
  <2>2. /\ removed \subseteq {l, o} /\ \A k \in Link \ {l, o} : Kept(k)
        /\ Moving(l) /\ (Connected(o) <=> ~Saved(o))
        /\ (Connected(o) <=> l \in removed) /\ o \notin removed
    BY <1>2, <1>3, <1>7 DEF ControlInv, Deleting
  <2>3. /\ ~Connected(o)' /\ (Saved(o)' <=> Saved(o))
        /\ \A k \in Link \ {o} : (Connected(k)' <=> Connected(k)) /\ (Saved(k)' <=> Saved(k))
        /\ removed' = IF Connected(o) THEN removed \cup {o} ELSE removed
    BY <2>1, RemoveChanges
  <2>4. \A k \in Link \ {l, o} : Kept(k)'
    BY <1>5, <2>2, <2>3 DEF Kept
  <2>5. Moving(l)' /\ Moving(o)' /\ (l \in removed' <=> o \in removed') /\ removed' \subseteq {l, o}
    BY <1>4, <2>2, <2>3 DEF Moving
  <2> QED
    BY <1>3, <2>1, <2>4, <2>5 DEF ControlInv, Deleting
<1>8. CASE control = "save_a"
  <2>1. SaveConnection(l[1], l[2]) /\ control' = "save_b" /\ pair' = l
    BY <1>2, <1>8 DEF DeleteStep
  <2>2. /\ removed \subseteq {l, o} /\ \A k \in Link \ {l, o} : Kept(k)
        /\ Moving(l) /\ Moving(o)
    BY <1>2, <1>3, <1>8 DEF ControlInv, Deleting
  <2>3. /\ Saved(l)' <=> Saved(l) \/ l \in removed
        /\ \A k \in Link \ {l} : Saved(k)' <=> Saved(k)
        /\ \A k \in Link : Connected(k)' <=> Connected(k)
        /\ removed' = removed \ {l}
    BY <2>1, SaveChanges
  <2>4. \A k \in Link \ {l, o} : Kept(k)'
    BY <1>5, <2>2, <2>3 DEF Kept
  <2>5. ~Connected(l)' /\ Saved(l)' /\ Moving(o)' /\ l \notin removed' /\ removed' \subseteq {l, o}
    BY <1>4, <2>2, <2>3 DEF Moving
  <2> QED
    BY <1>3, <2>1, <2>4, <2>5 DEF ControlInv, Deleting
<1>9. CASE control = "save_b"
  <2>1. SaveConnection(o[1], o[2]) /\ control' = "idle"
    BY <1>4, <1>9 DEF DeleteStep
  <2>2. /\ removed \subseteq {l, o} /\ \A k \in Link \ {l, o} : Kept(k)
        /\ ~Connected(l) /\ Saved(l) /\ Moving(o) /\ l \notin removed
    BY <1>2, <1>3, <1>9 DEF ControlInv, Deleting
  <2>3. /\ Saved(o)' <=> Saved(o) \/ o \in removed
        /\ \A k \in Link \ {o} : Saved(k)' <=> Saved(k)
        /\ \A k \in Link : Connected(k)' <=> Connected(k)
        /\ removed' = removed \ {o}
    BY <2>1, SaveChanges
  <2>4. \A k \in Link \ {l, o} : Kept(k)'
    BY <1>5, <2>2, <2>3 DEF Kept
  <2>5. Kept(l)' /\ Kept(o)' /\ removed' = {}
    BY <1>3, <1>4, <2>2, <2>3 DEF Kept, Moving
  <2> QED
    BY <2>1, <2>4, <2>5 DEF ControlInv, Deleting
<1> QED
  BY <1>1, <1>6, <1>7, <1>8, <1>9 DEF Deleting

LEMMA ReconnectStepKeeps ==
  ASSUME TypeOK, ControlInv,
         ReconnectNodes \/ ClearDisconnected
         \/ \E n \in Node : CloneDisconnected(n) \/ InsertConnection(n)
  PROVE  ControlInv'
<1>1. \A l \in Link : l[1] \in Node /\ l[2] \in Node /\ Opposite(l) \in Link
  BY OppositeLink
<1>2. CASE ReconnectNodes
  BY <1>1, <1>2 DEF ReconnectNodes, others, ControlInv, Kept, Connected, Saved, Deleting
<1>3. ASSUME NEW n \in Node, CloneDisconnected(n) PROVE ControlInv'
  <2>1. \A l \in Link : (Connected(l)' <=> Connected(l)) /\ (Saved(l)' <=> Saved(l))
    BY <1>3 DEF CloneDisconnected, Connected, Saved
  <2>2. \A l \in Link : l[1] = n /\ Saved(l) => l[2] \in clone'
    BY <1>3 DEF CloneDisconnected, Saved
  <2>3. /\ removed' = {} /\ control' = "insert" /\ pair'[1] = n
        /\ nodes_left' = nodes_left \ {n} /\ n \in nodes_left
        /\ \A l \in Link : IF l[1] \in nodes_left THEN Connected(l) <=> ~Saved(l)
                           ELSE Connected(l) /\ ~Saved(l)
    BY <1>3 DEF CloneDisconnected, ControlInv
  <2>4. \A l \in Link :
          IF l[1] \in nodes_left' THEN Connected(l)' <=> ~Saved(l)'
          ELSE IF l[1] = pair'[1] THEN Connected(l)' \/ (Saved(l)' /\ l[2] \in clone')
          ELSE Connected(l)' /\ ~Saved(l)'
    BY <2>1, <2>2, <2>3
  <2> QED
    BY <2>3, <2>4 DEF ControlInv, Deleting
<1>4. ASSUME NEW p \in Node, InsertConnection(p) PROVE ControlInv'
  <2>1. pair[1] \in Node /\ control = "insert"
    BY <1>4 DEF InsertConnection, TypeOK, Deleting
  <2>2. \A l \in Link : /\ Connected(l)' <=> Connected(l) \/ (l[1] = pair[1] /\ l[2] = p)
                        /\ Saved(l)' <=> Saved(l)
    BY <1>1, <1>4, <2>1 DEF InsertConnection, Connected, Saved, TypeOK
  <2>3. /\ removed' = {} /\ control' = "insert" /\ pair' = pair
        /\ nodes_left' = nodes_left /\ clone' = clone \ {p} /\ pair[1] \notin nodes_left
        /\ \A l \in Link :
             IF l[1] \in nodes_left THEN Connected(l) <=> ~Saved(l)
             ELSE IF l[1] = pair[1] THEN Connected(l) \/ (Saved(l) /\ l[2] \in clone)
             ELSE Connected(l) /\ ~Saved(l)
    BY <1>4, <2>1 DEF InsertConnection, ControlInv
  <2>4. \A l \in Link :
          IF l[1] \in nodes_left' THEN Connected(l)' <=> ~Saved(l)'
          ELSE IF l[1] = pair'[1] THEN Connected(l)' \/ (Saved(l)' /\ l[2] \in clone')
          ELSE Connected(l)' /\ ~Saved(l)'
    BY <2>2, <2>3
  <2> QED
    BY <2>3, <2>4 DEF ControlInv, Deleting
<1>5. CASE ClearDisconnected
  <2>1. pair[1] \in Node /\ control = "insert" /\ clone = {}
    BY <1>5 DEF ClearDisconnected, TypeOK, Deleting
  <2>2. \A l \in Link : /\ Connected(l)' <=> Connected(l)
                        /\ Saved(l)' <=> Saved(l) /\ l[1] # pair[1]
    BY <1>1, <1>5, <2>1 DEF ClearDisconnected, Connected, Saved, TypeOK
  <2>3. /\ removed' = {} /\ nodes_left' = nodes_left /\ pair[1] \notin nodes_left
        /\ control' = IF nodes_left = {} THEN "idle" ELSE "clone"
        /\ \A l \in Link :
             IF l[1] \in nodes_left THEN Connected(l) <=> ~Saved(l)
             ELSE IF l[1] = pair[1] THEN Connected(l) ELSE Connected(l) /\ ~Saved(l)
    BY <1>5, <2>1 DEF ClearDisconnected, ControlInv
  <2>4. \A l \in Link : IF l[1] \in nodes_left' THEN Connected(l)' <=> ~Saved(l)'
                        ELSE Connected(l)' /\ ~Saved(l)'
    BY <2>2, <2>3
  <2>5. nodes_left = {} => \A l \in Link : Kept(l)'
    BY <1>1, <2>3, <2>4 DEF Kept
  <2> QED
    BY <2>3, <2>4, <2>5 DEF ControlInv, Deleting
<1> QED
  BY <1>2, <1>3, <1>4, <1>5

LEMMA ControlAlways == Spec => [](TypeOK /\ ControlInv)
<1>1. Init => ControlInv
  BY DEF Init, ControlInv, Kept, Connected, Saved, Opposite, Deleting, Link
<1>2. TypeOK /\ ControlInv /\ [Next]_vars => ControlInv'
  <2> SUFFICES ASSUME TypeOK, ControlInv, [Next]_vars PROVE ControlInv'
    OBVIOUS
  <2>1. CASE DeleteStep
    BY <2>1, DeleteStepKeeps
  <2>2. CASE ReconnectNodes \/ ClearDisconnected
             \/ \E n \in Node : CloneDisconnected(n) \/ InsertConnection(n)
    BY <2>2, ReconnectStepKeeps
  <2>3. ASSUME NEW l \in Link, DeleteConnections(l[1], l[2]) PROVE ControlInv'
    BY <2>3 DEF DeleteConnections, ControlInv, Kept, Connected, Saved, Deleting
  <2>4. CASE UNCHANGED links
    BY <2>4 DEF links, call, ControlInv, Kept, Moving, Connected, Saved, Opposite
  <2>5. ASSUME NEW n \in Node, Runner(n) \/ Stop(n) PROVE UNCHANGED links
    BY <2>5 DEF Runner, Receive, Poll, LookUp, Send, Stop
  <2> QED
    BY <2>1, <2>2, <2>3, <2>4, <2>5 DEF Next, Controller, vars
<1> QED
  BY <1>1, <1>2, TypeCorrect, PTL DEF Spec

(***************************************************************************)
(* Every peer of a node is connected or saved, not both, and the same at   *)
(* the other end, whenever the controller is between two calls: whatever   *)
(* it deleted and reconnected, in whatever order.                          *)
(***************************************************************************)
THEOREM ConnectionsCorrect == Spec => []ConnectionsAreKept
<1>1. ControlInv => ConnectionsAreKept
  BY DEF ControlInv, ConnectionsAreKept, Kept, Connected, Saved, Opposite
<1> QED
  BY <1>1, ControlAlways, PTL

(***************************************************************************)
(* Whatever was deleted before, in whatever order: when reconnect_nodes    *)
(* returns, every node is connected to every other one.                    *)
(***************************************************************************)
THEOREM ReconnectCorrect == Spec => ReconnectConnectsAll
<1>1. ASSUME TypeOK, ControlInv, [Next]_vars, control = "insert", control' = "idle"
      PROVE  \A l \in Link : l[2] \in connections'[l[1]]
  <2>1. ClearDisconnected
    BY <1>1 DEF Next, Runner, Receive, Poll, LookUp, Send, Stop, Controller, DeleteConnections,
                DeleteStep, ReconnectNodes, CloneDisconnected, InsertConnection, vars, links, call
  <2>2. nodes_left = {} /\ clone = {} /\ connections' = connections
    BY <1>1, <2>1 DEF ClearDisconnected
  <2> QED
    BY <1>1, <2>2 DEF ControlInv, Connected
<1>2. TypeOK /\ ControlInv /\ [Next]_vars
      => [control = "insert" /\ control' = "idle" =>
            \A l \in Link : l[2] \in connections'[l[1]]]_vars
  BY <1>1
<1> QED
  BY <1>2, ControlAlways, PTL DEF Spec, ReconnectConnectsAll

-----------------------------------------------------------------------------
(* The messages of a link. *)

Ordered(l, s) ==
  \A i, j \in DOMAIN s : i < j /\ On(l, s[i]) /\ On(l, s[j]) => s[i].number < s[j].number

Before(l, s, t) ==
  \A i \in DOMAIN s, j \in DOMAIN t : On(l, s[i]) /\ On(l, t[j]) => s[i].number < t[j].number

Fresh(l, s) ==
  \A i \in DOMAIN s : On(l, s[i]) => s[i].number \in made[l] /\ s[i].number > taken[l]

Carries(l, s, k) == \E i \in DOMAIN s : On(l, s[i]) /\ s[i].number = k

Lossless(l) == l \notin cut /\ at[l[2]] # "ended"

(***************************************************************************)
(* LinksKeepOrder, for the channel and for what is left to send.           *)
(***************************************************************************)
LinkInv(l) ==
  LET s == channel[l[2]]
      t == out_messages[l[1]]
  IN  /\ Ordered(l, s) /\ Ordered(l, t) /\ Before(l, s, t)
      /\ Fresh(l, s) /\ Fresh(l, t)
      /\ Lossless(l) => \A k \in made[l] : k > taken[l] => Carries(l, s, k) \/ Carries(l, t, k)

Incoming(n, s) == \A i \in DOMAIN s : s[i].to = n /\ <<s[i].from, n>> \in Link
Outgoing(n, s) == \A i \in DOMAIN s : s[i].from = n /\ <<n, s[i].to>> \in Link
Addressed == \A n \in Node : Incoming(n, channel[n]) /\ Outgoing(n, out_messages[n])

NumbersKnown ==
  \A l \in Link :
    /\ \A k \in made[l] : k <= numbered[l[1]]
    /\ taken[l] <= numbered[l[1]]

CutKnown == \A l \in Link : l \notin cut => Connected(l)

OrderInv == Addressed /\ NumbersKnown /\ CutKnown /\ \A l \in Link : LinkInv(l)

LEMMA TailProperties ==
  ASSUME NEW s \in Seq(Message), s # << >>
  PROVE  /\ Head(s) = s[1] /\ 1 \in DOMAIN s
         /\ \A i \in DOMAIN Tail(s) : i + 1 \in DOMAIN s /\ Tail(s)[i] = s[i + 1]
         /\ \A i \in DOMAIN s : i > 1 => i - 1 \in DOMAIN Tail(s) /\ Tail(s)[i - 1] = s[i]
         /\ DOMAIN s \subseteq Nat \ {0} /\ DOMAIN Tail(s) \subseteq Nat \ {0}
<1>1. Len(s) \in Nat \ {0} /\ DOMAIN s = 1 .. Len(s)
  OBVIOUS
<1>2. Tail(s) \in Seq(Message) /\ Len(Tail(s)) = Len(s) - 1
  OBVIOUS
<1>3. DOMAIN Tail(s) = 1 .. Len(s) - 1
  BY <1>2
<1>4. \A i \in 1 .. Len(s) - 1 : Tail(s)[i] = s[i + 1]
  BY <1>1
<1> QED
  BY <1>1, <1>3, <1>4

LEMMA AppendProperties ==
  ASSUME NEW s \in Seq(Message), NEW msg \in Message
  PROVE  /\ \A i \in DOMAIN Append(s, msg) :
              \/ i \in DOMAIN s /\ Append(s, msg)[i] = s[i]
              \/ i = Len(s) + 1 /\ Append(s, msg)[i] = msg
         /\ \A i \in DOMAIN s : i \in DOMAIN Append(s, msg) /\ Append(s, msg)[i] = s[i]
         /\ Len(s) + 1 \in DOMAIN Append(s, msg) /\ Append(s, msg)[Len(s) + 1] = msg
         /\ \A i \in DOMAIN s : i < Len(s) + 1
         /\ DOMAIN Append(s, msg) \subseteq Nat /\ Len(s) \in Nat
<1>0. Append(s, msg) \in Seq(Message) /\ Len(Append(s, msg)) = Len(s) + 1
  OBVIOUS
<1>1. DOMAIN s = 1 .. Len(s) /\ DOMAIN Append(s, msg) = 1 .. Len(s) + 1 /\ Len(s) \in Nat
  BY <1>0
<1>2. \A i \in 1 .. Len(s) + 1 : Append(s, msg)[i] = IF i = Len(s) + 1 THEN msg ELSE s[i]
  BY <1>1
<1> QED
  BY <1>1, <1>2

\* Who a message is from and for does not change with its place.
LEMMA AddressesKept ==
  ASSUME NEW n, NEW s \in Seq(Message)
  PROVE  /\ Incoming(n, s) /\ s # << >> => Incoming(n, Tail(s))
         /\ Outgoing(n, s) /\ s # << >> => Outgoing(n, Tail(s))
         /\ \A msg \in Message : Incoming(n, s) /\ msg.to = n /\ <<msg.from, n>> \in Link
                                 => Incoming(n, Append(s, msg))
<1>1. Incoming(n, s) /\ s # << >> => Incoming(n, Tail(s))
  <2> SUFFICES ASSUME Incoming(n, s), s # << >>, NEW i \in DOMAIN Tail(s)
               PROVE  Tail(s)[i].to = n /\ <<Tail(s)[i].from, n>> \in Link
    BY DEF Incoming
  <2>1. i + 1 \in DOMAIN s /\ Tail(s)[i] = s[i + 1]
    BY TailProperties
  <2> QED
    BY <2>1 DEF Incoming
<1>2. Outgoing(n, s) /\ s # << >> => Outgoing(n, Tail(s))
  <2> SUFFICES ASSUME Outgoing(n, s), s # << >>, NEW i \in DOMAIN Tail(s)
               PROVE  Tail(s)[i].from = n /\ <<n, Tail(s)[i].to>> \in Link
    BY DEF Outgoing
  <2>1. i + 1 \in DOMAIN s /\ Tail(s)[i] = s[i + 1]
    BY TailProperties
  <2> QED
    BY <2>1 DEF Outgoing
<1>3. ASSUME NEW msg \in Message, Incoming(n, s), msg.to = n, <<msg.from, n>> \in Link,
             NEW i \in DOMAIN Append(s, msg)
      PROVE  Append(s, msg)[i].to = n /\ <<Append(s, msg)[i].from, n>> \in Link
  <2>1. (i \in DOMAIN s /\ Append(s, msg)[i] = s[i]) \/ Append(s, msg)[i] = msg
    BY AppendProperties
  <2> QED
    BY <1>3, <2>1 DEF Incoming
<1> QED
  BY <1>1, <1>2, <1>3 DEF Incoming

\* What is left when the first message is gone.
LEMMA TailKeeps ==
  ASSUME NEW l, NEW s \in Seq(Message), s # << >>
  PROVE  /\ Ordered(l, s) => Ordered(l, Tail(s))
         /\ \A t : Before(l, s, t) => Before(l, Tail(s), t)
         /\ \A t : Before(l, t, s) => Before(l, t, Tail(s))
         /\ Fresh(l, s) => Fresh(l, Tail(s))
         /\ \A k : Carries(l, s, k) => \/ Carries(l, Tail(s), k)
                                       \/ On(l, Head(s)) /\ Head(s).number = k
<1>1. Ordered(l, s) => Ordered(l, Tail(s))
  <2> SUFFICES ASSUME Ordered(l, s), NEW i \in DOMAIN Tail(s), NEW j \in DOMAIN Tail(s), i < j,
                      On(l, Tail(s)[i]), On(l, Tail(s)[j])
               PROVE  Tail(s)[i].number < Tail(s)[j].number
    BY DEF Ordered
  <2>1. i + 1 \in DOMAIN s /\ j + 1 \in DOMAIN s /\ i + 1 < j + 1
    BY TailProperties
  <2>2. s[i + 1] = Tail(s)[i] /\ s[j + 1] = Tail(s)[j]
    BY TailProperties
  <2> QED
    BY <2>1, <2>2 DEF Ordered
<1>2. \A t : Before(l, s, t) => Before(l, Tail(s), t)
  BY TailProperties DEF Before
<1>3. \A t : Before(l, t, s) => Before(l, t, Tail(s))
  BY TailProperties DEF Before
<1>4. Fresh(l, s) => Fresh(l, Tail(s))
  BY TailProperties DEF Fresh
<1>5. ASSUME NEW k, Carries(l, s, k)
      PROVE  Carries(l, Tail(s), k) \/ (On(l, Head(s)) /\ Head(s).number = k)
  <2>1. PICK i \in DOMAIN s : On(l, s[i]) /\ s[i].number = k
    BY <1>5 DEF Carries
  <2>2. CASE i = 1
    BY <2>1, <2>2, TailProperties
  <2>3. CASE i > 1
    <3>1. i - 1 \in DOMAIN Tail(s) /\ Tail(s)[i - 1] = s[i]
      BY <2>3, TailProperties
    <3> QED
      BY <2>1, <3>1 DEF Carries
  <2> QED
    BY <2>2, <2>3, TailProperties
<1> QED
  BY <1>1, <1>2, <1>3, <1>4, <1>5

\* A link between whose ends nothing happens.
LEMMA LinkUntouched ==
  ASSUME NEW l \in Link, LinkInv(l),
         channel'[l[2]] = channel[l[2]], out_messages'[l[1]] = out_messages[l[1]],
         made'[l] = made[l], taken'[l] = taken[l], cut \subseteq cut',
         at[l[2]] = "ended" => at'[l[2]] = "ended"
  PROVE  LinkInv(l)'
BY DEF LinkInv, Ordered, Before, Fresh, Carries, Lossless, On

\* l[1] does not send the first message, to a peer that has ended or is not
\* connected: if it was on l, then l may lose messages.
LEMMA LinkSkips ==
  ASSUME NEW l \in Link, LinkInv(l), TypeOK, out_messages[l[1]] # << >>,
         out_messages'[l[1]] = Tail(out_messages[l[1]]),
         channel'[l[2]] = channel[l[2]],
         made'[l] = made[l], taken'[l] = taken[l], cut' = cut, at'[l[2]] = at[l[2]],
         On(l, Head(out_messages[l[1]])) => ~Lossless(l)
  PROVE  LinkInv(l)'
<1>1. PICK t \in Seq(Message) : t = out_messages[l[1]]
  BY OppositeLink DEF TypeOK
<1>2. PICK s \in Seq(Message) : s = channel[l[2]]
  BY OppositeLink DEF TypeOK
<1>3. t # << >> /\ Tail(t) = out_messages'[l[1]] /\ s = channel'[l[2]]
  BY <1>1, <1>2
<1>4. /\ Ordered(l, s) /\ Ordered(l, t) /\ Before(l, s, t) /\ Fresh(l, s) /\ Fresh(l, t)
      /\ Lossless(l) => \A k \in made[l] : k > taken[l] => Carries(l, s, k) \/ Carries(l, t, k)
  BY <1>1, <1>2 DEF LinkInv
<1>5. /\ Ordered(l, Tail(t)) /\ Before(l, s, Tail(t)) /\ Fresh(l, Tail(t))
      /\ \A k : Carries(l, t, k) => \/ Carries(l, Tail(t), k)
                                    \/ On(l, Head(t)) /\ Head(t).number = k
  BY <1>3, <1>4, TailKeeps
<1>6. Fresh(l, s)' /\ Fresh(l, Tail(t))' /\ (Lossless(l)' => Lossless(l))
  BY <1>4, <1>5 DEF Fresh, Lossless
<1>7. Lossless(l)' => \A k \in made'[l] : k > taken'[l] =>
                        Carries(l, s, k) \/ Carries(l, Tail(t), k)
  BY <1>1, <1>4, <1>5, <1>6
<1> QED
  BY <1>3, <1>4, <1>5, <1>6, <1>7 DEF LinkInv

\* The first message goes into the channel.
LEMMA LinkDelivers ==
  ASSUME NEW l \in Link, LinkInv(l), TypeOK, out_messages[l[1]] # << >>,
         out_messages'[l[1]] = Tail(out_messages[l[1]]),
         channel'[l[2]] = Append(channel[l[2]], Head(out_messages[l[1]])),
         made'[l] = made[l], taken'[l] = taken[l], cut' = cut, at'[l[2]] = at[l[2]]
  PROVE  LinkInv(l)'
<1>1. PICK t \in Seq(Message) : t = out_messages[l[1]]
  BY OppositeLink DEF TypeOK
<1>2. PICK s \in Seq(Message) : s = channel[l[2]]
  BY OppositeLink DEF TypeOK
<1>3. PICK msg \in Message : msg = Head(t)
  BY <1>1
<1>4. PICK u : u = Append(s, msg)
  OBVIOUS
<1>5. t # << >> /\ Tail(t) = out_messages'[l[1]] /\ u = channel'[l[2]]
  BY <1>1, <1>2, <1>3, <1>4
<1>6. /\ Ordered(l, s) /\ Ordered(l, t) /\ Before(l, s, t) /\ Fresh(l, s) /\ Fresh(l, t)
      /\ Lossless(l) => \A k \in made[l] : k > taken[l] => Carries(l, s, k) \/ Carries(l, t, k)
  BY <1>1, <1>2 DEF LinkInv
<1>7. /\ Ordered(l, Tail(t)) /\ Before(l, s, Tail(t)) /\ Fresh(l, Tail(t))
      /\ \A k : Carries(l, t, k) => \/ Carries(l, Tail(t), k)
                                    \/ On(l, Head(t)) /\ Head(t).number = k
  BY <1>5, <1>6, TailKeeps
<1>8. \A i \in DOMAIN u : \/ i \in DOMAIN s /\ u[i] = s[i]
                          \/ i = Len(s) + 1 /\ u[i] = msg
  BY <1>4, AppendProperties
<1>9. /\ \A i \in DOMAIN s : i \in DOMAIN u /\ u[i] = s[i]
      /\ Len(s) + 1 \in DOMAIN u /\ u[Len(s) + 1] = msg
  BY <1>4, AppendProperties
<1>10. msg = t[1] /\ 1 \in DOMAIN t
  BY <1>3, <1>5, TailProperties
<1>11. Ordered(l, u)
  <2> SUFFICES ASSUME NEW i \in DOMAIN u, NEW j \in DOMAIN u, i < j, On(l, u[i]), On(l, u[j])
               PROVE  u[i].number < u[j].number
    BY DEF Ordered
  <2>1. i \in DOMAIN s /\ u[i] = s[i]
    BY <1>4, <1>8, AppendProperties
  <2>2. CASE j \in DOMAIN s /\ u[j] = s[j]
    BY <1>6, <2>1, <2>2 DEF Ordered
  <2>3. CASE u[j] = msg
    BY <1>6, <1>10, <2>1, <2>3 DEF Before
  <2> QED
    BY <1>8, <2>2, <2>3
<1>12. Before(l, u, Tail(t))
  <2>1. ASSUME NEW j \in DOMAIN Tail(t), On(l, msg), On(l, Tail(t)[j])
        PROVE  msg.number < Tail(t)[j].number
    <3>1. j + 1 \in DOMAIN t /\ Tail(t)[j] = t[j + 1] /\ 1 < j + 1
      BY <1>5, TailProperties
    <3> QED
      BY <1>6, <1>10, <2>1, <3>1 DEF Ordered
  <2> QED
    BY <1>7, <1>8, <2>1 DEF Before
<1>13. Fresh(l, u)' /\ Fresh(l, Tail(t))' /\ (Lossless(l)' => Lossless(l))
  BY <1>6, <1>7, <1>8, <1>10 DEF Fresh, Lossless
<1>14. \A k : Carries(l, s, k) \/ Carries(l, t, k) => Carries(l, u, k) \/ Carries(l, Tail(t), k)
  <2>1. \A k : Carries(l, s, k) => Carries(l, u, k)
    BY <1>9 DEF Carries
  <2>2. \A k : On(l, msg) /\ msg.number = k => Carries(l, u, k)
    BY <1>9 DEF Carries
  <2> QED
    BY <1>3, <1>7, <2>1, <2>2
<1> QED
  <2>1. Lossless(l)' => \A k \in made'[l] : k > taken'[l] =>
                          Carries(l, u, k) \/ Carries(l, Tail(t), k)
    BY <1>6, <1>13, <1>14
  <2> QED
    BY <1>5, <1>7, <1>11, <1>12, <1>13, <2>1 DEF LinkInv

\* What is in the channel behind a message of another link.
LEMMA LinkPassed ==
  ASSUME NEW l \in Link, LinkInv(l), TypeOK, NEW msg \in Message, ~On(l, msg),
         channel'[l[2]] = Append(channel[l[2]], msg), out_messages'[l[1]] = out_messages[l[1]],
         made'[l] = made[l], taken'[l] = taken[l], cut' = cut, at'[l[2]] = at[l[2]]
  PROVE  LinkInv(l)'
<1>1. PICK t \in Seq(Message) : t = out_messages[l[1]]
  BY OppositeLink DEF TypeOK
<1>2. PICK s \in Seq(Message) : s = channel[l[2]]
  BY OppositeLink DEF TypeOK
<1>3. PICK u : u = Append(s, msg)
  OBVIOUS
<1>4. t = out_messages'[l[1]] /\ u = channel'[l[2]]
  BY <1>1, <1>2, <1>3
<1>5. /\ Ordered(l, s) /\ Ordered(l, t) /\ Before(l, s, t) /\ Fresh(l, s) /\ Fresh(l, t)
      /\ Lossless(l) => \A k \in made[l] : k > taken[l] => Carries(l, s, k) \/ Carries(l, t, k)
  BY <1>1, <1>2 DEF LinkInv
<1>6. \A i \in DOMAIN u : On(l, u[i]) => i \in DOMAIN s /\ u[i] = s[i]
  BY <1>3, AppendProperties
<1>7. \A i \in DOMAIN s : i \in DOMAIN u /\ u[i] = s[i]
  BY <1>3, AppendProperties
<1>8. Ordered(l, u) /\ Before(l, u, t)
  BY <1>5, <1>6 DEF Ordered, Before
<1>9. Fresh(l, u)' /\ Fresh(l, t)' /\ (Lossless(l)' => Lossless(l))
  BY <1>5, <1>6 DEF Fresh, Lossless
<1>10. \A k : Carries(l, s, k) => Carries(l, u, k)
  BY <1>7 DEF Carries
<1>11. Lossless(l)' => \A k \in made'[l] : k > taken'[l] => Carries(l, u, k) \/ Carries(l, t, k)
  BY <1>5, <1>9, <1>10
<1> QED
  BY <1>4, <1>5, <1>8, <1>9, <1>11 DEF LinkInv

\* l[2] takes the first message of its channel, which may be of another link.
LEMMA LinkReceives ==
  ASSUME NEW l \in Link, LinkInv(l), TypeOK, channel[l[2]] # << >>,
         channel'[l[2]] = Tail(channel[l[2]]), out_messages'[l[1]] = out_messages[l[1]],
         made'[l] = made[l], cut' = cut, at[l[2]] # "ended",
         IF On(l, Head(channel[l[2]])) THEN taken'[l] = Head(channel[l[2]]).number
         ELSE taken'[l] = taken[l]
  PROVE  LinkInv(l)'
<1>1. PICK t \in Seq(Message) : t = out_messages[l[1]]
  BY OppositeLink DEF TypeOK
<1>2. PICK s \in Seq(Message) : s = channel[l[2]]
  BY OppositeLink DEF TypeOK
<1>3. s # << >> /\ t = out_messages'[l[1]] /\ Tail(s) = channel'[l[2]]
  BY <1>1, <1>2
<1>4. /\ Ordered(l, s) /\ Ordered(l, t) /\ Before(l, s, t) /\ Fresh(l, s) /\ Fresh(l, t)
      /\ Lossless(l) => \A k \in made[l] : k > taken[l] => Carries(l, s, k) \/ Carries(l, t, k)
  BY <1>1, <1>2 DEF LinkInv
<1>5. /\ Ordered(l, Tail(s)) /\ Before(l, Tail(s), t) /\ Fresh(l, Tail(s))
      /\ \A k : Carries(l, s, k) => \/ Carries(l, Tail(s), k)
                                    \/ On(l, Head(s)) /\ Head(s).number = k
  <2>1. Ordered(l, Tail(s))
    BY <1>3, <1>4, TailKeeps
  <2>2. Before(l, Tail(s), t)
    BY <1>3, <1>4, TailKeeps
  <2>3. Fresh(l, Tail(s))
    BY <1>3, <1>4, TailKeeps
  <2>4. \A k : Carries(l, s, k) => Carries(l, Tail(s), k) \/ (On(l, Head(s)) /\ Head(s).number = k)
    BY <1>3, TailKeeps
  <2> QED
    BY <2>1, <2>2, <2>3, <2>4
<1>6. Head(s) = s[1] /\ 1 \in DOMAIN s
  BY <1>3, TailProperties
<1>7. taken[l] \in Nat /\ made[l] \subseteq Nat /\ (Lossless(l)' => Lossless(l))
  BY DEF TypeOK, Lossless
<1>8. CASE On(l, Head(s))
  <2>1. taken'[l] = Head(s).number /\ taken'[l] \in Nat /\ taken'[l] > taken[l]
    BY <1>2, <1>4, <1>6, <1>7, <1>8 DEF Fresh
  <2>2. ASSUME NEW i \in DOMAIN Tail(s), On(l, Tail(s)[i]) PROVE Tail(s)[i].number > Head(s).number
    <3>1. i + 1 \in DOMAIN s /\ Tail(s)[i] = s[i + 1] /\ 1 < i + 1
      BY <1>3, TailProperties
    <3>2. s[1].number < s[i + 1].number
      BY <1>4, <1>6, <1>8, <2>2, <3>1 DEF Ordered
    <3>3. s[i + 1].number \in Nat /\ s[1].number \in Nat
      BY <1>4, <1>6, <1>7, <1>8, <2>2, <3>1 DEF Fresh
    <3> QED
      BY <1>6, <3>1, <3>2, <3>3
  <2>3. ASSUME NEW i \in DOMAIN t, On(l, t[i]) PROVE t[i].number > Head(s).number
    <3>1. s[1].number < t[i].number
      BY <1>4, <1>6, <1>8, <2>3 DEF Before
    <3>2. t[i].number \in Nat /\ s[1].number \in Nat
      BY <1>4, <1>6, <1>7, <1>8, <2>3 DEF Fresh
    <3> QED
      BY <1>6, <3>1, <3>2
  <2>4. Fresh(l, Tail(s))' /\ Fresh(l, t)'
    BY <1>4, <1>5, <2>1, <2>2, <2>3 DEF Fresh
  <2>5. Lossless(l)' => \A k \in made'[l] : k > taken'[l] =>
                          Carries(l, Tail(s), k) \/ Carries(l, t, k)
    BY <1>4, <1>5, <1>7, <2>1
  <2> QED
    BY <1>3, <1>4, <1>5, <2>4, <2>5 DEF LinkInv
<1>9. CASE ~On(l, Head(s))
  <2>1. taken'[l] = taken[l]
    BY <1>2, <1>9
  <2>2. Fresh(l, Tail(s))' /\ Fresh(l, t)'
    BY <1>4, <1>5, <2>1 DEF Fresh
  <2>3. Lossless(l)' => \A k \in made'[l] : k > taken'[l] =>
                          Carries(l, Tail(s), k) \/ Carries(l, t, k)
    BY <1>4, <1>5, <1>7, <1>9, <2>1
  <2> QED
    BY <1>3, <1>4, <1>5, <2>2, <2>3 DEF LinkInv
<1> QED
  BY <1>8, <1>9

\* l[1] has a batch of new messages, and had none.
LEMMA LinkMakes ==
  ASSUME NEW l \in Link, LinkInv(l), TypeOK, NumbersKnown,
         NEW batch \in Seq(Node \ {l[1]}), out_messages[l[1]] = << >>,
         out_messages'[l[1]] = Messages(l[1], batch), channel'[l[2]] = channel[l[2]],
         made'[l] = made[l] \cup NumbersFor(l, batch), taken'[l] = taken[l],
         cut' = cut, at'[l[2]] = at[l[2]]
  PROVE  LinkInv(l)'
<1>1. PICK s \in Seq(Message) : s = channel[l[2]]
  BY OppositeLink DEF TypeOK
<1>2. PICK t : t = Messages(l[1], batch)
  OBVIOUS
<1>3. PICK n \in Nat : n = numbered[l[1]]
  BY OppositeLink DEF TypeOK
<1>4. DOMAIN t = DOMAIN batch /\ DOMAIN batch \subseteq Nat \ {0}
      /\ \A i \in DOMAIN t : t[i] = [from |-> l[1], to |-> batch[i], number |-> n + i]
  BY <1>2, <1>3 DEF Messages
<1>5. /\ Ordered(l, s) /\ Fresh(l, s)
      /\ Lossless(l) => \A k \in made[l] : k > taken[l] => Carries(l, s, k)
  BY <1>1 DEF LinkInv, Carries
<1>6. made[l] \subseteq Nat /\ taken[l] \in Nat /\ taken[l] <= n /\ \A k \in made[l] : k <= n
  BY <1>3 DEF TypeOK, NumbersKnown
<1>7. Ordered(l, t)
  BY <1>4 DEF Ordered
<1>8. Before(l, s, t)
  BY <1>4, <1>5, <1>6 DEF Before, Fresh
<1>9. \A i \in DOMAIN t : On(l, t[i]) => n + i \in NumbersFor(l, batch)
  BY <1>3, <1>4 DEF NumbersFor, On
<1>10. Fresh(l, s)' /\ Fresh(l, t)'
  BY <1>4, <1>5, <1>6, <1>9 DEF Fresh
<1>11. \A k \in NumbersFor(l, batch) : Carries(l, t, k)
  <2> SUFFICES ASSUME NEW k \in NumbersFor(l, batch) PROVE Carries(l, t, k)
    OBVIOUS
  <2>1. PICK i \in DOMAIN batch : batch[i] = l[2] /\ k = n + i
    BY <1>3 DEF NumbersFor
  <2>2. i \in DOMAIN t /\ t[i].from = l[1] /\ t[i].to = l[2] /\ t[i].number = k
    BY <1>4, <2>1
  <2> QED
    BY <2>2 DEF Carries, On
<1>12. Lossless(l)' => \A k \in made'[l] : k > taken'[l] => Carries(l, s, k) \/ Carries(l, t, k)
  BY <1>5, <1>11 DEF Lossless
<1> QED
  BY <1>1, <1>2, <1>5, <1>7, <1>8, <1>10, <1>12 DEF LinkInv

LEMMA ReceiveKeepsOrder ==
  ASSUME TypeOK, OrderInv, NEW n \in Node, Receive(n)
  PROVE  OrderInv'
<1> DEFINE msg == Head(channel[n])
<1> USE DEF links, sent
<1>1. /\ channel[n] \in Seq(Message) /\ channel[n] # << >> /\ out_messages[n] = << >>
      /\ at[n] = "selecting" /\ n \in Node
  BY DEF Receive, TypeOK
<1>2. /\ channel' = [channel EXCEPT ![n] = Tail(@)]
      /\ out_messages' = [out_messages EXCEPT ![n] = << >>]
      /\ taken' = [taken EXCEPT ![<<msg.from, n>>] = msg.number]
      /\ UNCHANGED <<made, numbered, cut, connections>>
      /\ at' = [at EXCEPT ![n] = IF n \in is_running THEN "selecting" ELSE "ended"]
  BY DEF Receive, Goes
<1>3. out_messages' = out_messages
  BY <1>1, <1>2 DEF TypeOK
<1>4. msg = channel[n][1] /\ 1 \in DOMAIN channel[n]
      /\ \A i \in DOMAIN Tail(channel[n]) :
           i + 1 \in DOMAIN channel[n] /\ Tail(channel[n])[i] = channel[n][i + 1]
  BY <1>1, TailProperties
<1>5. msg.to = n /\ <<msg.from, n>> \in Link
  BY <1>4 DEF OrderInv, Addressed, Incoming
<1>6. ASSUME NEW l \in Link PROVE LinkInv(l)'
  <2>1. l[1] \in Node /\ l[2] \in Node /\ LinkInv(l) /\ l = <<l[1], l[2]>>
    BY OppositeLink DEF OrderInv
  <2>2. On(l, msg) <=> l = <<msg.from, n>>
    BY <1>5, <2>1 DEF On
  <2>3. IF On(l, msg) THEN taken'[l] = msg.number ELSE taken'[l] = taken[l]
    BY <1>2, <2>2 DEF TypeOK
  <2>4. CASE l[2] = n
    <3>1. channel'[l[2]] = Tail(channel[l[2]])
      BY <1>2, <2>1, <2>4 DEF TypeOK
    <3> QED
      BY <1>1, <1>2, <1>3, <2>1, <2>3, <2>4, <3>1, LinkReceives
  <2>5. CASE l[2] # n
    <3>1. ~On(l, msg) /\ channel'[l[2]] = channel[l[2]] /\ at'[l[2]] = at[l[2]]
      BY <1>2, <1>5, <2>1, <2>5 DEF TypeOK, On
    <3> QED
      BY <1>2, <1>3, <2>1, <2>3, <3>1, LinkUntouched
  <2> QED
    BY <2>4, <2>5
<1>7. Addressed'
  <2>1. Incoming(n, Tail(channel[n]))
    BY <1>1, AddressesKept DEF OrderInv, Addressed
  <2> QED
    BY <1>2, <1>3, <2>1 DEF OrderInv, Addressed, TypeOK, Incoming, Outgoing
<1>8. NumbersKnown'
  <2>1. msg.number \in made[<<msg.from, n>>]
    <3>1. LinkInv(<<msg.from, n>>) /\ On(<<msg.from, n>>, channel[n][1])
      BY <1>4, <1>5 DEF OrderInv, On
    <3> QED
      BY <1>4, <3>1 DEF LinkInv, Fresh
  <2> QED
    BY <1>2, <1>5, <2>1 DEF OrderInv, NumbersKnown, TypeOK
<1>9. CutKnown'
  BY <1>2 DEF OrderInv, CutKnown, Connected
<1> QED
  BY <1>6, <1>7, <1>8, <1>9 DEF OrderInv

LEMMA PollKeepsOrder ==
  ASSUME TypeOK, OrderInv, NEW n \in Node, Poll(n)
  PROVE  OrderInv'
<1> USE DEF links, sent
<1>1. PICK batch \in SeqOf(Node \ {n}, MaxMessages - NumberedInAll) :
        /\ numbered' = [numbered EXCEPT ![n] = @ + Len(batch)]
        /\ made' = [l \in Link |-> made[l] \cup IF l[1] = n THEN NumbersFor(l, batch) ELSE {}]
        /\ Goes(n, Messages(n, batch))
  BY DEF Poll
<1>2. batch \in Seq(Node \ {n}) /\ DOMAIN batch = 1 .. Len(batch) /\ Len(batch) \in Nat
      /\ \A i \in DOMAIN batch : batch[i] \in Node \ {n}
  <2>1. batch \in Seq(Node \ {n})
    BY BatchType, Zenon
  <2> QED
    BY <2>1
<1>3. out_messages[n] = << >> /\ at[n] = "selecting"
  BY DEF Poll, TypeOK
<1>4. /\ UNCHANGED <<channel, taken, cut, connections>>
      /\ out_messages' = [out_messages EXCEPT ![n] = Messages(n, batch)]
      /\ at'[n] # "ended" => at[n] # "ended"
      /\ \A m \in Node \ {n} : at'[m] = at[m]
  BY <1>1, <1>3 DEF Poll, Goes, TypeOK
<1>5. ASSUME NEW l \in Link PROVE LinkInv(l)'
  <2>1. l[1] \in Node /\ l[2] \in Node /\ l[1] # l[2] /\ LinkInv(l)
    BY OppositeLink DEF OrderInv
  <2>2. CASE l[1] = n
    <3>1. made'[l] = made[l] \cup NumbersFor(l, batch) /\ at'[l[2]] = at[l[2]]
          /\ out_messages'[l[1]] = Messages(l[1], batch)
      BY <1>1, <1>4, <2>1, <2>2 DEF TypeOK
    <3> QED
      BY <1>2, <1>3, <1>4, <2>1, <2>2, <3>1, LinkMakes DEF OrderInv
  <2>3. CASE l[1] # n
    <3>1. made'[l] = made[l] /\ out_messages'[l[1]] = out_messages[l[1]]
      BY <1>1, <1>4, <2>1, <2>3 DEF TypeOK
    <3>2. at[l[2]] = "ended" => at'[l[2]] = "ended"
      BY <1>3, <1>4, <2>1
    <3> QED
      BY <1>4, <2>1, <3>1, <3>2, LinkUntouched
  <2> QED
    BY <2>2, <2>3
<1>6. Addressed'
  <2>1. \A i \in DOMAIN batch : <<n, batch[i]>> \in Link
    BY <1>2 DEF Link
  <2>2. Outgoing(n, Messages(n, batch))
    BY <2>1 DEF Messages, Outgoing
  <2> QED
    BY <1>4, <2>2 DEF OrderInv, Addressed, TypeOK, Incoming, Outgoing
<1>7. NumbersKnown'
  <2> SUFFICES ASSUME NEW l \in Link
               PROVE  /\ \A k \in made'[l] : k <= numbered'[l[1]]
                      /\ taken'[l] <= numbered'[l[1]]
    BY DEF NumbersKnown
  <2>1. l[1] \in Node /\ numbered[l[1]] \in Nat /\ taken[l] \in Nat /\ made[l] \subseteq Nat
        /\ (\A k \in made[l] : k <= numbered[l[1]]) /\ taken[l] <= numbered[l[1]]
    BY OppositeLink DEF TypeOK, OrderInv, NumbersKnown
  <2>2. CASE l[1] = n
    <3>1. numbered'[l[1]] = numbered[l[1]] + Len(batch) /\ made'[l] = made[l] \cup NumbersFor(l, batch)
      BY <1>1, <2>1, <2>2 DEF TypeOK
    <3>2. \A k \in NumbersFor(l, batch) : k <= numbered[l[1]] + Len(batch)
      BY <1>2, <2>1 DEF NumbersFor
    <3>3. \A k \in made[l] : k <= numbered[l[1]] + Len(batch)
      BY <1>2, <2>1
    <3> QED
      BY <1>2, <1>4, <2>1, <3>1, <3>2, <3>3
  <2>3. CASE l[1] # n
    BY <1>1, <1>4, <2>1, <2>3 DEF TypeOK
  <2> QED
    BY <2>2, <2>3
<1>8. CutKnown'
  BY <1>4 DEF OrderInv, CutKnown, Connected
<1> QED
  BY <1>5, <1>6, <1>7, <1>8 DEF OrderInv

LEMMA LookUpKeepsOrder ==
  ASSUME TypeOK, OrderInv, NEW n \in Node, LookUp(n)
  PROVE  OrderInv'
<1> DEFINE msg == Head(out_messages[n])
<1> USE DEF links, sent
<1>1. /\ out_messages[n] \in Seq(Message) /\ out_messages[n] # << >> /\ at[n] = "looking"
      /\ UNCHANGED <<channel, taken, made, numbered, cut, connections>>
      /\ at'[n] # "ended" => at[n] # "ended"
      /\ \A m \in Node \ {n} : at'[m] = at[m]
  BY DEF LookUp, Goes, TypeOK
<1>2. out_messages' = out_messages
      \/ /\ Receiver(n) \notin connections[n]
         /\ out_messages' = [out_messages EXCEPT ![n] = Tail(@)]
  BY DEF LookUp, Goes
<1>3. msg = out_messages[n][1] /\ 1 \in DOMAIN out_messages[n]
      /\ \A i \in DOMAIN Tail(out_messages[n]) :
           i + 1 \in DOMAIN out_messages[n] /\ Tail(out_messages[n])[i] = out_messages[n][i + 1]
  BY <1>1, TailProperties
<1>4. ASSUME NEW l \in Link PROVE LinkInv(l)'
  <2>1. l[1] \in Node /\ l[2] \in Node /\ LinkInv(l)
    BY OppositeLink DEF OrderInv
  <2>2. at[l[2]] = "ended" => at'[l[2]] = "ended"
    BY <1>1, <2>1
  <2>3. CASE l[1] = n /\ out_messages' # out_messages
    <3>1. out_messages'[l[1]] = Tail(out_messages[l[1]]) /\ l[2] # n
      BY <1>2, <2>3, OppositeLink DEF TypeOK
    <3>2. On(l, msg) => ~Lossless(l)
      BY <1>2, <2>1, <2>3 DEF On, Lossless, OrderInv, CutKnown, Connected, Receiver
    <3>3. at'[l[2]] = at[l[2]]
      BY <1>1, <2>1, <3>1
    <3> QED
      BY <1>1, <2>1, <2>3, <3>1, <3>2, <3>3, LinkSkips
  <2>4. CASE ~(l[1] = n /\ out_messages' # out_messages)
    <3>1. out_messages'[l[1]] = out_messages[l[1]]
      BY <1>2, <2>1, <2>4 DEF TypeOK
    <3> QED
      BY <1>1, <2>1, <2>2, <3>1, LinkUntouched
  <2> QED
    BY <2>3, <2>4
<1>5. Addressed'
  <2>1. Outgoing(n, Tail(out_messages[n]))
    BY <1>1, AddressesKept DEF OrderInv, Addressed
  <2>2. ASSUME NEW m \in Node PROVE Incoming(m, channel'[m]) /\ Outgoing(m, out_messages'[m])
    <3>1. out_messages'[m] = out_messages[m] \/ (m = n /\ out_messages'[m] = Tail(out_messages[m]))
      BY <1>2 DEF TypeOK
    <3>2. channel'[m] = channel[m]
      BY <1>1
    <3> QED
      BY <2>1, <3>1, <3>2 DEF OrderInv, Addressed
  <2> QED
    BY <2>2 DEF Addressed, Incoming, Outgoing
<1>6. NumbersKnown' /\ CutKnown'
  BY <1>1 DEF OrderInv, NumbersKnown, CutKnown, Connected
<1> QED
  BY <1>4, <1>5, <1>6 DEF OrderInv

LEMMA SendKeepsOrder ==
  ASSUME TypeOK, OrderInv, NEW n \in Node, Send(n)
  PROVE  OrderInv'
<1> DEFINE msg == Head(out_messages[n])
<1> DEFINE p == Receiver(n)
<1> USE DEF links, sent
<1>1. /\ out_messages[n] \in Seq(Message) /\ out_messages[n] # << >> /\ at[n] = "sending"
      /\ UNCHANGED <<taken, made, numbered, cut, connections>>
      /\ out_messages' = [out_messages EXCEPT ![n] = Tail(@)]
      /\ at'[n] # "ended" => at[n] # "ended"
      /\ \A m \in Node \ {n} : at'[m] = at[m]
  BY DEF Send, Goes, TypeOK
<1>2. \/ at[p] = "ended" /\ channel' = channel
      \/ at[p] # "ended" /\ channel' = [channel EXCEPT ![p] = Append(@, msg)]
  BY DEF Send
<1>3. msg = out_messages[n][1] /\ 1 \in DOMAIN out_messages[n] /\ msg \in Message
      /\ \A i \in DOMAIN Tail(out_messages[n]) :
           i + 1 \in DOMAIN out_messages[n] /\ Tail(out_messages[n])[i] = out_messages[n][i + 1]
  BY <1>1, TailProperties
<1>4. msg.from = n /\ msg.to = p /\ <<n, p>> \in Link /\ p \in Node /\ p # n
  BY <1>3, OppositeLink DEF OrderInv, Addressed, Outgoing, Receiver, Link
<1>5. ASSUME NEW l \in Link PROVE LinkInv(l)'
  <2>1. l[1] \in Node /\ l[2] \in Node /\ l[1] # l[2] /\ LinkInv(l)
    BY OppositeLink DEF OrderInv
  <2>2. at[l[2]] = "ended" => at'[l[2]] = "ended"
    BY <1>1, <2>1
  <2>3. CASE l[1] = n /\ (l[2] # p \/ at[p] = "ended")
    <3>1. channel'[l[2]] = channel[l[2]] /\ out_messages'[l[1]] = Tail(out_messages[l[1]])
          /\ at'[l[2]] = at[l[2]]
      BY <1>1, <1>2, <1>4, <2>1, <2>3 DEF TypeOK
    <3>2. On(l, msg) => ~Lossless(l)
      BY <1>4, <2>3 DEF On, Lossless
    <3> QED
      BY <1>1, <2>1, <2>3, <3>1, <3>2, LinkSkips
  <2>4. CASE l[1] = n /\ l[2] = p /\ at[p] # "ended"
    <3>1. channel'[l[2]] = Append(channel[l[2]], msg) /\ out_messages'[l[1]] = Tail(out_messages[l[1]])
          /\ at'[l[2]] = at[l[2]]
      BY <1>1, <1>2, <1>4, <2>4 DEF TypeOK
    <3> QED
      BY <1>1, <2>1, <2>4, <3>1, LinkDelivers
  <2>5. CASE l[1] # n /\ l[2] = p /\ at[p] # "ended"
    <3>1. channel'[l[2]] = Append(channel[l[2]], msg) /\ out_messages'[l[1]] = out_messages[l[1]]
          /\ at'[l[2]] = at[l[2]]
      BY <1>1, <1>2, <1>4, <2>1, <2>5 DEF TypeOK
    <3>2. ~On(l, msg)
      BY <1>4, <2>5 DEF On
    <3> QED
      BY <1>1, <1>3, <2>1, <3>1, <3>2, LinkPassed
  <2>6. CASE l[1] # n /\ (l[2] # p \/ at[p] = "ended")
    <3>1. channel'[l[2]] = channel[l[2]] /\ out_messages'[l[1]] = out_messages[l[1]]
      BY <1>1, <1>2, <1>4, <2>1, <2>6 DEF TypeOK
    <3> QED
      BY <1>1, <2>1, <2>2, <3>1, LinkUntouched
  <2> QED
    BY <2>3, <2>4, <2>5, <2>6
<1>6. Addressed'
  <2>1. Outgoing(n, Tail(out_messages[n]))
    BY <1>1, AddressesKept DEF OrderInv, Addressed
  <2>2. Incoming(p, Append(channel[p], msg))
    BY <1>3, <1>4, AddressesKept DEF OrderInv, Addressed, TypeOK
  <2>3. ASSUME NEW m \in Node PROVE Incoming(m, channel'[m]) /\ Outgoing(m, out_messages'[m])
    <3>1. out_messages'[m] = out_messages[m] \/ (m = n /\ out_messages'[m] = Tail(out_messages[m]))
      BY <1>1 DEF TypeOK
    <3>2. channel'[m] = channel[m] \/ (m = p /\ channel'[m] = Append(channel[m], msg))
      BY <1>2 DEF TypeOK
    <3> QED
      BY <2>1, <2>2, <3>1, <3>2 DEF OrderInv, Addressed
  <2> QED
    BY <2>3 DEF Addressed, Incoming, Outgoing
<1>7. NumbersKnown' /\ CutKnown'
  BY <1>1 DEF OrderInv, NumbersKnown, CutKnown, Connected
<1> QED
  BY <1>5, <1>6, <1>7 DEF OrderInv

\* The controller and whoever stops a node leave every message where it is.
LEMMA OthersKeepOrder ==
  ASSUME TypeOK, OrderInv, Controller \/ UNCHANGED vars \/ \E n \in Node : Stop(n)
  PROVE  OrderInv'
<1> USE DEF vars, others, runners, links, call, sent
<1>1. UNCHANGED <<at, channel, out_messages, numbered, made, taken>>
  BY DEF Controller, DeleteConnections, DeleteStep, RemoveConnection, SaveConnection,
         ReconnectNodes, CloneDisconnected, InsertConnection, ClearDisconnected, Stop
<1>2. cut \subseteq cut' /\ CutKnown'
  <2>1. CASE DeleteStep
    <3>1. pair \in Link /\ <<pair[1], pair[2]>> \in Link /\ <<pair[2], pair[1]>> \in Link
      <4>1. pair \in Link
        BY <2>1 DEF DeleteStep, TypeOK, Deleting
      <4> QED
        BY <4>1, OppositeLink DEF Opposite
    <3>2. ASSUME NEW l \in Link, RemoveConnection(l[1], l[2]) PROVE cut \subseteq cut' /\ CutKnown'
      <4>1. cut' = cut \cup {l}
        BY <3>2, OppositeLink DEF RemoveConnection
      <4> QED
        BY <3>2, <4>1, RemoveChanges DEF OrderInv, CutKnown
    <3>3. ASSUME NEW a, NEW b, SaveConnection(a, b) PROVE cut \subseteq cut' /\ CutKnown'
      BY <3>3 DEF SaveConnection, OrderInv, CutKnown, Connected
    <3> QED
      BY <2>1, <3>1, <3>2, <3>3 DEF DeleteStep
  <2>2. ASSUME NEW p \in Node, InsertConnection(p) PROVE cut \subseteq cut' /\ CutKnown'
    BY <2>2 DEF InsertConnection, OrderInv, CutKnown, Connected, TypeOK, Link, Deleting
  <2>3. CASE UNCHANGED <<cut, connections>>
    BY <2>3 DEF OrderInv, CutKnown, Connected
  <2> QED
    BY <2>1, <2>2, <2>3
    DEF Controller, DeleteConnections, ReconnectNodes, CloneDisconnected, ClearDisconnected, Stop
<1>3. \A l \in Link : LinkInv(l)'
  BY <1>1, <1>2, LinkUntouched DEF OrderInv
<1>4. Addressed' /\ NumbersKnown'
  BY <1>1 DEF OrderInv, Addressed, Incoming, Outgoing, NumbersKnown
<1> QED
  BY <1>2, <1>3, <1>4 DEF OrderInv
(***************************************************************************)
(* What omnipaxos is told of a link comes in order and at most once, and   *)
(* nothing is lost between running nodes whose connection was never        *)
(* deleted. The channel and what is left to send keep this one by one, as  *)
(* the first of what is left is newer than all that is in the channel.     *)
(***************************************************************************)
THEOREM OrderCorrect == Spec => []LinksKeepOrder
<1>1. Init => OrderInv
  BY DEF Init, OrderInv, Addressed, Incoming, Outgoing, NumbersKnown, CutKnown, Connected,
         LinkInv, Ordered, Before, Fresh, Carries, Lossless, Link
<1>2. TypeOK /\ OrderInv /\ [Next]_vars => OrderInv'
  BY ReceiveKeepsOrder, PollKeepsOrder, LookUpKeepsOrder, SendKeepsOrder, OthersKeepOrder
  DEF Next, Runner
<1>3. ASSUME TypeOK, OrderInv PROVE LinksKeepOrder
  <2> SUFFICES ASSUME NEW l \in Link
      PROVE  LET msgs == UnderWay(l)
                 mine == {i \in DOMAIN msgs : On(l, msgs[i])}
             IN  /\ \A i, j \in mine : i < j => msgs[i].number < msgs[j].number
                 /\ \A i \in mine : msgs[i].number \in made[l] /\ msgs[i].number > taken[l]
                 /\ l \notin cut /\ at[l[2]] # "ended" =>
                      \A k \in made[l] : k > taken[l] => \E i \in mine : msgs[i].number = k
    BY DEF LinksKeepOrder
  <2>1. PICK s \in Seq(Message), t \in Seq(Message) : s = channel[l[2]] /\ t = out_messages[l[1]]
    BY <1>3, OppositeLink DEF TypeOK
  <2> DEFINE msgs == s \o t
  <2>2. /\ DOMAIN s = 1 .. Len(s) /\ DOMAIN t = 1 .. Len(t) /\ Len(s) \in Nat /\ Len(t) \in Nat
        /\ DOMAIN msgs = 1 .. Len(s) + Len(t)
        /\ \A i \in 1 .. Len(s) + Len(t) : msgs[i] = IF i <= Len(s) THEN s[i] ELSE t[i - Len(s)]
    OBVIOUS
  <2>3. UnderWay(l) = msgs
    BY <2>1 DEF UnderWay
  <2>4. /\ Ordered(l, s) /\ Ordered(l, t) /\ Before(l, s, t) /\ Fresh(l, s) /\ Fresh(l, t)
        /\ Lossless(l) => \A k \in made[l] : k > taken[l] => Carries(l, s, k) \/ Carries(l, t, k)
    BY <1>3, <2>1 DEF OrderInv, LinkInv
  <2>5. ASSUME NEW i \in DOMAIN msgs
        PROVE  \/ i \in DOMAIN s /\ msgs[i] = s[i]
               \/ i > Len(s) /\ i - Len(s) \in DOMAIN t /\ msgs[i] = t[i - Len(s)]
    BY <2>2
  <2>6. /\ \A i \in DOMAIN s : i \in DOMAIN msgs /\ msgs[i] = s[i]
        /\ \A i \in DOMAIN t : Len(s) + i \in DOMAIN msgs /\ msgs[Len(s) + i] = t[i]
    BY <2>2
  <2> HIDE DEF msgs
  <2>7. ASSUME NEW i \in DOMAIN msgs, NEW j \in DOMAIN msgs, i < j,
               On(l, msgs[i]), On(l, msgs[j])
        PROVE  msgs[i].number < msgs[j].number
    <3>1. CASE j \in DOMAIN s /\ msgs[j] = s[j]
      <4>1. i \in DOMAIN s /\ msgs[i] = s[i]
        BY <2>2, <2>5, <2>7, <3>1
      <4> QED
        BY <2>4, <2>7, <3>1, <4>1 DEF Ordered
    <3>2. CASE j > Len(s) /\ j - Len(s) \in DOMAIN t /\ msgs[j] = t[j - Len(s)]
      <4>1. CASE i \in DOMAIN s /\ msgs[i] = s[i]
        BY <2>4, <2>7, <3>2, <4>1 DEF Before
      <4>2. CASE i > Len(s) /\ i - Len(s) \in DOMAIN t /\ msgs[i] = t[i - Len(s)]
        <5>1. i - Len(s) < j - Len(s)
          BY <2>2, <2>7
        <5> QED
          BY <2>4, <2>7, <3>2, <4>2, <5>1 DEF Ordered
      <4> QED
        BY <2>5, <4>1, <4>2
    <3> QED
      BY <2>5, <3>1, <3>2
  <2>8. ASSUME NEW i \in DOMAIN msgs, On(l, msgs[i])
        PROVE  msgs[i].number \in made[l] /\ msgs[i].number > taken[l]
    BY <2>4, <2>5, <2>8 DEF Fresh
  <2>9. ASSUME Lossless(l), NEW k \in made[l], k > taken[l]
        PROVE  \E i \in DOMAIN msgs : On(l, msgs[i]) /\ msgs[i].number = k
    BY <2>4, <2>6, <2>9 DEF Carries
  <2> QED
    BY <2>3, <2>7, <2>8, <2>9 DEF Lossless
<1> QED
  BY <1>1, <1>2, <1>3, TypeCorrect, PTL DEF Spec
=============================================================================
