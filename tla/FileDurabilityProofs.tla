------------------------- MODULE FileDurabilityProofs -------------------------
(***************************************************************************)
(* The file log with channels of any size and any number of transactions.  *)
(***************************************************************************)
EXTENDS FileDurability, TLAPS

-----------------------------------------------------------------------------
(* Types. *)

LEMMA AssumedBounds ==
  /\ ChannelSize \in Nat /\ 0 < ChannelSize /\ MaxAppends \in Nat /\ 0 < MaxAppends
  /\ MaxRestarts \in Nat /\ 0 \in Offset /\ NoOffset \notin Offset /\ Hole \notin Offset
BY ChannelSizeAssumption, BoundsAssumption DEF Offset, NoOffset, Hole

\* One writer changes, and the others do not.
LEMMA WriterChanges ==
  ASSUME TypeOK, NEW w \in DOMAIN writers, NEW r \in Writer,
         writers' = [writers EXCEPT ![w] = r]
  PROVE  /\ writers' \in Seq(Writer) /\ Len(writers') = Len(writers)
         /\ DOMAIN writers' = DOMAIN writers
         /\ writers'[w] = r
         /\ \A v \in DOMAIN writers : v # w => writers'[v] = writers[v]
<1>1. writers \in Seq(Writer) /\ DOMAIN writers = 1 .. Len(writers) /\ Len(writers) \in Nat
  BY DEF TypeOK
<1>2. writers' \in [1 .. Len(writers) -> Writer]
  BY <1>1
<1> QED
  BY <1>1, <1>2

\* A writer is spawned.
LEMMA WriterSpawned ==
  ASSUME TypeOK, writers' = Append(writers, NewWriter)
  PROVE  /\ writers' \in Seq(Writer) /\ Len(writers') = Len(writers) + 1 /\ Len(writers) \in Nat
         /\ DOMAIN writers = 1 .. Len(writers) /\ DOMAIN writers' = 1 .. Len(writers) + 1
         /\ \A v \in DOMAIN writers : v \in DOMAIN writers' /\ writers'[v] = writers[v]
         /\ writers'[Len(writers) + 1] = NewWriter
<1>1. writers \in Seq(Writer)
  BY DEF TypeOK
<1>2. NewWriter \in Writer
  BY DEF NewWriter, Writer, Status
<1> QED
  BY <1>1, <1>2

LEMMA QueueType ==
  ASSUME TypeOK, NEW w \in DOMAIN writers
  PROVE  /\ writers[w] \in Writer
         /\ writers[w].queue \in Seq(Offset) /\ writers[w].acks \in Seq(Offset)
         /\ writers[w].status \in Status /\ writers[w].cursor \in Nat
         /\ writers[w].holds \in Offset \cup {NoOffset} /\ writers[w].forwarding \in BOOLEAN
<1>1. writers[w] \in Writer
  BY DEF TypeOK
<1> QED
  BY <1>1 DEF Writer

\* A step changes one writer, to another.
Changed(w) == writers'[w] \in Writer /\ writers' = [writers EXCEPT ![w] = writers'[w]]

LEMMA ChangedTo ==
  ASSUME TypeOK, NEW w \in DOMAIN writers, NEW r \in Writer, writers' = [writers EXCEPT ![w] = r]
  PROVE  Changed(w) /\ writers'[w] = r
<1>1. writers'[w] = r
  BY WriterChanges
<1> QED
  BY <1>1 DEF Changed

LEMMA PutType ==
  ASSUME TypeOK, NEW o \in Offset, NEW p \in Nat
  PROVE  /\ Put(o, p + 1) \in Seq(Offset \cup {Hole})
         /\ DOMAIN Put(o, p + 1) = 1 .. (IF p + 1 > Len(file) THEN p + 1 ELSE Len(file))
         /\ \A i \in DOMAIN Put(o, p + 1) :
              \/ i = p + 1 /\ Put(o, p + 1)[i] = o
              \/ i # p + 1 /\ i \in DOMAIN file /\ Put(o, p + 1)[i] = file[i]
              \/ i # p + 1 /\ Put(o, p + 1)[i] = Hole
<1>1. file \in Seq(Offset \cup {Hole}) /\ Len(file) \in Nat /\ DOMAIN file = 1 .. Len(file)
  BY DEF TypeOK
<1> DEFINE n == IF p + 1 > Len(file) THEN p + 1 ELSE Len(file)
<1>2. n \in Nat
  BY <1>1
<1>3. Put(o, p + 1) = [i \in 1 .. n |-> IF i = p + 1 THEN o
                                       ELSE IF i <= Len(file) THEN file[i] ELSE Hole]
  BY DEF Put
<1> HIDE DEF n
<1>4. ASSUME NEW i \in 1 .. n
      PROVE  (IF i = p + 1 THEN o ELSE IF i <= Len(file) THEN file[i] ELSE Hole)
               \in Offset \cup {Hole}
  <2>1. CASE i <= Len(file)
    <3>1. file[i] \in Offset \cup {Hole}
      BY <1>1, <2>1
    <3> QED
      BY <2>1, <3>1
  <2> QED
    BY <2>1
<1>5. Put(o, p + 1) \in [1 .. n -> Offset \cup {Hole}]
  BY <1>2, <1>3, <1>4
<1>6. Put(o, p + 1) \in Seq(Offset \cup {Hole}) /\ DOMAIN Put(o, p + 1) = 1 .. n
  BY <1>2, <1>5
<1>7. ASSUME NEW i \in 1 .. n
      PROVE  \/ i = p + 1 /\ Put(o, p + 1)[i] = o
             \/ i # p + 1 /\ i \in DOMAIN file /\ Put(o, p + 1)[i] = file[i]
             \/ i # p + 1 /\ Put(o, p + 1)[i] = Hole
  BY <1>1, <1>2, <1>3
<1> QED
  BY <1>6, <1>7 DEF n

\* The writer that each action changes.
LEMMA SendWriter ==
  ASSUME TypeOK, NEW task \in sending, Send(task)
  PROVE  LET w == task.to IN
         /\ w \in DOMAIN writers /\ task.offset \in Offset /\ Changed(w)
         /\ writers'[w].queue = (IF writers[w].status = "dead" THEN writers[w].queue
                                 ELSE Append(writers[w].queue, task.offset))
         /\ Len(writers'[w].queue) <= ChannelSize
         /\ writers'[w].status = writers[w].status /\ writers'[w].cursor = writers[w].cursor
         /\ writers'[w].holds = writers[w].holds /\ writers'[w].acks = writers[w].acks
         /\ writers'[w].forwarding = writers[w].forwarding
<1> USE AssumedBounds
<1>1. task.to \in DOMAIN writers /\ task.offset \in Offset
  BY DEF TypeOK
<1> DEFINE w == task.to
           q == IF writers[w].status = "dead" THEN writers[w].queue
                ELSE Append(writers[w].queue, task.offset)
           r == [writers[w] EXCEPT !.queue = q]
<1>2. writers' = [writers EXCEPT ![w] = r] /\ Len(writers[w].queue) < ChannelSize
  BY <1>1 DEF Send
<1>3. writers[w].queue \in Seq(Offset) /\ writers[w] \in Writer
  BY <1>1, QueueType
<1>4. q \in Seq(Offset) /\ Len(q) <= ChannelSize
  BY <1>1, <1>2, <1>3
<1> HIDE DEF q
<1>5. /\ r \in Writer /\ r.queue = q /\ r.status = writers[w].status
      /\ r.cursor = writers[w].cursor /\ r.holds = writers[w].holds
      /\ r.acks = writers[w].acks /\ r.forwarding = writers[w].forwarding
  BY <1>3, <1>4 DEF Writer
<1> HIDE DEF r
<1>6. Changed(w) /\ writers'[w] = r
  BY <1>1, <1>2, <1>5, ChangedTo
<1> QED
  BY <1>1, <1>4, <1>5, <1>6 DEF q

LEMMA CreateWriter ==
  ASSUME TypeOK, NEW w \in DOMAIN writers, CreateFile(w)
  PROVE  /\ Changed(w)
         /\ writers'[w].status = "waiting" /\ writers[w].status = "starting"
         /\ writers'[w].queue = writers[w].queue /\ writers'[w].cursor = writers[w].cursor
         /\ writers'[w].holds = writers[w].holds /\ writers'[w].acks = writers[w].acks
         /\ writers'[w].forwarding = writers[w].forwarding
<1> DEFINE r == [writers[w] EXCEPT !.status = "waiting"]
<1>1. writers' = [writers EXCEPT ![w] = r] /\ writers[w].status = "starting"
  BY DEF CreateFile
<1>2. writers[w] \in Writer /\ "waiting" \in Status
  BY QueueType DEF Status
<1>3. /\ r \in Writer /\ r.status = "waiting" /\ r.queue = writers[w].queue
      /\ r.cursor = writers[w].cursor /\ r.holds = writers[w].holds
      /\ r.acks = writers[w].acks /\ r.forwarding = writers[w].forwarding
  BY <1>2 DEF Writer
<1> HIDE DEF r
<1>4. Changed(w) /\ writers'[w] = r
  BY <1>1, <1>3, ChangedTo
<1> QED
  BY <1>1, <1>3, <1>4

LEMMA WriteWriter ==
  ASSUME TypeOK, NEW w \in DOMAIN writers, WriteEntry(w)
  PROVE  /\ Changed(w) /\ writers[w].queue # << >>
         /\ Head(writers[w].queue) \in Offset /\ writers[w].status = "waiting"
         /\ writers'[w].queue = Tail(writers[w].queue) /\ writers'[w].queue \in Seq(Offset)
         /\ Len(writers'[w].queue) = Len(writers[w].queue) - 1
         /\ \A i \in 1 .. Len(writers'[w].queue) : writers'[w].queue[i] = writers[w].queue[i + 1]
         /\ writers'[w].status = "holding" /\ writers'[w].holds = Head(writers[w].queue)
         /\ writers'[w].cursor = writers[w].cursor + 1
         /\ writers'[w].acks = writers[w].acks
         /\ writers'[w].forwarding = writers[w].forwarding
<1> USE AssumedBounds
<1> DEFINE o == Head(writers[w].queue)  q == Tail(writers[w].queue)
           c == writers[w].cursor + 1
           r == [writers[w] EXCEPT !.status = "holding", !.cursor = c, !.queue = q, !.holds = o]
<1>1. writers' = [writers EXCEPT ![w] = r] /\ writers[w].queue # << >>
      /\ writers[w].status = "waiting"
  BY DEF WriteEntry
<1>2. writers[w] \in Writer /\ writers[w].queue \in Seq(Offset) /\ writers[w].cursor \in Nat
  BY QueueType
<1>3. o \in Offset /\ q \in Seq(Offset) /\ Len(q) = Len(writers[w].queue) - 1
      /\ \A i \in 1 .. Len(q) : q[i] = writers[w].queue[i + 1]
  BY <1>1, <1>2
<1>4. c \in Nat /\ "holding" \in Status
  BY <1>2 DEF Status
<1> HIDE DEF q, c, o
<1>5. [writers[w] EXCEPT !.status = "holding", !.cursor = c] \in Writer
  BY <1>2, <1>4 DEF Writer
<1>6. r \in Writer
  BY <1>3, <1>5 DEF Writer
<1>7. /\ r.status = "holding" /\ r.cursor = c /\ r.queue = q /\ r.holds = o
      /\ r.acks = writers[w].acks /\ r.forwarding = writers[w].forwarding
  BY <1>2 DEF Writer
<1> HIDE DEF r
<1>8. Changed(w) /\ writers'[w] = r
  BY <1>1, <1>6, ChangedTo
<1> QED
  BY <1>1, <1>3, <1>7, <1>8 DEF o, q, c

LEMMA AcknowledgeWriter ==
  ASSUME TypeOK, NEW w \in DOMAIN writers, Acknowledge(w)
  PROVE  /\ Changed(w) /\ writers[w].status = "holding" /\ writers[w].holds \in Offset
         /\ writers'[w].holds = NoOffset /\ writers'[w].cursor = writers[w].cursor
         /\ writers'[w].forwarding = writers[w].forwarding
         /\ IF writers[w].forwarding
            THEN /\ writers'[w].status = "waiting" /\ writers'[w].queue = writers[w].queue
                 /\ writers'[w].acks = Append(writers[w].acks, writers[w].holds)
                 /\ Len(writers'[w].acks) <= ChannelSize
            ELSE /\ writers'[w].status = "dead" /\ writers'[w].queue = << >>
                 /\ writers'[w].acks = writers[w].acks
<1> USE AssumedBounds
<1>1. writers[w] \in Writer /\ writers[w].acks \in Seq(Offset)
      /\ writers[w].holds \in Offset /\ writers[w].status = "holding"
  BY QueueType DEF Acknowledge, TypeOK
<1>2. CASE writers[w].forwarding
  <2> DEFINE a == Append(writers[w].acks, writers[w].holds)
             r == [writers[w] EXCEPT !.status = "waiting", !.holds = NoOffset, !.acks = a]
  <2>1. writers' = [writers EXCEPT ![w] = r] /\ Len(writers[w].acks) < ChannelSize
    BY <1>2 DEF Acknowledge
  <2>2. a \in Seq(Offset) /\ Len(a) <= ChannelSize /\ "waiting" \in Status
    BY <1>1, <2>1 DEF Status
  <2> HIDE DEF a
  <2>3. r \in Writer
    BY <1>1, <2>2 DEF Writer
  <2>4. /\ r.status = "waiting" /\ r.holds = NoOffset /\ r.acks = a
        /\ r.cursor = writers[w].cursor /\ r.queue = writers[w].queue
        /\ r.forwarding = writers[w].forwarding
    BY <1>1 DEF Writer
  <2> HIDE DEF r
  <2>5. Changed(w) /\ writers'[w] = r
    BY <2>1, <2>3, ChangedTo
  <2> QED
    BY <1>1, <1>2, <2>2, <2>4, <2>5 DEF a
<1>3. CASE ~writers[w].forwarding
  <2> DEFINE r == [writers[w] EXCEPT !.status = "dead", !.holds = NoOffset, !.queue = << >>]
  <2>1. writers' = [writers EXCEPT ![w] = r]
    BY <1>3 DEF Acknowledge
  <2>2. << >> \in Seq(Offset) /\ "dead" \in Status
    BY DEF Status
  <2>3. r \in Writer
    BY <1>1, <2>2 DEF Writer
  <2>4. /\ r.status = "dead" /\ r.holds = NoOffset /\ r.queue = << >>
        /\ r.cursor = writers[w].cursor /\ r.acks = writers[w].acks
        /\ r.forwarding = writers[w].forwarding
    BY <1>1 DEF Writer
  <2> HIDE DEF r
  <2>5. Changed(w) /\ writers'[w] = r
    BY <2>1, <2>3, ChangedTo
  <2> QED
    BY <1>1, <1>3, <2>4, <2>5
<1> QED
  BY <1>2, <1>3

LEMMA NoteWriter ==
  ASSUME TypeOK, NEW w \in DOMAIN writers, NoteDurable(w)
  PROVE  /\ Changed(w) /\ writers[w].acks # << >> /\ Head(writers[w].acks) \in Offset
         /\ writers'[w].queue = writers[w].queue /\ writers'[w].status = writers[w].status
         /\ writers'[w].cursor = writers[w].cursor /\ writers'[w].holds = writers[w].holds
         /\ ~poisoned => writers'[w].forwarding = writers[w].forwarding
         /\ writers'[w].acks \in Seq(Offset)
         /\ Len(writers'[w].acks) <= Len(writers[w].acks)
         /\ \A i \in 1 .. Len(writers'[w].acks) :
              i + 1 \in 1 .. Len(writers[w].acks) /\ writers'[w].acks[i] = writers[w].acks[i + 1]
<1> USE AssumedBounds
<1>1. writers[w] \in Writer /\ writers[w].acks \in Seq(Offset) /\ writers[w].acks # << >>
  BY QueueType DEF NoteDurable
<1>2. /\ Head(writers[w].acks) \in Offset /\ Tail(writers[w].acks) \in Seq(Offset)
      /\ Len(Tail(writers[w].acks)) <= Len(writers[w].acks)
      /\ \A i \in 1 .. Len(Tail(writers[w].acks)) :
           i + 1 \in 1 .. Len(writers[w].acks)
           /\ Tail(writers[w].acks)[i] = writers[w].acks[i + 1]
  BY <1>1
<1>3. CASE poisoned
  <2> DEFINE r == [writers[w] EXCEPT !.forwarding = FALSE, !.acks = << >>]
  <2>1. writers' = [writers EXCEPT ![w] = r]
    BY <1>3 DEF NoteDurable
  <2>2. << >> \in Seq(Offset) /\ Len(<< >>) = 0
    OBVIOUS
  <2>3. r \in Writer
    BY <1>1, <2>2 DEF Writer
  <2>4. /\ r.acks = << >> /\ r.status = writers[w].status /\ r.queue = writers[w].queue
        /\ r.cursor = writers[w].cursor /\ r.holds = writers[w].holds
    BY <1>1 DEF Writer
  <2> HIDE DEF r
  <2>5. Changed(w) /\ writers'[w] = r
    BY <2>1, <2>3, ChangedTo
  <2>6. Len(writers[w].acks) \in Nat
    BY <1>1
  <2>7. /\ writers'[w].acks \in Seq(Offset) /\ Len(writers'[w].acks) <= Len(writers[w].acks)
        /\ 1 .. Len(writers'[w].acks) = {}
    <3>1. writers'[w].acks = << >>
      BY <2>4, <2>5
    <3>2. 0 <= Len(writers[w].acks) /\ 1 .. 0 = {}
      BY <2>6
    <3> QED
      BY <2>2, <3>1, <3>2, Zenon
  <2> QED
    BY <1>1, <1>2, <1>3, <2>4, <2>5, <2>7
<1>4. CASE ~poisoned
  <2> DEFINE a == Tail(writers[w].acks)
             r == [writers[w] EXCEPT !.acks = a]
  <2>1. writers' = [writers EXCEPT ![w] = r]
    BY <1>4 DEF NoteDurable
  <2>2. a \in Seq(Offset)
    BY <1>2
  <2> HIDE DEF a
  <2>3. r \in Writer
    BY <1>1, <2>2 DEF Writer
  <2>4. /\ r.acks = a /\ r.status = writers[w].status /\ r.queue = writers[w].queue
        /\ r.cursor = writers[w].cursor /\ r.holds = writers[w].holds
        /\ r.forwarding = writers[w].forwarding
    BY <1>1 DEF Writer
  <2> HIDE DEF r
  <2>5. Changed(w) /\ writers'[w] = r
    BY <2>1, <2>3, ChangedTo
  <2> QED
    BY <1>1, <1>2, <1>4, <2>4, <2>5 DEF a
<1> QED
  BY <1>3, <1>4

\* A step of one writer, and maybe of the file, keeps the types.
LEMMA WriterStepType ==
  ASSUME TypeOK, NEW w \in DOMAIN writers, Changed(w),
         Len(writers'[w].queue) <= ChannelSize, Len(writers'[w].acks) <= ChannelSize,
         writers'[w].status = "holding" <=> writers'[w].holds # NoOffset,
         file' \in Seq(Offset \cup {Hole}), exists' \in BOOLEAN, reported' \subseteq Offset,
         durable_offset' \in Offset \cup {NoOffset}, sending' \subseteq sending,
         UNCHANGED <<tx, poisoned, appended, restarts>>
  PROVE  TypeOK'
<1>1. /\ writers' \in Seq(Writer) /\ Len(writers') = Len(writers)
      /\ DOMAIN writers' = DOMAIN writers
      /\ \A v \in DOMAIN writers : v # w => writers'[v] = writers[v]
  BY WriterChanges DEF Changed
<1>2. \A v \in DOMAIN writers' :
        /\ Len(writers'[v].queue) <= ChannelSize
        /\ Len(writers'[v].acks) <= ChannelSize
        /\ writers'[v].status = "holding" <=> writers'[v].holds # NoOffset
  BY <1>1 DEF TypeOK
<1> QED
  BY <1>1, <1>2 DEF TypeOK

(***************************************************************************)
(* Every variable keeps its type, and no channel of a writer holds more    *)
(* than ChannelSize.                                                       *)
(***************************************************************************)
THEOREM TypeCorrect == Spec => []TypeOK
<1> USE AssumedBounds
<1>1. Init => TypeOK
  <2> SUFFICES ASSUME Init PROVE TypeOK
    OBVIOUS
  <2>1. file \in Seq(Offset \cup {Hole}) /\ writers \in Seq(Writer)
        /\ Len(writers) = 0 /\ DOMAIN writers = {}
    BY DEF Init
  <2>2. tx \in [Handle -> 0 .. Len(writers)]
    BY <2>1 DEF Init
  <2>3. /\ exists \in BOOLEAN /\ sending \subseteq [to : DOMAIN writers, offset : Offset]
        /\ durable_offset \in Offset \cup {NoOffset} /\ poisoned \in BOOLEAN
        /\ reported \subseteq Offset
    BY DEF Init
  <2>4. appended \in 0 .. MaxAppends /\ restarts \in 0 .. MaxRestarts
    BY DEF Init
  <2> QED
    BY <2>1, <2>2, <2>3, <2>4 DEF TypeOK
<1>2. ASSUME TypeOK, [Next]_vars PROVE TypeOK'
  <2>1. ASSUME NEW h \in Handle, AppendTx(h) PROVE TypeOK'
    <3>1. appended < MaxAppends /\ appended \in Offset /\ appended' = appended + 1
          /\ appended' \in 0 .. MaxAppends /\ tx[h] \in 0 .. Len(writers)
          /\ Len(writers) \in Nat /\ DOMAIN writers = 1 .. Len(writers)
      BY <1>2, <2>1 DEF AppendTx, TypeOK, Offset
    <3>2. UNCHANGED <<exists, file, durable_offset, poisoned, reported, restarts>>
      BY <2>1 DEF AppendTx
    <3>3. CASE tx[h] = 0
      <4>1. writers' = Append(writers, NewWriter) /\ tx' = [tx EXCEPT ![h] = Len(writers')]
            /\ sending' = sending \cup {[to |-> tx'[h], offset |-> appended]}
        BY <2>1, <3>3 DEF AppendTx
      <4>2. /\ writers' \in Seq(Writer) /\ Len(writers') = Len(writers) + 1
            /\ DOMAIN writers' = 1 .. Len(writers) + 1
            /\ \A v \in DOMAIN writers : v \in DOMAIN writers' /\ writers'[v] = writers[v]
            /\ writers'[Len(writers) + 1] = NewWriter
        BY <1>2, <4>1, WriterSpawned
      <4>3. \A v \in DOMAIN writers' :
              /\ Len(writers'[v].queue) <= ChannelSize
              /\ Len(writers'[v].acks) <= ChannelSize
              /\ writers'[v].status = "holding" <=> writers'[v].holds # NoOffset
        BY <1>2, <3>1, <4>2 DEF TypeOK, NewWriter
      <4>4. tx' \in [Handle -> 0 .. Len(writers')] /\ tx'[h] \in DOMAIN writers'
        BY <1>2, <3>1, <4>1, <4>2 DEF TypeOK
      <4>5. sending' \subseteq [to : DOMAIN writers', offset : Offset]
        BY <1>2, <3>1, <4>1, <4>2, <4>4 DEF TypeOK
      <4> QED
        BY <1>2, <3>1, <3>2, <4>2, <4>3, <4>4, <4>5 DEF TypeOK
    <3>4. CASE tx[h] # 0
      <4>1. UNCHANGED <<writers, tx>> /\ tx[h] \in DOMAIN writers
            /\ sending' = sending \cup {[to |-> tx[h], offset |-> appended]}
        BY <2>1, <3>1, <3>4 DEF AppendTx
      <4> QED
        BY <1>2, <3>1, <3>2, <4>1 DEF TypeOK
    <3> QED
      BY <3>3, <3>4
  <2>2. ASSUME NEW task \in sending, Send(task) PROVE TypeOK'
    <3>1. /\ sending' \subseteq sending
          /\ UNCHANGED <<exists, file, tx, durable_offset, poisoned, appended, reported, restarts>>
      BY <2>2 DEF Send
    <3> QED
      BY <1>2, <2>2, <3>1, SendWriter, WriterStepType DEF TypeOK
  <2>3. ASSUME NEW w \in DOMAIN writers, CreateFile(w) PROVE TypeOK'
    <3>1. /\ file' \in Seq(Offset \cup {Hole}) /\ exists' \in BOOLEAN
          /\ UNCHANGED <<tx, sending, durable_offset, poisoned, appended, reported, restarts>>
      BY <2>3 DEF CreateFile
    <3> QED
      BY <1>2, <2>3, <3>1, CreateWriter, WriterStepType DEF TypeOK
  <2>4. ASSUME NEW w \in DOMAIN writers, WriteEntry(w) PROVE TypeOK'
    <3>1. /\ file' = Put(Head(writers[w].queue), writers[w].cursor + 1)
          /\ UNCHANGED <<exists, tx, sending, durable_offset, poisoned, appended, reported, restarts>>
      BY <2>4 DEF WriteEntry
    <3>2. Head(writers[w].queue) \in Offset /\ writers[w].cursor \in Nat
      BY <1>2, <2>4, WriteWriter, QueueType
    <3>3. file' \in Seq(Offset \cup {Hole})
      BY <1>2, <3>1, <3>2, PutType
    <3>4. Len(writers'[w].queue) <= ChannelSize
      <4>1. Len(writers[w].queue) <= ChannelSize /\ Len(writers[w].queue) \in Nat
        BY <1>2, QueueType DEF TypeOK
      <4> QED
        BY <1>2, <2>4, <4>1, WriteWriter
    <3>5. Changed(w) /\ Len(writers'[w].acks) <= ChannelSize
          /\ (writers'[w].status = "holding" <=> writers'[w].holds # NoOffset)
      <4>1. Len(writers[w].acks) <= ChannelSize
        BY <1>2 DEF TypeOK
      <4>2. Changed(w) /\ writers'[w].acks = writers[w].acks
            /\ writers'[w].status = "holding" /\ writers'[w].holds \in Offset
        BY <1>2, <2>4, WriteWriter
      <4> QED
        BY <4>1, <4>2
    <3>6. /\ exists' \in BOOLEAN /\ reported' \subseteq Offset /\ sending' \subseteq sending
          /\ durable_offset' \in Offset \cup {NoOffset}
      BY <1>2, <3>1 DEF TypeOK
    <3> QED
      BY <1>2, <3>1, <3>3, <3>4, <3>5, <3>6, WriterStepType
  <2>5. ASSUME NEW w \in DOMAIN writers, Acknowledge(w) PROVE TypeOK'
    <3>1. UNCHANGED <<exists, file, tx, sending, durable_offset, poisoned, appended, reported, restarts>>
      BY <2>5 DEF Acknowledge
    <3>2. Len(writers'[w].queue) <= ChannelSize /\ Len(writers'[w].acks) <= ChannelSize
      <4>1. Len(<< >>) = 0 /\ 0 <= ChannelSize
        OBVIOUS
      <4> QED
        BY <1>2, <2>5, <4>1, AcknowledgeWriter DEF TypeOK
    <3> QED
      BY <1>2, <2>5, <3>1, <3>2, AcknowledgeWriter, WriterStepType DEF TypeOK
  <2>6. ASSUME NEW w \in DOMAIN writers, NoteDurable(w) PROVE TypeOK'
    <3>1. /\ durable_offset' \in Offset \cup {NoOffset} /\ reported' \subseteq Offset
          /\ UNCHANGED <<exists, file, tx, sending, poisoned, appended, reported, restarts>>
      <4>1. Head(writers[w].acks) \in Offset
        BY <1>2, <2>6, NoteWriter
      <4> QED
        BY <1>2, <2>6, <4>1 DEF NoteDurable, TypeOK
    <3>2. Len(writers'[w].acks) <= ChannelSize
      <4>1. Len(writers[w].acks) <= ChannelSize /\ Len(writers[w].acks) \in Nat
        BY <1>2, QueueType DEF TypeOK
      <4>2. writers'[w].acks \in Seq(Offset) /\ Len(writers'[w].acks) <= Len(writers[w].acks)
        BY <1>2, <2>6, NoteWriter
      <4> QED
        BY <4>1, <4>2
    <3>3. Changed(w) /\ writers'[w].queue = writers[w].queue
          /\ writers'[w].status = writers[w].status /\ writers'[w].holds = writers[w].holds
      BY <1>2, <2>6, NoteWriter
    <3>4. Len(writers'[w].queue) <= ChannelSize
          /\ (writers'[w].status = "holding" <=> writers'[w].holds # NoOffset)
          /\ exists' \in BOOLEAN /\ file' \in Seq(Offset \cup {Hole}) /\ sending' \subseteq sending
      BY <1>2, <3>1, <3>3 DEF TypeOK
    <3> QED
      BY <1>2, <3>1, <3>2, <3>3, <3>4, WriterStepType
  <2>7. CASE GetDurableTxOffset
    <3>1. LastYielded \subseteq Offset
      <4>1. CASE file # << >> /\ ~\E i \in 1 .. Len(file) : file[i] = Hole
        <5>1. file \in Seq(Offset \cup {Hole}) /\ Len(file) \in 1 .. Len(file)
          BY <1>2, <4>1 DEF TypeOK
        <5> QED
          BY <4>1, <5>1 DEF LastYielded, Last
      <4> QED
        BY <4>1 DEF LastYielded
    <3>2. durable_offset' \in Offset \cup {NoOffset} /\ reported' \subseteq Offset
          /\ poisoned' \in BOOLEAN
      BY <1>2, <2>7, <3>1 DEF GetDurableTxOffset, TypeOK
    <3>3. UNCHANGED <<exists, file, tx, writers, sending, appended, restarts>>
      BY <2>7 DEF GetDurableTxOffset
    <3> QED
      BY <1>2, <3>2, <3>3 DEF TypeOK
  <2>8. CASE Restart
    <3>1. << >> \in Seq(Writer) /\ Len(<< >>) = 0 /\ DOMAIN << >> = {}
      OBVIOUS
    <3>2. writers' = << >> /\ sending' = {} /\ tx' = [h \in Handle |-> 0]
      BY <2>8 DEF Restart
    <3>3. writers' \in Seq(Writer) /\ DOMAIN writers' = {} /\ tx' \in [Handle -> 0 .. Len(writers')]
      BY <3>1, <3>2
    <3>4. restarts' \in 0 .. MaxRestarts
      BY <1>2, <2>8 DEF Restart, TypeOK
    <3> QED
      BY <1>2, <2>8, <3>2, <3>3, <3>4 DEF Restart, TypeOK
  <2>9. CASE UNCHANGED vars
    BY <1>2, <2>9 DEF TypeOK, vars
  <2> QED
    BY <1>2, <2>1, <2>2, <2>3, <2>4, <2>5, <2>6, <2>7, <2>8, <2>9 DEF Next
<1> QED
  BY <1>1, <1>2, PTL DEF Spec

-----------------------------------------------------------------------------
(***************************************************************************)
(* One handle, whose log is not appended to after a restart: the one       *)
(* writer there ever is finds the file empty and stays at its end, and     *)
(* what it and its forwarder still have to report, and what the cache has, *)
(* is in the file.                                                         *)
(***************************************************************************)
OneLog == (\A g, h \in Handle : g = h) /\ ~AppendsAfterRestart

WriterAtEnd ==
  /\ Len(writers) <= 1
  /\ \A h \in Handle : tx[h] = Len(writers)
  /\ restarts > 0 => writers = << >>
  /\ restarts = 0 /\ writers = << >> => file = << >>
  /\ \A w \in DOMAIN writers :
       IF writers[w].status = "starting"
       THEN file = << >> /\ writers[w].cursor = 0
       ELSE writers[w].cursor = Len(file)

\* What was reported or is cached to be is in the file, which has no hole.
WatermarkWritten ==
  /\ reported \ {0} \subseteq Entries
  /\ durable_offset \in Entries \cup {0, NoOffset}
  /\ \A i \in 1 .. Len(file) : file[i] \in Offset

\* So is what waits to be reported.
ReportsWritten ==
  /\ WatermarkWritten
  /\ \A w \in DOMAIN writers :
       /\ writers[w].holds # NoOffset => writers[w].holds \in Entries
       /\ \A i \in 1 .. Len(writers[w].acks) : writers[w].acks[i] \in Entries

LogInv == WriterAtEnd /\ ReportsWritten

LEMMA UpToOne ==
  ASSUME NEW n \in Nat, n <= 1, NEW v \in 1 .. n
  PROVE  v = 1 /\ n = 1
OBVIOUS

\* There is one writer, if any.
LEMMA OneWriter ==
  ASSUME TypeOK, WriterAtEnd, NEW w \in DOMAIN writers
  PROVE  w = 1 /\ Len(writers) = 1 /\ writers # << >> /\ restarts = 0
<1>1. writers \in Seq(Writer) /\ Len(writers) \in Nat /\ w \in 1 .. Len(writers)
      /\ restarts \in Nat
  BY AssumedBounds DEF TypeOK
<1>0. Len(writers) <= 1
  BY DEF WriterAtEnd
<1>2. w = 1 /\ Len(writers) = 1
  BY <1>0, <1>1, UpToOne, Zenon
<1>3. Len(<< >>) = 0
  OBVIOUS
<1>4. writers # << >>
  BY <1>2, <1>3
<1> QED
  BY <1>1, <1>2, <1>4 DEF WriterAtEnd

LEMMA AppendedFile ==
  ASSUME TypeOK, NEW o \in Offset, file' = Append(file, o)
  PROVE  /\ file' \in Seq(Offset \cup {Hole}) /\ Len(file) \in Nat /\ Len(file') = Len(file) + 1
         /\ \A i \in 1 .. Len(file) : file'[i] = file[i]
         /\ file'[Len(file) + 1] = o
         /\ Entries' = Entries \cup {o}
<1>1. file \in Seq(Offset \cup {Hole})
  BY DEF TypeOK
<1>2. /\ file' \in Seq(Offset \cup {Hole}) /\ Len(file) \in Nat /\ Len(file') = Len(file) + 1
      /\ \A i \in 1 .. Len(file) : file'[i] = file[i]
      /\ file'[Len(file) + 1] = o
  BY <1>1
<1> QED
  BY <1>2 DEF Entries

\* A writer at the end of the file writes behind its last entry.
LEMMA Wrote ==
  ASSUME TypeOK, WriterAtEnd, NEW w \in DOMAIN writers, WriteEntry(w)
  PROVE  /\ Head(writers[w].queue) \in Offset
         /\ file' = Append(file, Head(writers[w].queue))
<1> DEFINE o == Head(writers[w].queue)
<1>1. writers[w].queue \in Seq(Offset) /\ writers[w].queue # << >>
      /\ file' = Put(o, writers[w].cursor + 1) /\ writers[w].status = "waiting"
  BY QueueType DEF WriteEntry
<1>2. o \in Offset
  BY <1>1
<1>3. writers[w].cursor = Len(file)
  BY <1>1 DEF WriterAtEnd
<1>4. file \in Seq(Offset \cup {Hole}) /\ Len(file) \in Nat
  BY DEF TypeOK
<1> HIDE DEF o
<1>5. file' = [i \in 1 .. Len(file) + 1 |-> IF i = Len(file) + 1 THEN o
                                            ELSE IF i <= Len(file) THEN file[i] ELSE Hole]
  BY <1>1, <1>3, <1>4 DEF Put
<1>6. /\ Append(file, o) = [i \in 1 .. Len(file) + 1 |-> Append(file, o)[i]]
      /\ Append(file, o)[Len(file) + 1] = o
      /\ \A i \in 1 .. Len(file) : Append(file, o)[i] = file[i]
  <2>1. Append(file, o) = [i \in 1 .. Len(file) + 1 |-> Append(file, o)[i]]
    <3>1. Append(file, o) \in Seq(Offset \cup {Hole}) /\ Len(Append(file, o)) = Len(file) + 1
      BY <1>2, <1>4
    <3> DEFINE s == Append(file, o)
    <3>2. s \in Seq(Offset \cup {Hole}) /\ Len(s) = Len(file) + 1
      BY <3>1
    <3> HIDE DEF s
    <3>3. s = [i \in 1 .. Len(s) |-> s[i]]
      BY <3>2
    <3> QED
      BY <3>2, <3>3 DEF s
  <2>2. \A i \in 1 .. Len(file) : Append(file, o)[i] = file[i]
    BY <1>2, <1>4
  <2>3. Append(file, o)[Len(file) + 1] = o
    BY <1>2, <1>4
  <2> QED
    BY <2>1, <2>2, <2>3
<1>7. file' = Append(file, o)
  <2>1. ASSUME NEW i \in 1 .. Len(file) + 1 PROVE file'[i] = Append(file, o)[i]
    BY <1>4, <1>5, <1>6
  <2>2. /\ file' = [i \in 1 .. Len(file) + 1 |-> file'[i]]
        /\ Append(file, o) = [i \in 1 .. Len(file) + 1 |-> Append(file, o)[i]]
    BY <1>5, <1>6
  <2> QED
    BY <2>1, <2>2
<1> QED
  BY <1>2, <1>7 DEF o

\* The watermark where neither it nor the file changes.
LEMMA WatermarkSame ==
  ASSUME LogInv, UNCHANGED <<file, reported, durable_offset>>
  PROVE  Entries' = Entries /\ WatermarkWritten'
BY DEF LogInv, ReportsWritten, WatermarkWritten, Entries

\* A file of entries yields its last one, if it has one.
LEMMA LastIsEntry ==
  ASSUME TypeOK, WatermarkWritten, NEW o \in LastYielded
  PROVE  o \in Entries \cup {0}
<1>1. CASE file = << >>
  BY <1>1 DEF LastYielded
<1>2. CASE file # << >>
  <2>1. file \in Seq(Offset \cup {Hole}) /\ Len(file) \in 1 .. Len(file)
    BY <1>2 DEF TypeOK
  <2>2. ~\E i \in 1 .. Len(file) : file[i] = Hole
    BY AssumedBounds DEF WatermarkWritten
  <2>3. o = file[Len(file)]
    BY <1>2, <2>2 DEF LastYielded, Last
  <2> QED
    BY <2>1, <2>3 DEF Entries
<1> QED
  BY <1>1, <1>2

\* What a step of the writer may do without leaving the end of the file.
LEMMA WriterStepLog ==
  ASSUME TypeOK, LogInv, NEW w \in DOMAIN writers, Changed(w), UNCHANGED <<tx, restarts>>,
         WatermarkWritten',
         IF writers'[w].status = "starting"
         THEN file' = << >> /\ writers'[w].cursor = 0
         ELSE writers'[w].cursor = Len(file'),
         writers'[w].holds # NoOffset => writers'[w].holds \in Entries',
         \A i \in 1 .. Len(writers'[w].acks) : writers'[w].acks[i] \in Entries'
  PROVE  LogInv'
<1>1. w = 1 /\ Len(writers) = 1 /\ restarts = 0
  BY OneWriter DEF LogInv
<1>2. writers' \in Seq(Writer) /\ Len(writers') = 1 /\ DOMAIN writers' = {1}
  <2>1. writers \in Seq(Writer) /\ DOMAIN writers = 1 .. Len(writers)
    BY DEF TypeOK
  <2> QED
    BY <1>1, <2>1, WriterChanges DEF Changed
<1>3. writers' # << >>
  <2>1. Len(<< >>) # 1
    OBVIOUS
  <2> QED
    BY <1>2, <2>1, Zenon
<1>4. WriterAtEnd'
  <2>1. restarts' = 0 /\ \A h \in Handle : tx'[h] = Len(writers')
    BY <1>1, <1>2 DEF LogInv, WriterAtEnd
  <2>2. \A v \in DOMAIN writers' :
          IF writers'[v].status = "starting"
          THEN file' = << >> /\ writers'[v].cursor = 0
          ELSE writers'[v].cursor = Len(file')
    BY <1>1, <1>2
  <2>3. Len(writers') <= 1
    <3>1. 1 <= 1
      OBVIOUS
    <3> QED
      BY <1>2, <3>1, Zenon
  <2> QED
    BY <1>3, <2>1, <2>2, <2>3 DEF WriterAtEnd
<1>5. ReportsWritten'
  BY <1>1, <1>2 DEF ReportsWritten
<1> QED
  BY <1>4, <1>5 DEF LogInv

(***************************************************************************)
(* Under OneLog every step keeps WriterAtEnd and ReportsWritten, and      *)
(* leaves the file or puts one entry behind its last.                      *)
(***************************************************************************)
LEMMA LogStep ==
  ASSUME TypeOK, TypeOK', LogInv, OneLog, [Next]_vars
  PROVE  LogInv' /\ (file' = file \/ \E o \in Offset : file' = Append(file, o))
<1> USE AssumedBounds
<1>1. ASSUME NEW h \in Handle, AppendTx(h) PROVE LogInv' /\ file' = file
  <2>1. restarts = 0 /\ restarts' = restarts
        /\ UNCHANGED <<file, reported, durable_offset>>
    <3>1. restarts \in 0 .. MaxRestarts /\ ~(restarts > 0)
      BY <1>1 DEF AppendTx, OneLog, TypeOK
    <3> QED
      BY <1>1, <3>1 DEF AppendTx
  <2>2. CASE tx[h] = 0
    <3>1. writers' = Append(writers, NewWriter) /\ tx' = [tx EXCEPT ![h] = Len(writers')]
      BY <1>1, <2>2 DEF AppendTx
    <3>2. Len(writers) = 0
      BY <2>2 DEF LogInv, WriterAtEnd
    <3>3. /\ Len(writers') = 1 /\ DOMAIN writers' = 1 .. 1
          /\ writers'[1] = NewWriter
      BY <3>1, <3>2, WriterSpawned
    <3>4. file = << >>
      <4>1. writers = << >>
        BY <3>2 DEF TypeOK
      <4> QED
        BY <2>1, <4>1 DEF LogInv, WriterAtEnd
    <3>5. \A g \in Handle : tx'[g] = Len(writers')
      BY <3>1 DEF OneLog, TypeOK
    <3>6. WriterAtEnd'
      <4>1. writers' # << >> /\ Len(writers') <= 1
        <5>1. Len(<< >>) # 1 /\ 1 <= 1
          OBVIOUS
        <5> QED
          BY <3>3, <5>1, Zenon
      <4>2. \A v \in DOMAIN writers' :
              writers'[v].status = "starting" /\ writers'[v].cursor = 0
        BY <3>3 DEF NewWriter
      <4> QED
        BY <2>1, <3>4, <3>5, <4>1, <4>2 DEF WriterAtEnd
    <3>7. ReportsWritten'
      <4>1. WatermarkWritten'
        BY <2>1, WatermarkSame
      <4>2. \A v \in DOMAIN writers' : writers'[v].holds = NoOffset /\ writers'[v].acks = << >>
        BY <3>3 DEF NewWriter
      <4>3. 1 .. Len(<< >>) = {}
        OBVIOUS
      <4> QED
        BY <4>1, <4>2, <4>3 DEF ReportsWritten
    <3> QED
      BY <2>1, <3>6, <3>7 DEF LogInv
  <2>3. CASE tx[h] # 0
    BY <1>1, <2>1, <2>3, WatermarkSame DEF AppendTx, LogInv, WriterAtEnd, ReportsWritten
  <2> QED
    BY <2>1, <2>2, <2>3
<1>2. ASSUME NEW task \in sending, Send(task) PROVE LogInv' /\ file' = file
  <2>1. UNCHANGED <<file, tx, restarts>> /\ Entries' = Entries /\ WatermarkWritten'
    BY <1>2, WatermarkSame DEF Send
  <2>2. task.to \in DOMAIN writers
    BY DEF TypeOK
  <2> QED
    BY <1>2, <2>1, <2>2, SendWriter, WriterStepLog DEF LogInv, WriterAtEnd, ReportsWritten
<1>3. ASSUME NEW w \in DOMAIN writers, CreateFile(w) PROVE LogInv' /\ file' = file
  <2>1. file' = << >> /\ UNCHANGED <<tx, reported, durable_offset, restarts>>
    BY <1>3 DEF CreateFile
  <2>2. file = << >> /\ writers[w].cursor = 0
    BY <1>3, CreateWriter DEF LogInv, WriterAtEnd
  <2>3. Entries' = Entries /\ WatermarkWritten' /\ Len(file') = 0
    BY <2>1, <2>2, WatermarkSame
  <2> QED
    BY <1>3, <2>1, <2>2, <2>3, CreateWriter, WriterStepLog DEF LogInv, ReportsWritten
<1>4. ASSUME NEW w \in DOMAIN writers, WriteEntry(w)
      PROVE  LogInv' /\ \E o \in Offset : file' = Append(file, o)
  <2>1. UNCHANGED <<tx, reported, durable_offset, restarts>>
    BY <1>4 DEF WriteEntry
  <2>2. Head(writers[w].queue) \in Offset /\ file' = Append(file, Head(writers[w].queue))
    BY <1>4, Wrote DEF LogInv
  <2>3. /\ Len(file) \in Nat /\ Len(file') = Len(file) + 1
        /\ \A i \in 1 .. Len(file) : file'[i] = file[i]
        /\ file'[Len(file) + 1] = Head(writers[w].queue)
        /\ Entries' = Entries \cup {Head(writers[w].queue)}
    BY <2>2, AppendedFile
  <2>4. writers[w].status = "waiting" /\ writers[w].cursor = Len(file)
    BY <1>4, WriteWriter DEF LogInv, WriterAtEnd
  <2>5. /\ Changed(w) /\ writers'[w].status # "starting"
        /\ writers'[w].cursor = Len(file') /\ writers'[w].holds \in Entries'
        /\ writers'[w].acks = writers[w].acks
    BY <1>4, <2>3, <2>4, WriteWriter
  <2>6. \A i \in 1 .. Len(writers'[w].acks) : writers'[w].acks[i] \in Entries'
    BY <2>3, <2>5 DEF LogInv, ReportsWritten
  <2>7. WatermarkWritten'
    <3>1. \A i \in 1 .. Len(file') : file'[i] \in Offset
      BY <2>2, <2>3 DEF LogInv, ReportsWritten, WatermarkWritten
    <3>2. reported' \ {0} \subseteq Entries' /\ durable_offset' \in Entries' \cup {0, NoOffset}
      BY <2>1, <2>3 DEF LogInv, ReportsWritten, WatermarkWritten
    <3> QED
      BY <3>1, <3>2 DEF WatermarkWritten
  <2> QED
    BY <2>1, <2>2, <2>5, <2>6, <2>7, WriterStepLog
<1>5. ASSUME NEW w \in DOMAIN writers, Acknowledge(w) PROVE LogInv' /\ file' = file
  <2>1. UNCHANGED <<file, tx, restarts>> /\ Entries' = Entries /\ WatermarkWritten'
    BY <1>5, WatermarkSame DEF Acknowledge
  <2>2. writers[w].cursor = Len(file) /\ writers[w].holds \in Entries
    BY <1>5, AcknowledgeWriter DEF LogInv, WriterAtEnd, ReportsWritten
  <2>3. \A i \in 1 .. Len(writers'[w].acks) : writers'[w].acks[i] \in Entries
    <3>1. \A i \in 1 .. Len(writers[w].acks) : writers[w].acks[i] \in Entries
      BY DEF LogInv, ReportsWritten
    <3>2. writers[w].acks \in Seq(Offset) /\ writers[w].holds \in Offset
      BY <1>5, QueueType, AcknowledgeWriter
    <3>3. CASE writers[w].forwarding
      <4>1. writers'[w].acks = Append(writers[w].acks, writers[w].holds)
        BY <1>5, <3>3, AcknowledgeWriter
      <4> QED
        BY <2>2, <3>1, <3>2, <4>1
    <3> QED
      BY <1>5, <3>1, <3>3, AcknowledgeWriter
  <2> QED
    BY <1>5, <2>1, <2>2, <2>3, AcknowledgeWriter, WriterStepLog DEF LogInv, ReportsWritten
<1>6. ASSUME NEW w \in DOMAIN writers, NoteDurable(w) PROVE LogInv' /\ file' = file
  <2>1. UNCHANGED <<file, tx, reported, restarts>> /\ Entries' = Entries
    BY <1>6 DEF NoteDurable, Entries
  <2>2. \A i \in 1 .. Len(writers[w].acks) : writers[w].acks[i] \in Entries
    BY DEF LogInv, ReportsWritten
  <2>3. WatermarkWritten'
    <3>1. Head(writers[w].acks) \in Entries
      <4>1. writers[w].acks \in Seq(Offset) /\ writers[w].acks # << >>
        BY <1>6, QueueType, NoteWriter
      <4>2. Head(writers[w].acks) = writers[w].acks[1] /\ 1 \in 1 .. Len(writers[w].acks)
        BY <4>1
      <4> QED
        BY <2>2, <4>2
    <3>2. durable_offset' \in Entries \cup {0, NoOffset}
      BY <1>6, <3>1 DEF NoteDurable, LogInv, ReportsWritten, WatermarkWritten
    <3> QED
      BY <2>1, <3>2 DEF LogInv, ReportsWritten, WatermarkWritten
  <2>4. \A i \in 1 .. Len(writers'[w].acks) : writers'[w].acks[i] \in Entries
    BY <1>6, <2>2, NoteWriter
  <2> QED
    BY <1>6, <2>1, <2>3, <2>4, NoteWriter, WriterStepLog DEF LogInv, WriterAtEnd, ReportsWritten
<1>7. CASE GetDurableTxOffset
  <2>1. UNCHANGED <<file, tx, writers, restarts>> /\ Entries' = Entries
    BY <1>7 DEF GetDurableTxOffset, Entries
  <2>2. \A o \in LastYielded : o \in Entries \cup {0}
    BY LastIsEntry DEF LogInv, ReportsWritten
  <2>3. /\ durable_offset' \in Entries \cup {0, NoOffset}
        /\ reported' \ {0} \subseteq Entries
    BY <1>7, <2>2 DEF GetDurableTxOffset, LogInv, ReportsWritten, WatermarkWritten
  <2>4. WatermarkWritten'
    BY <2>1, <2>3 DEF LogInv, ReportsWritten, WatermarkWritten
  <2> QED
    BY <2>1, <2>4 DEF LogInv, WriterAtEnd, ReportsWritten
<1>8. CASE Restart
  <2>1. /\ writers' = << >> /\ tx' = [h \in Handle |-> 0] /\ restarts' = restarts + 1
        /\ UNCHANGED <<file, reported>> /\ Entries' = Entries
        /\ durable_offset' = NoOffset
    BY <1>8 DEF Restart, Entries
  <2>2. restarts' # 0
    <3>1. restarts \in Nat
      BY DEF TypeOK
    <3> QED
      BY <2>1, <3>1
  <2>3. Len(<< >>) = 0 /\ DOMAIN << >> = {} /\ 0 <= 1
    OBVIOUS
  <2> QED
    BY <2>1, <2>2, <2>3 DEF LogInv, WriterAtEnd, ReportsWritten, WatermarkWritten
<1>9. CASE UNCHANGED vars
  BY <1>9, WatermarkSame DEF vars, LogInv, WriterAtEnd, ReportsWritten
<1> QED
  BY <1>1, <1>2, <1>3, <1>4, <1>5, <1>6, <1>7, <1>8, <1>9
     DEF Next, GetDurableTxOffset, Restart, vars

LEMMA LogInit ==
  ASSUME Init PROVE LogInv
<1>1. /\ file = << >> /\ writers = << >> /\ reported = {} /\ restarts = 0
      /\ tx = [h \in Handle |-> 0] /\ durable_offset = NoOffset
  BY DEF Init
<1>2. Len(<< >>) = 0 /\ DOMAIN << >> = {} /\ 0 <= 1 /\ ~(0 > 0) /\ 1 .. 0 = {}
  OBVIOUS
<1> QED
  BY <1>1, <1>2 DEF LogInv, WriterAtEnd, ReportsWritten, WatermarkWritten

LEMMA LogAlways == ASSUME OneLog PROVE Spec => [](TypeOK /\ LogInv)
<1>1. Init => LogInv
  BY LogInit
<1>2. TypeOK /\ TypeOK' /\ LogInv /\ [Next]_vars => LogInv'
  BY LogStep
<1> QED
  BY <1>1, <1>2, TypeCorrect, PTL DEF Spec

(***************************************************************************)
(* With one handle, whose log is only read after a restart: whatever       *)
(* get_durable_tx_offset returned, of the cache or of the file, is the     *)
(* offset of an entry in the file, before and after every restart; or it   *)
(* is 0, which is also what it returns for an empty file.                  *)
(***************************************************************************)
THEOREM ReportsSurvive == ASSUME OneLog PROVE Spec => []ReportedSurvives
<1>1. LogInv => ReportedSurvives
  BY DEF LogInv, ReportsWritten, WatermarkWritten, ReportedSurvives
<1> QED
  BY <1>1, LogAlways, PTL

(***************************************************************************)
(* With one handle, whose log is only read after a restart: no step of     *)
(* the tasks takes an entry out of the file or moves one.                  *)
(***************************************************************************)
THEOREM AppendOnly == ASSUME OneLog PROVE Spec => FileIsAppendOnly
<1>1. ASSUME TypeOK, TypeOK', LogInv, [Next]_vars PROVE IsPrefix(file, file')
  <2>1. file \in Seq(Offset \cup {Hole}) /\ Len(file) \in Nat
    BY <1>1 DEF TypeOK
  <2>2. CASE file' = file
    BY <2>1, <2>2 DEF IsPrefix
  <2>3. ASSUME NEW o \in Offset, file' = Append(file, o) PROVE IsPrefix(file, file')
    <3>1. /\ file' \in Seq(Offset \cup {Hole}) /\ Len(file') = Len(file) + 1
          /\ \A i \in 1 .. Len(file) : file'[i] = file[i]
      BY <1>1, <2>3, AppendedFile
    <3>2. SubSeq(file, 1, Len(file)) = SubSeq(file', 1, Len(file))
      <4>1. SubSeq(file, 1, Len(file)) = [i \in 1 .. Len(file) |-> file[i]]
        BY <2>1
      <4>2. SubSeq(file', 1, Len(file)) = [i \in 1 .. Len(file) |-> file'[i]]
        BY <2>1, <3>1
      <4> QED
        BY <3>1, <4>1, <4>2
    <3>3. Len(file) <= Len(file')
      BY <2>1, <3>1
    <3> QED
      BY <3>2, <3>3 DEF IsPrefix
  <2> QED
    BY <1>1, <2>2, <2>3, LogStep
<1>2. TypeOK /\ TypeOK' /\ LogInv /\ [Next]_vars => [IsPrefix(file, file')]_vars
  BY <1>1
<1> QED
  BY <1>2, LogAlways, PTL DEF Spec, FileIsAppendOnly

-----------------------------------------------------------------------------
(***************************************************************************)
(* An entry goes from its task to the channel of the one writer, and from  *)
(* there to the file. No offset is in two of these places or twice in one, *)
(* and none that was not given out is in any.                              *)
(***************************************************************************)
Queue == IF writers = << >> THEN << >> ELSE writers[1].queue

Known ==
  /\ \A t \in sending : t.offset < appended
  /\ \A i \in 1 .. Len(Queue) : Queue[i] < appended
  /\ \A i \in 1 .. Len(file) : file[i] \in Offset /\ file[i] < appended

Apart ==
  /\ \A s, t \in sending : s.offset = t.offset => s = t
  /\ \A i, j \in 1 .. Len(Queue) : Queue[i] = Queue[j] => i = j
  /\ \A i, j \in 1 .. Len(file) : file[i] = file[j] => i = j
  /\ \A t \in sending, i \in 1 .. Len(Queue) : t.offset # Queue[i]
  /\ \A t \in sending : t.offset \notin Entries
  /\ \A i \in 1 .. Len(Queue) : Queue[i] \notin Entries

\* While nothing was poisoned, every writer and forwarder goes on.
Going ==
  \A w \in DOMAIN writers :
    ~writers[w].forwarding \/ writers[w].status = "dead" => poisoned

InFlight(o) ==
  \/ \E t \in sending : t.offset = o
  \/ \E i \in 1 .. Len(Queue) : Queue[i] = o
  \/ o \in Entries

NoneLost == restarts = 0 /\ ~poisoned => \A o \in 0 .. appended - 1 : InFlight(o)

OnceInv == Known /\ Apart /\ Going /\ NoneLost

LEMMA QueueIs ==
  ASSUME TypeOK, LogInv
  PROVE  /\ Queue \in Seq(Offset) /\ Len(Queue) \in Nat
         /\ \A w \in DOMAIN writers : Queue = writers[w].queue
<1>1. ASSUME NEW w \in DOMAIN writers
      PROVE  Queue = writers[w].queue /\ Queue \in Seq(Offset)
  BY OneWriter, QueueType DEF LogInv, Queue
<1>2. CASE writers = << >>
  <2>1. << >> \in Seq(Offset)
    OBVIOUS
  <2> QED
    BY <1>1, <1>2, <2>1 DEF Queue
<1>3. CASE writers # << >>
  <2>1. writers \in Seq(Writer)
    BY DEF TypeOK
  <2>2. 1 \in DOMAIN writers
    BY <1>3, <2>1
  <2> QED
    BY <1>1, <2>2
<1> QED
  BY <1>2, <1>3

\* A step of the writer that leaves its channel.
LEMMA QueueChanged ==
  ASSUME TypeOK, LogInv, NEW w \in DOMAIN writers, Changed(w)
  PROVE  /\ Queue = writers[w].queue /\ Queue' = writers'[w].queue
         /\ DOMAIN writers' = {w} /\ w \in DOMAIN writers
<1>1. w = 1 /\ Len(writers) = 1
  BY OneWriter DEF LogInv
<1>2. /\ writers' \in Seq(Writer) /\ Len(writers') = Len(writers)
      /\ DOMAIN writers' = DOMAIN writers
  BY WriterChanges DEF Changed
<1>3. writers' # << >> /\ DOMAIN writers' = {w}
  <2>1. Len(<< >>) # 1
    OBVIOUS
  <2>2. writers \in Seq(Writer) /\ DOMAIN writers = 1 .. Len(writers)
    BY DEF TypeOK
  <2>3. 1 .. 1 = {1}
    OBVIOUS
  <2> QED
    BY <1>1, <1>2, <2>1, <2>2, <2>3, Zenon
<1> QED
  BY <1>1, <1>3, QueueIs DEF Queue

\* What keeps OnceInv where no entry moves.
LEMMA NoEntryMoves ==
  ASSUME OnceInv, Queue' = Queue, UNCHANGED <<sending, file, appended, restarts>>, Going',
         poisoned => poisoned'
  PROVE  OnceInv'
<1>1. Entries' = Entries
  BY DEF Entries
<1>2. Known' /\ Apart'
  BY <1>1 DEF OnceInv, Known, Apart
<1>3. ASSUME NEW o PROVE InFlight(o)' <=> InFlight(o)
  BY <1>1 DEF InFlight
<1>4. NoneLost'
  BY <1>3 DEF OnceInv, NoneLost
<1> QED
  BY <1>2, <1>4 DEF OnceInv

\* A new entry is with its task.
LEMMA AppendOnce ==
  ASSUME TypeOK, LogInv, OneLog, OnceInv, NEW h \in Handle, AppendTx(h)
  PROVE  OnceInv'
<1> USE AssumedBounds
<1>1. /\ sending' = sending \cup {[to |-> tx'[h], offset |-> appended]}
      /\ appended' = appended + 1 /\ appended \in Nat /\ appended \in Offset
      /\ UNCHANGED <<file, poisoned, restarts>> /\ Entries' = Entries
  BY DEF AppendTx, TypeOK, Entries, Offset
<1>2. Queue' = Queue /\ Going'
  <2>1. CASE tx[h] = 0
    <3>1. Len(writers) = 0 /\ writers \in Seq(Writer)
      BY <2>1 DEF LogInv, WriterAtEnd, TypeOK
    <3>2. writers' = Append(writers, NewWriter)
      BY <2>1 DEF AppendTx
    <3>3. DOMAIN writers' = 1 .. 1 /\ writers'[1] = NewWriter /\ Len(writers') = 1
      BY <3>1, <3>2, WriterSpawned
    <3>4. writers' # << >> /\ writers = << >>
      <4>1. Len(<< >>) # 1
        OBVIOUS
      <4> QED
        BY <3>1, <3>3, <4>1
    <3> QED
      BY <3>3, <3>4 DEF Queue, NewWriter, Going
  <2>2. CASE tx[h] # 0
    <3>1. writers' = writers
      BY <2>2 DEF AppendTx
    <3> QED
      BY <1>1, <3>1 DEF Queue, Going, OnceInv
  <2> QED
    BY <2>1, <2>2
<1>3. Queue \in Seq(Offset) /\ \A i \in 1 .. Len(Queue) : Queue[i] \in Nat
  BY QueueIs DEF Offset
<1>4. \A t \in sending : t.offset \in Nat
  BY DEF TypeOK, Offset
<1>5. Known'
  <2>1. \A t \in sending' : t.offset < appended'
    BY <1>1, <1>4 DEF OnceInv, Known
  <2>2. \A i \in 1 .. Len(Queue') : Queue'[i] < appended'
    BY <1>1, <1>2, <1>3 DEF OnceInv, Known
  <2>3. \A i \in 1 .. Len(file') : file'[i] \in Offset /\ file'[i] < appended'
    <3>1. \A i \in 1 .. Len(file) : file[i] \in Nat
      BY DEF OnceInv, Known, Offset
    <3> QED
      BY <1>1, <3>1 DEF OnceInv, Known
  <2> QED
    BY <2>1, <2>2, <2>3 DEF Known
<1>6. Apart'
  <2>1. \A t \in sending : t.offset # appended
    BY <1>1, <1>4 DEF OnceInv, Known
  <2>2. \A i \in 1 .. Len(Queue) : Queue[i] # appended
    BY <1>1, <1>3 DEF OnceInv, Known
  <2>3. appended \notin Entries
    <3>1. \A i \in 1 .. Len(file) : file[i] \in Nat /\ file[i] < appended
      BY DEF OnceInv, Known, Offset
    <3> QED
      BY <1>1, <3>1 DEF Entries
  <2> QED
    BY <1>1, <1>2, <2>1, <2>2, <2>3 DEF OnceInv, Apart
<1>7. NoneLost'
  <2> SUFFICES ASSUME restarts = 0, ~poisoned, NEW o \in 0 .. appended PROVE InFlight(o)'
    BY <1>1 DEF NoneLost
  <2>1. CASE o = appended
    <3> DEFINE t == [to |-> tx'[h], offset |-> appended]
    <3>1. t \in sending' /\ t.offset = o
      BY <1>1, <2>1
    <3> HIDE DEF t
    <3> QED
      BY <3>1 DEF InFlight
  <2>2. CASE o # appended
    <3>1. o \in 0 .. appended - 1
      BY <1>1, <2>2
    <3>2. InFlight(o)
      BY <3>1 DEF OnceInv, NoneLost
    <3> QED
      BY <1>1, <1>2, <3>2 DEF InFlight
  <2> QED
    BY <2>1, <2>2
<1> QED
  BY <1>2, <1>5, <1>6, <1>7 DEF OnceInv

\* A task's entry goes behind those in the channel.
LEMMA SendOnce ==
  ASSUME TypeOK, LogInv, OnceInv, NEW task \in sending, Send(task)
  PROVE  OnceInv'
<1> DEFINE w == task.to  o == task.offset
<1>1. /\ w \in DOMAIN writers /\ o \in Offset /\ Changed(w)
      /\ writers'[w].queue = (IF writers[w].status = "dead" THEN writers[w].queue
                              ELSE Append(writers[w].queue, o))
      /\ writers'[w].status = writers[w].status
      /\ writers'[w].forwarding = writers[w].forwarding
  BY SendWriter
<1>2. /\ sending' = sending \ {task} /\ UNCHANGED <<file, appended, poisoned, restarts>>
      /\ Entries' = Entries
  BY DEF Send, Entries
<1>3. Queue = writers[w].queue /\ Queue' = writers'[w].queue /\ DOMAIN writers' = {w}
  BY <1>1, QueueChanged
<1>4. Going'
  BY <1>1, <1>2, <1>3 DEF OnceInv, Going
<1>5. CASE writers[w].status = "dead"
  <2>1. Queue' = Queue
    BY <1>1, <1>3, <1>5
  <2>2. poisoned'
    BY <1>1, <1>2, <1>5 DEF OnceInv, Going
  <2>3. Known' /\ Apart'
    BY <1>2, <2>1 DEF OnceInv, Known, Apart
  <2> QED
    BY <1>4, <2>2, <2>3 DEF OnceInv, NoneLost
<1>6. CASE writers[w].status # "dead"
  <2>1. Queue' = Append(Queue, o)
    BY <1>1, <1>3, <1>6
  <2>2. Queue \in Seq(Offset) /\ Len(Queue) \in Nat
    BY QueueIs
  <2> HIDE DEF o, w
  <2>3. /\ Len(Queue') = Len(Queue) + 1 /\ Queue'[Len(Queue) + 1] = o
        /\ \A i \in 1 .. Len(Queue) : Queue'[i] = Queue[i]
    BY <1>1, <2>1, <2>2
  <2>4. \A i \in 1 .. Len(Queue') :
          \/ i \in 1 .. Len(Queue) /\ Queue'[i] = Queue[i]
          \/ i = Len(Queue) + 1 /\ Queue'[i] = o
    BY <2>2, <2>3
  <2>5. \A t \in sending' : t \in sending /\ t.offset # o
    BY <1>2 DEF OnceInv, Apart, o
  <2>6. /\ o < appended /\ o \notin Entries
        /\ \A i \in 1 .. Len(Queue) : Queue[i] # o
    BY DEF OnceInv, Known, Apart, o
  <2>7. Known'
    BY <1>2, <2>4, <2>5, <2>6 DEF OnceInv, Known
  <2>8. Apart'
    BY <1>2, <2>4, <2>5, <2>6 DEF OnceInv, Apart
  <2>9. NoneLost'
    <3> SUFFICES ASSUME restarts = 0, ~poisoned, NEW p \in 0 .. appended - 1
                 PROVE  InFlight(p)'
      BY <1>2 DEF NoneLost
    <3>1. InFlight(p)
      BY DEF OnceInv, NoneLost
    <3>2. ASSUME NEW t \in sending, t.offset = p PROVE InFlight(p)'
      <4>1. CASE t = task
        <5>1. Len(Queue) + 1 \in 1 .. Len(Queue')
          BY <2>2, <2>3
        <5> QED
          BY <2>3, <3>2, <4>1, <5>1 DEF InFlight, o
      <4>2. CASE t # task
        BY <1>2, <3>2, <4>2 DEF InFlight
      <4> QED
        BY <4>1, <4>2
    <3>3. ASSUME NEW i \in 1 .. Len(Queue), Queue[i] = p PROVE InFlight(p)'
      <4>1. i \in 1 .. Len(Queue') /\ Queue'[i] = p
        BY <2>2, <2>3, <3>3
      <4> QED
        BY <4>1 DEF InFlight
    <3>4. CASE p \in Entries
      BY <1>2, <3>4 DEF InFlight
    <3> QED
      BY <3>1, <3>2, <3>3, <3>4 DEF InFlight
  <2> QED
    BY <1>4, <2>7, <2>8, <2>9 DEF OnceInv
<1> QED
  BY <1>5, <1>6

\* The first entry in the channel goes behind those in the file.
LEMMA WriteOnce ==
  ASSUME TypeOK, LogInv, OnceInv, NEW w \in DOMAIN writers, WriteEntry(w)
  PROVE  OnceInv'
<1> DEFINE o == Head(Queue)
<1>1. /\ Changed(w) /\ writers[w].status = "waiting" /\ writers'[w].status = "holding"
      /\ writers[w].queue # << >> /\ writers'[w].queue = Tail(writers[w].queue)
      /\ writers'[w].forwarding = writers[w].forwarding
  BY WriteWriter
<1>2. Queue = writers[w].queue /\ Queue' = Tail(Queue) /\ DOMAIN writers' = {w} /\ Queue # << >>
  BY <1>1, QueueChanged
<1>3. UNCHANGED <<sending, appended, poisoned, restarts>>
  BY DEF WriteEntry
<1>4. Going'
  BY <1>1, <1>2, <1>3 DEF OnceInv, Going
<1>5. o \in Offset /\ file' = Append(file, o)
  BY <1>2, Wrote DEF LogInv
<1>6. Queue \in Seq(Offset) /\ Len(Queue) \in Nat
  BY QueueIs
<1>7. /\ 1 \in 1 .. Len(Queue) /\ Queue[1] = o /\ Len(Queue') = Len(Queue) - 1
      /\ \A i \in 1 .. Len(Queue') : i + 1 \in 1 .. Len(Queue) /\ Queue'[i] = Queue[i + 1]
  BY <1>2, <1>6
<1> HIDE DEF o
<1>8. /\ Len(file) \in Nat /\ Len(file') = Len(file) + 1
      /\ \A i \in 1 .. Len(file) : file'[i] = file[i]
      /\ file'[Len(file) + 1] = o
      /\ Entries' = Entries \cup {o}
  BY <1>5, AppendedFile
<1>9. \A i \in 1 .. Len(file') :
        \/ i \in 1 .. Len(file) /\ file'[i] = file[i]
        \/ i = Len(file) + 1 /\ file'[i] = o
  BY <1>8
<1>10. /\ o < appended /\ o \notin Entries /\ \A t \in sending : t.offset # o
  BY <1>7 DEF OnceInv, Known, Apart
<1>11. \A i \in 1 .. Len(Queue') : Queue'[i] # o
  <2>1. ASSUME NEW i \in 1 .. Len(Queue'), Queue'[i] = o PROVE FALSE
    <3>1. i + 1 \in 1 .. Len(Queue) /\ Queue[i + 1] = Queue[1]
      BY <1>7, <2>1
    <3>2. i + 1 = 1
      BY <1>7, <3>1 DEF OnceInv, Apart
    <3> QED
      BY <3>2
  <2> QED
    BY <2>1
<1>12. Known'
  BY <1>3, <1>5, <1>7, <1>9, <1>10 DEF OnceInv, Known
<1>13. Apart'
  <2>1. ASSUME NEW i \in 1 .. Len(Queue'), NEW j \in 1 .. Len(Queue'), Queue'[i] = Queue'[j]
        PROVE  i = j
    <3>1. i + 1 = j + 1
      BY <1>7, <2>1 DEF OnceInv, Apart
    <3> QED
      BY <3>1
  <2>2. ASSUME NEW i \in 1 .. Len(file'), NEW j \in 1 .. Len(file'), file'[i] = file'[j]
        PROVE  i = j
    <3>1. \A k \in 1 .. Len(file) : file[k] # o
      BY <1>10 DEF Entries
    <3> QED
      BY <1>9, <2>2, <3>1 DEF OnceInv, Apart
  <2>3. \A t \in sending', i \in 1 .. Len(Queue') : t.offset # Queue'[i]
    BY <1>3, <1>7 DEF OnceInv, Apart
  <2>4. /\ \A t \in sending' : t.offset \notin Entries'
        /\ \A i \in 1 .. Len(Queue') : Queue'[i] \notin Entries'
    BY <1>3, <1>7, <1>8, <1>10, <1>11 DEF OnceInv, Apart
  <2>5. \A s, t \in sending' : s.offset = t.offset => s = t
    BY <1>3 DEF OnceInv, Apart
  <2> QED
    BY <2>1, <2>2, <2>3, <2>4, <2>5 DEF Apart
<1>14. NoneLost'
  <2> SUFFICES ASSUME restarts = 0, ~poisoned, NEW p \in 0 .. appended - 1
               PROVE  InFlight(p)'
    BY <1>3 DEF NoneLost
  <2>1. InFlight(p)
    BY DEF OnceInv, NoneLost
  <2>2. ASSUME NEW i \in 1 .. Len(Queue), Queue[i] = p PROVE InFlight(p)'
    <3>1. CASE i = 1
      BY <1>7, <1>8, <2>2, <3>1 DEF InFlight
    <3>2. CASE i # 1
      <4>1. i - 1 \in 1 .. Len(Queue') /\ (i - 1) + 1 = i
        BY <1>6, <1>7, <3>2
      <4>2. Queue'[i - 1] = p
        BY <1>7, <2>2, <4>1
      <4> QED
        BY <4>1, <4>2 DEF InFlight
    <3> QED
      BY <3>1, <3>2
  <2> QED
    BY <1>3, <1>8, <2>1, <2>2 DEF InFlight
<1> QED
  BY <1>4, <1>12, <1>13, <1>14 DEF OnceInv

LEMMA OnceStep ==
  ASSUME TypeOK, TypeOK', LogInv, OneLog, OnceInv, [Next]_vars
  PROVE  OnceInv'
<1>1. ASSUME NEW h \in Handle, AppendTx(h) PROVE OnceInv'
  BY <1>1, AppendOnce
<1>2. ASSUME NEW task \in sending, Send(task) PROVE OnceInv'
  BY <1>2, SendOnce
<1>3. ASSUME NEW w \in DOMAIN writers, CreateFile(w) PROVE OnceInv'
  <2>1. file' = file
    BY <1>3, CreateWriter DEF CreateFile, LogInv, WriterAtEnd
  <2>2. UNCHANGED <<sending, appended, poisoned, restarts>>
    BY <1>3 DEF CreateFile
  <2>3. Queue' = Queue /\ DOMAIN writers' = {w}
    BY <1>3, CreateWriter, QueueChanged
  <2>4. Going'
    BY <1>3, <2>2, <2>3, CreateWriter DEF OnceInv, Going
  <2> QED
    BY <2>1, <2>2, <2>3, <2>4, NoEntryMoves
<1>4. ASSUME NEW w \in DOMAIN writers, WriteEntry(w) PROVE OnceInv'
  BY <1>4, WriteOnce
<1>5. ASSUME NEW w \in DOMAIN writers, Acknowledge(w) PROVE OnceInv'
  <2>1. UNCHANGED <<file, sending, appended, poisoned, restarts>> /\ Entries' = Entries
    BY <1>5 DEF Acknowledge, Entries
  <2>2. Queue = writers[w].queue /\ Queue' = writers'[w].queue /\ DOMAIN writers' = {w}
    BY <1>5, AcknowledgeWriter, QueueChanged
  <2>3. CASE writers[w].forwarding
    <3>1. Queue' = Queue
      BY <1>5, <2>2, <2>3, AcknowledgeWriter
    <3>2. Going'
      BY <1>5, <2>2, <2>3, AcknowledgeWriter DEF Going
    <3> QED
      BY <2>1, <3>1, <3>2, NoEntryMoves
  <2>4. CASE ~writers[w].forwarding
    <3>1. poisoned
      BY <2>4 DEF OnceInv, Going
    <3>2. Queue' = << >>
      BY <1>5, <2>2, <2>4, AcknowledgeWriter
    <3>3. 1 .. Len(Queue') = {}
      BY <3>2
    <3>4. Known' /\ Apart'
      BY <2>1, <3>3 DEF OnceInv, Known, Apart
    <3>5. Going' /\ NoneLost'
      BY <2>1, <3>1 DEF Going, NoneLost
    <3> QED
      BY <3>4, <3>5 DEF OnceInv
  <2> QED
    BY <2>3, <2>4
<1>6. ASSUME NEW w \in DOMAIN writers, NoteDurable(w) PROVE OnceInv'
  <2>1. UNCHANGED <<file, sending, appended, poisoned, restarts>>
    BY <1>6 DEF NoteDurable
  <2>2. Queue' = Queue /\ DOMAIN writers' = {w}
    <3>1. Changed(w) /\ writers'[w].queue = writers[w].queue
      BY <1>6, NoteWriter
    <3>2. Queue = writers[w].queue /\ Queue' = writers'[w].queue /\ DOMAIN writers' = {w}
      BY <3>1, QueueChanged
    <3> QED
      BY <3>1, <3>2
  <2>3. /\ writers'[w].status = writers[w].status
        /\ ~poisoned => writers'[w].forwarding = writers[w].forwarding
    BY <1>6, NoteWriter
  <2>4. Going'
    BY <2>1, <2>2, <2>3 DEF OnceInv, Going
  <2> QED
    BY <2>1, <2>2, <2>4, NoEntryMoves
<1>7. CASE GetDurableTxOffset
  <2>1. UNCHANGED <<writers, file, sending, appended, restarts>> /\ ~poisoned
    BY <1>7 DEF GetDurableTxOffset
  <2>2. Queue' = Queue /\ Going'
    BY <2>1 DEF Queue, OnceInv, Going
  <2> QED
    BY <2>1, <2>2, NoEntryMoves
<1>8. CASE Restart
  <2>1. /\ writers' = << >> /\ sending' = {} /\ restarts' = restarts + 1
        /\ UNCHANGED <<file, appended>> /\ Entries' = Entries
    BY <1>8 DEF Restart, Entries
  <2>2. restarts' # 0
    <3>1. restarts \in Nat
      BY AssumedBounds DEF TypeOK
    <3> QED
      BY <2>1, <3>1
  <2>3. Queue' = << >> /\ 1 .. Len(<< >>) = {} /\ DOMAIN << >> = {}
    BY <2>1 DEF Queue
  <2> QED
    BY <2>1, <2>2, <2>3 DEF OnceInv, Known, Apart, Going, NoneLost
<1>9. CASE UNCHANGED vars
  <2>1. UNCHANGED <<writers, file, sending, appended, poisoned, restarts>>
    BY <1>9 DEF vars
  <2>2. Queue' = Queue /\ Going'
    BY <2>1 DEF Queue, OnceInv, Going
  <2> QED
    BY <2>1, <2>2, NoEntryMoves
<1> QED
  BY <1>1, <1>2, <1>3, <1>4, <1>5, <1>6, <1>7, <1>8, <1>9 DEF Next

LEMMA OnceInit ==
  ASSUME Init PROVE OnceInv
<1>1. /\ file = << >> /\ writers = << >> /\ sending = {} /\ appended = 0
  BY DEF Init
<1>2. Queue = << >> /\ 1 .. Len(<< >>) = {} /\ DOMAIN << >> = {} /\ 0 .. 0 - 1 = {}
  BY <1>1 DEF Queue
<1> QED
  BY <1>1, <1>2 DEF OnceInv, Known, Apart, Going, NoneLost, Entries

\* The places of an entry, with one writer.
LEMMA PlacesOf ==
  ASSUME TypeOK, LogInv, NEW o, NEW p
  PROVE  p \in Places(o) <=>
           \/ \E t \in sending : t.offset = o /\ p = <<"task", t.to, 0>>
           \/ \E i \in 1 .. Len(Queue) : Queue[i] = o /\ p = <<"queue", 1, i>>
           \/ \E i \in 1 .. Len(file) : file[i] = o /\ p = <<"file", i, 0>>
<1>1. ASSUME NEW w \in DOMAIN writers
      PROVE  w = 1 /\ DOMAIN writers[w].queue = 1 .. Len(Queue) /\ Queue = writers[w].queue
  BY OneWriter, QueueIs, QueueType DEF LogInv
<1>2. writers = << >> \/ 1 \in DOMAIN writers
  BY DEF TypeOK
<1>3. writers = << >> => 1 .. Len(Queue) = {}
  BY DEF Queue
<1>4. DOMAIN file = 1 .. Len(file)
  BY DEF TypeOK
<1>5. (\E w \in DOMAIN writers : \E i \in DOMAIN writers[w].queue :
          writers[w].queue[i] = o /\ p = <<"queue", w, i>>)
      <=> \E i \in 1 .. Len(Queue) : Queue[i] = o /\ p = <<"queue", 1, i>>
  BY <1>1, <1>2, <1>3
<1>6. p \in WithTask(o) <=> \E t \in sending : t.offset = o /\ p = <<"task", t.to, 0>>
  BY DEF WithTask
<1>7. ASSUME NEW w \in DOMAIN writers
      PROVE  p \in InQueue(o, w)
             <=> \E i \in DOMAIN writers[w].queue : writers[w].queue[i] = o /\ p = <<"queue", w, i>>
  BY DEF InQueue
<1>8. p \in InFile(o) <=> \E i \in 1 .. Len(file) : file[i] = o /\ p = <<"file", i, 0>>
  BY <1>4 DEF InFile
<1>9. p \in InQueues(o) <=> \E w \in DOMAIN writers : p \in InQueue(o, w)
  BY DEF InQueues
<1>10. p \in InQueues(o)
       <=> \E i \in 1 .. Len(Queue) : Queue[i] = o /\ p = <<"queue", 1, i>>
  BY <1>5, <1>7, <1>9, Zenon
<1> QED
  BY <1>6, <1>8, <1>10 DEF Places

(***************************************************************************)
(* With one handle, whose log is only read after a restart, channels of    *)
(* any size and any number of transactions: an entry that was appended is  *)
(* in one place only, and it is in one until the process ends or a mutex   *)
(* is poisoned.                                                            *)
(***************************************************************************)
THEOREM WrittenOnce == ASSUME OneLog PROVE Spec => []EachWrittenOnce
<1>1. Init => OnceInv
  BY OnceInit
<1>2. TypeOK /\ TypeOK' /\ LogInv /\ OnceInv /\ [Next]_vars => OnceInv'
  BY OnceStep
<1>3. ASSUME TypeOK, LogInv, OnceInv PROVE EachWrittenOnce
  <2> SUFFICES ASSUME NEW o \in 0 .. appended - 1
               PROVE  /\ \A p, q \in Places(o) : p = q
                      /\ restarts = 0 /\ ~poisoned => Places(o) # {}
    BY DEF EachWrittenOnce
  <2>1. ASSUME NEW p \in Places(o), NEW q \in Places(o) PROVE p = q
    <3>1. \A i \in 1 .. Len(file) : file[i] \in Entries
      BY DEF Entries
    <3> QED
      BY <1>3, <2>1, <3>1, PlacesOf DEF OnceInv, Apart
  <2>2. ASSUME restarts = 0, ~poisoned PROVE Places(o) # {}
    <3>1. InFlight(o)
      BY <1>3, <2>2 DEF OnceInv, NoneLost
    <3> QED
      BY <1>3, <3>1, PlacesOf DEF InFlight, Entries
  <2> QED
    BY <2>1, <2>2
<1> QED
  BY <1>1, <1>2, <1>3, LogAlways, PTL DEF Spec
=============================================================================
