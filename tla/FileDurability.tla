---------------------------- MODULE FileDurability ----------------------------
(***************************************************************************)
(* ExampleDurabilityLayer: a log in one file. append_tx spawns a task that *)
(* sends the entry to the writer, a task that owns the file; the writer    *)
(* sends the offset of what it has written and synced to a third task, the *)
(* forwarder, which keeps it in durable_offset.                            *)
(*                                                                         *)
(* A clone of the layer shares durable_offset and the path, not the writer *)
(* (Handle: the clones). An entry is its tx_offset. A torn entry ends iter *)
(* as the end of the file does, so writing, flushing and syncing one is    *)
(* one step. I/O errors, on which the writer and iter panic, are left out, *)
(* but for the file that is not there yet.                                 *)
(***************************************************************************)
EXTENDS Integers, Sequences, SequencesExt

CONSTANTS
  Handle,               \* the clones of the layer
  ChannelSize,          \* capacity of the two channels of a writer, 64
  MaxAppends,           \* bound: transactions appended
  MaxRestarts,          \* bound: restarts of the process
  AppendsAfterRestart   \* whether a log that is there is appended to

ASSUME ChannelSizeAssumption == ChannelSize \in Nat \ {0}
ASSUME BoundsAssumption == MaxAppends \in Nat \ {0} /\ MaxRestarts \in Nat
ASSUME AppendsAfterRestartAssumption == AppendsAfterRestart \in BOOLEAN

VARIABLES
  exists,          \* whether the file is there
  file,            \* the offsets of the entries in the file
  tx,              \* self.tx of each handle: its writer, 0 for None
  writers,         \* the writers with their channels and forwarders
  sending,         \* the tasks that have not sent their entry: [to, offset]
  durable_offset,  \* the cached watermark
  poisoned,        \* a panic poisoned the mutex of durable_offset
  appended,        \* history: offsets given out, from 0
  reported,        \* history: offsets that get_durable_tx_offset returned
  restarts         \* history

vars == <<exists, file, tx, writers, sending, durable_offset, poisoned,
          appended, reported, restarts>>

NoOffset == -1
Hole == -2     \* what is before a write behind the end of the file
Offset == 0 .. MaxAppends - 1

\* starting: before the file is open; holding: written, not yet reported.
Status == {"starting", "waiting", "holding", "dead"}

NewWriter ==
  [status |-> "starting", cursor |-> 0, queue |-> << >>,
   holds |-> NoOffset, acks |-> << >>, forwarding |-> TRUE]

Writer ==
  [status : Status, cursor : Nat, queue : Seq(Offset),
   holds : Offset \cup {NoOffset}, acks : Seq(Offset), forwarding : BOOLEAN]

TypeOK ==
  /\ exists \in BOOLEAN
  /\ file \in Seq(Offset \cup {Hole})
  /\ tx \in [Handle -> 0 .. Len(writers)]
  /\ writers \in Seq(Writer)
  /\ \A w \in DOMAIN writers :
       /\ Len(writers[w].queue) <= ChannelSize
       /\ Len(writers[w].acks) <= ChannelSize
       /\ writers[w].status = "holding" <=> writers[w].holds # NoOffset
  /\ sending \subseteq [to : DOMAIN writers, offset : Offset]
  /\ durable_offset \in Offset \cup {NoOffset}
  /\ poisoned \in BOOLEAN
  /\ appended \in 0 .. MaxAppends
  /\ reported \subseteq Offset
  /\ restarts \in 0 .. MaxRestarts

Init ==
  /\ exists = FALSE
  /\ file = << >>
  /\ tx = [h \in Handle |-> 0]
  /\ writers = << >>
  /\ sending = {}
  /\ durable_offset = NoOffset
  /\ poisoned = FALSE
  /\ appended = 0
  /\ reported = {}
  /\ restarts = 0

-----------------------------------------------------------------------------
AppendTx_MutForgetsWriter(h) ==
  /\ appended < MaxAppends
  /\ restarts > 0 => AppendsAfterRestart
  /\ writers' = Append(writers, NewWriter)
  /\ sending' = sending \cup {[to |-> Len(writers'), offset |-> appended]}
  /\ appended' = appended + 1
  /\ UNCHANGED <<exists, file, tx, durable_offset, poisoned, reported, restarts>>

\* append_tx. The first call of a handle spawns its writer and forwarder.
AppendTx(h) ==
  /\ appended < MaxAppends
  /\ restarts > 0 => AppendsAfterRestart
  /\ IF tx[h] = 0
     THEN /\ writers' = Append(writers, NewWriter)
          /\ tx' = [tx EXCEPT ![h] = Len(writers')]
     ELSE UNCHANGED <<writers, tx>>
  /\ sending' = sending \cup {[to |-> tx'[h], offset |-> appended]}
  /\ appended' = appended + 1
  /\ UNCHANGED <<exists, file, durable_offset, poisoned, reported, restarts>>

Send_MutUnbounded(task) ==
  /\ writers' = [writers EXCEPT ![task.to].queue =
                   IF writers[task.to].status = "dead" THEN @ ELSE Append(@, task.offset)]
  /\ sending' = sending \ {task}
  /\ UNCHANGED <<exists, file, tx, durable_offset, poisoned, appended, reported, restarts>>

Send_MutKeepsTask(task) ==
  /\ Len(writers[task.to].queue) < ChannelSize
  /\ writers' = [writers EXCEPT ![task.to].queue =
                   IF writers[task.to].status = "dead" THEN @ ELSE Append(@, task.offset)]
  /\ UNCHANGED <<exists, file, tx, sending, durable_offset, poisoned, appended, reported, restarts>>

\* tx.send(..).await of one of the tasks, whichever runs first; to a writer
\* that is dead it panics, and the entry is lost.
Send(task) ==
  /\ Len(writers[task.to].queue) < ChannelSize
  /\ writers' = [writers EXCEPT ![task.to].queue =
                   IF writers[task.to].status = "dead" THEN @ ELSE Append(@, task.offset)]
  /\ sending' = sending \ {task}
  /\ UNCHANGED <<exists, file, tx, durable_offset, poisoned, appended, reported, restarts>>

\* AsyncFile::create, which empties a file that is there.
CreateFile(w) ==
  /\ writers[w].status = "starting"
  /\ exists' = TRUE
  /\ file' = << >>
  /\ writers' = [writers EXCEPT ![w].status = "waiting"]
  /\ UNCHANGED <<tx, sending, durable_offset, poisoned, appended, reported, restarts>>

\* The file with offset at a position of the writer's own.
Put(offset, position) ==
  [i \in 1 .. IF position > Len(file) THEN position ELSE Len(file) |->
     IF i = position THEN offset ELSE IF i <= Len(file) THEN file[i] ELSE Hole]

WriteEntry_MutCursorStays(w) ==
  /\ writers[w].status = "waiting"
  /\ writers[w].queue # << >>
  /\ LET offset == Head(writers[w].queue)
     IN  /\ file' = Put(offset, writers[w].cursor + 1)
         /\ writers' = [writers EXCEPT ![w].status = "holding",
                                       ![w].queue = Tail(@), ![w].holds = offset]
  /\ UNCHANGED <<exists, tx, sending, durable_offset, poisoned, appended, reported, restarts>>

WriteEntry(w) ==
  /\ writers[w].status = "waiting"
  /\ writers[w].queue # << >>
  /\ LET offset == Head(writers[w].queue)
     IN  /\ file' = Put(offset, writers[w].cursor + 1)
         /\ writers' = [writers EXCEPT ![w].status = "holding", ![w].cursor = @ + 1,
                                       ![w].queue = Tail(@), ![w].holds = offset]
  /\ UNCHANGED <<exists, tx, sending, durable_offset, poisoned, appended, reported, restarts>>

\* out_tx.send(..).await; with the forwarder gone, expect ends the writer,
\* and the entries in its channel are lost.
Acknowledge(w) ==
  /\ writers[w].status = "holding"
  /\ IF writers[w].forwarding
     THEN /\ Len(writers[w].acks) < ChannelSize
          /\ writers' = [writers EXCEPT ![w].status = "waiting", ![w].holds = NoOffset,
                                        ![w].acks = Append(@, writers[w].holds)]
     ELSE writers' = [writers EXCEPT ![w].status = "dead", ![w].holds = NoOffset,
                                     ![w].queue = << >>]
  /\ UNCHANGED <<exists, file, tx, sending, durable_offset, poisoned, appended, reported, restarts>>

NoteDurable_MutOnce(w) ==
  /\ writers[w].acks # << >>
  /\ durable_offset' = Head(writers[w].acks)
  /\ writers' = [writers EXCEPT ![w].forwarding = FALSE, ![w].acks = << >>]
  /\ UNCHANGED <<exists, file, tx, sending, poisoned, appended, reported, restarts>>

\* The forwarder; a poisoned mutex ends it.
NoteDurable(w) ==
  /\ writers[w].acks # << >>
  /\ IF poisoned
     THEN /\ writers' = [writers EXCEPT ![w].forwarding = FALSE, ![w].acks = << >>]
          /\ UNCHANGED durable_offset
     ELSE /\ durable_offset' = Head(writers[w].acks)
          /\ writers' = [writers EXCEPT ![w].acks = Tail(@)]
  /\ UNCHANGED <<exists, file, tx, sending, poisoned, appended, reported, restarts>>

\* The last offset that iter yields, 0 if none. Behind a hole it reads what
\* happens to be there.
LastYielded ==
  IF file = << >> THEN {0}
  ELSE IF \E i \in 1 .. Len(file) : file[i] = Hole THEN Offset
  ELSE {Last(file)}

\* get_durable_tx_offset returns what is cached, and caches what it reads of
\* the file otherwise. Without a file iter panics, with the mutex held.
GetDurableTxOffset ==
  /\ ~poisoned
  /\ \/ /\ durable_offset # NoOffset
        /\ reported' = reported \cup {durable_offset}
        /\ UNCHANGED <<durable_offset, poisoned>>
     \/ /\ durable_offset = NoOffset /\ exists
        /\ durable_offset' \in LastYielded
        /\ reported' = reported \cup {durable_offset'}
        /\ UNCHANGED poisoned
     \/ /\ durable_offset = NoOffset /\ ~exists
        /\ poisoned' = TRUE
        /\ UNCHANGED <<durable_offset, reported>>
  /\ UNCHANGED <<exists, file, tx, writers, sending, appended, restarts>>

\* The process ends and starts again: the file is what is left.
Restart ==
  /\ restarts < MaxRestarts
  /\ restarts' = restarts + 1
  /\ tx' = [h \in Handle |-> 0]
  /\ writers' = << >>
  /\ sending' = {}
  /\ durable_offset' = NoOffset
  /\ poisoned' = FALSE
  /\ UNCHANGED <<exists, file, appended, reported>>

Next ==
  \/ \E h \in Handle : AppendTx(h)
  \/ \E task \in sending : Send(task)
  \/ \E w \in DOMAIN writers :
       CreateFile(w) \/ WriteEntry(w) \/ Acknowledge(w) \/ NoteDurable(w)
  \/ GetDurableTxOffset
  \/ Restart

Spec == Init /\ [][Next]_vars

\* The tasks run: tokio schedules whatever can go on.
FairSpec ==
  /\ Spec
  /\ \A w \in 1 .. MaxAppends : WF_vars(/\ w <= Len(writers)
                                         /\ \/ CreateFile(w) \/ WriteEntry(w)
                                            \/ Acknowledge(w) \/ NoteDurable(w))
  /\ \A w \in 1 .. MaxAppends, o \in Offset :
       LET task == [to |-> w, offset |-> o] IN WF_vars(task \in sending /\ Send(task))

-----------------------------------------------------------------------------
Entries == {file[i] : i \in 1 .. Len(file)}

\* Where the entry of offset o is: with its task, in a channel, in the file.
WithTask(o) == {<<"task", t.to, 0>> : t \in {u \in sending : u.offset = o}}
InQueue(o, w) == {<<"queue", w, i>> : i \in {j \in DOMAIN writers[w].queue : writers[w].queue[j] = o}}
InQueues(o) == UNION {InQueue(o, w) : w \in DOMAIN writers}
InFile(o) == {<<"file", i, 0>> : i \in {j \in DOMAIN file : file[j] = o}}
Places(o) == WithTask(o) \cup InQueues(o) \cup InFile(o)

(***************************************************************************)
(* An entry that was appended is in one place: with its task, in the       *)
(* writer's channel or in the file, whatever the order in which the tasks  *)
(* run. Only a restart or a writer that panicked loses one; nothing makes  *)
(* two of it.                                                              *)
(***************************************************************************)
EachWrittenOnce ==
  \A o \in 0 .. appended - 1 :
    /\ \A p, q \in Places(o) : p = q
    /\ restarts = 0 /\ ~poisoned => Places(o) # {}

(***************************************************************************)
(* What get_durable_tx_offset returned, from the cache that a forwarder    *)
(* keeps or from the file, is the offset of an entry in the file, and is   *)
(* after a restart as well. Not so 0: it also returns 0 for a file with    *)
(* nothing in it (unwrap_or), and keeps that in the cache. Nor does it say *)
(* anything of lower offsets: a later entry may be written first. Hence it *)
(* is not what the doc of the function promises, "the durability watermark *)
(* i.e., where in the log the entry is guaranteed to be durable".          *)
(***************************************************************************)
ReportedSurvives == reported \ {0} \subseteq Entries

(***************************************************************************)
(* "we will be writing the TxData to an append only file"                  *)
(* (example_durability.rs, append_tx): no step takes an entry out of it or *)
(* moves one.                                                              *)
(***************************************************************************)
FileIsAppendOnly == [][IsPrefix(file, file')]_vars

(***************************************************************************)
(* Every entry gets into the file: no task waits for another for ever,     *)
(* even where both channels are full.                                      *)
(***************************************************************************)
EveryAppendIsWritten ==
  \A o \in Offset : appended > o ~> (o \in Entries \/ restarts > 0 \/ poisoned)
=============================================================================
