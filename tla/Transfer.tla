------------------------------ MODULE Transfer ------------------------------
(***************************************************************************)
(* Transfers as values (transfer/transfer_executor.cpp): the record the    *)
(* executor keeps of a transfer, what each of its operations makes of the  *)
(* record, and the same for a table of transfers and the destination       *)
(* buffers.  TransferExecutor makes actions of them, NcclPlugin uses them  *)
(* on the transfers of its requests.                                       *)
(***************************************************************************)
EXTENDS Striping

-----------------------------------------------------------------------------
(* One transfer *)

TransferStates == {"InFlight", "SuspendPending", "Paused", "Completed", "Cancelled"}

TransferProgress ==
  [state          : TransferStates,
   preemptible    : BOOLEAN,
   suspend        : BOOLEAN,          \* suspend_at_boundary
   pathEdges      : SUBSET UNION Paths,
   bytesTotal     : Nat,
   bytesRemaining : Nat,
   chunks         : Seq(ChunkProgress)]

Slot(c) == RailOf[c.path] % RailCount

(* What the loops of tick, reroute and submit_striped do to Pending        *)
(* chunks: in order, start each one whose rail slot is still free.         *)
FirstForSlot(chunks, i) ==
  /\ chunks[i].state = "Pending"
  /\ \A j \in DOMAIN chunks :
       Slot(chunks[j]) = Slot(chunks[i]) =>
         /\ chunks[j].state # "InFlight"
         /\ j < i => chunks[j].state # "Pending"

\* mutant: start every Pending chunk, ignoring the rail slots
ActivateAll(chunks) ==
  [i \in DOMAIN chunks |->
     IF chunks[i].state = "Pending" THEN [chunks[i] EXCEPT !.state = "InFlight"]
                                    ELSE chunks[i]]

Activate(chunks) ==
  [i \in DOMAIN chunks |->
     IF FirstForSlot(chunks, i) THEN [chunks[i] EXCEPT !.state = "InFlight"]
                                ELSE chunks[i]]

(* On suspension the Pending chunks are parked.                            *)
Park(chunks) ==
  [i \in DOMAIN chunks |->
     IF chunks[i].state = "Pending" THEN [chunks[i] EXCEPT !.state = "Paused"]
                                    ELSE chunks[i]]

(* The units a chunk moves in a tick, clamped to what is left of it.       *)
\* mutant: the step is not clamped to the end of the chunk
StepUnclamped(c, rate) == IF c.state = "InFlight" THEN rate[c.path] ELSE 0

StepOf(c, rate) ==
  IF c.state = "InFlight" THEN Smaller(rate[c.path], c.size - c.sent) ELSE 0

Advance(c, rate) ==
  LET sent == c.sent + StepOf(c, rate)
  IN  [c EXCEPT !.sent  = sent,
                !.state = IF c.state = "InFlight" /\ sent >= c.size
                            THEN "Completed" ELSE c.state]

Active(tp) == tp.state \in {"InFlight", "SuspendPending"}

(* The chunks as a tick sees them once it has parked or started some.      *)
Begun(tp) == IF tp.suspend THEN Park(tp.chunks) ELSE Activate(tp.chunks)

\* mutant: only finished chunks count, not the bytes of those in progress
RemainingByChunk(tp, chunks) ==
  tp.bytesTotal -
    SentBytes([i \in DOMAIN chunks |->
                 IF chunks[i].state = "Completed" THEN chunks[i]
                                                  ELSE [chunks[i] EXCEPT !.sent = 0]])

Remaining(tp, chunks) ==
  LET sent == SentBytes(chunks)
  IN  IF tp.bytesTotal > sent THEN tp.bytesTotal - sent ELSE 0

\* mutant: pause as soon as the Pending chunks are parked, mid-chunk
NeverDraining(chunks) == FALSE

Draining(chunks) == \E i \in DOMAIN chunks : chunks[i].state = "InFlight"

(* One transfer's share of tick.                                           *)
Ticked(tp, rate) ==
  LET begun == Begun(tp)
      moved == [i \in DOMAIN begun |-> Advance(begun[i], rate)]
      left  == Remaining(tp, moved)
      next  == [tp EXCEPT !.chunks = moved, !.bytesRemaining = left]
  IN  IF left = 0
        THEN [next EXCEPT !.state = "Completed", !.suspend = FALSE,
                !.chunks = [i \in DOMAIN moved |->
                              [moved[i] EXCEPT !.state = "Completed"]]]
      ELSE IF ~tp.suspend  THEN next
      ELSE IF Draining(moved) THEN [next EXCEPT !.state = "SuspendPending"]
      ELSE [next EXCEPT !.state = "Paused", !.suspend = FALSE]

(* The bytes the tick copies: maybe_wire_chunk at byte_offset + bytes_sent *)
Wired(tp, rate, b) ==
  LET begun == Begun(tp)
  IN  {i \in DOMAIN begun :
         LET at == begun[i].offset + begun[i].sent
         IN  b \in at .. (at + StepOf(begun[i], rate) - 1)}

Suspended(tp) == [tp EXCEPT !.suspend = TRUE, !.state = "SuspendPending"]

Cancelled(tp) ==
  [tp EXCEPT !.state = "Cancelled", !.bytesRemaining = 0,
     !.chunks = [i \in DOMAIN tp.chunks |->
                   IF tp.chunks[i].state = "Completed" THEN tp.chunks[i]
                   ELSE [tp.chunks[i] EXCEPT !.state = "Cancelled"]]]

\* mutant: a rerouted chunk starts again from its first byte
RequeuedFromStart(c, path) ==
  IF c.state = "Completed" THEN c
  ELSE [c EXCEPT !.path = path, !.state = "Pending", !.sent = 0]

\* mutant: chunks that are already complete are moved to the new path too
RequeuedAll(c, path) == [c EXCEPT !.path = path]

(* A chunk a reroute finds: only Completed ones keep their path.  The      *)
(* states reroute admits have no Cancelled chunk.                          *)
Requeued(c, path) ==
  IF c.state = "Completed" THEN c
  ELSE [c EXCEPT !.path = path, !.state = "Pending"]

Reroutable(tp) == tp.state \in {"Paused", "InFlight", "SuspendPending"}

Rerouted(tp, path) ==
  [tp EXCEPT !.state = "InFlight", !.suspend = FALSE, !.pathEdges = path,
     !.chunks = Activate([i \in DOMAIN tp.chunks |-> Requeued(tp.chunks[i], path)])]

SharesEdge(path, busy) == path \cap busy # {}

Preemptable(tp, busy) ==
  /\ tp.preemptible
  /\ tp.state = "InFlight"
  /\ \/ SharesEdge(tp.pathEdges, busy)
     \/ \E i \in DOMAIN tp.chunks :
          tp.chunks[i].state = "InFlight" /\ SharesEdge(tp.chunks[i].path, busy)

NewTransfer(kv, total, chunks) ==
  [state          |-> "InFlight",
   preemptible    |-> kv,
   suspend        |-> FALSE,
   pathEdges      |-> UNION {chunks[i].path : i \in DOMAIN chunks},
   bytesTotal     |-> total,
   bytesRemaining |-> total,
   chunks         |-> Activate(chunks)]

\* mutant: no test of the state, so a finished transfer can be suspended
PausableAlways(tp) == tp.preemptible

Pausable(tp) == tp.preemptible /\ Active(tp)

-----------------------------------------------------------------------------
(* A table of transfers *)

Submitted(table, kv, total, chunks) == Append(table, NewTransfer(kv, total, chunks))

SuspendAll(table, ids) ==
  [id \in DOMAIN table |-> IF id \in ids THEN Suspended(table[id]) ELSE table[id]]

TickAll(table, rate) ==
  [id \in DOMAIN table |-> IF Active(table[id]) THEN Ticked(table[id], rate) ELSE table[id]]

CopyAll(mem, table, rate) ==
  [id \in DOMAIN mem |->
     IF Active(table[id])
       THEN [b \in DOMAIN mem[id] |-> mem[id][b] + Cardinality(Wired(table[id], rate, b))]
       ELSE mem[id]]

(* complete_locked runs the callback for each transfer the step finishes.  *)
Called(calls, before, after) ==
  [id \in DOMAIN calls |->
     IF before[id].state # "Completed" /\ after[id].state = "Completed"
       THEN calls[id] + 1 ELSE calls[id]]
=============================================================================
