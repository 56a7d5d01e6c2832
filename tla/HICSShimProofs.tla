--------------------------- MODULE HICSShimProofs ---------------------------
(***************************************************************************)
(* What the shim and the path engine make of the executor, for every set   *)
(* of paths and routes, any quantum, sizes, rates and number of transfers: *)
(* no suspended migration is forgotten, none stops within a chunk, and the *)
(* calls implement the promise of Delivery, as far as safety goes.         *)
(***************************************************************************)
EXTENDS HICSShim, TransferExecutorProofs

-----------------------------------------------------------------------------
(* One transfer in the shim's hands *)

(* Nothing is cancelled; a suspension is asked for until it is reached;    *)
(* and a chunk that waits has not begun, as only what is paused at a chunk *)
(* boundary is rerouted.                                                   *)
Steered(tp) ==
  /\ tp.state # "Cancelled"
  /\ tp.suspend <=> tp.state = "SuspendPending"
  /\ \A i \in DOMAIN tp.chunks : tp.chunks[i].state \in {"Pending", "Paused"} => tp.chunks[i].sent = 0

(* SuspendedIsQueued, of one transfer and its entries in the queue.        *)
QueueOK(tp, q) ==
  \/ Finished(tp)
  \/ q = IF tp.state \in {"SuspendPending", "Paused"} THEN 1 ELSE 0

LEMMA SteerSuspended ==
  ASSUME NEW tp, TransferOK(tp), Steered(tp), tp.state = "InFlight"
  PROVE  /\ Steered(Suspended(tp)) /\ Suspended(tp).state = "SuspendPending"
         /\ Suspended(tp).preemptible = tp.preemptible
BY DEF TransferOK, TransferProgress, Suspended, Steered

LEMMA ActivateBoundary ==
  ASSUME NEW chunks, ChunksOK(chunks), NEW i \in DOMAIN chunks,
         chunks[i].state \in {"Pending", "Paused"} => chunks[i].sent = 0
  PROVE  /\ Activate(chunks)[i].state \in {"Pending", "Paused"} => Activate(chunks)[i].sent = 0
         /\ Park(chunks)[i].state \in {"Pending", "Paused"} => Park(chunks)[i].sent = 0
<1>1. chunks[i] \in ChunkProgress
  BY DEF ChunksOK
<1>2. Activate(chunks)[i] \in {chunks[i], [chunks[i] EXCEPT !.state = "InFlight"]}
  BY DEF Activate
<1>3. Park(chunks)[i] = IF chunks[i].state = "Pending"
                          THEN [chunks[i] EXCEPT !.state = "Paused"] ELSE chunks[i]
  BY DEF Park
<1>4. QED BY <1>1, <1>2, <1>3 DEF ChunkProgress

LEMMA SteerRerouted ==
  ASSUME NEW tp, TransferOK(tp), Steered(tp), Quiescent(tp), NEW path \in Paths
  PROVE  /\ Steered(Rerouted(tp, path)) /\ Rerouted(tp, path).state = "InFlight"
         /\ Rerouted(tp, path).preemptible = tp.preemptible
         /\ Rerouted(tp, path).bytesTotal = tp.bytesTotal
<1> DEFINE queued == [i \in DOMAIN tp.chunks |-> Requeued(tp.chunks[i], path)]
<1>1. /\ Rerouted(tp, path).chunks = Activate(queued) /\ ~Rerouted(tp, path).suspend
      /\ Rerouted(tp, path).state = "InFlight"
      /\ Rerouted(tp, path).preemptible = tp.preemptible
      /\ Rerouted(tp, path).bytesTotal = tp.bytesTotal
  BY DEF Rerouted, TransferOK, TransferProgress
<1>2. \A i \in DOMAIN tp.chunks :
        /\ tp.chunks[i] \in ChunkProgress /\ tp.chunks[i].sent <= tp.chunks[i].size
        /\ tp.chunks[i].state \in {"Completed", "Paused"}
        /\ tp.chunks[i].state = "Paused" => tp.chunks[i].sent = 0
  BY DEF TransferOK, ChunksOK, Quiescent, Steered
<1>3. \A i \in DOMAIN tp.chunks :
        /\ queued[i] \in ChunkProgress /\ queued[i].sent <= queued[i].size
        /\ queued[i].state \in {"Pending", "Paused"} => queued[i].sent = 0
  BY <1>2 DEF Requeued, ChunkProgress, ChunkStates
<1>4. DOMAIN queued = DOMAIN tp.chunks /\ queued = [i \in DOMAIN queued |-> queued[i]]
  OBVIOUS
<1> HIDE DEF queued
<1>5. queued \in Seq(ChunkProgress)
  BY <1>3, <1>4, MapChunks DEF TransferOK, ChunksOK
<1>6. ChunksOK(queued)
  BY <1>3, <1>4, <1>5 DEF ChunksOK
<1>7. \A i \in DOMAIN queued : Activate(queued)[i].state \in {"Pending", "Paused"} =>
                                  Activate(queued)[i].sent = 0
  BY <1>3, <1>4, <1>6, ActivateBoundary
<1>8. DOMAIN Activate(queued) = DOMAIN queued
  BY DEF Activate
<1>9. QED BY <1>1, <1>7, <1>8 DEF Steered

(* A tick: a transfer that is not asked to stop runs on or completes, one  *)
(* that is asked drains, stops or completes; it completes when no byte     *)
(* remains, and only then.                                                 *)
LEMMA SteerTicked ==
  ASSUME NEW tp, TransferOK(tp), Delivers(tp), Steered(tp), Active(tp),
         NEW rate \in [Paths -> Nat]
  PROVE  LET after == Ticked(tp, rate)
         IN  /\ Steered(after) /\ after.preemptible = tp.preemptible
             /\ tp.state = "InFlight" => after.state \in {"InFlight", "Completed"}
             /\ tp.state = "SuspendPending" => after.state \in {"SuspendPending", "Paused", "Completed"}
             /\ after.bytesRemaining \in Nat
             /\ after.bytesRemaining = 0 <=> after.state = "Completed"
<1> DEFINE begun == Begun(tp)
           moved == Moved(begun, rate)
           left  == Remaining(tp, moved)
           next  == [tp EXCEPT !.chunks = moved, !.bytesRemaining = left]
           done  == [i \in DOMAIN moved |-> [moved[i] EXCEPT !.state = "Completed"]]
           after == Ticked(tp, rate)
<1>1. after =
        IF left = 0 THEN [next EXCEPT !.state = "Completed", !.suspend = FALSE, !.chunks = done]
        ELSE IF ~tp.suspend THEN next
        ELSE IF Draining(moved) THEN [next EXCEPT !.state = "SuspendPending"]
        ELSE [next EXCEPT !.state = "Paused", !.suspend = FALSE]
  BY DEF Ticked, Moved
<1>2. /\ tp \in TransferProgress /\ tp.state \in {"InFlight", "SuspendPending"}
      /\ tp.suspend <=> tp.state = "SuspendPending"
      /\ ChunksOK(tp.chunks)
  BY DEF TransferOK, Active, Steered
<1>3. ChunksOK(begun) /\ DOMAIN begun = DOMAIN tp.chunks
  BY BegunKeeps DEF SameShape
<1>4. \A i \in DOMAIN begun : begun[i].state \in {"Pending", "Paused"} => begun[i].sent = 0
  BY <1>2, <1>3, ActivateBoundary DEF Begun, Steered
<1> HIDE DEF begun
<1>5. ChunksOK(moved) /\ DOMAIN moved = DOMAIN begun
  BY <1>3, MovedKeeps DEF SameShape
<1>6. ASSUME NEW i \in DOMAIN begun, moved[i].state \in {"Pending", "Paused"}
      PROVE  moved[i].sent = 0
  <2> DEFINE c == begun[i]
             sent == c.sent + StepOf(c, rate)
             state == IF c.state = "InFlight" /\ sent >= c.size THEN "Completed" ELSE c.state
  <2>1. c \in ChunkProgress
    BY <1>3 DEF ChunksOK
  <2>2. moved[i] = [c EXCEPT !.sent = sent, !.state = state]
    BY DEF Moved, Advance
  <2>3. moved[i].sent = sent /\ moved[i].state = state
    BY <2>1, <2>2 DEF ChunkProgress
  <2>4. c.state \in {"Pending", "Paused"}
    BY <1>6, <2>3
  <2>5. StepOf(c, rate) = 0 /\ c.sent = 0
    BY <1>4, <2>4 DEF StepOf
  <2>6. sent = 0
    BY <2>5
  <2>7. QED BY <2>3, <2>6
<1> HIDE DEF moved
<1>7. left \in Nat
  BY <1>2, <1>5, SentBytesType DEF Remaining, TransferProgress
<1> HIDE DEF left
<1>8. CASE left = 0
  <2>1. /\ after.state = "Completed" /\ ~after.suspend /\ after.chunks = done
        /\ after.bytesRemaining = 0 /\ after.preemptible = tp.preemptible
    BY <1>1, <1>2, <1>8 DEF TransferProgress
  <2>2. \A i \in DOMAIN moved : moved[i] \in ChunkProgress
    BY <1>5 DEF ChunksOK
  <2>3. \A i \in DOMAIN done : done[i].state = "Completed"
    BY <2>2 DEF ChunkProgress
  <2> HIDE DEF done
  <2>4. Steered(after)
    BY <2>1, <2>3 DEF Steered
  <2>5. QED BY <1>2, <2>1, <2>4
<1>9. CASE left # 0
  <2>1. /\ after.chunks = moved /\ after.bytesRemaining = left
        /\ after.preemptible = tp.preemptible
        /\ after.state \in {"InFlight", "SuspendPending", "Paused"}
        /\ after.suspend <=> after.state = "SuspendPending"
        /\ tp.state = "InFlight" => after.state = "InFlight"
        /\ tp.state = "SuspendPending" => after.state \in {"SuspendPending", "Paused"}
    BY <1>1, <1>2, <1>9 DEF TransferProgress
  <2>2. Steered(after)
    BY <1>5, <1>6, <2>1 DEF Steered
  <2>3. QED BY <1>7, <1>9, <2>1, <2>2
<1>10. QED BY <1>8, <1>9

LEMMA SteerNew ==
  ASSUME NEW kv \in BOOLEAN, NEW total \in Nat, NEW chunks \in Seq(ChunkProgress),
         \A i \in DOMAIN chunks : chunks[i].sent = 0 /\ chunks[i].state = "Pending"
  PROVE  LET tp == NewTransfer(kv, total, chunks)
         IN  /\ Steered(tp) /\ tp.state = "InFlight" /\ tp.preemptible = kv
<1>1. ChunksOK(chunks)
  <2>1. \A i \in DOMAIN chunks : chunks[i] \in ChunkProgress
    OBVIOUS
  <2>2. QED BY <2>1 DEF ChunksOK, ChunkProgress
<1>2. DOMAIN Activate(chunks) = DOMAIN chunks /\ \A i \in DOMAIN chunks : Activate(chunks)[i].sent = 0
  BY <1>1, ActivateKeeps DEF SameSent, SameShape
<1>3. QED BY <1>2 DEF NewTransfer, Steered

-----------------------------------------------------------------------------
(* The tables in the shim's hands *)

SteerOK(table, queue) ==
  /\ queue \in Seq(Nat) /\ Len(queue) = Len(table)
  /\ \A id \in DOMAIN table : Steered(table[id]) /\ QueueOK(table[id], queue[id])

Live(table) == {id \in DOMAIN table : table[id].preemptible /\ table[id].state # "Completed"}

ShimInv ==
  /\ DeliveryInv
  /\ SteerOK(transfers, pending)
  /\ kvFlows = Live(transfers)
  /\ Len(transfers) <= MaxTransfers
  /\ call \in {"idle", "tick", "drain"}

(* What a step of the shim does to a transfer that was there, in the terms *)
(* of Delivery: nothing, a move or a release.                              *)
StepOK(tp, m, tp2, m2) ==
  \/ StatusOf(tp2) = StatusOf(tp) /\ Lacking(m2) = Lacking(m)
  \/ /\ StatusOf(tp) = "moving" /\ Lacking(m2) <= Lacking(m)
     /\ StatusOf(tp2) \in {"moving", "held"} => Lacking(m2) > 0
     /\ StatusOf(tp2) = "delivered" => Lacking(m2) = 0
  \/ StatusOf(tp) = "held" /\ StatusOf(tp2) = "moving" /\ Lacking(m2) = Lacking(m)

StepsOK(table, mem, table2, mem2) ==
  \A id \in DOMAIN table : StepOK(table[id], mem[id], table2[id], mem2[id])

LEMMA StatusType ==
  ASSUME NEW tp
  PROVE  /\ StatusOf(tp) \in {"moving", "held", "delivered"}
         /\ tp.state \in {"InFlight", "SuspendPending"} => StatusOf(tp) = "moving"
         /\ tp.state = "Paused" => StatusOf(tp) = "held"
         /\ tp.state = "Completed" => StatusOf(tp) = "delivered"
BY DEF StatusOf

LEMMA LackingType ==
  ASSUME NEW n \in Nat, NEW m \in [0 .. (n - 1) -> Nat]
  PROVE  Lacking(m) \in Nat /\ IsFiniteSet({b \in DOMAIN m : m[b] = 0})
<1>1. IsFiniteSet(0 .. (n - 1))
  BY FS_Interval
<1>2. {b \in DOMAIN m : m[b] = 0} \subseteq 0 .. (n - 1)
  OBVIOUS
<1>3. QED BY <1>1, <1>2, FS_Subset, FS_CardinalityType DEF Lacking

(* The tables read entry by entry.                                         *)
LEMMA ShimEntries ==
  ASSUME NEW table, NEW mem, NEW calls, TablesOK(table, mem, calls), EntriesOK(table, mem, calls),
         NEW queue, SteerOK(table, queue)
  PROVE  /\ Len(table) \in Nat /\ DOMAIN table = 1 .. Len(table)
         /\ DOMAIN mem = DOMAIN table /\ DOMAIN calls = DOMAIN table
         /\ DOMAIN queue = DOMAIN table
         /\ \A id \in DOMAIN table :
              /\ TransferOK(table[id]) /\ EntryOK(table[id], mem[id], calls[id])
              /\ table[id].bytesTotal \in Nat
              /\ mem[id] \in [0 .. (table[id].bytesTotal - 1) -> Nat]
              /\ Steered(table[id]) /\ QueueOK(table[id], queue[id]) /\ queue[id] \in Nat
BY DEF TablesOK, EntriesOK, SteerOK, TransferOK, TransferProgress

(* Preempting transfers that are in flight queues each of them once and    *)
(* moves nothing.                                                          *)
LEMMA SteerSuspend ==
  ASSUME NEW table, NEW mem, NEW calls, TablesOK(table, mem, calls), EntriesOK(table, mem, calls),
         NEW queue, SteerOK(table, queue),
         NEW s, s \subseteq DOMAIN table, \A id \in s : table[id].state = "InFlight"
  PROVE  /\ TablesOK(SuspendAll(table, s), mem, calls)
         /\ EntriesOK(SuspendAll(table, s), mem, calls)
         /\ SteerOK(SuspendAll(table, s), PreemptKv(queue, s))
         /\ Live(SuspendAll(table, s)) = Live(table)
         /\ Len(SuspendAll(table, s)) = Len(table)
         /\ DOMAIN SuspendAll(table, s) = DOMAIN table
         /\ StepsOK(table, mem, SuspendAll(table, s), mem)
<1> DEFINE after == SuspendAll(table, s)
           queue2 == PreemptKv(queue, s)
           n == Len(table)
<1>1. /\ n \in Nat /\ DOMAIN table = 1..n /\ DOMAIN queue = 1..n
      /\ \A id \in 1..n : /\ TransferOK(table[id]) /\ Steered(table[id])
                          /\ QueueOK(table[id], queue[id]) /\ queue[id] \in Nat
  BY ShimEntries
<1>2. TablesOK(after, mem, calls) /\ EntriesOK(after, mem, calls)
  BY EntriesSuspend DEF Active
<1>3. /\ after = [id \in 1..n |-> after[id]] /\ DOMAIN after = 1..n
      /\ \A id \in 1..n : after[id] = IF id \in s THEN Suspended(table[id]) ELSE table[id]
  BY <1>1 DEF SuspendAll
<1>4. /\ queue2 = [id \in 1..n |-> queue2[id]]
      /\ \A id \in 1..n : queue2[id] = IF id \in s THEN queue[id] + 1 ELSE queue[id]
  BY <1>1 DEF PreemptKv, Queued
<1> HIDE DEF after, queue2, n
<1>5. Len(after) = n
  <2>1. after \in Seq(TransferProgress)
    BY <1>2 DEF TablesOK
  <2>2. QED BY <1>1, <1>3, <2>1
<1>6. queue2 \in Seq(Nat) /\ Len(queue2) = n
  <2>1. \A id \in 1..n : queue2[id] \in Nat
    BY <1>1, <1>4
  <2>2. queue2 \in [1..n -> Nat]
    BY <1>4, <2>1
  <2>3. QED BY <1>1, <2>2, FunctionIsSeq
<1>7. ASSUME NEW id \in 1..n
      PROVE  /\ Steered(after[id]) /\ QueueOK(after[id], queue2[id])
             /\ after[id].preemptible = table[id].preemptible
             /\ after[id].state = "Completed" <=> table[id].state = "Completed"
             /\ StatusOf(after[id]) = StatusOf(table[id])
  <2>1. CASE id \in s
    <3>1. table[id].state = "InFlight" /\ after[id] = Suspended(table[id])
      BY <1>3, <2>1
    <3>2. /\ Steered(after[id]) /\ after[id].state = "SuspendPending"
          /\ after[id].preemptible = table[id].preemptible
      BY <1>1, <3>1, SteerSuspended
    <3>3. queue[id] = 0 /\ queue2[id] = 1
      BY <1>1, <1>4, <2>1, <3>1 DEF QueueOK, Finished
    <3>4. QED BY <3>1, <3>2, <3>3, StatusType DEF QueueOK
  <2>2. CASE id \notin s
    BY <1>1, <1>3, <1>4, <2>2
  <2>3. QED BY <2>1, <2>2
<1>8. SteerOK(after, queue2)
  BY <1>3, <1>5, <1>6, <1>7 DEF SteerOK
<1>9. Live(after) = Live(table)
  BY <1>1, <1>3, <1>7 DEF Live
<1>10. StepsOK(table, mem, after, mem)
  BY <1>1, <1>7 DEF StepsOK, StepOK
<1>11. QED BY <1>1, <1>2, <1>3, <1>5, <1>8, <1>9, <1>10 DEF after, queue2, n

(* A new transfer has no entry in the queue yet.                           *)
LEMMA SteerAppend ==
  ASSUME NEW table, NEW queue, NEW n \in Nat, DOMAIN table = 1..n, Len(table) = n,
         SteerOK(table, queue),
         NEW tp, Steered(tp), tp.state = "InFlight",
         NEW table2, Len(table2) = n + 1, DOMAIN table2 = 1 .. (n + 1),
         \A id \in 1..n : table2[id] = table[id], table2[n + 1] = tp
  PROVE  /\ SteerOK(table2, Append(queue, 0))
         /\ Live(table2) = Live(table) \cup (IF tp.preemptible THEN {n + 1} ELSE {})
<1>1. queue \in Seq(Nat) /\ Len(queue) = n
  BY DEF SteerOK
<1>2. /\ Append(queue, 0) \in Seq(Nat) /\ Len(Append(queue, 0)) = n + 1
      /\ \A id \in 1..n : Append(queue, 0)[id] = queue[id]
      /\ Append(queue, 0)[n + 1] = 0
  BY <1>1, AppendProperties
<1>3. \A id \in 1 .. (n + 1) : id \in 1..n \/ id = n + 1
  OBVIOUS
<1>4. QueueOK(tp, 0)
  BY DEF QueueOK
<1>5. \A id \in 1..n : Steered(table[id]) /\ QueueOK(table[id], queue[id])
  BY DEF SteerOK
<1>6. \A id \in 1 .. (n + 1) : Steered(table2[id]) /\ QueueOK(table2[id], Append(queue, 0)[id])
  BY <1>2, <1>3, <1>4, <1>5
<1>7. SteerOK(table2, Append(queue, 0))
  BY <1>2, <1>6 DEF SteerOK
<1>8. Live(table2) = Live(table) \cup (IF tp.preemptible THEN {n + 1} ELSE {})
  BY <1>3 DEF Live
<1>9. QED BY <1>7, <1>8

-----------------------------------------------------------------------------
(* The calls *)

(* The conclusion of every step: the invariant is kept, at most one        *)
(* transfer is new, and the others take a step that Delivery knows.        *)
GoodStep ==
  /\ ShimInv'
  /\ StepsOK(transfers, copied, transfers', copied')
  /\ \/ Len(transfers') = Len(transfers)
     \/ /\ Len(transfers') = Len(transfers) + 1
        /\ transfers'[Len(transfers) + 1].state = "InFlight"

LEMMA ChoicesInFlight ==
  ASSUME NEW best, NEW s \in PreemptChoices(best)
  PROVE  s \subseteq DOMAIN transfers /\ \A id \in s : transfers[id].state = "InFlight"
<1>1. s = {} \/ s \in Victims(transfers, best)
  BY DEF PreemptChoices
<1>2. QED BY <1>1, VictimsActive

LEMMA SelectKeeps ==
  ASSUME ShimInv, SelectPath
  PROVE  GoodStep
<1>0. PICK best \in Routes : \E s \in PreemptChoices(best) :
        /\ transfers' = SuspendAll(transfers, s) /\ pending' = PreemptKv(pending, s)
        /\ UNCHANGED <<copied, callbacks, kvFlows, call>>
  BY DEF SelectPath
<1>1. PICK s \in PreemptChoices(best) :
        /\ transfers' = SuspendAll(transfers, s) /\ pending' = PreemptKv(pending, s)
        /\ UNCHANGED <<copied, callbacks, kvFlows, call>>
  BY <1>0
<1>2. s \subseteq DOMAIN transfers /\ \A id \in s : transfers[id].state = "InFlight"
  BY ChoicesInFlight
<1>3. TablesOK(transfers, copied, callbacks) /\ EntriesOK(transfers, copied, callbacks)
  BY DEF ShimInv, DeliveryInv, ExecutorInv
<1>4. /\ TablesOK(transfers', copied, callbacks) /\ EntriesOK(transfers', copied, callbacks)
      /\ SteerOK(transfers', pending') /\ Live(transfers') = Live(transfers)
      /\ Len(transfers') = Len(transfers) /\ StepsOK(transfers, copied, transfers', copied)
  BY <1>1, <1>2, <1>3, SteerSuspend DEF ShimInv
<1>5. QED BY <1>1, <1>4 DEF ShimInv, DeliveryInv, ExecutorInv, GoodStep

(* A submission of any kind, with the preemption it may begin with.        *)
LEMMA ScheduleKeeps ==
  ASSUME ShimInv,
         NEW s, s \subseteq DOMAIN transfers, \A id \in s : transfers[id].state = "InFlight",
         NEW kv \in BOOLEAN, NEW total \in Nat, NEW chunks \in Seq(ChunkProgress),
         Layout(chunks, total),
         \A i \in DOMAIN chunks : chunks[i].sent = 0 /\ chunks[i].state = "Pending",
         Schedule(kv, SuspendAll(transfers, s), total, chunks, PreemptKv(pending, s)),
         kvFlows' = IF kv THEN RegisterKvFlow(Len(transfers) + 1) ELSE kvFlows
  PROVE  GoodStep
<1> DEFINE n == Len(transfers)
           table == SuspendAll(transfers, s)
           queue == PreemptKv(pending, s)
           tp == NewTransfer(kv, total, chunks)
           m == [b \in 0 .. (total - 1) |-> 0]
<1>1. TablesOK(transfers, copied, callbacks) /\ EntriesOK(transfers, copied, callbacks)
  BY DEF ShimInv, DeliveryInv, ExecutorInv
<1>2. /\ TablesOK(table, copied, callbacks) /\ EntriesOK(table, copied, callbacks)
      /\ SteerOK(table, queue) /\ Live(table) = Live(transfers)
      /\ Len(table) = n /\ DOMAIN table = DOMAIN transfers
      /\ StepsOK(transfers, copied, table, copied)
  BY <1>1, SteerSuspend DEF ShimInv
<1>3. n \in Nat /\ DOMAIN transfers = 1..n
  BY <1>1 DEF TablesOK
<1>4. /\ transfers' = Append(table, tp) /\ copied' = Append(copied, m)
      /\ callbacks' = Append(callbacks, 0) /\ pending' = Append(queue, 0)
      /\ call' = "tick" /\ n < MaxTransfers
  BY DEF Schedule, Submitted, NewEntry
<1>5. /\ TransferOK(tp) /\ tp.bytesTotal = total /\ EntryOK(tp, m, 0)
      /\ Steered(tp) /\ tp.state = "InFlight" /\ tp.preemptible = kv
  BY NewTransferOK, EntryNew, SteerNew
<1>6. m \in [0 .. (tp.bytesTotal - 1) -> Nat]
  BY <1>5
<1> HIDE DEF table, queue, tp, m, n
<1>7. TablesOK(transfers', copied', callbacks')
  BY <1>2, <1>4, <1>5, <1>6, TablesAppend
<1>8. /\ EntriesOK(transfers', copied', callbacks')
      /\ DOMAIN transfers' = 1 .. (n + 1) /\ transfers'[n + 1] = tp
      /\ \A id \in 1..n : transfers'[id] = table[id] /\ copied'[id] = copied[id]
  <2>1. /\ EntriesOK(Append(table, tp), Append(copied, m), Append(callbacks, 0))
        /\ DOMAIN Append(table, tp) = 1 .. (Len(table) + 1)
        /\ Grown(Len(table), table, tp, Append(table, tp))
        /\ Grown(Len(table), copied, m, Append(copied, m))
    BY <1>2, <1>5, EntriesAppend
  <2>2. /\ EntriesOK(transfers', copied', callbacks') /\ DOMAIN transfers' = 1 .. (n + 1)
        /\ Grown(n, table, tp, transfers') /\ Grown(n, copied, m, copied')
    BY <1>2, <1>4, <2>1
  <2>3. QED BY <2>2 DEF Grown
<1>9. Len(transfers') = n + 1
  <2>1. transfers' \in Seq(TransferProgress)
    BY <1>7 DEF TablesOK
  <2>2. QED BY <1>3, <1>8, <2>1
<1>10. /\ SteerOK(transfers', pending')
       /\ Live(transfers') = Live(table) \cup (IF kv THEN {n + 1} ELSE {})
  <2> DEFINE table2 == transfers'
  <2>1. /\ n \in Nat /\ DOMAIN table = 1..n /\ Len(table) = n /\ SteerOK(table, queue)
        /\ Steered(tp) /\ tp.state = "InFlight" /\ tp.preemptible = kv
        /\ Len(table2) = n + 1 /\ DOMAIN table2 = 1 .. (n + 1)
        /\ \A id \in 1..n : table2[id] = table[id]
        /\ table2[n + 1] = tp
    BY <1>2, <1>3, <1>5, <1>8, <1>9
  <2> HIDE DEF table2
  <2>2. /\ SteerOK(table2, Append(queue, 0))
        /\ Live(table2) = Live(table) \cup (IF tp.preemptible THEN {n + 1} ELSE {})
    BY <2>1, SteerAppend
  <2>3. QED BY <1>4, <2>1, <2>2 DEF table2
<1>11. kvFlows' = Live(transfers')
  BY <1>2, <1>10 DEF ShimInv, RegisterKvFlow, n
<1>12. StepsOK(transfers, copied, transfers', copied')
  BY <1>2, <1>3, <1>8 DEF StepsOK
<1>13. Len(transfers') <= MaxTransfers
  BY <1>3, <1>4, <1>9, ExecutorAssumption
<1>14. ShimInv'
  BY <1>4, <1>7, <1>8, <1>10, <1>11, <1>13 DEF ShimInv, DeliveryInv, ExecutorInv
<1>15. QED BY <1>5, <1>8, <1>9, <1>12, <1>14 DEF GoodStep, n

(* A submission without a preemption is one that preempts nothing.         *)
LEMMA PreemptNothing ==
  ASSUME ShimInv
  PROVE  SuspendAll(transfers, {}) = transfers /\ PreemptKv(pending, {}) = pending
BY DEF ShimInv, DeliveryInv, ExecutorInv, TablesOK, SteerOK, SuspendAll, PreemptKv, Queued

LEMMA SubmitKeeps ==
  ASSUME ShimInv, SubmitTransfer
  PROVE  GoodStep
<1>1. ASSUME NEW total \in Nat, NEW route \in [1..Pieces(total) -> Paths], SubmitKv(total, route)
      PROVE  GoodStep
  <2> DEFINE chunks == IF total > ChunkBytes THEN Stripe(total, route) ELSE Whole(total, route[1])
  <2>1. /\ chunks \in Seq(ChunkProgress) /\ Layout(chunks, total)
        /\ \A i \in DOMAIN chunks : chunks[i].sent = 0 /\ chunks[i].state = "Pending"
    <3>1. CASE total > ChunkBytes
      <4>1. route \in [1..NumChunks(total) -> Paths]
        BY <3>1 DEF Pieces
      <4>2. QED BY <3>1, <4>1, StripeIsPending, StripeLayout
    <3>2. CASE ~(total > ChunkBytes)
      <4>1. route[1] \in Paths
        BY <3>2 DEF Pieces
      <4>2. QED BY <3>2, <4>1, WholeIsPending, WholeLayout
    <3>3. QED BY <3>1, <3>2
  <2>2. /\ Schedule(TRUE, transfers, total, chunks, pending)
        /\ kvFlows' = RegisterKvFlow(Len(transfers) + 1)
    BY <1>1 DEF SubmitKv
  <2> HIDE DEF chunks
  <2>3. Schedule(TRUE, SuspendAll(transfers, {}), total, chunks, PreemptKv(pending, {}))
    BY <2>2, PreemptNothing
  <2>4. QED BY <2>1, <2>2, <2>3, ScheduleKeeps
<1>2. ASSUME NEW kv \in BOOLEAN, NEW total \in Nat, SubmitUnroutable(kv, total)
      PROVE  GoodStep
  <2>1. {} \in Paths
    BY ShimAssumption
  <2>2. /\ Schedule(kv, SuspendAll(transfers, {}), total, Whole(total, {}), PreemptKv(pending, {}))
        /\ kvFlows' = IF kv THEN RegisterKvFlow(Len(transfers) + 1) ELSE kvFlows
    BY <1>2, PreemptNothing DEF SubmitUnroutable
  <2>3. QED BY <2>1, <2>2, WholeIsPending, WholeLayout, ScheduleKeeps
<1>3. ASSUME NEW total \in Nat, NEW best \in Routes, NEW s \in PreemptChoices(best),
             SubmitParallel(total, best, s)
      PROVE  GoodStep
  <2>1. best \in Paths
    BY ShimAssumption
  <2>2. /\ Schedule(FALSE, SuspendAll(transfers, s), total, Whole(total, best), PreemptKv(pending, s))
        /\ kvFlows' = kvFlows
    BY <1>3 DEF SubmitParallel
  <2>3. s \subseteq DOMAIN transfers /\ \A id \in s : transfers[id].state = "InFlight"
    BY ChoicesInFlight
  <2>4. QED BY <2>1, <2>2, <2>3, WholeIsPending, WholeLayout, ScheduleKeeps
<1>4. Sizes \subseteq Nat /\ Routes \subseteq Paths /\ {} \in Paths
  BY ExecutorAssumption, ShimAssumption
<1>5. \A total \in Sizes : [1..Pieces(total) -> Routes] \subseteq [1..Pieces(total) -> Paths]
  BY <1>4
<1>6. ASSUME NEW total \in Sizes, SubmitLocal(total) PROVE GoodStep
  <2>1. [i \in 1..Pieces(total) |-> {}] \in [1..Pieces(total) -> Paths]
    BY <1>4
  <2>2. QED BY <1>1, <1>4, <1>6, <2>1 DEF SubmitLocal
<1>7. ASSUME NEW total \in Sizes, NEW route \in [1..Pieces(total) -> Routes], SubmitKv(total, route)
      PROVE  GoodStep
  BY <1>1, <1>4, <1>5, <1>7
<1>8. QED BY <1>2, <1>3, <1>4, <1>6, <1>7 DEF SubmitTransfer

(* The tick of a poll or a submission.                                     *)
LEMMA ShimTickKeeps ==
  ASSUME ShimInv, NEW rate \in Rates, ShimTick(rate)
  PROVE  GoodStep
<1>1. /\ Tick(rate) /\ kvFlows' = Unregister(kvFlows, transfers') /\ call' = "drain"
      /\ pending' = pending
  BY DEF ShimTick, CompletionCallback
<1>2. TablesOK(transfers, copied, callbacks) /\ EntriesOK(transfers, copied, callbacks)
      /\ DeliveryInv
  BY DEF ShimInv, DeliveryInv, ExecutorInv
<1>3. TablesOK(transfers', copied', callbacks') /\ EntriesOK(transfers', copied', callbacks')
  BY <1>1, <1>2, TickKeeps, EntriesTick DEF DeliveryInv, ExecutorInv
<1>4. /\ Len(transfers) \in Nat /\ DOMAIN transfers = 1 .. Len(transfers)
      /\ DOMAIN copied = DOMAIN transfers
      /\ \A id \in DOMAIN transfers :
           /\ TransferOK(transfers[id]) /\ EntryOK(transfers[id], copied[id], callbacks[id])
           /\ transfers[id].bytesTotal \in Nat
           /\ copied[id] \in [0 .. (transfers[id].bytesTotal - 1) -> Nat]
           /\ Steered(transfers[id]) /\ QueueOK(transfers[id], pending[id])
  BY <1>2, ShimEntries DEF ShimInv
<1>5. /\ transfers' = TickAll(transfers, rate) /\ copied' = CopyAll(copied, transfers, rate)
  BY <1>1 DEF Tick
<1>6. DOMAIN transfers' = DOMAIN transfers /\ Len(transfers') = Len(transfers)
  <2>1. DOMAIN transfers' = DOMAIN transfers
    BY <1>5 DEF TickAll
  <2>2. transfers' \in Seq(TransferProgress)
    BY <1>3 DEF TablesOK
  <2>3. QED BY <1>4, <2>1, <2>2
<1>7. ASSUME NEW id \in DOMAIN transfers
      PROVE  /\ Steered(transfers'[id]) /\ QueueOK(transfers'[id], pending[id])
             /\ transfers'[id].preemptible = transfers[id].preemptible
             /\ transfers[id].state = "Completed" => transfers'[id].state = "Completed"
             /\ StepOK(transfers[id], copied[id], transfers'[id], copied'[id])
  <2> DEFINE tp == transfers[id]
             after == transfers'[id]
             m == copied[id]
             m2 == copied'[id]
  <2>1. CASE Active(tp)
    <3>1. after = Ticked(tp, rate)
      BY <1>5, <2>1 DEF TickAll
    <3>2. m2 = [b \in DOMAIN m |-> m[b] + Cardinality(Wired(tp, rate, b))]
      BY <1>4, <1>5, <2>1 DEF CopyAll
    <3>3. /\ Steered(after) /\ after.preemptible = tp.preemptible
          /\ tp.state = "InFlight" => after.state \in {"InFlight", "Completed"}
          /\ tp.state = "SuspendPending" => after.state \in {"SuspendPending", "Paused", "Completed"}
          /\ after.bytesRemaining \in Nat
          /\ after.bytesRemaining = 0 <=> after.state = "Completed"
      BY <1>4, <2>1, <3>1, SteerTicked, ExecutorAssumption DEF EntryOK
    <3>4. QueueOK(after, pending[id])
      BY <1>4, <2>1, <3>3 DEF QueueOK, Finished, Active
    <3>5. Lacking(m2) = after.bytesRemaining
      <4>1. TransferOK(after) /\ EntryOK(after, m2, callbacks'[id]) /\ after.state # "Cancelled"
        BY <1>3, <1>6, <3>3 DEF TablesOK, EntriesOK, Steered
      <4>2. m2 \in [0 .. (after.bytesTotal - 1) -> Nat]
        BY <1>3, <1>6 DEF TablesOK
      <4>3. QED BY <4>1, <4>2, EntryRemaining DEF Lacking
    <3>6. Lacking(m2) <= Lacking(m)
      <4>1. \A b \in DOMAIN m : m[b] \in Nat /\ Cardinality(Wired(tp, rate, b)) \in Nat
        BY <1>4, WiredType
      <4>2. \A b \in DOMAIN m : m2[b] = 0 => m[b] = 0
        BY <3>2, <4>1
      <4>3. {b \in DOMAIN m2 : m2[b] = 0} \subseteq {b \in DOMAIN m : m[b] = 0}
        BY <3>2, <4>2
      <4>4. IsFiniteSet({b \in DOMAIN m : m[b] = 0})
        BY <1>4, LackingType
      <4>5. QED BY <4>3, <4>4, FS_Subset DEF Lacking
    <3>7. StatusOf(tp) = "moving"
      BY <2>1, StatusType DEF Active
    <3>8. /\ StatusOf(after) \in {"moving", "held"} => after.state # "Completed"
          /\ StatusOf(after) = "delivered" => after.state = "Completed"
      BY <2>1, <3>3, StatusType DEF Active
    <3> HIDE DEF tp, after, m, m2
    <3>9. StepOK(tp, m, after, m2)
      BY <3>3, <3>5, <3>6, <3>7, <3>8 DEF StepOK
    <3>10. tp.state # "Completed"
      BY <2>1 DEF Active
    <3>11. QED BY <3>3, <3>4, <3>9, <3>10 DEF tp, after, m, m2
  <2>2. CASE ~Active(tp)
    <3>1. after = tp /\ m2 = m
      BY <1>4, <1>5, <2>2 DEF TickAll, CopyAll
    <3>2. QED BY <1>4, <3>1 DEF StepOK
  <2>3. QED BY <2>1, <2>2
<1>8. SteerOK(transfers', pending')
  BY <1>1, <1>6, <1>7 DEF ShimInv, SteerOK
<1>9. kvFlows' = Live(transfers')
  BY <1>1, <1>6, <1>7 DEF ShimInv, Live, Unregister
<1>10. StepsOK(transfers, copied, transfers', copied')
  BY <1>7 DEF StepsOK
<1>11. QED BY <1>1, <1>3, <1>6, <1>8, <1>9, <1>10 DEF ShimInv, DeliveryInv, ExecutorInv, GoodStep

(* The drain reroutes what is paused and in the queue, and nothing else.   *)
LEMMA DrainKeeps ==
  ASSUME ShimInv, DrainBoundaryReroutes
  PROVE  GoodStep
<1>1. PICK best \in [DOMAIN transfers -> Routes] :
        transfers' = [id \in DOMAIN transfers |->
                        IF pending[id] > 0 /\ Due(transfers[id])
                          THEN Rerouted(transfers[id], best[id]) ELSE transfers[id]]
  BY DEF DrainBoundaryReroutes
<1>2. /\ pending' = Drained(transfers, pending) /\ call' = "idle"
      /\ UNCHANGED <<copied, callbacks, kvFlows>>
  BY DEF DrainBoundaryReroutes
<1>3. TablesOK(transfers, copied, callbacks) /\ EntriesOK(transfers, copied, callbacks)
  BY DEF ShimInv, DeliveryInv, ExecutorInv
<1>4. /\ Len(transfers) \in Nat /\ DOMAIN transfers = 1 .. Len(transfers)
      /\ DOMAIN copied = DOMAIN transfers /\ DOMAIN callbacks = DOMAIN transfers
      /\ DOMAIN pending = DOMAIN transfers
      /\ \A id \in DOMAIN transfers :
           /\ TransferOK(transfers[id]) /\ EntryOK(transfers[id], copied[id], callbacks[id])
           /\ Steered(transfers[id]) /\ QueueOK(transfers[id], pending[id]) /\ pending[id] \in Nat
  BY <1>3, ShimEntries DEF ShimInv
<1>5. ASSUME NEW id \in DOMAIN transfers
      PROVE  /\ TransferOK(transfers'[id]) /\ transfers'[id].bytesTotal = transfers[id].bytesTotal
             /\ EntryOK(transfers'[id], copied[id], callbacks[id])
             /\ Steered(transfers'[id]) /\ QueueOK(transfers'[id], pending'[id])
             /\ pending'[id] \in Nat
             /\ transfers'[id].preemptible = transfers[id].preemptible
             /\ transfers'[id].state = "Completed" <=> transfers[id].state = "Completed"
             /\ StepOK(transfers[id], copied[id], transfers'[id], copied[id])
  <2> DEFINE tp == transfers[id]
             after == transfers'[id]
  <2>1. pending'[id] = IF Finished(tp) THEN 0
                       ELSE IF Due(tp) /\ pending[id] > 0 THEN pending[id] - 1
                       ELSE pending[id]
    BY <1>2, <1>4 DEF Drained
  <2>2. CASE pending[id] > 0 /\ Due(tp)
    <3>1. best[id] \in Paths /\ after = Rerouted(tp, best[id])
      BY <1>1, <2>2, ShimAssumption
    <3>2. tp.state = "Paused" /\ Quiescent(tp) /\ Reroutable(tp) /\ ~Finished(tp)
      BY <1>4, <2>2 DEF Due, EntryOK, Delivers, Reroutable, Finished
    <3>3. /\ Steered(after) /\ after.state = "InFlight"
          /\ after.preemptible = tp.preemptible /\ after.bytesTotal = tp.bytesTotal
      BY <1>4, <3>1, <3>2, SteerRerouted
    <3>4. TransferOK(after) /\ EntryOK(after, copied[id], callbacks[id])
      BY <1>4, <3>1, <3>2, ReroutedKeeps, EntryRerouted
    <3>5. pending[id] = 1
      BY <1>4, <3>2 DEF QueueOK
    <3>6. pending'[id] = 0
      BY <2>1, <2>2, <3>2, <3>5
    <3>7. StepOK(tp, copied[id], after, copied[id])
      BY <3>2, <3>3, StatusType DEF StepOK
    <3>8. QED BY <3>2, <3>3, <3>4, <3>6, <3>7 DEF QueueOK
  <2>3. CASE ~(pending[id] > 0 /\ Due(tp))
    <3>1. after = tp
      BY <1>1, <2>3
    <3>2. pending'[id] \in Nat /\ QueueOK(tp, pending'[id])
      BY <1>4, <2>1, <2>3 DEF QueueOK
    <3>3. QED BY <1>4, <3>1, <3>2 DEF StepOK
  <2>4. QED BY <2>2, <2>3
<1>6. transfers' = [id \in DOMAIN transfers |-> transfers'[id]] /\ DOMAIN transfers' = DOMAIN transfers
  BY <1>1
<1>7. /\ copied = [id \in DOMAIN copied |-> copied[id]] /\ callbacks \in [DOMAIN callbacks -> Nat]
      /\ \A id \in DOMAIN copied : copied[id] \in [DOMAIN copied[id] -> Nat]
  BY <1>3 DEF TablesOK
<1>8. TablesOK(transfers', copied, callbacks)
  BY <1>3, <1>5, <1>6, <1>7, TablesStep
<1>9. EntriesOK(transfers', copied, callbacks)
  BY <1>5, <1>6 DEF EntriesOK
<1>10. Len(transfers') = Len(transfers)
  <2>1. transfers' \in Seq(TransferProgress)
    BY <1>8 DEF TablesOK
  <2>2. QED BY <1>4, <1>6, <2>1
<1>11. pending' \in Seq(Nat) /\ Len(pending') = Len(transfers)
  <2>1. pending' = [id \in 1 .. Len(transfers) |-> pending'[id]]
    BY <1>2, <1>4 DEF Drained
  <2>2. \A id \in 1 .. Len(transfers) : pending'[id] \in Nat
    BY <1>4, <1>5
  <2>3. pending' \in [1 .. Len(transfers) -> Nat]
    BY <2>1, <2>2
  <2>4. QED BY <1>4, <2>3, FunctionIsSeq
<1>12. SteerOK(transfers', pending')
  BY <1>5, <1>6, <1>10, <1>11 DEF SteerOK
<1>13. Live(transfers') = Live(transfers)
  BY <1>5, <1>6 DEF Live
<1>14. StepsOK(transfers, copied, transfers', copied')
  BY <1>2, <1>5 DEF StepsOK
<1>15. QED BY <1>2, <1>8, <1>9, <1>10, <1>12, <1>13, <1>14
       DEF ShimInv, DeliveryInv, ExecutorInv, GoodStep

LEMMA ShimInitKeeps == ShimInit => ShimInv
<1> SUFFICES ASSUME ShimInit PROVE ShimInv
  OBVIOUS
<1>1. DeliveryInv
  BY DeliveryInit DEF ShimInit
<1>2. SteerOK(transfers, pending) /\ kvFlows = Live(transfers) /\ Len(transfers) <= MaxTransfers
  BY ExecutorAssumption DEF ShimInit, Init, SteerOK, Live
<1>3. QED BY <1>1, <1>2 DEF ShimInv, ShimInit

LEMMA ShimNextKeeps == ShimInv /\ ShimNext => GoodStep
<1> SUFFICES ASSUME ShimInv, ShimNext PROVE GoodStep
  OBVIOUS
<1>1. ASSUME NEW rate \in Rates, PollTransfers(rate) \/ SubmitTick(rate) PROVE GoodStep
  BY <1>1, ShimTickKeeps DEF PollTransfers, SubmitTick
<1>2. QED BY <1>1, SelectKeeps, SubmitKeeps, DrainKeeps DEF ShimNext

LEMMA ShimInvKeeps == ShimInv /\ [ShimNext]_shimVars => ShimInv'
<1>1. ShimInv /\ ShimNext => ShimInv'
  BY ShimNextKeeps DEF GoodStep
<1>2. ShimInv /\ UNCHANGED shimVars => ShimInv'
  BY DEF shimVars, ShimInv, DeliveryInv, ExecutorInv
<1>3. QED BY <1>1, <1>2
-----------------------------------------------------------------------------
(* preempt_kv_migrations and drain_boundary_reroutes between them forget   *)
(* no suspended migration and queue none twice, whatever calls come        *)
(* between: an entry is made with the suspension and used up by the        *)
(* reroute that ends it.                                                   *)
THEOREM NoneForgotten == ShimSpec => []SuspendedIsQueued
<1>1. ShimInv => SuspendedIsQueued
  BY DEF ShimInv, SteerOK, QueueOK, SuspendedIsQueued
<1>2. QED BY ShimInitKeeps, ShimInvKeeps, <1>1, PTL DEF ShimSpec

(* kv_flows_ is the set of KV migrations that are not complete: each is    *)
(* registered when it is submitted and unregistered by its completion      *)
(* callback, in the tick that completes it.                                *)
THEOREM FlowsAreLive == ShimSpec => []KvFlowsAreLive
<1>1. ShimInv => KvFlowsAreLive
  BY DEF ShimInv, Live, KvFlowsAreLive
<1>2. QED BY ShimInitKeeps, ShimInvKeeps, <1>1, PTL DEF ShimSpec

(* Under the shim's own calls a paused transfer stands at a chunk          *)
(* boundary: only what is paused is rerouted, so a chunk that waits has    *)
(* not begun.                                                              *)
THEOREM PausesAtBoundary == ShimSpec => []PausedAtBoundary
<1>1. ASSUME ShimInv, NEW id \in DOMAIN transfers, transfers[id].state = "Paused",
             NEW i \in DOMAIN transfers[id].chunks
      PROVE  transfers[id].chunks[i].sent \in {0, transfers[id].chunks[i].size}
  <2>1. Delivers(transfers[id]) /\ Steered(transfers[id])
    BY <1>1 DEF ShimInv, SteerOK, DeliveryInv, EntriesOK, EntryOK
  <2>2. Quiescent(transfers[id]) /\ Full(transfers[id].chunks)
    BY <1>1, <2>1 DEF Delivers
  <2>3. QED BY <2>1, <2>2 DEF Quiescent, Full, Steered
<1>2. ShimInv => PausedAtBoundary
  BY <1>1 DEF PausedAtBoundary
<1>3. QED BY ShimInitKeeps, ShimInvKeeps, <1>2, PTL DEF ShimSpec

-----------------------------------------------------------------------------
(* The refinement *)

(* The function of the tables that Delivery's variables stand for, and its *)
(* length.                                                                 *)
LEMMA MappedLength ==
  ASSUME NEW n \in Nat, NEW S, NEW f \in [1..n -> S]
  PROVE  Len(f) = n /\ DOMAIN f = 1..n
BY FunctionIsSeq

LEMMA PromiseStep ==
  ASSUME NEW n \in Nat, NEW n2 \in {n, n + 1}, n2 <= MaxTransfers,
         DOMAIN transfers = 1..n, DOMAIN transfers' = 1..n2,
         StepsOK(transfers, copied, transfers', copied'),
         n2 = n + 1 => transfers'[n + 1].state = "InFlight"
  PROVE  Promise!Next
<1> DEFINE status == [id \in DOMAIN transfers |-> StatusOf(transfers[id])]
           status2 == [id \in DOMAIN transfers' |-> StatusOf(transfers'[id])]
           left == [id \in DOMAIN transfers |-> Lacking(copied[id])]
           left2 == [id \in DOMAIN transfers' |-> Lacking(copied'[id])]
<1>1. n2 \in Nat
  OBVIOUS
<1>2. /\ status \in [1..n -> {"moving", "held", "delivered"}]
      /\ status2 \in [1..n2 -> {"moving", "held", "delivered"}]
  BY StatusType
<1>3. left2 \in [1..n2 -> {Lacking(copied'[id]) : id \in 1..n2}]
  OBVIOUS
<1>4. /\ Len(status) = n /\ DOMAIN status = 1..n
      /\ Len(status2) = n2 /\ Len(left2) = n2
  BY <1>1, <1>2, <1>3, MappedLength
<1>5. ASSUME NEW id \in 1..n
      PROVE  \/ status2[id] = status[id] /\ left2[id] = left[id]
             \/ /\ status[id] = "moving" /\ left2[id] <= left[id]
                /\ status2[id] = "moving" => left2[id] > 0
                /\ status2[id] = "held" => left2[id] > 0
                /\ status2[id] = "delivered" => left2[id] = 0
             \/ status[id] = "held" /\ status2[id] = "moving" /\ left2[id] = left[id]
  <2>1. StepOK(transfers[id], copied[id], transfers'[id], copied'[id])
    BY DEF StepsOK
  <2>2. id \in 1..n2
    OBVIOUS
  <2>3. /\ status[id] = StatusOf(transfers[id]) /\ status2[id] = StatusOf(transfers'[id])
        /\ left[id] = Lacking(copied[id]) /\ left2[id] = Lacking(copied'[id])
    BY <2>2
  <2> HIDE DEF status, status2, left, left2
  <2>4. QED BY <2>1, <2>3 DEF StepOK
<1>6. n2 = n + 1 => status2[n2] = "moving"
  BY <1>1, StatusType
<1>7. /\ Len(status2) \in {Len(status), Len(status) + 1}
      /\ Len(left2) = Len(status2) /\ Len(status2) <= MaxTransfers
  BY <1>4
<1>8. Promise!Accepted
  BY <1>4, <1>6 DEF Promise!Accepted
<1>9. \A id \in DOMAIN status : Promise!Unmoved(id) \/ Promise!Moved(id) \/ Promise!Released(id)
  BY <1>4, <1>5 DEF Promise!Unmoved, Promise!Moved, Promise!Released
<1>10. QED
  BY <1>7, <1>8, <1>9 DEF Promise!Next

LEMMA PromiseKept == ShimInv /\ [ShimNext]_shimVars => [Promise!Next]_(Promise!delivery)
<1>1. ASSUME ShimInv, ShimNext PROVE Promise!Next
  <2>1. GoodStep
    BY <1>1, ShimNextKeeps
  <2>2. /\ Len(transfers) \in Nat /\ DOMAIN transfers = 1 .. Len(transfers)
        /\ DOMAIN transfers' = 1 .. Len(transfers') /\ Len(transfers') <= MaxTransfers
    BY <1>1, <2>1 DEF GoodStep, ShimInv, DeliveryInv, ExecutorInv, TablesOK
  <2>3. /\ StepsOK(transfers, copied, transfers', copied')
        /\ \/ Len(transfers') = Len(transfers)
           \/ /\ Len(transfers') = Len(transfers) + 1
              /\ transfers'[Len(transfers) + 1].state = "InFlight"
    BY <2>1, Zenon DEF GoodStep
  <2> DEFINE n == Len(transfers)
             n2 == Len(transfers')
  <2>4. /\ n \in Nat /\ n2 <= MaxTransfers
        /\ DOMAIN transfers = 1..n /\ DOMAIN transfers' = 1..n2
    BY <2>2
  <2>5. n2 = n \/ (n2 = n + 1 /\ transfers'[n + 1].state = "InFlight")
    BY <2>3
  <2> HIDE DEF n, n2
  <2>6. n2 \in {n, n + 1} /\ (n2 = n + 1 => transfers'[n + 1].state = "InFlight")
    BY <2>4, <2>5
  <2>7. QED BY <2>3, <2>4, <2>6, PromiseStep
<1>2. UNCHANGED shimVars => UNCHANGED Promise!delivery
  BY DEF shimVars, Promise!delivery
<1>3. QED BY <1>1, <1>2

(* The shim's calls implement Delivery, but for its liveness: to a caller  *)
(* each call leaves a transfer alone, moves it forward or lets a held one  *)
(* go on, never takes back a byte, and calls a transfer complete exactly   *)
(* when the destination lacks nothing.                                     *)
THEOREM ImplementsDelivery == ShimSpec => KeepsPromise
<1>1. ShimInit => Promise!Init
  BY DEF ShimInit, Init, Promise!Init
<1>2. QED BY ShimInitKeeps, ShimInvKeeps, PromiseKept, <1>1, PTL DEF ShimSpec, KeepsPromise

(* The shim's records keep their types: one queue entry count and one      *)
(* record per transfer, no flow that is not a transfer, and no chunk sent  *)
(* past its end however suspensions, reroutes and polls follow.            *)
THEOREM ShimTypeCorrect == ShimSpec => []ShimTypeOK
<1>1. ASSUME ShimInv PROVE ShimTypeOK
  <2>1. TypeOK
    BY <1>1, InvIsProperties DEF ShimInv, DeliveryInv
  <2>2. kvFlows \subseteq DOMAIN transfers
    BY <1>1 DEF ShimInv, Live
  <2>3. QED BY <1>1, <2>1, <2>2 DEF ShimInv, SteerOK, ShimTypeOK
<1>2. QED BY ShimInitKeeps, ShimInvKeeps, <1>1, PTL DEF ShimSpec
=============================================================================
