------------------------------ MODULE HICSShim ------------------------------
(***************************************************************************)
(* The shim's transfer path (shim/shim.cpp) with the path engine           *)
(* (path_engine/path_engine.cpp) over the executor: a submission chooses   *)
(* paths, may preempt KV migrations for a tensor-parallel transfer that    *)
(* would miss its deadline, submits, ticks once and drains the queue of    *)
(* deferred reroutes; a poll ticks and drains.                             *)
(*                                                                         *)
(* The shim and the engine have no lock: their callers make one call at a  *)
(* time (the NCCL plugin under g_mu, the programs in apps/ from one        *)
(* thread), so `call` says how far the one call has come.  The executor    *)
(* takes its lock per operation, so other threads see the state between    *)
(* the tick and the drain.                                                 *)
(*                                                                         *)
(* Abstracted: costs.  select_path, stripe_kv_migration and the drain rank *)
(* the candidates by telemetry and predictions that change all the time,   *)
(* so any candidate may win, and any tensor-parallel call may find its     *)
(* best cost above its deadline.                                           *)
(***************************************************************************)
EXTENDS TransferExecutor

CONSTANT Routes   \* the admissible paths between the endpoints; {} is none

ASSUME ShimAssumption == Routes \subseteq Paths \ {{}} /\ Routes # {} /\ {} \in Paths

VARIABLES
  kvFlows,  \* kv_flows_: the ids registered
  pending,  \* pending_reroutes_: how many entries each id has
  call      \* "idle", or what the running call does next

shimVars == <<transfers, copied, callbacks, kvFlows, pending, call>>

ShimInit == Init /\ kvFlows = {} /\ pending = <<>> /\ call = "idle"

-----------------------------------------------------------------------------
(* preempt_kv_migrations: suspend the victims, queue one reroute for each. *)
Queued(queue, ids) ==
  [id \in DOMAIN queue |-> IF id \in ids THEN queue[id] + 1 ELSE queue[id]]

\* mutant: suspended, but never queued for a reroute
QueuedNever(queue, ids) == queue

PreemptKv(queue, ids) == Queued(queue, ids)

(* select_path calls it for a tensor-parallel request whose best path is   *)
(* too slow, unless that path was the only candidate.                      *)
PreemptChoices(best) ==
  {{}} \cup (IF Cardinality(Routes) > 1 THEN Victims(transfers, best) ELSE {})

(* The engine used for a path alone, as apps/main.cpp does.                *)
SelectPath ==
  /\ call = "idle"
  /\ \E best \in Routes : \E s \in PreemptChoices(best) :
       /\ s # {}
       /\ transfers' = SuspendAll(transfers, s)
       /\ pending' = PreemptKv(pending, s)
  /\ UNCHANGED <<copied, callbacks, kvFlows, call>>

(* schedule_and_execute *)
Schedule(kv, table, total, chunks, queue) ==
  /\ call = "idle"
  /\ transfers' = Submitted(table, kv, total, chunks)
  /\ NewEntry(total)
  /\ pending' = Append(queue, 0)
  /\ call' = "tick"

RegisterKvFlow(id) == kvFlows \cup {id}

(* A KV migration is striped when it exceeds a quantum.  With no route the *)
(* chunk list is empty and submit() takes the transfer whole.              *)
Pieces(total) == IF total > ChunkBytes THEN NumChunks(total) ELSE 1

SubmitKv(total, route) ==
  /\ Schedule(TRUE, transfers, total,
              IF total > ChunkBytes THEN Stripe(total, route) ELSE Whole(total, route[1]),
              pending)
  /\ kvFlows' = RegisterKvFlow(Len(transfers) + 1)

SubmitUnroutable(kv, total) ==
  /\ Schedule(kv, transfers, total, Whole(total, {}), pending)
  /\ kvFlows' = IF kv THEN RegisterKvFlow(Len(transfers) + 1) ELSE kvFlows

(* Source and destination are one vertex, as for all requests of the NCCL  *)
(* plugin: the empty path is the only candidate, and every chunk takes it. *)
SubmitLocal(total) == SubmitKv(total, [i \in 1..Pieces(total) |-> {}])

(* Tensor- and pipeline-parallel transfers; only the first kind preempts.  *)
SubmitParallel(total, best, s) ==
  /\ s \in PreemptChoices(best)
  /\ Schedule(FALSE, SuspendAll(transfers, s), total, Whole(total, best),
              PreemptKv(pending, s))
  /\ UNCHANGED kvFlows

(* The tick of either call; completions unregister their KV flow.          *)
Unregister(flows, table) == {id \in flows : table[id].state # "Completed"}

\* mutant: the completion callback is not installed
UnregisterNone(flows, table) == flows

CompletionCallback(flows, table) == Unregister(flows, table)

ShimTick(rate) ==
  /\ Tick(rate)
  /\ kvFlows' = CompletionCallback(kvFlows, transfers')
  /\ call' = "drain"
  /\ UNCHANGED pending

PollTransfers(rate) == call = "idle" /\ ShimTick(rate)

SubmitTick(rate) == call = "tick" /\ ShimTick(rate)

(* drain_boundary_reroutes: an entry waits until its transfer is paused,   *)
(* is dropped when the transfer is over, and is used up by the reroute.    *)
\* mutant: reroute at once, without waiting for the chunk boundary
DueAtOnce(tp) == tp.state \in {"Paused", "SuspendPending"}

Due(tp) == tp.state = "Paused"

Finished(tp) == tp.state \in {"Completed", "Cancelled"}

\* mutant: entries are dropped when the transfer is not paused yet
DrainedImpatient(table, queue) == [id \in DOMAIN queue |-> 0]

Drained(table, queue) ==
  [id \in DOMAIN queue |->
     IF Finished(table[id]) THEN 0
     ELSE IF Due(table[id]) /\ queue[id] > 0 THEN queue[id] - 1
     ELSE queue[id]]

DrainBoundaryReroutes ==
  /\ call = "drain"
  /\ \E best \in [DOMAIN transfers -> Routes] :
       transfers' =
         [id \in DOMAIN transfers |->
            IF pending[id] > 0 /\ Due(transfers[id])
              THEN Rerouted(transfers[id], best[id]) ELSE transfers[id]]
  /\ pending' = Drained(transfers, pending)
  /\ call' = "idle"
  /\ UNCHANGED <<copied, callbacks, kvFlows>>

SubmitTransfer ==
  \/ \E total \in Sizes : \E route \in [1..Pieces(total) -> Routes] : SubmitKv(total, route)
  \/ \E kv \in BOOLEAN, total \in Sizes : SubmitUnroutable(kv, total)
  \/ \E total \in Sizes : SubmitLocal(total)
  \/ \E total \in Sizes, best \in Routes : \E s \in PreemptChoices(best) :
       SubmitParallel(total, best, s)

ShimNext ==
  \/ SelectPath
  \/ SubmitTransfer
  \/ \E rate \in Rates : PollTransfers(rate)
  \/ \E rate \in Rates : SubmitTick(rate)
  \/ DrainBoundaryReroutes

MovingRates == {rate \in Rates : \A p \in Paths : rate[p] > 0}

(* A call that was begun returns, and the application keeps polling: every *)
(* poll with dt_ms > 0 moves some bytes of each chunk in flight (the       *)
(* bottleneck is at least 0.1 GB/s), so polls that move a whole unit never *)
(* stop coming.  Nothing is assumed of submissions or preemptions, which   *)
(* may come forever or not at all.                                         *)
ShimFairness ==
  /\ WF_shimVars(\E rate \in Rates : SubmitTick(rate))
  /\ WF_shimVars(DrainBoundaryReroutes)
  /\ SF_shimVars(\E rate \in MovingRates : PollTransfers(rate))

ShimSpec == ShimInit /\ [][ShimNext]_shimVars /\ ShimFairness

-----------------------------------------------------------------------------
(* Properties *)

ShimTypeOK ==
  /\ TypeOK
  /\ kvFlows \subseteq DOMAIN transfers
  /\ pending \in Seq(Nat) /\ Len(pending) = Len(transfers)
  /\ call \in {"idle", "tick", "drain"}

(* No suspended migration is forgotten: as long as a transfer is stopping  *)
(* or stopped, exactly one reroute waits for it, and no other transfer has *)
(* one.  A second entry would reroute a transfer that is moving again.     *)
SuspendedIsQueued ==
  \A id \in DOMAIN transfers :
    Finished(transfers[id]) \/
      pending[id] = IF transfers[id].state \in {"SuspendPending", "Paused"} THEN 1 ELSE 0

(* The engine's list of KV flows is the set of unfinished KV migrations.   *)
KvFlowsAreLive ==
  kvFlows = {id \in DOMAIN transfers :
               transfers[id].preemptible /\ transfers[id].state # "Completed"}

(* The calls deliver what they promise: see Delivery.  What is left of a   *)
(* transfer is read off the destination buffer, not off the bookkeeping.   *)
StatusOf(tp) ==
  CASE tp.state = "Completed" -> "delivered"
    [] tp.state = "Paused" -> "held"
    [] OTHER -> "moving"

Lacking(m) == Cardinality({b \in DOMAIN m : m[b] = 0})

Promise == INSTANCE Delivery WITH
  status <- [id \in DOMAIN transfers |-> StatusOf(transfers[id])],
  left <- [id \in DOMAIN transfers |-> Lacking(copied[id])]

(* Safety half of the promise, and the liveness half: under endless        *)
(* preemption every transfer is delivered, because each round of suspend,  *)
(* park and reroute finishes at least one chunk.                           *)
KeepsPromise == Promise!Init /\ [][Promise!Next]_(Promise!delivery)
EveryTransferIsDelivered == Promise!EveryTransferIsDelivered
=============================================================================
