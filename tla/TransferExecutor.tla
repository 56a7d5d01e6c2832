-------------------------- MODULE TransferExecutor --------------------------
(***************************************************************************)
(* The transfer executor (transfer/transfer_executor.cpp): it owns every   *)
(* transfer, moves its chunks forward on each tick, suspends KV migrations *)
(* at a chunk boundary and reroutes what is left of them.                  *)
(*                                                                         *)
(* Every public operation holds mu_ from its first line to its last, so    *)
(* each is one action.  Every operation is a function of one transfer      *)
(* record (Ticked, Rerouted, ...), lifted to the table by the action.      *)
(* A call that returns false changes nothing and is a stuttering step.     *)
(*                                                                         *)
(* Abstracted: bytes come in units, with ChunkBytes units to a chunk       *)
(* quantum; the bytes one tick moves over a path (bytes_for_dt) are any of *)
(* Rates, the same for all chunks on that path in that tick; slack, which  *)
(* orders the candidates of a preemption, depends on the clock, so any of  *)
(* them may come first.  Transfers have both buffers bound; one without    *)
(* them has the same control and copies nothing.                           *)
(***************************************************************************)
EXTENDS Transfer

CONSTANTS
  Sizes,         \* request sizes, in units
  Rates,         \* the units a tick may move over each path (bytes_for_dt)
  MaxTransfers,  \* bound on the ids handed out
  MaxPreempt     \* preempt_sharing's max_preempt

ASSUME ExecutorAssumption ==
  /\ Sizes \subseteq Nat
  /\ Rates \subseteq [Paths -> Nat]
  /\ MaxTransfers \in Nat
  /\ MaxPreempt \in Nat

VARIABLES
  transfers,  \* transfers_: ids are 1, 2, ... in the order of submission
  copied,     \* copied[id][b]: how often byte b was copied to the destination
  callbacks   \* callbacks[id]: calls of the completion callback

vars == <<transfers, copied, callbacks>>

-----------------------------------------------------------------------------
(* The table of transfers *)

Init == transfers = <<>> /\ copied = <<>> /\ callbacks = <<>>

NewEntry(total) ==
  /\ Len(transfers) < MaxTransfers
  /\ copied' = Append(copied, [b \in 0 .. (total - 1) |-> 0])
  /\ callbacks' = Append(callbacks, 0)

Submit(kv, total, path) ==
  /\ transfers' = Submitted(transfers, kv, total, Whole(total, path))
  /\ NewEntry(total)

(* Only schedule_and_execute calls submit_striped, with a KV migration     *)
(* larger than one quantum and the list stripe_kv_migration built.         *)
SubmitStriped(total, route) ==
  /\ total > ChunkBytes
  /\ transfers' = Submitted(transfers, TRUE, total, Stripe(total, route))
  /\ NewEntry(total)

Pause(id) ==
  /\ Pausable(transfers[id])
  /\ transfers' = [transfers EXCEPT ![id] = Suspended(@)]
  /\ UNCHANGED <<copied, callbacks>>

(* resume is reroute under another name. *)
Reroute(id, path) ==
  /\ Reroutable(transfers[id])
  /\ transfers' = [transfers EXCEPT ![id] = Rerouted(@, path)]
  /\ UNCHANGED <<copied, callbacks>>

Cancel(id) ==
  /\ transfers' = [transfers EXCEPT ![id] = Cancelled(@)]
  /\ UNCHANGED <<copied, callbacks>>

(* The victims of a preemption: the candidates, or max_preempt of them.    *)
Victims(table, busy) ==
  LET all == {id \in DOMAIN table : Preemptable(table[id], busy)}
  IN  {s \in SUBSET all : Cardinality(s) = Smaller(MaxPreempt, Cardinality(all))}

PreemptSharing(busy) ==
  \E s \in Victims(transfers, busy) :
    /\ s # {}
    /\ transfers' = SuspendAll(transfers, s)
    /\ UNCHANGED <<copied, callbacks>>

Tick(rate) ==
  /\ transfers' = TickAll(transfers, rate)
  /\ copied' = CopyAll(copied, transfers, rate)
  /\ callbacks' = Called(callbacks, transfers, transfers')

Next ==
  \/ \E kv \in BOOLEAN, total \in Sizes, path \in Paths : Submit(kv, total, path)
  \/ \E total \in Sizes : \E route \in [1..NumChunks(total) -> Paths] :
       SubmitStriped(total, route)
  \/ \E id \in DOMAIN transfers : Pause(id)
  \/ \E id \in DOMAIN transfers, path \in Paths : Reroute(id, path)
  \/ \E id \in DOMAIN transfers : Cancel(id)
  \/ \E path \in Paths : PreemptSharing(path)
  \/ \E rate \in Rates : Tick(rate)

Spec == Init /\ [][Next]_vars

-----------------------------------------------------------------------------
(* Properties *)

(* Every field has its type, no chunk has sent more than its size, and the *)
(* three tables describe the same transfers.                               *)
TypeOK ==
  /\ transfers \in Seq(TransferProgress)
  /\ \A id \in DOMAIN transfers : \A i \in DOMAIN transfers[id].chunks :
       transfers[id].chunks[i].sent <= transfers[id].chunks[i].size
  /\ callbacks \in [DOMAIN transfers -> Nat]
  /\ copied = [id \in DOMAIN transfers |-> copied[id]]
  /\ \A id \in DOMAIN transfers :
       copied[id] \in [0 .. (transfers[id].bytesTotal - 1) -> Nat]

(* A transfer never drives two chunks over one IB rail at the same time,   *)
(* whatever mix of suspensions, reroutes and ticks preceded: "one active   *)
(* chunk per rail" (tick), "activate one chunk per rail" (reroute).        *)
OneChunkPerRail ==
  \A id \in DOMAIN transfers :
    LET chunks == transfers[id].chunks
    IN  \A i, j \in DOMAIN chunks :
          /\ chunks[i].state = "InFlight"
          /\ chunks[j].state = "InFlight"
          /\ Slot(chunks[i]) = Slot(chunks[j])
          => i = j

(* A paused transfer has let go of the wire: every chunk is either done or *)
(* parked, something is left to send, and no suspension is still asked.    *)
PausedIsQuiescent ==
  \A id \in DOMAIN transfers :
    LET tp == transfers[id]
    IN  tp.state = "Paused" =>
          /\ ~tp.suspend
          /\ tp.bytesRemaining > 0
          /\ \A i \in DOMAIN tp.chunks : tp.chunks[i].state \in {"Completed", "Paused"}
          /\ \E i \in DOMAIN tp.chunks : tp.chunks[i].state = "Paused"

(* However often a transfer is suspended midway and moved to other rails,  *)
(* each byte reaches the destination exactly once: the bytes copied are    *)
(* those the chunks count as sent, and none was copied again.              *)
CopiedExactlyOnce ==
  \A id \in DOMAIN transfers :
    LET chunks == transfers[id].chunks
    IN  \A b \in DOMAIN copied[id] :
          copied[id][b] =
            IF \E i \in DOMAIN chunks : b \in SentRange(chunks[i]) THEN 1 ELSE 0

(* Completed means delivered: every chunk was sent in full and every byte  *)
(* of the buffer was copied.                                               *)
CompletedIsDelivered ==
  \A id \in DOMAIN transfers :
    transfers[id].state = "Completed" =>
      /\ \A i \in DOMAIN transfers[id].chunks :
           transfers[id].chunks[i].sent = transfers[id].chunks[i].size
      /\ \A b \in DOMAIN copied[id] : copied[id][b] = 1

(* bytes_remaining, which the NCCL plugin takes for "done" and the path    *)
(* engine for the size of the reroute, counts the bytes the destination    *)
(* really lacks; only cancel() zeroes it early.                            *)
RemainingIsTrue ==
  \A id \in DOMAIN transfers :
    transfers[id].state # "Cancelled" =>
      transfers[id].bytesRemaining =
        Cardinality({b \in DOMAIN copied[id] : copied[id][b] = 0})

(* The completion callback, which unregisters the KV flow, runs once for a *)
(* transfer that completes and never before it does.                       *)
CallbackOnce ==
  \A id \in DOMAIN transfers :
    /\ callbacks[id] <= 1
    /\ transfers[id].state = "Completed" => callbacks[id] = 1
    /\ transfers[id].state \notin {"Completed", "Cancelled"} => callbacks[id] = 0

(* "Finish current chunk, then pause at boundary" (TransferState, in       *)
(* transfer_executor.hpp): no chunk of a paused transfer is partly sent.   *)
(* It holds of the callers in HICSShim, not of every call sequence.        *)
PausedAtBoundary ==
  \A id \in DOMAIN transfers :
    transfers[id].state = "Paused" =>
      \A i \in DOMAIN transfers[id].chunks :
        transfers[id].chunks[i].sent \in {0, transfers[id].chunks[i].size}

(* No operation takes back what a chunk has sent, and none moves a chunk   *)
(* that is complete or returns it to the queue.                            *)
ChunksOnlyAdvance ==
  [][\A id \in DOMAIN transfers : \A i \in DOMAIN transfers[id].chunks :
       LET before == transfers[id].chunks[i]
           after  == transfers'[id].chunks[i]
       IN  /\ after.sent >= before.sent
           /\ before.state = "Completed" => after = before]_vars
=============================================================================
