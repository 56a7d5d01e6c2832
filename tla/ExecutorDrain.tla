--------------------------- MODULE ExecutorDrain ---------------------------
(***************************************************************************)
(* TransferExecutor::drain_ready (transfer/transfer_executor.cpp): tick    *)
(* until nothing is active, and finish by hand whatever the first tick     *)
(* that completes nothing leaves behind.  It takes and drops mu_ three     *)
(* times per round, so other calls on the executor run in between: they    *)
(* are the steps of TransferExecutor.                                      *)
(*                                                                         *)
(* The limit of 10000 rounds is left out: a round that goes on completed   *)
(* a transfer, so there are never more rounds than transfers, plus one.    *)
(***************************************************************************)
EXTENDS TransferExecutor

VARIABLES
  drainPc,   \* where drain_ready stands
  idleTick   \* its last tick completed nothing (done.empty())

drainVars == <<transfers, copied, callbacks, drainPc, idleTick>>

DrainInit == Init /\ drainPc = "out" /\ idleTick = FALSE

(* The call, or the head of the loop: one tick.                            *)
DrainTick(rate) ==
  /\ drainPc \in {"out", "loop"}
  /\ Tick(rate)
  /\ idleTick' = (callbacks' = callbacks)
  /\ drainPc' = "look"

\* mutant: an idle tick is not the end of it, the loop ticks again
DrainLookAgain ==
  /\ drainPc = "look"
  /\ drainPc' = IF ~\E id \in DOMAIN transfers : Active(transfers[id]) THEN "out" ELSE "loop"
  /\ idleTick' = FALSE
  /\ UNCHANGED vars

(* `any` is computed under the lock; the decision then needs no lock.      *)
DrainLook ==
  /\ drainPc = "look"
  /\ drainPc' = IF ~\E id \in DOMAIN transfers : Active(transfers[id]) THEN "out"
                ELSE IF idleTick THEN "force" ELSE "loop"
  /\ idleTick' = FALSE
  /\ UNCHANGED vars

\* mutant: the remainder is copied again from the start of the chunk
ForcedBytesFromStart(tp, b) ==
  {i \in DOMAIN tp.chunks :
     /\ tp.chunks[i].state = "InFlight"
     /\ b \in tp.chunks[i].offset .. (tp.chunks[i].offset + tp.chunks[i].size - 1)}

ForcedBytes(tp, b) ==
  {i \in DOMAIN tp.chunks :
     LET c == tp.chunks[i]
     IN  c.state = "InFlight" /\ b \in (c.offset + c.sent) .. (c.offset + c.size - 1)}

(* Only the InFlight chunks are finished; the transfer is completed all    *)
(* the same (complete_locked), and suspend_at_boundary stays as it was.    *)
Forced(tp) ==
  [tp EXCEPT !.state = "Completed", !.bytesRemaining = 0,
     !.chunks = [i \in DOMAIN tp.chunks |->
                   IF tp.chunks[i].state = "InFlight"
                     THEN [tp.chunks[i] EXCEPT !.sent = tp.chunks[i].size,
                                               !.state = "Completed"]
                     ELSE tp.chunks[i]]]

\* mutant: the transfers are finished without looking at their state again
ForceEvery(table) == [id \in DOMAIN table |-> Forced(table[id])]

ForceAll(table) ==
  [id \in DOMAIN table |-> IF Active(table[id]) THEN Forced(table[id]) ELSE table[id]]

DrainForce ==
  /\ drainPc = "force"
  /\ transfers' = ForceAll(transfers)
  /\ copied' = [id \in DOMAIN copied |->
                  IF Active(transfers[id])
                    THEN [b \in DOMAIN copied[id] |->
                            copied[id][b] + Cardinality(ForcedBytes(transfers[id], b))]
                    ELSE copied[id]]
  /\ callbacks' = Called(callbacks, transfers, transfers')
  /\ drainPc' = "out"
  /\ UNCHANGED idleTick

DrainNext ==
  \/ Next /\ UNCHANGED <<drainPc, idleTick>>
  \/ \E rate \in Rates : DrainTick(rate)
  \/ DrainLook
  \/ DrainForce

(* The thread inside drain_ready is never stopped halfway; nobody has to   *)
(* call it or anything else.                                               *)
DrainStep ==
  \/ drainPc = "loop" /\ \E rate \in Rates : DrainTick(rate)
  \/ DrainLook
  \/ DrainForce

DrainSpec ==
  DrainInit /\ [][DrainNext]_drainVars /\ WF_drainVars(DrainStep)

-----------------------------------------------------------------------------
(* Properties.  CopiedExactlyOnce and CallbackOnce of TransferExecutor are *)
(* checked of drain_ready too: forcing the end of a chunk copies only what *)
(* was missing, and never completes a transfer twice even though the lock  *)
(* was free between the tick and the forced end.  CompletedIsDelivered is  *)
(* not: a chunk still waiting for its rail is left behind.                 *)

(* A call of drain_ready returns: every round but the last has completed a *)
(* transfer, and the last one forces the end of whatever is active.        *)
DrainReturns == (drainPc # "out") ~> (drainPc = "out")
=============================================================================
