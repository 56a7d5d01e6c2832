------------------------------ MODULE Delivery ------------------------------
(***************************************************************************)
(* What a caller of the shim is promised, with no chunk, rail or           *)
(* suspension bookkeeping in sight: a transfer handed over is delivered in *)
(* full, what was delivered stays delivered, a transfer may be held for a  *)
(* while but not forever, and "delivered" is said exactly when no byte is  *)
(* missing.  One call may move many transfers at once.                     *)
(***************************************************************************)
EXTENDS Naturals, Sequences

CONSTANT MaxTransfers   \* bound on the transfers handed over

VARIABLES
  status,   \* status[id]: what the caller can learn of transfer id
  left      \* left[id]: bytes the destination still lacks

delivery == <<status, left>>

Statuses == {"moving", "held", "delivered"}

Init == status = <<>> /\ left = <<>>

(* What one step may do to a transfer that was already there.              *)
Unmoved(id) == status'[id] = status[id] /\ left'[id] = left[id]

Moved(id) ==
  /\ status[id] = "moving"
  /\ left'[id] <= left[id]
  /\ status'[id] = "moving" => left'[id] > 0
  /\ status'[id] = "held" => left'[id] > 0
  /\ status'[id] = "delivered" => left'[id] = 0

Released(id) ==
  /\ status[id] = "held"
  /\ status'[id] = "moving"
  /\ left'[id] = left[id]

(* A new transfer lacks all its bytes and moves.                           *)
Accepted == Len(status') = Len(status) + 1 => status'[Len(status')] = "moving"

Next ==
  /\ Len(status') \in {Len(status), Len(status) + 1}
  /\ Len(left') = Len(status') /\ Len(status') <= MaxTransfers
  /\ \A id \in DOMAIN status : Unmoved(id) \/ Moved(id) \/ Released(id)
  /\ Accepted

EveryTransferIsDelivered ==
  \A id \in 1..MaxTransfers :
    (Len(status) >= id) ~> (Len(status) >= id /\ status[id] = "delivered")

Spec == Init /\ [][Next]_delivery /\ EveryTransferIsDelivered
=============================================================================
