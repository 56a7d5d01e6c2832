------------------------------ MODULE Striping ------------------------------
(***************************************************************************)
(* How a KV migration is cut into chunks (path_engine/path_engine.cpp,     *)
(* stripe_kv_migration) and the chunk record the transfer executor keeps   *)
(* for each piece (transfer/transfer_executor.hpp, ChunkProgress).         *)
(*                                                                         *)
(* A path is the set of its edges: the executor only asks whether two      *)
(* paths share an edge and which IB rail a path uses.  Which candidate     *)
(* path a chunk takes is a choice, because the code ranks candidates by    *)
(* telemetry that changes from call to call.                               *)
(***************************************************************************)
EXTENDS Integers, Sequences, FiniteSets

CONSTANTS
  Paths,       \* candidate paths, each a set of edges; {} is "no route"
  RailOf,      \* rail_of_path: the rail of the first IB edge, 0 without one
  RailCount,   \* kIbRailCount
  ChunkBytes   \* kKvChunkBytes, in units of bytes

ASSUME StripingAssumption ==
  /\ ChunkBytes \in Nat \ {0}
  /\ RailCount \in Nat \ {0}
  /\ RailOf \in [Paths -> Nat]

ChunkStates == {"Pending", "InFlight", "Paused", "Completed", "Cancelled"}

ChunkProgress ==
  [path : Paths, offset : Nat, size : Nat, sent : Nat, state : ChunkStates]

Smaller(a, b) == IF a <= b THEN a ELSE b

(* The loop of stripe_kv_migration runs once per quantum, rounded up.      *)
NumChunks(total) == (total + ChunkBytes - 1) \div ChunkBytes

\* mutant: the last chunk keeps the full quantum instead of the remainder
StripeFullTail(total, route) ==
  [i \in 1..NumChunks(total) |->
     [path |-> route[i], offset |-> (i - 1) * ChunkBytes,
      size |-> ChunkBytes, sent |-> 0, state |-> "Pending"]]

(* The chunk list for `total` bytes when chunk i takes path route[i].      *)
Stripe(total, route) ==
  [i \in 1..NumChunks(total) |->
     [path   |-> route[i],
      offset |-> (i - 1) * ChunkBytes,
      size   |-> Smaller(ChunkBytes, total - (i - 1) * ChunkBytes),
      sent   |-> 0,
      state  |-> "Pending"]]

(* A transfer that is not striped is one chunk of the whole size.          *)
Whole(total, path) ==
  << [path |-> path, offset |-> 0, size |-> total, sent |-> 0, state |-> "Pending"] >>

(* The sum of a sequence of numbers, as the number of pairs of an index    *)
(* and a unit: a sum that needs no recursion.                              *)
Pairs(f) == UNION {{i} \X (1..f[i]) : i \in DOMAIN f}
Total(f) == Cardinality(Pairs(f))

(* The sums over the chunks of bytes_sent and of chunk_size.               *)
SentBytes(chunks) == Total([i \in DOMAIN chunks |-> chunks[i].sent])
AllBytes(chunks)  == Total([i \in DOMAIN chunks |-> chunks[i].size])

(* The bytes of the transfer that chunk c has handed to the wire.          *)
SentRange(c) == c.offset .. (c.offset + c.sent - 1)
=============================================================================
