------------------------------ MODULE Telemetry ------------------------------
(***************************************************************************)
(* The telemetry daemon (telemetry/telemetry.cpp): one collector thread    *)
(* samples every edge in turn into a ring buffer, application threads read *)
(* the latest sample of an edge from it, without a lock on either side.    *)
(*                                                                         *)
(* The collector claims a slot by advancing write_idx_ and fills it        *)
(* afterwards, one field after another in an order nothing fixes; a reader *)
(* looks at a slot and takes the utilization out of it in two steps.  So a *)
(* reader can meet a slot whose old contents are still, or only partly,    *)
(* there.                                                                  *)
(*                                                                         *)
(* Abstracted: a utilization is known by the number of the write that put  *)
(* it there (0 is the initial contents), and a timestamp by whether it is  *)
(* set.  Backends, overrides and the sampling rate decide the value and    *)
(* the moment, and nothing here depends on those.                          *)
(***************************************************************************)
EXTENDS Integers, FiniteSets

CONSTANTS
  NumEdges,    \* num_edges_
  RingSize,    \* TELEMETRY_RING_SIZE
  IndexLimit,  \* write_idx_ is an unsigned number below this (2^32)
  MaxWrites    \* bound on the writes of the collector

ASSUME TelemetryAssumption ==
  /\ {NumEdges, RingSize, IndexLimit, MaxWrites} \subseteq Nat \ {0}
  /\ IndexLimit % RingSize = 0

VARIABLES
  buffer,     \* buffer_
  writeIdx,   \* write_idx_
  running,    \* running_
  collector,  \* where collector_thread_ stands, [at, edge, slot, todo]
  joining,    \* stop() is waiting for the collector
  reader,     \* where read_latest stands, [at, edge, start, i]
  claims,     \* writes begun so far: the number of the running write
  newest,     \* newest[e]: the last write of edge e that is finished
  began,      \* what held when the read began, [claims, newest, quiet]
  result      \* the utilization the read gave: a write, 0 before that

daemon == <<buffer, writeIdx, running, collector, joining>>
reading == <<reader, began, result>>
vars == <<daemon, reading, claims, newest>>

Edges == 0 .. (NumEdges - 1)
Slots == 0 .. (RingSize - 1)
Fields == {"timestamp_ns", "edge_idx", "utilization"}

(* The collector writes the edges in turn, so a write's number tells its   *)
(* edge; write 0 is nobody's.                                              *)
EdgeOf(write) == (write - 1) % NumEdges

Init ==
  /\ buffer = [s \in Slots |-> [timestamp_ns |-> FALSE, edge_idx |-> 0, utilization |-> 0]]
  /\ writeIdx = 0
  /\ running = FALSE /\ joining = FALSE
  /\ collector = [at |-> "none", edge |-> 0, slot |-> 0, todo |-> {}]
  /\ reader = [at |-> "idle", edge |-> 0, start |-> 0, i |-> 0]
  /\ claims = 0
  /\ newest = [e \in Edges |-> 0]
  /\ began = [claims |-> 0, newest |-> 0, quiet |-> TRUE]
  /\ result = 0

-----------------------------------------------------------------------------
(* The collector thread *)

(* The head of collect_loop: another sweep over all edges, or the end.     *)
\* mutant: the flag is not looked at
SweepAlways ==
  /\ collector.at = "head"
  /\ claims + NumEdges <= MaxWrites
  /\ collector' = [collector EXCEPT !.at = "claim", !.edge = 0]
  /\ UNCHANGED <<buffer, writeIdx, running, joining, reading, claims, newest>>

Sweep ==
  /\ collector.at = "head"
  /\ running => claims + NumEdges <= MaxWrites
  /\ collector' = IF running THEN [collector EXCEPT !.at = "claim", !.edge = 0]
                             ELSE [collector EXCEPT !.at = "none"]
  /\ UNCHANGED <<buffer, writeIdx, running, joining, reading, claims, newest>>

\* mutant: the index is reduced by one slot too few
SlotShort(idx) == idx % (RingSize - 1)

\* mutant: only half of the slots are used
SlotHalf(idx) == idx % (RingSize \div 2)

Slot(idx) == idx % RingSize

(* write: fetch_add gives the slot ...                                     *)
Claim ==
  /\ collector.at = "claim"
  /\ writeIdx' = (writeIdx + 1) % IndexLimit
  /\ claims' = claims + 1
  /\ collector' = [collector EXCEPT !.at = "store", !.slot = Slot(writeIdx), !.todo = Fields]
  /\ UNCHANGED <<buffer, running, joining, reading, newest>>

\* mutant: the loop over the edges runs once too often
LastEdgeOneMore(e) == e = NumEdges

LastEdge(e) == e + 1 = NumEdges

(* ... and then the sample is stored in it, field by field.                *)
Store(f) ==
  /\ collector.at = "store" /\ f \in collector.todo
  /\ buffer' = [buffer EXCEPT ![collector.slot][f] =
                  CASE f = "timestamp_ns" -> TRUE
                    [] f = "edge_idx"     -> collector.edge
                    [] f = "utilization"  -> claims]
  /\ IF collector.todo # {f}
       THEN /\ collector' = [collector EXCEPT !.todo = @ \ {f}]
            /\ UNCHANGED newest
       ELSE /\ newest' = [newest EXCEPT ![collector.edge] = claims]
            /\ collector' =
                 [at   |-> IF LastEdge(collector.edge) THEN "head" ELSE "claim",
                  edge |-> IF LastEdge(collector.edge) THEN 0 ELSE collector.edge + 1,
                  slot |-> 0, todo |-> {}]
  /\ UNCHANGED <<writeIdx, running, joining, reading, claims>>

-----------------------------------------------------------------------------
(* start and stop, called by the thread that owns the daemon *)

Start ==
  /\ ~running /\ ~joining
  /\ running' = TRUE
  /\ collector' = [collector EXCEPT !.at = "head"]
  /\ UNCHANGED <<buffer, writeIdx, joining, reading, claims, newest>>

\* mutant: stop clears the flag and returns without joining the thread
StopNoJoin ==
  /\ running /\ ~joining
  /\ running' = FALSE
  /\ UNCHANGED <<buffer, writeIdx, joining, collector, reading, claims, newest>>

Stop ==
  /\ running /\ ~joining
  /\ running' = FALSE /\ joining' = TRUE
  /\ UNCHANGED <<buffer, writeIdx, collector, reading, claims, newest>>

Join ==
  /\ joining /\ collector.at = "none"
  /\ joining' = FALSE
  /\ UNCHANGED <<buffer, writeIdx, running, collector, reading, claims, newest>>

-----------------------------------------------------------------------------
(* read_latest; snapshot is one read after another *)

BeginRead(e) ==
  /\ reader.at = "idle"
  /\ reader' = [at |-> "scan", edge |-> e, start |-> writeIdx, i |-> 0]
  /\ began' = [claims |-> claims, newest |-> newest[e], quiet |-> collector.at # "store"]
  /\ result' = 0
  /\ UNCHANGED <<daemon, claims, newest>>

\* mutant: the scan starts at the slot the next write will take
ScanSlotAhead(start, i) == (start + RingSize - i) % RingSize

(* Backwards from the last slot claimed; the sum is made in 64 bits and    *)
(* does not wrap.                                                          *)
ScanSlot(start, i) == (start + RingSize - 1 - i) % RingSize

Scan ==
  /\ reader.at = "scan"
  /\ LET sample == buffer[ScanSlot(reader.start, reader.i)]
     IN  reader' =
           IF sample.edge_idx = reader.edge /\ sample.timestamp_ns
             THEN [reader EXCEPT !.at = "take"]
           ELSE IF reader.i + 1 = RingSize THEN [reader EXCEPT !.at = "missed"]
           ELSE [reader EXCEPT !.i = @ + 1]
  /\ UNCHANGED <<daemon, began, result, claims, newest>>

Take ==
  /\ reader.at = "take"
  /\ result' = buffer[ScanSlot(reader.start, reader.i)].utilization
  /\ reader' = [reader EXCEPT !.at = "done"]
  /\ UNCHANGED <<daemon, began, claims, newest>>

EndRead ==
  /\ reader.at \in {"done", "missed"}
  /\ reader' = [at |-> "idle", edge |-> 0, start |-> 0, i |-> 0]
  /\ began' = [claims |-> 0, newest |-> 0, quiet |-> TRUE]
  /\ result' = 0
  /\ UNCHANGED <<daemon, claims, newest>>

Collect == Sweep \/ Claim \/ \E f \in Fields : Store(f)

Next ==
  \/ Collect
  \/ Start \/ Stop \/ Join
  \/ \E e \in Edges : BeginRead(e)
  \/ Scan \/ Take \/ EndRead

(* The threads that are in a call, or in the collector's loop, get time.   *)
Spec == Init /\ [][Next]_vars /\ WF_vars(Collect) /\ WF_vars(Join)

-----------------------------------------------------------------------------
(* Properties *)

TypeOK ==
  /\ buffer \in [Slots -> [timestamp_ns : BOOLEAN, edge_idx : Edges, utilization : 0..MaxWrites]]
  /\ writeIdx \in 0 .. (IndexLimit - 1)
  /\ running \in BOOLEAN /\ joining \in BOOLEAN
  /\ collector \in [at : {"none", "head", "claim", "store"}, edge : Edges,
                    slot : Slots, todo : SUBSET Fields]
  /\ reader \in [at : {"idle", "scan", "take", "done", "missed"}, edge : Edges,
                 start : 0 .. (IndexLimit - 1), i : Slots]
  /\ claims \in 0..MaxWrites /\ result \in 0..MaxWrites

(* How many writes may begin while a read runs and leave it unharmed: the  *)
(* slots that hold none of the newest samples.                             *)
Slack == RingSize - NumEdges

Undisturbed == began.quiet /\ claims - began.claims <= Slack

(* A read that no write was half through when it began, and that fewer     *)
(* writes overlap than the ring has spare slots, gives a finished sample   *)
(* of its own edge, at least as new as the newest one when it began; only  *)
(* an edge that was never sampled is not found.                            *)
ReadIsLatest ==
  reader.at \in {"done", "missed"} /\ Undisturbed /\ began.newest > 0 =>
    reader.at = "done" /\ result >= began.newest /\ EdgeOf(result) = reader.edge

(* However the read and the writes interleave, the lookup finds some       *)
(* sample of an edge that was ever sampled, unless the collector overtook  *)
(* the reader.                                                             *)
MissedMeansOvertaken ==
  reader.at = "missed" /\ began.newest > 0 => claims - began.claims >= Slack

(* No edge is without a sample from its first one on: the path engine      *)
(* takes a missing sample for an idle edge.  It holds when the ring has    *)
(* more slots than there are edges, and only then.                         *)
SampledIsKept ==
  \A e \in Edges :
    newest[e] > 0 =>
      \E s \in Slots : buffer[s].timestamp_ns /\ buffer[s].edge_idx = e

(* After stop() has returned, no collector writes, until the next start(). *)
StoppedIsQuiet == ~running /\ ~joining => collector.at = "none"

(* stop() returns: the collector finishes its sweep and sees the flag.     *)
StopReturns == joining ~> ~joining
=============================================================================
