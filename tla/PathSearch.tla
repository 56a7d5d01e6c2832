----------------------------- MODULE PathSearch -----------------------------
(***************************************************************************)
(* The cluster's graph and the search for its paths (topology/topology.    *)
(* cpp), with the filter and the rail of a path that the path engine       *)
(* builds on it (path_engine/path_engine.cpp).                             *)
(*                                                                         *)
(* TopologyGraph::yen_k_shortest pops the cheapest partial path of a       *)
(* priority queue and pushes its extensions, until it has k paths.  Which  *)
(* of several equally cheap ones comes first is left open by               *)
(* std::priority_queue.  An edge costs more than 0, so the ties of one     *)
(* cost are all in the queue before the first of them is popped: a step    *)
(* here pops all of them, and picks any of the paths among them when there *)
(* are more than are still wanted.  paths() keeps the result for good.     *)
(*                                                                         *)
(* Abstracted: a path is the sequence of its vertices, as there is at most *)
(* one edge from one vertex to another; costs are rounded.                 *)
(***************************************************************************)
EXTENDS Integers, SequencesExt, FiniteSetsExt

CONSTANTS
  Searches  \* [nodes, gpus, src, dst, k, max_hops]: clusters and questions

VARIABLES
  search,   \* the question
  queue,    \* pq: the partial paths, with their cost
  result    \* the paths found

searchVars == <<search, queue, result>>

-----------------------------------------------------------------------------
(* The cluster: a vertex is [node, kind, id], see build_h100_node          *)

VerticesOf(c) ==
  [node : 0 .. (c.nodes - 1), kind : {"gpu"}, id : 0 .. (c.gpus - 1)]
    \cup [node : 0 .. (c.nodes - 1), kind : {"cpu", "cxl"}, id : {0}]
    \cup [node : 0 .. (c.nodes - 1), kind : {"ib"}, id : {0, 1}]

ASSUME SearchAssumption ==
  \A c \in Searches : /\ {c.nodes, c.gpus, c.k, c.max_hops} \subseteq Nat
                      /\ {c.src, c.dst} \subseteq VerticesOf(c)

Vertices == VerticesOf(search)

(* The fabric that connects two vertices of a node: the GPUs with one      *)
(* another and with everything else, the CPU with the IB ports.            *)
\* mutant: only the GPU with the lower number gets the edge
FabricInOneWay(u, v) ==
  CASE u.kind = "gpu" /\ v.kind = "gpu" -> IF u.id < v.id THEN "NVLink" ELSE "none"
    [] {u.kind, v.kind} \in {{"gpu", "cpu"}, {"cpu", "ib"}} -> "PCIe"
    [] {u.kind, v.kind} = {"gpu", "cxl"} -> "CXL"
    [] {u.kind, v.kind} = {"gpu", "ib"} -> "InfiniBand"
    [] OTHER -> "none"

FabricIn(u, v) ==
  CASE u.kind = "gpu" /\ v.kind = "gpu" -> IF u.id # v.id THEN "NVLink" ELSE "none"
    [] {u.kind, v.kind} \in {{"gpu", "cpu"}, {"cpu", "ib"}} -> "PCIe"
    [] {u.kind, v.kind} = {"gpu", "cxl"} -> "CXL"
    [] {u.kind, v.kind} = {"gpu", "ib"} -> "InfiniBand"
    [] OTHER -> "none"

(* The nodes are connected port by port: a rail never meets the other.     *)
\* mutant: both ports of a node lead to rail 0
FabricBetweenRail0(u, v) ==
  IF u.kind = "ib" /\ v.kind = "ib" /\ v.id = 0 THEN "InfiniBand" ELSE "none"

FabricBetween(u, v) ==
  IF u.kind = "ib" /\ v.kind = "ib" /\ u.id = v.id THEN "InfiniBand" ELSE "none"

EdgeFabric(u, v) == IF u.node = v.node THEN FabricIn(u, v) ELSE FabricBetween(u, v)

(* rail_id: the port at an end of an IB edge, -1 for the others.           *)
EdgeRail(u, v) ==
  IF EdgeFabric(u, v) # "InfiniBand" THEN -1
  ELSE IF u.kind = "ib" THEN u.id ELSE v.id

(* latency_us + 1e6 / bandwidth_gbps with default_fabric_attrs.            *)
EdgeCost(u, v) ==
  [NVLink |-> 1112, PCIe |-> 15628, CXL |-> 20005, InfiniBand |-> 20005][EdgeFabric(u, v)]

Successors(v) == {w \in Vertices : EdgeFabric(v, w) # "none"}

-----------------------------------------------------------------------------
(* The search *)

SearchInit ==
  /\ search \in Searches
  /\ queue = {[path |-> <<search.src>>, cost |-> 0]}
  /\ result = <<>>

Hops(path) == Len(path) - 1

(* The extensions of a partial path.  No edge may end where another edge   *)
(* of the path ends: the source, where none ends, may be met once more.    *)
\* mutant: the limit is met one hop too late
ExtensionsTooLong(s) ==
  IF Hops(s.path) > search.max_hops THEN {}
  ELSE { [path |-> Append(s.path, w), cost |-> s.cost + EdgeCost(Last(s.path), w)]
         : w \in Successors(Last(s.path)) \ Range(Tail(s.path)) }

Extensions(s) ==
  IF Hops(s.path) >= search.max_hops THEN {}
  ELSE { [path |-> Append(s.path, w), cost |-> s.cost + EdgeCost(Last(s.path), w)]
         : w \in Successors(Last(s.path)) \ Range(Tail(s.path)) }

Cheapest == {s \in queue : \A other \in queue : s.cost <= other.cost}

Searching == queue # {} /\ Len(result) < search.k

PopCheapest ==
  LET arrived == {s \in Cheapest : Last(s.path) = search.dst}
      wanted == Min({search.k - Len(result), Cardinality(arrived)})
  IN /\ Searching
     /\ \E found \in kSubset(wanted, arrived) :
          result' = result \o SetToSeq({s.path : s \in found})
     /\ queue' = (queue \ Cheapest) \cup UNION {Extensions(s) : s \in Cheapest \ arrived}
     /\ UNCHANGED search

SearchNext == PopCheapest

SearchSpec == SearchInit /\ [][SearchNext]_searchVars

-----------------------------------------------------------------------------
(* What the path engine makes of the paths *)

EdgesOf(path) == {<<path[i], path[i + 1]>> : i \in 1 .. Hops(path)}

Admits(class, fabric) ==
  CASE class = "TensorParallel" -> fabric \in {"NVLink", "InfiniBand"}
    [] class = "KVMigration" -> fabric # "PCIe"
    [] OTHER -> TRUE

(* A KV migration that no path admits takes any.                           *)
FlexibilitySet(class) ==
  LET admissible == {path \in Range(result) :
                       \A e \in EdgesOf(path) : Admits(class, EdgeFabric(e[1], e[2]))}
  IN IF admissible = {} /\ class = "KVMigration" THEN Range(result) ELSE admissible

(* path_rail_id: the rail of the first edge that is on one.                *)
PathRail(path) ==
  LET onRail == {i \in 1 .. Hops(path) : EdgeRail(path[i], path[i + 1]) >= 0}
  IN IF onRail = {} THEN -1
     ELSE LET first == Min(onRail) IN EdgeRail(path[first], path[first + 1])

-----------------------------------------------------------------------------
(* Properties *)

(* The reference: every walk from src that no two edges enter the same     *)
(* vertex on, and that ends where it meets dst, by its number of hops.     *)
WalksOf[n \in Nat] ==
  IF n = 0 THEN {<<search.src>>}
  ELSE UNION { {Append(w, v) : v \in Successors(Last(w)) \ Range(Tail(w))}
               : w \in {w \in WalksOf[n - 1] : Last(w) # search.dst} }

Walks == {w \in UNION {WalksOf[n] : n \in 0 .. search.max_hops} : Last(w) = search.dst}

Cost(path) ==
  LET upTo[n \in 0 .. Hops(path)] ==
        IF n = 0 THEN 0 ELSE upTo[n - 1] + EdgeCost(path[n], path[n + 1])
  IN upTo[Hops(path)]

(* When the search is over it has found the k cheapest walks within the    *)
(* hop limit, or all there are, each once and the cheapest first           *)
(* (yen_k_shortest, topology.cpp:68-95, "Lazy k-shortest path cache").     *)
CheapestFirst ==
  ~Searching =>
    /\ IsInjective(result)
    /\ Range(result) \subseteq Walks
    /\ Len(result) = Min({search.k, Cardinality(Walks)})
    /\ \A i \in 1 .. (Len(result) - 1) : Cost(result[i]) <= Cost(result[i + 1])
    /\ \A found \in Range(result), other \in Walks \ Range(result) : Cost(found) <= Cost(other)

(* Between GPUs of two nodes there is, with at least two paths of three    *)
(* hops allowed, a path on each rail that keeps to it, and latency-bound   *)
(* and KV traffic may use it ("Rail-isolated inter-node fabric",           *)
(* topology.cpp:166; build_cluster, flexibility_set): otherwise striping   *)
(* over the rails has one rail only.                                       *)
RailsAvailable ==
  (/\ ~Searching
   /\ search.src.kind = "gpu" /\ search.dst.kind = "gpu" /\ search.src.node # search.dst.node
   /\ search.k >= 2 /\ search.max_hops >= 3) =>
    \A class \in {"TensorParallel", "KVMigration"}, rail \in {0, 1} :
      \E path \in FlexibilitySet(class) :
        /\ PathRail(path) = rail
        /\ \A e \in EdgesOf(path) : EdgeRail(e[1], e[2]) \in {-1, rail}

(* With more GPUs in a node than paths are wanted, no path between GPUs    *)
(* meets a vertex twice ("Avoid cycles", topology.cpp:79): the check lets  *)
(* a path come back to its source, and only because cheaper paths through  *)
(* the other GPUs use up k it does not (6 paths, 8 GPUs in initialize).    *)
LoopFree ==
  (search.src.kind = "gpu" /\ search.dst.kind = "gpu" /\ search.gpus > search.k) =>
    \A path \in Range(result) : IsInjective(path)
=============================================================================
