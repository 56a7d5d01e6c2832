-------------------------- MODULE HardwareCounters --------------------------
(***************************************************************************)
(* Where a utilization comes from: the telemetry daemon's choice of        *)
(* backends (telemetry/telemetry.cpp) and the backends that turn hardware  *)
(* counters into utilizations (hw_counters.cpp, ib_mad.cpp,                *)
(* pmu_counters.cpp).  The collector asks for one edge after another;      *)
(* what it gets is the last override, or the answer of the first backend   *)
(* that answers, or a synthetic value.                                     *)
(*                                                                         *)
(* A backend remembers the counter it read last and when, and reports the  *)
(* growth since then.  Edges that cross one IB port share a client, which  *)
(* queries the port at most every Cadence ms and serves its last           *)
(* utilization in between.  Any read of the hardware may fail, a query of  *)
(* a port may be answered in another form than the last one, and time may  *)
(* pass between any two steps.                                             *)
(*                                                                         *)
(* Abstracted: one tick is 1 ms; a utilization is a percentage; what both  *)
(* directions of a port carry is one counter; all edges have the same peak *)
(* bandwidth.  A difference below 0 stands for the unsigned one, which is  *)
(* close to 2^64.  Directories and sysfs files exist or not once and for   *)
(* all.  EdgeHwBinding.pci_sysfs always names an IB port's directory,      *)
(* where there is no current_link_width: so PcieSysfsBackend never gets    *)
(* past its "soft-fail", and PmuCounterClient never opens sysfs_uncore.    *)
(*                                                                         *)
(* Left out: a machine whose kernel lists an uncore event and refuses to   *)
(* open it, where open_sysfs_uncore closes a directory twice               *)
(* (pmu_counters.cpp:228, 234).  A query takes no time, and the three      *)
(* forms of a port's counter are in one unit.                              *)
(***************************************************************************)
EXTENDS Integers, Sequences, FiniteSetsExt

CONSTANTS
  NumEdges,    \* num_edges_
  NumDevices,  \* IB devices: those of the machine, or the two placeholders
  Layouts,     \* what initialize() may configure, see Layout
  Peak,        \* peak_bw_gbps, in words of 4 bytes per tick
  Cadence,     \* the 2 ms between two queries of a port
  BaseLimit,   \* the counters of a PortCounters MAD are below this (2^32)
  Traffic,     \* the sets of kinds of counters that may advance in one tick
  Levels,      \* what a synthetic or momentary utilization may be
  NotSet,      \* override_valid_ is 0
  MaxTime      \* bound on the clock

(* machine: the libraries, devices and events the daemon finds; "nvlink"   *)
(* is the NVLink counter of the NVML library.                              *)
Fabrics == {"NVLink", "PCIe", "CXL", "InfiniBand"}
Kinds == <<"nvml", "ib_mad", "ibverbs_sysfs", "pmu", "pcie_sysfs">>
Parts == {"nvml", "nvlink", "ib", "umad", "perf_read", "perf_write", "pci"}

CounterNames == {"data", "wait", "lane", "perf_read", "perf_write"}

Layout == [fabrics : Seq(Fabrics), rails : Seq(Int), machine : SUBSET Parts,
           preferred : {"auto", "synthetic"} \cup {Kinds[k] : k \in DOMAIN Kinds},
           fallback : BOOLEAN]

ASSUME CountersAssumption ==
  /\ {NumEdges, NumDevices, Peak, Cadence, BaseLimit, MaxTime} \subseteq Nat \ {0}
  /\ Layouts \subseteq Layout
  /\ Traffic \subseteq SUBSET CounterNames
  /\ Levels \subseteq 0..99 /\ NotSet \notin 0..100

VARIABLES
  layout,     \* the daemon's configuration
  history,    \* history[t]: the counters of the hardware at time t; the
              \* last one is now
  override,   \* override_utils_, NotSet where override_valid_ is 0
  clients,    \* per IB port, the fields of its IbMadClient
  meters,     \* per edge, prev_tx_/prev_words_ and prev_ts_ of nvml and ibverbs
  pmus,       \* per edge, the fields of its PmuCounterClient
  collector,  \* where collect_loop stands: [at, edge, todo, silent, woke]
  report      \* the sample just written, NoReport otherwise

state == <<clients, meters, pmus>>
vars == <<layout, history, override, state, collector, report>>

now == Len(history)
Edges == 0 .. (NumEdges - 1)
Least(a, b) == IF a < b THEN a ELSE b

-----------------------------------------------------------------------------
(* The bindings of the edges *)

(* configure_edges pads a list of fabrics that is too short with IB edges. *)
\* mutant: the list is padded to one edge less
PaddingShort == Cardinality({e \in Edges : e > Len(layout.fabrics)})

Padding == Cardinality({e \in Edges : e >= Len(layout.fabrics)})

Bindings == Len(layout.fabrics) + Padding

Fabric(e) == IF e < Len(layout.fabrics) THEN layout.fabrics[e + 1] ELSE "InfiniBand"

(* The rails of the padded edges are appended to the list, wherever it     *)
(* ends; without a rail an IB edge takes a device in turn.                 *)
Rails == layout.rails \o [k \in 1..Padding |-> (Len(layout.fabrics) + k) % 2]

Port(e) ==
  IF e < Len(Rails) /\ Rails[e + 1] >= 0 THEN Rails[e + 1] % NumDevices
  ELSE IF Fabric(e) = "InfiniBand" THEN e % NumDevices ELSE 0

On(part) == part \in layout.machine
IsIb(e) == Fabric(e) = "InfiniBand"
IsPci(e) == Fabric(e) \in {"PCIe", "CXL"}
Ports == {Port(e) : e \in {e \in Edges : IsIb(e)}}

(* The counters of the machine that some backend reads.                    *)
Counters ==
  (IF On("ib") THEN {"data", "wait"} \X Ports ELSE {})
    \cup (IF On("nvlink") THEN {"lane"} \X {e \in Edges : Fabric(e) = "NVLink"} ELSE {})
    \cup (({"perf_read", "perf_write"} \cap layout.machine) \X {e \in Edges : IsPci(e)})

-----------------------------------------------------------------------------
(* The backends *)

(* PmuCounterClient::open: perf events first, then NVML's PCIe throughput. *)
PmuSource(e) ==
  IF ~IsPci(e) THEN "none"
  ELSE IF On("perf_read") \/ On("perf_write") THEN "perf_uncore"
  ELSE IF On("nvml") THEN "nvml_pcie" ELSE "none"

(* A backend is used when it is available and its init finds something.    *)
Usable(kind) ==
  CASE kind = "nvml" -> On("nvml")
    [] kind = "ib_mad" -> On("ib") /\ Ports # {}
    [] kind = "ibverbs_sysfs" -> On("ib")
    [] kind = "pmu" -> \E e \in Edges : PmuSource(e) # "none"
    [] kind = "pcie_sysfs" -> On("pci")
    [] OTHER -> FALSE

Backends ==
  {kind \in {Kinds[k] : k \in DOMAIN Kinds} :
     Usable(kind) /\ layout.preferred \in {"auto", kind}}

\* mutant: the name of a backend is missing from its fabric's list
MatchNoIbMad(kind, e) ==
  CASE kind = "nvml" -> Fabric(e) # "InfiniBand"
    [] kind = "ibverbs_sysfs" -> IsIb(e)
    [] kind \in {"pmu", "pcie_sysfs"} -> IsPci(e)
    [] OTHER -> FALSE

Match(kind, e) ==
  CASE kind = "nvml" -> Fabric(e) # "InfiniBand"
    [] kind \in {"ib_mad", "ibverbs_sysfs"} -> IsIb(e)
    [] kind \in {"pmu", "pcie_sysfs"} -> IsPci(e)
    [] OTHER -> FALSE

(* read_edge_util: two passes over the backends, in the order of Kinds;    *)
(* the first asks those of the edge's fabric, or a single backend anyway,  *)
(* the second all.  A turn is a place in the two passes.                   *)
KindAt(turn) == Kinds[IF turn > Len(Kinds) THEN turn - Len(Kinds) ELSE turn]

Turns(e) ==
  {turn \in 1 .. 2 * Len(Kinds) :
     /\ KindAt(turn) \in Backends
     /\ turn > Len(Kinds) \/ Match(KindAt(turn), e) \/ Backends = {KindAt(turn)}}

-----------------------------------------------------------------------------
(* Initial states and the environment *)

NoReport == [source |-> "nothing"]

Init ==
  /\ layout \in Layouts
  /\ history = <<[c \in Counters |-> 0]>>
  /\ override = [e \in Edges |-> NotSet]
  /\ clients = [p \in Ports |-> [prev |-> 0, wait |-> 0, ts |-> 0, last |-> 0, cached |-> 0,
                                 form |-> "none", since |-> 0, exact |-> FALSE, failed |-> FALSE]]
  /\ meters = [m \in {"lane", "data"} \X Edges |-> [prev |-> 0, ts |-> 0]]
  /\ pmus = [e \in Edges |-> [prev |-> [f \in {"perf_read", "perf_write"} |-> 0],
                              ts |-> 0, got |-> {}]]
  /\ collector = [at |-> "sleep", edge |-> 0, todo |-> {}, silent |-> {}, woke |-> 0]
  /\ report = NoReport

(* The hardware works: some counters advance in the next millisecond.      *)
Tick ==
  /\ now < MaxTime
  /\ \E busy \in Traffic :
       history' = Append(history, [c \in Counters |->
                                     history[now][c] + (IF c[1] \in busy THEN 1 ELSE 0)])
  /\ report' = NoReport
  /\ UNCHANGED <<layout, override, state, collector>>

(* An application pins an edge's utilization.                              *)
SetSimulatedUtil(e, util) ==
  /\ e < NumEdges
  /\ override' = [override EXCEPT ![e] = Least(util, 100)]
  /\ report' = NoReport
  /\ UNCHANGED <<layout, history, state, collector>>

-----------------------------------------------------------------------------
(* The collector's thread *)

edge == collector.edge
Turn == Min(collector.todo)
Asking(kind) == collector.at = "ask" /\ collector.todo # {} /\ KindAt(Turn) = kind

(* The sample is written to the ring, and the next edge is up.  `since`    *)
(* and `at` are the times of the two readings it is computed from, 0 when  *)
(* there are none; `exact` when they are readings of the same counters.    *)
Write(source, level, since, at, exact, failed) ==
  /\ report' = [edge |-> edge, source |-> source, level |-> level, since |-> since,
                at |-> at, exact |-> exact, failed |-> failed, taken |-> now,
                silent |-> collector.silent]
  /\ collector' =
       [collector EXCEPT !.at = IF edge + 1 < NumEdges THEN "edge" ELSE "sleep",
                         !.edge = (edge + 1) % NumEdges, !.todo = {}, !.silent = {},
                         !.woke = IF edge + 1 < NumEdges THEN @ ELSE now]
  /\ UNCHANGED <<layout, history, override>>

(* A value that does not come from a difference of two readings.           *)
WriteMomentary(source, level) ==
  Write(source, level, 0, now, FALSE, FALSE) /\ UNCHANGED state

(* sample() returns false: the next backend is asked.                      *)
NoAnswer ==
  /\ collector' = [collector EXCEPT !.todo = @ \ {Turn}, !.silent = @ \cup {KindAt(Turn)}]
  /\ report' = NoReport
  /\ UNCHANGED <<layout, history, override>>

(* sleep_for(interval) returns, at the earliest one tick later.            *)
Wake ==
  /\ collector.at = "sleep" /\ now > collector.woke
  /\ collector' = [collector EXCEPT !.at = "edge"]
  /\ report' = NoReport
  /\ UNCHANGED <<layout, history, override, state>>

(* An override is final and needs no backend.                              *)
CheckOverride ==
  /\ collector.at = "edge"
  /\ IF override[edge] # NotSet
     THEN WriteMomentary("override", override[edge])
     ELSE /\ collector' = [collector EXCEPT !.at = "ask", !.todo = Turns(edge)]
          /\ report' = NoReport
          /\ UNCHANGED <<layout, history, override, state>>

(* The bytes of dt ticks against what the edge can carry in that time; an  *)
(* unsigned difference below 0 is a huge one.                              *)
\* mutant: the difference is a signed number
UtilSigned(words, dt) == Least(99, (100 * words) \div (Peak * dt))

Util(words, dt) ==
  IF words < 0 THEN 99 ELSE Least(99, (100 * words) \div (Peak * dt))

(* nvml and ibverbs_sysfs: a counter of the edge against the last reading  *)
(* of it; the first reading reports 0.                                     *)
ReadMeter(source, m, counter) ==
  LET words == history[now][counter]
      last == meters[m]
      level == IF last.ts = 0 THEN 0 ELSE Util(words - last.prev, now - last.ts)
  IN /\ meters' = [meters EXCEPT ![m] = [prev |-> words, ts |-> now]]
     /\ Write(source, level, last.ts, now, TRUE, FALSE)
     /\ UNCHANGED <<clients, pmus>>

(* A library without nvmlDeviceGetNvLinkUtilizationCounter gives the PCIe  *)
(* throughput for NVLink edges, too.                                       *)
AskNvml ==
  /\ Asking("nvml")
  /\ \/ NoAnswer /\ UNCHANGED state
     \/ /\ edge < Bindings
        /\ IF Fabric(edge) = "NVLink" /\ On("nvlink")
           THEN ReadMeter("nvml", <<"lane", edge>>, <<"lane", edge>>)
           ELSE \E level \in Levels : WriteMomentary("nvml", level)

AskIbverbs ==
  /\ Asking("ibverbs_sysfs")
  /\ \/ NoAnswer /\ UNCHANGED state
     \/ /\ edge < Bindings /\ IsIb(edge)
        /\ ReadMeter("ibverbs_sysfs", <<"data", edge>>, <<"data", Port(edge)>>)

(* PcieSysfsBackend without a link width.                                  *)
AskPcie ==
  /\ Asking("pcie_sysfs")
  /\ IF edge < Bindings /\ IsPci(edge) THEN WriteMomentary("pcie_sysfs", 10)
     ELSE NoAnswer /\ UNCHANGED state

(* The forms in which a port can be queried: 64-bit counters ("ext"), the  *)
(* sysfs files ("file") or, where umad is there, a MAD with 32-bit         *)
(* counters ("base").  Only the last two know how long the port waited.    *)
Forms == {"ext", "file"} \cup (IF On("umad") THEN {"base"} ELSE {})

Reading(p, form) ==
  CASE form = "ext" -> [data |-> history[now][<<"data", p>>], wait |-> 0]
    [] form = "file" -> [data |-> history[now][<<"data", p>>],
                         wait |-> history[now][<<"wait", p>>]]
    [] form = "base" -> [data |-> history[now][<<"data", p>>] % BaseLimit,
                         wait |-> history[now][<<"wait", p>>] % BaseLimit]

(* No counter of the port passed BaseLimit between two times.              *)
NoWrap(p, s, t) ==
  \A name \in {"data", "wait"} :
    history[s][<<name, p>>] \div BaseLimit = history[t][<<name, p>>] \div BaseLimit

(* IbMadClient::sample_util.  A port that waited is busier than its        *)
(* traffic.                                                                *)
\* mutant: the time of the query is kept, the counters are not
ReadPortKeepsCounters(p, form) ==
  LET c == clients[p]
      r == Reading(p, form)
      dt == now - c.ts
      waited == IF r.wait > c.wait THEN r.wait - c.wait ELSE 0
      level == IF c.ts = 0 THEN 0 ELSE Least(99, Util(r.data - c.prev, dt) + waited)
  IN [prev |-> IF c.ts = 0 THEN r.data ELSE c.prev, wait |-> r.wait, ts |-> now,
      last |-> now, cached |-> level, form |-> form, since |-> c.ts,
      exact |-> c.form = form /\ (form = "base" => NoWrap(p, c.ts, now)), failed |-> FALSE]

ReadPort(p, form) ==
  LET c == clients[p]
      r == Reading(p, form)
      dt == now - c.ts
      waited == IF r.wait > c.wait THEN r.wait - c.wait ELSE 0
      level == IF c.ts = 0 THEN 0 ELSE Least(99, Util(r.data - c.prev, dt) + waited)
  IN [prev |-> r.data, wait |-> r.wait, ts |-> now,
      last |-> now, cached |-> level, form |-> form, since |-> c.ts,
      exact |-> c.form = form /\ (form = "base" => NoWrap(p, c.ts, now)), failed |-> FALSE]

\* mutant: a query that fails does not end the life of the last one
FreshUntilAnswered(p) == clients[p].ts # 0 /\ now - clients[p].last <= Cadence

(* A port that answered before is not asked again for Cadence ms.          *)
Fresh(p) == clients[p].ts # 0 /\ now - clients[p].last < Cadence

WritePort(p, c) == Write("ib_mad", c.cached, c.since, c.ts, c.exact, c.failed)

AskIbMad ==
  LET p == Port(edge)
  IN /\ Asking("ib_mad")
     /\ \/ /\ ~(edge < Bindings /\ IsIb(edge))
           /\ NoAnswer /\ UNCHANGED state
        \/ /\ edge < Bindings /\ IsIb(edge) /\ Fresh(p)
           /\ WritePort(p, clients[p]) /\ UNCHANGED state
        \/ /\ edge < Bindings /\ IsIb(edge) /\ ~Fresh(p)
           /\ UNCHANGED <<meters, pmus>>
           /\ \/ /\ clients' = [clients EXCEPT ![p].last = now, ![p].failed = TRUE]
                 /\ NoAnswer
              \/ \E form \in Forms :
                   /\ clients' = [clients EXCEPT ![p] = ReadPort(p, form)]
                   /\ WritePort(p, clients'[p])

(* PmuCounterClient::sample_perf: what both events counted.  An event that *)
(* cannot be read counts as 0, and 0 is what is remembered of it.          *)
ReadPmu(got) ==
  LET count == [f \in {"perf_read", "perf_write"} |->
                  IF f \in got THEN history[now][<<f, edge>>] ELSE 0]
      last == pmus[edge]
      grown(f) == IF f \in got THEN count[f] - last.prev[f] ELSE 0
      words == grown("perf_read") + grown("perf_write")
      level == IF last.ts = 0 THEN 0 ELSE Util(words, now - last.ts)
  IN /\ pmus' = [pmus EXCEPT ![edge] = [prev |-> count, ts |-> now, got |-> got]]
     /\ Write("perf_uncore", level, last.ts, now,
              got = last.got /\ got = {"perf_read", "perf_write"} \cap layout.machine, FALSE)
     /\ UNCHANGED <<clients, meters>>

AskPmu ==
  /\ Asking("pmu")
  /\ \/ NoAnswer /\ UNCHANGED state
     \/ /\ edge < Bindings
        /\ CASE PmuSource(edge) = "perf_uncore" ->
                  \E got \in SUBSET ({"perf_read", "perf_write"} \cap layout.machine) \ {{}} :
                    ReadPmu(got)
             [] PmuSource(edge) = "nvml_pcie" ->
                  \E level \in Levels : WriteMomentary("nvml_pcie", level)
             [] OTHER -> FALSE

(* No backend answered: the synthetic one does if it may.                  *)
FallBack ==
  /\ collector.at = "ask" /\ collector.todo = {}
  /\ IF layout.fallback /\ edge < Bindings
     THEN \E level \in Levels : WriteMomentary("synthetic", level)
     ELSE WriteMomentary("none", 0)

Next ==
  \/ Tick \/ Wake \/ CheckOverride
  \/ AskNvml \/ AskIbMad \/ AskIbverbs \/ AskPmu \/ AskPcie \/ FallBack
  \/ \E e \in Edges, util \in Levels : SetSimulatedUtil(e, util)

Spec == Init /\ [][Next]_vars

-----------------------------------------------------------------------------
(* Properties *)

Answers == {"override", "nvml", "ib_mad", "ibverbs_sysfs", "perf_uncore", "nvml_pcie",
            "pcie_sysfs", "synthetic", "none"}

(* Type invariant: a utilization is a percentage, below 100 unless an      *)
(* application pinned it, and no reading is remembered from the future     *)
(* (clamp and the timestamps of hw_counters.cpp, ib_mad.cpp,               *)
(* pmu_counters.cpp).                                                      *)
TypeOK ==
  /\ layout \in Layouts /\ now \in 1..MaxTime
  /\ override \in [Edges -> {NotSet} \cup 0..100]
  /\ \A p \in Ports : clients[p].cached \in 0..99 /\ {clients[p].ts, clients[p].last} \subseteq 0..now
  /\ \A m \in DOMAIN meters : meters[m].ts \in 0..now
  /\ \A e \in Edges : pmus[e].ts \in 0..now
  /\ collector.at \in {"sleep", "edge", "ask"} /\ edge \in Edges
  /\ report # NoReport => report.source \in Answers /\ report.edge \in Edges
                            /\ report.level \in 0..100
                            /\ (report.level = 100 => report.source = "override")

(* What a counter of the machine counted between two times, and what the   *)
(* hardware counted for an edge, as far as the source knows.               *)
Growth(c, s, t) == IF c \in Counters THEN history[t][c] - history[s][c] ELSE 0

Carried(source, e, s, t) ==
  CASE source \in {"ib_mad", "ibverbs_sysfs"} -> Growth(<<"data", Port(e)>>, s, t)
    [] source = "nvml" -> Growth(<<"lane", e>>, s, t)
    [] OTHER -> Growth(<<"perf_read", e>>, s, t) + Growth(<<"perf_write", e>>, s, t)

(* A utilization computed from two good readings is the traffic of the     *)
(* hardware between them over the time between them, plus at most what the *)
(* port waited: whatever failed, was shared, cached or overridden in       *)
(* between (the delta computations of the backends, ib_mad.cpp:346-356,    *)
(* hw_counters.cpp:222-229, 328-336, pmu_counters.cpp:308-320).            *)
UtilIsTraffic ==
  (report # NoReport /\ report.exact /\ report.since > 0) =>
    LET carried == Carried(report.source, report.edge, report.since, report.at)
        waited == IF report.source # "ib_mad" THEN 0
                  ELSE Growth(<<"wait", Port(report.edge)>>, report.since, report.at)
        util == Util(carried, report.at - report.since)
    IN util <= report.level /\ report.level <= Least(99, util + waited)

(* A port's utilization older than the cadence is only reported after a    *)
(* query of the port failed: while the port answers, what an edge gets is  *)
(* at most Cadence ms old, however many edges share the port (the cache of *)
(* IbMadClient::sample_util, ib_mad.cpp:320-325, "Batch MAD queries ~      *)
(* every 2 ms").                                                           *)
StaleOnlyAfterFailure ==
  (report # NoReport /\ report.source = "ib_mad" /\ report.taken - report.at >= Cadence) =>
    report.failed

(* With the fallback allowed every sample has a source, also those of the  *)
(* edges that the configured fabrics forgot (configure_edges' padding,     *)
(* "Uses synthetic when no hardware backend is available").                *)
AlwaysHasSource ==
  (report # NoReport /\ layout.fallback) => report.source # "none"

(* A backend of another fabric answers only for an edge whose own backends *)
(* have all been asked and had no answer ("Prefer fabric-matched           *)
(* backends", telemetry.cpp:180).                                          *)
OwnFabric(e) ==
  CASE Fabric(e) = "NVLink" -> {"nvml"}
    [] Fabric(e) = "InfiniBand" -> {"ib_mad", "ibverbs_sysfs"}
    [] OTHER -> {"nvml", "pmu", "perf_uncore", "nvml_pcie", "pcie_sysfs"}

OwnFabricFirst ==
  (report # NoReport /\ report.source # "override") =>
    \/ report.source \in OwnFabric(report.edge)
    \/ Backends \cap OwnFabric(report.edge) \subseteq report.silent
=============================================================================
