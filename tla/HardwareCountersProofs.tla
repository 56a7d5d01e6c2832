----------------------- MODULE HardwareCountersProofs -----------------------
(***************************************************************************)
(* What a utilization is worth, for any number of edges, devices and       *)
(* layouts, any cadence and any width of the counters.                     *)
(***************************************************************************)
EXTENDS HardwareCounters, NaturalFacts

AllKinds == {Kinds[k] : k \in DOMAIN Kinds}
Perf == {"perf_read", "perf_write"}

-----------------------------------------------------------------------------
(* The layout: what is derived from it, and that it does not change        *)

LEMMA KindsAre ==
  /\ Len(Kinds) = 5
  /\ AllKinds = {"nvml", "ib_mad", "ibverbs_sysfs", "pmu", "pcie_sysfs"}
  /\ \A turn \in 1 .. 10 : KindAt(turn) \in AllKinds
  /\ \A kind \in AllKinds : \E turn \in 1 .. 5 : KindAt(turn) = kind
<1>1. Len(Kinds) = 5 /\ DOMAIN Kinds = 1 .. 5
  BY DEF Kinds
<1>2. AllKinds = {"nvml", "ib_mad", "ibverbs_sysfs", "pmu", "pcie_sysfs"}
  BY <1>1 DEF AllKinds, Kinds
<1>3. ASSUME NEW turn \in 1 .. 10 PROVE KindAt(turn) \in AllKinds
  BY <1>1 DEF KindAt, AllKinds
<1>4. ASSUME NEW kind \in AllKinds PROVE \E turn \in 1 .. 5 : KindAt(turn) = kind
  <2>1. PICK k \in 1 .. 5 : kind = Kinds[k]
    BY <1>1 DEF AllKinds
  <2>2. KindAt(k) = kind
    BY <1>1, <2>1 DEF KindAt
  <2>3. QED BY <2>2
<1>5. QED BY <1>1, <1>2, <1>3, <1>4

LEMMA LayoutTyped ==
  ASSUME layout \in Layouts
  PROVE  /\ layout \in Layout
         /\ \A e \in Edges : Fabric(e) \in Fabrics
         /\ Bindings \in Int /\ Bindings >= NumEdges
<1>1. layout \in Layout /\ NumEdges \in Nat \ {0}
  BY CountersAssumption
<1>2. Len(layout.fabrics) \in Nat /\ layout.fabrics \in Seq(Fabrics)
  BY <1>1 DEF Layout
<1>3. ASSUME NEW e \in Edges PROVE Fabric(e) \in Fabrics
  <2>1. CASE e < Len(layout.fabrics)
    <3>1. e + 1 \in 1 .. Len(layout.fabrics)
      BY <1>1, <1>2, <2>1 DEF Edges
    <3>2. QED BY <1>2, <2>1, <3>1 DEF Fabric
  <2>2. QED BY <2>1 DEF Fabric, Fabrics
<1>4. Bindings \in Int /\ Bindings >= NumEdges
  <2>1. {e \in Edges : e >= Len(layout.fabrics)} = Len(layout.fabrics) .. (NumEdges - 1)
    BY <1>1, <1>2 DEF Edges
  <2>2. Padding = Cardinality(Len(layout.fabrics) .. (NumEdges - 1))
    BY <2>1 DEF Padding
  <2>3. Len(layout.fabrics) \in Int /\ NumEdges - 1 \in Int
    BY <1>1, <1>2
  <2>4. Padding = IF Len(layout.fabrics) > NumEdges - 1 THEN 0
                  ELSE (NumEdges - 1) - Len(layout.fabrics) + 1
    BY <2>2, <2>3, FS_Interval
  <2>5. Bindings = Len(layout.fabrics) + Padding
    BY DEF Bindings
  <2>6. PICK n \in Nat : n = Len(layout.fabrics)
    BY <1>2
  <2>7. Padding = IF n > NumEdges - 1 THEN 0 ELSE (NumEdges - 1) - n + 1
    BY <2>4, <2>6
  <2>8. Bindings = n + Padding
    BY <2>5, <2>6
  <2>9. QED BY <1>1, <2>7, <2>8
<1>5. QED BY <1>1, <1>3, <1>4

(* Everything that is derived from the layout alone.                       *)
LEMMA LayoutStays ==
  ASSUME layout' = layout
  PROVE  /\ \A e : Fabric(e)' = Fabric(e) /\ Port(e)' = Port(e)
         /\ \A e : IsIb(e)' = IsIb(e) /\ IsPci(e)' = IsPci(e)
         /\ \A part : On(part)' = On(part)
         /\ Ports' = Ports /\ Counters' = Counters /\ Forms' = Forms
         /\ Bindings' = Bindings /\ Backends' = Backends
         /\ \A e : Turns(e)' = Turns(e)
         /\ \A kind, e : Match(kind, e)' = Match(kind, e)
         /\ \A e : OwnFabric(e)' = OwnFabric(e) /\ PmuSource(e)' = PmuSource(e)
<1>1. Padding' = Padding
  BY DEF Padding
<1>2. \A e : Fabric(e)' = Fabric(e)
  BY DEF Fabric
<1>3. Rails' = Rails
  BY <1>1 DEF Rails
<1>4. \A e : Port(e)' = Port(e)
  BY <1>2, <1>3 DEF Port
<1>5. /\ \A e : IsIb(e)' = IsIb(e) /\ IsPci(e)' = IsPci(e)
      /\ \A part : On(part)' = On(part)
  BY <1>2 DEF IsIb, IsPci, On
<1>6. Ports' = Ports
  BY <1>4, <1>5 DEF Ports
<1>7. Counters' = Counters /\ Forms' = Forms /\ Bindings' = Bindings
  BY <1>1, <1>2, <1>5, <1>6 DEF Counters, Forms, Bindings
<1>8. \A e : PmuSource(e)' = PmuSource(e)
  BY <1>5 DEF PmuSource
<1>9. \A kind : Usable(kind)' = Usable(kind)
  BY <1>5, <1>6, <1>8 DEF Usable
<1>10. Backends' = Backends
  BY <1>9 DEF Backends
<1>11. \A kind, e : Match(kind, e)' = Match(kind, e)
  BY <1>2, <1>5 DEF Match
<1>12. \A e : Turns(e)' = Turns(e)
  BY <1>10, <1>11 DEF Turns
<1>13. \A e : OwnFabric(e)' = OwnFabric(e)
  BY <1>2 DEF OwnFabric
<1>14. QED BY <1>2, <1>4, <1>5, <1>6, <1>7, <1>8, <1>10, <1>11, <1>12, <1>13

(* The backends that read_edge_util prefers are those of the edge's fabric.*)
LEMMA MatchIsOwn ==
  ASSUME NEW e, Fabric(e) \in Fabrics, NEW kind \in AllKinds
  PROVE  Match(kind, e) <=> kind \in OwnFabric(e)
BY KindsAre DEF Match, OwnFabric, Fabrics, IsIb, IsPci

-----------------------------------------------------------------------------
(* The inductive invariant *)

(* The hardware only counts up.                                            *)
HistoryOK ==
  /\ history \in Seq([Counters -> Nat]) /\ now \in 1 .. MaxTime
  /\ \A s, t \in 1 .. now : s <= t => \A c \in Counters : history[s][c] <= history[t][c]

(* What a query of port p said at time t.                                  *)
ReadingAt(p, form, t) ==
  IF form = "base" THEN [data |-> history[t][<<"data", p>>] % BaseLimit,
                         wait |-> history[t][<<"wait", p>>] % BaseLimit]
  ELSE [data |-> history[t][<<"data", p>>],
        wait |-> IF form = "ext" THEN 0 ELSE history[t][<<"wait", p>>]]

(* The utilization a port had between two times.                           *)
PortWithin(p, level, s, t) ==
  LET util == Util(Growth(<<"data", p>>, s, t), t - s)
  IN util <= level /\ level <= Least(99, util + Growth(<<"wait", p>>, s, t))

Client ==
  [prev : Nat, wait : Nat, ts : Nat, last : Nat, cached : 0 .. 99,
   form : {"none", "ext", "file", "base"}, since : Nat, exact : BOOLEAN, failed : BOOLEAN]

(* A client remembers what the port said at the time it names, and the     *)
(* last query it does not remember an answer of has failed.                *)
PortOK(p) ==
  LET c == clients[p]
  IN /\ c \in Client
     /\ c.since <= c.ts /\ c.ts <= c.last /\ c.last <= now
     /\ ~c.failed => c.last = c.ts
     /\ c.ts > 0 =>
          On("ib") /\ [data |-> c.prev, wait |-> c.wait] = ReadingAt(p, c.form, c.ts)
     /\ c.exact /\ c.since > 0 => c.since < c.ts /\ PortWithin(p, c.cached, c.since, c.ts)

ClientsOK == DOMAIN clients = Ports /\ \A p \in Ports : PortOK(p)

(* The last reading of an edge is from an earlier sweep, until the sweep   *)
(* comes to the edge.                                                      *)
ReadBy(e) == IF e >= edge THEN collector.woke ELSE now

CounterOf(kind, e) == IF kind = "lane" THEN <<"lane", e>> ELSE <<"data", Port(e)>>

MeterOK(kind, e) ==
  LET m == meters[<<kind, e>>]
  IN /\ m \in [prev : Nat, ts : Nat] /\ m.ts <= ReadBy(e)
     /\ m.ts > 0 => CounterOf(kind, e) \in Counters /\ m.prev = history[m.ts][CounterOf(kind, e)]

MetersOK ==
  /\ DOMAIN meters = {"lane", "data"} \X Edges
  /\ \A kind \in {"lane", "data"}, e \in Edges : MeterOK(kind, e)

PmuOK(e) ==
  LET u == pmus[e]
  IN /\ u \in [prev : [Perf -> Nat], ts : Nat, got : SUBSET (Perf \cap layout.machine)]
     /\ u.ts <= ReadBy(e)
     /\ u.ts > 0 => IsPci(e) /\ \A f \in u.got : u.prev[f] = history[u.ts][<<f, e>>]

PmusOK == DOMAIN pmus = Edges /\ \A e \in Edges : PmuOK(e)

(* The collector: it has slept for a tick; and the backends whose turn is  *)
(* over were silent.                                                       *)
CollectorOK ==
  /\ collector \in [at : {"sleep", "edge", "ask"}, edge : Edges, todo : SUBSET (1 .. 10),
                    silent : SUBSET AllKinds, woke : Nat]
  /\ collector.woke <= now
  /\ collector.at = "sleep" => edge = 0
  /\ collector.at # "sleep" => collector.woke < now
  /\ collector.at = "ask" =>
       /\ collector.todo \subseteq Turns(edge)
       /\ \A over \in Turns(edge) \ collector.todo :
            KindAt(over) \in collector.silent /\ \A turn \in collector.todo : over < turn

Reported ==
  [edge : Edges, source : Answers, level : 0 .. 100, since : Nat, at : Nat, exact : BOOLEAN,
   failed : BOOLEAN, taken : Nat, silent : SUBSET AllKinds]

ReportOK ==
  report # NoReport =>
    /\ report \in Reported
    /\ report.level = 100 => report.source = "override"

SettingsOK == layout \in Layouts /\ override \in [Edges -> {NotSet} \cup 0 .. 100]

(* The state of the backends, and the rest.                                *)
StateOK == ClientsOK /\ MetersOK /\ PmusOK

SamplesOK ==
  /\ SettingsOK /\ HistoryOK /\ CollectorOK /\ ReportOK
  /\ UtilIsTraffic /\ StaleOnlyAfterFailure /\ AlwaysHasSource /\ OwnFabricFirst

CountersInv == StateOK /\ SamplesOK

(* Time goes on, what was counted stays, and no edge is due earlier.       *)
Later ==
  /\ layout' = layout /\ now' \in Nat /\ now <= now'
  /\ \A t \in 1 .. now : history'[t] = history[t]
  /\ \A e \in Edges : ReadBy(e)' \in Nat /\ ReadBy(e) <= ReadBy(e)'

-----------------------------------------------------------------------------
(* What is remembered of a backend stays true                              *)

LEMMA GrowthStays ==
  ASSUME HistoryOK, Later, NEW c, NEW s \in 1 .. now, NEW t \in 1 .. now
  PROVE  Growth(c, s, t)' = Growth(c, s, t)
<1>1. Counters' = Counters
  BY LayoutStays DEF Later
<1>2. history'[s] = history[s] /\ history'[t] = history[t]
  BY DEF Later
<1>3. QED BY <1>1, <1>2 DEF Growth

LEMMA GrowthTyped ==
  ASSUME HistoryOK, NEW c, NEW s \in 1 .. now, NEW t \in 1 .. now, s <= t
  PROVE  Growth(c, s, t) \in Nat
<1>1. CASE c \in Counters
  <2>1. history[s] \in [Counters -> Nat] /\ history[t] \in [Counters -> Nat]
    BY DEF HistoryOK, now
  <2>2. history[s][c] <= history[t][c]
    BY <1>1 DEF HistoryOK
  <2>3. QED BY <1>1, <2>1, <2>2 DEF Growth
<1>2. QED BY <1>1 DEF Growth

(* A client that learnt nothing new.                                       *)
LEMMA PortStays ==
  ASSUME HistoryOK, Later, NEW p \in Ports, PortOK(p), NEW c, NEW d,
         c = clients[p], d = clients'[p], d \in Client,
         d.prev = c.prev, d.wait = c.wait, d.ts = c.ts, d.cached = c.cached, d.form = c.form,
         d.since = c.since, d.exact = c.exact,
         d.ts <= d.last, d.last <= now', ~d.failed => d.last = d.ts
  PROVE  PortOK(p)'
<1>1. Ports' = Ports /\ On("ib")' = On("ib")
  BY LayoutStays DEF Later
<1>2. now \in Nat /\ c \in Client /\ c.last <= now /\ c.ts <= c.last /\ c.since <= c.ts
  BY DEF PortOK, HistoryOK
<1>3. ASSUME c.ts > 0 PROVE ReadingAt(p, c.form, c.ts)' = ReadingAt(p, c.form, c.ts)
  <2>1. c.ts \in 1 .. now
    BY <1>2, <1>3 DEF Client
  <2>2. history'[c.ts] = history[c.ts]
    BY <2>1 DEF Later
  <2>3. QED BY <2>2 DEF ReadingAt
<1>4. ASSUME c.exact, c.since > 0
      PROVE  c.since < c.ts /\ PortWithin(p, c.cached, c.since, c.ts)'
  <2>1. c.since < c.ts /\ PortWithin(p, c.cached, c.since, c.ts)
    BY <1>4 DEF PortOK
  <2>2. c.since \in 1 .. now /\ c.ts \in 1 .. now
    BY <1>2, <1>4, <2>1 DEF Client
  <2>3. /\ Growth(<<"data", p>>, c.since, c.ts)' = Growth(<<"data", p>>, c.since, c.ts)
        /\ Growth(<<"wait", p>>, c.since, c.ts)' = Growth(<<"wait", p>>, c.since, c.ts)
    BY <2>2, GrowthStays
  <2>4. QED BY <2>1, <2>3 DEF PortWithin, Util, Least
<1>5. c.ts > 0 => On("ib") /\ [data |-> c.prev, wait |-> c.wait] = ReadingAt(p, c.form, c.ts)
  BY DEF PortOK
<1>6. QED BY <1>1, <1>2, <1>3, <1>4, <1>5 DEF PortOK

LEMMA ClientsStay ==
  ASSUME HistoryOK, ClientsOK, Later, clients' = clients
  PROVE  ClientsOK'
<1>1. Ports' = Ports
  BY LayoutStays DEF Later
<1>2. ASSUME NEW p \in Ports PROVE PortOK(p)'
  <2>1. PortOK(p)
    BY DEF ClientsOK
  <2>2. PICK c : c = clients[p] /\ c = clients'[p]
    OBVIOUS
  <2>3. /\ c \in Client /\ c.ts <= c.last /\ c.last <= now /\ (~c.failed => c.last = c.ts)
        /\ now \in Nat
    BY <2>1, <2>2 DEF PortOK, HistoryOK
  <2>4. c.last <= now'
    BY <2>3 DEF Later, Client
  <2>5. QED BY <2>1, <2>2, <2>3, <2>4, PortStays
<1>3. QED BY <1>1, <1>2 DEF ClientsOK

LEMMA MetersStay ==
  ASSUME HistoryOK, MetersOK, Later, meters' = meters, \A e \in Edges : ReadBy(e) \in 0 .. now
  PROVE  MetersOK'
<1>1. SUFFICES ASSUME NEW kind \in {"lane", "data"}, NEW e \in Edges PROVE MeterOK(kind, e)'
  BY DEF MetersOK
<1>2. MeterOK(kind, e)
  BY DEF MetersOK
<1>3. CounterOf(kind, e)' = CounterOf(kind, e) /\ Counters' = Counters
  BY LayoutStays DEF Later, CounterOf
<1>4. PICK m : m = meters[<<kind, e>>] /\ m = meters'[<<kind, e>>]
  OBVIOUS
<1>5. m \in [prev : Nat, ts : Nat] /\ m.ts <= ReadBy(e)
  BY <1>2, <1>4 DEF MeterOK
<1>6. m.ts <= ReadBy(e)' /\ m.ts <= now
  BY <1>5 DEF Later, HistoryOK
<1>7. m.ts > 0 => history'[m.ts] = history[m.ts]
  BY <1>5, <1>6 DEF Later, HistoryOK
<1>8. m.ts > 0 => CounterOf(kind, e) \in Counters /\ m.prev = history[m.ts][CounterOf(kind, e)]
  BY <1>2, <1>4 DEF MeterOK
<1>9. QED BY <1>3, <1>4, <1>5, <1>6, <1>7, <1>8 DEF MeterOK

LEMMA PmusStay ==
  ASSUME HistoryOK, PmusOK, Later, pmus' = pmus, \A e \in Edges : ReadBy(e) \in 0 .. now
  PROVE  PmusOK'
<1>1. SUFFICES ASSUME NEW e \in Edges PROVE PmuOK(e)'
  BY DEF PmusOK
<1>2. PmuOK(e)
  BY DEF PmusOK
<1>3. IsPci(e)' = IsPci(e) /\ layout' = layout
  BY LayoutStays DEF Later
<1>4. PICK u : u = pmus[e] /\ u = pmus'[e]
  OBVIOUS
<1>5. /\ u \in [prev : [Perf -> Nat], ts : Nat, got : SUBSET (Perf \cap layout.machine)]
      /\ u.ts <= ReadBy(e)
  BY <1>2, <1>4 DEF PmuOK
<1>6. u.ts <= ReadBy(e)' /\ u.ts <= now
  BY <1>5 DEF Later, HistoryOK
<1>7. u.ts > 0 => history'[u.ts] = history[u.ts]
  BY <1>5, <1>6 DEF Later, HistoryOK
<1>8. u.ts > 0 => IsPci(e) /\ \A f \in u.got : u.prev[f] = history[u.ts][<<f, e>>]
  BY <1>2, <1>4 DEF PmuOK
<1>9. QED BY <1>3, <1>4, <1>5, <1>6, <1>7, <1>8 DEF PmuOK

-----------------------------------------------------------------------------
(* Time, overrides and the collector's own steps                           *)

LEMMA ReadByTyped ==
  ASSUME HistoryOK, CollectorOK
  PROVE  /\ now \in Nat /\ edge \in Edges /\ edge \in Nat
         /\ \A e \in Edges : e \in Nat /\ ReadBy(e) \in 0 .. now
         /\ collector.at # "sleep" => ReadBy(edge) < now
<1>1. NumEdges \in Nat \ {0}
  BY CountersAssumption
<1>2. now \in Nat /\ edge \in Edges /\ collector.woke \in 0 .. now
  BY DEF HistoryOK, CollectorOK, edge
<1>3. QED BY <1>1, <1>2 DEF Edges, ReadBy, CollectorOK

(* A step that only touches the clock, an override or where the collector  *)
(* stands, and leaves no sample.                                           *)
LEMMA NothingReported ==
  ASSUME StateOK, HistoryOK, CollectorOK, Later, UNCHANGED state, report' = NoReport
  PROVE  StateOK' /\ ReportOK' /\ UtilIsTraffic' /\ StaleOnlyAfterFailure' /\ AlwaysHasSource'
           /\ OwnFabricFirst'
<1>1. clients' = clients /\ meters' = meters /\ pmus' = pmus
  BY DEF state
<1>2. StateOK'
  BY <1>1, ReadByTyped, ClientsStay, MetersStay, PmusStay DEF StateOK
<1>3. QED
  BY <1>2 DEF ReportOK, UtilIsTraffic, StaleOnlyAfterFailure, AlwaysHasSource, OwnFabricFirst

LEMMA TickKeeps ==
  ASSUME CountersInv, Tick
  PROVE  CountersInv'
<1> DEFINE next(busy) == [c \in Counters |-> history[now][c] + (IF c[1] \in busy THEN 1 ELSE 0)]
<1>1. StateOK /\ SettingsOK /\ HistoryOK /\ CollectorOK
  BY DEF CountersInv, SamplesOK
<1>2. /\ layout' = layout /\ override' = override /\ UNCHANGED state /\ collector' = collector
      /\ report' = NoReport /\ now < MaxTime
  BY DEF Tick
<1>3. PICK busy : history' = Append(history, next(busy))
  BY DEF Tick
<1>4. history \in Seq([Counters -> Nat]) /\ now \in 1 .. MaxTime /\ now = Len(history)
      /\ MaxTime \in Nat
  BY <1>1, CountersAssumption DEF HistoryOK, now
<1>5. history[now] \in [Counters -> Nat]
  BY <1>4
<1>6. next(busy) \in [Counters -> Nat]
  BY <1>5
<1>7. ASSUME NEW c \in Counters PROVE history[now][c] <= next(busy)[c]
  BY <1>5
<1> HIDE DEF next
<1>8. /\ history' \in Seq([Counters -> Nat]) /\ now' = now + 1
      /\ history'[now + 1] = next(busy) /\ \A t \in 1 .. now : history'[t] = history[t]
  BY <1>3, <1>4, <1>6 DEF now
<1>9. Counters' = Counters
  BY <1>2, LayoutStays
<1>10. HistoryOK'
  <2>1. now' \in 1 .. MaxTime
    BY <1>2, <1>4, <1>8
  <2>2. ASSUME NEW s \in 1 .. now + 1, NEW t \in 1 .. now + 1, s <= t, NEW c \in Counters
        PROVE  history'[s][c] <= history'[t][c]
    <3>1. CASE t \in 1 .. now
      <4>1. s \in 1 .. now
        BY <1>4, <2>2, <3>1
      <4>2. QED BY <1>1, <1>8, <2>2, <3>1, <4>1 DEF HistoryOK
    <3>2. CASE t = now + 1 /\ s \in 1 .. now
      <4>1. history[s][c] <= history[now][c]
        BY <1>1, <1>4, <3>2 DEF HistoryOK
      <4>2. history[s] \in [Counters -> Nat]
        BY <1>4, <3>2
      <4>3. history'[s] = history[s] /\ history'[t] = next(busy)
        BY <1>8, <3>2
      <4>4. QED BY <1>5, <1>6, <1>7, <4>1, <4>2, <4>3
    <3>3. CASE t = now + 1 /\ s = now + 1
      BY <1>6, <1>8, <3>3
    <3>4. QED BY <1>4, <3>1, <3>2, <3>3
  <2>3. QED BY <1>8, <1>9, <2>1, <2>2 DEF HistoryOK
<1>11. Later
  <2>1. ASSUME NEW e \in Edges PROVE ReadBy(e)' \in Nat /\ ReadBy(e) <= ReadBy(e)'
    <3>1. collector.woke \in 0 .. now
      BY <1>1 DEF CollectorOK, HistoryOK
    <3>2. QED BY <1>2, <1>4, <1>8, <3>1 DEF ReadBy, edge
  <2>2. QED BY <1>2, <1>4, <1>8, <2>1 DEF Later
<1>12. CollectorOK'
  <2>1. Turns(edge)' = Turns(edge)
    <3>1. \A e : Turns(e)' = Turns(e)
      BY <1>2, LayoutStays
    <3>2. QED BY <1>2, <3>1 DEF edge, Turns
  <2>2. collector.woke \in Nat
    BY <1>1 DEF CollectorOK
  <2>3. QED BY <1>1, <1>2, <1>4, <1>8, <2>1, <2>2 DEF CollectorOK, edge, KindAt
<1>13. SettingsOK'
  BY <1>1, <1>2 DEF SettingsOK
<1>14. QED
  BY <1>1, <1>2, <1>10, <1>11, <1>12, <1>13, NothingReported DEF CountersInv, SamplesOK

LEMMA SetSimulatedUtilKeeps ==
  ASSUME CountersInv, NEW e \in Edges, NEW util \in Levels, SetSimulatedUtil(e, util)
  PROVE  CountersInv'
<1>1. StateOK /\ SettingsOK /\ HistoryOK /\ CollectorOK
  BY DEF CountersInv, SamplesOK
<1>2. /\ layout' = layout /\ history' = history /\ UNCHANGED state /\ collector' = collector
      /\ report' = NoReport
  BY DEF SetSimulatedUtil
<1>3. SettingsOK'
  <2>1. Least(util, 100) \in 0 .. 100
    BY CountersAssumption DEF Least
  <2>2. QED BY <1>1, <1>2, <2>1 DEF SettingsOK, SetSimulatedUtil
<1>4. \A f : Turns(f)' = Turns(f)
  BY <1>2, LayoutStays
<1>5. Counters' = Counters /\ now' = now /\ edge' = edge /\ Turns(edge)' = Turns(edge)
  BY <1>2, <1>4, LayoutStays DEF now, edge, Turns
<1>6. HistoryOK' /\ CollectorOK'
  BY <1>1, <1>2, <1>5 DEF HistoryOK, CollectorOK, KindAt
<1>7. Later
  BY <1>1, <1>2, <1>5, ReadByTyped DEF Later, ReadBy
<1>8. QED BY <1>1, <1>2, <1>3, <1>6, <1>7, NothingReported DEF CountersInv, SamplesOK

LEMMA WakeKeeps ==
  ASSUME CountersInv, Wake
  PROVE  CountersInv'
<1>1. StateOK /\ SettingsOK /\ HistoryOK /\ CollectorOK
  BY DEF CountersInv, SamplesOK
<1>2. /\ layout' = layout /\ history' = history /\ override' = override /\ UNCHANGED state
      /\ collector' = [collector EXCEPT !.at = "edge"] /\ collector.woke < now
      /\ report' = NoReport
  BY <1>1 DEF Wake, CollectorOK, HistoryOK
<1>3. Counters' = Counters /\ now' = now /\ edge' = edge /\ collector'.woke = collector.woke
  BY <1>1, <1>2, LayoutStays DEF now, edge, CollectorOK
<1>4. SettingsOK' /\ HistoryOK' /\ CollectorOK'
  BY <1>1, <1>2, <1>3 DEF SettingsOK, HistoryOK, CollectorOK, edge
<1>5. Later
  BY <1>1, <1>2, <1>3, ReadByTyped DEF Later, ReadBy
<1>6. QED BY <1>1, <1>2, <1>4, <1>5, NothingReported DEF CountersInv, SamplesOK

-----------------------------------------------------------------------------
(* An answer, and none                                                     *)

(* The utilization of edge e between two times, as UtilIsTraffic has it.   *)
Within(source, e, level, s, t) ==
  LET waited == IF source # "ib_mad" THEN 0 ELSE Growth(<<"wait", Port(e)>>, s, t)
      util == Util(Carried(source, e, s, t), t - s)
  IN util <= level /\ level <= Least(99, util + waited)

LEMMA WriteKeeps ==
  ASSUME SettingsOK, HistoryOK, CollectorOK, collector.at # "sleep",
         NEW source \in Answers, NEW level \in 0 .. 100, NEW since \in Nat, NEW at \in Nat,
         NEW exact \in BOOLEAN, NEW failed \in BOOLEAN,
         level = 100 => source = "override",
         exact = TRUE /\ since > 0 => Within(source, edge, level, since, at),
         source = "ib_mad" /\ now - at >= Cadence => failed = TRUE,
         layout.fallback => source # "none",
         \/ source \in {"override"} \cup OwnFabric(edge)
         \/ Backends \cap OwnFabric(edge) \subseteq collector.silent,
         Write(source, level, since, at, exact, failed)
  PROVE  SamplesOK' /\ Later /\ \A e \in Edges : e = edge => ReadBy(e)' = now
<1>1. /\ layout' = layout /\ history' = history /\ override' = override
      /\ report' = [edge |-> edge, source |-> source, level |-> level, since |-> since,
                    at |-> at, exact |-> exact, failed |-> failed, taken |-> now,
                    silent |-> collector.silent]
  BY DEF Write
<1>2. /\ Counters' = Counters /\ now' = now /\ Backends' = Backends
      /\ \A e : Port(e)' = Port(e) /\ OwnFabric(e)' = OwnFabric(e)
  BY <1>1, LayoutStays DEF now
<1>3. /\ edge \in Edges /\ now \in Nat /\ collector.silent \subseteq AllKinds
      /\ NumEdges \in Nat \ {0} /\ collector.woke \in Nat /\ collector.woke < now
  BY ReadByTyped, CountersAssumption DEF CollectorOK
<1>4. SettingsOK' /\ HistoryOK'
  BY <1>1, <1>2 DEF SettingsOK, HistoryOK
<1>5. /\ report' \in Reported /\ report'.source = source /\ report'.level = level
      /\ report'.edge = edge /\ report'.since = since /\ report'.at = at /\ report'.taken = now
      /\ report'.exact = exact /\ report'.failed = failed /\ report'.silent = collector.silent
  BY <1>1, <1>3 DEF Reported
<1>6. ReportOK' /\ AlwaysHasSource' /\ StaleOnlyAfterFailure'
  BY <1>1, <1>5 DEF ReportOK, AlwaysHasSource, StaleOnlyAfterFailure, Reported, Answers
<1>7. UtilIsTraffic'
  <2>1. \A c, s, t : Growth(c, s, t)' = Growth(c, s, t)
    BY <1>1, <1>2 DEF Growth
  <2>2. \A e, s, t : Carried(source, e, s, t)' = Carried(source, e, s, t)
    BY <1>2, <2>1 DEF Carried
  <2>3. exact /\ since > 0 => Within(source, edge, level, since, at)
    OBVIOUS
  <2>4. SUFFICES ASSUME exact, since > 0
        PROVE  LET carried == Carried(source, edge, since, at)
                   waited == IF source # "ib_mad" THEN 0
                             ELSE Growth(<<"wait", Port(edge)>>, since, at)
                   util == Util(carried, at - since)
               IN util <= level /\ level <= Least(99, util + waited)
    BY <1>2, <1>5, <2>1, <2>2 DEF UtilIsTraffic, Carried, Util, Least
  <2>5. QED BY <2>3, <2>4 DEF Within
<1>8. OwnFabricFirst'
  BY <1>2, <1>5 DEF OwnFabricFirst
<1>9. (edge + 1) % NumEdges \in Edges /\ (edge + 1 < NumEdges => (edge + 1) % NumEdges = edge + 1)
      /\ (~(edge + 1 < NumEdges) => (edge + 1) % NumEdges = 0)
  <2>1. edge + 1 \in Nat /\ edge + 1 <= NumEdges
    BY <1>3 DEF Edges
  <2>2. (edge + 1) % NumEdges \in 0 .. (NumEdges - 1)
    BY <1>3, <2>1, QuotientAndRest
  <2>3. edge + 1 < NumEdges => (edge + 1) % NumEdges = edge + 1
    BY <1>3, <2>1
  <2>4. NumEdges % NumEdges = 0
    BY <1>3
  <2>5. QED BY <1>3, <2>1, <2>2, <2>3, <2>4 DEF Edges
<1>10. /\ edge' = (edge + 1) % NumEdges
       /\ edge + 1 < NumEdges => collector'.at = "edge" /\ collector'.woke = collector.woke
       /\ ~(edge + 1 < NumEdges) => collector'.at = "sleep" /\ collector'.woke = now
       /\ collector' \in [at : {"sleep", "edge"}, edge : Edges, todo : {{}}, silent : {{}},
                          woke : Nat]
  BY <1>3, <1>9 DEF Write, CollectorOK, edge
<1>11. CollectorOK'
  BY <1>2, <1>3, <1>9, <1>10 DEF CollectorOK, edge
<1>12. ASSUME NEW e \in Edges
       PROVE  ReadBy(e)' \in Nat /\ ReadBy(e) <= ReadBy(e)' /\ (e = edge => ReadBy(e)' = now)
  BY <1>2, <1>3, <1>9, <1>10 DEF ReadBy, Edges
<1>13. Later
  BY <1>1, <1>2, <1>3, <1>12 DEF Later
<1>14. QED BY <1>4, <1>6, <1>7, <1>8, <1>11, <1>12, <1>13 DEF SamplesOK

(* The one whose turn it is.                                               *)
LEMMA TurnIs ==
  ASSUME SettingsOK, CollectorOK, collector.at = "ask", collector.todo # {}
  PROVE  /\ Turn \in collector.todo /\ \A turn \in collector.todo : Turn <= turn
         /\ Turn \in 1 .. 10 /\ Turn \in Turns(edge)
         /\ KindAt(Turn) \in AllKinds /\ KindAt(Turn) \in Backends /\ Usable(KindAt(Turn))
<1>1. collector.todo \subseteq 1 .. 10 /\ collector.todo \subseteq Turns(edge)
  BY DEF CollectorOK
<1>2. \E n \in collector.todo : \A m \in collector.todo : n <= m
  BY <1>1, NatLeast
<1>3. Turn \in collector.todo /\ \A turn \in collector.todo : Turn <= turn
  BY <1>2 DEF Turn, Min
<1>4. Turn \in 1 .. 10 /\ Turn \in Turns(edge)
  BY <1>1, <1>3
<1>5. KindAt(Turn) \in Backends
  BY <1>4 DEF Turns
<1>6. KindAt(Turn) \in AllKinds /\ Usable(KindAt(Turn))
  BY <1>5 DEF Backends, AllKinds
<1>7. QED BY <1>3, <1>4, <1>5, <1>6

LEMMA NoAnswerKeeps ==
  ASSUME SamplesOK, collector.at = "ask", collector.todo # {}, NoAnswer
  PROVE  SamplesOK' /\ Later
<1>1. SettingsOK /\ HistoryOK /\ CollectorOK
  BY DEF SamplesOK
<1>2. /\ layout' = layout /\ history' = history /\ override' = override /\ report' = NoReport
      /\ collector' = [collector EXCEPT !.todo = @ \ {Turn}, !.silent = @ \cup {KindAt(Turn)}]
  BY DEF NoAnswer
<1>3. Turn \in 1 .. 10 /\ KindAt(Turn) \in AllKinds /\ \A turn \in collector.todo : Turn <= turn
  BY <1>1, TurnIs
<1>4. /\ Counters' = Counters /\ now' = now /\ edge' = edge /\ collector'.woke = collector.woke
      /\ collector'.at = "ask" /\ Turns(edge)' = Turns(edge)
      /\ collector'.todo = collector.todo \ {Turn}
      /\ collector'.silent = collector.silent \cup {KindAt(Turn)}
      /\ collector' \in [at : {"sleep", "edge", "ask"}, edge : Edges, todo : SUBSET (1 .. 10),
                         silent : SUBSET AllKinds, woke : Nat]
  <2>1. edge' = edge
    BY <1>1, <1>2 DEF edge, CollectorOK
  <2>2. Turns(edge)' = Turns(edge)
    <3>1. \A e : Turns(e)' = Turns(e)
      BY <1>2, LayoutStays
    <3>2. QED BY <2>1, <3>1 DEF Turns
  <2>3. QED BY <1>1, <1>2, <1>3, <2>1, <2>2, LayoutStays DEF now, CollectorOK
<1>5. SettingsOK' /\ HistoryOK'
  BY <1>1, <1>2, <1>4 DEF SettingsOK, HistoryOK
<1>6. CollectorOK'
  <2>1. ASSUME NEW over \in Turns(edge) \ collector'.todo
        PROVE  KindAt(over) \in collector'.silent /\ \A turn \in collector'.todo : over < turn
    <3>1. CASE over = Turn
      BY <1>1, <1>3, <1>4, <3>1 DEF CollectorOK
    <3>2. CASE over \notin collector.todo
      BY <1>1, <1>4, <3>2 DEF CollectorOK
    <3>3. QED BY <1>4, <2>1, <3>1, <3>2
  <2>2. collector'.todo \subseteq Turns(edge)
    BY <1>1, <1>4 DEF CollectorOK
  <2>3. QED BY <1>1, <1>4, <2>1, <2>2 DEF CollectorOK, KindAt
<1>7. Later
  BY <1>1, <1>2, <1>4, ReadByTyped DEF Later, ReadBy
<1>8. ReportOK' /\ UtilIsTraffic' /\ StaleOnlyAfterFailure' /\ AlwaysHasSource' /\ OwnFabricFirst'
  BY <1>2 DEF ReportOK, UtilIsTraffic, StaleOnlyAfterFailure, AlwaysHasSource, OwnFabricFirst
<1>9. QED BY <1>5, <1>6, <1>7, <1>8 DEF SamplesOK

(* A backend of another fabric is asked when the edge's own have been, or  *)
(* there is no other.                                                      *)
LEMMA OwnAskedFirst ==
  ASSUME SettingsOK, CollectorOK, collector.at = "ask",
         collector.todo # {} => KindAt(Turn) \notin OwnFabric(edge)
  PROVE  Backends \cap OwnFabric(edge) \subseteq collector.silent
<1>1. SUFFICES ASSUME NEW kind \in Backends, kind \in OwnFabric(edge) PROVE kind \in collector.silent
  OBVIOUS
<1>2. edge \in Edges /\ Fabric(edge) \in Fabrics
  BY LayoutTyped DEF SettingsOK, CollectorOK, edge
<1>3. kind \in AllKinds
  BY DEF Backends, AllKinds
<1>4. PICK own \in 1 .. 5 : KindAt(own) = kind
  BY <1>3, KindsAre
<1>5. own \in Turns(edge)
  BY <1>1, <1>2, <1>3, <1>4, MatchIsOwn, KindsAre DEF Turns
<1>6. own \notin collector.todo
  <2>1. SUFFICES ASSUME own \in collector.todo PROVE FALSE
    OBVIOUS
  <2>2. /\ Turn \in 1 .. 10 /\ Turn <= own /\ Turn \in Turns(edge)
        /\ KindAt(Turn) \in AllKinds
    BY <2>1, TurnIs
  <2>3. Match(KindAt(Turn), edge) \/ Backends = {KindAt(Turn)}
    BY <2>2, KindsAre DEF Turns
  <2>4. QED BY <1>1, <1>2, <2>1, <2>2, <2>3, MatchIsOwn
<1>7. QED BY <1>4, <1>5, <1>6 DEF CollectorOK

-----------------------------------------------------------------------------
(* The backends                                                            *)

LEMMA UtilTyped ==
  ASSUME NEW words \in Int, NEW dt \in Nat \ {0}
  PROVE  Util(words, dt) \in 0 .. 99
<1>1. CASE words < 0
  BY <1>1 DEF Util
<1>2. CASE words >= 0
  <2>1. Peak \in Nat \ {0}
    BY CountersAssumption
  <2>2. PICK n \in Nat \ {0} : n = Peak * dt
    BY <2>1
  <2>3. PICK a \in Nat : a = 100 * words
    BY <1>2
  <2>4. a \div n \in Nat
    BY QuotientAndRest
  <2>5. (100 * words) \div (Peak * dt) \in Nat
    BY <2>2, <2>3, <2>4
  <2>6. QED BY <1>2, <2>5 DEF Util, Least
<1>3. QED BY <1>1, <1>2

(* A value that is no difference of two readings.                          *)
LEMMA MomentaryKeeps ==
  ASSUME CountersInv, collector.at # "sleep",
         NEW source \in Answers, NEW level \in 0 .. 100,
         level = 100 => source = "override", source # "ib_mad",
         layout.fallback => source # "none",
         \/ source \in {"override"} \cup OwnFabric(edge)
         \/ Backends \cap OwnFabric(edge) \subseteq collector.silent,
         WriteMomentary(source, level)
  PROVE  CountersInv'
<1>1. StateOK /\ SettingsOK /\ HistoryOK /\ CollectorOK
  BY DEF CountersInv, SamplesOK
<1>2. Write(source, level, 0, now, FALSE, FALSE) /\ UNCHANGED state
  BY DEF WriteMomentary
<1>3. now \in Nat
  BY <1>1, ReadByTyped
<1>4. SamplesOK' /\ Later
  BY <1>1, <1>2, <1>3, WriteKeeps
<1>5. clients' = clients /\ meters' = meters /\ pmus' = pmus
  BY <1>2 DEF state
<1>6. QED
  BY <1>1, <1>4, <1>5, ReadByTyped, ClientsStay, MetersStay, PmusStay DEF CountersInv, StateOK

LEMMA SilenceKeeps ==
  ASSUME CountersInv, collector.at = "ask", collector.todo # {}, NoAnswer, UNCHANGED state
  PROVE  CountersInv'
<1>1. StateOK /\ HistoryOK /\ CollectorOK /\ SamplesOK' /\ Later
  BY NoAnswerKeeps DEF CountersInv, SamplesOK
<1>2. clients' = clients /\ meters' = meters /\ pmus' = pmus
  BY DEF state
<1>3. QED
  BY <1>1, <1>2, ReadByTyped, ClientsStay, MetersStay, PmusStay DEF CountersInv, StateOK

LEMMA CheckOverrideKeeps ==
  ASSUME CountersInv, CheckOverride
  PROVE  CountersInv'
<1>1. StateOK /\ SettingsOK /\ HistoryOK /\ CollectorOK
  BY DEF CountersInv, SamplesOK
<1>2. collector.at = "edge" /\ edge \in Edges
  BY <1>1 DEF CheckOverride, CollectorOK, edge
<1>3. CASE override[edge] # NotSet
  <2>1. override[edge] \in 0 .. 100
    BY <1>1, <1>2, <1>3 DEF SettingsOK
  <2>2. WriteMomentary("override", override[edge])
    BY <1>3 DEF CheckOverride
  <2>3. QED BY <1>2, <2>1, <2>2, MomentaryKeeps DEF Answers
<1>4. CASE override[edge] = NotSet
  <2>1. /\ collector' = [collector EXCEPT !.at = "ask", !.todo = Turns(edge)]
        /\ layout' = layout /\ history' = history /\ override' = override /\ UNCHANGED state
        /\ report' = NoReport
    BY <1>4 DEF CheckOverride
  <2>2. Turns(edge) \subseteq 1 .. 10
    BY KindsAre DEF Turns
  <2>3. /\ Counters' = Counters /\ now' = now /\ edge' = edge /\ collector'.woke = collector.woke
        /\ collector'.at = "ask" /\ collector'.todo = Turns(edge)
        /\ collector' \in [at : {"sleep", "edge", "ask"}, edge : Edges, todo : SUBSET (1 .. 10),
                           silent : SUBSET AllKinds, woke : Nat]
    BY <1>1, <2>1, <2>2, LayoutStays DEF now, edge, CollectorOK
  <2>4. Turns(edge)' = Turns(edge)
    <3>1. \A e : Turns(e)' = Turns(e)
      BY <2>1, LayoutStays
    <3>2. QED BY <2>3, <3>1 DEF Turns
  <2>5. SettingsOK' /\ HistoryOK'
    BY <1>1, <2>1, <2>3 DEF SettingsOK, HistoryOK
  <2>6. CollectorOK'
    BY <1>1, <1>2, <2>3, <2>4 DEF CollectorOK
  <2>7. Later
    BY <1>1, <2>1, <2>3, ReadByTyped DEF Later, ReadBy
  <2>8. QED
    BY <1>1, <2>1, <2>5, <2>6, <2>7, NothingReported DEF CountersInv, SamplesOK
<1>5. QED BY <1>3, <1>4

LEMMA FallBackKeeps ==
  ASSUME CountersInv, FallBack
  PROVE  CountersInv'
<1>1. SettingsOK /\ HistoryOK /\ CollectorOK
  BY DEF CountersInv, SamplesOK
<1>2. collector.at = "ask" /\ collector.todo = {} /\ edge \in Edges /\ edge < Bindings
  <2>1. edge \in Edges /\ Bindings >= NumEdges
    BY <1>1, LayoutTyped DEF SettingsOK, CollectorOK, edge
  <2>2. NumEdges \in Nat /\ Bindings \in Int
    BY <1>1, LayoutTyped, CountersAssumption DEF SettingsOK
  <2>3. QED BY <2>1, <2>2 DEF FallBack, Edges
<1>3. Backends \cap OwnFabric(edge) \subseteq collector.silent
  BY <1>1, <1>2, OwnAskedFirst
<1>4. CASE layout.fallback
  <2>1. PICK level \in Levels : WriteMomentary("synthetic", level)
    BY <1>2, <1>4 DEF FallBack
  <2>2. level \in 0 .. 99
    BY CountersAssumption
  <2>3. QED BY <1>2, <1>3, <2>1, <2>2, MomentaryKeeps DEF Answers
<1>5. CASE ~layout.fallback
  <2>1. WriteMomentary("none", 0)
    BY <1>5 DEF FallBack
  <2>2. QED BY <1>2, <1>3, <1>5, <2>1, MomentaryKeeps DEF Answers
<1>6. QED BY <1>4, <1>5

LEMMA AskPcieKeeps ==
  ASSUME CountersInv, AskPcie
  PROVE  CountersInv'
<1>1. collector.at = "ask" /\ collector.todo # {} /\ SettingsOK /\ CollectorOK
  BY DEF AskPcie, Asking, CountersInv, SamplesOK
<1>2. CASE edge < Bindings /\ IsPci(edge)
  <2>1. WriteMomentary("pcie_sysfs", 10)
    BY <1>2 DEF AskPcie
  <2>2. "pcie_sysfs" \in OwnFabric(edge)
    BY <1>2 DEF OwnFabric, IsPci
  <2>3. QED BY <1>1, <2>1, <2>2, MomentaryKeeps DEF Answers
<1>3. CASE ~(edge < Bindings /\ IsPci(edge))
  BY <1>1, <1>3, SilenceKeeps DEF AskPcie
<1>4. QED BY <1>2, <1>3

(* What nvml and ibverbs_sysfs read, with the meter of the edge updated.   *)
LEMMA ReadMeterKeeps ==
  ASSUME CountersInv, collector.at = "ask",
         NEW source \in {"nvml", "ibverbs_sysfs"}, NEW kind \in {"lane", "data"},
         kind = IF source = "nvml" THEN "lane" ELSE "data",
         CounterOf(kind, edge) \in Counters,
         \/ source \in OwnFabric(edge)
         \/ Backends \cap OwnFabric(edge) \subseteq collector.silent,
         ReadMeter(source, <<kind, edge>>, CounterOf(kind, edge))
  PROVE  CountersInv'
<1> DEFINE counter == CounterOf(kind, edge)
           last == meters[<<kind, edge>>]
           words == history[now][counter]
           level == IF last.ts = 0 THEN 0 ELSE Util(words - last.prev, now - last.ts)
<1>1. StateOK /\ SettingsOK /\ HistoryOK /\ CollectorOK
  BY DEF CountersInv, SamplesOK
<1>2. /\ meters' = [meters EXCEPT ![<<kind, edge>>] = [prev |-> words, ts |-> now]]
      /\ Write(source, level, last.ts, now, TRUE, FALSE)
      /\ clients' = clients /\ pmus' = pmus
  BY DEF ReadMeter
<1>3. /\ edge \in Edges /\ now \in Nat /\ now \in 1 .. now /\ ReadBy(edge) < now
      /\ ReadBy(edge) \in Nat /\ history[now] \in [Counters -> Nat]
  <2>1. edge \in Edges /\ now \in Nat /\ ReadBy(edge) < now /\ ReadBy(edge) \in Nat
    BY <1>1, ReadByTyped
  <2>2. QED BY <1>1, <2>1 DEF HistoryOK, now
<1>4. /\ last \in [prev : Nat, ts : Nat] /\ last.ts < now
      /\ last.ts > 0 => last.prev = history[last.ts][counter]
  <2>1. MeterOK(kind, edge)
    BY <1>1, <1>3 DEF StateOK, MetersOK
  <2>2. last \in [prev : Nat, ts : Nat] /\ last.ts <= ReadBy(edge)
          /\ (last.ts > 0 => last.prev = history[last.ts][counter])
    BY <2>1 DEF MeterOK
  <2>3. QED BY <1>3, <2>2
<1>5. words \in Nat
  BY <1>3
<1>6. level \in 0 .. 99
  <2>1. PICK dt \in Nat \ {0}, grown \in Int : dt = now - last.ts /\ grown = words - last.prev
    BY <1>3, <1>4, <1>5
  <2>2. Util(grown, dt) \in 0 .. 99
    BY UtilTyped
  <2>3. level \in {0, Util(grown, dt)}
    BY <2>1
  <2>4. QED BY <2>2, <2>3
<1>7. last.ts > 0 => Within(source, edge, level, last.ts, now)
  <2>1. SUFFICES ASSUME last.ts > 0 PROVE Within(source, edge, level, last.ts, now)
    OBVIOUS
  <2>2. Growth(counter, last.ts, now) = words - last.prev
    BY <1>4, <2>1 DEF Growth
  <2>3. Carried(source, edge, last.ts, now) = words - last.prev
    BY <2>2 DEF Carried, CounterOf
  <2>4. level = Util(words - last.prev, now - last.ts)
    BY <1>4, <2>1
  <2>5. Least(99, level + 0) = level
    BY <1>6 DEF Least
  <2>6. QED BY <1>6, <2>3, <2>4, <2>5 DEF Within
<1> HIDE DEF counter, last, words, level
<1>8. SamplesOK' /\ Later /\ \A e \in Edges : e = edge => ReadBy(e)' = now
  <2>1. source \in Answers /\ source # "none" /\ source # "ib_mad" /\ level \in 0 .. 100 /\ level # 100
          /\ last.ts \in Nat
    BY <1>4, <1>6 DEF Answers
  <2>2. QED BY <1>1, <1>2, <1>3, <1>7, <2>1, WriteKeeps
<1>9. ClientsOK' /\ PmusOK'
  BY <1>1, <1>2, <1>8, ReadByTyped, ClientsStay, PmusStay DEF StateOK
<1>10. MetersOK'
  <2>1. DOMAIN meters' = {"lane", "data"} \X Edges
    BY <1>1, <1>2 DEF StateOK, MetersOK
  <2>2. ASSUME NEW k \in {"lane", "data"}, NEW e \in Edges PROVE MeterOK(k, e)'
    <3>1. /\ CounterOf(k, e)' = CounterOf(k, e) /\ Counters' = Counters /\ history' = history
          /\ now' = now
      <4>1. layout' = layout /\ history' = history
        BY <1>2 DEF Write
      <4>2. QED BY <4>1, LayoutStays DEF CounterOf, now
    <3>2. CASE k = kind /\ e = edge
      <4>1. meters'[<<k, e>>] = [prev |-> words, ts |-> now]
        BY <1>1, <1>2, <3>2 DEF StateOK, MetersOK
      <4>2. ReadBy(e)' = now
        BY <1>8, <3>2
      <4>3. words = history[now][CounterOf(k, e)] /\ CounterOf(k, e) \in Counters
        BY <3>2 DEF words, counter
      <4>4. QED BY <1>3, <1>5, <3>1, <4>1, <4>2, <4>3 DEF MeterOK
    <3>3. CASE <<k, e>> # <<kind, edge>>
      <4>1. meters'[<<k, e>>] = meters[<<k, e>>]
        BY <1>1, <1>2, <3>3 DEF StateOK, MetersOK
      <4>2. MeterOK(k, e) /\ ReadBy(e) <= ReadBy(e)' /\ ReadBy(e) \in Nat /\ ReadBy(e)' \in Nat
        BY <1>1, <1>8, ReadByTyped DEF StateOK, MetersOK, Later
      <4>3. QED BY <3>1, <4>1, <4>2 DEF MeterOK
    <3>4. QED BY <3>2, <3>3
  <2>3. QED BY <2>1, <2>2 DEF MetersOK
<1>11. QED BY <1>8, <1>9, <1>10 DEF CountersInv, StateOK

LEMMA AskNvmlKeeps ==
  ASSUME CountersInv, AskNvml
  PROVE  CountersInv'
<1>1. /\ collector.at = "ask" /\ collector.todo # {} /\ SettingsOK /\ CollectorOK
      /\ KindAt(Turn) = "nvml"
  BY DEF AskNvml, Asking, CountersInv, SamplesOK
<1>2. edge \in Edges /\ Usable("nvml")
  <2>1. Usable(KindAt(Turn))
    BY <1>1, TurnIs
  <2>2. QED BY <1>1, <2>1 DEF CollectorOK, edge
<1>3. \/ "nvml" \in OwnFabric(edge)
      \/ Backends \cap OwnFabric(edge) \subseteq collector.silent
  BY <1>1, OwnAskedFirst
<1>4. CASE NoAnswer /\ UNCHANGED state
  BY <1>1, <1>4, SilenceKeeps
<1>5. CASE Fabric(edge) = "NVLink" /\ On("nvlink") /\ ReadMeter("nvml", <<"lane", edge>>, <<"lane", edge>>)
  <2>1. CounterOf("lane", edge) = <<"lane", edge>> /\ <<"lane", edge>> \in Counters
    BY <1>2, <1>5 DEF CounterOf, Counters, Usable
  <2>2. ReadMeter("nvml", <<"lane", edge>>, CounterOf("lane", edge))
    BY <1>5, <2>1
  <2>3. QED BY <1>1, <1>3, <2>1, <2>2, ReadMeterKeeps
<1>6. ASSUME NEW level \in Levels, WriteMomentary("nvml", level)
      PROVE  CountersInv'
  <2>1. level \in 0 .. 99
    BY CountersAssumption
  <2>2. QED BY <1>1, <1>3, <1>6, <2>1, MomentaryKeeps DEF Answers
<1>7. QED BY <1>4, <1>5, <1>6 DEF AskNvml

LEMMA AskIbverbsKeeps ==
  ASSUME CountersInv, AskIbverbs
  PROVE  CountersInv'
<1>1. /\ collector.at = "ask" /\ collector.todo # {} /\ SettingsOK /\ CollectorOK
      /\ KindAt(Turn) = "ibverbs_sysfs"
  BY DEF AskIbverbs, Asking, CountersInv, SamplesOK
<1>2. edge \in Edges /\ Usable("ibverbs_sysfs")
  <2>1. Usable(KindAt(Turn))
    BY <1>1, TurnIs
  <2>2. QED BY <1>1, <2>1 DEF CollectorOK, edge
<1>3. CASE NoAnswer /\ UNCHANGED state
  BY <1>1, <1>3, SilenceKeeps
<1>4. CASE IsIb(edge) /\ ReadMeter("ibverbs_sysfs", <<"data", edge>>, <<"data", Port(edge)>>)
  <2>1. CounterOf("data", edge) = <<"data", Port(edge)>> /\ <<"data", Port(edge)>> \in Counters
    BY <1>2, <1>4 DEF CounterOf, Counters, Usable, Ports
  <2>2. ReadMeter("ibverbs_sysfs", <<"data", edge>>, CounterOf("data", edge))
    BY <1>4, <2>1
  <2>3. "ibverbs_sysfs" \in OwnFabric(edge)
    BY <1>4 DEF OwnFabric, IsIb
  <2>4. QED BY <1>1, <2>1, <2>2, <2>3, ReadMeterKeeps
<1>5. QED BY <1>3, <1>4 DEF AskIbverbs

(* A new reading of a port.                                                *)
LEMMA NewReading ==
  ASSUME SettingsOK, HistoryOK, ClientsOK, On("ib"), NEW p \in Ports, NEW form \in Forms, ~Fresh(p),
         NEW d, d = ReadPort(p, form)
  PROVE  /\ d \in Client /\ d.ts = now /\ d.last = now /\ d.since < now /\ ~d.failed
         /\ [data |-> d.prev, wait |-> d.wait] = ReadingAt(p, d.form, now)
         /\ d.exact /\ d.since > 0 => PortWithin(p, d.cached, d.since, now)
<1> DEFINE c == clients[p]
           r == Reading(p, form)
           dt == now - c.ts
           waited == IF r.wait > c.wait THEN r.wait - c.wait ELSE 0
           level == IF c.ts = 0 THEN 0 ELSE Least(99, Util(r.data - c.prev, dt) + waited)
           data == <<"data", p>>
           wait == <<"wait", p>>
           exact == c.form = form /\ (form = "base" => NoWrap(p, c.ts, now))
<1>1. /\ c \in Client /\ c.since <= c.ts /\ c.ts <= c.last /\ c.last <= now
      /\ c.ts > 0 => [data |-> c.prev, wait |-> c.wait] = ReadingAt(p, c.form, c.ts)
  BY DEF ClientsOK, PortOK
<1>2. /\ now \in Nat \ {0} /\ now \in 1 .. now /\ \A t \in 1 .. now : history[t] \in [Counters -> Nat]
      /\ \A s, t \in 1 .. now : s <= t => \A n \in Counters : history[s][n] <= history[t][n]
  BY DEF HistoryOK, now
<1>3. data \in Counters /\ wait \in Counters
  BY DEF Counters
<1>4. c.ts \in Nat /\ c.ts < now
  <2>1. Cadence \in Nat \ {0}
    BY CountersAssumption
  <2>2. CASE c.ts = 0
    BY <1>2, <2>2
  <2>3. CASE now - c.last >= Cadence
    BY <1>1, <1>2, <2>1, <2>3 DEF Client
  <2>4. QED BY <1>1, <1>2, <2>1, <2>2, <2>3 DEF Fresh, Client
<1>5. r = ReadingAt(p, form, now) /\ form \in {"ext", "file", "base"}
  BY DEF Reading, ReadingAt, Forms
<1>6. PICK big \in Nat \ {0} : big = BaseLimit
  BY CountersAssumption
<1>7. ASSUME NEW t \in 1 .. now
      PROVE  /\ history[t][data] \in Nat /\ history[t][wait] \in Nat
             /\ history[t][data] % big \in Nat /\ history[t][wait] % big \in Nat
  <2>1. history[t][data] \in Nat /\ history[t][wait] \in Nat
    BY <1>2, <1>3
  <2>2. \A a \in Nat : a % big \in Nat
    <3>1. \A a \in Nat : a % big \in 0 .. (big - 1)
      BY QuotientAndRest
    <3>2. QED BY <3>1
  <2>3. QED BY <2>1, <2>2
<1>8. r.data \in Nat /\ r.wait \in Nat
  BY <1>2, <1>5, <1>6, <1>7 DEF ReadingAt
<1>9. dt \in Nat \ {0} /\ r.data - c.prev \in Int /\ waited \in Nat
  BY <1>1, <1>2, <1>4, <1>8 DEF Client
<1>10. Util(r.data - c.prev, dt) \in 0 .. 99
  BY <1>9, UtilTyped
<1>11. level \in 0 .. 99
  BY <1>9, <1>10 DEF Least
<1>12. /\ d.prev = r.data /\ d.wait = r.wait /\ d.ts = now /\ d.last = now /\ d.cached = level
       /\ d.form = form /\ d.since = c.ts /\ d.exact = exact /\ d.failed = FALSE
  BY DEF ReadPort
<1>13. d \in Client
  BY <1>1, <1>2, <1>5, <1>8, <1>11 DEF ReadPort, Client
<1>14. ASSUME exact, c.ts > 0
       PROVE  PortWithin(p, level, c.ts, now)
  <2>1. PICK old \in 1 .. now : old = c.ts
    BY <1>2, <1>4, <1>14
  <2>2. c.form = form /\ c.prev = ReadingAt(p, form, old).data /\ c.wait = ReadingAt(p, form, old).wait
    BY <1>1, <1>14, <2>1 DEF ReadingAt
  <2>3. /\ Growth(data, old, now) = history[now][data] - history[old][data]
        /\ Growth(wait, old, now) = history[now][wait] - history[old][wait]
    BY <1>3 DEF Growth
  <2>4. history[old][wait] <= history[now][wait] /\ Growth(wait, old, now) \in Nat
    <3>1. history[old][wait] <= history[now][wait]
      BY <1>2, <1>3, <2>1
    <3>2. history[now][wait] \in Nat /\ history[old][wait] \in Nat
      BY <1>2, <1>7
    <3>3. QED BY <2>3, <3>1, <3>2
  <2>5. /\ r.data - c.prev = Growth(data, old, now)
        /\ waited <= Growth(wait, old, now) /\ Growth(wait, old, now) \in Nat
    <3>1. CASE form = "base"
      <4>1. /\ history[now][data] \div big = history[old][data] \div big
            /\ history[now][wait] \div big = history[old][wait] \div big
        BY <1>6, <1>14, <2>1, <3>1 DEF NoWrap
      <4>2. /\ (history[now][data] % big) - (history[old][data] % big)
               = history[now][data] - history[old][data]
            /\ (history[now][wait] % big) - (history[old][wait] % big)
               = history[now][wait] - history[old][wait]
        <5>1. \A a, b \in Nat : a \div big = b \div big => (a % big) - (b % big) = a - b
          BY SameQuotient
        <5>2. /\ history[now][data] \in Nat /\ history[old][data] \in Nat
              /\ history[now][wait] \in Nat /\ history[old][wait] \in Nat
          BY <1>2, <1>7
        <5>3. QED BY <4>1, <5>1, <5>2
      <4>3. /\ r.data = history[now][data] % big /\ c.prev = history[old][data] % big
            /\ r.wait = history[now][wait] % big /\ c.wait = history[old][wait] % big
        BY <1>5, <1>6, <2>2, <3>1 DEF ReadingAt
      <4>4. waited = r.wait - c.wait \/ waited = 0
        OBVIOUS
      <4>5. r.data - c.prev = Growth(data, old, now) /\ r.wait - c.wait = Growth(wait, old, now)
        BY <2>3, <4>2, <4>3
      <4>6. QED BY <2>4, <4>4, <4>5
    <3>2. CASE form # "base"
      <4>1. /\ r.data = history[now][data] /\ c.prev = history[old][data]
            /\ waited = 0 \/ waited = history[now][wait] - history[old][wait]
        BY <1>5, <2>2, <3>2 DEF ReadingAt
      <4>2. history[now][wait] \in Nat /\ history[old][wait] \in Nat
        BY <1>2, <1>7
      <4>3. QED BY <2>3, <2>4, <4>1, <4>2
    <3>3. QED BY <3>1, <3>2
  <2>6. level = Least(99, Util(Growth(data, old, now), dt) + waited)
    BY <1>14, <2>5
  <2>7. Util(Growth(data, old, now), dt) \in 0 .. 99
    BY <1>10, <2>5
  <2>8. QED BY <1>9, <2>1, <2>5, <2>6, <2>7 DEF PortWithin, Least
<1> HIDE DEF c, r, level, exact
<1>15. QED
  <2>1. [data |-> d.prev, wait |-> d.wait] = ReadingAt(p, d.form, now)
    <3>1. r = [data |-> r.data, wait |-> r.wait]
      BY <1>5 DEF ReadingAt
    <3>2. QED BY <1>5, <1>12, <3>1
  <2>2. d.exact /\ d.since > 0 => PortWithin(p, d.cached, d.since, now)
    BY <1>4, <1>12, <1>14
  <2>3. QED BY <1>4, <1>12, <1>13, <2>1, <2>2

(* What a client answers for the edge.                                     *)
LEMMA PortAnswerKeeps ==
  ASSUME SamplesOK, collector.at = "ask", IsIb(edge), NEW c \in Client,
         c.exact /\ c.since > 0 => PortWithin(Port(edge), c.cached, c.since, c.ts),
         now - c.ts >= Cadence => c.failed, WritePort(Port(edge), c)
  PROVE  SamplesOK' /\ Later /\ \A e \in Edges : e = edge => ReadBy(e)' = now
<1>1. PICK level \in 0 .. 99, since \in Nat, at \in Nat, exact \in BOOLEAN, failed \in BOOLEAN :
        /\ level = c.cached /\ since = c.since /\ at = c.ts /\ exact = c.exact /\ failed = c.failed
  BY DEF Client
<1>2. Write("ib_mad", level, since, at, exact, failed)
  BY <1>1 DEF WritePort
<1>3. exact = TRUE /\ since > 0 => Within("ib_mad", edge, level, since, at)
  BY <1>1 DEF PortWithin, Within, Carried
<1>4. /\ level \in 0 .. 100 /\ level # 100 /\ "ib_mad" \in Answers /\ "ib_mad" # "none"
      /\ now - at >= Cadence => failed = TRUE
  BY <1>1 DEF Answers
<1>5. "ib_mad" \in OwnFabric(edge)
  BY DEF OwnFabric, IsIb
<1>6. SettingsOK /\ HistoryOK /\ CollectorOK /\ collector.at # "sleep"
  BY DEF SamplesOK
<1>7. QED BY <1>2, <1>3, <1>4, <1>5, <1>6, WriteKeeps

LEMMA AskIbMadKeeps ==
  ASSUME CountersInv, AskIbMad
  PROVE  CountersInv'
<1>0. PICK p : p = Port(edge)
  OBVIOUS
<1>1. /\ collector.at = "ask" /\ collector.todo # {} /\ SettingsOK /\ CollectorOK /\ HistoryOK
      /\ ClientsOK /\ MetersOK /\ PmusOK /\ SamplesOK /\ KindAt(Turn) = "ib_mad"
  BY DEF AskIbMad, Asking, CountersInv, SamplesOK, StateOK
<1>2. edge \in Edges /\ On("ib")
  <2>1. Usable(KindAt(Turn))
    BY <1>1, TurnIs
  <2>2. QED BY <1>1, <2>1 DEF CollectorOK, edge, Usable
<1>3. now \in Nat /\ \A e \in Edges : ReadBy(e) \in 0 .. now
  BY <1>1, ReadByTyped
<1>4. CASE ~(edge < Bindings /\ IsIb(edge))
  BY <1>1, <1>4, SilenceKeeps DEF AskIbMad
<1>5. ASSUME IsIb(edge) PROVE p \in Ports /\ PortOK(p) /\ "ib_mad" \in OwnFabric(edge)
  BY <1>0, <1>1, <1>2, <1>5 DEF Ports, ClientsOK, OwnFabric, IsIb
<1>7. CASE IsIb(edge) /\ Fresh(p) /\ WritePort(p, clients[p]) /\ UNCHANGED state
  <2>1. PICK c : c = clients[p]
    OBVIOUS
  <2>2. /\ c \in Client /\ c.ts <= c.last /\ c.last <= now /\ (~c.failed => c.last = c.ts)
        /\ c.exact /\ c.since > 0 => PortWithin(p, c.cached, c.since, c.ts)
    BY <1>5, <1>7, <2>1 DEF PortOK
  <2>3. now - c.last < Cadence
    BY <1>7, <2>1 DEF Fresh
  <2>4. now - c.ts >= Cadence => c.failed
    BY <1>3, <2>2, <2>3, CountersAssumption DEF Client
  <2>5. WritePort(p, c)
    BY <1>7, <2>1
  <2>8. SamplesOK' /\ Later
    BY <1>0, <1>1, <1>7, <2>2, <2>4, <2>5, PortAnswerKeeps
  <2>9. clients' = clients /\ meters' = meters /\ pmus' = pmus
    BY <1>7 DEF state
  <2>10. QED
    BY <1>1, <1>3, <2>8, <2>9, ClientsStay, MetersStay, PmusStay DEF CountersInv, StateOK
<1>8. CASE IsIb(edge) /\ ~Fresh(p) /\ NoAnswer /\ UNCHANGED <<meters, pmus>>
             /\ clients' = [clients EXCEPT ![p].last = now, ![p].failed = TRUE]
  <2>1. SamplesOK' /\ Later
    BY <1>1, <1>8, NoAnswerKeeps
  <2>2. MetersOK' /\ PmusOK'
    BY <1>1, <1>3, <1>8, <2>1, MetersStay, PmusStay
  <2>3. Ports' = Ports /\ now' = now
    BY <1>8, <2>1, LayoutStays DEF Later, NoAnswer, now
  <2>4. ASSUME NEW q \in Ports PROVE PortOK(q)'
    <3>1. PICK c : c = clients[q]
      OBVIOUS
    <3>2. PICK d : d = clients'[q]
      OBVIOUS
    <3>3. /\ c \in Client /\ c.ts <= c.last /\ c.last <= now /\ (~c.failed => c.last = c.ts)
      BY <1>1, <3>1 DEF ClientsOK, PortOK
    <3>4. d = IF q = p THEN [c EXCEPT !.last = now, !.failed = TRUE] ELSE c
      BY <1>1, <1>8, <3>1, <3>2 DEF ClientsOK
    <3>5. /\ d \in Client /\ d.prev = c.prev /\ d.wait = c.wait /\ d.ts = c.ts /\ d.cached = c.cached
          /\ d.form = c.form /\ d.since = c.since /\ d.exact = c.exact
          /\ d.ts <= d.last /\ d.last <= now /\ (~d.failed => d.last = d.ts)
      <4>1. CASE q = p
        <5>1. d = [c EXCEPT !.last = now, !.failed = TRUE]
          BY <3>4, <4>1
        <5>2. c.ts <= now
          BY <1>3, <3>3 DEF Client
        <5>3. d \in Client /\ d.last = now /\ d.failed
          BY <1>3, <3>3, <5>1 DEF Client
        <5>4. QED BY <1>3, <3>3, <5>1, <5>2, <5>3 DEF Client
      <4>2. CASE q # p
        BY <3>3, <3>4, <4>2
      <4>3. QED BY <4>1, <4>2
    <3>6. PortOK(q)
      BY <1>1 DEF ClientsOK
    <3>7. QED BY <1>1, <2>1, <2>3, <3>1, <3>2, <3>5, <3>6, PortStays
  <2>5. DOMAIN clients' = Ports
    BY <1>1, <1>8 DEF ClientsOK
  <2>6. QED BY <2>1, <2>2, <2>3, <2>4, <2>5 DEF ClientsOK, CountersInv, StateOK
<1>9. ASSUME IsIb(edge), ~Fresh(p), UNCHANGED <<meters, pmus>>, NEW form \in Forms,
             clients' = [clients EXCEPT ![p] = ReadPort(p, form)], WritePort(p, clients'[p])
      PROVE  CountersInv'
  <2>1. PICK d : d = ReadPort(p, form)
    OBVIOUS
  <2>2. /\ d \in Client /\ d.ts = now /\ d.last = now /\ d.since < now /\ ~d.failed
        /\ [data |-> d.prev, wait |-> d.wait] = ReadingAt(p, d.form, now)
        /\ d.exact /\ d.since > 0 => PortWithin(p, d.cached, d.since, now)
    BY <1>1, <1>2, <1>5, <1>9, <2>1, NewReading
  <2>3. clients'[p] = d /\ DOMAIN clients' = Ports /\ \A q \in Ports : q # p => clients'[q] = clients[q]
    BY <1>1, <1>5, <1>9, <2>1 DEF ClientsOK
  <2>4. /\ d.since \in Nat /\ ~(now - d.ts >= Cadence)
    BY <1>3, <2>2, CountersAssumption DEF Client
  <2>6. WritePort(p, d)
    BY <1>9, <2>3
  <2>8. SamplesOK' /\ Later
    BY <1>0, <1>1, <1>9, <2>2, <2>4, <2>6, PortAnswerKeeps
  <2>9. MetersOK' /\ PmusOK'
    BY <1>1, <1>3, <1>9, <2>8, MetersStay, PmusStay
  <2>10. /\ Ports' = Ports /\ now' = now /\ history' = history /\ On("ib")' = On("ib")
         /\ Counters' = Counters
    BY <2>6, <2>8, LayoutStays DEF Later, WritePort, Write, now
  <2>11. PortOK(p)'
    <3>1. ReadingAt(p, d.form, now)' = ReadingAt(p, d.form, now)
      BY <2>10 DEF ReadingAt
    <3>2. \A level, s, t : PortWithin(p, level, s, t)' = PortWithin(p, level, s, t)
      BY <2>10 DEF PortWithin, Growth, Util, Least
    <3>3. d.since <= d.ts /\ d.ts <= d.last /\ d.last <= now /\ (d.since > 0 => d.since < d.ts)
      BY <1>3, <2>2, <2>4
    <3>4. QED BY <1>2, <2>2, <2>3, <2>10, <3>1, <3>2, <3>3 DEF PortOK, ReadingAt
  <2>12. ASSUME NEW q \in Ports, q # p PROVE PortOK(q)'
    <3>1. PICK c : c = clients[q] /\ c = clients'[q]
      BY <2>3, <2>12
    <3>2. /\ c \in Client /\ c.ts <= c.last /\ c.last <= now /\ (~c.failed => c.last = c.ts) /\ PortOK(q)
      BY <1>1, <3>1 DEF ClientsOK, PortOK
    <3>3. QED BY <1>1, <2>8, <2>10, <3>1, <3>2, PortStays
  <2>13. ClientsOK'
    BY <2>3, <2>10, <2>11, <2>12 DEF ClientsOK
  <2>14. QED BY <2>8, <2>9, <2>13 DEF CountersInv, StateOK
<1>10. QED
  BY <1>0, <1>4, <1>7, <1>8, <1>9 DEF AskIbMad

(* A new reading of the uncore events.                                     *)
LEMMA ReadPmuKeeps ==
  ASSUME CountersInv, collector.at = "ask", IsPci(edge), PmuSource(edge) = "perf_uncore",
         NEW got \in SUBSET (Perf \cap layout.machine), ReadPmu(got)
  PROVE  CountersInv'
<1> DEFINE count == [f \in {"perf_read", "perf_write"} |->
                       IF f \in got THEN history[now][<<f, edge>>] ELSE 0]
           grown(f) == IF f \in got THEN count[f] - pmus[edge].prev[f] ELSE 0
           words == grown("perf_read") + grown("perf_write")
           since == pmus[edge].ts
           level == IF since = 0 THEN 0 ELSE Util(words, now - since)
           formula == got = pmus[edge].got /\ got = Perf \cap layout.machine
<1>1. /\ StateOK /\ SamplesOK /\ SettingsOK /\ HistoryOK /\ CollectorOK /\ edge \in Edges
      /\ ClientsOK /\ MetersOK /\ PmusOK
  BY DEF CountersInv, StateOK, SamplesOK, CollectorOK, edge
<1>2. /\ now \in Nat \ {0} /\ now \in 1 .. now /\ \A e \in Edges : ReadBy(e) \in 0 .. now
      /\ ReadBy(edge) < now
      /\ \A t \in 1 .. now : history[t] \in [Counters -> Nat]
  BY <1>1, ReadByTyped DEF HistoryOK, now
<1>3. /\ pmus[edge] \in [prev : [Perf -> Nat], ts : Nat, got : SUBSET (Perf \cap layout.machine)]
      /\ pmus[edge].ts <= ReadBy(edge)
      /\ since > 0 => \A f \in pmus[edge].got : pmus[edge].prev[f] = history[since][<<f, edge>>]
  BY <1>1 DEF PmusOK, PmuOK
<1>4. ASSUME NEW f \in Perf \cap layout.machine PROVE <<f, edge>> \in Counters
  BY <1>1 DEF Counters, Perf
<1>5. count \in [Perf -> Nat]
  <2>1. ASSUME NEW f \in got PROVE history[now][<<f, edge>>] \in Nat
    BY <1>2, <1>4
  <2>2. QED BY <2>1 DEF Perf
<1>6. PICK at \in Nat : at = now
  BY <1>2
<1>7. since \in Nat /\ since < now
  <2>1. PICK by \in 0 .. now : by = ReadBy(edge)
    BY <1>1, <1>2
  <2>2. since \in Nat /\ since <= by /\ by < now
    BY <1>2, <1>3, <2>1
  <2>3. QED BY <1>2, <2>1, <2>2
<1>8. ASSUME NEW f \in Perf PROVE grown(f) \in Int
  BY <1>3, <1>5
<1>9. words \in Int
  BY <1>8 DEF Perf
<1>10. level \in 0 .. 99
  <2>1. PICK dt \in Nat \ {0}, w \in Int : dt = now - since /\ w = words
    BY <1>2, <1>7, <1>9
  <2>2. Util(w, dt) \in 0 .. 99
    BY UtilTyped
  <2>3. level \in {0, Util(w, dt)}
    BY <2>1
  <2>4. QED BY <2>2, <2>3
<1>11. ASSUME formula, since > 0
       PROVE  Within("perf_uncore", edge, level, since, now)
  <2>1. ASSUME NEW f \in Perf PROVE grown(f) = Growth(<<f, edge>>, since, now)
    <3>1. CASE f \in got
      <4>1. <<f, edge>> \in Counters
        BY <1>4, <3>1
      <4>2. pmus[edge].prev[f] = history[since][<<f, edge>>]
        BY <1>3, <1>11, <3>1
      <4>3. count[f] = history[now][<<f, edge>>]
        BY <3>1 DEF Perf
      <4>4. QED BY <3>1, <4>1, <4>2, <4>3 DEF Growth
    <3>2. CASE f \notin got
      <4>1. <<f, edge>> \notin Counters
        BY <1>11, <2>1, <3>2 DEF Counters, Perf
      <4>2. QED BY <3>2, <4>1 DEF Growth
    <3>3. QED BY <3>1, <3>2
  <2>2. Carried("perf_uncore", edge, since, now) = words
    BY <2>1 DEF Carried, Perf
  <2>3. level = Util(words, now - since)
    BY <1>11
  <2>4. PICK n \in 0 .. 99 : n = level
    BY <1>10
  <2>5. n <= n /\ n <= Least(99, n + 0)
    BY DEF Least
  <2>6. QED BY <2>2, <2>3, <2>4, <2>5 DEF Within
<1>12. PICK exact \in BOOLEAN : exact = formula
  OBVIOUS
<1>13. /\ Write("perf_uncore", level, since, now, formula, FALSE) /\ UNCHANGED <<clients, meters>>
       /\ pmus' = [pmus EXCEPT ![edge] = [prev |-> count, ts |-> now, got |-> got]]
  BY DEF ReadPmu, Perf
<1>14. "perf_uncore" \in OwnFabric(edge)
  BY DEF OwnFabric, IsPci
<1>15. PICK u : u = [prev |-> count, ts |-> now, got |-> got]
  OBVIOUS
<1>16. /\ u \in [prev : [Perf -> Nat], ts : Nat, got : SUBSET (Perf \cap layout.machine)]
       /\ u.ts = now /\ \A f \in u.got : u.prev[f] = history[now][<<f, edge>>]
  BY <1>2, <1>5, <1>15 DEF Perf
<1>17. PICK rate \in 0 .. 99, then \in Nat : rate = level /\ then = since
  BY <1>7, <1>10
<1>18. Write("perf_uncore", rate, then, at, exact, FALSE)
  BY <1>6, <1>12, <1>13, <1>17
<1>19. exact = TRUE /\ then > 0 => Within("perf_uncore", edge, rate, then, at)
  BY <1>6, <1>11, <1>12, <1>17
<1>20. pmus' = [pmus EXCEPT ![edge] = u]
  BY <1>13, <1>15
<1> HIDE DEF count, words, since, level, formula, grown
<1>21. SamplesOK' /\ Later /\ \A e \in Edges : e = edge => ReadBy(e)' = now
  <2>1. rate \in 0 .. 100 /\ rate # 100 /\ "perf_uncore" \in Answers
    BY DEF Answers
  <2>2. collector.at # "sleep"
    OBVIOUS
  <2>3. QED BY <1>1, <1>14, <1>18, <1>19, <2>1, <2>2, WriteKeeps
<1>22. ClientsOK' /\ MetersOK'
  BY <1>1, <1>2, <1>13, <1>21, ClientsStay, MetersStay
<1>23. history' = history /\ now' = now /\ layout' = layout /\ \A e : IsPci(e)' = IsPci(e)
  BY <1>18, LayoutStays DEF Write, now
<1>24. PmusOK'
  <2>1. DOMAIN pmus' = Edges
    BY <1>1, <1>20 DEF PmusOK
  <2>2. ASSUME NEW e \in Edges PROVE PmuOK(e)'
    <3>1. CASE e = edge
      <4>1. pmus'[e] = u /\ ReadBy(e)' = now
        BY <1>1, <1>20, <1>21, <3>1 DEF PmusOK
      <4>2. QED BY <1>2, <1>16, <1>23, <3>1, <4>1 DEF PmuOK
    <3>2. CASE e # edge
      <4>1. pmus'[e] = pmus[e]
        BY <1>1, <1>20, <3>2 DEF PmusOK
      <4>2. PmuOK(e) /\ ReadBy(e) <= ReadBy(e)' /\ ReadBy(e) \in Nat /\ ReadBy(e)' \in Nat
        BY <1>1, <1>2, <1>21 DEF PmusOK, Later
      <4>3. QED BY <1>23, <4>1, <4>2 DEF PmuOK
    <3>3. QED BY <3>1, <3>2
  <2>3. QED BY <2>1, <2>2 DEF PmusOK
<1>25. QED BY <1>21, <1>22, <1>24 DEF CountersInv, StateOK

LEMMA AskPmuKeeps ==
  ASSUME CountersInv, AskPmu
  PROVE  CountersInv'
<1>1. collector.at = "ask" /\ collector.todo # {}
  BY DEF AskPmu, Asking
<1>2. CASE NoAnswer /\ UNCHANGED state
  BY <1>1, <1>2, SilenceKeeps
<1>3. ASSUME PmuSource(edge) = "perf_uncore",
             NEW got \in SUBSET ({"perf_read", "perf_write"} \cap layout.machine) \ {{}},
             ReadPmu(got)
      PROVE  CountersInv'
  <2>1. IsPci(edge)
    BY <1>3 DEF PmuSource
  <2>2. got \in SUBSET (Perf \cap layout.machine)
    BY DEF Perf
  <2>3. QED BY <1>1, <1>3, <2>1, <2>2, ReadPmuKeeps
<1>4. ASSUME PmuSource(edge) = "nvml_pcie", NEW level \in Levels, WriteMomentary("nvml_pcie", level)
      PROVE  CountersInv'
  <2>1. level \in 0 .. 99
    BY CountersAssumption
  <2>2. "nvml_pcie" \in OwnFabric(edge)
    BY <1>4 DEF PmuSource, IsPci, OwnFabric
  <2>3. QED BY <1>1, <1>4, <2>1, <2>2, MomentaryKeeps DEF Answers
<1>5. QED BY <1>2, <1>3, <1>4 DEF AskPmu

-----------------------------------------------------------------------------
(* The specification                                                       *)

LEMMA InitCounters == Init => CountersInv
<1> SUFFICES ASSUME Init PROVE CountersInv
  OBVIOUS
<1>1. /\ NumEdges \in Nat \ {0} /\ MaxTime \in Nat \ {0} /\ layout \in Layouts
  BY CountersAssumption DEF Init
<1>2. 0 \in Edges
  BY <1>1 DEF Edges
<1>3. now = 1 /\ history[1] = [c \in Counters |-> 0] /\ history \in Seq([Counters -> Nat])
  BY DEF Init, now
<1>4. HistoryOK
  BY <1>1, <1>3 DEF HistoryOK
<1>5. CollectorOK
  BY <1>2, <1>3 DEF Init, CollectorOK, edge
<1>6. \A e \in Edges : ReadBy(e) \in {0, 1}
  BY <1>3 DEF Init, ReadBy, edge
<1>7. ClientsOK
  <2>1. ASSUME NEW p \in Ports PROVE PortOK(p)
    BY <1>3 DEF Init, PortOK, Client
  <2>2. QED BY <2>1 DEF Init, ClientsOK
<1>8. MetersOK
  <2>1. ASSUME NEW kind \in {"lane", "data"}, NEW e \in Edges PROVE MeterOK(kind, e)
    <3>1. meters[<<kind, e>>] = [prev |-> 0, ts |-> 0]
      BY DEF Init
    <3>2. 0 <= ReadBy(e)
      BY <1>6
    <3>3. QED BY <3>1, <3>2 DEF MeterOK
  <2>2. QED BY <2>1 DEF Init, MetersOK
<1>9. PmusOK
  <2>1. ASSUME NEW e \in Edges PROVE PmuOK(e)
    BY <1>6 DEF Init, PmuOK, Perf
  <2>2. QED BY <2>1 DEF Init, PmusOK
<1>10. SettingsOK
  BY <1>1 DEF Init, SettingsOK
<1>11. report = NoReport
  BY DEF Init
<1>12. QED
  BY <1>4, <1>5, <1>7, <1>8, <1>9, <1>10, <1>11
     DEF CountersInv, StateOK, SamplesOK, ReportOK, UtilIsTraffic, StaleOnlyAfterFailure,
         AlwaysHasSource, OwnFabricFirst

LEMMA StutterKeeps == CountersInv /\ UNCHANGED vars => CountersInv'
<1> SUFFICES ASSUME CountersInv, UNCHANGED vars PROVE CountersInv'
  OBVIOUS
<1>1. /\ layout' = layout /\ history' = history /\ override' = override /\ clients' = clients
      /\ meters' = meters /\ pmus' = pmus /\ collector' = collector /\ report' = report
  BY DEF vars, state
<1>2. /\ Counters' = Counters /\ Ports' = Ports /\ Backends' = Backends /\ now' = now
      /\ edge' = edge /\ \A e : Turns(e)' = Turns(e)
      /\ \A e : Port(e)' = Port(e) /\ OwnFabric(e)' = OwnFabric(e) /\ IsPci(e)' = IsPci(e)
      /\ \A part : On(part)' = On(part)
  BY <1>1, LayoutStays DEF now, edge
<1>3. \A c, s, t : Growth(c, s, t)' = Growth(c, s, t)
  BY <1>1, <1>2 DEF Growth
<1>4. SettingsOK' /\ HistoryOK' /\ ReportOK'
  BY <1>1, <1>2 DEF CountersInv, SamplesOK, SettingsOK, HistoryOK, ReportOK
<1>5. CollectorOK'
  <2>1. CollectorOK /\ \A turn : KindAt(turn)' = KindAt(turn)
    BY DEF CountersInv, SamplesOK, KindAt
  <2>2. QED BY <1>1, <1>2, <2>1 DEF CollectorOK
<1>6. StaleOnlyAfterFailure' /\ AlwaysHasSource' /\ OwnFabricFirst'
  BY <1>1, <1>2
     DEF CountersInv, SamplesOK, StaleOnlyAfterFailure, AlwaysHasSource, OwnFabricFirst
<1>7. UtilIsTraffic'
  <2>1. UtilIsTraffic
    BY DEF CountersInv, SamplesOK
  <2>2. \A source, e, s, t : Carried(source, e, s, t)' = Carried(source, e, s, t)
    BY <1>2, <1>3 DEF Carried
  <2>3. QED BY <1>1, <1>2, <1>3, <2>1, <2>2 DEF UtilIsTraffic, Util, Least
<1>8. Later
  BY <1>1, <1>2, ReadByTyped DEF CountersInv, SamplesOK, Later, ReadBy
<1>9. StateOK'
  BY <1>1, <1>8, ReadByTyped, ClientsStay, MetersStay, PmusStay DEF CountersInv, SamplesOK, StateOK
<1>10. QED BY <1>4, <1>5, <1>6, <1>7, <1>9 DEF CountersInv, SamplesOK

LEMMA NextKeeps == CountersInv /\ [Next]_vars => CountersInv'
<1> SUFFICES ASSUME CountersInv, [Next]_vars PROVE CountersInv'
  OBVIOUS
<1>1. CASE Tick
  BY <1>1, TickKeeps
<1>2. CASE Wake
  BY <1>2, WakeKeeps
<1>3. CASE CheckOverride
  BY <1>3, CheckOverrideKeeps
<1>4. CASE AskNvml
  BY <1>4, AskNvmlKeeps
<1>5. CASE AskIbMad
  BY <1>5, AskIbMadKeeps
<1>6. CASE AskIbverbs
  BY <1>6, AskIbverbsKeeps
<1>7. CASE AskPmu
  BY <1>7, AskPmuKeeps
<1>8. CASE AskPcie
  BY <1>8, AskPcieKeeps
<1>9. CASE FallBack
  BY <1>9, FallBackKeeps
<1>10. ASSUME NEW e \in Edges, NEW util \in Levels, SetSimulatedUtil(e, util) PROVE CountersInv'
  BY <1>10, SetSimulatedUtilKeeps
<1>11. CASE UNCHANGED vars
  BY <1>11, StutterKeeps
<1>12. QED
  BY <1>1, <1>2, <1>3, <1>4, <1>5, <1>6, <1>7, <1>8, <1>9, <1>10, <1>11 DEF Next

LEMMA CountersInvariant == Spec => []CountersInv
<1>1. QED BY InitCounters, NextKeeps, PTL DEF Spec

(* Utilizations are percentages and readings are from the past, whatever   *)
(* the layout, the number of edges and what the hardware counts.           *)
THEOREM CountersTypeCorrect == Spec => []TypeOK
<1>1. CountersInv => TypeOK
  <2> SUFFICES ASSUME CountersInv PROVE TypeOK
    OBVIOUS
  <2>1. SettingsOK /\ HistoryOK /\ CollectorOK /\ ReportOK /\ ClientsOK /\ MetersOK /\ PmusOK
    BY DEF CountersInv, SamplesOK, StateOK
  <2>2. now \in Nat /\ \A e \in Edges : ReadBy(e) \in 0 .. now
    BY <2>1, ReadByTyped
  <2>3. \A p \in Ports : clients[p].cached \in 0 .. 99 /\ {clients[p].ts, clients[p].last} \subseteq 0 .. now
    <3>1. SUFFICES ASSUME NEW p \in Ports
                   PROVE  clients[p].cached \in 0 .. 99 /\ clients[p].ts \in 0 .. now
                          /\ clients[p].last \in 0 .. now
      OBVIOUS
    <3>2. PICK c : c = clients[p]
      OBVIOUS
    <3>3. c \in Client /\ c.ts <= c.last /\ c.last <= now
      BY <2>1, <3>2 DEF ClientsOK, PortOK
    <3>4. QED BY <2>2, <3>2, <3>3 DEF Client
  <2>4. ASSUME NEW m \in DOMAIN meters PROVE meters[m].ts \in 0 .. now
    <3>1. PICK kind \in {"lane", "data"}, e \in Edges : m = <<kind, e>>
      BY <2>1 DEF MetersOK
    <3>2. QED BY <2>1, <2>2, <3>1 DEF MetersOK, MeterOK
  <2>5. \A e \in Edges : pmus[e].ts \in 0 .. now
    BY <2>1, <2>2 DEF PmusOK, PmuOK
  <2>6. QED
    BY <2>1, <2>3, <2>4, <2>5
       DEF TypeOK, SettingsOK, HistoryOK, CollectorOK, ReportOK, Reported, edge
<1>2. QED BY <1>1, CountersInvariant, PTL

(* A utilization computed from two good readings of the same counters is   *)
(* the traffic between them, for any traffic, wrap-around width and order  *)
(* of failures, overrides and shared ports.                                *)
THEOREM UtilizationsAreTraffic == Spec => []UtilIsTraffic
<1>1. CountersInv => UtilIsTraffic
  BY DEF CountersInv, SamplesOK
<1>2. QED BY <1>1, CountersInvariant, PTL

(* While a port answers, what its edges get is at most one cadence old,    *)
(* however many edges share it.                                            *)
THEOREM StalenessMeansFailure == Spec => []StaleOnlyAfterFailure
<1>1. CountersInv => StaleOnlyAfterFailure
  BY DEF CountersInv, SamplesOK
<1>2. QED BY <1>1, CountersInvariant, PTL

(* With the fallback allowed every sample has a source, for any number of  *)
(* edges and any list of fabrics, too short or too long.                   *)
THEOREM SamplesHaveSource == Spec => []AlwaysHasSource
<1>1. CountersInv => AlwaysHasSource
  BY DEF CountersInv, SamplesOK
<1>2. QED BY <1>1, CountersInvariant, PTL

(* A backend of another fabric answers only once the edge's own backends   *)
(* have been asked in vain, for every set of backends.                     *)
THEOREM OwnFabricComesFirst == Spec => []OwnFabricFirst
<1>1. CountersInv => OwnFabricFirst
  BY DEF CountersInv, SamplesOK
<1>2. QED BY <1>1, CountersInvariant, PTL
=============================================================================
