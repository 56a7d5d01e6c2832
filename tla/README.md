# CongShed in TLA+

TLA+ models of CongShed's data-moving core, the TLC runs that check them on small
instances, and TLAPS proofs of what holds for every instance. All paths below are
relative to the repository; "the executor" is `transfer/transfer_executor.cpp`.

Reading order: `Striping`, `Transfer`, `TransferExecutor`, `HICSShim` with `Delivery`,
`ExecutorDrain`, `NcclPlugin`, `Telemetry`, `HardwareCounters`; the small ones
(`MemoryRegistry`, `PluginRails`, `PathSearch`, `Predictor`); then the modules named
`...Proofs`.
Lines in the modules that begin with `\* mutant` introduce a deliberately wrong
variant of the definition below; it is used only to see a property fail.

## 1. The system

CongShed schedules the traffic of an LLM serving cluster over its intra-node and
InfiniBand links. A request is tensor-parallel (TP), pipeline-parallel (PP) or a
KV-cache migration (KV). KV migrations are preemptible: a TP transfer that would
miss its deadline may suspend them at a chunk boundary, and they are rerouted over
another rail afterwards.

| Component | State | Operations | Talks to |
|---|---|---|---|
| Transfer executor (`transfer/`) | `transfers_`: per transfer its state, suspend flag, chunks, bytes left; completion callback; one mutex `mu_` | submit, submit_striped, pause, resume, reroute, cancel, preempt_sharing, tick, drain_ready | transport (copy of a chunk); callback into shim and engine |
| Path selection engine (`path_engine/`) | `kv_flows_`, `pending_reroutes_`; no lock | select_path, schedule_and_execute, stripe_kv_migration, preempt_kv_migrations, drain_boundary_reroutes | executor, topology, telemetry, predictor |
| HICS shim (`shim/shim.cpp`) | owns the other parts | initialize, submit_transfer, poll_transfers, shutdown | everything |
| Telemetry (`telemetry/telemetry.cpp`) | ring of 512 samples, `write_idx_`, `running_`, collector thread; overrides, bindings, backends | start, stop, the collector's sweep, read_latest, snapshot, set_simulated_util | hardware counters; read by the engine |
| Hardware counters (`telemetry/hw_counters.cpp`, `ib_mad.cpp`, `pmu_counters.cpp`) | last reading and time per edge, per IB port a shared client with a cached utilization | available, init, sample of each backend | telemetry |
| Topology (`topology/`) | vertices, edges; cache of paths | build_cluster, yen_k_shortest, paths | engine, which filters (flexibility_set) |
| LSTM predictor (`lstm/`) | weights, sample history, prediction cache | load_weights, push, predict, online_update | fed by the shim's sweep, read by the engine |
| IB verbs transport (`shim/ibverbs_transport.cpp`) | `ready_`, devices, queue of work requests, one mutex | init, shutdown, transfer_chunk, post_write, poll | executor, plugin |
| NCCL net plugin (`shim/nccl_plugin.cpp`) | communicators, requests, lock `g_mu` | devices, listen, connect, accept, isend, irecv, test, close | shim, transport, registry |
| CUDA memory registry (`shim/cuda_mr.cpp`) | regions; what CUDA and mlock hold | register_mr, deregister_mr | plugin |
| UCX transport (`shim/ucx_transport.cpp`) | a request object per put | put, request_completed | shim |
| Rust and Python mirrors, programs, simulation | | | not part of the data path |

### What is hard here

* **Suspension against movement.** A suspension is asked for in one call, takes
  effect some ticks later when no chunk is on the wire, and is undone by a reroute
  that was queued earlier still. In between the transfer may complete, be cancelled,
  be rerouted or be suspended again. Half-sent chunks must go on where they stopped.
* **Two records of the same thing.** Chunk states, bytes sent, `bytes_remaining`, the
  transfer's state, the list of KV flows and the queue of reroutes all say how far a
  transfer is, and different operations write them.
* **A loop that drops its lock.** `drain_ready` releases `mu_` between its tick, its
  look at the table and its forced end.
* **A lock-free ring.** The collector advances `write_idx_` before it stores the
  sample; readers take no lock and read a slot field by field.
* **Counters that lie.** A utilization is a difference of two readings; readings fail, come
  in different forms and widths, are shared by the edges of a port and cached.
* **Sections of a lock.** A copy over the transport is posted in one section and polled in
  another; memory is pinned outside of the registry's lock and entered under it.
* **Pointers in handles.** `connect` reads a listening communicator that may be gone.
* **Starvation.** TP traffic may preempt the same migration again and again.
* **Fixed sizes.** 512 ring slots whatever the number of edges; a 32-bit index;
  the last chunk of a migration is a remainder.

What each part must guarantee: the executor copies each byte exactly once, uses a
rail for one chunk of a transfer at a time and reports the truth about what is left;
the engine forgets no suspended migration and lists exactly the live KV flows; the
shim delivers every transfer; telemetry keeps a sample of each sampled edge and gives
readers a finished, recent one; the plugin pairs each receive with its send; the
registry unpins memory only after its last user; the transport's queue drains; a utilization is the traffic of its
edge; the search finds the cheapest paths and both rails; predictions keep up with the
samples. The `hazards` in `PROJECT.json`
list the places in the code where these can go wrong.

## 2. Modules

`HICSShim` EXTENDS `TransferExecutor` EXTENDS `Transfer` EXTENDS `Striping`, and INSTANCEs
`Delivery`. `ExecutorDrain` EXTENDS `TransferExecutor`. `NcclPlugin` EXTENDS `Transfer`, whose
operators it uses on its own table. `Telemetry` and
`HardwareCounters` stand alone: the engine only reads the ring, the ring does not depend on
the values in it, and the shim's model lets the costs made from them be anything.
`MCServices` composes `MemoryRegistry`, `PluginRails`, `PathSearch`, `Predictor` and `ExecutorDrain`.

### Striping
How `stripe_kv_migration` cuts a migration into chunks, and the chunk record
(`ChunkProgress`). A path is a set of edges, because the code asks only whether two
paths share an edge and which rail a path uses (`RailOf`). `Stripe(total, route)` is
the chunk list when chunk *i* takes path `route[i]`: the code's ranking is by
telemetry that changes from call to call, so the route is a choice. `Total` is the
sum of a sequence without recursion, so that it can be reasoned about.

### Transfer
What the executor does to one transfer, as functions of its record (`NewTransfer`, `Ticked`,
`Suspended`, `Rerouted`, `Cancelled`), and the same lifted to a table of transfers (`Submitted`,
`TickAll`, `SuspendAll`) and to what a tick copies (`Wired`, `CopyAll`). `Ticked` is the body of
`tick`'s loop in its order: park or start chunks, advance and copy each chunk on the wire,
recompute what is left, then complete, pause or go on.

### TransferExecutor
`transfers` is `transfers_`. `copied[id][b]` counts how often byte `b` was copied to
the destination and `callbacks[id]` how often the completion callback ran: the two
effects the executor has outside itself. Every public operation holds `mu_` from its
first line to its last and is therefore one action: `Submit`, `SubmitStriped`,
`Pause`, `Reroute` (also `resume`), `Cancel`, `PreemptSharing`, `Tick`. The bytes a tick moves over a path (`bytes_for_dt`, a product of bandwidth
and time) are any of `Rates`, zero included. Rate functions are per path, so chunks of
several transfers on one path move alike in one tick.

### ExecutorDrain
`drain_ready` as a thread with a program counter (`DrainTick`, `DrainLook`,
`DrainForce`) that interleaves with every action of `TransferExecutor`. The code's
limit of 10000 rounds never bites: each round but the last completes a transfer.

### HICSShim and Delivery
The executor driven as the shim and the path engine drive it. `kvFlows` is
`kv_flows_`, `pending` counts the entries of `pending_reroutes_` per transfer, and
`call` says how far the one running call is: a submission selects, may preempt,
submits, ticks (`SubmitTick`) and drains the deferred reroutes
(`DrainBoundaryReroutes`); a poll ticks (`PollTransfers`) and drains. `SelectPath`
alone is what `apps/main.cpp` does. `SubmitLocal` is a request whose source and
destination are one vertex, as the NCCL plugin makes them; `SubmitUnroutable` one
without a route. Neither engine nor shim has a lock, and their callers in the
repository never make two calls at once (the plugin holds `g_mu`, the programs use one
thread), so neither does the model.

`Delivery` is the abstract promise: transfers are moving, held or delivered; what is
left never grows; a held transfer loses no bytes; "delivered" is said exactly when no
byte is missing; and in the end everything is delivered. `HICSShim` maps `Paused` to
held, `Completed` to delivered, and reads what is left off the destination buffer
(`copied`), not off the code's own counters.

### NcclPlugin
`isend`, `irecv` and `test` under `g_mu`. `requests` is `g_requests`, `transfers` and
`bound` the executor's table with the buffers bound, `memory` the contents of the
application's buffers (each byte is the number of the send it came from). The plugin's
communicators all have rank and GPU 0, so each request runs from a vertex to itself: its path
is empty, it is never suspended, and the pace is fixed (1 GB/s; 0.05 ms per submission,
0.2 ms per test). `Irecv` may take any pending request of its size, as the walk over an
unordered map may. `posted` records what the application did, and for a receive the send
that NCCL means it for (the sends and receives of a communicator match in order) when nothing
else waits to be paired, and whether `test` had already reported that send done and erased
it (`late`).

### Telemetry
The ring and its collector thread, one step per atomic action: read the flag, claim a
slot, store one field (in any order; the compiler and the machine may reorder plain
stores); a reader takes `write_idx_`, looks at one slot per step and reads the
utilization in a step after the comparison. `start`, `stop` and the join are the owner's
steps. A utilization is represented by the number of the write that stored it, so a
read can be checked for whose sample it is and how old. `write_idx_` wraps at
`IndexLimit`. The fields are plain memory read and written by two threads, which is a data
race; the model gives each field's accesses atomic and in any order, which covers what
aligned word-sized accesses do.

### HardwareCounters
Where a utilization comes from. `KindAt` is which backend `read_edge_util`'s two passes (`Turns`)
ask at a turn, of the `Backends` that `select_backends` and `init` leave; the collector's program counter stops
between two of them (`CheckOverride`, `AskNvml`, `AskIbverbs`, `AskPcie`, `AskIbMad`,
`AskPmu`, `FallBack`), so time, traffic (`Tick`) and overrides (`SetSimulatedUtil`) come in
between. `clients` are the `IbMadClient`s, one per port, with the reading, its time and the
cached utilization; `meters` the last readings of the plain counters; `pmus` those of the
uncore events. Each read of the hardware may fail on its own. `report` says of the sample just
made which source it has, between which times it was measured and whether a query failed; it
is a record for the properties, as is `history`, the true counters at each time. A `Layout`
is what `initialize` configures together with the machine it runs on; a machine may have NVML
without its NVLink counter, and an NVLink edge then reads the PCIe throughput.

### MemoryRegistry
`register_mr` in its two steps (`PinRegion` outside of the lock, `EnterRegion` under it) by
several threads, and `deregister_mr`. `registered` is what CUDA holds, `locked` what mlock
holds: a second registration of a buffer fails in CUDA and falls back on mlock, which nothing
undoes.

### PluginRails
The transport (`InitTransport`, `Shutdown`, and a copy by several threads as `SeeReady`,
`PostWrite`, `PollOwn`; the executor's own poll is `PollTick`), and the life of the
communicators over it (`Devices`, `Listen`, `Connect`, `Accept`, `Close`). A connection to a
listener that is closed gets any rail, because the code reads freed memory there.

### PathSearch
`build_cluster`'s graph as a predicate on pairs of vertices (`FabricIn`, `FabricBetween`) and
`yen_k_shortest` as a transition system: a step pops the cheapest entries of the queue. The
filter `FlexibilitySet` and `PathRail` are the engine's. The reference is the set of all
walks (`Walks`), by a recursive function.

### Predictor
`load_weights` on files that end anywhere and whose layers may have other numbers of rows and
inputs than the network needs (the code checks the header and the size of the head only), the history ring with its two ways of being filled,
and the shim's profiling sweep with the rotating window of `refresh_predictions`, whose cursor
is `thread_local` and starts wherever an earlier shim left it.

## 3. Runs

| Run | Question | Instance | Answer |
|---|---|---|---|
| `executor` | Any calls in any order: rails, exactly-once copying, truth of the records | 2 transfers, 2 rails, quantum 2, sizes 1 and 5, rates 0..2 per path | holds |
| `executor_boundary` | Is a paused transfer always at a chunk boundary? | the same | no: finding 2 |
| `drain_delivers` | Does the forced end of `drain_ready` deliver? | 2 transfers, sizes 2 and 3 | no: finding 1 |
| `shim` | Do the shim's calls implement `Delivery`? | 2 transfers, 2 routes and the empty one | holds |
| `plugin` | Do sends and receives find each other, and end? | 4 requests, 2 communicators with a buffer at each end, sizes 2 and 3, quantum 2 | holds |
| `plugin_pairs` | Is a receive paired with a send? | the same | no: finding 4 |
| `plugin_filled` | Does a receive get the message of a send that was reported done before? | the same | no: finding 6 |
| `telemetry` | What does a lock-free reader get? | 3 edges, 5 slots, index below 10, 13 writes | holds |
| `telemetry_cluster` | Is every sampled edge in the ring? | 5 edges, 4 slots | no: finding 3 |
| `hardware` | What is a utilization worth? | 2 edges, 10 machines and configurations, 5 ms | holds |
| `services` | Pinning, queue and rails, path search, predictions; does `drain_ready` return, with nothing copied or completed twice? | 2 threads and 3 buffers; 2 threads and 4 communicators; clusters of up to 8 GPUs; up to 7 edges; 2 transfers, sizes 2 and 3 | holds |
| `services_weights` | What does a failed load leave? | the same | no: finding 5 |

**executor.** `OneChunkPerRail`; `PausedIsQuiescent` (nothing moves, something is
left, no suspension still asked); `CopiedExactlyOnce` (the bytes copied are those the
chunks count, none twice); `CompletedIsDelivered`; `RemainingIsTrue` (`bytes_remaining`
is the number of bytes the destination lacks); `CallbackOnce`; `ChunksOnlyAdvance` (no
step takes back what was sent or touches a finished chunk). Cancelled transfers are
outside of `RemainingIsTrue`, because `cancel` zeroes the counter.

*Bounds.* Size 5 with quantum 2 gives three chunks on two rails with a shorter last
one: two start, one waits, the last is a remainder. A quantum of 2 lets a tick stop in
the middle of a chunk, which is where suspensions and reroutes are delicate. Size 1 is
below the quantum (not striped). A rate of 0 to 2 is nothing, half or all of a chunk, and
the paths move independently. Two transfers are enough for one of them to be a victim
while another goes on; transfers interact only through `max_preempt` and the common
rates.

**shim.** `SuspendedIsQueued`: exactly one deferred reroute per suspended transfer and
none for any other; `KvFlowsAreLive`; `PausedAtBoundary`, which fails for arbitrary
executor calls and holds here, since the engine reroutes paused transfers only; the
refinement `KeepsPromise`; and `EveryTransferIsDelivered`, against a TP stream that may
preempt forever. *Bounds.* As for the executor, with one route per rail and the empty
path; polls move the rails alike, unevenly or not at all, the last being what leaves two
chunks half sent across a drain. The liveness property is true because a suspension lets chunks in
flight finish: each round of suspend, park and reroute completes at least one chunk.
Deadlock is checked here as in all runs whose system has no natural end.

**plugin, plugin_filled.** `OneReceiverPerSend`; `DoneMeansDelivered`: a receive posted while its
send was outstanding, with no other unpaired request of its size around, has its complete
message when it is reported done, if the send's buffer was not used for a new message
meanwhile (a send is done before its receive has copied, so NCCL may use it). Nothing is
promised to a receive posted before its send (finding 4), nor to one posted after the send was
reported done: `ReceiveIsFilled` is the same property without that exemption, and fails
(finding 6). `TestedIsDone`. *Bounds.* Four
requests are two sends and two receives in any order, and let a buffer be used twice; the
sizes are one quantum (a single chunk) and above it (two chunks, one after the other); a
test moves two units, so requests are half done when the next call comes.
Deadlock is not checked: the run ends when its four requests are done.

**telemetry.** `Slack` is the number of slots beyond one per edge. `ReadIsLatest`: a read
that begins while no write is half done and during which at most `Slack` writes begin
returns a finished sample of its own edge, at least as new as the newest at its start.
`MissedMeansOvertaken`: otherwise not finding a sampled edge takes at least `Slack` writes
during the read. `SampledIsKept`: with more slots than edges, no edge is ever without a
sample. With one more write allowed in either bound TLC finds a counterexample, so they
are tight. `StoppedIsQuiet` and `StopReturns` are the owner's side. *Bounds.* Thirteen
writes go round the five slots more than twice and wrap the index (at 10) once; the
number of slots divides the wrap-around, as 512 divides 2^32.

**hardware.** `UtilIsTraffic`: a utilization computed from two good readings is the traffic
between them (plus what the port waited), whatever failed, was cached, shared or overridden
between the two. `StaleOnlyAfterFailure`: a port's utilization older than the cadence is
reported only after a query failed; it says what staleness comes from, and permits it. `AlwaysHasSource`; `OwnFabricFirst`. *Bounds.* Two edges
are what it takes to share a port, or the NVML library across fabrics. The ten layouts
have each backend, each rule of the choice (two passes, a preferred backend, no fallback, lists
that are too short) and each way counters are shared; five ticks with a cadence of two are two
full periods of the cache and a read in the middle. Counters wrap at 2 in their narrow form,
so that a wrap happens in every run that moves data (2.5 million states). Deadlock is not
checked: the clock ends.

**services, services_weights.** The five parts share no variable and no step, so a joint
behaviour is an interleaving of five independent ones and an invariant about one of them holds
of the joint system if it holds of the component alone. `scene` says which is at work and
the others rest, which makes the number of states the sum and not the product; a mutant of
one component is found in its scene. `PinnedWhileRegistered`, with two buffers and four handles:
two threads register one buffer at once while its first region goes. `NothingLeftPending`, with
a poll of one request where the code takes 8, so that a poll takes somebody else's.
`SameRail`: the ends of a connection agree on the rail, with one or two devices and devices
found or not. `CheapestFirst` and `RailsAvailable` on clusters of 1 to 8 GPUs for several k and hop
limits, a path from a vertex to itself included, `LoopFree` up to the size `initialize` builds with its k of 6. `PredictionsKeepUp`: the age
of a prediction in a sweep is at most one turn of the window; 1 to 7 edges in batches of two
give windows that divide the edges, that do not, and that are larger than them.
`LoadedMeansRead`: weights that count as loaded have no part that was replaced and not read to
its end, for every format, every place where a file can end and every shape of its layers. That
the layers then fit the network is another matter (see the end of section 5). Deadlock is not checked:
a search, a sweep and the handles end.
`DrainReturns`, with `CopiedExactlyOnce` and `CallbackOnce`, is checked with other threads free to submit, resume and
cancel at any moment. The table is bounded by `MaxTransfers`, and each round that loops
completes a transfer, so the bound hides no endless loop with a fixed set of transfers;
an unbounded stream of submissions that all complete in time would be cut off by the
code's own limit of rounds.

**Mutants.** Every property of a passing run has a mutant of a definition that models code,
the kind of slip a change could introduce (a chunk reset that forgets what was sent, an index reduced by
one slot too few, a request that does not remember its peer), under which TLC finds it violated with
the run's own constants.

### Fairness

* `shim`: a call that began returns (`SubmitTick`, `DrainBoundaryReroutes` are weakly
  fair), because nothing in it blocks. The application keeps polling and, again and again,
  a poll moves at least a unit on every path (strong fairness of the poll with a moving
  rate): every program of the repository polls until it is done, with `dt_ms` > 0, and
  the bottleneck a path is given is at least 0.1 GB/s, so a tick moves a positive number
  of bytes and enough ticks make a unit. The fairness is on the moving polls and not on
  preemptions, submissions or the choice of route, which may be as unfavourable as they like.
* `services`: the thread inside `drain_ready` is scheduled (weak fairness of its steps).
* `plugin`: each outstanding request is tested again and again, as NCCL's proxy thread does.
  It is weak fairness of `Testing(id)`, written without ENABLED because its guard is known.
* `telemetry`: the collector and the joining thread are scheduled. Readers are not
  assumed to finish.

## 4. Proofs

All of this holds for every value of the constants: any set of paths, number of rails, quantum,
sizes, rates, transfers, edges, slots, index width, threads, buffers, machines, fabrics and
cadences, weight files and batches, clusters, pairs of vertices, numbers of paths and hop limits.

| Module | Theorems |
|---|---|
| `TransferProofs` | `StripeTotal`: the sizes of a migration's chunks add up to it; what each operation on a record keeps |
| `TransferExecutorProofs` | `TypeCorrect`, `RailExclusive`, `EachByteOnce`, `CompletionIsDelivery`, `RemainingIsExact`, `PauseLetsGo`, `OneCallback`, `NothingIsTakenBack` |
| `HICSShimProofs` | `ShimTypeCorrect`, `NoneForgotten`, `FlowsAreLive`, `PausesAtBoundary`, `ImplementsDelivery` |
| `NcclPluginProofs` | `PluginTypeCorrect`, `NothingDeliveredTwice`, `DoneIsDelivered` |
| `TelemetryProofs` | `DaemonTypeCorrect`, `ReadGivesNewest`, `MissNeedsOvertaking`, `SamplesStay`, `StopIsFinal` |
| `HardwareCountersProofs` | `CountersTypeCorrect`, `UtilizationsAreTraffic`, `StalenessMeansFailure`, `SamplesHaveSource`, `OwnFabricComesFirst` |
| `ServicesProofs` | `RegionsStayPinned`, `QueueDrains`, `ConnectionsKeepRail`, `NoPredictionForgotten`, `LoadedIsRead`, `SearchFindsCheapest`, `BothRailsFound`, `NoLoops` |
| `NaturalFacts` | remainders, the least element of a set of numbers, and induction over numbers, for the modules above |

*Assumptions*: those the modules name: `StripingAssumption` (quantum and rail count are
positive, each path has a rail), `ExecutorAssumption` (sizes and rates are natural numbers),
`ShimAssumption` (a route is a path, and the empty path exists), `PluginAssumption`
(the buffers are distinct from one another and from "none"), `TelemetryAssumption` (the number of slots divides the
range of the index, as 512 divides 2^32), `CountersAssumption` (wrap, cadence and layouts are
what a machine can have), `RegistryAssumption`, `RailsAssumption` (finitely many threads),
`PredictorAssumption` (batches and windows are positive), `SearchAssumption` (the numbers of a question
are natural numbers, the vertices are of the cluster). They are what `model/model.hpp` and the unsigned types give, and TLC evaluates
each of them in a run. `SamplesStay` assumes in addition that there are more slots than
edges; finding 3 shows that it is needed.

**Executor, types and rails.** The inductive invariant is `ExecutorInv`: the three tables
describe the same transfers and each transfer is typed, has no chunk beyond its end
(`ChunksOK`) and at most one chunk in flight per rail slot (`Exclusive`). The types are
needed because `Advance` subtracts what was sent from the size. Exclusiveness is preserved by
`Activate` (`ActivateExclusive`), by every step that moves chunks *out* of flight
(`RestateKeeps`), and re-established by a reroute, which first returns every unfinished chunk
to the queue (`ReroutedKeeps`). There is one lemma per operation on a record, lemmas that
lift them to the table (`TablesStep`, `TablesUpdate`, `TablesAppend`), and one step per action
in `NextKeeps`. `StripeTotal` goes over a bijection of index-and-unit pairs: no induction over the chunk
list is needed.

**Executor, delivery.** The properties of a run are not inductive: that a completed transfer
is delivered follows from an equality of two counts, which holds only because the
chunks are disjoint intervals that cover the transfer. `DeliveryInv` adds to `ExecutorInv` for each entry
`Delivers` (the chunks form a `Layout`: disjoint, covering, of the transfer's total; a finished
chunk is sent in full; `bytesRemaining` is the total minus what is sent; a paused
transfer is quiescent), `MemOK` (a byte was copied once if it lies before its chunk's mark,
and not at all otherwise) and `CallsOK`. `WholeLayout` and `StripeLayout` establish the layout when
a transfer is submitted; no operation changes offsets or sizes; a tick copies
exactly the bytes by which the marks advance. `ChunksOnlyAdvance` is an action property from
the same invariant.

**Shim and refinement.** `ShimInv` adds that the queue has one entry for each
suspended transfer and none for another (`QueueOK`), that `kv_flows_` is the set of unfinished
migrations, and `Steered`: nothing is cancelled, a suspension is asked for exactly in
`SuspendPending`, and **a chunk that waits has sent nothing**, which is false of the executor
alone (finding 2) and true here because only a paused transfer is rerouted. The
conclusion proved of every step, `GoodStep`, is that the invariant is kept *and* each
transfer takes a step that `Delivery` knows (`StepOK`); so `ImplementsDelivery` is a lemma
away: initial states map to initial states, and each step maps to a step of `Delivery`
or to a stutter.

**Telemetry.** Everything is said of write numbers. `RingInv`: write *w* is in its slot with
the right edge from the moment it is finished until *w + RingSize* is claimed (`RingHolds`); the
collector's position is the number of writes (`Position`), a half-written slot has the fields
that are not on its list (`Stored`); the newest write of each edge is less than a sweep old
(`NewestOK`); and of a running read, that it has not gone past the newest write of its edge
at its start while that is not overwritten (`ReadOK`). The arithmetic (remainders of
numbers that lie less than a ring apart, wrapping at a multiple of the ring) is proved in the
module, as the solver knows nothing of remainders by a constant.

**Hardware counters.** `CountersInv`: the hardware only counts up (`HistoryOK`); what a client,
a meter or an uncore event remembers is the reading of the time it names (`PortOK`, `MeterOK`,
`PmuOK`), which for the counters of one edge is before the last wake-up until the sweep has come
to the edge (`ReadBy`), so two readings are never of one moment; a cached utilization that is
exact was that of its interval; a client that did not fail remembers its last query; and the
backends whose turn is over were silent (`CollectorOK`). A difference of two readings is then a
difference of two true counters, and one that wrapped is recognised. That the own fabric comes
first needs that the turns of the first pass precede those of the second.

**Plugin.** `PairingInv`: a request that a receive was paired with was posted before it and, as
long as it is outstanding, has a peer; so `irecv` does not find it again. `PluginInv` adds
`Books`: a transfer has the buffers of its post and runs until nothing is left (`Runs`); a
transfer that still moves has a request, and no two requests have a buffer in common, so a
moving transfer is the only one that writes to its receive buffer (`RequestsOK`); a send's buffer
holds its message as long as no other send used it, and what a receive's chunks have sent of an
expected message is in its buffer (`MemoryOK`), unless that message's send was erased before
the receive was posted. It is kept in two halves, as the code does it:
the post (`PostBooks`), then the tick of all transfers (`TickBooks`, on `CopiedArrives`). A
receive whose send is outstanding and has no rival is paired with it, because two sends of a
communicator cannot have the same number of sends before them (`OneMatch`). `DoneIsDelivered` is
an action property: `test` forgets a request only after the tick that made it `Over`, and then
every byte of it was sent (`OverIsSent`) and arrived.

**Registry.** `AddrOK`: if two regions or entering threads hold a buffer, mlock holds it too, so
that the end of CUDA's registration leaves it pinned; and CUDA holds no buffer without a
holder. **Rails.** `QueueInv` counts the queue against the threads between post and poll; `CommsOK` keeps every
live communicator on the rail of its listener (`OnItsRail`), and rails and devices
consistent. **Predictor.** The age of a prediction is bounded by where the window stands:
`PredictorInv` says that an edge's age in refreshes, times the batch, and the distance the cursor
has still to go to the edge are together less than the number of edges.

**Path search.** `SearchInv`: each entry of the queue is a `Trail` with its cost (`QueueOK`);
what was found are walks, each once, the cheapest first, and all cheaper than what is in the
queue (`FoundOK`); and a walk that was not found has a beginning in the queue, unless k walks
that cost no more were found (`NoneMissed`). A step pops all entries of one cost (`Popped`), and
an extension costs more than what it extends (`CostOfAppend`), which is why nothing cheaper
turns up later. That the reference `WalksOf`, a recursive function, has exactly the trails
(`WalksOfAre`), and that a cost is the sum along its path (`CostIs`), go by the induction of
`NaturalFacts`. For the rails, `ToGo` is what is at least missing to a GPU of the other node,
and no edge lowers it by more than it costs (`ToGoFalls`): a path between nodes costs 60015 at
least, and only the two that keep to a rail cost that (`OnlyRailPaths`). For the loops, a path
that comes back to its source pays for two edges more than it has to (`LoopsCost`), and by way
of each other GPU of the source's node there is one that is cheaper (`DetourInNode`,
`DetourBetweenNodes`): more than k of them with the path itself.

*Only model-checked.* Liveness (`DrainReturns`, `EveryTransferIsDelivered`, `TestedIsDone`,
`StopReturns`), since liveness under fairness and `ENABLED` are beyond this prover; and what
`ExecutorDrain` adds to the executor: `CopiedExactlyOnce` and `CallbackOnce` are proved of the
executor's own actions, not of the forced end of `drain_ready`.

## 5. Findings

1. `drain_ready` completes transfers it has not delivered
   (`transfer/transfer_executor.cpp:398`): its forced end finishes the chunks in flight,
   skips those waiting or parked, and completes the transfer. Run `drain_delivers`.
2. `reroute` of a transfer that is still moving puts half-sent chunks back in the queue
   (`:213`), where the next suspension parks them, against "finish current chunk, then
   pause at boundary" in the header. No byte is lost or doubled by it (run `executor`),
   and the path engine never makes that call (run `shim`). Run `executor_boundary`.
3. The ring has fewer slots than the default cluster has edges (512 against 1104):
   more than half of the sampled edges have no sample at any moment and count as idle.
   Run `telemetry_cluster`.
4. `plugin_irecv` takes a receive for "a pending send" (`shim/nccl_plugin.cpp:246`, `:249`):
   a receive posted before its send stays in the table with data and no peer, and the next
   receive of its size reads its source from that empty buffer. Run `plugin_pairs`. For the
   same reason a receive posted before its send is reported done without any data.
5. `load_weights` replaces layers before it has read the file to its end
   (`lstm/lstm_predictor.cpp:146`); `initialize` says "using defaults" of what is left, and the
   prediction indexes empty vectors. Run `services_weights`.
6. `plugin_test` erases a send once its own transfer has ticked through
   (`shim/nccl_plugin.cpp:303`), which copies nothing. A receive posted after that finds no source
   and is reported done with its buffer untouched, against "Real KV path: bind source buffer;
   peer fill happens on matching irecv" (`:210`). Run `plugin_filled`.

Met while modelling; no run refutes a sentence of the repository by one of these:

* `IbMadClient` sets the time of its last query before it knows the outcome, so a port whose
  query fails is served from the cache by the second pass of `read_edge_util`: the synthetic
  fallback never takes over from a port that stopped answering. No rate limit holds before the
  first success. (`telemetry/ib_mad.cpp:321`)
* NVML, asked for in the second pass, answers for InfiniBand edges. An override stays for good
  (`telemetry/telemetry.cpp:169`). `pci_sysfs` always names an IB directory, so `pcie_sysfs` never
  gives a value and `sysfs_uncore` is never opened.
* Predictions are not refreshed after start-up unless an application runs the sweep again
  (`shim/shim.cpp:102`; README.md:7).
* In a node with no more GPUs than the paths wanted, a path may return to its source
  (`topology/topology.cpp:79`); the cache of `paths()` is not cleared by
  `precompute_paths`.
* Two registrations of a buffer share one CUDA registration, which the first deregistration ends
  (`shim/cuda_mr.cpp:219`); mlock, never undone, is what keeps the memory pinned.
* `load_weights` takes the rows and inputs of each layer from the file
  (`lstm/lstm_predictor.cpp:149-155`), and checks the header (`:141-144`) and the head's size
  (`:170`) only: a whole file with no rows counts as loaded, and `predict` indexes past its
  vectors, which `lstm/lstm_predictor.hpp:17-20` declares as "[4H, input]". `Predictor` has
  these files; the model stops where the arithmetic starts.
* `open_sysfs_uncore` closes a directory twice (`telemetry/pmu_counters.cpp:228`, `:234`).

## 6. What is not modelled

* **Costs and predictions.** Floating-point ranking of candidate paths; the models let any
  candidate win, so what they show does not depend on it.
* **Time.** `dt_ms`, deadlines and slack appear as choices.
* **Width.** Byte counts are 64 bits wide and bounded by memory sizes; only
  `write_idx_`, which does wrap, has its width.
* **The transport's insides.** The executor ignores its result, so a copy is what the
  executor's call makes of it.
* **Two threads in the shim at once.** The code has no lock for it and no caller does it.
* **UCX transport.** It forwards to the shim and keeps one record per put; `kv_migration_demo`
  uses it once. What it could add, a test on an id that does not exist, is in the hazards.
* **The predictor's arithmetic**, with quantization; `save_weights` and `online_update` have no
  caller.
* **Layouts and parsing.** MAD packets, sysfs files, device names: a read gives the counter or
  fails. `sysfs_uncore` cannot be reached. Machines that refuse to open an uncore event are left
  out, because the code is undefined from there on.
* **Start-up order of the shim and its counters** (`ShimMetrics`): straight-line code.
* **Rust and Python mirrors, training, simulation**: a second implementation without an
  executor, and arithmetic without lasting state.

## 7. Changing the project

Each component that keeps state and is reached by the programs has a module, and every safety
property of a run has its theorem, but for those of `ExecutorDrain`. A change of the code is
followed in the module that `PROJECT.json` maps its lines to; `Delivery` and the properties
should survive it, or the change is one that users of the shim have to hear of. If the shim gets a
lock, or callers in several threads, `HICSShim`'s `call` becomes one program counter per
thread, and what to look at first is the gap between the look at a transfer's state and its
reroute (`path_engine.cpp:183-256`), and between a submission and its entry in `kv_flows_`
(`:319-344`).
