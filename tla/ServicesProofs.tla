--------------------------- MODULE ServicesProofs ---------------------------
(***************************************************************************)
(* Theorems about four small components that share no state: the registry  *)
(* of buffers, the rails of the plugin, the predictor, and the search for  *)
(* paths.                                                                  *)
(***************************************************************************)
EXTENDS MemoryRegistry, PluginRails, Predictor, PathSearch, NaturalFacts

(***************************************************************************)
(* The registration of buffers, for any buffers, any number of threads and *)
(* of handles.                                                             *)
(***************************************************************************)

(* The holders of a buffer are the regions that say it is pinned, and the  *)
(* threads that have pinned it and not yet entered their region.  CUDA can *)
(* keep a buffer for one holder only, as the first to let go of it ends    *)
(* the registration for all; so a buffer with two holders must be locked.  *)
AddrOK(addr) ==
  /\ Claims(addr) \cup Entering(addr) # {} => addr \in registered \cup locked
  /\ addr \in registered => Claims(addr) \cup Entering(addr) # {}
  /\ addr \notin locked =>
       /\ \A i, j \in Claims(addr) : i = j
       /\ \A t, u \in Entering(addr) : t = u
       /\ Claims(addr) = {} \/ Entering(addr) = {}

RegistryInv == RegistryTypeOK /\ \A addr \in HostBuffers : AddrOK(addr)

LEMMA InitRegistry == RegistryInit => RegistryInv
<1> SUFFICES ASSUME RegistryInit PROVE RegistryInv
  OBVIOUS
<1>1. RegistryTypeOK
  BY RegistryAssumption DEF RegistryInit, RegistryTypeOK, Idle
<1>2. ASSUME NEW addr \in HostBuffers PROVE AddrOK(addr)
  BY <1>2 DEF RegistryInit, AddrOK, Claims, Entering, Idle
<1>3. QED BY <1>1, <1>2 DEF RegistryInv

LEMMA PinRegionOK ==
  ASSUME RegistryInv, NEW t \in Registrars, NEW b \in HostBuffers \cup DeviceBuffers,
         PinRegion(t, b)
  PROVE  RegistryInv'
<1> DEFINE region(pinned) == [addr |-> b, host_registered |-> pinned]
<1>1. /\ entering[t] = Idle
      /\ UNCHANGED <<cuda, regions, next_id>>
      /\ entering' \in {[entering EXCEPT ![t] = region(TRUE)], [entering EXCEPT ![t] = region(FALSE)]}
  BY DEF PinRegion
<1>2. /\ registered \subseteq registered' /\ locked \subseteq locked'
      /\ registered' \subseteq HostBuffers /\ locked' \subseteq HostBuffers
  BY DEF PinRegion, HostRegister, RegistryInv, RegistryTypeOK
<1>3. RegistryTypeOK'
  <2>1. region(TRUE) \in Regions /\ region(FALSE) \in Regions
    BY DEF Regions
  <2>2. entering' \in [Registrars -> Regions \cup {Idle}]
    BY <1>1, <2>1 DEF RegistryInv, RegistryTypeOK
  <2>3. QED BY <1>1, <1>2, <2>2 DEF RegistryInv, RegistryTypeOK
<1>4. ASSUME NEW addr \in HostBuffers PROVE AddrOK(addr)'
  <2>1. AddrOK(addr)
    BY DEF RegistryInv
  <2>2. Claims(addr)' = Claims(addr)
    BY <1>1 DEF Claims
  <2>3. t \notin Entering(addr)
    BY <1>1 DEF Entering, Idle
  <2>4. CASE /\ addr = b /\ HostRegister(b)
             /\ entering' = [entering EXCEPT ![t] = region(TRUE)]
    <3>1. Entering(addr)' = Entering(addr) \cup {t}
      BY <2>4 DEF Entering, RegistryInv, RegistryTypeOK
    <3>2. \/ addr \notin registered /\ registered' = registered \cup {addr} /\ locked' = locked
          \/ locked' = locked \cup {addr} /\ registered' = registered
      BY <2>4 DEF HostRegister
    <3>3. QED BY <2>1, <2>2, <2>3, <3>1, <3>2 DEF AddrOK
  <2>5. CASE \/ addr # b
             \/ /\ UNCHANGED <<registered, locked>>
                /\ entering' = [entering EXCEPT ![t] = region(FALSE)]
    <3>1. Entering(addr)' = Entering(addr)
      BY <1>1, <2>3, <2>5 DEF Entering, RegistryInv, RegistryTypeOK
    <3>2. (addr \in registered <=> addr \in registered') /\ (addr \in locked <=> addr \in locked')
      BY <2>5 DEF PinRegion, HostRegister
    <3>3. QED BY <2>1, <2>2, <3>1, <3>2 DEF AddrOK
  <2>6. QED
    <3>1. \/ HostRegister(b) /\ entering' = [entering EXCEPT ![t] = region(TRUE)]
          \/ /\ UNCHANGED <<registered, locked>>
             /\ entering' = [entering EXCEPT ![t] = region(FALSE)]
      BY DEF PinRegion
    <3>2. QED BY <2>4, <2>5, <3>1
<1>5. QED BY <1>3, <1>4 DEF RegistryInv

LEMMA EnterRegionOK ==
  ASSUME RegistryInv, NEW t \in Registrars, EnterRegion(t)
  PROVE  RegistryInv'
<1>1. /\ next_id \in Nat /\ next_id \notin DOMAIN regions
      /\ entering[t] \in Regions
  BY DEF EnterRegion, RegistryInv, RegistryTypeOK
<1>2. /\ DOMAIN regions' = DOMAIN regions \cup {next_id}
      /\ \A id \in DOMAIN regions : regions'[id] = regions[id]
      /\ regions'[next_id] = entering[t]
      /\ next_id' = next_id + 1
      /\ entering' = [entering EXCEPT ![t] = Idle]
      /\ UNCHANGED <<cuda, registered, locked>>
  BY <1>1 DEF EnterRegion
<1>3. RegistryTypeOK'
  <2>1. entering' \in [Registrars -> Regions \cup {Idle}]
    BY <1>2 DEF RegistryInv, RegistryTypeOK
  <2>2. DOMAIN regions' \subseteq 1 .. (next_id' - 1) /\ next_id' \in Nat \ {0}
    BY <1>1, <1>2 DEF RegistryInv, RegistryTypeOK
  <2>3. \A id \in DOMAIN regions' : regions'[id] \in Regions
    BY <1>1, <1>2 DEF RegistryInv, RegistryTypeOK
  <2>4. QED BY <1>2, <2>1, <2>2, <2>3 DEF RegistryInv, RegistryTypeOK
<1>4. ASSUME NEW addr \in HostBuffers PROVE AddrOK(addr)'
  <2>1. AddrOK(addr)
    BY DEF RegistryInv
  <2>2. CASE t \in Entering(addr)
    <3>1. Claims(addr)' = Claims(addr) \cup {next_id}
      BY <1>1, <1>2, <2>2 DEF Claims, Entering
    <3>2. Entering(addr)' = Entering(addr) \ {t}
      BY <1>2 DEF Entering, Idle, RegistryInv, RegistryTypeOK
    <3>3. QED BY <1>2, <2>1, <2>2, <3>1, <3>2 DEF AddrOK
  <2>3. CASE t \notin Entering(addr)
    <3>1. Claims(addr)' = Claims(addr)
      BY <1>1, <1>2, <2>3 DEF Claims, Entering
    <3>2. Entering(addr)' = Entering(addr)
      BY <1>2, <2>3 DEF Entering, Idle, RegistryInv, RegistryTypeOK
    <3>3. QED BY <1>2, <2>1, <3>1, <3>2 DEF AddrOK
  <2>4. QED BY <2>2, <2>3
<1>5. QED BY <1>3, <1>4 DEF RegistryInv

LEMMA DeregisterMrOK ==
  ASSUME RegistryInv, NEW id \in DOMAIN regions, DeregisterMr(id)
  PROVE  RegistryInv'
<1>1. /\ DOMAIN regions' = DOMAIN regions \ {id}
      /\ \A other \in DOMAIN regions \ {id} : regions'[other] = regions[other]
      /\ UNCHANGED <<cuda, next_id, entering, locked>>
      /\ registered' \in {registered, registered \ {regions[id].addr}}
      /\ registered' = IF regions[id].host_registered THEN registered \ {regions[id].addr} ELSE registered
  BY DEF DeregisterMr, HostUnregister
<1>2. RegistryTypeOK'
  BY <1>1 DEF RegistryInv, RegistryTypeOK
<1>3. ASSUME NEW addr \in HostBuffers PROVE AddrOK(addr)'
  <2>1. AddrOK(addr)
    BY DEF RegistryInv
  <2>2. Entering(addr)' = Entering(addr)
    BY <1>1 DEF Entering
  <2>3. Claims(addr)' = Claims(addr) \ {id}
    BY <1>1 DEF Claims
  <2>4. CASE id \in Claims(addr)
    <3>1. addr \notin registered'
      BY <1>1, <2>4 DEF Claims
    <3>2. addr \notin locked => Claims(addr)' = {} /\ Entering(addr)' = {}
      BY <2>1, <2>2, <2>3, <2>4 DEF AddrOK
    <3>3. QED BY <1>1, <3>1, <3>2 DEF AddrOK
  <2>5. CASE id \notin Claims(addr)
    <3>1. addr \in registered <=> addr \in registered'
      BY <1>1, <2>5 DEF Claims
    <3>2. QED BY <1>1, <2>1, <2>2, <2>3, <2>5, <3>1 DEF AddrOK
  <2>6. QED BY <2>4, <2>5
<1>4. QED BY <1>2, <1>3 DEF RegistryInv

LEMMA NextRegistry == RegistryInv /\ [RegistryNext]_registryVars => RegistryInv'
<1> SUFFICES ASSUME RegistryInv, [RegistryNext]_registryVars PROVE RegistryInv'
  OBVIOUS
<1>1. CASE RegistryNext
  BY <1>1, PinRegionOK, EnterRegionOK, DeregisterMrOK DEF RegistryNext
<1>2. CASE UNCHANGED registryVars
  BY <1>2 DEF registryVars, RegistryInv, RegistryTypeOK, AddrOK, Claims, Entering
<1>3. QED BY <1>1, <1>2

(* Whatever threads register and deregister a buffer in whatever order,    *)
(* its pages stay pinned as long as a region says so: the handle that CUDA *)
(* refuses to register a second time has locked the pages itself.          *)
THEOREM RegionsStayPinned == RegistrySpec => []PinnedWhileRegistered
<1>1. RegistryInv => PinnedWhileRegistered
  BY DEF RegistryInv, AddrOK, PinnedWhileRegistered
<1>2. QED BY InitRegistry, NextRegistry, <1>1, PTL DEF RegistrySpec

(***************************************************************************)
(* The transport's queue and the plugin's communicators, for any number of *)
(* threads, devices, batches and connections.                              *)
(***************************************************************************)

-----------------------------------------------------------------------------
(* The queue of work requests *)

(* The threads that have posted a request and not polled since.            *)
Posted == {t \in Posters : posting[t] = "posted"}

QueueInv ==
  /\ pending \in Nat
  /\ posting \in [Posters -> {"no", "ready", "posted"}]
  /\ pending <= Cardinality(Posted)

LEMMA PostedCount == IsFiniteSet(Posted) /\ Cardinality(Posted) \in Nat
BY RailsAssumption, FS_Subset, FS_CardinalityType DEF Posted

(* A poll takes a request of somebody, and leaves none or fewer.           *)
LEMMA PolledLess ==
  ASSUME NEW batch \in Nat \ {0}, pending \in Nat
  PROVE  Polled(batch) \in Nat /\ (Polled(batch) = 0 \/ Polled(batch) <= pending - 1)
BY DEF Polled

LEMMA PostWriteQueue ==
  ASSUME QueueInv, NEW t \in Posters, PostWrite(t)
  PROVE  QueueInv'
<1>1. Posted' = Posted \cup {t} /\ t \notin Posted
  BY DEF PostWrite, QueueInv, Posted
<1>2. Cardinality(Posted') = Cardinality(Posted) + 1
  BY <1>1, PostedCount, FS_AddElement
<1>3. QED BY <1>2, PostedCount DEF PostWrite, QueueInv

LEMMA PollOwnQueue ==
  ASSUME QueueInv, NEW t \in Posters, PollOwn(t)
  PROVE  QueueInv'
<1>1. Posted' = Posted \ {t} /\ t \in Posted
  BY DEF PollOwn, QueueInv, Posted
<1>2. Cardinality(Posted') = Cardinality(Posted) - 1
  BY <1>1, PostedCount, FS_RemoveElement
<1>3. Cardinality(Posted) - 1 \in Nat
  BY <1>1, PostedCount, FS_EmptySet
<1>4. Polled(PollBatch) \in Nat /\ (Polled(PollBatch) = 0 \/ Polled(PollBatch) <= pending - 1)
  BY PolledLess, RailsAssumption DEF QueueInv
<1>5. pending' = Polled(PollBatch) /\ posting' \in [Posters -> {"no", "ready", "posted"}]
  BY DEF PollOwn, QueueInv
<1>6. QED BY <1>2, <1>3, <1>4, <1>5, PostedCount DEF QueueInv

LEMMA PollTickQueue ==
  ASSUME QueueInv, PollTick
  PROVE  QueueInv'
<1>1. Polled(TickBatch) \in Nat /\ (Polled(TickBatch) = 0 \/ Polled(TickBatch) <= pending - 1)
  BY PolledLess, RailsAssumption DEF QueueInv
<1>2. pending' = Polled(TickBatch) /\ Posted' = Posted /\ UNCHANGED posting
  BY DEF PollTick, Posted
<1>3. QED BY <1>1, <1>2, PostedCount DEF QueueInv

(* What changes neither the queue nor the threads that wait to poll.       *)
LEMMA OtherQueue ==
  ASSUME QueueInv, pending' \in {pending, 0},
         posting' \in [Posters -> {"no", "ready", "posted"}], Posted' = Posted
  PROVE  QueueInv'
BY PostedCount DEF QueueInv

LEMMA NextQueue == QueueInv /\ [RailsNext]_railsVars => QueueInv'
<1> SUFFICES ASSUME QueueInv, [RailsNext]_railsVars PROVE QueueInv'
  OBVIOUS
<1>1. ASSUME NEW t \in Posters, SeeReady(t) PROVE QueueInv'
  <2>1. Posted' = Posted /\ posting' \in [Posters -> {"no", "ready", "posted"}]
    BY <1>1 DEF SeeReady, Posted, QueueInv
  <2>2. QED BY <1>1, <2>1, OtherQueue DEF SeeReady
<1>2. ASSUME UNCHANGED posting, pending' \in {pending, 0} PROVE QueueInv'
  BY <1>2, OtherQueue DEF Posted, QueueInv
<1>3. QED
  BY <1>1, <1>2, PostWriteQueue, PollOwnQueue, PollTickQueue
     DEF RailsNext, InitTransport, Shutdown, Devices, Listen, Connect, Accept, NewComm, Close,
         railsVars

(* However the sections of post_write and poll of any number of threads    *)
(* interleave, no work request is left in the queue once its thread has    *)
(* polled: each poll takes at least as many requests as its thread posted, *)
(* its own or another's.                                                   *)
THEOREM QueueDrains == RailsSpec => []NothingLeftPending
<1>1. RailsInit => QueueInv
  <2> SUFFICES ASSUME RailsInit PROVE QueueInv
    OBVIOUS
  <2>1. Cardinality(Posted) \in Nat
    BY PostedCount
  <2>2. QED BY <2>1 DEF RailsInit, QueueInv
<1>2. QueueInv => NothingLeftPending
  BY DEF QueueInv, NothingLeftPending, Posted
<1>3. QED BY <1>1, <1>2, NextQueue, PTL DEF RailsSpec

-----------------------------------------------------------------------------
(* The communicators *)

(* A communicator that was made from an open listener is on its rail.      *)
Comm == [kind : {"listen", "send", "recv"}, rail : Int, listen : Nat, live : BOOLEAN,
         closed : BOOLEAN]

OnItsRail(cs, c) ==
  cs[c].kind = "recv" \/ (cs[c].kind = "send" /\ cs[c].live) =>
    cs[c].listen \in DOMAIN cs /\ cs[cs[c].listen].rail = cs[c].rail

CommsOK(cs) ==
  /\ \E n \in Nat : DOMAIN cs = 1..n
  /\ \A c \in DOMAIN cs : cs[c] \in Comm /\ OnItsRail(cs, c)

LEMMA NewCommOK ==
  ASSUME CommsOK(comms), NEW kind \in {"listen", "send", "recv"}, NEW rail \in Int,
         NEW listen \in Nat, NEW live \in BOOLEAN, NewComm(kind, rail, listen, live),
         kind = "recv" \/ (kind = "send" /\ live) =>
           listen \in DOMAIN comms /\ comms[listen].rail = rail
  PROVE  CommsOK(comms')
<1> DEFINE new == [kind |-> kind, rail |-> rail, listen |-> listen, live |-> live, closed |-> FALSE]
<1>1. PICK n \in Nat : DOMAIN comms = 1..n
  BY DEF CommsOK
<1>2. Cardinality(DOMAIN comms) = n
  <2>1. 1 \in Int /\ n \in Int
    OBVIOUS
  <2>2. Cardinality(1..n) = IF 1 > n THEN 0 ELSE n - 1 + 1
    BY <2>1, FS_Interval
  <2>3. QED BY <1>1, <2>2
<1>3. /\ DOMAIN comms' = 1..(n + 1)
      /\ \A c \in 1..n : comms'[c] = comms[c]
      /\ comms'[n + 1] = new
  BY <1>1, <1>2 DEF NewComm
<1>4. new \in Comm
  BY DEF Comm
<1>5. ASSUME NEW c \in 1..n PROVE comms'[c] \in Comm /\ OnItsRail(comms', c)
  <2>1. comms[c] \in Comm /\ OnItsRail(comms, c)
    BY <1>1 DEF CommsOK
  <2>2. QED BY <1>1, <1>3, <2>1 DEF OnItsRail
<1>6. OnItsRail(comms', n + 1)
  BY <1>1, <1>3 DEF OnItsRail
<1>7. QED BY <1>1, <1>3, <1>4, <1>5, <1>6 DEF CommsOK

LEMMA CloseOK ==
  ASSUME CommsOK(comms), NEW c \in DOMAIN comms, Close(c)
  PROVE  CommsOK(comms')
<1>1. DOMAIN comms' = DOMAIN comms
  BY DEF Close
<1>2. \A d \in DOMAIN comms : comms'[d] \in {comms[d], [comms[d] EXCEPT !.closed = TRUE]}
  BY DEF Close
<1>3. \A d \in DOMAIN comms : comms[d] \in Comm /\ OnItsRail(comms, d)
  BY DEF CommsOK
<1>4. \A d \in DOMAIN comms :
        /\ comms'[d] \in Comm
        /\ comms'[d].kind = comms[d].kind /\ comms'[d].rail = comms[d].rail
        /\ comms'[d].listen = comms[d].listen /\ comms'[d].live = comms[d].live
  <2> TAKE d \in DOMAIN comms
  <2>1. comms[d] \in Comm
    BY <1>3
  <2>2. CASE comms'[d] = comms[d]
    BY <2>1, <2>2
  <2>3. CASE comms'[d] = [comms[d] EXCEPT !.closed = TRUE]
    BY <2>1, <2>3 DEF Comm
  <2>4. QED BY <1>2, <2>2, <2>3
<1>5. \A d \in DOMAIN comms : OnItsRail(comms', d)
  BY <1>1, <1>3, <1>4 DEF OnItsRail
<1>6. QED BY <1>1, <1>4, <1>5 DEF CommsOK

CommsInv == CommsOK(comms)

LEMMA NextComms == CommsInv /\ [RailsNext]_railsVars => CommsInv'
<1> SUFFICES ASSUME CommsOK(comms), [RailsNext]_railsVars PROVE CommsOK(comms')
  BY DEF CommsInv
<1>1. \A c \in DOMAIN comms : comms[c] \in Comm /\ c \in Nat
  BY DEF CommsOK
<1>2. 0 .. (PluginRailCount - 1) \subseteq Int
  OBVIOUS
<1>3. ASSUME NEW dev \in 0 .. (PluginRailCount - 1), Listen(dev) PROVE CommsOK(comms')
  <2>1. NewComm("listen", dev, 0, TRUE)
    BY <1>3, Zenon DEF Listen
  <2>2. TRUE \in BOOLEAN /\ 0 \in Nat /\ "listen" \in {"listen", "send", "recv"}
    OBVIOUS
  <2>3. dev \in Int
    OBVIOUS
  <2>4. QED BY <2>1, <2>2, <2>3, NewCommOK
<1>4. ASSUME NEW dev \in 0 .. (PluginRailCount - 1), NEW l \in DOMAIN comms, Connect(dev, l)
      PROVE  CommsOK(comms')
  <2>1. PICK rail \in 0 .. (PluginRailCount - 1) :
          /\ ~comms[l].closed => rail = comms[l].rail
          /\ NewComm("send", rail, l, ~comms[l].closed)
    BY <1>4 DEF Connect
  <2>2. comms[l].closed \in BOOLEAN /\ comms[l].rail \in Int
    BY <1>1 DEF Comm
  <2>3. (~comms[l].closed) \in BOOLEAN /\ rail \in Int /\ l \in Nat
    BY <1>1
  <2>4. "send" \in {"listen", "send", "recv"} /\ "send" # "recv"
    OBVIOUS
  <2>5. QED BY <2>1, <2>3, <2>4, NewCommOK
<1>5. ASSUME NEW l \in DOMAIN comms, Accept(l) PROVE CommsOK(comms')
  <2>1. comms[l].rail \in Int /\ l \in Nat
    BY <1>1 DEF Comm
  <2>2. QED BY <1>5, <2>1, NewCommOK DEF Accept
<1>6. ASSUME UNCHANGED comms PROVE CommsOK(comms')
  BY <1>6
<1>7. QED
  BY <1>3, <1>4, <1>5, <1>6, CloseOK
     DEF RailsNext, InitTransport, Shutdown, PollTick, Devices, SeeReady, PostWrite, PollOwn,
         railsVars

(* Both ends of a connection are on the rail of the listener they were     *)
(* made from, for any number of devices and of connections.                *)
THEOREM ConnectionsKeepRail == RailsSpec => []SameRail
<1>1. RailsInit => CommsInv
  <2>1. ASSUME RailsInit PROVE DOMAIN comms = 1..0
    BY <2>1 DEF RailsInit
  <2>2. QED BY <2>1 DEF CommsInv, CommsOK
<1>2. CommsInv => SameRail
  BY DEF CommsInv, CommsOK, OnItsRail, SameRail
<1>3. QED BY <1>1, <1>2, NextComms, PTL DEF RailsSpec

(***************************************************************************)
(* The predictor, for any number of edges, any length of the histories and *)
(* of the batches, and any file of weights.                                *)
(***************************************************************************)

(* A history after some pushes                                             *)

CountAfter(n) == IF n < HistoryLen THEN n ELSE HistoryLen

LEMMA HistoryTyped ==
  ASSUME NEW n \in Nat
  PROVE  HistoryAfter(n) \in [1..HistoryLen -> Nat] /\ CountAfter(n) \in 0 .. HistoryLen
<1>1. HistoryLen \in Nat \ {0}
  BY PredictorAssumption
<1>2. QED BY <1>1 DEF HistoryAfter, CountAfter

(* push_sample keeps the newest samples, in their order.                   *)
LEMMA PushedHistory ==
  ASSUME NEW n \in Nat
  PROVE  Pushed([samples |-> HistoryAfter(n), count |-> CountAfter(n)], n + 1)
           = [samples |-> HistoryAfter(n + 1), count |-> CountAfter(n + 1)]
<1>1. PICK len \in Nat \ {0} : len = HistoryLen
  BY PredictorAssumption
<1>2. PICK f \in [1..len -> Nat], g \in [1..len -> Nat] :
        f = HistoryAfter(n) /\ g = HistoryAfter(n + 1)
  <2>1. n + 1 \in Nat
    OBVIOUS
  <2>2. QED BY <1>1, <2>1, HistoryTyped
<1>3. \A i \in 1..len : /\ f[i] = IF n >= len THEN n - len + i ELSE IF i <= n THEN i ELSE 0
                        /\ g[i] = IF n + 1 >= len THEN n + 1 - len + i
                                  ELSE IF i <= n + 1 THEN i ELSE 0
  BY <1>1, <1>2 DEF HistoryAfter
<1>4. CASE n < len
  <2>1. g = [f EXCEPT ![n + 1] = n + 1]
    <3>1. \A i \in 1..len : g[i] = [f EXCEPT ![n + 1] = n + 1][i]
      BY <1>3, <1>4
    <3>2. QED BY <1>4, <3>1
  <2>2. CountAfter(n) = n /\ CountAfter(n + 1) = n + 1
    BY <1>1, <1>4 DEF CountAfter
  <2>3. QED BY <1>1, <1>2, <1>4, <2>1, <2>2 DEF Pushed
<1>5. CASE n >= len
  <2>1. f \in Seq(Nat) /\ Len(f) = len /\ f # <<>>
    BY <1>1
  <2>2. Tail(f) \in Seq(Nat) /\ Len(Tail(f)) = len - 1 /\ \A i \in 1..(len - 1) : Tail(f)[i] = f[i + 1]
    BY <2>1
  <2>3. /\ Append(Tail(f), n + 1) \in Seq(Nat) /\ Len(Append(Tail(f), n + 1)) = len
        /\ \A i \in 1..(len - 1) : Append(Tail(f), n + 1)[i] = f[i + 1]
        /\ Append(Tail(f), n + 1)[len] = n + 1
    BY <2>2
  <2>4. \A i \in 1..len : Append(Tail(f), n + 1)[i] = g[i]
    <3>1. ASSUME NEW i \in 1..(len - 1) PROVE Append(Tail(f), n + 1)[i] = g[i]
      <4>1. f[i + 1] = n - len + (i + 1) /\ g[i] = n + 1 - len + i
        BY <1>3, <1>5, <3>1
      <4>2. QED BY <2>3, <4>1
    <3>2. g[len] = n + 1
      BY <1>3, <1>5
    <3>3. QED BY <2>3, <3>1, <3>2
  <2>5. Append(Tail(f), n + 1) = g
    <3>1. PICK s \in Seq(Nat) : s = Append(Tail(f), n + 1) /\ Len(s) = len
      BY <2>3
    <3>2. DOMAIN s = 1..len /\ s = [i \in DOMAIN s |-> s[i]]
      BY <3>1
    <3>3. s = [i \in 1..len |-> g[i]]
      BY <2>4, <3>1, <3>2
    <3>4. g = [i \in 1..len |-> g[i]]
      OBVIOUS
    <3>5. QED BY <3>1, <3>3, <3>4
  <2>6. CountAfter(n) = len /\ CountAfter(n + 1) = len
    BY <1>1, <1>5 DEF CountAfter
  <2>7. PICK h : h = [samples |-> f, count |-> len]
    OBVIOUS
  <2>8. ~(h.count < HistoryLen) /\ h.samples = f /\ h.count = len
    BY <1>1, <2>7
  <2>9. Pushed(h, n + 1) = [samples |-> Append(Tail(f), n + 1), count |-> len]
    BY <2>8 DEF Pushed
  <2>10. QED BY <1>2, <2>5, <2>6, <2>7, <2>9
<1>6. QED BY <1>4, <1>5

-----------------------------------------------------------------------------
(* The round of the cursor                                                 *)

(* Edge e is the d-th from a cursor on.                                    *)
Ahead(c, e, d) == d \in 0 .. (edges - 1) /\ \E q \in Int : c + d = edges * q + e

(* Two numbers below n that differ by a multiple of n are equal.           *)
LEMMA SameRest ==
  ASSUME NEW n \in Nat \ {0}, NEW a \in 0 .. (n - 1), NEW b \in 0 .. (n - 1), NEW q \in Int,
         a - b = n * q
  PROVE  a = b
<1>1. CASE q >= 1
  <2>1. n * q >= n
    BY <1>1
  <2>2. QED BY <2>1
<1>2. CASE q <= -1
  <2>1. n * q <= -n
    BY <1>2
  <2>2. QED BY <2>1
<1>3. QED BY <1>1, <1>2

LEMMA AheadIs ==
  ASSUME edges \in Nat \ {0}, NEW c \in Nat, NEW d \in 0 .. (edges - 1)
  PROVE  (c + d) % edges \in EdgeIds /\ Ahead(c, (c + d) % edges, d)
<1>1. c + d \in Nat
  OBVIOUS
<1>2. PICK q \in Nat, rest \in 0 .. (edges - 1) : rest = (c + d) % edges /\ c + d = (edges * q) + rest
  BY <1>1, QuotientAndRest
<1>3. q \in Int
  BY <1>2
<1>4. QED BY <1>2, <1>3 DEF Ahead, EdgeIds

LEMMA AheadOne ==
  ASSUME edges \in Nat \ {0}, NEW c \in Nat, NEW e \in EdgeIds, NEW f \in EdgeIds, NEW d, NEW g,
         Ahead(c, e, d), Ahead(c, f, g)
  PROVE  e = f <=> d = g
<1>1. PICK q \in Int : c + d = edges * q + e
  BY DEF Ahead
<1>2. PICK r \in Int : c + g = edges * r + f
  BY DEF Ahead
<1>3. /\ d \in 0 .. (edges - 1) /\ g \in 0 .. (edges - 1)
      /\ e \in 0 .. (edges - 1) /\ f \in 0 .. (edges - 1)
  BY DEF Ahead, EdgeIds
<1>4. PICK x \in Int, y \in Int : x = edges * q /\ y = edges * r
  OBVIOUS
<1>5. edges * (q - r) = x - y /\ edges * (r - q) = y - x
  BY <1>4
<1>6. c + d = x + e /\ c + g = y + f
  BY <1>1, <1>2, <1>4
<1>7. ASSUME e = f PROVE d = g
  <2>1. d - g = edges * (q - r) /\ q - r \in Int
    BY <1>3, <1>4, <1>5, <1>6, <1>7
  <2>2. QED BY <1>3, <2>1, SameRest
<1>8. ASSUME d = g PROVE e = f
  <2>1. e - f = edges * (r - q) /\ r - q \in Int
    BY <1>3, <1>4, <1>5, <1>6, <1>8
  <2>2. QED BY <1>3, <2>1, SameRest
<1>9. QED BY <1>7, <1>8

LEMMA AheadExists ==
  ASSUME edges \in Nat \ {0}, NEW c \in Nat, NEW e \in EdgeIds
  PROVE  \E d \in 0 .. (edges - 1) : Ahead(c, e, d)
<1>1. PICK q \in Nat, r \in 0 .. (edges - 1) : c = (edges * q) + r
  BY QuotientAndRest
<1>2. PICK x \in Nat : x = edges * q
  BY <1>1
<1>3. edges * (q + 1) = x + edges
  BY <1>1, <1>2
<1>4. e \in 0 .. (edges - 1)
  BY DEF EdgeIds
<1>5. CASE e >= r
  <2>1. e - r \in 0 .. (edges - 1) /\ c + (e - r) = edges * q + e
    BY <1>1, <1>2, <1>4, <1>5
  <2>2. q \in Int
    BY <1>1
  <2>3. QED BY <2>1, <2>2 DEF Ahead
<1>6. CASE e < r
  <2>1. edges + e - r \in 0 .. (edges - 1) /\ c + (edges + e - r) = edges * (q + 1) + e
    BY <1>1, <1>2, <1>3, <1>4, <1>6
  <2>2. q + 1 \in Int
    BY <1>1
  <2>3. QED BY <2>1, <2>2 DEF Ahead
<1>7. QED BY <1>1, <1>4, <1>5, <1>6

(* When the cursor moves past a batch, what lies behind the batch comes    *)
(* nearer by it.                                                           *)
LEMMA AheadMoves ==
  ASSUME edges \in Nat \ {0}, NEW c \in Nat, NEW e \in EdgeIds, NEW d, NEW g,
         Ahead(c, e, d), Ahead((c + Batch) % edges, e, g)
  PROVE  d >= Batch => g = d - Batch
<1>1. Batch \in Nat \ {0}
  BY PredictorAssumption
<1>2. PICK n \in Nat, a \in 0 .. (edges - 1), s \in Nat :
        n = c + Batch /\ a = n % edges /\ n = (edges * s) + a
  <2>1. c + Batch \in Nat
    BY <1>1
  <2>2. QED BY <2>1, QuotientAndRest
<1>3. /\ (c + Batch) % edges = a
      /\ d \in 0 .. (edges - 1) /\ g \in 0 .. (edges - 1)
  BY <1>2 DEF Ahead
<1>4. PICK q \in Int : c + d = edges * q + e
  BY DEF Ahead
<1>5. PICK r \in Int : a + g = edges * r + e
  BY <1>3 DEF Ahead
<1>6. SUFFICES ASSUME d >= Batch PROVE g = d - Batch
  OBVIOUS
<1>7. d - Batch \in 0 .. (edges - 1)
  BY <1>1, <1>3, <1>6
<1>8. PICK x \in Int, y \in Int, z \in Int : x = edges * q /\ y = edges * r /\ z = edges * s
  <2>1. s \in Int
    BY <1>2
  <2>2. edges * q \in Int /\ edges * r \in Int /\ edges * s \in Int
    BY <2>1
  <2>3. QED BY <2>2
<1>9. edges * (r + s - q) = y + z - x /\ r + s - q \in Int
  BY <1>2, <1>8
<1>10. g - (d - Batch) = edges * (r + s - q)
  BY <1>1, <1>2, <1>3, <1>4, <1>5, <1>8, <1>9 DEF EdgeIds
<1>11. QED BY <1>3, <1>7, <1>9, <1>10, SameRest

-----------------------------------------------------------------------------
(* The predictions                                                         *)

Turn ==
  [at : {"load", "sweep", "loop"}] \cup [at : {"warmup"}, edge : EdgeIds]
    \cup [at : {"refresh"}, i : 0 .. (Batch - 1)]

(* The prediction of edge e was computed lag pushes before the last one;   *)
(* and as the edge is the d-th from the cursor on, lag refreshes have not  *)
(* come around to it.                                                      *)
Recent(e, last, d) ==
  \E lag \in Nat :
    lag < last /\ predicted[e] = HistoryAfter(last - lag) /\ lag * Batch + d < edges

PredictedOK ==
  CASE turn.at = "warmup" ->
         pushes > 0 /\ \A e \in EdgeIds : e < turn.edge => predicted[e] = HistoryAfter(pushes)
    [] turn.at = "loop" ->
         \A e \in EdgeIds, d \in 0 .. (edges - 1) : Ahead(cursor, e, d) => Recent(e, pushes, d)
    [] turn.at = "refresh" ->
         pushes > 0 /\ \A e \in EdgeIds, d \in 0 .. (edges - 1) :
           Ahead(cursor, e, d) =>
             IF d < turn.i THEN predicted[e] = HistoryAfter(pushes)
             ELSE Recent(e, pushes - 1, d)
    [] OTHER -> TRUE

SamplesInv ==
  /\ edges \in Nat \ {0} /\ cursor \in Nat /\ pushes \in Nat /\ turn \in Turn
  /\ DOMAIN predicted = EdgeIds
  /\ history = [e \in EdgeIds |-> [samples |-> HistoryAfter(pushes), count |-> CountAfter(pushes)]]

PredictorInv == SamplesInv /\ PredictedOK

LEMMA PushAllKeeps ==
  ASSUME SamplesInv, PushAll, edges' = edges
  PROVE  /\ pushes' = pushes + 1 /\ pushes' \in Nat
         /\ history' = [e \in EdgeIds |-> [samples |-> HistoryAfter(pushes),
                                           count |-> CountAfter(pushes)]]'
<1>1. pushes' = pushes + 1 /\ pushes \in Nat
  BY DEF PushAll, SamplesInv
<1>2. EdgeIds' = EdgeIds
  BY DEF EdgeIds
<1>3. \A e \in EdgeIds : Pushed(history[e], pushes + 1)
                           = [samples |-> HistoryAfter(pushes + 1), count |-> CountAfter(pushes + 1)]
  BY <1>1, PushedHistory DEF SamplesInv
<1>4. history' = [e \in EdgeIds |-> Pushed(history[e], pushes + 1)]
  BY DEF PushAll
<1>5. QED BY <1>1, <1>2, <1>3, <1>4 DEF HistoryAfter, CountAfter

LEMMA SampleAgainKeeps ==
  ASSUME PredictorInv, SampleAgain
  PROVE  PredictorInv'
<1>1. /\ SamplesInv /\ PredictedOK /\ turn.at = "loop" /\ turn' = [at |-> "refresh", i |-> 0]
      /\ edges' = edges /\ predicted' = predicted /\ cursor' = cursor /\ PushAll
  BY DEF PredictorInv, SampleAgain
<1>2. EdgeIds' = EdgeIds
  BY <1>1 DEF EdgeIds
<1>3. SamplesInv'
  <2>1. turn' \in Turn'
    BY <1>1, PredictorAssumption DEF Turn
  <2>2. QED BY <1>1, <1>2, <2>1, PushAllKeeps DEF SamplesInv
<1>4. pushes \in Nat /\ pushes' = pushes + 1 /\ turn'.at = "refresh" /\ turn'.i = 0
  BY <1>1 DEF PushAll, SamplesInv
<1>5. ASSUME NEW e \in EdgeIds, NEW d \in 0 .. (edges - 1), Ahead(cursor, e, d)'
      PROVE  Recent(e, pushes - 1, d)'
  <2>1. Ahead(cursor, e, d)
    BY <1>1, <1>5 DEF Ahead
  <2>2. Recent(e, pushes, d)
    BY <1>1, <2>1 DEF PredictedOK
  <2>3. pushes' - 1 = pushes
    BY <1>4
  <2>4. QED BY <1>1, <2>2, <2>3 DEF Recent, HistoryAfter
<1>6. PredictedOK'
  <2>1. pushes' > 0
    BY <1>4
  <2>2. \A d \in 0 .. (edges - 1) : ~ (d < 0)
    BY <1>1 DEF SamplesInv
  <2>3. QED BY <1>1, <1>2, <1>4, <1>5, <2>1, <2>2 DEF PredictedOK
<1>7. QED BY <1>3, <1>6 DEF PredictorInv

LEMMA SampleAllKeeps ==
  ASSUME PredictorInv, SampleAll
  PROVE  PredictorInv'
<1>1. /\ SamplesInv /\ turn' = [at |-> "warmup", edge |-> 0]
      /\ edges' = edges /\ predicted' = predicted /\ cursor' = cursor /\ PushAll
  BY DEF PredictorInv, SampleAll
<1>2. EdgeIds' = EdgeIds /\ EdgeIds = 0 .. (edges - 1) /\ 0 \in EdgeIds
  <2>1. edges \in Nat \ {0}
    BY <1>1 DEF SamplesInv
  <2>2. EdgeIds' = EdgeIds
    BY <1>1 DEF EdgeIds
  <2>3. EdgeIds = 0 .. (edges - 1)
    BY DEF EdgeIds
  <2>4. 0 \in 0 .. (edges - 1)
    BY <2>1
  <2>5. QED BY <2>2, <2>3, <2>4
<1>3. SamplesInv'
  <2>1. turn' \in Turn'
    BY <1>1, <1>2 DEF Turn
  <2>2. QED BY <1>1, <1>2, <2>1, PushAllKeeps DEF SamplesInv
<1>4. PredictedOK'
  <2>1. pushes' > 0
    <3>1. pushes \in Nat /\ pushes' = pushes + 1
      BY <1>1 DEF PushAll, SamplesInv
    <3>2. QED BY <3>1
  <2>2. turn'.at = "warmup" /\ turn'.edge = 0
    BY <1>1
  <2>3. \A e \in 0 .. (edges - 1) : ~ (e < 0)
    <3>1. edges \in Nat
      BY <1>1 DEF SamplesInv
    <3>2. QED BY <3>1
  <2>4. QED BY <1>2, <2>1, <2>2, <2>3 DEF PredictedOK
<1>5. QED BY <1>3, <1>4 DEF PredictorInv

LEMMA WarmUpKeeps ==
  ASSUME PredictorInv, WarmUp
  PROVE  PredictorInv'
<1>1. /\ SamplesInv /\ PredictedOK /\ turn.at = "warmup"
      /\ predicted' = [predicted EXCEPT ![turn.edge] = history[turn.edge].samples]
      /\ turn' = IF turn.edge + 1 < edges THEN [turn EXCEPT !.edge = @ + 1] ELSE [at |-> "loop"]
      /\ edges' = edges /\ pushes' = pushes /\ cursor' = cursor /\ history' = history
  BY DEF PredictorInv, WarmUp
<1>2. edges \in Nat \ {0} /\ pushes \in Nat /\ pushes > 0 /\ DOMAIN predicted = EdgeIds
  BY <1>1 DEF SamplesInv, PredictedOK
<1>3. EdgeIds' = EdgeIds
  BY <1>1 DEF EdgeIds
<1>4. EdgeIds = 0 .. (edges - 1)
  BY DEF EdgeIds
<1>5. PICK at \in 0 .. (edges - 1) : turn = [at |-> "warmup", edge |-> at]
  BY <1>1, <1>4 DEF SamplesInv, Turn
<1>6. at \in EdgeIds /\ at \in Nat /\ turn.edge = at
  <2>1. at \in EdgeIds /\ at \in Nat
    BY <1>2, <1>4
  <2>2. turn.edge = at
    BY <1>5
  <2>3. QED BY <2>1, <2>2
<1>7. [turn EXCEPT !.edge = @ + 1] = [at |-> "warmup", edge |-> at + 1]
  <2>1. PICK next : next = at + 1
    OBVIOUS
  <2>2. [turn EXCEPT !.edge = next] = [at |-> "warmup", edge |-> next]
    BY <1>5
  <2>3. QED BY <1>6, <2>1, <2>2
<1>8. turn' = IF at + 1 < edges THEN [at |-> "warmup", edge |-> at + 1] ELSE [at |-> "loop"]
  BY <1>1, <1>6, <1>7
<1>9. \A n : HistoryAfter(n)' = HistoryAfter(n) /\ CountAfter(n)' = CountAfter(n)
  BY DEF HistoryAfter, CountAfter
<1>10. history[at].samples = HistoryAfter(pushes)
  BY <1>1, <1>6 DEF SamplesInv
<1>11. predicted' = [predicted EXCEPT ![at] = HistoryAfter(pushes)]
  BY <1>1, <1>6, <1>10
<1>12. ASSUME NEW e \in 0 .. (edges - 1), e < at + 1 PROVE predicted'[e] = HistoryAfter(pushes)
  <2>1. e \in EdgeIds /\ (e = at \/ e < at)
    BY <1>2, <1>4, <1>6, <1>12
  <2>2. CASE e = at
    BY <1>2, <1>6, <1>11, <2>2
  <2>3. CASE e < at
    <3>1. predicted[e] = HistoryAfter(pushes)
      BY <1>1, <1>6, <2>1, <2>3 DEF PredictedOK
    <3>2. e # at
      BY <1>6, <2>3
    <3>3. QED BY <1>2, <1>11, <2>1, <3>1, <3>2
  <2>4. QED BY <2>1, <2>2, <2>3
<1>13. SamplesInv'
  <2>1. turn' \in Turn'
    <3>1. at + 1 < edges => at + 1 \in EdgeIds
      BY <1>2, <1>4, <1>6
    <3>2. QED BY <1>3, <1>8, <3>1 DEF Turn
  <2>2. DOMAIN predicted' = EdgeIds
    BY <1>2, <1>11
  <2>3. QED BY <1>1, <1>3, <1>9, <2>1, <2>2 DEF SamplesInv
<1>14. PredictedOK'
  <2>1. CASE at + 1 < edges
    <3>1. turn'.at = "warmup" /\ turn'.edge = at + 1
      BY <1>8, <2>1
    <3>2. \A e \in EdgeIds : e < at + 1 => predicted'[e] = HistoryAfter(pushes)
      BY <1>4, <1>12
    <3>3. QED BY <1>1, <1>2, <1>3, <1>9, <3>1, <3>2 DEF PredictedOK
  <2>2. CASE ~(at + 1 < edges)
    <3>1. turn'.at = "loop"
      BY <1>8, <2>2
    <3>2. ASSUME NEW e \in 0 .. (edges - 1), NEW d \in 0 .. (edges - 1) PROVE Recent(e, pushes, d)'
      <4>1. e < at + 1
        BY <1>2, <1>6, <2>2
      <4>2. predicted'[e] = HistoryAfter(pushes)
        BY <1>12, <4>1
      <4>3. 0 < pushes /\ pushes - 0 = pushes /\ 0 * Batch + d < edges
        BY <1>2, PredictorAssumption
      <4>4. QED BY <1>1, <1>9, <4>2, <4>3 DEF Recent
    <3>3. QED BY <1>1, <1>2, <1>3, <1>4, <3>1, <3>2 DEF PredictedOK
  <2>3. QED BY <2>1, <2>2
<1>15. QED BY <1>13, <1>14 DEF PredictorInv

LEMMA RefreshKeeps ==
  ASSUME PredictorInv, Refresh
  PROVE  PredictorInv'
<1>1. PICK i, p, n, c, at :
        /\ i \in 0 .. (Batch - 1) /\ p \in Nat /\ n \in Nat /\ c \in Nat
        /\ i = turn.i /\ p = pushes /\ n = edges /\ c = cursor /\ at = (cursor + turn.i) % edges
  BY DEF PredictorInv, Refresh, SamplesInv, Turn
<1>2. /\ SamplesInv /\ PredictedOK /\ turn.at = "refresh"
      /\ predicted' = [predicted EXCEPT ![at] = history[at].samples]
      /\ turn' = IF i + 1 = Batch THEN [at |-> "loop"] ELSE [turn EXCEPT !.i = @ + 1]
      /\ cursor' = IF i + 1 = Batch THEN (c + Batch) % n ELSE c
      /\ edges' = edges /\ pushes' = pushes /\ history' = history
  BY <1>1 DEF PredictorInv, Refresh, AfterBatch
<1>3. /\ Batch \in Nat \ {0} /\ edges \in Nat \ {0} /\ pushes \in Nat /\ pushes > 0
      /\ EdgeIds' = EdgeIds /\ EdgeIds = 0 .. (edges - 1) /\ at \in EdgeIds /\ i \in Nat
  <2>1. Batch \in Nat \ {0} /\ edges \in Nat \ {0} /\ pushes \in Nat /\ pushes > 0
    BY <1>2, PredictorAssumption DEF SamplesInv, PredictedOK
  <2>2. cursor + i \in Nat /\ i \in Nat
    BY <1>1, <1>2, <2>1 DEF SamplesInv
  <2>3. at \in 0 .. (edges - 1)
    BY <1>1, <2>1, <2>2, QuotientAndRest
  <2>4. QED BY <1>2, <2>1, <2>2, <2>3 DEF EdgeIds
<1>4. /\ \A k : HistoryAfter(k)' = HistoryAfter(k) /\ CountAfter(k)' = CountAfter(k)
      /\ \A b, e, d : Ahead(b, e, d)' <=> Ahead(b', e, d)
  BY <1>2 DEF HistoryAfter, CountAfter, Ahead
<1>5. turn' = IF i + 1 = Batch THEN [at |-> "loop"] ELSE [at |-> "refresh", i |-> i + 1]
  <2>1. turn = [at |-> "refresh", i |-> i]
    BY <1>1, <1>2 DEF SamplesInv, Turn
  <2>2. [turn EXCEPT !.i = @ + 1] = [at |-> "refresh", i |-> i + 1]
    BY <2>1
  <2>3. QED BY <1>2, <2>2
<1>6. predicted'[at] = HistoryAfter(pushes) /\ \A e \in EdgeIds : e # at => predicted'[e] = predicted[e]
  BY <1>2, <1>3 DEF SamplesInv
<1>7. ASSUME NEW e \in EdgeIds, NEW d \in 0 .. (edges - 1), Ahead(c, e, d)
      PROVE  IF d < i + 1 THEN predicted'[e] = HistoryAfter(pushes)
             ELSE e # at /\ predicted'[e] = predicted[e] /\ Recent(e, pushes - 1, d)
  <2>1. IF d < i THEN predicted[e] = HistoryAfter(pushes) ELSE Recent(e, pushes - 1, d)
    BY <1>1, <1>2, <1>7 DEF PredictedOK
  <2>2. CASE i < edges
    <3>1. Ahead(c, at, i)
      <4>1. i \in 0 .. (edges - 1)
        BY <1>3, <2>2
      <4>2. at = (c + i) % edges
        BY <1>1
      <4>3. QED BY <1>1, <1>3, <4>1, <4>2, AheadIs
    <3>2. e = at <=> d = i
      BY <1>1, <1>3, <1>7, <3>1, AheadOne
    <3>3. CASE d = i
      BY <1>3, <1>6, <3>2, <3>3
    <3>4. CASE d # i
      <4>1. predicted'[e] = predicted[e] /\ e # at
        BY <1>6, <3>2, <3>4
      <4>2. d < i + 1 <=> d < i
        BY <1>3, <3>4
      <4>3. QED BY <2>1, <4>1, <4>2
    <3>5. QED BY <3>3, <3>4
  <2>3. CASE ~(i < edges)
    <3>1. d < i
      BY <1>3, <2>3
    <3>2. QED BY <1>3, <1>6, <2>1, <3>1
  <2>4. QED BY <2>2, <2>3
<1>8. SamplesInv'
  <2>1. turn' \in Turn'
    <3>1. [at |-> "loop"] \in Turn'
      BY DEF Turn
    <3>2. CASE i + 1 # Batch
      <4>1. i + 1 \in 0 .. (Batch - 1)
        BY <1>1, <1>3, <3>2
      <4>2. QED BY <1>5, <3>2, <4>1 DEF Turn
    <3>3. QED BY <1>5, <3>1, <3>2
  <2>2. cursor' \in Nat
    <3>1. c + Batch \in Nat
      BY <1>1, <1>3
    <3>2. (c + Batch) % edges \in 0 .. (edges - 1)
      BY <1>3, <3>1, QuotientAndRest
    <3>3. QED BY <1>1, <1>2, <1>3, <3>2
  <2>3. DOMAIN predicted' = EdgeIds
    BY <1>2 DEF SamplesInv
  <2>4. QED BY <1>2, <1>3, <1>4, <2>1, <2>2, <2>3 DEF SamplesInv
<1>9. CASE i + 1 = Batch
  <2>1. turn'.at = "loop" /\ cursor' = (c + Batch) % edges
    BY <1>1, <1>2, <1>5, <1>9
  <2>2. ASSUME NEW e \in EdgeIds, NEW g \in 0 .. (edges - 1), Ahead(cursor, e, g)'
        PROVE  Recent(e, pushes, g)'
    <3>1. Ahead((c + Batch) % edges, e, g)
      BY <1>4, <2>1, <2>2
    <3>2. PICK d \in 0 .. (edges - 1) : Ahead(c, e, d)
      BY <1>1, <1>3, AheadExists
    <3>3. CASE d < Batch
      <4>1. predicted'[e] = HistoryAfter(pushes)
        BY <1>7, <1>9, <3>2, <3>3
      <4>2. 0 < pushes /\ pushes - 0 = pushes /\ 0 * Batch + g < edges
        BY <1>3
      <4>3. QED BY <1>2, <1>4, <4>1, <4>2 DEF Recent
    <3>4. CASE d >= Batch
      <4>1. g = d - Batch
        BY <1>1, <1>3, <3>1, <3>2, <3>4, AheadMoves
      <4>2. predicted'[e] = predicted[e] /\ Recent(e, pushes - 1, d)
        BY <1>3, <1>7, <1>9, <3>2, <3>4
      <4>3. PICK lag \in Nat : /\ lag < pushes - 1 /\ predicted[e] = HistoryAfter(pushes - 1 - lag)
                               /\ lag * Batch + d < edges
        BY <4>2 DEF Recent
      <4>4. /\ lag + 1 \in Nat /\ lag + 1 < pushes /\ pushes - (lag + 1) = pushes - 1 - lag
            /\ (lag + 1) * Batch + g < edges
        <5>1. PICK x \in Nat : x = lag * Batch
          BY <1>3
        <5>2. (lag + 1) * Batch = x + Batch
          BY <1>3, <5>1
        <5>3. QED BY <1>3, <4>1, <4>3, <5>1, <5>2
      <4>5. QED BY <1>2, <1>4, <4>2, <4>3, <4>4 DEF Recent
    <3>5. QED BY <1>3, <3>3, <3>4
  <2>3. PredictedOK'
    BY <1>2, <1>3, <2>1, <2>2 DEF PredictedOK
  <2>4. QED BY <1>8, <2>3 DEF PredictorInv
<1>10. CASE i + 1 # Batch
  <2>1. turn'.at = "refresh" /\ turn'.i = i + 1 /\ cursor' = c
    BY <1>2, <1>5, <1>10
  <2>2. ASSUME NEW e \in EdgeIds, NEW d \in 0 .. (edges - 1), Ahead(cursor, e, d)'
        PROVE  IF d < i + 1 THEN predicted'[e] = HistoryAfter(pushes)
               ELSE Recent(e, pushes - 1, d)'
    <3>1. Ahead(c, e, d)
      BY <1>4, <2>1, <2>2
    <3>2. Recent(e, pushes - 1, d) /\ predicted'[e] = predicted[e] => Recent(e, pushes - 1, d)'
      BY <1>2, <1>4 DEF Recent
    <3>3. QED BY <1>7, <3>1, <3>2
  <2>3. PredictedOK'
    BY <1>2, <1>3, <1>4, <2>1, <2>2 DEF PredictedOK
  <2>4. QED BY <1>8, <2>3 DEF PredictorInv
<1>11. QED BY <1>9, <1>10

LEMMA NextPredictor == PredictorInv /\ [PredictorNext]_predictorVars => PredictorInv'
<1> SUFFICES ASSUME PredictorInv, [PredictorNext]_predictorVars PROVE PredictorInv'
  OBVIOUS
<1>1. ASSUME turn'.at = "sweep", turn' = [at |-> "sweep"],
             UNCHANGED <<edges, pushes, history, predicted, cursor>>
      PROVE  PredictorInv'
  <2>1. EdgeIds' = EdgeIds /\ turn' \in Turn' /\ HistoryAfter(pushes)' = HistoryAfter(pushes)
        /\ CountAfter(pushes)' = CountAfter(pushes)
    BY <1>1 DEF EdgeIds, Turn, HistoryAfter, CountAfter
  <2>2. SamplesInv'
    BY <1>1, <2>1 DEF PredictorInv, SamplesInv
  <2>3. PredictedOK'
    BY <1>1 DEF PredictedOK
  <2>4. QED BY <2>2, <2>3 DEF PredictorInv
<1>2. CASE Load
  BY <1>1, <1>2 DEF Load
<1>3. CASE EndSweep
  BY <1>1, <1>3 DEF EndSweep
<1>4. CASE UNCHANGED predictorVars
  <2>1. /\ edges' = edges /\ pushes' = pushes /\ history' = history /\ predicted' = predicted
        /\ cursor' = cursor /\ turn' = turn
    BY <1>4 DEF predictorVars
  <2>2. EdgeIds' = EdgeIds /\ Turn' = Turn
    BY <2>1 DEF EdgeIds, Turn
  <2>3. SamplesInv'
    BY <2>1, <2>2 DEF PredictorInv, SamplesInv, HistoryAfter, CountAfter
  <2>4. PredictedOK'
    <3>1. /\ \A n : HistoryAfter(n)' = HistoryAfter(n)
          /\ \A b, e, d : Ahead(b, e, d)' <=> Ahead(b', e, d)
      BY <2>1 DEF HistoryAfter, Ahead
    <3>2. \A e, last, d : Recent(e, last, d)' <=> Recent(e, last', d)
      BY <2>1, <3>1 DEF Recent
    <3>3. QED BY <2>1, <2>2, <3>1, <3>2 DEF PredictorInv, PredictedOK
  <2>5. QED BY <2>3, <2>4 DEF PredictorInv
<1>5. QED
  BY <1>2, <1>3, <1>4, SampleAllKeeps, WarmUpKeeps, SampleAgainKeeps, RefreshKeeps
     DEF PredictorNext

(* A lag that the cursor allows is at most the number of its rounds.       *)
LEMMA LagBound ==
  ASSUME edges \in Nat \ {0}, NEW lag \in Nat, NEW d \in Nat, lag * Batch + d < edges
  PROVE  lag + 1 <= Rounds
<1>1. Batch \in Nat \ {0} /\ edges + Batch - 1 \in Nat
  BY PredictorAssumption
<1>2. PICK a \in Nat, r \in Nat, s \in 0 .. (Batch - 1) :
        a = edges + Batch - 1 /\ r = a \div Batch /\ a = (Batch * r) + s
  <2>1. PICK a \in Nat : a = edges + Batch - 1
    BY <1>1
  <2>2. a \div Batch \in Nat /\ a % Batch \in 0 .. (Batch - 1) /\ a = (Batch * (a \div Batch)) + (a % Batch)
    BY <1>1, QuotientAndRest
  <2>3. QED BY <2>1, <2>2
<1>3. SUFFICES ASSUME r <= lag PROVE FALSE
  BY <1>2 DEF Rounds
<1>4. PICK x \in Nat, y \in Nat : x = Batch * r /\ y = lag * Batch
  BY <1>1
<1>5. x <= y
  <2>1. PICK more \in Nat : lag = r + more
    <3>1. lag - r \in Nat /\ lag = r + (lag - r)
      BY <1>3
    <3>2. QED BY <3>1
  <2>2. Batch * lag = x + Batch * more /\ Batch * more >= 0
    BY <1>1, <1>4, <2>1
  <2>3. y = Batch * lag
    BY <1>1, <1>4
  <2>4. Batch * more \in Nat
    BY <1>1
  <2>5. QED BY <1>4, <2>2, <2>3, <2>4
<1>6. QED BY <1>1, <1>2, <1>4, <1>5

LEMMA InitPredictor == PredictorInit => PredictorInv
<1> SUFFICES ASSUME PredictorInit PROVE PredictorInv
  OBVIOUS
<1>1. edges \in Nat \ {0} /\ cursor \in Nat /\ pushes = 0 /\ turn = [at |-> "load"]
  BY PredictorAssumption DEF PredictorInit
<1>2. HistoryAfter(0) = Unfilled /\ CountAfter(0) = 0
  BY PredictorAssumption DEF HistoryAfter, CountAfter, Unfilled
<1>3. SamplesInv
  BY <1>1, <1>2 DEF PredictorInit, SamplesInv, Turn
<1>4. PredictedOK
  BY <1>1 DEF PredictedOK
<1>5. QED BY <1>3, <1>4 DEF PredictorInv

(* However many edges there are, however long a batch is and wherever      *)
(* another shim of the thread left the cursor: no prediction is older than *)
(* the refreshes that the cursor needs to come around.                     *)
THEOREM NoPredictionForgotten == PredictorSpec => []PredictionsKeepUp
<1>1. PredictorInv => PredictionsKeepUp
  <2> SUFFICES ASSUME PredictorInv, turn.at \in {"loop", "refresh"}, NEW e \in EdgeIds
               PROVE  \E lag \in 0 .. Rounds : lag < pushes /\ predicted[e] = HistoryAfter(pushes - lag)
    BY DEF PredictionsKeepUp
  <2>1. edges \in Nat \ {0} /\ cursor \in Nat /\ pushes \in Nat
    BY DEF PredictorInv, SamplesInv
  <2>2. PICK d \in 0 .. (edges - 1) : Ahead(cursor, e, d)
    BY <2>1, AheadExists
  <2>3. Rounds \in Nat
    <3>1. Batch \in Nat \ {0}
      BY PredictorAssumption
    <3>2. edges + Batch - 1 \in Nat
      BY <2>1, <3>1
    <3>3. QED BY <3>1, <3>2, QuotientAndRest DEF Rounds
  <2>4. CASE predicted[e] = HistoryAfter(pushes) /\ 0 < pushes
    BY <2>1, <2>3, <2>4
  <2>5. CASE Recent(e, pushes, d)
    <3>1. PICK lag \in Nat : lag < pushes /\ predicted[e] = HistoryAfter(pushes - lag)
                               /\ lag * Batch + d < edges
      BY <2>5 DEF Recent
    <3>2. lag + 1 <= Rounds
      BY <2>1, <3>1, LagBound
    <3>3. QED BY <2>3, <3>1, <3>2
  <2>6. CASE Recent(e, pushes - 1, d)
    <3>1. PICK lag \in Nat : lag < pushes - 1 /\ predicted[e] = HistoryAfter(pushes - 1 - lag)
                               /\ lag * Batch + d < edges
      BY <2>6 DEF Recent
    <3>2. lag + 1 \in 0 .. Rounds
      BY <2>1, <2>3, <3>1, LagBound
    <3>3. lag + 1 < pushes /\ pushes - (lag + 1) = pushes - 1 - lag
      BY <2>1, <3>1
    <3>4. QED BY <3>1, <3>2, <3>3
  <2>7. QED BY <2>2, <2>4, <2>5, <2>6 DEF PredictorInv, PredictedOK
<1>2. QED BY <1>1, InitPredictor, NextPredictor, PTL DEF PredictorSpec

-----------------------------------------------------------------------------
(* The weights: nothing has touched them before the load, and nothing does *)
(* after it.                                                               *)
WeightsInv ==
  IF turn.at = "load" THEN weights = Defaults
  ELSE LoadedMeansRead

LEMMA LoadReads ==
  ASSUME turn.at = "load", weights = Defaults, Load
  PROVE  LoadedMeansRead'
<1>1. CASE weights' = weights
  BY <1>1 DEF Defaults, LoadedMeansRead
<1>2. CASE \E file \in WeightFiles :
             weights' = CASE file.format = "v2" -> LoadV2(weights, file)
                          [] file.format = "legacy" -> LoadLegacy(weights, file.ends)
                          [] OTHER -> Refused(weights)
  <2>1. PICK file \in WeightFiles :
             weights' = CASE file.format = "v2" -> LoadV2(weights, file)
                          [] file.format = "legacy" -> LoadLegacy(weights, file.ends)
                          [] OTHER -> Refused(weights)
    BY <1>2
  <2>2. file.ends \in Ends /\ {file.layer1, file.layer2} \subseteq Shapes
    BY PredictorAssumption
  <2>3. CASE weights' = LoadV2(weights, file)
    BY <2>2, <2>3 DEF LoadV2, Layers, Ends, Shapes, Refused, Loaded, Defaults, LoadedMeansRead
  <2>4. CASE weights' = LoadLegacy(weights, file.ends)
    BY <2>4 DEF LoadLegacy, Refused, Loaded, Defaults, LoadedMeansRead
  <2>5. CASE weights' = Refused(weights)
    BY <2>5 DEF Refused, Defaults, LoadedMeansRead
  <2>6. QED BY <2>1, <2>3, <2>4, <2>5
<1>3. QED BY <1>1, <1>2 DEF Load

LEMMA NextWeights == turn \in Turn /\ WeightsInv /\ [PredictorNext]_predictorVars => WeightsInv'
<1> SUFFICES ASSUME turn \in Turn, WeightsInv, [PredictorNext]_predictorVars PROVE WeightsInv'
  OBVIOUS
<1>1. CASE Load
  <2>1. turn.at = "load" /\ weights = Defaults /\ turn'.at = "sweep"
    BY <1>1 DEF Load, WeightsInv
  <2>2. LoadedMeansRead'
    BY <1>1, <2>1, LoadReads
  <2>3. ~(turn'.at = "load")
    BY <2>1
  <2>4. QED BY <2>2, <2>3 DEF WeightsInv
<1>2. ASSUME weights' = weights, turn.at # "load", turn'.at # "load" PROVE WeightsInv'
  BY <1>2 DEF WeightsInv, LoadedMeansRead
<1>3. CASE SampleAll
  BY <1>2, <1>3 DEF SampleAll
<1>4. CASE WarmUp
  <2>1. turn.at = "warmup" /\ weights' = weights
    BY <1>4 DEF WarmUp
  <2>2. PICK e \in EdgeIds : turn = [at |-> "warmup", edge |-> e]
    BY <2>1 DEF Turn
  <2>3. turn' \in {[at |-> "warmup", edge |-> e + 1], [at |-> "loop"]}
    BY <1>4, <2>2 DEF WarmUp
  <2>4. turn'.at # "load"
    BY <2>3
  <2>5. QED BY <1>2, <2>1, <2>4
<1>5. CASE SampleAgain
  BY <1>2, <1>5 DEF SampleAgain
<1>6. CASE Refresh
  <2>1. turn.at = "refresh" /\ weights' = weights
    BY <1>6 DEF Refresh
  <2>2. PICK i \in 0 .. (Batch - 1) : turn = [at |-> "refresh", i |-> i]
    BY <2>1 DEF Turn
  <2>3. turn' \in {[at |-> "refresh", i |-> i + 1], [at |-> "loop"]}
    BY <1>6, <2>2 DEF Refresh
  <2>4. QED BY <1>2, <2>1, <2>3
<1>7. CASE EndSweep
  BY <1>2, <1>7 DEF EndSweep
<1>8. CASE UNCHANGED predictorVars
  BY <1>8 DEF predictorVars, WeightsInv, LoadedMeansRead
<1>9. QED BY <1>1, <1>3, <1>4, <1>5, <1>6, <1>7, <1>8 DEF PredictorNext

(* load_weights, wherever a file ends and whatever shapes it gives the     *)
(* layers: weights are called loaded only when the file was read to its    *)
(* end, with no part of them empty, half read or left over from before.    *)
THEOREM LoadedIsRead == PredictorSpec => []LoadedMeansRead
<1>1. PredictorInit => WeightsInv
  BY DEF PredictorInit, WeightsInv
<1>2. WeightsInv => LoadedMeansRead
  BY DEF WeightsInv, Defaults, LoadedMeansRead
<1>3. PredictorInv => turn \in Turn
  BY DEF PredictorInv, SamplesInv
<1>4. QED
  BY <1>1, <1>2, <1>3, InitPredictor, NextPredictor, NextWeights, PTL DEF PredictorSpec

(***************************************************************************)
(* The search for paths, for any cluster, any two vertices of it, any      *)
(* number of paths and any hop limit.                                      *)
(***************************************************************************)

(* The search does not leave the cluster it is asked about.                *)
SearchOK ==
  /\ {search.nodes, search.gpus, search.k, search.max_hops} \subseteq Nat
  /\ {search.src, search.dst} \subseteq Vertices

IsVertex(v) == v.kind \in {"gpu", "cpu", "cxl", "ib"} /\ v.node \in Nat /\ v.id \in Nat

LEMMA VertexKinds ==
  ASSUME SearchOK, NEW v \in Vertices
  PROVE  /\ IsVertex(v) /\ v = [node |-> v.node, kind |-> v.kind, id |-> v.id]
         /\ v.kind = "gpu" => v.id \in 0 .. (search.gpus - 1)
         /\ v.kind \in {"cpu", "cxl"} => v.id = 0
         /\ v.kind = "ib" => v.id \in {0, 1}
         /\ v.node \in 0 .. (search.nodes - 1)
BY DEF SearchOK, Vertices, VerticesOf, IsVertex

LEMMA IsVertices ==
  ASSUME SearchOK, NEW n \in 0 .. (search.nodes - 1)
  PROVE  /\ \A i \in 0 .. (search.gpus - 1) : [node |-> n, kind |-> "gpu", id |-> i] \in Vertices
         /\ \A i \in {0, 1} : [node |-> n, kind |-> "ib", id |-> i] \in Vertices
BY DEF SearchOK, Vertices, VerticesOf

(* The edges of a node, and those between nodes.                           *)
LEMMA FabricTable ==
  ASSUME NEW u, NEW v, IsVertex(u), IsVertex(v)
  PROVE  /\ FabricIn(u, v) =
              IF u.kind = "gpu" /\ v.kind = "gpu" THEN IF u.id # v.id THEN "NVLink" ELSE "none"
              ELSE IF \/ u.kind = "cpu" /\ v.kind \in {"gpu", "ib"}
                      \/ v.kind = "cpu" /\ u.kind \in {"gpu", "ib"} THEN "PCIe"
              ELSE IF (u.kind = "gpu" /\ v.kind = "cxl") \/ (u.kind = "cxl" /\ v.kind = "gpu") THEN "CXL"
              ELSE IF (u.kind = "gpu" /\ v.kind = "ib") \/ (u.kind = "ib" /\ v.kind = "gpu")
                THEN "InfiniBand"
              ELSE "none"
         /\ FabricBetween(u, v) =
              IF u.kind = "ib" /\ v.kind = "ib" /\ u.id = v.id THEN "InfiniBand" ELSE "none"
<1>1. \A a, b, c, d : {a, b} = {c, d} <=> (a = c /\ b = d) \/ (a = d /\ b = c)
  OBVIOUS
<1>2. PICK a, b : a = u.kind /\ b = v.kind
  OBVIOUS
<1>3. a \in {"gpu", "cpu", "cxl", "ib"} /\ b \in {"gpu", "cpu", "cxl", "ib"}
  BY <1>2 DEF IsVertex
<1> DEFINE kv == {a, b} \in {{"gpu", "cpu"}, {"cpu", "ib"}}
           kx == {a, b} = {"gpu", "cxl"}
           ki == {a, b} = {"gpu", "ib"}
<1>4. kv <=> \/ a = "cpu" /\ b \in {"gpu", "ib"}
             \/ b = "cpu" /\ a \in {"gpu", "ib"}
  <2>1. kv <=> {a, b} = {"gpu", "cpu"} \/ {a, b} = {"cpu", "ib"}
    OBVIOUS
  <2>2. {a, b} = {"gpu", "cpu"} <=> (a = "gpu" /\ b = "cpu") \/ (a = "cpu" /\ b = "gpu")
    BY <1>1
  <2>3. {a, b} = {"cpu", "ib"} <=> (a = "cpu" /\ b = "ib") \/ (a = "ib" /\ b = "cpu")
    BY <1>1
  <2> HIDE DEF kv
  <2>4. QED BY <2>1, <2>2, <2>3
<1>5. kx <=> (a = "gpu" /\ b = "cxl") \/ (a = "cxl" /\ b = "gpu")
  BY <1>1
<1>6. ki <=> (a = "gpu" /\ b = "ib") \/ (a = "ib" /\ b = "gpu")
  BY <1>1
<1>8. FabricIn(u, v) =
        CASE a = "gpu" /\ b = "gpu" -> IF u.id # v.id THEN "NVLink" ELSE "none"
          [] kv -> "PCIe"
          [] kx -> "CXL"
          [] ki -> "InfiniBand"
          [] OTHER -> "none"
  BY <1>2 DEF FabricIn
<1> HIDE DEF kv, kx, ki
<1>9. FabricIn(u, v) =
              IF a = "gpu" /\ b = "gpu" THEN IF u.id # v.id THEN "NVLink" ELSE "none"
              ELSE IF \/ a = "cpu" /\ b \in {"gpu", "ib"}
                      \/ b = "cpu" /\ a \in {"gpu", "ib"} THEN "PCIe"
              ELSE IF (a = "gpu" /\ b = "cxl") \/ (a = "cxl" /\ b = "gpu") THEN "CXL"
              ELSE IF (a = "gpu" /\ b = "ib") \/ (a = "ib" /\ b = "gpu")
                THEN "InfiniBand"
              ELSE "none"
  BY <1>3, <1>4, <1>5, <1>6, <1>8
<1>10. QED BY <1>2, <1>9 DEF FabricBetween

(* What an edge costs, and which there are.                                *)
LEMMA EdgeTable ==
  ASSUME SearchOK, NEW u \in Vertices, NEW v \in Vertices
  PROVE  /\ v \in Successors(u) =>
              IF u.node # v.node
                THEN u.kind = "ib" /\ v.kind = "ib" /\ u.id = v.id /\ EdgeCost(u, v) = 20005
              ELSE IF u.kind = "gpu" /\ v.kind = "gpu" THEN u.id # v.id /\ EdgeCost(u, v) = 1112
              ELSE IF u.kind = "cpu" THEN v.kind \in {"gpu", "ib"} /\ EdgeCost(u, v) = 15628
              ELSE IF v.kind = "cpu" THEN u.kind \in {"gpu", "ib"} /\ EdgeCost(u, v) = 15628
              ELSE /\ (u.kind = "gpu" /\ v.kind \in {"cxl", "ib"})
                        \/ (u.kind \in {"cxl", "ib"} /\ v.kind = "gpu")
                   /\ EdgeCost(u, v) = 20005
         /\ u.node # v.node /\ u.kind = "ib" /\ v.kind = "ib" /\ u.id = v.id =>
              v \in Successors(u) /\ EdgeFabric(u, v) = "InfiniBand"
         /\ u.node = v.node /\ u.kind = "gpu" /\ v.kind = "gpu" /\ u.id # v.id =>
              v \in Successors(u) /\ EdgeFabric(u, v) = "NVLink"
         /\ u.node = v.node /\ {u.kind, v.kind} = {"gpu", "ib"} =>
              v \in Successors(u) /\ EdgeFabric(u, v) = "InfiniBand"
<1>1. IsVertex(u) /\ IsVertex(v)
  BY VertexKinds
<1>2. PICK f : f = EdgeFabric(u, v)
  OBVIOUS
<1>3. f = IF u.node = v.node THEN FabricIn(u, v) ELSE FabricBetween(u, v)
  BY <1>2 DEF EdgeFabric
<1>4. v \in Successors(u) <=> f # "none"
  BY <1>2 DEF Successors
<1>5. /\ f = "NVLink" => EdgeCost(u, v) = 1112
      /\ f = "PCIe" => EdgeCost(u, v) = 15628
      /\ f \in {"CXL", "InfiniBand"} => EdgeCost(u, v) = 20005
  BY <1>2 DEF EdgeCost
<1>6. CASE u.node # v.node
  BY <1>1, <1>2, <1>3, <1>4, <1>5, <1>6, FabricTable
<1>7. CASE u.node = v.node
  <2>1. f = FabricIn(u, v)
    BY <1>3, <1>7
  <2>2. {u.kind, v.kind} = {"gpu", "ib"} =>
          (u.kind = "gpu" /\ v.kind = "ib") \/ (u.kind = "ib" /\ v.kind = "gpu")
    OBVIOUS
  <2>3. u.kind \in {"gpu", "cpu", "cxl", "ib"} /\ v.kind \in {"gpu", "cpu", "cxl", "ib"}
    BY <1>1 DEF IsVertex
  <2>4. f = IF u.kind = "gpu" /\ v.kind = "gpu" THEN IF u.id # v.id THEN "NVLink" ELSE "none"
            ELSE IF \/ u.kind = "cpu" /\ v.kind \in {"gpu", "ib"}
                    \/ v.kind = "cpu" /\ u.kind \in {"gpu", "ib"} THEN "PCIe"
            ELSE IF (u.kind = "gpu" /\ v.kind = "cxl") \/ (u.kind = "cxl" /\ v.kind = "gpu") THEN "CXL"
            ELSE IF (u.kind = "gpu" /\ v.kind = "ib") \/ (u.kind = "ib" /\ v.kind = "gpu")
              THEN "InfiniBand"
            ELSE "none"
    BY <1>1, <2>1, FabricTable
  <2>5. QED BY <1>2, <1>4, <1>5, <1>7, <2>2, <2>3, <2>4
<1>8. QED BY <1>6, <1>7

LEMMA EdgeCosts ==
  ASSUME SearchOK, NEW u \in Vertices, NEW v \in Successors(u)
  PROVE  v \in Vertices /\ EdgeCost(u, v) \in Nat /\ EdgeCost(u, v) >= 1112
<1>1. v \in Vertices
  BY DEF Successors
<1>2. EdgeCost(u, v) \in {1112, 15628, 20005}
  BY <1>1, EdgeTable
<1>3. QED BY <1>1, <1>2

(* What is at least missing from a vertex to a GPU of node n: from another *)
(* node an edge to a port, one to a port of n, and one from there.         *)
ToGo(v, n) ==
  IF v.node = n THEN IF v.kind = "gpu" THEN 0 ELSE IF v.kind = "cpu" THEN 15628 ELSE 20005
  ELSE IF v.kind = "ib" THEN 40010 ELSE IF v.kind = "cpu" THEN 55638 ELSE 60015

LEMMA ToGoFalls ==
  ASSUME SearchOK, NEW u \in Vertices, NEW v \in Successors(u), NEW n \in Nat
  PROVE  /\ ToGo(u, n) <= EdgeCost(u, v) + ToGo(v, n)
         /\ ToGo(u, n) = EdgeCost(u, v) + ToGo(v, n) =>
              /\ ~(u.kind = "gpu" /\ u.node = n)
              /\ u.kind = "gpu" => v.kind = "ib" /\ v.node = u.node
              /\ u.kind = "ib" /\ u.node # n => v.kind = "ib" /\ v.node = n /\ v.id = u.id
              /\ u.kind = "ib" /\ u.node = n => v.kind = "gpu" /\ v.node = n
<1>1. v \in Vertices
  BY DEF Successors
<1>2. IsVertex(u) /\ IsVertex(v)
  BY <1>1, VertexKinds
<1>3. PICK c : c = EdgeCost(u, v)
  OBVIOUS
<1>4. IF u.node # v.node
        THEN u.kind = "ib" /\ v.kind = "ib" /\ u.id = v.id /\ c = 20005
      ELSE IF u.kind = "gpu" /\ v.kind = "gpu" THEN u.id # v.id /\ c = 1112
      ELSE IF u.kind = "cpu" THEN v.kind \in {"gpu", "ib"} /\ c = 15628
      ELSE IF v.kind = "cpu" THEN u.kind \in {"gpu", "ib"} /\ c = 15628
      ELSE /\ (u.kind = "gpu" /\ v.kind \in {"cxl", "ib"})
                \/ (u.kind \in {"cxl", "ib"} /\ v.kind = "gpu")
           /\ c = 20005
  BY <1>1, <1>3, EdgeTable
<1>5. CASE u.node # v.node
  BY <1>2, <1>3, <1>4, <1>5 DEF ToGo, IsVertex
<1>6. CASE u.node = v.node
  BY <1>2, <1>3, <1>4, <1>6 DEF ToGo, IsVertex
<1>7. QED BY <1>5, <1>6

-----------------------------------------------------------------------------
(* Partial paths and what they cost *)

(* A partial path that the search may come to.                             *)
Trail(t) ==
  /\ t \in Seq(Vertices) /\ Len(t) > 0 /\ t[1] = search.src
  /\ \A i \in 1 .. (Len(t) - 1) : t[i + 1] \in Successors(t[i]) /\ t[i] # search.dst
  /\ \A i, j \in 2 .. Len(t) : t[i] = t[j] => i = j

Start(t, m) == [i \in 1..m |-> t[i]]

LEMMA TailRange ==
  ASSUME NEW S, NEW t \in Seq(S), Len(t) > 0
  PROVE  Range(Tail(t)) = {t[i] : i \in 2 .. Len(t)}
<1>1. Tail(t) \in Seq(S) /\ Len(Tail(t)) = Len(t) - 1 /\ DOMAIN Tail(t) = 1 .. (Len(t) - 1)
  OBVIOUS
<1>2. \A i \in 1 .. (Len(t) - 1) : Tail(t)[i] = t[i + 1]
  OBVIOUS
<1>3. ASSUME NEW x \in Range(Tail(t)) PROVE x \in {t[i] : i \in 2 .. Len(t)}
  <2>1. PICK i \in 1 .. (Len(t) - 1) : x = Tail(t)[i]
    BY <1>1 DEF Range
  <2>2. x = t[i + 1] /\ i + 1 \in 2 .. Len(t)
    BY <1>2, <2>1
  <2>3. QED BY <2>2
<1>4. ASSUME NEW i \in 2 .. Len(t) PROVE t[i] \in Range(Tail(t))
  <2>1. i - 1 \in 1 .. (Len(t) - 1) /\ t[i] = Tail(t)[i - 1]
    BY <1>2
  <2>2. QED BY <1>1, <2>1 DEF Range
<1>5. QED BY <1>3, <1>4

(* A longer path, and the beginnings of a path.                            *)
LEMMA TrailExtends ==
  ASSUME SearchOK, NEW t, Trail(t), Last(t) # search.dst,
         NEW v \in Successors(Last(t)) \ Range(Tail(t))
  PROVE  /\ Trail(Append(t, v)) /\ Len(Append(t, v)) = Len(t) + 1
         /\ Start(Append(t, v), Len(t)) = t /\ Last(Append(t, v)) = v
<1>1. PICK n, s : n = Len(t) /\ s = Append(t, v)
  OBVIOUS
<1>2. n \in Nat \ {0} /\ t \in Seq(Vertices)
  BY <1>1 DEF Trail
<1>3. v \in Vertices
  BY DEF Successors
<1>4. t \in Seq(Vertices) /\ t[1] = search.src /\ Last(t) = t[n]
  BY <1>1, <1>2 DEF Trail, Last
<1>5. /\ s \in Seq(Vertices) /\ Len(s) = n + 1 /\ s[n + 1] = v
      /\ \A i \in 1..n : s[i] = t[i]
  BY <1>1, <1>3, <1>4
<1>6. ASSUME NEW i \in 1..n PROVE s[i + 1] \in Successors(s[i]) /\ s[i] # search.dst
  <2>1. CASE i = n
    BY <1>4, <1>5, <2>1
  <2>2. CASE i # n
    <3>1. i \in 1 .. (n - 1) /\ i + 1 \in 1..n
      BY <1>2, <2>2
    <3>2. t[i + 1] \in Successors(t[i]) /\ t[i] # search.dst
      BY <1>1, <3>1 DEF Trail
    <3>3. QED BY <1>5, <3>1, <3>2
  <2>3. QED BY <2>1, <2>2
<1>7. ASSUME NEW i \in 2 .. (n + 1), NEW j \in 2 .. (n + 1), s[i] = s[j] PROVE i = j
  <2>1. \A m \in 2..n : t[m] # v
    BY <1>1, <1>4, TailRange
  <2>2. CASE i = n + 1 \/ j = n + 1
    <3>1. ASSUME NEW m \in 2 .. (n + 1), s[m] = v PROVE m = n + 1
      <4>1. m # n + 1 => m \in 2..n /\ s[m] = t[m]
        BY <1>2, <1>5
      <4>2. QED BY <2>1, <3>1, <4>1
    <3>2. QED BY <1>5, <1>7, <2>2, <3>1
  <2>3. CASE i # n + 1 /\ j # n + 1
    <3>1. i \in 2..n /\ j \in 2..n /\ t[i] = t[j]
      BY <1>2, <1>5, <1>7, <2>3
    <3>2. QED BY <1>1, <3>1 DEF Trail
  <2>4. QED BY <2>2, <2>3
<1>8. Trail(s)
  BY <1>2, <1>4, <1>5, <1>6, <1>7 DEF Trail
<1>9. Start(s, n) = t
  BY <1>1, <1>4, <1>5 DEF Start
<1>10. QED BY <1>1, <1>5, <1>8, <1>9 DEF Last

LEMMA TrailStart ==
  ASSUME SearchOK, NEW t, Trail(t), NEW m \in 1 .. Len(t)
  PROVE  /\ Trail(Start(t, m)) /\ Len(Start(t, m)) = m /\ Last(Start(t, m)) = t[m]
         /\ m < Len(t) => /\ t[m] # search.dst
                          /\ t[m + 1] \in Successors(t[m]) \ Range(Tail(Start(t, m)))
                          /\ Start(t, m + 1) = Append(Start(t, m), t[m + 1])
         /\ Start(t, Len(t)) = t
<1>1. PICK n, s : n = Len(t) /\ s = Start(t, m)
  OBVIOUS
<1>2. t \in Seq(Vertices) /\ n \in Nat /\ m \in Nat /\ m >= 1 /\ m <= n
  BY <1>1 DEF Trail
<1>3. s \in Seq(Vertices) /\ Len(s) = m /\ \A i \in 1..m : s[i] = t[i]
  <2>1. \A i \in 1..m : t[i] \in Vertices
    BY <1>1, <1>2
  <2>2. s = [i \in 1..m |-> t[i]]
    BY <1>1 DEF Start
  <2>3. QED BY <1>2, <2>1, <2>2
<1>4. /\ t[1] = search.src
      /\ \A i \in 1 .. (n - 1) : t[i + 1] \in Successors(t[i]) /\ t[i] # search.dst
      /\ \A i, j \in 2..n : t[i] = t[j] => i = j
  BY <1>1 DEF Trail
<1>5. Trail(s)
  <2>1. s[1] = search.src /\ Len(s) > 0
    BY <1>2, <1>3, <1>4
  <2>2. \A i \in 1 .. (m - 1) : s[i + 1] \in Successors(s[i]) /\ s[i] # search.dst
    BY <1>2, <1>3, <1>4
  <2>3. \A i, j \in 2..m : s[i] = s[j] => i = j
    BY <1>2, <1>3, <1>4
  <2>4. QED BY <1>3, <2>1, <2>2, <2>3 DEF Trail
<1>6. Last(s) = t[m]
  BY <1>2, <1>3 DEF Last
<1>7. ASSUME m < n
      PROVE  /\ t[m] # search.dst /\ t[m + 1] \in Successors(t[m]) \ Range(Tail(s))
             /\ Start(t, m + 1) = Append(s, t[m + 1])
  <2>1. m \in 1 .. (n - 1) /\ m + 1 \in 2..n
    BY <1>2, <1>7
  <2>2. t[m + 1] \notin Range(Tail(s))
    <3>1. Range(Tail(s)) = {s[i] : i \in 2..m}
      BY <1>2, <1>3, TailRange
    <3>2. ASSUME NEW i \in 2..m PROVE s[i] # t[m + 1]
      BY <1>2, <1>3, <1>4, <2>1
    <3>3. QED BY <3>1, <3>2
  <2>3. Start(t, m + 1) = Append(s, t[m + 1])
    <3>1. t[m + 1] \in Vertices
      BY <1>1, <1>2, <2>1
    <3>2. PICK a : a = Append(s, t[m + 1])
      OBVIOUS
    <3>3. a \in Seq(Vertices) /\ Len(a) = m + 1 /\ a[m + 1] = t[m + 1] /\ \A i \in 1..m : a[i] = s[i]
      BY <1>3, <3>1, <3>2
    <3>4. \A i \in 1 .. (m + 1) : a[i] = t[i]
      BY <1>2, <1>3, <3>3
    <3>5. a = [i \in 1 .. (m + 1) |-> t[i]]
      BY <3>3, <3>4
    <3>6. QED BY <3>2, <3>5 DEF Start
  <2>4. QED BY <1>4, <2>1, <2>2, <2>3
<1>8. Start(t, n) = t
  BY <1>1, <1>2 DEF Start
<1>9. QED BY <1>1, <1>3, <1>5, <1>6, <1>7, <1>8

LEMMA TrailHops ==
  ASSUME NEW t, Trail(t)
  PROVE  t \in Seq(Vertices) /\ Hops(t) \in Nat /\ Len(t) = Hops(t) + 1
<1>1. t \in Seq(Vertices) /\ Len(t) > 0
  BY DEF Trail
<1>2. QED BY <1>1 DEF Hops

(* The cost from the source to each vertex of a path.                      *)
Costs(t, f) ==
  /\ f \in [0 .. Hops(t) -> Nat] /\ f[0] = 0
  /\ \A n \in 1 .. Hops(t) : f[n] = f[n - 1] + EdgeCost(t[n], t[n + 1])

LEMMA CostsExist ==
  ASSUME SearchOK, NEW t, Trail(t)
  PROVE  \E f : Costs(t, f)
<1>1. PICK h \in Nat : h = Hops(t)
  BY TrailHops
<1>2. \A n \in 1..h : EdgeCost(t[n], t[n + 1]) \in Nat
  <2>1. ASSUME NEW n \in 1..h PROVE EdgeCost(t[n], t[n + 1]) \in Nat
    <3>1. t[n] \in Vertices /\ t[n + 1] \in Successors(t[n])
      BY <1>1 DEF Trail, Hops
    <3>2. QED BY <3>1, EdgeCosts
  <2>2. QED BY <2>1
<1> DEFINE UpTo(m, f) == /\ f \in [0..m -> Nat] /\ f[0] = 0
                         /\ \A n \in 1..m : f[n] = f[n - 1] + EdgeCost(t[n], t[n + 1])
           S == {m \in Nat : m <= h => \E f : UpTo(m, f)}
<1>3. 0 \in S
  <2>1. UpTo(0, [n \in {0} |-> 0])
    <3>1. 0..0 = {0} /\ 1..0 = {}
      OBVIOUS
    <3>2. QED BY <3>1
  <2> HIDE DEF UpTo
  <2>2. QED BY <2>1
<1>4. ASSUME NEW m \in Nat, m \in S PROVE m + 1 \in S
  <2>1. SUFFICES ASSUME m + 1 <= h PROVE \E f : UpTo(m + 1, f)
    BY DEF S
  <2>2. PICK f : UpTo(m, f)
    <3> HIDE DEF UpTo
    <3>1. QED BY <1>4, <2>1
  <2>3. PICK c \in Nat : c = EdgeCost(t[m + 1], t[m + 2])
    BY <1>2, <2>1
  <2>4. PICK g : g = [n \in 0 .. (m + 1) |-> IF n = m + 1 THEN f[m] + c ELSE f[n]]
    OBVIOUS
  <2>5. f \in [0..m -> Nat] /\ f[0] = 0 /\ \A n \in 1..m : f[n] = f[n - 1] + EdgeCost(t[n], t[n + 1])
    BY <2>2
  <2>6. f[m] \in Nat
    BY <2>5
  <2>7. \A n \in 0 .. (m + 1) : n # m + 1 => n \in 0..m
    OBVIOUS
  <2>8. g \in [0 .. (m + 1) -> Nat]
    BY <2>3, <2>4, <2>5, <2>6, <2>7
  <2>9. g[0] = 0 /\ g[m + 1] = f[m] + c /\ \A n \in 0..m : g[n] = f[n]
    BY <2>4, <2>5
  <2>10. ASSUME NEW n \in 1 .. (m + 1) PROVE g[n] = g[n - 1] + EdgeCost(t[n], t[n + 1])
    <3>1. CASE n = m + 1
      BY <2>3, <2>9, <3>1
    <3>2. CASE n # m + 1
      <4>1. n \in 1..m /\ n \in 0..m /\ n - 1 \in 0..m
        BY <3>2
      <4>2. QED BY <2>5, <2>9, <4>1
    <3>3. QED BY <3>1, <3>2
  <2>11. UpTo(m + 1, g)
    BY <2>8, <2>9, <2>10
  <2> HIDE DEF UpTo
  <2>12. QED BY <2>11
<1> HIDE DEF S
<1>5. Nat \subseteq S
  BY <1>3, <1>4, NatInductive
<1>6. h \in S
  BY <1>5
<1>7. \E f : UpTo(h, f)
  <2> HIDE DEF UpTo
  <2>1. QED BY <1>6 DEF S
<1>8. QED BY <1>1, <1>7 DEF Costs

LEMMA CostIs ==
  ASSUME SearchOK, NEW t, Trail(t), NEW f, Costs(t, f)
  PROVE  Cost(t) = f[Hops(t)]
<1>1. PICK h \in Nat : h = Hops(t)
  BY TrailHops
<1> DEFINE Is(g) == g = [n \in 0..h |-> IF n = 0 THEN 0 ELSE g[n - 1] + EdgeCost(t[n], t[n + 1])]
<1>2. Is(f)
  <2>1. f = [n \in 0..h |-> f[n]]
    BY <1>1 DEF Costs
  <2>2. ASSUME NEW n \in 0..h
        PROVE  f[n] = IF n = 0 THEN 0 ELSE f[n - 1] + EdgeCost(t[n], t[n + 1])
    BY <1>1 DEF Costs
  <2>3. QED BY <2>1, <2>2
<1>3. PICK u : u = CHOOSE g : Is(g)
  OBVIOUS
<1>4. Is(u)
  <2> HIDE DEF Is
  <2>1. QED BY <1>2, <1>3
<1>5. Cost(t) = u[h]
  BY <1>1, <1>3 DEF Cost
<1> DEFINE S == {n \in Nat : n <= h => u[n] = f[n]}
<1>6. u[0] = 0 /\ f[0] = 0
  BY <1>2, <1>4
<1>7. 0 \in S
  BY <1>6
<1>8. ASSUME NEW n \in Nat, n \in S PROVE n + 1 \in S
  <2>1. CASE n + 1 <= h
    <3>1. n + 1 \in 0..h /\ n + 1 # 0 /\ (n + 1) - 1 = n /\ u[n] = f[n]
      BY <1>8, <2>1
    <3>2. u[n + 1] = u[n] + EdgeCost(t[n + 1], t[(n + 1) + 1])
      BY <1>4, <3>1
    <3>3. f[n + 1] = f[n] + EdgeCost(t[n + 1], t[(n + 1) + 1])
      BY <1>2, <3>1
    <3>4. QED BY <3>1, <3>2, <3>3
  <2>2. CASE ~(n + 1 <= h)
    BY <2>2
  <2>3. QED BY <2>1, <2>2
<1> HIDE DEF S
<1>9. Nat \subseteq S
  BY <1>7, <1>8, NatInductive
<1>10. u[h] = f[h]
  BY <1>9 DEF S
<1>11. QED BY <1>1, <1>5, <1>10

LEMMA CostOfStart ==
  ASSUME SearchOK, NEW t, Trail(t), NEW f, Costs(t, f), NEW m \in 1 .. Len(t)
  PROVE  Cost(Start(t, m)) = f[m - 1] /\ Cost(Start(t, m)) \in Nat
<1>1. PICK s : s = Start(t, m)
  OBVIOUS
<1>2. Trail(s) /\ Len(s) = m /\ \A i \in 1..m : s[i] = t[i]
  <2>1. Trail(s) /\ Len(s) = m
    BY <1>1, TrailStart
  <2>2. \A i \in 1..m : s[i] = t[i]
    BY <1>1 DEF Start
  <2>3. QED BY <2>1, <2>2
<1>3. PICK h \in Nat : h = Hops(t) /\ Len(t) = h + 1
  BY TrailHops
<1>4. Hops(s) = m - 1 /\ m - 1 \in 0..h
  BY <1>2, <1>3 DEF Hops
<1>5. PICK g : g = [n \in 0 .. (m - 1) |-> f[n]]
  OBVIOUS
<1>6. /\ f \in [0..h -> Nat] /\ f[0] = 0
      /\ \A n \in 1..h : f[n] = f[n - 1] + EdgeCost(t[n], t[n + 1])
  BY <1>3 DEF Costs
<1>7. g \in [0 .. (m - 1) -> Nat] /\ g[0] = 0
  BY <1>4, <1>5, <1>6
<1>8. ASSUME NEW n \in 1 .. (m - 1) PROVE g[n] = g[n - 1] + EdgeCost(s[n], s[n + 1])
  <2>1. n \in 1..h /\ n \in 0 .. (m - 1) /\ n - 1 \in 0 .. (m - 1) /\ n \in 1..m /\ n + 1 \in 1..m
    BY <1>4
  <2>2. QED BY <1>2, <1>5, <1>6, <2>1
<1>9. Costs(s, g)
  BY <1>4, <1>7, <1>8 DEF Costs
<1>10. Cost(s) = g[m - 1]
  BY <1>2, <1>4, <1>9, CostIs
<1>11. QED BY <1>1, <1>4, <1>5, <1>6, <1>10

LEMMA CostOfAppend ==
  ASSUME SearchOK, NEW t, Trail(t), Last(t) # search.dst,
         NEW v \in Successors(Last(t)) \ Range(Tail(t))
  PROVE  /\ Cost(t) \in Nat /\ Cost(Append(t, v)) = Cost(t) + EdgeCost(Last(t), v)
         /\ Cost(Append(t, v)) \in Nat /\ Cost(Append(t, v)) > Cost(t)
<1>1. PICK s : s = Append(t, v)
  OBVIOUS
<1>2. PICK n : n = Len(t)
  OBVIOUS
<1>3. /\ t \in Seq(Vertices) /\ n \in Nat /\ n > 0 /\ v \in Vertices
      /\ Hops(t) = n - 1 /\ Last(t) = t[n]
  BY <1>2 DEF Trail, Hops, Last, Successors
<1>4. Trail(s) /\ Len(s) = n + 1 /\ Start(s, n) = t
  BY <1>1, <1>2, TrailExtends
<1>5. s[n] = t[n] /\ s[n + 1] = v
  BY <1>1, <1>2, <1>3
<1>6. PICK f : Costs(s, f)
  BY <1>4, CostsExist
<1>7. Hops(s) = n
  BY <1>3, <1>4 DEF Hops
<1>8. f \in [0..n -> Nat] /\ f[n] = f[n - 1] + EdgeCost(t[n], v)
  BY <1>3, <1>5, <1>6, <1>7 DEF Costs
<1>9. Cost(s) = f[n]
  BY <1>4, <1>6, <1>7, CostIs
<1>10. Cost(t) = f[n - 1]
  BY <1>3, <1>4, <1>6, CostOfStart
<1>11. t[n] \in Vertices
  BY <1>2, <1>3
<1>12. EdgeCost(t[n], v) \in Nat /\ EdgeCost(t[n], v) >= 1112
  BY <1>3, <1>11, EdgeCosts
<1>13. f[n] \in Nat /\ f[n - 1] \in Nat
  BY <1>3, <1>8
<1>14. QED BY <1>1, <1>3, <1>8, <1>9, <1>10, <1>12, <1>13

(* A function that no step lowers.                                         *)
LEMMA Rising ==
  ASSUME NEW h \in Nat, NEW g, \A i \in 0..h : g[i] \in Int, \A i \in 1..h : g[i - 1] <= g[i],
         NEW i \in 0..h, NEW j \in 0..h, i <= j
  PROVE  g[i] <= g[j]
<1> DEFINE S == {n \in Nat : i + n <= h => g[i] <= g[i + n]}
<1>1. 0 \in S
  OBVIOUS
<1>2. ASSUME NEW n \in Nat, n \in S PROVE n + 1 \in S
  <2>1. CASE i + (n + 1) <= h
    <3>1. i + n \in 0..h /\ i + (n + 1) \in 1..h /\ i + (n + 1) \in 0..h /\ (i + (n + 1)) - 1 = i + n
      BY <2>1
    <3>2. g[i] <= g[i + n]
      BY <1>2, <3>1
    <3>3. g[i + n] <= g[i + (n + 1)]
      BY <3>1
    <3>4. g[i] \in Int /\ g[i + n] \in Int /\ g[i + (n + 1)] \in Int
      BY <3>1
    <3>5. QED BY <3>2, <3>3, <3>4
  <2>2. CASE ~(i + (n + 1) <= h)
    BY <2>2
  <2>3. QED BY <2>1, <2>2
<1> HIDE DEF S
<1>3. j - i \in S
  BY <1>1, <1>2, NatInductive
<1>4. QED BY <1>3 DEF S

(* A longer beginning of a path costs more: between 1112 and 20005 a hop.  *)
LEMMA CostsRise ==
  ASSUME SearchOK, NEW t, Trail(t), NEW f, Costs(t, f),
         NEW i \in 0 .. Hops(t), NEW j \in 0 .. Hops(t), i <= j
  PROVE  /\ f[i] \in Nat /\ f[j] \in Nat
         /\ f[i] + (1112 * (j - i)) <= f[j] /\ f[j] <= f[i] + (20005 * (j - i))
<1>1. PICK h \in Nat : h = Hops(t)
  BY TrailHops
<1>2. /\ f \in [0..h -> Nat]
      /\ \A n \in 1..h : f[n] = f[n - 1] + EdgeCost(t[n], t[n + 1])
  BY <1>1 DEF Costs
<1>3. ASSUME NEW n \in 1..h PROVE f[n - 1] + 1112 <= f[n] /\ f[n] <= f[n - 1] + 20005
  <2>1. t[n] \in Vertices /\ t[n + 1] \in Successors(t[n]) /\ t[n + 1] \in Vertices
    BY <1>1 DEF Trail, Hops, Successors
  <2>2. EdgeCost(t[n], t[n + 1]) \in {1112, 15628, 20005}
    BY <2>1, EdgeTable
  <2>3. f[n - 1] \in Nat
    BY <1>2
  <2>4. QED BY <1>2, <2>2, <2>3
<1> DEFINE above == [n \in 0..h |-> f[n] - (1112 * n)]
           below == [n \in 0..h |-> (20005 * n) - f[n]]
<1>4. PICK low, high : low = above /\ high = below
  <2> HIDE DEF above, below
  <2>1. QED OBVIOUS
<1>5. \A n \in 0..h : low[n] = f[n] - (1112 * n) /\ high[n] = (20005 * n) - f[n]
  BY <1>4
<1>6. \A n \in 0..h : f[n] \in Nat /\ low[n] = f[n] - (1112 * n) /\ high[n] = (20005 * n) - f[n]
  BY <1>2, <1>5
<1> HIDE DEF above, below
<1>7. \A n \in 0..h : low[n] \in Int /\ high[n] \in Int
  BY <1>6
<1>8. ASSUME NEW n \in 1..h PROVE low[n - 1] <= low[n] /\ high[n - 1] <= high[n]
  <2>1. n \in 0..h /\ n - 1 \in 0..h
    OBVIOUS
  <2>2. QED BY <1>3, <1>6, <2>1
<1>9. i \in 0..h /\ j \in 0..h
  BY <1>1
<1>10. low[i] <= low[j]
  BY <1>7, <1>8, <1>9, Rising
<1>11. high[i] <= high[j]
  BY <1>7, <1>8, <1>9, Rising
<1>12. QED BY <1>6, <1>9, <1>10, <1>11

(* The cost of a path is that of its beginning and of what follows.        *)
LEMMA StartIsCheaper ==
  ASSUME SearchOK, NEW t, Trail(t), NEW m \in 1 .. Len(t)
  PROVE  /\ Cost(t) \in Nat /\ Cost(Start(t, m)) \in Nat /\ Cost(Start(t, m)) <= Cost(t)
<1>1. PICK f : Costs(t, f)
  BY CostsExist
<1>2. PICK h \in Nat : h = Hops(t) /\ Len(t) = h + 1
  BY TrailHops
<1>3. Cost(Start(t, m)) = f[m - 1] /\ Cost(t) = f[h]
  BY <1>1, <1>2, CostOfStart, CostIs
<1>4. m - 1 \in 0..h /\ h \in 0..h /\ m - 1 <= h
  BY <1>2
<1>5. f[m - 1] \in Nat /\ f[h] \in Nat /\ f[m - 1] + (1112 * (h - (m - 1))) <= f[h]
  BY <1>1, <1>2, <1>4, CostsRise
<1>6. QED BY <1>3, <1>4, <1>5

(* The reference walks are the paths that end where they meet dst.         *)
TrailsOf(n) == {t \in Seq(Vertices) : Trail(t) /\ Hops(t) = n}

Extended(S) ==
  UNION { {Append(w, v) : v \in Successors(Last(w)) \ Range(Tail(w))}
          : w \in {w \in S : Last(w) # search.dst} }

LEMMA FirstTrail ==
  ASSUME SearchOK
  PROVE  Trail(<<search.src>>) /\ Hops(<<search.src>>) = 0 /\ TrailsOf(0) = {<<search.src>>}
<1>1. PICK t : t = <<search.src>>
  OBVIOUS
<1>2. t \in Seq(Vertices) /\ Len(t) = 1 /\ t[1] = search.src
  BY <1>1 DEF SearchOK
<1>3. Trail(t) /\ Hops(t) = 0
  BY <1>2 DEF Trail, Hops
<1>4. ASSUME NEW s \in TrailsOf(0) PROVE s = t
  <2>1. s \in Seq(Vertices) /\ Len(s) = 1 /\ s[1] = search.src
    BY DEF TrailsOf, Trail, Hops
  <2>2. QED BY <1>2, <2>1
<1>5. t \in TrailsOf(0)
  BY <1>2, <1>3 DEF TrailsOf
<1>6. QED BY <1>1, <1>3, <1>4, <1>5

LEMMA TrailsGrow ==
  ASSUME SearchOK, NEW n \in Nat
  PROVE  TrailsOf(n + 1) = Extended(TrailsOf(n))
<1>1. ASSUME NEW t \in TrailsOf(n + 1) PROVE t \in Extended(TrailsOf(n))
  <2>1. Trail(t) /\ t \in Seq(Vertices) /\ Len(t) = n + 2
    BY DEF TrailsOf, Hops
  <2>2. PICK w : w = Start(t, n + 1)
    OBVIOUS
  <2>3. PICK v : v = t[n + 2]
    OBVIOUS
  <2>4. n + 1 \in 1 .. Len(t) /\ n + 1 < Len(t) /\ (n + 1) + 1 = n + 2
    BY <2>1
  <2>5. Trail(w) /\ Len(w) = n + 1 /\ Last(w) = t[n + 1] /\ t[n + 1] # search.dst
    BY <2>1, <2>2, <2>4, TrailStart
  <2>6. v \in Successors(Last(w)) \ Range(Tail(w)) /\ Start(t, n + 2) = Append(w, v)
    BY <2>1, <2>2, <2>3, <2>4, <2>5, TrailStart
  <2>7. Start(t, n + 2) = t
    BY <2>1, <2>4, TrailStart
  <2>8. w \in TrailsOf(n)
    <3>1. w \in Seq(Vertices) /\ Hops(w) = n
      BY <2>5, TrailHops DEF Hops
    <3>2. QED BY <2>5, <3>1 DEF TrailsOf
  <2>9. w \in {x \in TrailsOf(n) : Last(x) # search.dst}
    BY <2>5, <2>8
  <2>10. t \in {Append(w, x) : x \in Successors(Last(w)) \ Range(Tail(w))}
    BY <2>6, <2>7
  <2>11. QED BY <2>9, <2>10 DEF Extended
<1>2. ASSUME NEW w \in TrailsOf(n), Last(w) # search.dst,
             NEW v \in Successors(Last(w)) \ Range(Tail(w))
      PROVE  Append(w, v) \in TrailsOf(n + 1)
  <2>1. Trail(w) /\ Len(w) = n + 1
    BY DEF TrailsOf, Hops
  <2>2. PICK t : t = Append(w, v)
    OBVIOUS
  <2>3. Trail(t) /\ Len(t) = n + 2
    BY <1>2, <2>1, <2>2, TrailExtends
  <2>4. t \in Seq(Vertices) /\ Hops(t) = n + 1
    BY <2>3, TrailHops DEF Hops
  <2>5. QED BY <2>2, <2>3, <2>4 DEF TrailsOf
<1>3. QED
  <2>1. ASSUME NEW t \in Extended(TrailsOf(n)) PROVE t \in TrailsOf(n + 1)
    <3>1. PICK w \in TrailsOf(n) :
            Last(w) # search.dst /\ t \in {Append(w, v) : v \in Successors(Last(w)) \ Range(Tail(w))}
      BY DEF Extended
    <3>2. PICK v \in Successors(Last(w)) \ Range(Tail(w)) : t = Append(w, v)
      BY <3>1
    <3>3. QED BY <1>2, <3>1, <3>2
  <2>2. QED BY <1>1, <2>1

LEMMA WalksOfAre ==
  ASSUME SearchOK
  PROVE  \A n \in Nat : WalksOf[n] = TrailsOf(n)
<1> DEFINE Is(g) == g = [n \in Nat |-> IF n = 0 THEN {<<search.src>>} ELSE Extended(g[n - 1])]
<1>1. PICK f : f = [n \in Nat |-> TrailsOf(n)]
  OBVIOUS
<1>2. Is(f)
  <2>1. ASSUME NEW n \in Nat
        PROVE  f[n] = IF n = 0 THEN {<<search.src>>} ELSE Extended(f[n - 1])
    <3>1. CASE n = 0
      BY <1>1, <3>1, FirstTrail
    <3>2. CASE n # 0
      <4>1. n - 1 \in Nat /\ (n - 1) + 1 = n
        BY <3>2
      <4>2. TrailsOf(n) = Extended(TrailsOf(n - 1))
        BY <4>1, TrailsGrow
      <4>3. f[n] = TrailsOf(n) /\ f[n - 1] = TrailsOf(n - 1)
        BY <1>1, <4>1
      <4>4. QED BY <3>2, <4>2, <4>3
    <3>3. QED BY <3>1, <3>2
  <2>2. f = [n \in Nat |-> f[n]]
    BY <1>1
  <2>3. QED BY <2>1, <2>2
<1>3. WalksOf = CHOOSE g : Is(g)
  BY DEF WalksOf, Extended
<1>4. Is(WalksOf)
  <2> HIDE DEF Is
  <2>1. QED BY <1>2, <1>3
<1> DEFINE S == {n \in Nat : WalksOf[n] = f[n]}
<1>5. 0 \in S
  BY <1>2, <1>4
<1>6. ASSUME NEW n \in Nat, n \in S PROVE n + 1 \in S
  <2>1. n + 1 \in Nat /\ n + 1 # 0 /\ (n + 1) - 1 = n
    OBVIOUS
  <2>2. WalksOf[n + 1] = Extended(WalksOf[n])
    BY <1>4, <2>1
  <2>3. f[n + 1] = Extended(f[n])
    BY <1>2, <2>1
  <2>4. QED BY <1>6, <2>1, <2>2, <2>3
<1> HIDE DEF S
<1>7. Nat \subseteq S
  BY <1>5, <1>6, NatInductive
<1>8. QED BY <1>1, <1>7 DEF S

LEMMA WalksAre ==
  ASSUME SearchOK, NEW w
  PROVE  w \in Walks <=> Trail(w) /\ Hops(w) <= search.max_hops /\ Last(w) = search.dst
<1>1. search.max_hops \in Nat
  BY DEF SearchOK
<1>2. w \in Walks <=> Last(w) = search.dst /\ \E n \in 0 .. search.max_hops : w \in WalksOf[n]
  BY DEF Walks
<1>3. \A n \in 0 .. search.max_hops : WalksOf[n] = TrailsOf(n)
  BY <1>1, WalksOfAre
<1>4. ASSUME Trail(w), Hops(w) <= search.max_hops
      PROVE  \E n \in 0 .. search.max_hops : w \in TrailsOf(n)
  <2>1. PICK n : n = Hops(w)
    OBVIOUS
  <2>2. n \in 0 .. search.max_hops /\ w \in Seq(Vertices)
    BY <1>1, <1>4, <2>1, TrailHops
  <2>3. w \in TrailsOf(n)
    BY <1>4, <2>1, <2>2 DEF TrailsOf
  <2>4. QED BY <2>2, <2>3
<1>5. ASSUME NEW n \in 0 .. search.max_hops, w \in TrailsOf(n)
      PROVE  Trail(w) /\ Hops(w) <= search.max_hops
  BY <1>1, <1>5 DEF TrailsOf
<1>6. QED BY <1>2, <1>3, <1>4, <1>5

-----------------------------------------------------------------------------
(* There are finitely many of them *)

LEMMA ImageFinite ==
  ASSUME NEW S, IsFiniteSet(S), NEW f, DOMAIN f = S, f = [x \in S |-> f[x]]
  PROVE  LET T == {f[x] : x \in S}
         IN  /\ IsFiniteSet(T) /\ Cardinality(T) <= Cardinality(S)
             /\ (\A x, y \in S : f[x] = f[y] => x = y) => Cardinality(T) = Cardinality(S)
<1> DEFINE T == {f[x] : x \in S}
<1>1. f \in [S -> T]
  OBVIOUS
<1>2. \A y \in T : \E x \in S : f[x] = y
  OBVIOUS
<1> HIDE DEF T
<1>3. f \in Surjection(S, T)
  BY <1>1, <1>2 DEF Surjection
<1>4. (\A x, y \in S : f[x] = f[y] => x = y) => f \in Injection(S, T)
  BY <1>1 DEF Injection, IsInjective
<1>5. /\ IsFiniteSet(T) /\ Cardinality(T) <= Cardinality(S)
      /\ Cardinality(T) = Cardinality(S) <=> f \in Injection(S, T)
  BY <1>3, FS_Surjection
<1>6. QED BY <1>4, <1>5 DEF T

LEMMA VerticesFinite ==
  ASSUME SearchOK
  PROVE  IsFiniteSet(Vertices)
<1>1. PICK A, B, C : /\ A = 0 .. (search.nodes - 1)
                     /\ B = {"gpu", "cpu", "cxl", "ib"}
                     /\ C = (0 .. (search.gpus - 1)) \cup {0, 1}
  OBVIOUS
<1>2. IsFiniteSet(A) /\ IsFiniteSet(0 .. (search.gpus - 1))
  <2>1. search.nodes - 1 \in Int /\ search.gpus - 1 \in Int /\ 0 \in Int
    BY DEF SearchOK
  <2>2. QED BY <1>1, <2>1, FS_Interval
<1>3. IsFiniteSet({0, 1}) /\ IsFiniteSet(B)
  <2>1. \A x, y : {x, y} = {x} \cup {y}
    OBVIOUS
  <2>2. \A x, y : IsFiniteSet({x, y})
    <3>1. SUFFICES ASSUME NEW x, NEW y PROVE IsFiniteSet({x, y})
      OBVIOUS
    <3>2. IsFiniteSet({x}) /\ IsFiniteSet({y})
      BY FS_Singleton
    <3>3. IsFiniteSet({x} \cup {y})
      BY <3>2, FS_Union
    <3>4. QED BY <2>1, <3>3
  <2>3. B = {"gpu", "cpu"} \cup {"cxl", "ib"}
    BY <1>1
  <2>4. QED BY <2>2, <2>3, FS_Union
<1>4. IsFiniteSet(C)
  BY <1>1, <1>2, <1>3, FS_Union
<1>5. PICK P : P = A \X (B \X C)
  OBVIOUS
<1>6. IsFiniteSet(P)
  <2>1. IsFiniteSet(B \X C)
    BY <1>3, <1>4, FS_Product
  <2>2. QED BY <1>2, <1>5, <2>1, FS_Product
<1>7. PICK f : f = [p \in P |-> [node |-> p[1], kind |-> p[2][1], id |-> p[2][2]]]
  OBVIOUS
<1>8. IsFiniteSet({f[p] : p \in P})
  <2>1. DOMAIN f = P /\ f = [p \in P |-> f[p]]
    BY <1>7
  <2>2. QED BY <1>6, <2>1, ImageFinite
<1>9. ASSUME NEW v \in Vertices PROVE v \in {f[p] : p \in P}
  <2>1. /\ v = [node |-> v.node, kind |-> v.kind, id |-> v.id]
        /\ v.node \in A /\ v.kind \in B /\ v.id \in C
    BY <1>1, VertexKinds DEF IsVertex
  <2>2. PICK p : p = <<v.node, <<v.kind, v.id>>>>
    OBVIOUS
  <2>3. p \in P /\ f[p] = v
    BY <1>5, <1>7, <2>1, <2>2
  <2>4. QED BY <2>3
<1>10. Vertices \in SUBSET {f[p] : p \in P}
  BY <1>9
<1>11. QED BY <1>8, <1>10, FS_Subset

LEMMA ExtendedFinite ==
  ASSUME SearchOK, NEW S, IsFiniteSet(S)
  PROVE  IsFiniteSet(Extended(S))
<1> DEFINE next(w) == {Append(w, v) : v \in Successors(Last(w)) \ Range(Tail(w))}
           U == {w \in S : Last(w) # search.dst}
<1>1. ASSUME NEW w \in U PROVE IsFiniteSet(next(w))
  <2>1. PICK D : D = Successors(Last(w)) \ Range(Tail(w))
    OBVIOUS
  <2>2. D \in SUBSET Vertices
    BY <2>1 DEF Successors
  <2>3. IsFiniteSet(D)
    BY <2>2, VerticesFinite, FS_Subset
  <2>4. PICK f : f = [v \in D |-> Append(w, v)]
    OBVIOUS
  <2>5. DOMAIN f = D /\ f = [v \in D |-> f[v]]
    BY <2>4
  <2>6. IsFiniteSet({f[v] : v \in D})
    BY <2>3, <2>5, ImageFinite
  <2>7. {f[v] : v \in D} = next(w)
    BY <2>1, <2>4
  <2>8. QED BY <2>6, <2>7
<1>2. U \in SUBSET S
  OBVIOUS
<1>3. IsFiniteSet(U)
  <2> HIDE DEF U
  <2>1. QED BY <1>2, FS_Subset
<1>4. IsFiniteSet({next(w) : w \in U})
  <2>1. PICK f : f = [w \in U |-> next(w)]
    OBVIOUS
  <2>2. DOMAIN f = U /\ f = [w \in U |-> f[w]]
    BY <2>1
  <2>3. {f[w] : w \in U} = {next(w) : w \in U}
    BY <2>1
  <2> HIDE DEF U, next
  <2>4. IsFiniteSet({f[w] : w \in U})
    BY <1>3, <2>2, ImageFinite
  <2>5. QED BY <2>3, <2>4
<1>5. Extended(S) = UNION {next(w) : w \in U}
  BY DEF Extended
<1> HIDE DEF next, U
<1>6. \A T \in {next(w) : w \in U} : IsFiniteSet(T)
  BY <1>1
<1>7. QED BY <1>4, <1>5, <1>6, FS_UNION

LEMMA WalksFinite ==
  ASSUME SearchOK
  PROVE  IsFiniteSet(Walks)
<1> DEFINE S == {n \in Nat : IsFiniteSet(TrailsOf(n))}
<1>1. 0 \in S
  BY FirstTrail, FS_Singleton
<1>2. ASSUME NEW n \in Nat, n \in S PROVE n + 1 \in S
  BY <1>2, TrailsGrow, ExtendedFinite
<1> HIDE DEF S
<1>3. Nat \subseteq S
  BY <1>1, <1>2, NatInductive
<1>4. PICK I : I = 0 .. search.max_hops
  OBVIOUS
<1>5. IsFiniteSet(I) /\ I \subseteq Nat
  <2>1. 0 \in Int /\ search.max_hops \in Int
    BY DEF SearchOK
  <2>2. QED BY <1>4, <2>1, FS_Interval
<1>6. PICK f : f = [n \in I |-> WalksOf[n]]
  OBVIOUS
<1>7. IsFiniteSet({f[n] : n \in I})
  <2>1. DOMAIN f = I /\ f = [n \in I |-> f[n]]
    BY <1>6
  <2>2. QED BY <1>5, <2>1, ImageFinite
<1>8. \A T \in {f[n] : n \in I} : IsFiniteSet(T)
  <2>1. ASSUME NEW n \in I PROVE IsFiniteSet(f[n])
    <3>1. f[n] = TrailsOf(n)
      BY <1>5, <1>6, WalksOfAre
    <3>2. QED BY <1>3, <1>5, <3>1 DEF S
  <2>2. QED BY <2>1
<1>9. IsFiniteSet(UNION {f[n] : n \in I})
  BY <1>7, <1>8, FS_UNION
<1>10. Walks \in SUBSET UNION {f[n] : n \in I}
  <2>1. {WalksOf[n] : n \in I} = {f[n] : n \in I}
    BY <1>6
  <2>2. QED BY <1>4, <2>1 DEF Walks
<1>11. QED BY <1>9, <1>10, FS_Subset

LEMMA MinOfTwo ==
  ASSUME NEW a \in Nat, NEW b \in Nat
  PROVE  Min({a, b}) = IF a <= b THEN a ELSE b
<1>1. PICK m : m = IF a <= b THEN a ELSE b
  OBVIOUS
<1>2. m \in {a, b} /\ \A y \in {a, b} : m <= y
  BY <1>1
<1>3. \A x \in {a, b} : (\A y \in {a, b} : x <= y) => x = m
  BY <1>1
<1>4. QED BY <1>1, <1>2, <1>3, Zenon DEF Min

LEMMA SequenceOfSet ==
  ASSUME NEW S, IsFiniteSet(S)
  PROVE  LET q == SetToSeq(S)
         IN q \in Seq(S) /\ Len(q) = Cardinality(S) /\ IsInjective(q) /\ Range(q) = S
<1>1. PICK n : n = Cardinality(S)
  OBVIOUS
<1>2. n \in Nat /\ ExistsBijection(1..n, S)
  BY <1>1, FS_CardinalityType
<1>3. PICK f : f \in Bijection(1..n, S)
  BY <1>2 DEF ExistsBijection
<1>4. f \in [1..n -> S] /\ IsInjective(f)
  BY <1>3 DEF Bijection, Injection
<1>5. PICK q : q = SetToSeq(S)
  OBVIOUS
<1>6. q \in [1..n -> S] /\ IsInjective(q)
  BY <1>1, <1>4, <1>5 DEF SetToSeq
<1>7. q \in Seq(S) /\ Len(q) = n
  BY <1>2, <1>6
<1>8. IsFiniteSet(1..n) /\ Cardinality(1..n) = n
  <2>1. 1 \in Int /\ n \in Int
    BY <1>2
  <2>2. QED BY <1>2, <2>1, FS_Interval
<1>9. q \in Injection(1..n, S)
  BY <1>6 DEF Injection
<1>10. q \in Surjection(1..n, S)
  BY <1>1, <1>8, <1>9, FS_Injection
<1>11. Range(q) = S
  BY <1>6, <1>10 DEF Surjection, Range
<1>12. QED BY <1>1, <1>5, <1>6, <1>7, <1>11

-----------------------------------------------------------------------------
(* What the search keeps true *)

Entry(t) == [path |-> t, cost |-> Cost(t)]

QueueOK(q) ==
  /\ IsFiniteSet(q)
  /\ \A s \in q : Trail(s.path) /\ Hops(s.path) <= search.max_hops /\ s = Entry(s.path)

FoundOK(q, r) ==
  /\ r \in Seq(Walks) /\ IsInjective(r) /\ Len(r) <= search.k
  /\ \A i, j \in 1 .. Len(r) : i <= j => Cost(r[i]) <= Cost(r[j])
  /\ \A i \in 1 .. Len(r), s \in q : Cost(r[i]) < s.cost

(* A walk that is not found yet is still begun in the queue, or it is not  *)
(* wanted any more.                                                        *)
NoneMissed(q, r) ==
  \A w \in Walks : \/ w \in Range(r)
                   \/ \E m \in 1 .. Len(w) : Entry(Start(w, m)) \in q
                   \/ /\ Len(r) = search.k
                      /\ \A i \in 1 .. Len(r) : Cost(r[i]) <= Cost(w)

SearchInv == SearchOK /\ QueueOK(queue) /\ FoundOK(queue, result) /\ NoneMissed(queue, result)

LEMMA WalkIs ==
  ASSUME SearchOK, NEW w \in Walks
  PROVE  /\ Trail(w) /\ w \in Seq(Vertices) /\ Hops(w) \in Nat /\ Len(w) = Hops(w) + 1
         /\ Hops(w) <= search.max_hops /\ Last(w) = search.dst /\ Cost(w) \in Nat
<1>1. Trail(w) /\ Hops(w) <= search.max_hops /\ Last(w) = search.dst
  BY WalksAre
<1>2. w \in Seq(Vertices) /\ Hops(w) \in Nat /\ Len(w) = Hops(w) + 1
  BY <1>1, TrailHops
<1>3. 1 \in 1 .. Len(w)
  BY <1>2
<1>4. QED BY <1>1, <1>2, <1>3, StartIsCheaper

LEMMA InitSearch == SearchInit => SearchInv
<1> SUFFICES ASSUME SearchInit PROVE SearchInv
  OBVIOUS
<1>1. SearchOK
  BY SearchAssumption DEF SearchInit, SearchOK, Vertices
<1>2. PICK t : t = <<search.src>>
  OBVIOUS
<1>3. Trail(t) /\ Hops(t) = 0
  BY <1>1, <1>2, FirstTrail
<1>4. Cost(t) = 0
  <2>1. PICK f : Costs(t, f)
    BY <1>1, <1>3, CostsExist
  <2>2. f[0] = 0
    BY <2>1 DEF Costs
  <2>3. QED BY <1>1, <1>3, <2>1, <2>2, CostIs
<1>5. queue = {Entry(t)}
  BY <1>2, <1>4 DEF SearchInit, Entry
<1>6. QueueOK(queue)
  <2>1. IsFiniteSet(queue)
    BY <1>5, FS_Singleton
  <2>2. Entry(t).path = t /\ Hops(t) <= search.max_hops
    BY <1>1, <1>3 DEF Entry, SearchOK
  <2>3. QED BY <1>3, <1>5, <2>1, <2>2 DEF QueueOK
<1>7. FoundOK(queue, result)
  <2>1. result = <<>> /\ result \in Seq(Walks) /\ Len(result) = 0 /\ DOMAIN result = {}
    BY DEF SearchInit
  <2>2. QED BY <1>1, <2>1 DEF FoundOK, IsInjective, SearchOK
<1>8. ASSUME NEW w \in Walks PROVE 1 \in 1 .. Len(w) /\ Entry(Start(w, 1)) \in queue
  <2>1. Trail(w) /\ Len(w) > 0 /\ 1 \in 1 .. Len(w)
    BY <1>1, WalkIs
  <2>2. PICK s : s = Start(w, 1)
    OBVIOUS
  <2>3. Trail(s) /\ Len(s) = 1
    <3>1. ASSUME NEW m \in 1 .. Len(w) PROVE Trail(Start(w, m)) /\ Len(Start(w, m)) = m
      BY <1>1, <2>1, TrailStart
    <3>2. QED BY <2>1, <2>2, <3>1
  <2>4. s \in Seq(Vertices) /\ s[1] = search.src
    BY <2>3 DEF Trail
  <2>5. s = t
    BY <1>2, <2>3, <2>4
  <2>6. QED BY <1>5, <2>1, <2>2, <2>5
<1>9. NoneMissed(queue, result)
  BY <1>8 DEF NoneMissed
<1>10. QED BY <1>1, <1>6, <1>7, <1>9 DEF SearchInv

(* The cheapest entries all cost the same.                                 *)
LEMMA CheapestCost ==
  ASSUME QueueOK(queue), SearchOK, queue # {}
  PROVE  \E c \in Nat : /\ Cheapest # {} /\ \A s \in Cheapest : s \in queue /\ s.cost = c
                        /\ \A s \in queue \ Cheapest : c < s.cost
<1>1. ASSUME NEW s \in queue PROVE s.cost \in Nat
  <2>1. Trail(s.path) /\ s.cost = Cost(s.path)
    BY DEF QueueOK, Entry
  <2>2. 1 \in 1 .. Len(s.path)
    BY <2>1, TrailHops
  <2>3. QED BY <2>1, <2>2, StartIsCheaper
<1>2. PICK C : C = {s.cost : s \in queue}
  OBVIOUS
<1>3. C \subseteq Nat /\ C # {}
  BY <1>1, <1>2
<1>4. PICK c \in C : \A d \in C : c <= d
  BY <1>3, NatLeast
<1>5. c \in Nat /\ \A s \in queue : c <= s.cost
  BY <1>2, <1>3, <1>4
<1>6. PICK least \in queue : least.cost = c
  BY <1>2
<1>7. \A s \in queue : s \in Cheapest <=> s.cost = c
  BY <1>1, <1>5, <1>6 DEF Cheapest
<1>8. least \in Cheapest /\ \A s \in Cheapest : s \in queue
  BY <1>6, <1>7 DEF Cheapest
<1>9. QED BY <1>1, <1>5, <1>7, <1>8

(* The extensions of an entry: partial paths that cost more.               *)
LEMMA ExtensionsOK ==
  ASSUME SearchOK, NEW s, Trail(s.path), Hops(s.path) <= search.max_hops, s = Entry(s.path),
         Last(s.path) # search.dst
  PROVE  /\ IsFiniteSet(Extensions(s))
         /\ \A e \in Extensions(s) : /\ Trail(e.path) /\ Hops(e.path) <= search.max_hops
                                     /\ e = Entry(e.path) /\ s.cost \in Nat /\ s.cost < e.cost
<1>1. PICK t : t = s.path
  OBVIOUS
<1>2. Trail(t) /\ s.cost = Cost(t) /\ Last(t) # search.dst /\ Hops(t) <= search.max_hops
  BY <1>1 DEF Entry
<1>3. PICK D : D = Successors(Last(t)) \ Range(Tail(t))
  OBVIOUS
<1>4. PICK f : f = [v \in D |-> [path |-> Append(t, v), cost |-> Cost(t) + EdgeCost(Last(t), v)]]
  OBVIOUS
<1>5. Extensions(s) = IF Hops(t) >= search.max_hops THEN {} ELSE {f[v] : v \in D}
  BY <1>1, <1>2, <1>3, <1>4 DEF Extensions
<1>6. IsFiniteSet(Extensions(s))
  <2>1. D \in SUBSET Vertices
    BY <1>3 DEF Successors
  <2>2. IsFiniteSet(D)
    BY <2>1, VerticesFinite, FS_Subset
  <2>3. DOMAIN f = D /\ f = [v \in D |-> f[v]]
    BY <1>4
  <2>4. IsFiniteSet({f[v] : v \in D})
    BY <2>2, <2>3, ImageFinite
  <2>5. QED BY <1>5, <2>4, FS_EmptySet
<1>7. ASSUME NEW e \in Extensions(s)
      PROVE  /\ Trail(e.path) /\ Hops(e.path) <= search.max_hops
             /\ e = Entry(e.path) /\ s.cost \in Nat /\ s.cost < e.cost
  <2>1. /\ ~(Hops(t) >= search.max_hops)
        /\ \E v \in D : e = f[v]
    BY <1>5
  <2>2. PICK v \in D : e = f[v]
    BY <2>1
  <2>3. PICK a : a = Append(t, v)
    OBVIOUS
  <2>4. e = [path |-> a, cost |-> Cost(t) + EdgeCost(Last(t), v)]
    BY <1>4, <2>2, <2>3
  <2>5. Trail(a) /\ Len(a) = Len(t) + 1
    BY <1>2, <1>3, <2>3, TrailExtends
  <2>6. Cost(t) \in Nat /\ Cost(a) = Cost(t) + EdgeCost(Last(t), v) /\ Cost(a) > Cost(t)
    BY <1>2, <1>3, <2>3, CostOfAppend
  <2>7. Hops(t) \in Nat /\ Hops(a) \in Nat /\ Hops(a) = Hops(t) + 1
    BY <1>2, <2>5, TrailHops
  <2>8. Hops(a) <= search.max_hops
    BY <2>1, <2>7 DEF SearchOK
  <2>9. QED BY <1>2, <2>4, <2>5, <2>6, <2>8 DEF Entry
<1>8. QED BY <1>6, <1>7

(* What one step does: c is what the entries that are popped cost, P are   *)
(* the paths of those that are found.                                      *)
Popped(c, P, new) ==
  LET arrived == {s \in Cheapest : Last(s.path) = search.dst}
  IN /\ c \in Nat /\ Cheapest # {}
     /\ \A s \in Cheapest : s \in queue /\ s.cost = c
     /\ \A s \in queue \ Cheapest : c < s.cost
     /\ P \subseteq {s.path : s \in arrived} /\ P \subseteq Walks /\ \A p \in P : Cost(p) = c
     /\ new \in Seq(P) /\ IsInjective(new) /\ Range(new) = P
     /\ Len(result) + Len(new) <= search.k
     /\ Len(result) + Len(new) = search.k \/ P = {s.path : s \in arrived}
     /\ result' = result \o new
     /\ queue' = (queue \ Cheapest) \cup UNION {Extensions(s) : s \in Cheapest \ arrived}

LEMMA StepPops ==
  ASSUME SearchInv, PopCheapest
  PROVE  \E c, P, new : Popped(c, P, new)
<1> DEFINE arrived == {s \in Cheapest : Last(s.path) = search.dst}
<1>1. SearchOK /\ QueueOK(queue) /\ FoundOK(queue, result)
  BY DEF SearchInv
<1>2. queue # {} /\ Len(result) < search.k /\ Len(result) \in Nat /\ search.k \in Nat
  BY <1>1 DEF PopCheapest, Searching, FoundOK, SearchOK
<1>3. PICK c \in Nat : /\ Cheapest # {} /\ \A s \in Cheapest : s \in queue /\ s.cost = c
                       /\ \A s \in queue \ Cheapest : c < s.cost
  BY <1>1, <1>2, CheapestCost
<1>4. PICK wanted : wanted = Min({search.k - Len(result), Cardinality(arrived)})
  OBVIOUS
<1>5. PICK chosen \in kSubset(wanted, arrived) :
        result' = result \o SetToSeq({s.path : s \in chosen})
  BY <1>4 DEF PopCheapest
<1>6. queue' = (queue \ Cheapest) \cup UNION {Extensions(s) : s \in Cheapest \ arrived}
  BY DEF PopCheapest
<1>7. chosen \in SUBSET arrived /\ Cardinality(chosen) = wanted
  BY <1>5 DEF kSubset
<1>8. IsFiniteSet(arrived) /\ IsFiniteSet(chosen) /\ Cardinality(arrived) \in Nat
  <2>1. arrived \in SUBSET queue
    BY DEF Cheapest
  <2> HIDE DEF arrived
  <2>2. IsFiniteSet(arrived)
    BY <1>1, <2>1, FS_Subset DEF QueueOK
  <2>3. QED BY <1>7, <2>2, FS_Subset, FS_CardinalityType
<1>9. wanted = IF search.k - Len(result) <= Cardinality(arrived)
               THEN search.k - Len(result) ELSE Cardinality(arrived)
  <2> HIDE DEF arrived
  <2>1. search.k - Len(result) \in Nat
    BY <1>2
  <2>2. QED BY <1>4, <1>8, <2>1, MinOfTwo
<1>10. PICK P : P = {s.path : s \in chosen}
  OBVIOUS
<1>11. ASSUME NEW s \in arrived
       PROVE  /\ s = Entry(s.path) /\ Trail(s.path) /\ Hops(s.path) <= search.max_hops
              /\ Last(s.path) = search.dst /\ Cost(s.path) = c
  <2>1. s \in queue /\ s.cost = c /\ Last(s.path) = search.dst
    BY <1>3
  <2>2. QED BY <1>1, <2>1 DEF QueueOK, Entry
<1>12. P \subseteq Walks /\ \A p \in P : Cost(p) = c
  <2>1. ASSUME NEW p \in P PROVE p \in Walks /\ Cost(p) = c
    <3>1. PICK s \in arrived : p = s.path
      BY <1>7, <1>10
    <3>2. Trail(p) /\ Hops(p) <= search.max_hops /\ Last(p) = search.dst /\ Cost(p) = c
      BY <1>11, <3>1
    <3>3. QED BY <1>1, <3>2, WalksAre
  <2>2. QED BY <2>1
<1>13. IsFiniteSet(P) /\ Cardinality(P) = wanted
  <2>1. PICK f : f = [s \in chosen |-> s.path]
    OBVIOUS
  <2>2. DOMAIN f = chosen /\ f = [s \in chosen |-> f[s]]
    BY <2>1
  <2>3. \A x, y \in chosen : f[x] = f[y] => x = y
    BY <1>7, <1>11, <2>1
  <2>4. {f[s] : s \in chosen} = P
    BY <1>10, <2>1
  <2>5. QED BY <1>7, <1>8, <2>2, <2>3, <2>4, ImageFinite
<1>14. PICK new : new = SetToSeq(P)
  OBVIOUS
<1>15. new \in Seq(P) /\ Len(new) = wanted /\ IsInjective(new) /\ Range(new) = P
  BY <1>13, <1>14, SequenceOfSet
<1>16. P \subseteq {s.path : s \in arrived}
  BY <1>7, <1>10
<1>17. /\ Len(result) + Len(new) <= search.k
       /\ Len(result) + Len(new) = search.k \/ P = {s.path : s \in arrived}
  <2>1. CASE search.k - Len(result) <= Cardinality(arrived)
    BY <1>2, <1>9, <1>15, <2>1
  <2>2. CASE ~(search.k - Len(result) <= Cardinality(arrived))
    <3>1. chosen = arrived
      <4> HIDE DEF arrived
      <4>1. Cardinality(chosen) = Cardinality(arrived)
        BY <1>7, <1>9, <2>2
      <4>2. QED BY <1>7, <1>8, <4>1, FS_Subset
    <3>2. Cardinality(arrived) < search.k - Len(result)
      <4> HIDE DEF arrived
      <4>1. QED BY <1>2, <1>8, <2>2
    <3> HIDE DEF arrived
    <3>3. QED BY <1>2, <1>8, <1>9, <1>10, <1>15, <2>2, <3>1, <3>2
  <2>3. QED BY <2>1, <2>2
<1>18. result' = result \o new
  BY <1>5, <1>10, <1>14
<1>19. Popped(c, P, new)
  BY <1>3, <1>6, <1>12, <1>15, <1>16, <1>17, <1>18, Zenon DEF Popped
<1>20. QED BY <1>19

LEMMA PoppedQueue ==
  ASSUME SearchOK, QueueOK(queue), NEW c, NEW P, NEW new, Popped(c, P, new)
  PROVE  QueueOK(queue') /\ \A s \in queue' : c < s.cost
<1> DEFINE arrived == {s \in Cheapest : Last(s.path) = search.dst}
           more == UNION {Extensions(s) : s \in Cheapest \ arrived}
<1>1. queue' = (queue \ Cheapest) \cup more
  BY DEF Popped
<1>2. ASSUME NEW s \in Cheapest \ arrived
      PROVE  /\ IsFiniteSet(Extensions(s))
             /\ \A e \in Extensions(s) : /\ Trail(e.path) /\ Hops(e.path) <= search.max_hops
                                         /\ e = Entry(e.path) /\ c < e.cost
  <2>1. s \in queue /\ s.cost = c /\ Last(s.path) # search.dst
    BY DEF Popped
  <2>2. Trail(s.path) /\ Hops(s.path) <= search.max_hops /\ s = Entry(s.path)
    BY <2>1 DEF QueueOK
  <2>3. QED BY <2>1, <2>2, ExtensionsOK
<1>3. IsFiniteSet(more)
  <2>1. PICK open : open = Cheapest \ arrived
    OBVIOUS
  <2>2. open \in SUBSET queue
    BY <2>1 DEF Cheapest
  <2>3. IsFiniteSet(open)
    BY <2>2, FS_Subset DEF QueueOK
  <2>4. PICK f : f = [s \in open |-> Extensions(s)]
    OBVIOUS
  <2>5. DOMAIN f = open /\ f = [s \in open |-> f[s]]
    BY <2>4
  <2>6. IsFiniteSet({f[s] : s \in open})
    BY <2>3, <2>5, ImageFinite
  <2>7. {f[s] : s \in open} = {Extensions(s) : s \in Cheapest \ arrived}
    BY <2>1, <2>4
  <2>8. \A T \in {f[s] : s \in open} : IsFiniteSet(T)
    BY <1>2, <2>1, <2>4
  <2>9. QED BY <2>6, <2>7, <2>8, FS_UNION
<1>4. ASSUME NEW e \in queue'
      PROVE  /\ Trail(e.path) /\ Hops(e.path) <= search.max_hops
             /\ e = Entry(e.path) /\ c < e.cost
  <2>1. CASE e \in queue \ Cheapest
    BY <2>1 DEF Popped, QueueOK
  <2>2. CASE e \in more
    <3>1. PICK s \in Cheapest \ arrived : e \in Extensions(s)
      BY <2>2
    <3>2. QED BY <1>2, <3>1
  <2>3. QED BY <1>1, <2>1, <2>2
<1>5. IsFiniteSet(queue')
  <2>1. (queue \ Cheapest) \in SUBSET queue
    OBVIOUS
  <2>2. IsFiniteSet(queue \ Cheapest)
    BY <2>1, FS_Subset DEF QueueOK
  <2> HIDE DEF more
  <2>3. QED BY <1>1, <1>3, <2>2, FS_Union
<1>6. QED BY <1>4, <1>5 DEF QueueOK

LEMMA PoppedFound ==
  ASSUME SearchOK, QueueOK(queue), FoundOK(queue, result),
         NEW c, NEW P, NEW new, Popped(c, P, new)
  PROVE  /\ FoundOK(queue', result')
         /\ Range(result') = Range(result) \cup P
         /\ Len(result') = Len(result) + Len(new)
         /\ \A i \in 1 .. Len(result') : Cost(result'[i]) <= c
<1>1. PICK r, n, m : r = result' /\ n = Len(result) /\ m = Len(new)
  OBVIOUS
<1>2. /\ result \in Seq(Walks) /\ n \in Nat
      /\ new \in Seq(P) /\ m \in Nat /\ P \subseteq Walks /\ new \in Seq(Walks)
      /\ r = result \o new
  <2>1. result \in Seq(Walks) /\ new \in Seq(P) /\ P \subseteq Walks /\ r = result \o new
    BY <1>1 DEF FoundOK, Popped
  <2>2. QED BY <1>1, <2>1
<1>3. /\ r \in Seq(Walks) /\ Len(r) = n + m /\ DOMAIN r = 1 .. (n + m)
      /\ \A i \in 1 .. (n + m) : r[i] = IF i <= n THEN result[i] ELSE new[i - n]
  BY <1>1, <1>2
<1>4. c \in Nat /\ \A p \in P : Cost(p) = c
  BY DEF Popped
<1>5. ASSUME NEW i \in 1..n
      PROVE  r[i] = result[i] /\ r[i] \in Range(result) /\ Cost(r[i]) \in Nat /\ Cost(r[i]) < c
  <2>1. i \in 1 .. (n + m) /\ r[i] = result[i] /\ i \in DOMAIN result /\ result[i] \in Walks
    BY <1>1, <1>2, <1>3
  <2>2. Cost(result[i]) \in Nat
    BY <2>1, WalkIs
  <2>3. Cost(result[i]) < c
    <3>1. PICK s \in queue : s.cost = c
      BY DEF Popped
    <3>2. QED BY <1>1, <3>1 DEF FoundOK
  <2>4. QED BY <2>1, <2>2, <2>3 DEF Range
<1>6. ASSUME NEW i \in (n + 1) .. (n + m)
      PROVE  /\ i - n \in 1..m /\ r[i] = new[i - n] /\ r[i] \in P /\ Cost(r[i]) = c
  <2>1. i - n \in 1..m /\ i \in 1 .. (n + m) /\ ~(i <= n)
    BY <1>2
  <2>2. r[i] = new[i - n] /\ new[i - n] \in P
    BY <1>1, <1>2, <1>3, <2>1
  <2>3. QED BY <1>4, <2>1, <2>2
<1>7. \A i \in 1 .. (n + m) : i \in 1..n \/ i \in (n + 1) .. (n + m)
  BY <1>2
<1>8. ASSUME NEW i \in 1 .. (n + m), NEW j \in 1 .. (n + m), r[i] = r[j] PROVE i = j
  <2>1. CASE i \in 1..n /\ j \in 1..n
    <3>1. result[i] = result[j] /\ i \in DOMAIN result /\ j \in DOMAIN result
      BY <1>1, <1>2, <1>5, <1>8, <2>1
    <3>2. QED BY <3>1 DEF FoundOK, IsInjective
  <2>2. CASE i \in (n + 1) .. (n + m) /\ j \in (n + 1) .. (n + m)
    <3>1. new[i - n] = new[j - n] /\ i - n \in DOMAIN new /\ j - n \in DOMAIN new
      BY <1>1, <1>2, <1>6, <1>8, <2>2
    <3>2. i - n = j - n
      BY <3>1 DEF Popped, IsInjective
    <3>3. QED BY <1>2, <3>2
  <2>3. CASE i \in 1..n /\ j \in (n + 1) .. (n + m)
    BY <1>4, <1>5, <1>6, <1>8, <2>3
  <2>4. CASE i \in (n + 1) .. (n + m) /\ j \in 1..n
    BY <1>4, <1>5, <1>6, <1>8, <2>4
  <2>5. QED BY <1>7, <2>1, <2>2, <2>3, <2>4
<1>9. ASSUME NEW i \in 1 .. (n + m), NEW j \in 1 .. (n + m), i <= j
      PROVE  Cost(r[i]) <= Cost(r[j])
  <2>1. CASE i \in 1..n /\ j \in 1..n
    <3>1. Cost(result[i]) <= Cost(result[j])
      BY <1>1, <1>9, <2>1 DEF FoundOK
    <3>2. QED BY <1>5, <2>1, <3>1
  <2>2. CASE i \in (n + 1) .. (n + m) /\ j \in (n + 1) .. (n + m)
    BY <1>4, <1>6, <2>2
  <2>3. CASE i \in 1..n /\ j \in (n + 1) .. (n + m)
    BY <1>4, <1>5, <1>6, <2>3
  <2>4. CASE i \in (n + 1) .. (n + m) /\ j \in 1..n
    BY <1>2, <1>9, <2>4
  <2>5. QED BY <1>7, <2>1, <2>2, <2>3, <2>4
<1>10. ASSUME NEW i \in 1 .. (n + m) PROVE Cost(r[i]) \in Nat /\ Cost(r[i]) <= c
  BY <1>4, <1>5, <1>6, <1>7
<1>11. \A i \in 1 .. (n + m), s \in queue' : Cost(r[i]) < s.cost
  <2>1. ASSUME NEW i \in 1 .. (n + m), NEW s \in queue' PROVE Cost(r[i]) < s.cost
    <3>1. c < s.cost
      BY PoppedQueue
    <3>2. s.cost \in Nat
      <4>1. Trail(s.path) /\ s.cost = Cost(s.path)
        BY PoppedQueue DEF QueueOK, Entry
      <4>2. 1 \in 1 .. Len(s.path)
        BY <4>1, TrailHops
      <4>3. QED BY <4>1, <4>2, StartIsCheaper
    <3>3. QED BY <1>4, <1>10, <3>1, <3>2
  <2>2. QED BY <2>1
<1>12. Len(r) <= search.k
  BY <1>1, <1>3 DEF Popped
<1>13. IsInjective(r)
  BY <1>3, <1>8 DEF IsInjective
<1>14. FoundOK(queue', r)
  BY <1>3, <1>9, <1>11, <1>12, <1>13 DEF FoundOK
<1>15. Range(r) = Range(result) \cup P
  <2>1. ASSUME NEW x \in Range(r) PROVE x \in Range(result) \cup P
    <3>1. PICK i \in 1 .. (n + m) : x = r[i]
      BY <1>3 DEF Range
    <3>2. QED BY <1>5, <1>6, <1>7, <3>1
  <2>2. ASSUME NEW x \in Range(result) PROVE x \in Range(r)
    <3>1. PICK i \in 1..n : x = result[i]
      BY <1>1, <1>2 DEF Range
    <3>2. i \in 1 .. (n + m)
      BY <1>2
    <3>3. QED BY <1>3, <1>5, <3>1, <3>2 DEF Range
  <2>3. ASSUME NEW x \in P PROVE x \in Range(r)
    <3>1. x \in Range(new)
      BY DEF Popped
    <3>2. PICK i \in 1..m : x = new[i]
      BY <1>1, <1>2, <3>1 DEF Range
    <3>3. i + n \in 1 .. (n + m) /\ ~(i + n <= n) /\ (i + n) - n = i
      BY <1>2
    <3>4. QED BY <1>3, <3>2, <3>3 DEF Range
  <2>4. QED BY <2>1, <2>2, <2>3
<1>16. QED BY <1>1, <1>3, <1>10, <1>14, <1>15

LEMMA PoppedNoneMissed ==
  ASSUME SearchOK, QueueOK(queue), FoundOK(queue, result), NoneMissed(queue, result), Searching,
         NEW c, NEW P, NEW new, Popped(c, P, new)
  PROVE  NoneMissed(queue', result')
<1> DEFINE arrived == {s \in Cheapest : Last(s.path) = search.dst}
<1>1. SUFFICES ASSUME NEW w \in Walks, w \notin Range(result')
               PROVE  \/ \E m \in 1 .. Len(w) : Entry(Start(w, m)) \in queue'
                      \/ /\ Len(result') = search.k
                         /\ \A i \in 1 .. Len(result') : Cost(result'[i]) <= Cost(w)
  BY DEF NoneMissed
<1>2. /\ Range(result') = Range(result) \cup P
      /\ Len(result') = Len(result) + Len(new)
      /\ \A i \in 1 .. Len(result') : Cost(result'[i]) <= c
  BY PoppedFound
<1>3. w \notin Range(result) /\ w \notin P /\ Len(result) < search.k
  BY <1>1, <1>2 DEF Searching
<1>4. PICK m \in 1 .. Len(w) : Entry(Start(w, m)) \in queue
  <2>1. Len(result) # search.k
    BY <1>3 DEF FoundOK, SearchOK
  <2>2. QED BY <1>3, <2>1 DEF NoneMissed
<1>5. PICK t, s : t = Start(w, m) /\ s = Entry(t)
  OBVIOUS
<1>6. s \in queue /\ s.path = t /\ s.cost = Cost(t)
  BY <1>4, <1>5 DEF Entry
<1>7. /\ Trail(w) /\ Hops(w) \in Nat /\ Len(w) = Hops(w) + 1
      /\ Hops(w) <= search.max_hops /\ Last(w) = search.dst
  BY WalkIs
<1>8. Trail(t) /\ Len(t) = m /\ Last(t) = w[m]
  BY <1>5, <1>7, TrailStart
<1>9. CASE s \notin Cheapest
  BY <1>5, <1>6, <1>9 DEF Popped
<1>10. CASE s \in arrived
  <2>1. Last(t) = search.dst
    BY <1>6, <1>10
  <2>2. ~(m < Len(w))
    BY <1>7, <1>8, <2>1, TrailStart
  <2>3. m = Len(w)
    BY <1>7, <2>2
  <2>4. t = w
    BY <1>5, <1>7, <2>3, TrailStart
  <2>5. Cost(w) = c
    BY <1>6, <1>10, <2>4 DEF Popped
  <2>6. Len(result') = search.k
    <3>1. w \in {x.path : x \in arrived}
      BY <1>6, <1>10, <2>4
    <3>2. P # {x.path : x \in arrived}
      BY <1>3, <3>1
    <3>3. QED BY <1>2, <3>2 DEF Popped
  <2>7. QED BY <1>2, <2>5, <2>6
<1>11. CASE s \in Cheapest \ arrived
  <2>1. Last(t) # search.dst
    BY <1>6, <1>11
  <2>2. m # Len(w)
    BY <1>5, <1>7, <2>1, TrailStart
  <2>3. m < Len(w) /\ m + 1 \in 1 .. Len(w)
    BY <1>7, <2>2
  <2>4. PICK v : v = w[m + 1]
    OBVIOUS
  <2>5. v \in Successors(Last(t)) \ Range(Tail(t)) /\ Start(w, m + 1) = Append(t, v)
    BY <1>5, <1>7, <1>8, <2>3, <2>4, TrailStart
  <2>6. Cost(Append(t, v)) = Cost(t) + EdgeCost(Last(t), v)
    BY <1>8, <2>1, <2>5, CostOfAppend
  <2>7. ~(Hops(t) >= search.max_hops)
    <3>1. Hops(t) = m - 1
      BY <1>8 DEF Hops
    <3>2. QED BY <1>7, <2>3, <3>1 DEF SearchOK
  <2>8. [path |-> Append(t, v), cost |-> Cost(t) + EdgeCost(Last(t), v)] \in Extensions(s)
    BY <1>6, <2>5, <2>7 DEF Extensions
  <2>9. Entry(Start(w, m + 1)) \in Extensions(s)
    BY <2>5, <2>6, <2>8 DEF Entry
  <2>10. Entry(Start(w, m + 1)) \in queue'
    BY <1>11, <2>9 DEF Popped
  <2>11. QED BY <2>3, <2>10
<1>12. QED BY <1>9, <1>10, <1>11

(* The question stays the same, and with it what its walks are.            *)
LEMMA AlwaysWalks ==
  SearchOK => \A w : w \in Walks <=> Trail(w) /\ Hops(w) <= search.max_hops /\ Last(w) = search.dst
BY WalksAre

LEMMA SameSearch ==
  ASSUME SearchOK, UNCHANGED search
  PROVE  /\ SearchOK' /\ Walks' = Walks
         /\ \A t : Trail(t)' <=> Trail(t)
<1>1. search' = search
  OBVIOUS
<1>2. Vertices' = Vertices
  BY <1>1 DEF Vertices
<1>3. SearchOK'
  BY <1>1, <1>2 DEF SearchOK
<1>4. ASSUME NEW v PROVE Successors(v)' = Successors(v)
  BY <1>2 DEF Successors
<1>5. ASSUME NEW t PROVE Trail(t)' <=> Trail(t)
  BY <1>1, <1>2, <1>4 DEF Trail
<1>6. (SearchOK => \A w : w \in Walks <=>
         Trail(w) /\ Hops(w) <= search.max_hops /\ Last(w) = search.dst)'
  BY AlwaysWalks, PTL
<1>7. \A w : w \in Walks' <=> Trail(w)' /\ Hops(w) <= search'.max_hops /\ Last(w) = search'.dst
  BY <1>3, <1>6
<1>8. \A w : w \in Walks' <=> w \in Walks
  BY <1>1, <1>5, <1>7, WalksAre
<1>9. Walks' = Walks
  BY <1>8
<1>10. QED BY <1>3, <1>5, <1>9

LEMMA SearchStep ==
  ASSUME SearchInv, [SearchNext]_searchVars
  PROVE  SearchInv' /\ UNCHANGED search
<1>1. UNCHANGED search
  BY DEF SearchNext, PopCheapest, searchVars
<1>2. SearchOK /\ QueueOK(queue) /\ FoundOK(queue, result) /\ NoneMissed(queue, result)
  BY DEF SearchInv
<1>3. QueueOK(queue') /\ FoundOK(queue', result') /\ NoneMissed(queue', result')
  <2>1. CASE PopCheapest
    <3>1. PICK c, P, new : Popped(c, P, new)
      BY <2>1, StepPops
    <3>2. Searching
      BY <2>1 DEF PopCheapest
    <3>3. QED BY <1>2, <3>1, <3>2, PoppedQueue, PoppedFound, PoppedNoneMissed
  <2>2. CASE UNCHANGED searchVars
    BY <1>2, <2>2 DEF searchVars
  <2>3. QED BY <2>1, <2>2 DEF SearchNext
<1>4. SearchOK' /\ Walks' = Walks /\ search' = search
  BY <1>1, <1>2, SameSearch
<1>5. \A t : Trail(t)' <=> Trail(t)
  BY <1>1, <1>2, SameSearch
<1>6. QueueOK(queue)'
  BY <1>3, <1>4, <1>5 DEF QueueOK
<1>7. FoundOK(queue, result)'
  BY <1>3, <1>4 DEF FoundOK
<1>8. NoneMissed(queue, result)'
  BY <1>3, <1>4 DEF NoneMissed
<1>9. QED BY <1>1, <1>4, <1>6, <1>7, <1>8 DEF SearchInv

(* The search keeps SearchInv, for any cluster and any question.           *)
THEOREM SearchInvariant == SearchSpec => []SearchInv
<1>1. SearchInv /\ [SearchNext]_searchVars => SearchInv'
  BY SearchStep
<1>2. QED BY <1>1, InitSearch, PTL DEF SearchSpec

(* What was found costs no more than what was not, at any time.            *)
LEMMA FoundAreCheapest ==
  ASSUME SearchInv, NEW chosen \in Range(result), NEW other \in Walks \ Range(result)
  PROVE  chosen \in Walks /\ Cost(chosen) \in Nat /\ Cost(other) \in Nat /\ Cost(chosen) <= Cost(other)
<1>1. SearchOK /\ QueueOK(queue) /\ FoundOK(queue, result) /\ NoneMissed(queue, result)
  BY DEF SearchInv
<1>2. PICK i \in 1 .. Len(result) : chosen = result[i]
  BY <1>1 DEF FoundOK, Range
<1>3. chosen \in Walks
  BY <1>1, <1>2 DEF FoundOK
<1>4. Cost(chosen) \in Nat /\ Cost(other) \in Nat
  BY <1>1, <1>3, WalkIs
<1>5. CASE \E m \in 1 .. Len(other) : Entry(Start(other, m)) \in queue
  <2>1. PICK m \in 1 .. Len(other) : Entry(Start(other, m)) \in queue
    BY <1>5
  <2>2. Cost(chosen) < Cost(Start(other, m))
    BY <1>1, <1>2, <2>1 DEF FoundOK, Entry
  <2>3. Cost(Start(other, m)) \in Nat /\ Cost(Start(other, m)) <= Cost(other)
    BY <1>1, WalkIs, StartIsCheaper
  <2>4. QED BY <1>3, <1>4, <2>2, <2>3
<1>6. CASE \A i_1 \in 1 .. Len(result) : Cost(result[i_1]) <= Cost(other)
  BY <1>2, <1>3, <1>4, <1>6
<1>7. QED BY <1>1, <1>5, <1>6 DEF NoneMissed

LEMMA ResultCount ==
  ASSUME SearchInv
  PROVE  /\ IsFiniteSet(Range(result)) /\ Cardinality(Range(result)) = Len(result)
         /\ Len(result) \in Nat /\ Len(result) <= search.k
<1>1. PICK n : n = Len(result)
  OBVIOUS
<1>2. result \in Seq(Walks) /\ IsInjective(result) /\ n <= search.k
  BY <1>1 DEF SearchInv, FoundOK
<1>3. n \in Nat
  BY <1>1, <1>2
<1>4. IsFiniteSet(1..n) /\ Cardinality(1..n) = n
  <2>1. 1 \in Int /\ n \in Int
    BY <1>3
  <2>2. QED BY <1>3, <2>1, FS_Interval
<1>5. PICK D, r : D = 1..n /\ r = result
  OBVIOUS
<1>6. DOMAIN r = D /\ r = [i \in D |-> r[i]]
  BY <1>1, <1>2, <1>5
<1>7. \A x, y \in D : r[x] = r[y] => x = y
  BY <1>2, <1>5, <1>6 DEF IsInjective
<1>8. IsFiniteSet(D)
  BY <1>4, <1>5
<1>9. IsFiniteSet({r[i] : i \in D}) /\ Cardinality({r[i] : i \in D}) = Cardinality(D)
  BY <1>6, <1>7, <1>8, ImageFinite
<1>10. {r[i] : i \in D} = Range(result)
  BY <1>5, <1>6 DEF Range
<1>11. QED BY <1>1, <1>2, <1>3, <1>4, <1>5, <1>9, <1>10

LEMMA InvCheapestFirst == SearchInv => CheapestFirst
<1> SUFFICES ASSUME SearchInv, ~Searching
             PROVE  /\ IsInjective(result)
                    /\ Range(result) \subseteq Walks
                    /\ Len(result) = Min({search.k, Cardinality(Walks)})
                    /\ \A i \in 1 .. (Len(result) - 1) : Cost(result[i]) <= Cost(result[i + 1])
                    /\ \A chosen \in Range(result), other \in Walks \ Range(result) :
                         Cost(chosen) <= Cost(other)
  BY DEF CheapestFirst
<1>1. SearchOK /\ QueueOK(queue) /\ FoundOK(queue, result) /\ NoneMissed(queue, result)
  BY DEF SearchInv
<1>2. PICK n : n = Len(result)
  OBVIOUS
<1>3. /\ result \in Seq(Walks) /\ n \in Nat /\ DOMAIN result = 1..n /\ IsInjective(result)
      /\ n <= search.k /\ search.k \in Nat
  BY <1>1, <1>2 DEF FoundOK, SearchOK
<1>4. Range(result) \in SUBSET Walks
  BY <1>3 DEF Range
<1>5. IsFiniteSet(Walks) /\ Cardinality(Walks) \in Nat
  BY <1>1, WalksFinite, FS_CardinalityType
<1>6. Cardinality(Range(result)) = n
  BY <1>2, ResultCount
<1>7. n <= Cardinality(Walks)
  BY <1>4, <1>5, <1>6, FS_Subset
<1>8. n = Min({search.k, Cardinality(Walks)})
  <2>1. CASE n = search.k
    BY <1>3, <1>5, <1>7, <2>1, MinOfTwo
  <2>2. CASE n # search.k
    <3>1. queue = {}
      BY <1>2, <1>3, <2>2 DEF Searching
    <3>2. Walks \subseteq Range(result)
      BY <1>1, <1>2, <2>2, <3>1 DEF NoneMissed
    <3>3. n = Cardinality(Walks)
      BY <1>4, <1>6, <3>2
    <3>4. QED BY <1>3, <1>5, <3>3, MinOfTwo
  <2>3. QED BY <2>1, <2>2
<1>9. \A i \in 1 .. (n - 1) : Cost(result[i]) <= Cost(result[i + 1])
  BY <1>1, <1>2, <1>3 DEF FoundOK
<1>10. \A chosen \in Range(result), other \in Walks \ Range(result) : Cost(chosen) <= Cost(other)
  BY FoundAreCheapest
<1>11. QED BY <1>2, <1>3, <1>4, <1>8, <1>9, <1>10

(* When the search is over it has found the k cheapest walks within the    *)
(* hop limit, or all there are, each once and the cheapest first           *)
(* (yen_k_shortest, topology.cpp:68-95): for any number of nodes and of    *)
(* GPUs in a node, any two vertices, k and hop limit.                      *)
THEOREM SearchFindsCheapest == SearchSpec => []CheapestFirst
BY SearchInvariant, InvCheapestFirst, PTL

-----------------------------------------------------------------------------
(* Paths between GPUs *)

LEMMA CostToGo ==
  ASSUME SearchOK, NEW t, Trail(t), NEW f, Costs(t, f), NEW n \in Nat,
         NEW i \in 0 .. Hops(t), NEW j \in 0 .. Hops(t), i <= j
  PROVE  /\ f[i] \in Nat /\ f[j] \in Nat
         /\ ToGo(t[i + 1], n) \in Nat /\ ToGo(t[j + 1], n) \in Nat
         /\ f[i] + ToGo(t[i + 1], n) <= f[j] + ToGo(t[j + 1], n)
<1>1. PICK h \in Nat : h = Hops(t) /\ Len(t) = h + 1
  BY TrailHops
<1>2. PICK g : g = [m \in 0..h |-> f[m] + ToGo(t[m + 1], n)]
  OBVIOUS
<1>3. ASSUME NEW m \in 0..h PROVE f[m] \in Nat /\ ToGo(t[m + 1], n) \in Nat
  BY <1>1 DEF Costs, ToGo
<1>4. \A m \in 0..h : g[m] = f[m] + ToGo(t[m + 1], n) /\ g[m] \in Int
  BY <1>2, <1>3
<1>5. ASSUME NEW m \in 1..h PROVE g[m - 1] <= g[m]
  <2>1. t[m] \in Vertices /\ t[m + 1] \in Successors(t[m])
    BY <1>1 DEF Trail
  <2>2. /\ ToGo(t[m], n) <= EdgeCost(t[m], t[m + 1]) + ToGo(t[m + 1], n)
        /\ EdgeCost(t[m], t[m + 1]) \in Nat
    BY <2>1, ToGoFalls, EdgeCosts
  <2>3. f[m] = f[m - 1] + EdgeCost(t[m], t[m + 1])
    BY <1>1 DEF Costs
  <2>4. m - 1 \in 0..h /\ (m - 1) + 1 = m /\ m \in 0..h
    BY <1>1
  <2>5. f[m - 1] \in Nat /\ ToGo(t[m], n) \in Nat /\ ToGo(t[m + 1], n) \in Nat
    BY <1>3, <2>4
  <2>6. g[m - 1] = f[m - 1] + ToGo(t[m], n) /\ g[m] = f[m] + ToGo(t[m + 1], n)
    BY <1>4, <2>4
  <2>7. QED BY <2>2, <2>3, <2>5, <2>6
<1>6. i \in 0..h /\ j \in 0..h
  BY <1>1
<1>7. g[i] <= g[j]
  BY <1>4, <1>5, <1>6, Rising
<1>8. QED BY <1>3, <1>4, <1>6, <1>7

Port(n, r) == [node |-> n, kind |-> "ib", id |-> r]
Peer(n, i) == [node |-> n, kind |-> "gpu", id |-> i]

RailPath(r) == <<search.src, Port(search.src.node, r), Port(search.dst.node, r), search.dst>>

BetweenNodes ==
  search.src.kind = "gpu" /\ search.dst.kind = "gpu" /\ search.src.node # search.dst.node

LEMMA EndPoints ==
  ASSUME SearchOK
  PROVE  /\ search.src \in Vertices /\ search.dst \in Vertices
         /\ IsVertex(search.src) /\ IsVertex(search.dst)
         /\ search.src.node \in 0 .. (search.nodes - 1)
         /\ search.dst.node \in 0 .. (search.nodes - 1)
         /\ search.src.kind = "gpu" =>
              /\ search.src = Peer(search.src.node, search.src.id)
              /\ search.src.id \in 0 .. (search.gpus - 1)
         /\ search.dst.kind = "gpu" =>
              /\ search.dst = Peer(search.dst.node, search.dst.id)
              /\ search.dst.id \in 0 .. (search.gpus - 1)
<1>1. search.src \in Vertices /\ search.dst \in Vertices
  BY DEF SearchOK
<1>2. QED BY <1>1, VertexKinds DEF Peer

LEMMA RailEdges ==
  ASSUME SearchOK, BetweenNodes, NEW r \in {0, 1}
  PROVE  LET A == Port(search.src.node, r)
             B == Port(search.dst.node, r)
         IN  /\ A \in Vertices /\ B \in Vertices
             /\ A \in Successors(search.src) /\ B \in Successors(A) /\ search.dst \in Successors(B)
             /\ EdgeFabric(search.src, A) = "InfiniBand" /\ EdgeFabric(A, B) = "InfiniBand"
             /\ EdgeFabric(B, search.dst) = "InfiniBand"
             /\ EdgeCost(search.src, A) = 20005 /\ EdgeCost(A, B) = 20005
             /\ EdgeCost(B, search.dst) = 20005
             /\ EdgeRail(search.src, A) = r /\ EdgeRail(A, B) = r /\ EdgeRail(B, search.dst) = r
<1>1. PICK s, d, A, B : /\ s = search.src /\ d = search.dst
                        /\ A = Port(search.src.node, r) /\ B = Port(search.dst.node, r)
  OBVIOUS
<1>2. /\ s \in Vertices /\ d \in Vertices /\ s.kind = "gpu" /\ d.kind = "gpu" /\ s.node # d.node
      /\ s.node \in 0 .. (search.nodes - 1) /\ d.node \in 0 .. (search.nodes - 1)
  BY <1>1, EndPoints DEF BetweenNodes
<1>3. /\ A \in Vertices /\ B \in Vertices
      /\ A.kind = "ib" /\ A.node = s.node /\ A.id = r
      /\ B.kind = "ib" /\ B.node = d.node /\ B.id = r
  BY <1>1, <1>2, IsVertices DEF Port
<1>4. A \in Successors(s) /\ EdgeFabric(s, A) = "InfiniBand"
  BY <1>2, <1>3, EdgeTable
<1>5. B \in Successors(A) /\ EdgeFabric(A, B) = "InfiniBand"
  BY <1>2, <1>3, EdgeTable
<1>6. d \in Successors(B) /\ EdgeFabric(B, d) = "InfiniBand"
  <2>1. {B.kind, d.kind} = {"gpu", "ib"}
    BY <1>2, <1>3
  <2>2. QED BY <1>2, <1>3, <2>1, EdgeTable
<1>7. /\ EdgeRail(s, A) = r /\ EdgeRail(A, B) = r /\ EdgeRail(B, d) = r
  BY <1>2, <1>3, <1>4, <1>5, <1>6 DEF EdgeRail
<1>8. EdgeCost(s, A) = 20005 /\ EdgeCost(A, B) = 20005 /\ EdgeCost(B, d) = 20005
  BY <1>4, <1>5, <1>6 DEF EdgeCost
<1>9. QED BY <1>1, <1>3, <1>4, <1>5, <1>6, <1>7, <1>8

LEMMA RailPathWalk ==
  ASSUME SearchOK, BetweenNodes, search.max_hops >= 3, NEW r \in {0, 1}
  PROVE  RailPath(r) \in Walks /\ Cost(RailPath(r)) = 60015
<1>1. PICK s, d, A, B, t : /\ s = search.src /\ d = search.dst
                           /\ A = Port(search.src.node, r) /\ B = Port(search.dst.node, r)
                           /\ t = RailPath(r)
  OBVIOUS
<1>2. /\ s \in Vertices /\ d \in Vertices /\ A \in Vertices /\ B \in Vertices
      /\ A \in Successors(s) /\ B \in Successors(A) /\ d \in Successors(B)
      /\ EdgeCost(s, A) = 20005 /\ EdgeCost(A, B) = 20005 /\ EdgeCost(B, d) = 20005
  BY <1>1, RailEdges, EndPoints
<1>3. /\ s.kind = "gpu" /\ d.kind = "gpu" /\ s.node # d.node /\ A.kind = "ib" /\ B.kind = "ib"
      /\ A.node = s.node /\ B.node = d.node
  BY <1>1 DEF BetweenNodes, Port
<1>4. s # d /\ A # d /\ B # d /\ A # B
  BY <1>3
<1>5. /\ t \in Seq(Vertices) /\ Len(t) = 4
      /\ t[1] = s /\ t[2] = A /\ t[3] = B /\ t[4] = d
  BY <1>1, <1>2 DEF RailPath
<1>6. Trail(t)
  <2>1. ASSUME NEW i \in 1..3 PROVE t[i + 1] \in Successors(t[i]) /\ t[i] # d
    <3>1. i = 1 \/ i = 2 \/ i = 3
      OBVIOUS
    <3>2. QED BY <1>2, <1>4, <1>5, <3>1
  <2>2. ASSUME NEW i \in 2..4, NEW j \in 2..4, t[i] = t[j] PROVE i = j
    <3>1. (i = 2 \/ i = 3 \/ i = 4) /\ (j = 2 \/ j = 3 \/ j = 4)
      OBVIOUS
    <3>2. QED BY <1>4, <1>5, <2>2, <3>1
  <2>3. QED BY <1>1, <1>5, <2>1, <2>2 DEF Trail
<1>7. Hops(t) = 3 /\ Last(t) = d
  BY <1>5 DEF Hops, Last
<1> DEFINE g == [n \in 0..3 |-> 20005 * n]
<1>8. PICK f : f = g
  <2> HIDE DEF g
  <2>1. QED OBVIOUS
<1>9. Costs(t, f)
  <2>1. f \in [0..3 -> Nat] /\ f[0] = 0 /\ f[1] = 20005 /\ f[2] = 40010 /\ f[3] = 60015
    BY <1>8
  <2>2. ASSUME NEW n \in 1..3 PROVE f[n] = f[n - 1] + EdgeCost(t[n], t[n + 1])
    <3>1. n = 1 \/ n = 2 \/ n = 3
      OBVIOUS
    <3>2. QED BY <1>2, <1>5, <2>1, <3>1
  <2>3. QED BY <1>7, <2>1, <2>2 DEF Costs
<1>10. Cost(t) = 60015
  BY <1>6, <1>7, <1>8, <1>9, CostIs
<1>11. t \in Walks
  BY <1>1, <1>6, <1>7, WalksAre DEF SearchOK
<1>12. QED BY <1>1, <1>10, <1>11

(* No path between the nodes is cheaper than those of the rails, and only  *)
(* those are as cheap.                                                     *)
LEMMA OnlyRailPaths ==
  ASSUME SearchOK, BetweenNodes, NEW t \in Walks, Cost(t) <= 60015
  PROVE  t = RailPath(0) \/ t = RailPath(1)
<1>1. /\ Trail(t) /\ t \in Seq(Vertices) /\ Hops(t) \in Nat /\ Len(t) = Hops(t) + 1
      /\ Last(t) = search.dst
  BY WalkIs
<1>2. PICK h, a, b : h = Hops(t) /\ a = search.src.node /\ b = search.dst.node
  OBVIOUS
<1>3. PICK f : Costs(t, f)
  BY <1>1, CostsExist
<1>4. h \in Nat /\ f[0] = 0 /\ f[h] = Cost(t) /\ f[h] <= 60015 /\ t[h + 1] = search.dst
  <2>1. f[h] = Cost(t)
    BY <1>1, <1>2, <1>3, CostIs
  <2>2. f[0] = 0
    BY <1>3 DEF Costs
  <2>3. h \in Nat /\ t[h + 1] = search.dst
    BY <1>1, <1>2 DEF Last
  <2>4. QED BY <2>1, <2>2, <2>3
<1>5. /\ a \in Nat /\ b \in Nat /\ a # b /\ t[1] = search.src
      /\ t[1].kind = "gpu" /\ t[1].node = a
      /\ search.dst.kind = "gpu" /\ search.dst.node = b
  BY <1>1, <1>2, EndPoints DEF BetweenNodes, IsVertex, Trail
<1>6. ASSUME NEW i \in 0..h
      PROVE  f[i] \in Nat /\ ToGo(t[i + 1], b) \in Nat /\ f[i] + ToGo(t[i + 1], b) = 60015
  <2>1. ASSUME NEW x \in 0..h, NEW y \in 0..h, x <= y
        PROVE  /\ f[x] \in Nat /\ f[y] \in Nat
               /\ ToGo(t[x + 1], b) \in Nat /\ ToGo(t[y + 1], b) \in Nat
               /\ f[x] + ToGo(t[x + 1], b) <= f[y] + ToGo(t[y + 1], b)
    <3>1. x \in 0 .. Hops(t) /\ y \in 0 .. Hops(t)
      BY <1>2
    <3>2. Trail(t) /\ Costs(t, f) /\ b \in Nat
      BY <1>1, <1>3, <1>5
    <3>3. QED BY <2>1, <3>1, <3>2, CostToGo
  <2>2. 0 \in 0..h /\ h \in 0..h /\ 0 <= i /\ i <= h /\ 0 + 1 = 1
    BY <1>4
  <2>3. ToGo(t[1], b) = 60015 /\ ToGo(t[h + 1], b) = 0
    BY <1>4, <1>5 DEF ToGo
  <2>4. /\ f[i] \in Nat /\ ToGo(t[i + 1], b) \in Nat
        /\ f[0] + ToGo(t[0 + 1], b) <= f[i] + ToGo(t[i + 1], b)
    BY <2>1, <2>2
  <2>5. f[h] \in Nat /\ f[i] + ToGo(t[i + 1], b) <= f[h] + ToGo(t[h + 1], b)
    BY <2>1, <2>2
  <2>6. QED BY <1>4, <2>2, <2>3, <2>4, <2>5
<1>7. h >= 3
  <2>1. 0 \in 0 .. Hops(t) /\ h \in 0 .. Hops(t) /\ 0 <= h
    BY <1>2, <1>4
  <2>2. f[h] <= f[0] + (20005 * (h - 0))
    BY <1>1, <1>3, <2>1, CostsRise
  <2>3. h \in 0..h /\ ToGo(t[h + 1], b) = 0
    BY <1>4, <1>5 DEF ToGo
  <2>4. f[h] = 60015
    BY <1>6, <2>3
  <2>5. QED BY <1>4, <2>2, <2>4
<1>8. ASSUME NEW i \in 1..h
      PROVE  /\ t[i] \in Vertices /\ t[i + 1] \in Successors(t[i])
             /\ ToGo(t[i], b) = EdgeCost(t[i], t[i + 1]) + ToGo(t[i + 1], b)
  <2>1. t[i] \in Vertices /\ t[i + 1] \in Successors(t[i])
    BY <1>1, <1>2 DEF Trail
  <2>2. f[i] = f[i - 1] + EdgeCost(t[i], t[i + 1])
    BY <1>2, <1>3 DEF Costs
  <2>3. i - 1 \in 0..h /\ i \in 0..h /\ (i - 1) + 1 = i
    BY <1>4
  <2>4. /\ f[i - 1] \in Nat /\ ToGo(t[i], b) \in Nat /\ f[i - 1] + ToGo(t[i], b) = 60015
        /\ f[i] \in Nat /\ ToGo(t[i + 1], b) \in Nat /\ f[i] + ToGo(t[i + 1], b) = 60015
    BY <1>6, <2>3
  <2>5. EdgeCost(t[i], t[i + 1]) \in Nat
    BY <2>1, EdgeCosts
  <2>6. QED BY <2>1, <2>2, <2>4, <2>5
<1>9. 1 \in 1..h /\ 2 \in 1..h /\ 3 \in 1..h /\ 3 \in 0..h
  BY <1>4, <1>7
<1>10. /\ t[1] \in Vertices /\ t[1 + 1] \in Successors(t[1])
       /\ ToGo(t[1], b) = EdgeCost(t[1], t[1 + 1]) + ToGo(t[1 + 1], b)
  BY <1>8, <1>9
<1>11. t[2].kind = "ib" /\ t[2].node = a
  BY <1>5, <1>10, ToGoFalls
<1>12. /\ t[2] \in Vertices /\ t[2 + 1] \in Successors(t[2])
       /\ ToGo(t[2], b) = EdgeCost(t[2], t[2 + 1]) + ToGo(t[2 + 1], b)
  BY <1>8, <1>9
<1>13. t[3].kind = "ib" /\ t[3].node = b /\ t[3].id = t[2].id
  BY <1>5, <1>11, <1>12, ToGoFalls
<1>14. /\ t[3] \in Vertices /\ t[3 + 1] \in Successors(t[3])
       /\ ToGo(t[3], b) = EdgeCost(t[3], t[3 + 1]) + ToGo(t[3 + 1], b)
  BY <1>8, <1>9
<1>15. t[4].kind = "gpu" /\ t[4].node = b
  BY <1>5, <1>13, <1>14, ToGoFalls
<1>16. f[3] = 60015
  <2>1. ToGo(t[4], b) = 0
    BY <1>15 DEF ToGo
  <2>2. f[3] \in Nat /\ f[3] + ToGo(t[3 + 1], b) = 60015
    BY <1>6, <1>9
  <2>3. QED BY <2>1, <2>2
<1>17. h = 3
  <2>1. 3 \in 0 .. Hops(t) /\ h \in 0 .. Hops(t) /\ 3 <= h
    BY <1>2, <1>4, <1>7
  <2>2. f[3] + (1112 * (h - 3)) <= f[h]
    BY <1>1, <1>3, <2>1, CostsRise
  <2>3. f[h] \in Nat
    BY <1>4, WalkIs
  <2>4. QED BY <1>4, <1>7, <1>16, <2>2, <2>3
<1>18. PICK r : r = t[2].id
  OBVIOUS
<1>19. r \in {0, 1} /\ t[2] = Port(a, r) /\ t[3] = Port(b, r)
  BY <1>11, <1>12, <1>13, <1>14, <1>18, VertexKinds DEF Port
<1>20. t = RailPath(r)
  <2>1. Len(t) = 4 /\ t[4] = search.dst
    BY <1>1, <1>2, <1>4, <1>17
  <2>2. PICK p : p = RailPath(r)
    OBVIOUS
  <2>3. /\ Len(p) = 4 /\ p[1] = search.src /\ p[4] = search.dst
        /\ p[2] = Port(a, r) /\ p[3] = Port(b, r)
    BY <1>2, <2>2 DEF RailPath
  <2>4. p[1] = t[1] /\ p[2] = t[2] /\ p[3] = t[3] /\ p[4] = t[4]
    BY <1>5, <1>19, <2>1, <2>3
  <2>5. p \in Seq(Vertices)
    <3>1. t[1] \in Vertices /\ t[2] \in Vertices /\ t[3] \in Vertices /\ t[4] \in Vertices
      BY <1>1, <2>1
    <3>2. p = <<t[1], t[2], t[3], t[4]>>
      BY <1>2, <1>5, <1>19, <2>1, <2>2 DEF RailPath
    <3>3. QED BY <3>1, <3>2
  <2>6. \A i \in 1..4 : i = 1 \/ i = 2 \/ i = 3 \/ i = 4
    OBVIOUS
  <2>7. \A i \in 1..4 : p[i] = t[i]
    BY <2>4, <2>6
  <2>8. p = t
    BY <1>1, <2>1, <2>3, <2>5, <2>7
  <2>9. QED BY <2>2, <2>8
<1>21. QED BY <1>19, <1>20

LEMMA RailPathKeepsRail ==
  ASSUME SearchOK, BetweenNodes, NEW r \in {0, 1}
  PROVE  /\ PathRail(RailPath(r)) = r
         /\ \A e \in EdgesOf(RailPath(r)) :
              EdgeFabric(e[1], e[2]) = "InfiniBand" /\ EdgeRail(e[1], e[2]) = r
<1>1. PICK s, d, A, B, t : /\ s = search.src /\ d = search.dst
                           /\ A = Port(search.src.node, r) /\ B = Port(search.dst.node, r)
                           /\ t = RailPath(r)
  OBVIOUS
<1>2. Hops(t) = 3 /\ t[1] = s /\ t[2] = A /\ t[3] = B /\ t[4] = d
  BY <1>1 DEF RailPath, Hops
<1>3. ASSUME NEW i \in 1..3
      PROVE  EdgeFabric(t[i], t[i + 1]) = "InfiniBand" /\ EdgeRail(t[i], t[i + 1]) = r
  <2>1. /\ EdgeFabric(s, A) = "InfiniBand" /\ EdgeFabric(A, B) = "InfiniBand"
        /\ EdgeFabric(B, d) = "InfiniBand"
        /\ EdgeRail(s, A) = r /\ EdgeRail(A, B) = r /\ EdgeRail(B, d) = r
    BY <1>1, RailEdges
  <2>2. i = 1 \/ i = 2 \/ i = 3
    OBVIOUS
  <2>3. QED BY <1>2, <2>1, <2>2
<1>4. ASSUME NEW e \in EdgesOf(t)
      PROVE  EdgeFabric(e[1], e[2]) = "InfiniBand" /\ EdgeRail(e[1], e[2]) = r
  <2>1. PICK i \in 1..3 : e = <<t[i], t[i + 1]>>
    BY <1>2 DEF EdgesOf
  <2>2. QED BY <1>3, <2>1
<1>5. PathRail(t) = r
  <2>1. PICK onRail : onRail = {i \in 1 .. Hops(t) : EdgeRail(t[i], t[i + 1]) >= 0}
    OBVIOUS
  <2>2. onRail \subseteq 1..3
    BY <1>2, <2>1
  <2>3. 1 \in onRail
    <3>1. 1 \in 1..3 /\ r >= 0
      OBVIOUS
    <3>2. EdgeRail(t[1], t[1 + 1]) = r
      BY <1>3, <3>1
    <3>3. QED BY <1>2, <2>1, <3>1, <3>2
  <2>4. onRail \subseteq Nat /\ onRail # {}
    BY <2>2, <2>3
  <2>5. \E x \in onRail : \A y \in onRail : x <= y
    BY <2>4, NatLeast
  <2>6. PICK first : first = Min(onRail)
    OBVIOUS
  <2>7. first \in onRail
    BY <2>5, <2>6 DEF Min
  <2>8. PathRail(t) = IF onRail = {} THEN -1 ELSE EdgeRail(t[first], t[first + 1])
    BY <2>1, <2>6 DEF PathRail
  <2>9. QED BY <1>3, <2>2, <2>4, <2>7, <2>8
<1>6. QED BY <1>1, <1>4, <1>5

LEMMA InvRailsAvailable == SearchInv => RailsAvailable
<1> SUFFICES ASSUME SearchInv, ~Searching, BetweenNodes, search.k >= 2, search.max_hops >= 3,
                    NEW class \in {"TensorParallel", "KVMigration"}, NEW rail \in {0, 1}
             PROVE  \E path \in FlexibilitySet(class) :
                      /\ PathRail(path) = rail
                      /\ \A e \in EdgesOf(path) : EdgeRail(e[1], e[2]) \in {-1, rail}
  BY DEF RailsAvailable, BetweenNodes
<1>1. SearchOK /\ CheapestFirst
  BY InvCheapestFirst DEF SearchInv
<1>2. PICK P, Q : P = RailPath(rail) /\ Q = RailPath(1 - rail)
  OBVIOUS
<1>3. P \in Walks /\ Q \in Walks /\ Cost(P) = 60015 /\ Cost(Q) = 60015
  <2>1. 1 - rail \in {0, 1}
    OBVIOUS
  <2>2. QED BY <1>1, <1>2, <2>1, RailPathWalk
<1>4. P # Q
  <2>1. P[2].id = rail /\ Q[2].id = 1 - rail
    BY <1>2 DEF RailPath, Port
  <2>2. rail # 1 - rail
    OBVIOUS
  <2>3. QED BY <2>1, <2>2
<1>5. Len(result) >= 2
  <2>1. IsFiniteSet(Walks) /\ Cardinality(Walks) \in Nat
    BY <1>1, WalksFinite, FS_CardinalityType
  <2>2. IsFiniteSet({P}) /\ Cardinality({P}) = 1
    BY FS_Singleton
  <2>3. Cardinality({P} \cup {Q}) = 2
    BY <1>4, <2>2, FS_AddElement
  <2>4. ({P} \cup {Q}) \in SUBSET Walks
    BY <1>3
  <2>5. 2 <= Cardinality(Walks)
    BY <2>1, <2>3, <2>4, FS_Subset
  <2>6. search.k \in Nat
    BY <1>1 DEF SearchOK
  <2>7. Len(result) = Min({search.k, Cardinality(Walks)})
    BY <1>1 DEF CheapestFirst
  <2>8. QED BY <2>1, <2>5, <2>6, <2>7, MinOfTwo
<1>6. P \in Range(result)
  <2>1. SUFFICES ASSUME P \notin Range(result) PROVE FALSE
    OBVIOUS
  <2>2. ASSUME NEW chosen \in Range(result) PROVE chosen = Q
    <3>1. chosen \in Walks /\ Cost(chosen) <= 60015
      BY <1>3, <2>1, FoundAreCheapest
    <3>2. chosen = RailPath(0) \/ chosen = RailPath(1)
      BY <1>1, <3>1, OnlyRailPaths
    <3>3. chosen = P \/ chosen = Q
      BY <1>2, <3>2
    <3>4. QED BY <2>1, <3>3
  <2>3. Range(result) \in SUBSET {Q}
    BY <2>2
  <2>4. IsFiniteSet({Q}) /\ Cardinality({Q}) = 1
    BY FS_Singleton
  <2>5. Cardinality(Range(result)) <= 1
    BY <2>3, <2>4, FS_Subset
  <2>6. QED BY <1>5, <2>5, ResultCount
<1>7. \A e \in EdgesOf(P) : EdgeFabric(e[1], e[2]) = "InfiniBand" /\ EdgeRail(e[1], e[2]) = rail
  BY <1>1, <1>2, RailPathKeepsRail
<1>8. PathRail(P) = rail
  BY <1>1, <1>2, RailPathKeepsRail
<1>9. P \in FlexibilitySet(class)
  <2>1. Admits(class, "InfiniBand")
    BY DEF Admits
  <2>2. \A e \in EdgesOf(P) : Admits(class, EdgeFabric(e[1], e[2]))
    BY <1>7, <2>1
  <2>3. P \in {path \in Range(result) :
                 \A e \in EdgesOf(path) : Admits(class, EdgeFabric(e[1], e[2]))}
    BY <1>6, <2>2
  <2>4. QED BY <2>3 DEF FlexibilitySet
<1>10. QED BY <1>7, <1>8, <1>9

(* Between GPUs of two nodes the search finds, with at least two paths of  *)
(* three hops allowed, a path on each rail that keeps to it, and latency-  *)
(* bound and KV traffic may use it (topology.cpp:166): for any number of   *)
(* nodes and GPUs.                                                         *)
THEOREM BothRailsFound == SearchSpec => []RailsAvailable
BY SearchInvariant, InvRailsAvailable, PTL

(* A walk between GPUs that meets a vertex twice meets the source twice,   *)
(* and what it does in between costs it two edges.                         *)
LEMMA LoopsCost ==
  ASSUME SearchOK, search.src.kind = "gpu", search.dst.kind = "gpu",
         NEW t \in Walks, ~IsInjective(t)
  PROVE  /\ search.src # search.dst
         /\ search.src.node = search.dst.node => search.max_hops >= 2 /\ Cost(t) > 2224
         /\ search.src.node # search.dst.node => search.max_hops >= 4 /\ Cost(t) > 61127
<1>1. /\ Trail(t) /\ t \in Seq(Vertices) /\ Hops(t) \in Nat /\ Len(t) = Hops(t) + 1
      /\ Last(t) = search.dst /\ Cost(t) \in Nat /\ Hops(t) <= search.max_hops
  BY WalkIs
<1>2. PICK h, k : h = Hops(t) /\ k = search.max_hops
  OBVIOUS
<1>3. /\ h \in Nat /\ DOMAIN t = 1 .. (h + 1) /\ t[1] = search.src /\ t[h + 1] = search.dst
      /\ \A i \in 1..h : t[i] \in Vertices /\ t[i + 1] \in Successors(t[i]) /\ t[i] # search.dst
      /\ \A i, j \in 2 .. (h + 1) : t[i] = t[j] => i = j
  <2>1. PICK n : n = Len(t)
    OBVIOUS
  <2>2. h \in Nat /\ n = h + 1 /\ DOMAIN t = 1..n /\ t[n] = search.dst
    BY <1>1, <1>2, <2>1 DEF Last
  <2>3. /\ t \in Seq(Vertices) /\ t[1] = search.src
        /\ \A i \in 1 .. (n - 1) : t[i + 1] \in Successors(t[i]) /\ t[i] # search.dst
        /\ \A i, j \in 2..n : t[i] = t[j] => i = j
    BY <1>1, <2>1 DEF Trail
  <2>4. \A i \in 1..n : t[i] \in Vertices
    BY <2>1, <2>3
  <2>5. n - 1 = h /\ 1..h \subseteq 1..n
    BY <2>2
  <2>6. QED BY <2>2, <2>3, <2>4, <2>5
<1>4. PICK j \in 2 .. (h + 1) : t[j] = search.src
  <2>1. PICK x, y \in 1 .. (h + 1) : t[x] = t[y] /\ x # y
    BY <1>3 DEF IsInjective
  <2>2. x \notin 2 .. (h + 1) \/ y \notin 2 .. (h + 1)
    BY <1>3, <2>1
  <2>3. (x = 1 /\ y \in 2 .. (h + 1)) \/ (y = 1 /\ x \in 2 .. (h + 1))
    BY <1>3, <2>1, <2>2
  <2>4. QED BY <1>3, <2>1, <2>3
<1>5. search.src # search.dst
  BY <1>3, <1>4
<1>6. j # h + 1 /\ j # 2
  <2>1. j # h + 1
    BY <1>3, <1>4, <1>5
  <2>2. ASSUME j = 2 PROVE FALSE
    <3>1. 1 \in 1..h /\ 1 + 1 = 2
      BY <1>3, <1>4
    <3>2. search.src \in Vertices /\ search.src \in Successors(search.src)
      BY <1>3, <1>4, <2>2, <3>1
    <3>3. QED BY <3>2, EdgeTable
  <2>3. QED BY <2>1, <2>2
<1>7. j \in Nat /\ j >= 3 /\ j <= h /\ h >= 3 /\ k \in Nat /\ h <= k
  <2>1. k \in Nat /\ h <= k
    BY <1>1, <1>2 DEF SearchOK
  <2>2. QED BY <1>3, <1>4, <1>6, <2>1
<1>8. PICK f : Costs(t, f)
  BY <1>1, CostsExist
<1>9. PICK m, c, g : m = j - 1 /\ c = f[h] /\ g = f[m]
  OBVIOUS
<1>10. f[0] = 0 /\ c = Cost(t)
  <2>1. c = Cost(t)
    BY <1>1, <1>2, <1>8, <1>9, CostIs
  <2>2. QED BY <1>8, <2>1 DEF Costs
<1>11. /\ 0 \in 0 .. Hops(t) /\ h \in 0 .. Hops(t) /\ m \in 0 .. Hops(t) /\ m \in Nat
       /\ 0 <= h /\ 0 <= m /\ m <= h /\ m >= 2 /\ m + 1 = j
  BY <1>2, <1>3, <1>7, <1>9
<1>12. c \in Nat /\ 1112 * h <= c /\ c <= 20005 * h
  <2>1. f[h] \in Nat /\ f[0] + (1112 * (h - 0)) <= f[h] /\ f[h] <= f[0] + (20005 * (h - 0))
    BY <1>1, <1>8, <1>11, CostsRise
  <2>2. QED BY <1>3, <1>9, <1>10, <2>1
<1>13. g \in Nat /\ 1112 * m <= g
  <2>1. f[m] \in Nat /\ f[0] + (1112 * (m - 0)) <= f[m]
    BY <1>1, <1>8, <1>11, CostsRise
  <2>2. QED BY <1>9, <1>10, <1>11, <2>1
<1>14. CASE search.src.node = search.dst.node
  <2>1. c > 2224
    BY <1>3, <1>7, <1>12
  <2>2. k >= 2
    BY <1>3, <1>7
  <2>3. QED BY <1>2, <1>5, <1>10, <1>14, <2>1, <2>2
<1>15. CASE search.src.node # search.dst.node
  <2>1. PICK b : b = search.dst.node
    OBVIOUS
  <2>2. b \in Nat
    BY <2>1, EndPoints DEF IsVertex
  <2>3. f[m] + ToGo(t[m + 1], b) <= f[h] + ToGo(t[h + 1], b)
    BY <1>1, <1>8, <1>11, <2>2, CostToGo
  <2>4. ToGo(t[j], b) = 60015 /\ ToGo(t[h + 1], b) = 0
    BY <1>3, <1>4, <1>15, <2>1 DEF ToGo
  <2>5. g + 60015 <= c + 0
    BY <1>9, <1>11, <2>3, <2>4
  <2>6. c >= 62239
    BY <1>11, <1>12, <1>13, <2>5
  <2>7. h >= 4
    BY <1>3, <1>12, <2>6
  <2>8. k >= 4
    BY <1>3, <1>7, <2>7
  <2>9. c > 61127
    BY <1>12, <2>6
  <2>10. QED BY <1>2, <1>5, <1>10, <1>15, <2>8, <2>9
<1>16. QED BY <1>14, <1>15

(* By way of another GPU of the source's node there is a walk that is not  *)
(* as expensive.                                                           *)
LEMMA DetourInNode ==
  ASSUME SearchOK, search.src.kind = "gpu", search.dst.kind = "gpu", search.max_hops >= 2,
         search.src # search.dst, search.src.node = search.dst.node,
         NEW x \in 0 .. (search.gpus - 1), x # search.src.id
  PROVE  \E w \in Walks : Cost(w) <= 2224 /\ w[2].id = x
<1>1. PICK s, d, X : s = search.src /\ d = search.dst /\ X = Peer(search.src.node, x)
  OBVIOUS
<1>2. /\ s \in Vertices /\ d \in Vertices /\ s.node = d.node /\ s # d
      /\ s.kind = "gpu" /\ d.kind = "gpu" /\ s.node \in 0 .. (search.nodes - 1)
      /\ s = Peer(s.node, s.id) /\ d = Peer(d.node, d.id)
  BY <1>1, EndPoints
<1>3. X \in Vertices /\ X.kind = "gpu" /\ X.node = s.node /\ X.id = x /\ s.id # x /\ s.id # d.id
  BY <1>1, <1>2, IsVertices DEF Peer
<1>4. ASSUME NEW u \in Vertices, NEW v \in Vertices, u.kind = "gpu", v.kind = "gpu",
             u.node = v.node, u.id # v.id
      PROVE  v \in Successors(u) /\ EdgeCost(u, v) = 1112
  BY <1>4, EdgeTable
<1>5. CASE X = d
  <2>1. PICK t : t = <<s, d>>
    OBVIOUS
  <2>2. t \in Seq(Vertices) /\ Len(t) = 2 /\ t[1] = s /\ t[2] = d
    BY <1>2, <2>1
  <2>3. Trail(t)
    <3>1. ASSUME NEW i \in 1..1 PROVE t[i + 1] \in Successors(t[i]) /\ t[i] # d
      <4>1. i = 1
        OBVIOUS
      <4>2. QED BY <1>2, <1>3, <1>4, <2>2, <4>1
    <3>2. \A i, j \in 2..2 : i = j
      OBVIOUS
    <3>3. QED BY <1>1, <2>2, <3>1, <3>2 DEF Trail
  <2>4. Hops(t) = 1 /\ Last(t) = d
    BY <2>2 DEF Hops, Last
  <2>5. t \in Walks
    BY <1>1, <2>3, <2>4, WalksAre DEF SearchOK
  <2>6. PICK f : Costs(t, f)
    BY <2>3, CostsExist
  <2>7. f[0] = 0 /\ f[1] = f[0] + EdgeCost(t[1], t[2])
    <3>1. 1 \in 1..1 /\ 1 - 1 = 0 /\ 1 + 1 = 2
      OBVIOUS
    <3>2. QED BY <2>4, <2>6, <3>1 DEF Costs
  <2>8. Cost(t) = 1112
    BY <1>2, <1>3, <1>4, <2>2, <2>3, <2>4, <2>6, <2>7, CostIs
  <2>9. QED BY <1>3, <1>5, <2>2, <2>5, <2>8
<1>6. CASE X # d
  <2>1. PICK t : t = <<s, X, d>>
    OBVIOUS
  <2>2. t \in Seq(Vertices) /\ Len(t) = 3 /\ t[1] = s /\ t[2] = X /\ t[3] = d
    BY <1>2, <1>3, <2>1
  <2>3. x # d.id
    BY <1>1, <1>2, <1>6
  <2>4. X \in Successors(s) /\ EdgeCost(s, X) = 1112 /\ d \in Successors(X) /\ EdgeCost(X, d) = 1112
    BY <1>2, <1>3, <1>4, <2>3
  <2>5. Trail(t)
    <3>1. ASSUME NEW i \in 1..2 PROVE t[i + 1] \in Successors(t[i]) /\ t[i] # d
      <4>1. i = 1 \/ i = 2
        OBVIOUS
      <4>2. QED BY <1>2, <1>6, <2>2, <2>4, <4>1
    <3>2. ASSUME NEW i \in 2..3, NEW j \in 2..3, t[i] = t[j] PROVE i = j
      <4>1. (i = 2 \/ i = 3) /\ (j = 2 \/ j = 3)
        OBVIOUS
      <4>2. QED BY <1>6, <2>2, <3>2, <4>1
    <3>3. QED BY <1>1, <2>2, <3>1, <3>2 DEF Trail
  <2>6. Hops(t) = 2 /\ Last(t) = d
    BY <2>2 DEF Hops, Last
  <2>7. t \in Walks
    BY <1>1, <2>5, <2>6, WalksAre DEF SearchOK
  <2>8. PICK f : Costs(t, f)
    BY <2>5, CostsExist
  <2>9. f[0] = 0 /\ f[1] = f[0] + EdgeCost(t[1], t[2]) /\ f[2] = f[1] + EdgeCost(t[2], t[3])
    <3>1. 1 \in 1..2 /\ 1 - 1 = 0 /\ 1 + 1 = 2 /\ 2 \in 1..2 /\ 2 - 1 = 1 /\ 2 + 1 = 3
      OBVIOUS
    <3>2. QED BY <2>6, <2>8, <3>1 DEF Costs
  <2>10. Cost(t) = 2224
    BY <2>2, <2>4, <2>5, <2>6, <2>8, <2>9, CostIs
  <2>11. QED BY <1>3, <2>2, <2>7, <2>10
<1>7. QED BY <1>5, <1>6

LEMMA DetourBetweenNodes ==
  ASSUME SearchOK, BetweenNodes, search.max_hops >= 4,
         NEW x \in 0 .. (search.gpus - 1), x # search.src.id
  PROVE  \E w \in Walks : Cost(w) <= 61127 /\ w[2].id = x
<1>1. PICK s, d, X, A, B : /\ s = search.src /\ d = search.dst /\ X = Peer(search.src.node, x)
                           /\ A = Port(search.src.node, 0) /\ B = Port(search.dst.node, 0)
  OBVIOUS
<1>2. /\ s \in Vertices /\ d \in Vertices /\ s.node # d.node
      /\ s.kind = "gpu" /\ d.kind = "gpu" /\ s.node \in 0 .. (search.nodes - 1)
  BY <1>1, EndPoints DEF BetweenNodes
<1>3. X \in Vertices /\ X.kind = "gpu" /\ X.node = s.node /\ X.id = x /\ s.id # x
  BY <1>1, <1>2, IsVertices DEF Peer
<1>4. /\ A \in Vertices /\ B \in Vertices /\ B \in Successors(A) /\ d \in Successors(B)
      /\ EdgeCost(A, B) = 20005 /\ EdgeCost(B, d) = 20005
  <2>1. 0 \in {0, 1}
    OBVIOUS
  <2>2. QED BY <1>1, <2>1, RailEdges
<1>5. A.kind = "ib" /\ A.node = s.node /\ B.kind = "ib" /\ B.node = d.node
  BY <1>1 DEF Port
<1>6. X \in Successors(s) /\ EdgeCost(s, X) = 1112
  BY <1>2, <1>3, EdgeTable
<1>7. A \in Successors(X) /\ EdgeCost(X, A) = 20005
  <2>1. {X.kind, A.kind} = {"gpu", "ib"}
    BY <1>3, <1>5
  <2>2. A \in Successors(X)
    BY <1>3, <1>4, <1>5, <2>1, EdgeTable
  <2>3. QED BY <1>3, <1>4, <1>5, <2>2, EdgeTable
<1>8. s # d /\ X # d /\ A # d /\ B # d /\ X # A /\ X # B /\ A # B
  BY <1>2, <1>3, <1>5
<1>9. PICK t : t = <<s, X, A, B, d>>
  OBVIOUS
<1>10. /\ t \in Seq(Vertices) /\ Len(t) = 5
       /\ t[1] = s /\ t[2] = X /\ t[3] = A /\ t[4] = B /\ t[5] = d
  BY <1>2, <1>3, <1>4, <1>9
<1>11. Trail(t)
  <2>1. ASSUME NEW i \in 1..4 PROVE t[i + 1] \in Successors(t[i]) /\ t[i] # d
    <3>1. i = 1 \/ i = 2 \/ i = 3 \/ i = 4
      OBVIOUS
    <3>2. QED BY <1>4, <1>6, <1>7, <1>8, <1>10, <3>1
  <2>2. ASSUME NEW i \in 2..5, NEW j \in 2..5, t[i] = t[j] PROVE i = j
    <3>1. (i = 2 \/ i = 3 \/ i = 4 \/ i = 5) /\ (j = 2 \/ j = 3 \/ j = 4 \/ j = 5)
      OBVIOUS
    <3>2. QED BY <1>8, <1>10, <2>2, <3>1
  <2>3. QED BY <1>1, <1>10, <2>1, <2>2 DEF Trail
<1>12. Hops(t) = 4 /\ Last(t) = d
  BY <1>10 DEF Hops, Last
<1>13. t \in Walks
  BY <1>1, <1>11, <1>12, WalksAre DEF SearchOK
<1>14. PICK f : Costs(t, f)
  BY <1>11, CostsExist
<1>15. /\ f[0] = 0 /\ f[1] = f[0] + EdgeCost(t[1], t[2]) /\ f[2] = f[1] + EdgeCost(t[2], t[3])
       /\ f[3] = f[2] + EdgeCost(t[3], t[4]) /\ f[4] = f[3] + EdgeCost(t[4], t[5])
  <2>1. \A n \in 1..4 : f[n] = f[n - 1] + EdgeCost(t[n], t[n + 1])
    BY <1>12, <1>14 DEF Costs
  <2>2. f[0] = 0
    BY <1>14 DEF Costs
  <2>3. /\ 1 \in 1..4 /\ 1 - 1 = 0 /\ 1 + 1 = 2 /\ 2 \in 1..4 /\ 2 - 1 = 1 /\ 2 + 1 = 3
        /\ 3 \in 1..4 /\ 3 - 1 = 2 /\ 3 + 1 = 4 /\ 4 \in 1..4 /\ 4 - 1 = 3 /\ 4 + 1 = 5
    OBVIOUS
  <2>4. QED BY <2>1, <2>2, <2>3
<1>16. f[4] = 61127
  BY <1>4, <1>6, <1>7, <1>10, <1>15
<1>17. Cost(t) = 61127
  BY <1>11, <1>12, <1>14, <1>16, CostIs
<1>18. QED BY <1>3, <1>10, <1>13, <1>17

LEMMA InvLoopFree == SearchInv => LoopFree
<1> SUFFICES ASSUME SearchInv, search.src.kind = "gpu", search.dst.kind = "gpu",
                    search.gpus > search.k,
                    NEW path \in Range(result), ~IsInjective(path)
             PROVE  FALSE
  BY DEF LoopFree
<1>1. SearchOK
  BY DEF SearchInv
<1>2. PICK s, k, g : s = search.src.id /\ k = search.k /\ g = search.gpus
  OBVIOUS
<1>3. k \in Nat /\ g \in Nat /\ g > k /\ s \in 0 .. (g - 1)
  <2>1. k \in Nat /\ g \in Nat /\ g > k
    BY <1>1, <1>2 DEF SearchOK
  <2>2. QED BY <1>1, <1>2, <2>1, EndPoints
<1>4. path \in Walks
  BY DEF SearchInv, FoundOK, Range
<1>5. PICK X, R : X = (0 .. (g - 1)) \ {s} /\ R = Range(result) \ {path}
  OBVIOUS
<1>6. ASSUME NEW x \in X PROVE \E w \in R : w[2].id = x
  <2>1. x \in 0 .. (search.gpus - 1) /\ x # search.src.id
    BY <1>2, <1>5
  <2>2. \E w \in Walks : Cost(w) < Cost(path) /\ w[2].id = x
    <3>1. \A w \in Walks : Cost(w) \in Nat
      BY <1>1, WalkIs
    <3>2. CASE search.src.node = search.dst.node
      <4>1. search.src # search.dst /\ search.max_hops >= 2 /\ Cost(path) > 2224
        BY <1>1, <1>4, <3>2, LoopsCost
      <4>2. PICK w \in Walks : Cost(w) <= 2224 /\ w[2].id = x
        BY <1>1, <2>1, <3>2, <4>1, DetourInNode
      <4>3. Cost(w) < Cost(path)
        BY <1>4, <3>1, <4>1, <4>2
      <4>4. QED BY <4>2, <4>3
    <3>3. CASE search.src.node # search.dst.node
      <4>1. search.max_hops >= 4 /\ Cost(path) > 61127
        BY <1>1, <1>4, <3>3, LoopsCost
      <4>2. PICK w \in Walks : Cost(w) <= 61127 /\ w[2].id = x
        BY <1>1, <2>1, <3>3, <4>1, DetourBetweenNodes DEF BetweenNodes
      <4>3. Cost(w) < Cost(path)
        BY <1>4, <3>1, <4>1, <4>2
      <4>4. QED BY <4>2, <4>3
    <3>4. QED BY <3>2, <3>3
  <2>3. PICK w \in Walks : Cost(w) < Cost(path) /\ w[2].id = x
    BY <2>2
  <2>4. Cost(path) \in Nat /\ Cost(w) \in Nat
    BY <1>1, <1>4, WalkIs
  <2>5. w # path
    BY <2>3, <2>4
  <2>6. w \in Range(result)
    <3>1. SUFFICES ASSUME w \notin Range(result) PROVE FALSE
      OBVIOUS
    <3>2. Cost(path) <= Cost(w)
      BY <3>1, FoundAreCheapest
    <3>3. QED BY <2>3, <2>4, <3>2
  <2>7. QED BY <1>5, <2>3, <2>5, <2>6
<1>7. PICK F : F = [x \in X |-> CHOOSE w \in R : w[2].id = x]
  OBVIOUS
<1>8. ASSUME NEW x \in X PROVE F[x] \in R /\ F[x][2].id = x
  BY <1>6, <1>7
<1>9. F \in Injection(X, R)
  <2>1. F \in [X -> R]
    BY <1>7, <1>8
  <2>2. \A x, y \in X : F[x] = F[y] => x = y
    BY <1>8
  <2>3. DOMAIN F = X
    BY <1>7
  <2>4. QED BY <2>1, <2>2, <2>3 DEF Injection, IsInjective
<1>10. PICK n : n = Len(result)
  OBVIOUS
<1>11. /\ IsFiniteSet(Range(result)) /\ Cardinality(Range(result)) = n
       /\ n \in Nat /\ n <= k
  BY <1>2, <1>10, ResultCount
<1>12. IsFiniteSet(R) /\ Cardinality(R) = n - 1
  BY <1>5, <1>11, FS_RemoveElement
<1>13. Cardinality(X) = g - 1
  <2>1. 0 \in Int /\ g - 1 \in Int
    BY <1>3
  <2>2. IsFiniteSet(0 .. (g - 1)) /\ Cardinality(0 .. (g - 1)) = g
    BY <1>3, <2>1, FS_Interval
  <2>3. QED BY <1>3, <1>5, <2>2, FS_RemoveElement
<1>14. Cardinality(X) <= Cardinality(R)
  BY <1>9, <1>12, FS_Injection
<1>15. QED BY <1>3, <1>11, <1>12, <1>13, <1>14

(* With more GPUs in a node than paths are wanted, no path between GPUs    *)
(* meets a vertex twice (topology.cpp:79): the check for cycles lets a     *)
(* path come back to its source, but the detours through the other GPUs of *)
(* the source's node are cheaper and use up k.                             *)
THEOREM NoLoops == SearchSpec => []LoopFree
BY SearchInvariant, InvLoopFree, PTL
=============================================================================
