----------------------------- MODULE PluginRails -----------------------------
(***************************************************************************)
(* The rails under the NCCL plugin: the ibverbs transport with its list of *)
(* devices and its queue of work requests (shim/ibverbs_transport.cpp),    *)
(* and the communicators that bind a connection to a rail                  *)
(* (shim/nccl_plugin.cpp: devices, getProperties, listen, connect, accept, *)
(* close).                                                                 *)
(*                                                                         *)
(* A chunk is copied in two sections of the transport's lock, post_write   *)
(* and poll, after a look at ready_ outside of it: several threads may be  *)
(* in between, and each poll takes requests of whoever posted them.  NCCL  *)
(* carries the handle of a listening communicator to its peer: connect     *)
(* reads the communicator through the pointer in it, and what it finds     *)
(* when the listener has been closed is whatever the memory holds.         *)
(*                                                                         *)
(* Abstracted: a work request is completed when it is queued and its       *)
(* length is not 0 (maybe_wire_chunk, transfer_executor.cpp:261), so the   *)
(* queue is the number of requests in it; names, guids and MR keys.        *)
(***************************************************************************)
EXTENDS Integers, FiniteSets

CONSTANTS
  Posters,     \* threads that call transfer_chunk
  PollBatch,   \* the 8 of transfer_chunk
  TickBatch,   \* the 32 of TransferExecutor::tick
  PluginRailCount,  \* kPluginRails
  FoundCounts, \* how many devices a machine may have; 0: two placeholders
  MaxComms     \* bound on the communicators created

ASSUME RailsAssumption ==
  /\ {PollBatch, TickBatch, PluginRailCount} \subseteq Nat \ {0}
  /\ MaxComms \in Nat /\ FoundCounts \subseteq Nat
  /\ IsFiniteSet(Posters)

VARIABLES
  found,     \* the devices of the machine
  ready,     \* ready_
  rails,     \* the number of devices_
  pending,   \* the number of pending_
  posting,   \* where a thread is in transfer_chunk
  announced, \* the largest number of devices NCCL has been told of
  comms      \* the communicators, in the order they were created

railsVars == <<found, ready, rails, pending, posting, announced, comms>>

RailsInit ==
  /\ found \in FoundCounts
  /\ ready = FALSE /\ rails = 0 /\ pending = 0
  /\ posting = [t \in Posters |-> "no"]
  /\ announced = 0
  /\ comms = [c \in {} |-> "none"]

-----------------------------------------------------------------------------
(* The transport *)

(* discover_sysfs: the first kPluginRails devices, in order of their name. *)
Discovered ==
  LET names == IF found = 0 THEN 2 ELSE found
  IN IF names < PluginRailCount THEN names ELSE PluginRailCount

(* init finds nothing to do when the transport is ready.                   *)
InitTransport ==
  /\ ~ready
  /\ ready' = TRUE /\ rails' = Discovered
  /\ UNCHANGED <<found, pending, posting, announced, comms>>

Shutdown ==
  /\ ready' = FALSE /\ rails' = 0 /\ pending' = 0
  /\ UNCHANGED <<found, posting, announced, comms>>

(* post_write reads ready_ before it takes the lock...                     *)
SeeReady(t) ==
  /\ posting[t] = "no" /\ ready
  /\ posting' = [posting EXCEPT ![t] = "ready"]
  /\ UNCHANGED <<found, ready, rails, pending, announced, comms>>

(* ... under which it copies the bytes and queues the request.             *)
\* mutant: the caller is done when the bytes are copied
PostForgotten(t) ==
  /\ posting[t] = "ready"
  /\ pending' = pending + 1
  /\ posting' = [posting EXCEPT ![t] = "no"]
  /\ UNCHANGED <<found, ready, rails, announced, comms>>

PostWrite(t) ==
  /\ posting[t] = "ready"
  /\ pending' = pending + 1
  /\ posting' = [posting EXCEPT ![t] = "posted"]
  /\ UNCHANGED <<found, ready, rails, announced, comms>>

Polled(batch) == IF pending > batch THEN pending - batch ELSE 0

PollOwn(t) ==
  /\ posting[t] = "posted"
  /\ pending' = Polled(PollBatch)
  /\ posting' = [posting EXCEPT ![t] = "no"]
  /\ UNCHANGED <<found, ready, rails, announced, comms>>

(* TransferExecutor::tick polls once for all its chunks.                   *)
PollTick ==
  /\ pending > 0
  /\ pending' = Polled(TickBatch)
  /\ UNCHANGED <<found, ready, rails, posting, announced, comms>>

-----------------------------------------------------------------------------
(* The communicators *)

(* plugin_devices, on a transport that is ready (it calls init if not).    *)
Devices ==
  /\ ready
  /\ LET ndev == IF rails > 1 THEN rails ELSE 1
     IN announced' = IF ndev > announced THEN ndev ELSE announced
  /\ UNCHANGED <<found, ready, rails, pending, posting, comms>>

NewComm(kind, rail, listen, live) ==
  /\ Cardinality(DOMAIN comms) < MaxComms
  /\ comms' = [c \in 1 .. (Cardinality(DOMAIN comms) + 1) |->
                 IF c \in DOMAIN comms THEN comms[c]
                 ELSE [kind |-> kind, rail |-> rail, listen |-> listen, live |-> live,
                       closed |-> FALSE]]
  /\ UNCHANGED <<found, ready, rails, pending, posting, announced>>

Listen(dev) == dev < announced /\ NewComm("listen", dev, 0, TRUE)

(* The two devices of NCCL may differ: the connection is on the rail of    *)
(* the listener.                                                           *)
\* mutant: the sender stays on its own device
ConnectOwn(dev, l) ==
  /\ comms[l].kind = "listen" /\ dev < announced
  /\ \E rail \in 0 .. (PluginRailCount - 1) :
       /\ ~comms[l].closed => rail = dev
       /\ NewComm("send", rail, l, ~comms[l].closed)

Connect(dev, l) ==
  /\ comms[l].kind = "listen" /\ dev < announced
  /\ \E rail \in 0 .. (PluginRailCount - 1) :
       /\ ~comms[l].closed => rail = comms[l].rail
       /\ NewComm("send", rail, l, ~comms[l].closed)

(* NCCL accepts on a listener it has not closed.                           *)
Accept(l) ==
  /\ comms[l].kind = "listen" /\ ~comms[l].closed
  /\ NewComm("recv", comms[l].rail, l, TRUE)

(* closeSend, closeRecv and closeListen.                                   *)
Close(c) ==
  /\ ~comms[c].closed
  /\ comms' = [comms EXCEPT ![c].closed = TRUE]
  /\ UNCHANGED <<found, ready, rails, pending, posting, announced>>

RailsNext ==
  \/ InitTransport \/ Shutdown \/ PollTick \/ Devices
  \/ \E t \in Posters : SeeReady(t) \/ PostWrite(t) \/ PollOwn(t)
  \/ \E dev \in 0 .. (PluginRailCount - 1) : Listen(dev)
  \/ \E dev \in 0 .. (PluginRailCount - 1), l \in DOMAIN comms : Connect(dev, l)
  \/ \E c \in DOMAIN comms : Accept(c) \/ Close(c)

RailsSpec == RailsInit /\ [][RailsNext]_railsVars

-----------------------------------------------------------------------------
(* Properties *)

(* Every work request in the queue belongs to a thread that has yet to     *)
(* poll, whoever's requests a poll took: the queue does not grow, and is   *)
(* empty when no copy is under way (post_write pushes, ibverbs_transport.  *)
(* cpp:175; transfer_chunk polls a batch of 8 of whichever requests, :197).*)
NothingLeftPending ==
  pending <= Cardinality({t \in Posters : posting[t] = "posted"})

(* The ends of a connection made while its listener was open are on one    *)
(* rail, whichever devices NCCL chose for them (plugin_connect,            *)
(* nccl_plugin.cpp:148-150, plugin_accept, :162).                          *)
SameRail ==
  \A c, d \in DOMAIN comms :
    (comms[c].kind = "send" /\ comms[d].kind = "recv" /\ comms[c].listen = comms[d].listen
       /\ comms[c].live) => comms[c].rail = comms[d].rail
=============================================================================
