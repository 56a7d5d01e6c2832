----------------------------- MODULE NcclPlugin -----------------------------
(***************************************************************************)
(* The NCCL net plugin (shim/nccl_plugin.cpp): isend and irecv turn into   *)
(* transfers of the shim, an irecv takes the buffer of some pending send   *)
(* of its size for its source, and test polls the shim and forgets a       *)
(* request once it is over.  Each call holds g_mu, so each is one action.  *)
(*                                                                         *)
(* The plugin never sets local_gpu or peer_rank of a communicator: source  *)
(* and destination of every request are one vertex, its path is the empty  *)
(* one, and nothing suspends it.  So a submission is submit and one tick,  *)
(* a poll is a tick (there is nothing to drain), and the chunks of all     *)
(* requests move alike, at the 1 GB/s of an empty path.  Request ids and   *)
(* transfer ids both count the posts and are the same number.              *)
(*                                                                         *)
(* Abstracted: tags decide only whether a request of less than a quantum   *)
(* is preemptible, which means nothing on an empty path; both ends are in  *)
(* one process, as the pairing requires; every request has a buffer.  A    *)
(* tick reads before it writes: the code's order differs only if one       *)
(* transfer reads what another one writes, after a receive was paired with *)
(* a receive.                                                              *)
(***************************************************************************)
EXTENDS Transfer

CONSTANTS
  SendBuffers, RecvBuffers,
  CommOf,       \* the pair of communicators a buffer is registered with
  NoBuffer,     \* nullptr
  Sizes,        \* request sizes, in units
  SubmitUnits,  \* the units a submission's tick moves (dt of 0.05 ms)
  TestUnits,    \* the units a test's poll moves (dt of 0.2 ms)
  MaxRequests   \* bound on the requests posted

ASSUME PluginAssumption ==
  /\ Paths = {{}}
  /\ Sizes \subseteq Nat \ {0}
  /\ {SubmitUnits, TestUnits} \subseteq Nat \ {0}
  /\ MaxRequests \in Nat
  /\ DOMAIN CommOf = SendBuffers \cup RecvBuffers
  /\ SendBuffers \cap RecvBuffers = {} /\ NoBuffer \notin SendBuffers \cup RecvBuffers

VARIABLES
  transfers,  \* the executor's table
  bound,      \* bound[id]: the buffers of transfer id, [src, dst]
  requests,   \* g_requests: id to [size, data, peer_buf]
  memory,     \* memory[buf][b]: the send whose byte is there, 0 for none
  posted,     \* what was posted: [send, size, buf, from, expects, late]
  calls       \* the parity of the calls of test: each call is a step, even
              \* one that changes nothing else

vars == <<transfers, bound, requests, memory, posted, calls>>

Buffers == SendBuffers \cup RecvBuffers
Units == UNION {0 .. (size - 1) : size \in Sizes}

Init ==
  /\ transfers = <<>> /\ bound = <<>> /\ posted = <<>>
  /\ requests = [id \in {} |-> 0]
  /\ calls = 0
  /\ memory = [buf \in Buffers |-> [b \in Units |-> 0]]

-----------------------------------------------------------------------------
(* The shim below the plugin *)

AtRate(units) == [p \in Paths |-> units]

(* What a tick leaves in memory: each active transfer with both buffers    *)
(* bound copies the bytes its chunks move.                                 *)
Copied(mem, table, buffers, units) ==
  [buf \in Buffers |-> [b \in Units |->
     LET writers == {id \in DOMAIN table :
                       /\ Active(table[id])
                       /\ buffers[id].dst = buf /\ buffers[id].src # NoBuffer
                       /\ Wired(table[id], AtRate(units), b) # {}}
     IN  IF writers = {} THEN mem[buf][b]
         ELSE mem[buffers[CHOOSE id \in writers : TRUE].src][b]]]

(* classify_tag: a quantum and more is a KV migration, whatever its tag.   *)
IsKv(size) == size >= ChunkBytes

Chunks(size) ==
  IF IsKv(size) /\ size > ChunkBytes THEN Stripe(size, [i \in 1..NumChunks(size) |-> {}])
                                     ELSE Whole(size, {})

SubmitTransfer(size, src, dst, mem) ==
  LET table == Submitted(transfers, IsKv(size), size, Chunks(size))
  IN  /\ UNCHANGED calls
      /\ bound' = Append(bound, [src |-> src, dst |-> dst])
      /\ transfers' = TickAll(table, AtRate(SubmitUnits))
      /\ memory' = Copied(mem, table, bound', SubmitUnits)

-----------------------------------------------------------------------------
(* The plugin *)

NewId == Len(posted) + 1

(* NCCL leaves the buffer of a request alone until the request is done.    *)
Free(buf) ==
  /\ NewId <= MaxRequests
  /\ \A id \in DOMAIN requests : requests[id].data # buf

AddRequest(table, size, data, peer) ==
  [id \in DOMAIN table \cup {NewId} |->
     IF id = NewId THEN [size |-> size, data |-> data, peer_buf |-> peer] ELSE table[id]]

(* The application has put a new message in the buffer: the number of the  *)
(* send itself.                                                            *)
Isend(buf, size) ==
  /\ Free(buf)
  /\ SubmitTransfer(size, buf, NoBuffer,
                    [memory EXCEPT ![buf] = [b \in Units |-> NewId]])
  /\ requests' = AddRequest(requests, size, buf, NoBuffer)
  /\ posted' = Append(posted, [send |-> TRUE, size |-> size, buf |-> buf, from |-> 0,
                               expects |-> 0, late |-> FALSE])

(* "a pending send that has src but no dst": of the requested size.        *)
Unpaired(size) ==
  {id \in DOMAIN requests : requests[id].size = size /\ requests[id].peer_buf = NoBuffer}

\* mutant: the pending send does not remember that it was paired
ClaimNothing(table, from, buf) == table

Claim(table, from, buf) == [table EXCEPT ![from].peer_buf = buf]

(* The send a receive is meant for: NCCL matches the sends and receives of *)
(* a communicator in order.                                                *)
OnComm(comm, send) ==
  {id \in DOMAIN posted : CommOf[posted[id].buf] = comm /\ posted[id].send = send}

Match(comm) ==
  {id \in OnComm(comm, TRUE) :
     Cardinality({s \in OnComm(comm, TRUE) : s < id}) = Cardinality(OnComm(comm, FALSE))}

(* The sends of a size that test has reported done and forgotten before    *)
(* any receive was paired with them.                                       *)
Forgotten(size) ==
  {id \in DOMAIN posted \ DOMAIN requests :
     /\ posted[id].send /\ posted[id].size = size
     /\ \A r \in DOMAIN posted : posted[r].from # id}

(* The send of a receive for which there is no other candidate: it has its *)
(* size, nothing was paired with it, and nothing else waits to be paired.  *)
Expected(comm, size) ==
  IF /\ Match(comm) # {} /\ Match(comm) \subseteq Unpaired(size) \cup Forgotten(size)
     /\ Unpaired(size) \subseteq Match(comm)
    THEN CHOOSE id \in Match(comm) : TRUE ELSE 0

Irecv(buf, size) ==
  /\ Free(buf)
  /\ \E from \in IF Unpaired(size) = {} THEN {0} ELSE Unpaired(size) :
       LET expects == Expected(CommOf[buf], size)
           src == IF from = 0 THEN NoBuffer ELSE requests[from].data
           table == IF from = 0 THEN requests ELSE Claim(requests, from, buf)
       IN  /\ SubmitTransfer(size, src, buf, memory)
           /\ requests' = AddRequest(table, size, buf, src)
           /\ posted' = Append(posted, [send |-> FALSE, size |-> size, buf |-> buf, from |-> from,
                                        expects |-> expects, late |-> expects \in Forgotten(size)])

\* mutant: done as soon as anything has moved
OverEarly(tp) == tp.bytesRemaining < tp.bytesTotal

Over(tp) == tp.state \in {"Completed", "Cancelled"} \/ tp.bytesRemaining = 0

\* mutant: test looks at the transfer without polling the shim
NoPoll == UNCHANGED <<transfers, memory>>

PollTransfers ==
  /\ transfers' = TickAll(transfers, AtRate(TestUnits))
  /\ memory' = Copied(memory, transfers, bound, TestUnits)

(* A request that is over is reported done and forgotten; a test of one    *)
(* that is unknown reports done at once and is a stuttering step.          *)
Test(id) ==
  /\ PollTransfers
  /\ requests' = [r \in DOMAIN requests \ (IF Over(transfers'[id]) THEN {id} ELSE {}) |->
                    requests[r]]
  /\ calls' = 1 - calls
  /\ UNCHANGED <<bound, posted>>

Next ==
  \/ \E buf \in SendBuffers, size \in Sizes : Isend(buf, size)
  \/ \E buf \in RecvBuffers, size \in Sizes : Irecv(buf, size)
  \/ \E id \in DOMAIN requests : Test(id)

(* NCCL's proxy thread tests every outstanding request again and again.    *)
(* This is weak fairness of Testing(id), which can be taken exactly when   *)
(* the request is outstanding.                                             *)
Testing(id) == id \in DOMAIN requests /\ Test(id)

Fairness ==
  \A id \in 1..MaxRequests : []<>(id \notin DOMAIN requests) \/ []<><<Testing(id)>>_vars

Spec == Init /\ [][Next]_vars /\ Fairness

-----------------------------------------------------------------------------
(* Properties *)

Request == [size : Sizes, data : Buffers, peer_buf : Buffers \cup {NoBuffer}]

(* The three tables describe the same posts, and no transfer sends past    *)
(* the end of a chunk, which would write past the receive buffer.          *)
TypeOK ==
  /\ transfers \in Seq(TransferProgress)
  /\ \A id \in DOMAIN transfers : \A i \in DOMAIN transfers[id].chunks :
       transfers[id].chunks[i].sent <= transfers[id].chunks[i].size
  /\ DOMAIN bound = DOMAIN posted /\ DOMAIN transfers = DOMAIN posted
  /\ DOMAIN requests \subseteq DOMAIN posted
  /\ \A id \in DOMAIN requests : requests[id] \in Request
  /\ memory \in [Buffers -> [Units -> {0} \cup DOMAIN posted]]
  /\ calls \in {0, 1}

(* No posted buffer is delivered to two receives, in whatever order sends, *)
(* receives and tests of several communicators come.                       *)
OneReceiverPerSend ==
  \A r, s \in DOMAIN posted :
    posted[r].from = posted[s].from /\ posted[r].from # 0 => r = s

(* A receive that was posted after its send, with no other candidate for   *)
(* the pairing, has its message, complete, when it is reported done, if    *)
(* the send's buffer was not used for a new message meanwhile.  This is so *)
(* unless the send had been reported done before the receive was posted    *)
(* (`late`): plugin_test has then erased its request, and plugin_irecv     *)
(* finds none (nccl_plugin.cpp:248-255, 303; see ReceiveIsFilled).         *)
Kept(send) ==
  \A id \in DOMAIN posted :
    id > send /\ posted[id].send => posted[id].buf # posted[send].buf

Meant(post) == post.expects # 0 /\ ~post.late

HasMessage(post, mem) ==
  \A b \in 0 .. (post.size - 1) : mem[post.buf][b] = post.expects

DoneMeansDelivered ==
  [][\A id \in DOMAIN requests \ DOMAIN requests' :
       Meant(posted[id]) /\ Kept(posted[id].expects) => HasMessage(posted[id], memory')]_vars

(* "Real KV path: bind source buffer; peer fill happens on matching irecv" *)
(* (plugin_isend, nccl_plugin.cpp:210): the same of each receive that has  *)
(* an expected send, also if that send has been reported done before.      *)
ReceiveIsFilled ==
  [][\A id \in DOMAIN requests \ DOMAIN requests' :
       posted[id].expects # 0 /\ Kept(posted[id].expects) => HasMessage(posted[id], memory')]_vars

(* A request that is tested again and again is reported done, whatever     *)
(* other requests are posted and tested.                                   *)
TestedIsDone ==
  \A id \in 1..MaxRequests : (id \in DOMAIN requests) ~> (id \notin DOMAIN requests)

(* "Pair with a pending send that has src but no dst" (plugin_irecv): what *)
(* a receive is paired with is a send.                                     *)
PairsWithSend ==
  \A id \in DOMAIN posted : posted[id].from # 0 => posted[posted[id].from].send
=============================================================================
