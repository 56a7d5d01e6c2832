-------------------------- MODULE NcclPluginProofs --------------------------
(***************************************************************************)
(* The NCCL plugin, for any buffers, communicators, sizes and number of    *)
(* requests: a buffer that was posted is delivered to one receive at most, *)
(* and a receive whose send was still outstanding when it was posted, and  *)
(* without a rival for the pairing, is done only when its message is all   *)
(* there.                                                                  *)
(***************************************************************************)
EXTENDS NcclPlugin, TransferProofs

(* A request that some receive was paired with was posted before it and    *)
(* carries the receive's buffer as long as it is outstanding, so irecv     *)
(* does not find it again; and requests are never more than were posted.   *)
Paired(table, posts, r) ==
  posts[r].from # 0 =>
    /\ posts[r].from \in 1 .. (r - 1)
    /\ posts[r].from \in DOMAIN table => table[posts[r].from].peer_buf # NoBuffer

OnceEach(posts) ==
  \A r, s \in DOMAIN posts : posts[r].from = posts[s].from /\ posts[r].from # 0 => r = s

PairingOK(table, posts) ==
  /\ DOMAIN posts = 1 .. Len(posts) /\ Len(posts) \in Nat
  /\ DOMAIN table \subseteq DOMAIN posts
  /\ \A r \in DOMAIN posts : Paired(table, posts, r)
  /\ OnceEach(posts)

Post == [send : BOOLEAN, size : Sizes, buf : Buffers, from : Nat, expects : Nat,
         late : BOOLEAN]

PairingInv ==
  /\ posted \in Seq(Post)
  /\ \A id \in DOMAIN requests : requests[id] \in Request
  /\ PairingOK(requests, posted)

(* What a post does to the two tables: the new one may take a request that *)
(* has no peer, which then has one.                                        *)
Posts(table, posts, post, table2, posts2) ==
  /\ post.from = 0 \/ (post.from \in DOMAIN table /\ table[post.from].peer_buf = NoBuffer)
  /\ Len(posts2) = Len(posts) + 1 /\ DOMAIN posts2 = 1 .. (Len(posts) + 1)
  /\ \A r \in 1 .. Len(posts) : posts2[r] = posts[r]
  /\ posts2[Len(posts) + 1] = post
  /\ DOMAIN table2 = DOMAIN table \cup {Len(posts) + 1}
  /\ \A id \in DOMAIN table :
       IF id = post.from THEN table2[id].peer_buf # NoBuffer ELSE table2[id] = table[id]

LEMMA PostKeepsPairing ==
  ASSUME NEW table, NEW posts, PairingOK(table, posts),
         NEW post, NEW table2, NEW posts2, Posts(table, posts, post, table2, posts2)
  PROVE  PairingOK(table2, posts2)
<1> DEFINE n == Len(posts)
<1>1. n \in Nat /\ DOMAIN posts = 1..n /\ DOMAIN table \subseteq 1..n
  BY DEF PairingOK
<1>2. /\ post.from = 0 \/ (post.from \in DOMAIN table /\ table[post.from].peer_buf = NoBuffer)
      /\ Len(posts2) = n + 1 /\ DOMAIN posts2 = 1 .. (n + 1)
      /\ \A r \in 1..n : posts2[r] = posts[r]
      /\ posts2[n + 1] = post
      /\ DOMAIN table2 = DOMAIN table \cup {n + 1}
      /\ \A id \in DOMAIN table :
           IF id = post.from THEN table2[id].peer_buf # NoBuffer ELSE table2[id] = table[id]
  BY DEF Posts
<1> HIDE DEF n
<1>3. ASSUME NEW r \in 1..n PROVE Paired(table2, posts2, r) /\ (post.from # 0 => posts2[r].from # post.from)
  <2>1. Paired(table, posts, r) /\ posts2[r] = posts[r]
    BY <1>1, <1>2 DEF PairingOK
  <2>2. CASE posts[r].from = 0
    BY <2>1, <2>2 DEF Paired
  <2>3. CASE posts[r].from # 0
    <3>1. /\ posts[r].from \in 1 .. (r - 1)
          /\ posts[r].from \in DOMAIN table => table[posts[r].from].peer_buf # NoBuffer
      BY <2>1, <2>3 DEF Paired
    <3>2. posts[r].from # n + 1
      BY <1>1, <3>1
    <3>3. post.from # 0 => posts[r].from # post.from
      BY <1>2, <3>1
    <3>4. posts[r].from \in DOMAIN table2 => table2[posts[r].from].peer_buf # NoBuffer
      BY <1>2, <3>1, <3>2
    <3>5. QED BY <2>1, <3>1, <3>3, <3>4 DEF Paired
  <2>4. QED BY <2>2, <2>3
<1>4. Paired(table2, posts2, n + 1)
  <2>1. posts2[n + 1].from = post.from
    BY <1>2
  <2>2. CASE post.from # 0
    <3>1. post.from \in DOMAIN table /\ post.from \in 1 .. ((n + 1) - 1)
      BY <1>1, <1>2, <2>2
    <3>2. table2[post.from].peer_buf # NoBuffer
      BY <1>2, <3>1
    <3>3. QED BY <2>1, <3>1, <3>2 DEF Paired
  <2>3. QED BY <2>1, <2>2 DEF Paired
<1>5. \A r \in 1 .. (n + 1) : r \in 1..n \/ r = n + 1
  BY <1>1
<1>6. \A r \in DOMAIN posts2 : Paired(table2, posts2, r)
  BY <1>2, <1>3, <1>4, <1>5
<1>7. OnceEach(posts2)
  <2> SUFFICES ASSUME NEW r \in DOMAIN posts2, NEW s \in DOMAIN posts2,
                      posts2[r].from = posts2[s].from, posts2[r].from # 0
               PROVE  r = s
    BY DEF OnceEach
  <2>1. CASE r \in 1..n /\ s \in 1..n
    BY <1>1, <1>2, <2>1 DEF PairingOK, OnceEach
  <2>2. CASE r = n + 1 \/ s = n + 1
    BY <1>2, <1>3, <1>5, <2>2
  <2>3. QED BY <1>2, <1>5, <2>1, <2>2
<1>8. DOMAIN table2 \subseteq DOMAIN posts2
  BY <1>1, <1>2
<1>9. QED BY <1>1, <1>2, <1>6, <1>7, <1>8 DEF PairingOK

LEMMA PostKeeps ==
  ASSUME PairingInv, NEW post \in Post, posted' = Append(posted, post),
         post.from = 0 \/ (post.from \in DOMAIN requests /\ requests[post.from].peer_buf = NoBuffer),
         DOMAIN requests' = DOMAIN requests \cup {Len(posted) + 1},
         \A id \in DOMAIN requests' : requests'[id] \in Request,
         \A id \in DOMAIN requests :
           IF id = post.from THEN requests'[id].peer_buf # NoBuffer
                             ELSE requests'[id] = requests[id]
  PROVE  PairingInv'
<1>1. posted \in Seq(Post) /\ PairingOK(requests, posted)
  BY DEF PairingInv
<1>2. posted' \in Seq(Post)
  BY <1>1
<1>3. /\ Len(posted') = Len(posted) + 1 /\ DOMAIN posted' = 1 .. (Len(posted) + 1)
      /\ \A r \in 1 .. Len(posted) : posted'[r] = posted[r]
      /\ posted'[Len(posted) + 1] = post
  BY <1>1
<1>4. Posts(requests, posted, post, requests', posted')
  BY <1>3 DEF Posts
<1>5. QED BY <1>1, <1>2, <1>4, PostKeepsPairing DEF PairingInv

LEMMA IsendKeeps ==
  ASSUME PairingInv, NEW buf \in SendBuffers, NEW size \in Sizes, Isend(buf, size)
  PROVE  PairingInv'
<1> DEFINE post == [send |-> TRUE, size |-> size, buf |-> buf, from |-> 0, expects |-> 0,
                  late |-> FALSE]
<1>1. post \in Post /\ post.from = 0
  BY DEF Post, Buffers
<1>2. posted' = Append(posted, post)
  BY DEF Isend
<1>3. /\ DOMAIN requests' = DOMAIN requests \cup {Len(posted) + 1}
      /\ \A id \in DOMAIN requests : id # Len(posted) + 1 => requests'[id] = requests[id]
  BY DEF Isend, AddRequest, NewId
<1>4. \A id \in DOMAIN requests : id # Len(posted) + 1 /\ id # 0
  BY DEF PairingInv, PairingOK
<1> HIDE DEF post
<1>5. requests'[Len(posted) + 1] = [size |-> size, data |-> buf, peer_buf |-> NoBuffer]
  BY DEF Isend, AddRequest, NewId
<1>6. \A id \in DOMAIN requests' : requests'[id] \in Request
  BY <1>3, <1>5 DEF PairingInv, Request, Buffers
<1>7. QED BY <1>1, <1>2, <1>3, <1>4, <1>6, PostKeeps

LEMMA ExpectedType ==
  ASSUME PairingInv, NEW comm, NEW size
  PROVE  Expected(comm, size) \in Nat
<1>1. Match(comm) \subseteq DOMAIN posted
  BY DEF Match, OnComm
<1>2. DOMAIN posted \subseteq Nat
  BY DEF PairingInv, PairingOK
<1>3. CASE Match(comm) # {}
  <2>1. (CHOOSE id \in Match(comm) : TRUE) \in Match(comm)
    BY <1>3
  <2>2. QED BY <1>1, <1>2, <2>1 DEF Expected
<1>4. QED BY <1>3 DEF Expected

LEMMA IrecvKeeps ==
  ASSUME PairingInv, NEW buf \in RecvBuffers, NEW size \in Sizes, Irecv(buf, size)
  PROVE  PairingInv'
<1> DEFINE expects == Expected(CommOf[buf], size)
           late == expects \in Forgotten(size)
<1>1. PICK from \in IF Unpaired(size) = {} THEN {0} ELSE Unpaired(size) :
        LET src == IF from = 0 THEN NoBuffer ELSE requests[from].data
            table == IF from = 0 THEN requests ELSE Claim(requests, from, buf)
        IN  /\ requests' = AddRequest(table, size, buf, src)
            /\ posted' = Append(posted, [send |-> FALSE, size |-> size, buf |-> buf,
                                         from |-> from, expects |-> expects, late |-> late])
  BY DEF Irecv
<1> DEFINE src == IF from = 0 THEN NoBuffer ELSE requests[from].data
           table == IF from = 0 THEN requests ELSE Claim(requests, from, buf)
           post == [send |-> FALSE, size |-> size, buf |-> buf, from |-> from, expects |-> expects,
                    late |-> late]
<1>2. requests' = AddRequest(table, size, buf, src) /\ posted' = Append(posted, post)
  BY <1>1
<1>3. \A id \in DOMAIN requests : id \in Nat /\ id # Len(posted) + 1 /\ id # 0
  BY DEF PairingInv, PairingOK
<1>4. from = 0 \/ (from \in DOMAIN requests /\ requests[from].peer_buf = NoBuffer)
  BY <1>1 DEF Unpaired
<1>5. from \in Nat
  BY <1>3, <1>4
<1>6. expects \in Nat /\ late \in BOOLEAN
  BY ExpectedType
<1> HIDE DEF expects, late
<1>7. post \in Post /\ post.from = from
  BY <1>5, <1>6 DEF Post, Buffers
<1> HIDE DEF post
<1>8. buf # NoBuffer
  BY PluginAssumption
<1>9. /\ DOMAIN table = DOMAIN requests
      /\ \A id \in DOMAIN requests :
           IF id = from THEN table[id].peer_buf # NoBuffer ELSE table[id] = requests[id]
      /\ \A id \in DOMAIN requests : table[id] \in Request
  <2>1. CASE from = 0
    BY <1>3, <2>1 DEF PairingInv
  <2>2. CASE from # 0
    <3>1. from \in DOMAIN requests /\ table = [requests EXCEPT ![from].peer_buf = buf]
      BY <1>4, <2>2 DEF Claim
    <3>2. DOMAIN table = DOMAIN requests
          /\ \A id \in DOMAIN requests \ {from} : table[id] = requests[id]
      BY <3>1
    <3>3. requests[from] \in Request
      BY <1>4, <2>2 DEF PairingInv
    <3>4. table[from] = [requests[from] EXCEPT !.peer_buf = buf]
      BY <3>1
    <3>5. table[from].peer_buf = buf /\ table[from] \in Request
      BY <3>3, <3>4 DEF Request, Buffers
    <3>6. QED BY <1>8, <3>2, <3>5 DEF PairingInv
  <2>3. QED BY <2>1, <2>2
<1>10. src \in Buffers \cup {NoBuffer}
  BY <1>4 DEF PairingInv, Request
<1> HIDE DEF table, src
<1>11. /\ DOMAIN requests' = DOMAIN requests \cup {Len(posted) + 1}
       /\ \A id \in DOMAIN requests : requests'[id] = table[id]
       /\ requests'[Len(posted) + 1] = [size |-> size, data |-> buf, peer_buf |-> src]
  BY <1>2, <1>3, <1>9 DEF AddRequest, NewId
<1>12. \A id \in DOMAIN requests :
         IF id = post.from THEN requests'[id].peer_buf # NoBuffer
                           ELSE requests'[id] = requests[id]
  BY <1>7, <1>9, <1>11
<1>13. \A id \in DOMAIN requests' : requests'[id] \in Request
  BY <1>9, <1>10, <1>11 DEF Request, Buffers
<1>14. QED BY <1>2, <1>4, <1>7, <1>11, <1>12, <1>13, PostKeeps

(* A test forgets requests and changes none.                               *)
LEMMA TestKeeps ==
  ASSUME PairingInv, NEW id \in DOMAIN requests, Test(id)
  PROVE  PairingInv'
<1>1. /\ DOMAIN requests' \subseteq DOMAIN requests /\ posted' = posted
      /\ \A r \in DOMAIN requests' : requests'[r] = requests[r]
  BY DEF Test
<1>2. \A r \in DOMAIN posted : Paired(requests', posted, r)
  BY <1>1 DEF PairingInv, PairingOK, Paired
<1>3. QED BY <1>1, <1>2 DEF PairingInv, PairingOK

LEMMA PairingInit == Init => PairingInv
BY DEF Init, PairingInv, PairingOK, OnceEach

LEMMA PairingKeeps == PairingInv /\ [Next]_vars => PairingInv'
<1>1. ASSUME PairingInv, Next PROVE PairingInv'
  BY <1>1, IsendKeeps, IrecvKeeps, TestKeeps DEF Next
<1>2. PairingInv /\ UNCHANGED vars => PairingInv'
  BY DEF PairingInv, vars
<1>3. QED BY <1>1, <1>2
-----------------------------------------------------------------------------
(* The requests and the transfers under them *)

(* A receive that was posted when the pairing had nothing else to choose   *)
(* was paired with the send it is meant for.                               *)
PostsOK(posts) ==
  \A id \in DOMAIN posts :
    /\ posts[id].buf \in IF posts[id].send THEN SendBuffers ELSE RecvBuffers
    /\ posts[id].send => posts[id].from = 0 /\ posts[id].expects = 0
    /\ Meant(posts[id]) =>
         posts[id].from = posts[id].expects /\ posts[posts[id].expects].send

(* The buffers of the transfer of a post.                                  *)
BoundTo(posts, id) ==
  [src |-> IF posts[id].send THEN posts[id].buf
           ELSE IF posts[id].from = 0 THEN NoBuffer ELSE posts[posts[id].from].buf,
   dst |-> IF posts[id].send THEN NoBuffer ELSE posts[id].buf]

Binding == [src : Buffers \cup {NoBuffer}, dst : Buffers \cup {NoBuffer}]

(* A request's transfer runs until no byte is left, and never stops.       *)
Runs(tp, size) ==
  /\ TransferOK(tp) /\ Delivers(tp)
  /\ tp.bytesTotal = size /\ ~tp.suspend
  /\ tp.state \in {"InFlight", "Completed"}
  /\ tp.state = "InFlight" => tp.bytesRemaining # 0

TransfersOK(table, buffers, posts) ==
  /\ table \in Seq(TransferProgress) /\ Len(table) = Len(posts)
  /\ buffers \in Seq(Binding) /\ Len(buffers) = Len(posts)
  /\ \A id \in DOMAIN posts : Runs(table[id], posts[id].size) /\ buffers[id] = BoundTo(posts, id)

(* A transfer that moves has a request, and no two requests use a buffer.  *)
RequestsOK(reqs, table, posts) ==
  /\ \A id \in DOMAIN reqs : reqs[id].data = posts[id].buf
  /\ \A id, other \in DOMAIN reqs : reqs[id].data = reqs[other].data => id = other
  /\ \A id \in DOMAIN posts : Active(table[id]) => id \in DOMAIN reqs

KeptIn(posts, send) ==
  \A id \in DOMAIN posts : id > send /\ posts[id].send => posts[id].buf # posts[send].buf

(* What the chunks have sent is the message of a send.                     *)
Arrived(chunks, m, send) ==
  \A i \in DOMAIN chunks : \A b \in SentRange(chunks[i]) : m[b] = send

(* A send's buffer holds its message until a new one is put there, and a   *)
(* receive's buffer holds what arrived of it.                              *)
MemoryOK(mem, reqs, table, posts) ==
  /\ mem \in [Buffers -> [Units -> {0} \cup DOMAIN posts]]
  /\ \A s \in DOMAIN posts :
       posts[s].send /\ KeptIn(posts, s) => \A b \in Units : mem[posts[s].buf][b] = s
  /\ \A r \in DOMAIN reqs :
       Meant(posts[r]) /\ KeptIn(posts, posts[r].expects) =>
         Arrived(table[r].chunks, mem[posts[r].buf], posts[r].expects)

Books(table, buffers, reqs, mem, posts) ==
  /\ PostsOK(posts)
  /\ TransfersOK(table, buffers, posts)
  /\ RequestsOK(reqs, table, posts)
  /\ MemoryOK(mem, reqs, table, posts)

PluginInv ==
  /\ PairingInv
  /\ Books(transfers, bound, requests, memory, posted)
  /\ calls \in {0, 1}

LEMMA UnitsOf == \A size \in Sizes : size \in Nat /\ size > 0 /\ 0 .. (size - 1) \subseteq Units
BY PluginAssumption DEF Units

LEMMA AtRateType == \A units \in Nat : AtRate(units) \in [Paths -> Nat]
BY DEF AtRate

(* The chunk list of a request: all of it is waiting.                      *)
LEMMA ChunksOf ==
  ASSUME NEW size \in Sizes
  PROVE  /\ Chunks(size) \in Seq(ChunkProgress) /\ Layout(Chunks(size), size)
         /\ \A i \in DOMAIN Chunks(size) :
              Chunks(size)[i].sent = 0 /\ Chunks(size)[i].state = "Pending"
<1> DEFINE route == [i \in 1..NumChunks(size) |-> {}]
<1>1. size \in Nat /\ {} \in Paths
  BY UnitsOf, PluginAssumption
<1>2. route \in [1..NumChunks(size) -> Paths]
  BY <1>1
<1>3. Chunks(size) = Stripe(size, route) \/ Chunks(size) = Whole(size, {})
  BY DEF Chunks
<1> HIDE DEF route
<1>4. CASE Chunks(size) = Stripe(size, route)
  BY <1>1, <1>2, <1>4, StripeLayout, StripeIsPending
<1>5. CASE Chunks(size) = Whole(size, {})
  BY <1>1, <1>5, WholeLayout, WholeIsPending
<1>6. QED BY <1>3, <1>4, <1>5

LEMMA NewRuns ==
  ASSUME NEW size \in Sizes
  PROVE  /\ Runs(NewTransfer(IsKv(size), size, Chunks(size)), size)
         /\ \A i \in DOMAIN NewTransfer(IsKv(size), size, Chunks(size)).chunks :
              NewTransfer(IsKv(size), size, Chunks(size)).chunks[i].sent = 0
<1> DEFINE tp == NewTransfer(IsKv(size), size, Chunks(size))
<1>0. IsKv(size) \in BOOLEAN
  BY DEF IsKv
<1>1. size \in Nat /\ size # 0
  BY UnitsOf
<1>2. TransferOK(tp) /\ Delivers(tp) /\ \A i \in DOMAIN tp.chunks : tp.chunks[i].sent = 0
  BY <1>0, <1>1, ChunksOf, NewTransferOK, NewDelivers
<1>3. tp.bytesTotal = size /\ tp.bytesRemaining = size /\ ~tp.suspend /\ tp.state = "InFlight"
  BY DEF NewTransfer
<1> HIDE DEF tp
<1>4. QED BY <1>1, <1>2, <1>3 DEF Runs, tp

(* A tick: the transfer runs on, or it is complete.                        *)
LEMMA TickedRuns ==
  ASSUME NEW tp, NEW size, Runs(tp, size), Active(tp), NEW rate \in [Paths -> Nat]
  PROVE  Runs(Ticked(tp, rate), size)
<1> DEFINE moved == Moved(Begun(tp), rate)
           left  == Remaining(tp, moved)
           next  == [tp EXCEPT !.chunks = moved, !.bytesRemaining = left]
           done  == [i \in DOMAIN moved |-> [moved[i] EXCEPT !.state = "Completed"]]
           after == Ticked(tp, rate)
<1>1. /\ tp \in TransferProgress /\ tp.state = "InFlight" /\ ~tp.suspend /\ tp.bytesTotal = size
      /\ TransferOK(tp) /\ Delivers(tp)
  BY DEF Runs, Active, TransferOK
<1>2. after = IF left = 0
                THEN [next EXCEPT !.state = "Completed", !.suspend = FALSE, !.chunks = done]
                ELSE next
  BY <1>1 DEF Ticked, Moved
<1>3. TransferOK(after) /\ after.bytesTotal = size
  BY <1>1, TickedKeeps
<1>4. Delivers(after)
  BY <1>1, TickedDelivers
<1> HIDE DEF moved, left, done
<1>5. next.suspend = FALSE /\ next.state = "InFlight" /\ next.bytesRemaining = left
  BY <1>1 DEF TransferProgress
<1>6. CASE left = 0
  <2>1. after = [next EXCEPT !.state = "Completed", !.suspend = FALSE, !.chunks = done]
    BY <1>2, <1>6
  <2>2. after.state = "Completed" /\ after.suspend = FALSE
    BY <1>1, <2>1 DEF TransferProgress
  <2> HIDE DEF after
  <2>3. QED BY <1>3, <1>4, <2>2 DEF Runs, after
<1>7. CASE left # 0
  <2>1. after = next
    BY <1>2, <1>7
  <2>2. after.state = "InFlight" /\ after.suspend = FALSE /\ after.bytesRemaining # 0
    BY <1>5, <1>7, <2>1
  <2> HIDE DEF after
  <2>3. QED BY <1>3, <1>4, <2>2 DEF Runs, after
<1>8. QED BY <1>6, <1>7

(* A transfer that is over is complete: all of it was sent.                *)
LEMMA OverIsSent ==
  ASSUME NEW tp, NEW size \in Nat, Runs(tp, size), Over(tp)
  PROVE  /\ ~Active(tp)
         /\ \A b \in 0 .. (size - 1) : \E i \in DOMAIN tp.chunks : b \in SentRange(tp.chunks[i])
<1>1. tp.state = "Completed"
  BY DEF Runs, Over
<1>2. /\ Layout(tp.chunks, size)
      /\ \A i \in DOMAIN tp.chunks : tp.chunks[i].sent = tp.chunks[i].size
  BY <1>1 DEF Runs, Delivers
<1>3. \A i \in DOMAIN tp.chunks : SentRange(tp.chunks[i]) = Extent(tp.chunks[i])
  BY <1>2 DEF SentRange, Extent
<1>4. QED BY <1>1, <1>2, <1>3 DEF Layout, Active

(* What has been sent of a request lies within its buffer.                 *)
LEMMA SentInUnits ==
  ASSUME NEW tp, NEW size \in Sizes, Runs(tp, size), NEW i \in DOMAIN tp.chunks,
         NEW b \in SentRange(tp.chunks[i])
  PROVE  b \in Units
<1>1. Layout(tp.chunks, size) /\ tp.chunks[i] \in ChunkProgress /\ tp.chunks[i].sent <= tp.chunks[i].size
  BY DEF Runs, Delivers, TransferOK, ChunksOK
<1>2. b \in Extent(tp.chunks[i])
  BY <1>1 DEF SentRange, Extent, ChunkProgress
<1>3. b \in 0 .. (size - 1)
  BY <1>1, <1>2 DEF Layout
<1>4. QED BY <1>3, UnitsOf

-----------------------------------------------------------------------------
(* Copying *)

Writes(table, buffers, units, buf, b, w) ==
  /\ Active(table[w])
  /\ buffers[w].dst = buf /\ buffers[w].src # NoBuffer
  /\ Wired(table[w], AtRate(units), b) # {}

LEMMA CopiedShape ==
  ASSUME NEW mem, NEW table, NEW buffers, NEW units
  PROVE  Copied(mem, table, buffers, units) =
           [buf \in Buffers |-> [b \in Units |-> Copied(mem, table, buffers, units)[buf][b]]]
<1> DEFINE writers(buf, b) == {id \in DOMAIN table :
                                 /\ Active(table[id])
                                 /\ buffers[id].dst = buf /\ buffers[id].src # NoBuffer
                                 /\ Wired(table[id], AtRate(units), b) # {}}
           byte(buf, b) == IF writers(buf, b) = {} THEN mem[buf][b]
                           ELSE mem[buffers[CHOOSE id \in writers(buf, b) : TRUE].src][b]
<1>1. Copied(mem, table, buffers, units) = [buf \in Buffers |-> [b \in Units |-> byte(buf, b)]]
  BY Zenon DEF Copied
<1> HIDE DEF byte
<1>2. QED BY <1>1

LEMMA CopiedByte ==
  ASSUME NEW mem, NEW table, NEW buffers, NEW units, NEW buf \in Buffers, NEW b \in Units
  PROVE  LET byte == Copied(mem, table, buffers, units)[buf][b]
         IN  \/ /\ byte = mem[buf][b]
                /\ \A w \in DOMAIN table : ~Writes(table, buffers, units, buf, b, w)
             \/ \E w \in DOMAIN table :
                  Writes(table, buffers, units, buf, b, w) /\ byte = mem[buffers[w].src][b]
<1> DEFINE writers == {w \in DOMAIN table : Writes(table, buffers, units, buf, b, w)}
           first == CHOOSE w \in writers : TRUE
<1>1. Copied(mem, table, buffers, units)[buf][b] =
        IF writers = {} THEN mem[buf][b] ELSE mem[buffers[first].src][b]
  BY DEF Copied, Writes
<1>2. CASE writers = {}
  BY <1>1, <1>2
<1>3. CASE writers # {}
  <2>1. first \in writers
    BY <1>3
  <2> HIDE DEF first
  <2>2. QED BY <1>1, <1>3, <2>1
<1>4. QED BY <1>2, <1>3

(* A buffer no moving transfer is bound to stays as it is.                 *)
LEMMA NotCopied ==
  ASSUME NEW mem, NEW table, NEW buffers, NEW units, NEW buf \in Buffers, NEW b \in Units,
         \A w \in DOMAIN table : Active(table[w]) => buffers[w].dst # buf
  PROVE  Copied(mem, table, buffers, units)[buf][b] = mem[buf][b]
BY CopiedByte DEF Writes

(* What arrived stays, and more of the same message arrives.               *)
LEMMA CopiedArrives ==
  ASSUME NEW mem, NEW table, NEW buffers, NEW units \in Nat, NEW buf \in Buffers,
         NEW size \in Sizes, NEW send, NEW r \in DOMAIN table,
         Runs(table[r], size), Active(table[r]),
         buffers[r].dst = buf, buffers[r].src # NoBuffer,
         \A b \in Units : mem[buffers[r].src][b] = send,
         \A w \in DOMAIN table : Active(table[w]) /\ buffers[w].dst = buf => w = r,
         Arrived(table[r].chunks, mem[buf], send)
  PROVE  Arrived(Ticked(table[r], AtRate(units)).chunks,
                 Copied(mem, table, buffers, units)[buf], send)
<1> DEFINE rate == AtRate(units)
           tp == table[r]
           after == Ticked(tp, rate)
<1>1. rate \in [Paths -> Nat]
  BY AtRateType
<1>2. TransferOK(tp) /\ Delivers(tp)
  BY DEF Runs
<1>3. Runs(after, size) /\ DOMAIN after.chunks = DOMAIN tp.chunks
  BY <1>1, <1>2, TickedRuns, TickedDelivers DEF SameShape
<1>4. SUFFICES ASSUME NEW i \in DOMAIN after.chunks, NEW b \in SentRange(after.chunks[i])
               PROVE  Copied(mem, table, buffers, units)[buf][b] = send
  BY DEF Arrived
<1>5. b \in Units
  BY <1>3, SentInUnits
<1>6. b \in SentRange(tp.chunks[i]) \/ i \in Wired(tp, rate, b)
  BY <1>1, <1>2, <1>3, TickedRanges
<1> HIDE DEF after
<1>7. PICK byte : byte = Copied(mem, table, buffers, units)[buf][b]
  OBVIOUS
<1>8. CASE byte = mem[buf][b] /\ \A w \in DOMAIN table : ~Writes(table, buffers, units, buf, b, w)
  <2>1. Wired(tp, rate, b) = {}
    BY <1>8 DEF Writes
  <2>2. mem[buf][b] = send
    BY <1>3, <1>6, <2>1 DEF Arrived
  <2>3. QED BY <1>7, <1>8, <2>2
<1>9. CASE \E w \in DOMAIN table :
             Writes(table, buffers, units, buf, b, w) /\ byte = mem[buffers[w].src][b]
  <2>1. PICK w \in DOMAIN table :
             Writes(table, buffers, units, buf, b, w) /\ byte = mem[buffers[w].src][b]
    BY <1>9
  <2>2. w = r
    BY <2>1 DEF Writes
  <2>3. QED BY <1>5, <1>7, <2>1, <2>2
<1>10. QED BY <1>5, <1>7, <1>8, <1>9, CopiedByte

-----------------------------------------------------------------------------
(* The books through a step *)

LEMMA BoundToType ==
  ASSUME NEW reqs, NEW posts, posts \in Seq(Post), PairingOK(reqs, posts), PostsOK(posts),
         NEW id \in DOMAIN posts
  PROVE  /\ BoundTo(posts, id).src \in Buffers \cup {NoBuffer}
         /\ BoundTo(posts, id).dst \in RecvBuffers \cup {NoBuffer}
         /\ posts[id].size \in Sizes /\ posts[id].buf \in Buffers
<1>1. \A r \in DOMAIN posts : posts[r] \in Post
  OBVIOUS
<1>2. posts[id].from # 0 => posts[id].from \in DOMAIN posts
  BY DEF PairingOK, Paired
<1>3. posts[id].buf \in IF posts[id].send THEN SendBuffers ELSE RecvBuffers
  BY DEF PostsOK
<1>4. QED BY <1>1, <1>2, <1>3 DEF BoundTo, Post, Buffers

(* A tick of all transfers, and the bytes it copies.                       *)
LEMMA TickBooks ==
  ASSUME NEW table, NEW buffers, NEW reqs, NEW mem, NEW posts, NEW units \in Nat,
         posts \in Seq(Post), PairingOK(reqs, posts), Books(table, buffers, reqs, mem, posts)
  PROVE  Books(TickAll(table, AtRate(units)), buffers, reqs,
               Copied(mem, table, buffers, units), posts)
<1> DEFINE rate == AtRate(units)
           after == TickAll(table, rate)
           mem2 == Copied(mem, table, buffers, units)
<1>1. /\ PostsOK(posts) /\ TransfersOK(table, buffers, posts) /\ RequestsOK(reqs, table, posts)
      /\ MemoryOK(mem, reqs, table, posts) /\ rate \in [Paths -> Nat]
  BY AtRateType DEF Books
<1> HIDE DEF rate
<1>2. /\ Len(posts) \in Nat /\ DOMAIN posts = 1 .. Len(posts) /\ DOMAIN reqs \subseteq DOMAIN posts
      /\ table \in Seq(TransferProgress) /\ DOMAIN table = DOMAIN posts
  BY <1>1 DEF PairingOK, TransfersOK
<1>3. /\ DOMAIN after = DOMAIN posts /\ after = [id \in DOMAIN posts |-> after[id]]
      /\ \A id \in DOMAIN posts :
           after[id] = IF Active(table[id]) THEN Ticked(table[id], rate) ELSE table[id]
  BY <1>2 DEF TickAll
<1> HIDE DEF after
<1>4. \A id \in DOMAIN posts : Runs(table[id], posts[id].size) /\ buffers[id] = BoundTo(posts, id)
  BY <1>1 DEF TransfersOK
<1>5. \A id \in DOMAIN posts : Runs(after[id], posts[id].size)
  BY <1>1, <1>3, <1>4, TickedRuns
<1>6. TransfersOK(after, buffers, posts)
  <2>1. \A id \in DOMAIN posts : after[id] \in TransferProgress
    BY <1>5 DEF Runs, TransferOK
  <2>2. after \in [1 .. Len(posts) -> TransferProgress]
    BY <1>2, <1>3, <2>1
  <2>3. after \in Seq(TransferProgress) /\ Len(after) = Len(posts)
    BY <1>2, <2>2, FunctionIsSeq
  <2>4. QED BY <1>1, <1>5, <2>3 DEF TransfersOK
<1>7. RequestsOK(reqs, after, posts)
  BY <1>1, <1>3 DEF RequestsOK
<1>8. \A id \in DOMAIN posts :
        /\ buffers[id].src \in Buffers \cup {NoBuffer}
        /\ buffers[id].dst \in RecvBuffers \cup {NoBuffer}
        /\ posts[id].size \in Sizes /\ posts[id].buf \in Buffers
        /\ posts[id].buf \in IF posts[id].send THEN SendBuffers ELSE RecvBuffers
  BY <1>1, <1>4, BoundToType DEF PostsOK
<1>9. mem2 \in [Buffers -> [Units -> {0} \cup DOMAIN posts]]
  <2>1. mem \in [Buffers -> [Units -> {0} \cup DOMAIN posts]]
    BY <1>1 DEF MemoryOK
  <2>2. mem2 = [buf \in Buffers |-> [b \in Units |-> mem2[buf][b]]]
    BY CopiedShape
  <2>3. ASSUME NEW buf \in Buffers, NEW b \in Units PROVE mem2[buf][b] \in {0} \cup DOMAIN posts
    <3> HIDE DEF mem2
    <3>1. CASE mem2[buf][b] = mem[buf][b]
      BY <2>1, <3>1
    <3>2. CASE \E w \in DOMAIN table :
                 buffers[w].src # NoBuffer /\ mem2[buf][b] = mem[buffers[w].src][b]
      BY <1>2, <1>8, <2>1, <3>2
    <3>3. QED BY <3>1, <3>2, CopiedByte DEF Writes, mem2
  <2> HIDE DEF mem2
  <2>4. QED BY <2>2, <2>3
<1>10. ASSUME NEW s \in DOMAIN posts, posts[s].send, KeptIn(posts, s), NEW b \in Units
       PROVE  mem2[posts[s].buf][b] = s
  <2>1. posts[s].buf \in SendBuffers /\ posts[s].buf \in Buffers
    BY <1>8, <1>10
  <2>2. \A w \in DOMAIN table : buffers[w].dst # posts[s].buf
    BY <1>2, <1>8, <2>1, PluginAssumption
  <2>3. mem[posts[s].buf][b] = s
    BY <1>1, <1>10 DEF MemoryOK
  <2>4. QED BY <2>1, <2>2, <2>3, NotCopied
<1>11. ASSUME NEW r \in DOMAIN reqs, Meant(posts[r]), KeptIn(posts, posts[r].expects)
       PROVE  Arrived(after[r].chunks, mem2[posts[r].buf], posts[r].expects)
  <2> HIDE DEF mem2
  <2>0. PICK s, buf : s = posts[r].expects /\ buf = posts[r].buf
    OBVIOUS
  <2>1. /\ r \in DOMAIN posts /\ r \in DOMAIN table /\ s # 0
        /\ ~posts[r].send /\ posts[r].from = s /\ posts[s].send
    BY <1>1, <1>2, <1>11, <2>0 DEF PostsOK, Meant
  <2>2. s \in DOMAIN posts
    BY <1>2, <1>11, <2>1 DEF PairingOK, Paired
  <2>3. /\ buf \in Buffers /\ buf \in RecvBuffers /\ posts[s].buf \in SendBuffers
        /\ posts[s].buf \in Buffers /\ buf # NoBuffer /\ posts[s].buf # NoBuffer
    BY <1>8, <2>0, <2>1, <2>2, PluginAssumption
  <2>4. buffers[r].dst = buf /\ buffers[r].src = posts[s].buf
    <3>1. buffers[r] = BoundTo(posts, r)
      BY <1>4, <2>1
    <3>2. BoundTo(posts, r) = [src |-> posts[s].buf, dst |-> buf]
      BY <2>0, <2>1 DEF BoundTo
    <3>3. QED BY <3>1, <3>2
  <2>5. \A b \in Units : mem[posts[s].buf][b] = s
    BY <1>1, <1>11, <2>0, <2>1, <2>2 DEF MemoryOK
  <2>6. Arrived(table[r].chunks, mem[buf], s)
    BY <1>1, <1>11, <2>0 DEF MemoryOK
  <2>7. ASSUME NEW w \in DOMAIN table, Active(table[w]), buffers[w].dst = buf PROVE w = r
    <3>1. w \in DOMAIN posts /\ w \in DOMAIN reqs
      BY <1>1, <1>2, <2>7 DEF RequestsOK
    <3>2. buffers[w].dst = IF posts[w].send THEN NoBuffer ELSE posts[w].buf
      <4>1. buffers[w] = BoundTo(posts, w)
        BY <1>4, <3>1
      <4>2. BoundTo(posts, w).dst = IF posts[w].send THEN NoBuffer ELSE posts[w].buf
        BY DEF BoundTo
      <4>3. QED BY <4>1, <4>2
    <3>3. posts[w].buf = buf
      BY <2>3, <2>7, <3>2
    <3>4. reqs[w].data = reqs[r].data
      BY <1>1, <2>0, <3>1, <3>3 DEF RequestsOK
    <3>5. QED BY <1>1, <3>1, <3>4 DEF RequestsOK
  <2>8. CASE Active(table[r])
    <3>1. Runs(table[r], posts[r].size) /\ posts[r].size \in Sizes
      BY <1>4, <1>8, <2>1
    <3>2. after[r] = Ticked(table[r], rate)
      BY <1>3, <2>1, <2>8
    <3>3. PICK size \in Sizes : size = posts[r].size /\ Runs(table[r], size)
      BY <3>1
    <3>4. PICK send : send = s
      OBVIOUS
    <3>5. buffers[r].dst = buf /\ buffers[r].src # NoBuffer
      BY <2>3, <2>4
    <3>6. \A b \in Units : mem[buffers[r].src][b] = send
      BY <2>4, <2>5, <3>4
    <3>7. Arrived(table[r].chunks, mem[buf], send)
      BY <2>6, <3>4
    <3>8. buf \in Buffers /\ r \in DOMAIN table
      BY <2>1, <2>3
    <3>9. Arrived(Ticked(table[r], AtRate(units)).chunks,
                  Copied(mem, table, buffers, units)[buf], send)
      BY <2>7, <2>8, <3>3, <3>5, <3>6, <3>7, <3>8, CopiedArrives
    <3>10. QED BY <2>0, <3>2, <3>4, <3>9 DEF rate, mem2
  <2>9. CASE ~Active(table[r])
    <3>1. after[r] = table[r]
      BY <1>3, <2>1, <2>9
    <3>2. \A w \in DOMAIN table : Active(table[w]) => buffers[w].dst # buf
      BY <2>7, <2>9
    <3>3. \A b \in Units : mem2[buf][b] = mem[buf][b]
      BY <2>3, <3>2, NotCopied DEF mem2
    <3>4. \A i \in DOMAIN table[r].chunks : \A b \in SentRange(table[r].chunks[i]) : b \in Units
      BY <1>4, <1>8, <2>1, SentInUnits
    <3>5. QED BY <2>0, <2>6, <3>1, <3>3, <3>4 DEF Arrived
  <2>10. QED BY <2>8, <2>9
<1> HIDE DEF mem2
<1>12. MemoryOK(mem2, reqs, after, posts)
  BY <1>9, <1>10, <1>11 DEF MemoryOK
<1>13. QED BY <1>1, <1>6, <1>7, <1>12 DEF Books, after, mem2, rate

(* A post: a transfer, a request and, for a send, a new message.           *)
NewPost(posts, post, posts2) ==
  /\ post \in Post /\ posts2 = Append(posts, post)
  /\ post.buf \in IF post.send THEN SendBuffers ELSE RecvBuffers
  /\ post.send => post.from = 0 /\ post.expects = 0
  /\ post.from # 0 => post.from \in DOMAIN posts
  /\ Meant(post) => post.from = post.expects /\ posts[post.expects].send

NewRun(posts, post, new, ends, posts2) ==
  /\ Runs(new, post.size)
  /\ \A i \in DOMAIN new.chunks : new.chunks[i].sent = 0
  /\ ends \in Binding /\ ends = BoundTo(posts2, Len(posts) + 1)

NewRequest(reqs, posts, post, reqs2) ==
  /\ \A id \in DOMAIN reqs : reqs[id].data # post.buf
  /\ DOMAIN reqs2 = DOMAIN reqs \cup {Len(posts) + 1}
  /\ \A id \in DOMAIN reqs : reqs2[id].data = reqs[id].data
  /\ reqs2[Len(posts) + 1].data = post.buf

Prepared(mem, posts, post) ==
  IF post.send THEN [mem EXCEPT ![post.buf] = [b \in Units |-> Len(posts) + 1]] ELSE mem

LEMMA PostBooks ==
  ASSUME NEW table, NEW buffers, NEW reqs, NEW mem, NEW posts,
         posts \in Seq(Post), PairingOK(reqs, posts), Books(table, buffers, reqs, mem, posts),
         NEW post, NEW posts2, NewPost(posts, post, posts2),
         NEW new, NEW ends, NewRun(posts, post, new, ends, posts2),
         NEW reqs2, NewRequest(reqs, posts, post, reqs2)
  PROVE  Books(Append(table, new), Append(buffers, ends), reqs2,
               Prepared(mem, posts, post), posts2)
<1>1. /\ post \in Post /\ posts2 = Append(posts, post)
      /\ post.buf \in IF post.send THEN SendBuffers ELSE RecvBuffers
      /\ post.send => post.from = 0 /\ post.expects = 0
      /\ post.from # 0 => post.from \in DOMAIN posts
      /\ Meant(post) => post.from = post.expects /\ posts[post.expects].send
  BY DEF NewPost
<1>2. /\ Runs(new, post.size) /\ ends \in Binding /\ ends = BoundTo(posts2, Len(posts) + 1)
      /\ \A i \in DOMAIN new.chunks : new.chunks[i].sent = 0
  BY DEF NewRun
<1>3. /\ \A id \in DOMAIN reqs : reqs[id].data # post.buf /\ reqs2[id].data = reqs[id].data
      /\ DOMAIN reqs2 = DOMAIN reqs \cup {Len(posts) + 1}
      /\ reqs2[Len(posts) + 1].data = post.buf
  BY DEF NewRequest
<1>4. PICK mem2 : mem2 = IF post.send THEN [mem EXCEPT ![post.buf] = [b \in Units |-> Len(posts) + 1]]
                                      ELSE mem
  OBVIOUS
<1>5. PICK n \in Nat : n = Len(posts)
  OBVIOUS
<1>6. /\ PostsOK(posts) /\ TransfersOK(table, buffers, posts) /\ RequestsOK(reqs, table, posts)
      /\ MemoryOK(mem, reqs, table, posts)
  BY DEF Books
<1>7. /\ DOMAIN posts = 1..n /\ DOMAIN reqs \subseteq 1..n /\ n + 1 \notin 1..n
      /\ table \in Seq(TransferProgress) /\ Len(table) = n /\ DOMAIN table = 1..n
      /\ buffers \in Seq(Binding) /\ Len(buffers) = n /\ DOMAIN buffers = 1..n
  BY <1>5, <1>6 DEF PairingOK, TransfersOK
<1>8. PICK table2 : table2 = Append(table, new)
  OBVIOUS
<1>9. PICK buffers2 : buffers2 = Append(buffers, ends)
  OBVIOUS
<1>10. new \in TransferProgress
  BY <1>2 DEF Runs, TransferOK
<1>11. /\ Len(posts2) = n + 1 /\ DOMAIN posts2 = 1 .. (n + 1) /\ posts2 \in Seq(Post)
       /\ \A id \in 1..n : posts2[id] = posts[id]
       /\ posts2[n + 1] = post
  BY <1>1, <1>5
<1>12. /\ table2 \in Seq(TransferProgress) /\ Len(table2) = n + 1
       /\ \A id \in 1..n : table2[id] = table[id]
       /\ table2[n + 1] = new
  BY <1>7, <1>8, <1>10
<1>13. /\ buffers2 \in Seq(Binding) /\ Len(buffers2) = n + 1 /\ DOMAIN buffers2 = 1 .. (n + 1)
       /\ \A id \in 1..n : buffers2[id] = buffers[id]
       /\ buffers2[n + 1] = ends
  BY <1>2, <1>7, <1>9
<1>14. \A id \in 1 .. (n + 1) : id \in 1..n \/ id = n + 1
  OBVIOUS
<1>15. PICK k \in Nat :
         k = n + 1 /\ posts2[k] = post /\ table2[k] = new /\ buffers2[k] = ends
  BY <1>11, <1>12, <1>13
<1>16. \A id \in 1..n : posts[id].from # 0 => posts[id].from \in 1..n
  BY <1>7 DEF PairingOK, Paired
<1>17. PostsOK(posts2)
  <2>1. ASSUME NEW id \in 1..n
        PROVE  /\ posts2[id].buf \in IF posts2[id].send THEN SendBuffers ELSE RecvBuffers
               /\ posts2[id].send => posts2[id].from = 0 /\ posts2[id].expects = 0
               /\ Meant(posts2[id]) =>
                    posts2[id].from = posts2[id].expects /\ posts2[posts2[id].expects].send
    <3>1. /\ posts[id].buf \in IF posts[id].send THEN SendBuffers ELSE RecvBuffers
          /\ posts[id].send => posts[id].from = 0 /\ posts[id].expects = 0
          /\ Meant(posts[id]) =>
               posts[id].from = posts[id].expects /\ posts[posts[id].expects].send
      BY <1>6, <1>7 DEF PostsOK
    <3>2. posts2[id] = posts[id]
      BY <1>11
    <3>3. Meant(posts[id]) => posts2[posts[id].expects] = posts[posts[id].expects]
      BY <1>11, <1>16, <3>1 DEF Meant
    <3>4. QED BY <3>1, <3>2, <3>3
  <2>2. Meant(post) => posts2[post.expects].send
    BY <1>1, <1>7, <1>11 DEF Meant
  <2>3. /\ posts2[n + 1].buf \in IF posts2[n + 1].send THEN SendBuffers ELSE RecvBuffers
        /\ posts2[n + 1].send => posts2[n + 1].from = 0 /\ posts2[n + 1].expects = 0
        /\ Meant(posts2[n + 1]) =>
             posts2[n + 1].from = posts2[n + 1].expects /\ posts2[posts2[n + 1].expects].send
    BY <1>1, <1>11, <2>2
  <2>4. QED BY <1>11, <1>14, <2>1, <2>3 DEF PostsOK
<1>18. TransfersOK(table2, buffers2, posts2)
  <2>1. ASSUME NEW id \in 1..n PROVE Runs(table2[id], posts2[id].size) /\ buffers2[id] = BoundTo(posts2, id)
    <3>1. Runs(table[id], posts[id].size) /\ buffers[id] = BoundTo(posts, id)
      BY <1>6, <1>7 DEF TransfersOK
    <3>2. BoundTo(posts2, id) = BoundTo(posts, id)
      BY <1>11, <1>16 DEF BoundTo
    <3>3. QED BY <1>11, <1>12, <1>13, <3>1, <3>2
  <2>2. Runs(table2[k], posts2[k].size) /\ buffers2[k] = BoundTo(posts2, k)
    BY <1>2, <1>5, <1>15
  <2>3. \A id \in DOMAIN posts2 : Runs(table2[id], posts2[id].size) /\ buffers2[id] = BoundTo(posts2, id)
    BY <1>11, <1>14, <1>15, <2>1, <2>2
  <2>4. QED BY <1>11, <1>12, <1>13, <2>3 DEF TransfersOK
<1>19. RequestsOK(reqs2, table2, posts2)
  <2>1. ASSUME NEW id \in DOMAIN reqs2 PROVE reqs2[id].data = posts2[id].buf
    <3>1. CASE id \in DOMAIN reqs
      BY <1>3, <1>6, <1>7, <1>11, <3>1 DEF RequestsOK
    <3>2. CASE id = k
      BY <1>3, <1>5, <1>15, <3>2
    <3>3. QED BY <1>3, <1>5, <1>15, <3>1, <3>2
  <2>2. ASSUME NEW id \in DOMAIN reqs2, NEW other \in DOMAIN reqs2, reqs2[id].data = reqs2[other].data
        PROVE  id = other
    BY <1>3, <1>5, <1>6, <2>2 DEF RequestsOK
  <2>3. ASSUME NEW id \in DOMAIN posts2, Active(table2[id]) PROVE id \in DOMAIN reqs2
    BY <1>3, <1>5, <1>6, <1>7, <1>11, <1>12, <1>14, <2>3 DEF RequestsOK
  <2>4. QED BY <2>1, <2>2, <2>3 DEF RequestsOK
<1>20. post.buf \in Buffers
  BY <1>1 DEF Post
<1>21. mem2 \in [Buffers -> [Units -> {0} \cup DOMAIN posts2]]
  <2>1. mem \in [Buffers -> [Units -> {0} \cup DOMAIN posts2]]
    <3>1. mem \in [Buffers -> [Units -> {0} \cup 1..n]]
      BY <1>6, <1>7 DEF MemoryOK
    <3>2. {0} \cup 1..n \subseteq {0} \cup DOMAIN posts2
      BY <1>11
    <3>3. QED BY <3>1, <3>2
  <2>2. [b \in Units |-> Len(posts) + 1] \in [Units -> {0} \cup DOMAIN posts2]
    BY <1>5, <1>11
  <2>3. QED BY <1>4, <1>20, <2>1, <2>2
<1>22. \A buf \in Buffers : buf # post.buf \/ ~post.send => mem2[buf] = mem[buf]
  BY <1>4, <1>6 DEF MemoryOK
<1>23. ASSUME NEW s \in DOMAIN posts, KeptIn(posts2, s) PROVE KeptIn(posts, s)
  BY <1>7, <1>11, <1>23 DEF KeptIn
<1>24. ASSUME NEW s \in DOMAIN posts2, posts2[s].send, KeptIn(posts2, s), NEW b \in Units
       PROVE  mem2[posts2[s].buf][b] = s
  <2>1. CASE s \in 1..n
    <3>1. posts2[s] = posts[s] /\ posts[s].send /\ KeptIn(posts, s) /\ posts[s] \in Post
      BY <1>7, <1>11, <1>23, <1>24, <2>1
    <3>2. mem[posts[s].buf][b] = s
      BY <1>6, <1>7, <2>1, <3>1 DEF MemoryOK
    <3>3. post.send => post.buf # posts[s].buf
      BY <1>11, <1>24, <2>1, <3>1 DEF KeptIn
    <3>4. posts[s].buf \in Buffers
      BY <3>1 DEF Post
    <3>5. mem2[posts[s].buf] = mem[posts[s].buf]
      BY <1>22, <3>3, <3>4
    <3>6. QED BY <3>1, <3>2, <3>5
  <2>2. CASE s = k
    <3>1. post.send /\ posts2[s].buf = post.buf
      BY <1>15, <1>24, <2>2
    <3>2. mem2[post.buf] = [x \in Units |-> Len(posts) + 1]
      BY <1>4, <1>6, <1>20, <3>1 DEF MemoryOK
    <3>3. QED BY <1>5, <1>15, <2>2, <3>1, <3>2
  <2>3. QED BY <1>11, <1>14, <1>15, <1>24, <2>1, <2>2
<1>25. ASSUME NEW r \in DOMAIN reqs2, Meant(posts2[r]), KeptIn(posts2, posts2[r].expects)
       PROVE  Arrived(table2[r].chunks, mem2[posts2[r].buf], posts2[r].expects)
  <2>1. CASE r \in DOMAIN reqs
    <3>1. r \in 1..n /\ posts2[r] = posts[r] /\ table2[r] = table[r] /\ posts[r] \in Post
      BY <1>7, <1>11, <1>12, <2>1
    <3>2. ~posts[r].send /\ posts[r].from = posts[r].expects
      BY <1>6, <1>7, <1>25, <3>1 DEF PostsOK, Meant
    <3>3. posts[r].expects \in DOMAIN posts
      BY <1>7, <1>16, <1>25, <3>1, <3>2 DEF Meant
    <3>4. Arrived(table[r].chunks, mem[posts[r].buf], posts[r].expects)
      BY <1>6, <1>23, <1>25, <2>1, <3>1, <3>3 DEF MemoryOK
    <3>5. posts[r].buf \in RecvBuffers /\ posts[r].buf \in Buffers
      BY <1>6, <1>7, <3>1, <3>2 DEF PostsOK, Buffers
    <3>6. mem2[posts[r].buf] = mem[posts[r].buf]
      BY <1>1, <1>22, <3>5, PluginAssumption
    <3>7. QED BY <3>1, <3>4, <3>6
  <2>2. CASE r = k
    <3>1. table2[r].chunks = new.chunks /\ new.chunks \in Seq(ChunkProgress)
      BY <1>10, <1>15, <2>2 DEF TransferProgress
    <3>2. ASSUME NEW i \in DOMAIN new.chunks PROVE SentRange(new.chunks[i]) = {}
      <4>1. new.chunks[i] \in ChunkProgress /\ new.chunks[i].sent = 0
        BY <1>2, <3>1
      <4>2. new.chunks[i].offset \in Nat
        BY <4>1 DEF ChunkProgress
      <4>3. QED BY <4>1, <4>2 DEF SentRange
    <3>3. QED BY <3>1, <3>2 DEF Arrived
  <2>3. QED BY <1>3, <1>5, <1>15, <1>25, <2>1, <2>2
<1>26. MemoryOK(mem2, reqs2, table2, posts2)
  BY <1>21, <1>24, <1>25 DEF MemoryOK
<1>27. QED BY <1>4, <1>8, <1>9, <1>17, <1>18, <1>19, <1>26 DEF Books, Prepared

(* A request whose transfer moves no more can be forgotten.                *)
LEMMA ForgetBooks ==
  ASSUME NEW table, NEW buffers, NEW reqs, NEW mem, NEW posts, NEW reqs2,
         Books(table, buffers, reqs, mem, posts),
         DOMAIN reqs2 \subseteq DOMAIN reqs,
         \A id \in DOMAIN reqs2 : reqs2[id] = reqs[id],
         \A id \in DOMAIN reqs \ DOMAIN reqs2 : ~Active(table[id])
  PROVE  Books(table, buffers, reqs2, mem, posts)
<1>1. RequestsOK(reqs2, table, posts)
  BY DEF Books, RequestsOK
<1>2. MemoryOK(mem, reqs2, table, posts)
  BY DEF Books, MemoryOK
<1>3. QED BY <1>1, <1>2 DEF Books

(* A communicator's receives have one match each: the match has as many    *)
(* sends before it as there were receives.                                 *)
LEMMA OneMatch ==
  ASSUME PairingInv, NEW comm, NEW x \in Match(comm), NEW y \in Match(comm)
  PROVE  x = y
<1>1. PICK sends : sends = OnComm(comm, TRUE)
  OBVIOUS
<1>2. sends \subseteq DOMAIN posted /\ DOMAIN posted = 1 .. Len(posted) /\ Len(posted) \in Nat
  BY <1>1 DEF OnComm, PairingInv, PairingOK
<1> DEFINE before(id) == {s \in sends : s < id}
<1>3. x \in sends /\ y \in sends /\ Cardinality(before(x)) = Cardinality(before(y))
  BY <1>1 DEF Match
<1>4. IsFiniteSet(DOMAIN posted)
  <2>1. 1 \in Int /\ Len(posted) \in Int
    BY <1>2
  <2>2. QED BY <1>2, <2>1, FS_Interval
<1>5. \A s \in sends : s \in Nat
  BY <1>2
<1>6. \A id : before(id) \subseteq DOMAIN posted
  BY <1>2
<1>7. \A id : IsFiniteSet(before(id))
  BY <1>4, <1>6, FS_Subset
<1>8. ASSUME NEW u \in sends, NEW v \in sends, u < v
      PROVE  Cardinality(before(u)) # Cardinality(before(v))
  <2>1. before(u) \subseteq before(v)
    BY <1>5, <1>8
  <2>2. u \in before(v) /\ u \notin before(u)
    BY <1>5, <1>8
  <2> HIDE DEF before
  <2>3. QED BY <1>7, <2>1, <2>2, FS_Subset
<1> HIDE DEF before
<1>9. x = y \/ x < y \/ y < x
  BY <1>3, <1>5
<1>10. QED BY <1>3, <1>8, <1>9

(* So a receive whose send has no rival and is outstanding is paired with  *)
(* it.                                                                     *)
LEMMA ExpectedIsMatch ==
  ASSUME PairingInv, NEW comm, NEW size,
         Expected(comm, size) # 0, Expected(comm, size) \notin Forgotten(size)
  PROVE  /\ Unpaired(size) # {}
         /\ \A from \in Unpaired(size) : from = Expected(comm, size) /\ posted[from].send
<1>1. /\ Match(comm) # {} /\ Match(comm) \subseteq Unpaired(size) \cup Forgotten(size)
      /\ Unpaired(size) \subseteq Match(comm)
  BY DEF Expected
<1>2. Expected(comm, size) = CHOOSE id \in Match(comm) : TRUE
  BY <1>1 DEF Expected
<1>3. Expected(comm, size) \in Match(comm)
  BY <1>1, <1>2
<1>4. Expected(comm, size) \in Unpaired(size)
  BY <1>1, <1>3
<1>5. ASSUME NEW from \in Unpaired(size)
      PROVE  from = Expected(comm, size) /\ posted[from].send
  <2>1. from \in Match(comm)
    BY <1>1
  <2>2. posted[from].send
    BY <2>1 DEF Match, OnComm
  <2>3. QED BY <1>3, <2>1, <2>2, OneMatch
<1>6. QED BY <1>4, <1>5

-----------------------------------------------------------------------------
(* The actions *)

LEMMA IsendBooks ==
  ASSUME PluginInv, NEW buf \in SendBuffers, NEW size \in Sizes, Isend(buf, size)
  PROVE  PluginInv'
<1>1. PairingInv /\ Books(transfers, bound, requests, memory, posted) /\ calls \in {0, 1}
  BY DEF PluginInv
<1>2. PairingInv'
  BY <1>1, IsendKeeps
<1>3. posted \in Seq(Post) /\ PairingOK(requests, posted) /\ posted' \in Seq(Post)
      /\ PairingOK(requests', posted')
  BY <1>1, <1>2 DEF PairingInv
<1>4. PICK post : post = [send |-> TRUE, size |-> size, buf |-> buf, from |-> 0, expects |-> 0,
                  late |-> FALSE]
  OBVIOUS
<1>5. post \in Post /\ post.send /\ post.buf = buf /\ post.size = size /\ post.from = 0 /\ post.expects = 0
  BY <1>4 DEF Post, Buffers
<1>6. PICK new : new = NewTransfer(IsKv(size), size, Chunks(size))
  OBVIOUS
<1>7. PICK ends : ends = [src |-> buf, dst |-> NoBuffer]
  OBVIOUS
<1>8. PICK mem2 : mem2 = [memory EXCEPT ![buf] = [b \in Units |-> Len(posted) + 1]]
  OBVIOUS
<1>9. /\ posted' = Append(posted, post) /\ calls' = calls
      /\ bound' = Append(bound, ends)
      /\ transfers' = TickAll(Append(transfers, new), AtRate(SubmitUnits))
      /\ memory' = Copied(mem2, Append(transfers, new), bound', SubmitUnits)
  BY <1>4, <1>6, <1>7, <1>8 DEF Isend, SubmitTransfer, Submitted, NewId
<1>10. Runs(new, size) /\ \A i \in DOMAIN new.chunks : new.chunks[i].sent = 0
  BY <1>6, NewRuns
<1>11. /\ \A id \in DOMAIN requests : requests[id].data # buf /\ id # Len(posted) + 1
       /\ DOMAIN requests' = DOMAIN requests \cup {Len(posted) + 1}
  BY <1>3 DEF Isend, Free, AddRequest, NewId, PairingOK
<1>12. /\ \A id \in DOMAIN requests : requests'[id] = requests[id]
       /\ requests'[Len(posted) + 1] = [size |-> size, data |-> buf, peer_buf |-> NoBuffer]
  BY <1>11 DEF Isend, AddRequest, NewId
<1>13. ends = BoundTo(posted', Len(posted) + 1) /\ ends \in Binding
  <2>1. posted'[Len(posted) + 1] = post
    BY <1>3, <1>9
  <2>2. QED BY <1>5, <1>7, <2>1 DEF BoundTo, Binding, Buffers
<1>14. Books(Append(transfers, new), bound', requests', mem2, posted')
  <2>1. NewPost(posted, post, posted')
    BY <1>5, <1>9 DEF NewPost, Meant
  <2>2. NewRun(posted, post, new, ends, posted')
    BY <1>5, <1>10, <1>13 DEF NewRun
  <2>3. NewRequest(requests, posted, post, requests')
    BY <1>5, <1>11, <1>12 DEF NewRequest
  <2>4. mem2 = Prepared(memory, posted, post)
    BY <1>5, <1>8 DEF Prepared
  <2>5. QED BY <1>1, <1>3, <1>9, <2>1, <2>2, <2>3, <2>4, PostBooks
<1>15. SubmitUnits \in Nat
  BY PluginAssumption
<1>16. Books(transfers', bound', requests', memory', posted')
  BY <1>3, <1>9, <1>14, <1>15, TickBooks
<1>17. QED BY <1>1, <1>2, <1>9, <1>16 DEF PluginInv

LEMMA IrecvBooks ==
  ASSUME PluginInv, NEW buf \in RecvBuffers, NEW size \in Sizes, Irecv(buf, size)
  PROVE  PluginInv'
<1>1. PairingInv /\ Books(transfers, bound, requests, memory, posted) /\ calls \in {0, 1}
  BY DEF PluginInv
<1>2. PairingInv'
  BY <1>1, IrecvKeeps
<1>3. posted \in Seq(Post) /\ PairingOK(requests, posted) /\ posted' \in Seq(Post)
      /\ PairingOK(requests', posted')
  BY <1>1, <1>2 DEF PairingInv
<1>4. PICK expects, late :
        expects = Expected(CommOf[buf], size) /\ late = (expects \in Forgotten(size))
  OBVIOUS
<1>5. PICK from \in IF Unpaired(size) = {} THEN {0} ELSE Unpaired(size) :
        LET src == IF from = 0 THEN NoBuffer ELSE requests[from].data
            table == IF from = 0 THEN requests ELSE Claim(requests, from, buf)
        IN  /\ SubmitTransfer(size, src, buf, memory)
            /\ requests' = AddRequest(table, size, buf, src)
            /\ posted' = Append(posted, [send |-> FALSE, size |-> size, buf |-> buf,
                                         from |-> from, expects |-> expects, late |-> late])
  BY <1>4 DEF Irecv
<1>6. PICK src : src = IF from = 0 THEN NoBuffer ELSE requests[from].data
  OBVIOUS
<1>7. PICK table : table = IF from = 0 THEN requests ELSE Claim(requests, from, buf)
  OBVIOUS
<1>8. PICK post : post = [send |-> FALSE, size |-> size, buf |-> buf, from |-> from,
                          expects |-> expects, late |-> late]
  OBVIOUS
<1>9. PICK new : new = NewTransfer(IsKv(size), size, Chunks(size))
  OBVIOUS
<1>10. PICK ends : ends = [src |-> src, dst |-> buf]
  OBVIOUS
<1>11. /\ SubmitTransfer(size, src, buf, memory) /\ requests' = AddRequest(table, size, buf, src)
       /\ posted' = Append(posted, post)
  BY <1>5, <1>6, <1>7, <1>8
<1>12. /\ calls' = calls /\ bound' = Append(bound, ends)
       /\ transfers' = TickAll(Append(transfers, new), AtRate(SubmitUnits))
       /\ memory' = Copied(memory, Append(transfers, new), bound', SubmitUnits)
  BY <1>9, <1>10, <1>11 DEF SubmitTransfer, Submitted
<1>13. /\ \A id \in DOMAIN requests : id \in DOMAIN posted /\ id # 0 /\ id # Len(posted) + 1
       /\ Len(posted) \in Nat /\ DOMAIN posted = 1 .. Len(posted)
  BY <1>3 DEF PairingOK
<1>14. from # 0 => from \in DOMAIN requests /\ from \in Unpaired(size)
  BY <1>5 DEF Unpaired
<1>15. expects # 0 /\ ~late => from = expects /\ posted[expects].send
  <2>1. ASSUME expects # 0, ~late PROVE from = expects /\ posted[expects].send
    <3>1. /\ Unpaired(size) # {}
          /\ \A r \in Unpaired(size) : r = expects /\ posted[r].send
      BY <1>1, <1>4, <2>1, ExpectedIsMatch
    <3>2. from \in Unpaired(size)
      BY <1>5, <3>1
    <3>3. QED BY <3>1, <3>2
  <2>2. QED BY <2>1
<1>16. from \in Nat /\ expects \in Nat /\ late \in BOOLEAN
  BY <1>1, <1>4, <1>13, <1>14, ExpectedType
<1>17. /\ post \in Post /\ ~post.send /\ post.buf = buf /\ post.size = size
       /\ post.from = from /\ post.expects = expects /\ post.late = late
  BY <1>8, <1>16 DEF Post, Buffers
<1>18. Runs(new, size) /\ \A i \in DOMAIN new.chunks : new.chunks[i].sent = 0
  BY <1>9, NewRuns
<1>19. /\ DOMAIN table = DOMAIN requests
       /\ \A id \in DOMAIN requests : table[id].data = requests[id].data
  <2>1. CASE from = 0
    BY <1>7, <2>1
  <2>2. CASE from # 0
    <3>1. table = [requests EXCEPT ![from].peer_buf = buf] /\ from \in DOMAIN requests
      BY <1>7, <1>14, <2>2 DEF Claim
    <3>2. requests[from] \in Request
      BY <1>1, <3>1 DEF PairingInv
    <3>3. table[from] = [requests[from] EXCEPT !.peer_buf = buf]
      BY <3>1
    <3>4. table[from].data = requests[from].data
      BY <3>2, <3>3 DEF Request
    <3>5. QED BY <3>1, <3>4
  <2>3. QED BY <2>1, <2>2
<1>20. /\ \A id \in DOMAIN requests : requests[id].data # buf
       /\ DOMAIN requests' = DOMAIN requests \cup {Len(posted) + 1}
       /\ \A id \in DOMAIN requests : requests'[id].data = requests[id].data
       /\ requests'[Len(posted) + 1].data = buf
  <2>1. Free(buf)
    BY DEF Irecv
  <2>2. /\ DOMAIN requests' = DOMAIN requests \cup {Len(posted) + 1}
        /\ \A id \in DOMAIN requests : requests'[id] = table[id]
        /\ requests'[Len(posted) + 1] = [size |-> size, data |-> buf, peer_buf |-> src]
    BY <1>11, <1>13, <1>19 DEF AddRequest, NewId
  <2>3. QED BY <1>19, <2>1, <2>2 DEF Free
<1>21. ends = BoundTo(posted', Len(posted) + 1) /\ ends \in Binding
  <2>1. posted'[Len(posted) + 1] = post /\ \A id \in DOMAIN posted : posted'[id] = posted[id]
    BY <1>3, <1>11, <1>13
  <2>2. src = IF from = 0 THEN NoBuffer ELSE posted'[from].buf
    BY <1>1, <1>6, <1>13, <1>14, <2>1 DEF Books, RequestsOK
  <2>3. BoundTo(posted', Len(posted) + 1) = [src |-> src, dst |-> buf]
    BY <1>17, <2>1, <2>2 DEF BoundTo
  <2>4. src \in Buffers \cup {NoBuffer}
    BY <1>1, <1>6, <1>14 DEF PairingInv, Request
  <2>5. QED BY <1>10, <2>3, <2>4 DEF Binding, Buffers
<1>22. Books(Append(transfers, new), bound', requests', memory, posted')
  <2>1. NewPost(posted, post, posted')
    <3>1. post.from # 0 => post.from \in DOMAIN posted
      BY <1>13, <1>14, <1>17
    <3>2. buf \in RecvBuffers
      OBVIOUS
    <3>3. QED BY <1>11, <1>15, <1>17, <3>1, <3>2 DEF NewPost, Meant
  <2>2. NewRun(posted, post, new, ends, posted')
    BY <1>17, <1>18, <1>21 DEF NewRun
  <2>3. NewRequest(requests, posted, post, requests')
    BY <1>17, <1>20 DEF NewRequest
  <2>4. memory = Prepared(memory, posted, post)
    BY <1>17 DEF Prepared
  <2>5. QED BY <1>1, <1>3, <1>12, <2>1, <2>2, <2>3, <2>4, PostBooks
<1>23. SubmitUnits \in Nat
  BY PluginAssumption
<1>24. Books(transfers', bound', requests', memory', posted')
  BY <1>3, <1>12, <1>22, <1>23, TickBooks
<1>25. QED BY <1>1, <1>2, <1>12, <1>24 DEF PluginInv

(* A test: the tick, and then what it leaves of the requests.              *)
LEMMA TestBooks ==
  ASSUME PluginInv, NEW id \in DOMAIN requests, Test(id)
  PROVE  /\ Books(transfers', bound, requests, memory', posted)
         /\ DOMAIN requests' \subseteq DOMAIN requests
         /\ \A r \in DOMAIN requests' : requests'[r] = requests[r]
         /\ \A r \in DOMAIN requests \ DOMAIN requests' : Over(transfers'[r])
<1>1. PairingInv /\ Books(transfers, bound, requests, memory, posted)
  BY DEF PluginInv
<1>2. posted \in Seq(Post) /\ PairingOK(requests, posted) /\ TestUnits \in Nat
  BY <1>1, PluginAssumption DEF PairingInv
<1>3. /\ transfers' = TickAll(transfers, AtRate(TestUnits))
      /\ memory' = Copied(memory, transfers, bound, TestUnits)
  BY DEF Test, PollTransfers
<1>4. Books(transfers', bound, requests, memory', posted)
  BY <1>1, <1>2, <1>3, TickBooks
<1>5. requests' = [r \in DOMAIN requests \ (IF Over(transfers'[id]) THEN {id} ELSE {}) |->
                     requests[r]]
  BY DEF Test
<1>6. QED BY <1>4, <1>5

LEMMA TestKeepsBooks ==
  ASSUME PluginInv, NEW id \in DOMAIN requests, Test(id)
  PROVE  PluginInv'
<1>1. PairingInv'
  BY TestKeeps DEF PluginInv
<1>2. /\ Books(transfers', bound, requests, memory', posted)
      /\ DOMAIN requests' \subseteq DOMAIN requests
      /\ \A r \in DOMAIN requests' : requests'[r] = requests[r]
      /\ \A r \in DOMAIN requests \ DOMAIN requests' : Over(transfers'[r])
  BY TestBooks
<1>3. calls' \in {0, 1} /\ bound' = bound /\ posted' = posted
  BY DEF Test, PluginInv
<1>4. ASSUME NEW r \in DOMAIN requests \ DOMAIN requests' PROVE ~Active(transfers'[r])
  <2>1. r \in DOMAIN posted
    BY DEF PluginInv, PairingInv, PairingOK
  <2>2. Runs(transfers'[r], posted[r].size)
    BY <1>2, <2>1 DEF Books, TransfersOK
  <2>3. Over(transfers'[r])
    BY <1>2
  <2>4. QED BY <2>2, <2>3 DEF Runs, Over, Active
<1>5. Books(transfers', bound, requests', memory', posted)
  BY <1>2, <1>4, ForgetBooks
<1>6. QED BY <1>1, <1>3, <1>5 DEF PluginInv

LEMMA PluginInit == Init => PluginInv
<1> SUFFICES ASSUME Init PROVE PluginInv
  OBVIOUS
<1>1. PairingInv
  BY PairingInit
<1>2. /\ transfers = <<>> /\ bound = <<>> /\ posted = <<>> /\ DOMAIN requests = {}
      /\ memory = [buf \in Buffers |-> [b \in Units |-> 0]] /\ calls \in {0, 1}
  BY DEF Init
<1>3. PostsOK(posted) /\ TransfersOK(transfers, bound, posted) /\ RequestsOK(requests, transfers, posted)
  BY <1>2 DEF PostsOK, TransfersOK, RequestsOK
<1>4. MemoryOK(memory, requests, transfers, posted)
  BY <1>2 DEF MemoryOK
<1>5. QED BY <1>1, <1>2, <1>3, <1>4 DEF PluginInv, Books

LEMMA PluginKeeps == PluginInv /\ [Next]_vars => PluginInv'
<1>1. ASSUME PluginInv, Next PROVE PluginInv'
  BY <1>1, IsendBooks, IrecvBooks, TestKeepsBooks DEF Next
<1>2. ASSUME PluginInv, UNCHANGED vars PROVE PluginInv'
  BY <1>2, PairingKeeps DEF PluginInv, vars
<1>3. QED BY <1>1, <1>2

-----------------------------------------------------------------------------
(* The tables of plugin_isend, plugin_irecv and plugin_test describe the   *)
(* same posts, and no transfer sends past the end of a chunk.              *)
THEOREM PluginTypeCorrect == Spec => []TypeOK
<1>1. PluginInv => TypeOK
  <2> SUFFICES ASSUME PluginInv PROVE TypeOK
    OBVIOUS
  <2>1. /\ PairingOK(requests, posted) /\ \A id \in DOMAIN requests : requests[id] \in Request
        /\ PostsOK(posted) /\ TransfersOK(transfers, bound, posted)
        /\ MemoryOK(memory, requests, transfers, posted) /\ calls \in {0, 1}
    BY DEF PluginInv, PairingInv, Books
  <2>2. /\ DOMAIN posted = 1 .. Len(posted) /\ DOMAIN requests \subseteq DOMAIN posted
        /\ transfers \in Seq(TransferProgress) /\ DOMAIN transfers = DOMAIN posted
        /\ DOMAIN bound = DOMAIN posted
    BY <2>1 DEF PairingOK, TransfersOK
  <2>3. \A id \in DOMAIN transfers : \A i \in DOMAIN transfers[id].chunks :
          transfers[id].chunks[i].sent <= transfers[id].chunks[i].size
    BY <2>1, <2>2 DEF TransfersOK, Runs, TransferOK, ChunksOK
  <2>4. memory \in [Buffers -> [Units -> {0} \cup DOMAIN posted]]
    BY <2>1 DEF MemoryOK
  <2>5. QED BY <2>1, <2>2, <2>3, <2>4 DEF TypeOK
<1>2. QED BY PluginInit, PluginKeeps, <1>1, PTL DEF Spec

(* What plugin_test promises: a receive it reports done has its message,   *)
(* complete, whatever was posted and tested meanwhile, if it was posted    *)
(* while its send was outstanding, without a rival for the pairing, and    *)
(* the send's buffer was not given a new message.  (A receive whose send   *)
(* was reported done before it was posted has none: ReceiveIsFilled.)      *)
THEOREM DoneIsDelivered == Spec => DoneMeansDelivered
<1> DEFINE Delivered ==
      \A id \in DOMAIN requests \ DOMAIN requests' :
        Meant(posted[id]) /\ Kept(posted[id].expects) =>
          HasMessage(posted[id], memory')
<1>1. ASSUME PluginInv, Next PROVE Delivered
  <2>1. CASE \E buf \in SendBuffers, size \in Sizes : Isend(buf, size)
    BY <2>1 DEF Isend, AddRequest
  <2>2. CASE \E buf \in RecvBuffers, size \in Sizes : Irecv(buf, size)
    BY <2>2 DEF Irecv, AddRequest, Claim
  <2>3. CASE \E id \in DOMAIN requests : Test(id)
    <3>1. PICK id \in DOMAIN requests : Test(id)
      BY <2>3
    <3>2. /\ Books(transfers', bound, requests, memory', posted)
          /\ \A r \in DOMAIN requests \ DOMAIN requests' : Over(transfers'[r])
      BY <1>1, <3>1, TestBooks
    <3>3. SUFFICES ASSUME NEW r \in DOMAIN requests \ DOMAIN requests',
                          Meant(posted[r]), Kept(posted[r].expects),
                          NEW b \in 0 .. (posted[r].size - 1)
                   PROVE  memory'[posted[r].buf][b] = posted[r].expects
      BY DEF HasMessage
    <3>4. r \in DOMAIN posted /\ posted \in Seq(Post)
      BY <1>1 DEF PluginInv, PairingInv, PairingOK
    <3>5. posted[r].size \in Nat
      <4>1. posted[r] \in Post
        BY <3>4
      <4>2. QED BY <4>1, UnitsOf DEF Post
    <3>6. Runs(transfers'[r], posted[r].size) /\ Over(transfers'[r])
      BY <3>2, <3>4 DEF Books, TransfersOK
    <3>7. PICK i \in DOMAIN transfers'[r].chunks : b \in SentRange(transfers'[r].chunks[i])
      BY <3>5, <3>6, OverIsSent
    <3>8. KeptIn(posted, posted[r].expects)
      BY <3>3 DEF Kept, KeptIn
    <3>9. Arrived(transfers'[r].chunks, memory'[posted[r].buf], posted[r].expects)
      BY <3>2, <3>3, <3>8 DEF Books, MemoryOK
    <3>10. QED BY <3>7, <3>9 DEF Arrived
  <2>4. QED BY <1>1, <2>1, <2>2, <2>3 DEF Next
<1>2. UNCHANGED vars => Delivered
  BY DEF vars
<1>3. PluginInv /\ [Next]_vars => [Delivered]_vars
  BY <1>1, <1>2
<1>4. QED BY PluginInit, PluginKeeps, <1>3, PTL DEF Spec, DoneMeansDelivered

(* plugin_irecv pairs each posted buffer with one receive at most,         *)
(* whatever sends, receives and tests of several communicators interleave: *)
(* the pairing marks the send's request, and a request that test has       *)
(* forgotten is not found.                                                 *)
THEOREM NothingDeliveredTwice == Spec => []OneReceiverPerSend
<1>1. PairingInv => OneReceiverPerSend
  BY DEF PairingInv, PairingOK, OnceEach, OneReceiverPerSend
<1>2. QED BY PairingInit, PairingKeeps, <1>1, PTL DEF Spec
=============================================================================
