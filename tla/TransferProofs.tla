--------------------------- MODULE TransferProofs ---------------------------
(***************************************************************************)
(* What the executor's operations do to one transfer, for every set of     *)
(* paths, number of rails, quantum and size: in three parts, facts about   *)
(* chunk lists, what keeps rails and statuses in order, and what reaches   *)
(* the destination.                                                        *)
(***************************************************************************)
EXTENDS Transfer, FiniteSetTheorems, FunctionTheorems, SequenceTheorems, TLAPS

(***************************************************************************)
(* Part 1: facts about chunk lists that hold for every quantum and every   *)
(* size: the sum of a sequence of numbers behaves like a sum, and the      *)
(* chunks of a striped migration add up to the migration.                  *)
(***************************************************************************)

(* A chunk list has finitely many bytes.                                   *)
LEMMA PairsFinite ==
  ASSUME NEW n \in Nat, NEW f \in [1..n -> Nat]
  PROVE  IsFiniteSet(Pairs(f))
<1> DEFINE row == [i \in 1..n |-> {i} \X (1..f[i])]
           rows == {{i} \X (1..f[i]) : i \in 1..n}
<1>1. IsFiniteSet(1..n)
  BY FS_Interval
<1>2. row \in Surjection(1..n, rows)
  <2>1. row \in [1..n -> rows]
    OBVIOUS
  <2>2. \A r \in rows : \E i \in 1..n : row[i] = r
    OBVIOUS
  <2> HIDE DEF row, rows
  <2>3. QED BY <2>1, <2>2 DEF Surjection
<1>3. IsFiniteSet(rows)
  BY <1>1, <1>2, FS_Surjection
<1>4. \A r \in rows : IsFiniteSet(r)
  <2> SUFFICES ASSUME NEW i \in 1..n PROVE IsFiniteSet({i} \X (1..f[i]))
    OBVIOUS
  <2>1. f[i] \in Int
    OBVIOUS
  <2>2. IsFiniteSet(1..f[i])
    BY <2>1, FS_Interval
  <2>3. IsFiniteSet({i})
    BY FS_Singleton
  <2>4. QED BY <2>2, <2>3, FS_Product
<1>5. IsFiniteSet(UNION rows)
  BY <1>3, <1>4, FS_UNION
<1>6. Pairs(f) = UNION rows
  BY DEF Pairs
<1>7. QED BY <1>5, <1>6

(* A sum is a natural number.                                              *)
LEMMA TotalType ==
  ASSUME NEW n \in Nat, NEW f \in [1..n -> Nat]
  PROVE  Total(f) \in Nat
BY PairsFinite, FS_CardinalityType DEF Total

(* A sum of smaller terms is smaller, and equal only term by term.  This   *)
(* is what makes "no bytes remain" mean "every chunk is full".             *)
LEMMA TotalMonotone ==
  ASSUME NEW n \in Nat, NEW f \in [1..n -> Nat], NEW g \in [1..n -> Nat],
         \A i \in 1..n : f[i] <= g[i]
  PROVE  /\ Total(f) <= Total(g)
         /\ Total(f) = Total(g) => f = g
<1>1. IsFiniteSet(Pairs(g))
  BY PairsFinite
<1>2. Pairs(f) \subseteq Pairs(g)
  BY DEF Pairs
<1>3. ASSUME Pairs(f) = Pairs(g) PROVE f = g
  <2> SUFFICES ASSUME NEW i \in 1..n, f[i] # g[i] PROVE FALSE
    OBVIOUS
  <2>1. <<i, g[i]>> \in Pairs(g)
    BY DEF Pairs
  <2>2. <<i, g[i]>> \notin Pairs(f)
    BY DEF Pairs
  <2>3. QED BY <1>3, <2>1, <2>2
<1>4. QED BY <1>1, <1>2, <1>3, FS_Subset DEF Total

(* One chunk of the whole size adds up to that size.                       *)
LEMMA WholeTotal ==
  ASSUME NEW m \in Nat, NEW path
  PROVE  AllBytes(Whole(m, path)) = m
<1> DEFINE f == [i \in 1..1 |-> m]
           snd == [b \in 1..m |-> <<1, b>>]
<1>1. [i \in DOMAIN Whole(m, path) |-> Whole(m, path)[i].size] = f
  BY DEF Whole
<1>2. Pairs(f) = {1} \X (1..m)
  BY DEF Pairs
<1>3. snd \in Bijection(1..m, {1} \X (1..m))
  <2>1. snd \in [1..m -> {1} \X (1..m)]
    OBVIOUS
  <2>2. \A a, b \in 1..m : snd[a] = snd[b] => a = b
    OBVIOUS
  <2>3. \A p \in {1} \X (1..m) : \E b \in 1..m : snd[b] = p
    OBVIOUS
  <2> HIDE DEF snd
  <2>4. QED BY <2>1, <2>2, <2>3 DEF Bijection, Injection, Surjection, IsInjective
<1>4. IsFiniteSet(1..m) /\ Cardinality(1..m) = m
  BY FS_Interval
<1>5. Cardinality({1} \X (1..m)) = m
  BY <1>3, <1>4, FS_Bijection DEF ExistsBijection
<1>6. QED BY <1>1, <1>2, <1>5 DEF AllBytes, Total

(* The number of chunks is the size divided by the quantum, rounded up.    *)
LEMMA NumChunksBounds ==
  ASSUME NEW total \in Nat
  PROVE  /\ NumChunks(total) \in Nat
         /\ total <= NumChunks(total) * ChunkBytes
         /\ NumChunks(total) * ChunkBytes < total + ChunkBytes
<1> DEFINE m == total + ChunkBytes - 1
<1>1. ChunkBytes \in Nat \ {0} /\ m \in Nat
  BY StripingAssumption
<1>2. \A k \in Nat, q \in Nat \ {0} :
        q * (k \div q) <= k /\ k < q * (k \div q) + q /\ (k \div q) \in Nat
  OBVIOUS
<1>3. /\ ChunkBytes * (m \div ChunkBytes) <= m
      /\ m < ChunkBytes * (m \div ChunkBytes) + ChunkBytes
      /\ (m \div ChunkBytes) \in Nat
  BY <1>1, <1>2
<1>4. NumChunks(total) = m \div ChunkBytes
  BY DEF NumChunks
<1>5. QED BY <1>1, <1>3, <1>4
-----------------------------------------------------------------------------
(* The i-th chunk of a striped migration: where it starts and how long it  *)
(* is.  All but the last have a full quantum, and the last is not empty.   *)
LEMMA StripeChunk ==
  ASSUME NEW total \in Nat, NEW route, NEW i \in 1..NumChunks(total)
  PROVE  /\ Stripe(total, route)[i].offset = (i - 1) * ChunkBytes
         /\ Stripe(total, route)[i].size \in 1..ChunkBytes
         /\ (i - 1) * ChunkBytes + Stripe(total, route)[i].size <= total
         /\ i < NumChunks(total) => Stripe(total, route)[i].size = ChunkBytes
         /\ i = NumChunks(total) =>
              (i - 1) * ChunkBytes + Stripe(total, route)[i].size = total
<1> DEFINE n == NumChunks(total)
           q == ChunkBytes
<1>1. /\ q \in Nat \ {0} /\ n \in Nat /\ i \in Nat
      /\ n * q < total + q /\ total <= n * q
  BY StripingAssumption, NumChunksBounds
<1>2. (i - 1) * q = i * q - q
  BY <1>1
<1>3. i * q <= n * q
  BY <1>1
<1>4. i < n => i * q <= n * q - q
  <2>1. i < n => (i + 1) * q <= n * q
    BY <1>1
  <2>2. (i + 1) * q = i * q + q
    BY <1>1
  <2>3. QED BY <1>1, <2>1, <2>2
<1>5. /\ Stripe(total, route)[i].offset = (i - 1) * q
      /\ Stripe(total, route)[i].size = Smaller(q, total - (i - 1) * q)
  BY DEF Stripe
<1>6. i * q \in Nat /\ n * q \in Nat
  BY <1>1
<1> DEFINE iq == i * q
           nq == n * q
<1>7. /\ iq \in Nat /\ nq \in Nat /\ (i - 1) * q = iq - q
      /\ iq <= nq /\ (i < n => iq <= nq - q) /\ nq < total + q /\ total <= nq
      /\ (i = n => iq = nq)
  BY <1>1, <1>2, <1>3, <1>4, <1>6
<1> HIDE DEF iq, nq, n
<1>8. QED BY <1>1, <1>5, <1>7 DEF Smaller, n

(* The chunks of a striped migration add up to the migration: byte b of    *)
(* chunk i is byte (i - 1) * quantum + b of the whole, and every byte of   *)
(* the whole is in one chunk.                                              *)
LEMMA StripeTotal ==
  ASSUME NEW total \in Nat, NEW route
  PROVE  AllBytes(Stripe(total, route)) = total
<1> DEFINE n == NumChunks(total)
           q == ChunkBytes
           f == [i \in DOMAIN Stripe(total, route) |-> Stripe(total, route)[i].size]
           at == [p \in Pairs(f) |-> (p[1] - 1) * q + p[2]]
<1>1. q \in Nat \ {0} /\ n \in Nat /\ total <= n * q
  BY StripingAssumption, NumChunksBounds
<1>2. DOMAIN Stripe(total, route) = 1..n
  BY DEF Stripe
<1>3. \A i \in 1..n : /\ f[i] \in 1..q
                      /\ (i - 1) * q + f[i] <= total
                      /\ i < n => f[i] = q
                      /\ i = n => (i - 1) * q + f[i] = total
  BY <1>2, StripeChunk
<1>4. f \in [1..n -> Nat]
  <2>1. f = [i \in 1..n |-> f[i]]
    BY <1>2
  <2>2. \A i \in 1..n : f[i] \in Nat
    BY <1>1, <1>3
  <2> HIDE DEF f
  <2>3. QED BY <2>1, <2>2
<1> HIDE DEF f
<1>5. \A p \in Pairs(f) : /\ p = <<p[1], p[2]>>
                          /\ p[1] \in 1..n /\ p[2] \in 1..f[p[1]]
  BY <1>4 DEF Pairs
<1>6. \A i \in 1..n : \A b \in 1..f[i] : <<i, b>> \in Pairs(f)
  BY <1>4 DEF Pairs
<1>7. at \in [Pairs(f) -> 1..total]
  <2> SUFFICES ASSUME NEW p \in Pairs(f) PROVE (p[1] - 1) * q + p[2] \in 1..total
    OBVIOUS
  <2>1. p[1] \in 1..n /\ p[2] \in 1..f[p[1]]
    BY <1>5
  <2>2. (p[1] - 1) * q \in Nat
    BY <1>1, <2>1
  <2>3. (p[1] - 1) * q + f[p[1]] <= total /\ f[p[1]] \in Nat
    BY <1>3, <1>4, <2>1
  <2>4. QED BY <2>1, <2>2, <2>3
<1>8. ASSUME NEW p \in Pairs(f), NEW r \in Pairs(f), at[p] = at[r], p[1] < r[1]
      PROVE  FALSE
  <2>1. /\ p[1] \in 1..n /\ r[1] \in 1..n
        /\ p[2] \in 1..q /\ r[2] \in 1..q
    BY <1>1, <1>3, <1>5
  <2>2. p[1] * q <= (r[1] - 1) * q
    BY <1>1, <1>8, <2>1
  <2>3. (p[1] - 1) * q = p[1] * q - q /\ p[1] * q \in Nat /\ (r[1] - 1) * q \in Nat
    BY <1>1, <2>1
  <2>4. (p[1] - 1) * q + p[2] = (r[1] - 1) * q + r[2]
    BY <1>8
  <2>5. QED BY <1>1, <2>1, <2>2, <2>3, <2>4
<1>9. ASSUME NEW p \in Pairs(f), NEW r \in Pairs(f), at[p] = at[r]
      PROVE  p = r
  <2>1. p[1] \in 1..n /\ r[1] \in 1..n
    BY <1>5
  <2>2. ~(p[1] < r[1]) /\ ~(r[1] < p[1])
    BY <1>8, <1>9
  <2>3. p[1] = r[1]
    BY <1>1, <2>1, <2>2
  <2>4. p[2] \in Nat /\ r[2] \in Nat /\ (p[1] - 1) * q \in Int
    BY <1>1, <1>4, <1>5, <2>1
  <2>5. p[2] = r[2]
    BY <1>9, <2>3, <2>4
  <2>6. QED BY <1>5, <2>3, <2>5
<1>10. ASSUME NEW m \in 1..total
       PROVE  \E p \in Pairs(f) : at[p] = m
  <2> DEFINE k == (m - 1) \div q
             b == m - k * q
  <2>1. \A x \in Nat, y \in Nat \ {0} :
          y * (x \div y) <= x /\ x < y * (x \div y) + y /\ (x \div y) \in Nat
    OBVIOUS
  <2>2. k \in Nat /\ q * k <= m - 1 /\ m - 1 < q * k + q
    BY <1>1, <2>1
  <2> HIDE DEF k
  <2>3. k * q = q * k /\ k * q \in Nat
    BY <1>1, <2>2
  <2>4. b \in 1..q
    BY <1>1, <2>2, <2>3
  <2>5. k < n
    <3>1. CASE k >= n
      <4>1. k * q >= n * q
        BY <1>1, <2>2, <3>1
      <4>2. n * q \in Nat
        BY <1>1
      <4>3. QED BY <1>1, <2>2, <2>3, <4>1, <4>2
    <3>2. QED BY <1>1, <2>2, <3>1
  <2>6. k + 1 \in 1..n /\ (k + 1) - 1 = k
    BY <1>1, <2>2, <2>5
  <2>7. b \in 1..f[k + 1]
    <3>1. CASE k + 1 < n
      BY <1>3, <2>4, <2>6, <3>1
    <3>2. CASE k + 1 = n
      <4>1. k * q + f[k + 1] = total
        BY <1>3, <2>6, <3>2
      <4>2. f[k + 1] \in Nat
        BY <1>4, <2>6
      <4>3. QED BY <2>3, <2>4, <4>1, <4>2
    <3>3. QED BY <1>1, <2>2, <2>6, <3>1, <3>2
  <2>8. <<k + 1, b>> \in Pairs(f)
    BY <1>6, <2>6, <2>7
  <2>9. at[<<k + 1, b>>] = k * q + b
    BY <2>6, <2>8
  <2>10. k * q + b = m
    BY <2>3
  <2>11. QED BY <2>8, <2>9, <2>10
<1>11. at \in Bijection(Pairs(f), 1..total)
  <2> HIDE DEF at
  <2>1. QED BY <1>7, <1>9, <1>10 DEF Bijection, Injection, Surjection, IsInjective
<1>12. IsFiniteSet(Pairs(f))
  BY <1>1, <1>4, PairsFinite
<1>13. Cardinality(Pairs(f)) = Cardinality(1..total)
  BY <1>11, <1>12, FS_Bijection DEF ExistsBijection
<1>14. Cardinality(1..total) = total
  BY FS_Interval
<1>15. QED BY <1>13, <1>14 DEF AllBytes, Total, f

(***************************************************************************)
(* Part 2: the states of chunks and transfers, and the rails they hold.    *)
(***************************************************************************)

-----------------------------------------------------------------------------
(* One transfer's chunks *)

(* A chunk list as the executor may hold it.                               *)
ChunksOK(chunks) ==
  /\ chunks \in Seq(ChunkProgress)
  /\ \A i \in DOMAIN chunks : chunks[i].sent <= chunks[i].size

(* The step from chunks to after leaves alone where each chunk lies and    *)
(* how long it is.                                                         *)
SameShape(chunks, after) ==
  /\ DOMAIN after = DOMAIN chunks
  /\ \A i \in DOMAIN chunks :
       after[i].offset = chunks[i].offset /\ after[i].size = chunks[i].size

SameSent(chunks, after) ==
  \A i \in DOMAIN chunks : after[i].sent = chunks[i].sent

(* OneChunkPerRail, of one chunk list.                                     *)
Exclusive(chunks) ==
  \A i, j \in DOMAIN chunks :
    /\ chunks[i].state = "InFlight"
    /\ chunks[j].state = "InFlight"
    /\ Slot(chunks[i]) = Slot(chunks[j])
    => i = j

(* A function on 1..n with values in S is a sequence over S.               *)
LEMMA FunctionIsSeq ==
  ASSUME NEW S, NEW n \in Nat, NEW f \in [1..n -> S]
  PROVE  f \in Seq(S) /\ Len(f) = n /\ DOMAIN f = 1..n
OBVIOUS

LEMMA SeqIsFunction ==
  ASSUME NEW S, NEW s \in Seq(S)
  PROVE  s \in [1..Len(s) -> S] /\ s = [i \in 1..Len(s) |-> s[i]]
OBVIOUS

(* Replacing every chunk by another one gives a chunk list again.          *)
LEMMA MapChunks ==
  ASSUME NEW chunks \in Seq(ChunkProgress), NEW after,
         DOMAIN after = DOMAIN chunks,
         after = [i \in DOMAIN after |-> after[i]],
         \A i \in DOMAIN chunks : after[i] \in ChunkProgress
  PROVE  after \in Seq(ChunkProgress) /\ Len(after) = Len(chunks)
<1>1. DOMAIN chunks = 1..Len(chunks) /\ Len(chunks) \in Nat
  OBVIOUS
<1>2. after \in [1..Len(chunks) -> ChunkProgress]
  BY <1>1
<1>3. QED BY <1>1, <1>2, FunctionIsSeq

(* Starting Pending chunks touches nothing but states, and only from       *)
(* Pending to InFlight.                                                    *)
LEMMA ActivateKeeps ==
  ASSUME NEW chunks, ChunksOK(chunks)
  PROVE  /\ ChunksOK(Activate(chunks))
         /\ SameShape(chunks, Activate(chunks))
         /\ SameSent(chunks, Activate(chunks))
         /\ \A i \in DOMAIN chunks : Activate(chunks)[i].path = chunks[i].path
<1> DEFINE after == Activate(chunks)
<1>1. DOMAIN after = DOMAIN chunks /\ after = [i \in DOMAIN after |-> after[i]]
  BY DEF Activate
<1>2. \A i \in DOMAIN chunks : after[i] \in {chunks[i], [chunks[i] EXCEPT !.state = "InFlight"]}
  BY DEF Activate
<1> HIDE DEF after
<1>3. \A i \in DOMAIN chunks : chunks[i] \in ChunkProgress
  BY DEF ChunksOK
<1>4. \A i \in DOMAIN chunks :
        /\ after[i] \in ChunkProgress
        /\ after[i].offset = chunks[i].offset /\ after[i].size = chunks[i].size
        /\ after[i].sent = chunks[i].sent /\ after[i].path = chunks[i].path
  BY <1>2, <1>3 DEF ChunkProgress, ChunkStates
<1>5. after \in Seq(ChunkProgress)
  BY <1>1, <1>4, MapChunks DEF ChunksOK
<1>6. QED BY <1>1, <1>4, <1>5 DEF ChunksOK, SameShape, SameSent, after

(* Starting Pending chunks never puts two chunks on one rail.              *)
LEMMA ActivateExclusive ==
  ASSUME NEW chunks, ChunksOK(chunks), Exclusive(chunks)
  PROVE  Exclusive(Activate(chunks))
<1> DEFINE after == Activate(chunks)
<1> SUFFICES ASSUME NEW i \in DOMAIN chunks, NEW j \in DOMAIN chunks,
                    after[i].state = "InFlight", after[j].state = "InFlight",
                    Slot(after[i]) = Slot(after[j]), i # j
             PROVE  FALSE
  BY DEF Exclusive, Activate
<1>1. Slot(chunks[i]) = Slot(chunks[j])
  BY ActivateKeeps DEF Slot
<1>2. chunks[i].state = "InFlight" \/ FirstForSlot(chunks, i)
  BY DEF Activate
<1>3. chunks[j].state = "InFlight" \/ FirstForSlot(chunks, j)
  BY DEF Activate
<1>4. i \in Nat /\ j \in Nat
  BY DEF ChunksOK
<1>5. CASE chunks[i].state = "InFlight" /\ chunks[j].state = "InFlight"
  BY <1>1, <1>5 DEF Exclusive
<1>6. CASE FirstForSlot(chunks, i) /\ chunks[j].state = "InFlight"
  BY <1>1, <1>6 DEF FirstForSlot
<1>7. CASE chunks[i].state = "InFlight" /\ FirstForSlot(chunks, j)
  BY <1>1, <1>7 DEF FirstForSlot
<1>8. CASE FirstForSlot(chunks, i) /\ FirstForSlot(chunks, j)
  <2>1. i < j \/ j < i
    BY <1>4
  <2>2. QED BY <1>1, <1>8, <2>1 DEF FirstForSlot
<1>9. QED BY <1>2, <1>3, <1>5, <1>6, <1>7, <1>8

LEMMA ParkKeeps ==
  ASSUME NEW chunks, ChunksOK(chunks)
  PROVE  /\ ChunksOK(Park(chunks))
         /\ SameShape(chunks, Park(chunks))
         /\ SameSent(chunks, Park(chunks))
         /\ Exclusive(chunks) => Exclusive(Park(chunks))
<1> DEFINE after == Park(chunks)
<1>1. DOMAIN after = DOMAIN chunks /\ after = [i \in DOMAIN after |-> after[i]]
  BY DEF Park
<1>2. \A i \in DOMAIN chunks : after[i] \in {chunks[i], [chunks[i] EXCEPT !.state = "Paused"]}
  BY DEF Park
<1> HIDE DEF after
<1>3. \A i \in DOMAIN chunks : chunks[i] \in ChunkProgress
  BY DEF ChunksOK
<1>4. \A i \in DOMAIN chunks :
        /\ after[i] \in ChunkProgress
        /\ after[i].offset = chunks[i].offset /\ after[i].size = chunks[i].size
        /\ after[i].sent = chunks[i].sent /\ after[i].path = chunks[i].path
        /\ after[i].state = "InFlight" => chunks[i].state = "InFlight"
  BY <1>2, <1>3 DEF ChunkProgress, ChunkStates
<1>5. after \in Seq(ChunkProgress)
  BY <1>1, <1>4, MapChunks DEF ChunksOK
<1>6. Exclusive(chunks) => Exclusive(after)
  BY <1>1, <1>4 DEF Exclusive, Slot
<1>7. QED BY <1>1, <1>4, <1>5, <1>6 DEF ChunksOK, SameShape, SameSent, after

(* Moving the chunks that are InFlight: what is sent stays within the      *)
(* chunk, and no chunk becomes InFlight.                                   *)
Moved(chunks, rate) == [i \in DOMAIN chunks |-> Advance(chunks[i], rate)]

LEMMA AdvanceKeeps ==
  ASSUME NEW c \in ChunkProgress, c.sent <= c.size, NEW rate \in [Paths -> Nat]
  PROVE  /\ StepOf(c, rate) \in Nat
         /\ Advance(c, rate) \in ChunkProgress
         /\ Advance(c, rate).offset = c.offset /\ Advance(c, rate).size = c.size
         /\ Advance(c, rate).path = c.path
         /\ Advance(c, rate).sent = c.sent + StepOf(c, rate)
         /\ Advance(c, rate).sent <= c.size
         /\ Advance(c, rate).state = "InFlight" => c.state = "InFlight"
<1>1. rate[c.path] \in Nat
  BY DEF ChunkProgress
<1>2. StepOf(c, rate) \in Nat /\ c.sent + StepOf(c, rate) <= c.size
  BY <1>1 DEF StepOf, Smaller, ChunkProgress
<1> DEFINE sent == c.sent + StepOf(c, rate)
           state == IF c.state = "InFlight" /\ sent >= c.size THEN "Completed" ELSE c.state
<1>3. Advance(c, rate) = [c EXCEPT !.sent = sent, !.state = state]
  BY DEF Advance
<1>4. sent \in Nat /\ sent <= c.size /\ state \in ChunkStates /\ (state = "InFlight" => c.state = "InFlight")
  BY <1>2 DEF ChunkProgress, ChunkStates
<1>5. sent = c.sent + StepOf(c, rate)
  OBVIOUS
<1> HIDE DEF sent, state
<1>6. QED BY <1>2, <1>3, <1>4, <1>5 DEF ChunkProgress

LEMMA MovedKeeps ==
  ASSUME NEW chunks, ChunksOK(chunks), NEW rate \in [Paths -> Nat]
  PROVE  /\ ChunksOK(Moved(chunks, rate))
         /\ SameShape(chunks, Moved(chunks, rate))
         /\ Exclusive(chunks) => Exclusive(Moved(chunks, rate))
<1> DEFINE after == Moved(chunks, rate)
<1>1. DOMAIN after = DOMAIN chunks /\ after = [i \in DOMAIN after |-> after[i]]
  BY DEF Moved
<1>2. \A i \in DOMAIN chunks : after[i] = Advance(chunks[i], rate)
  BY DEF Moved
<1> HIDE DEF after
<1>3. \A i \in DOMAIN chunks : chunks[i] \in ChunkProgress /\ chunks[i].sent <= chunks[i].size
  BY DEF ChunksOK
<1>4. \A i \in DOMAIN chunks :
        /\ after[i] \in ChunkProgress
        /\ after[i].offset = chunks[i].offset /\ after[i].size = chunks[i].size
        /\ after[i].path = chunks[i].path
        /\ after[i].sent <= after[i].size
        /\ after[i].state = "InFlight" => chunks[i].state = "InFlight"
  BY <1>2, <1>3, AdvanceKeeps
<1>5. after \in Seq(ChunkProgress)
  BY <1>1, <1>4, MapChunks DEF ChunksOK
<1>6. Exclusive(chunks) => Exclusive(after)
  BY <1>1, <1>4 DEF Exclusive, Slot
<1>7. QED BY <1>1, <1>4, <1>5, <1>6 DEF ChunksOK, SameShape, after

(* The bytes a chunk list has sent are a number.                           *)
LEMMA SentBytesType ==
  ASSUME NEW chunks, ChunksOK(chunks)
  PROVE  SentBytes(chunks) \in Nat
<1> DEFINE f == [i \in DOMAIN chunks |-> chunks[i].sent]
<1>1. DOMAIN chunks = 1..Len(chunks) /\ Len(chunks) \in Nat
  BY DEF ChunksOK
<1>2. \A i \in 1..Len(chunks) : chunks[i] \in ChunkProgress
  BY <1>1 DEF ChunksOK
<1>3. \A i \in 1..Len(chunks) : chunks[i].sent \in Nat
  BY <1>2 DEF ChunkProgress
<1>4. f \in [1..Len(chunks) -> Nat]
  BY <1>1, <1>3
<1>5. QED BY <1>1, <1>4, TotalType DEF SentBytes

(* Ending every chunk in one state, as completion and cancellation do.     *)
LEMMA RestateKeeps ==
  ASSUME NEW chunks, ChunksOK(chunks), NEW after,
         DOMAIN after = DOMAIN chunks,
         after = [i \in DOMAIN after |-> after[i]],
         NEW s \in ChunkStates \ {"InFlight"},
         \A i \in DOMAIN chunks :
           after[i] = [chunks[i] EXCEPT !.state = s] \/ (after[i] = chunks[i] /\ chunks[i].state = "Completed")
  PROVE  ChunksOK(after) /\ SameShape(chunks, after) /\ SameSent(chunks, after) /\ Exclusive(after)
<1>3. \A i \in DOMAIN chunks : chunks[i] \in ChunkProgress /\ chunks[i].sent <= chunks[i].size
  BY DEF ChunksOK
<1>4. \A i \in DOMAIN chunks :
        /\ after[i] \in ChunkProgress
        /\ after[i].offset = chunks[i].offset /\ after[i].size = chunks[i].size
        /\ after[i].sent = chunks[i].sent
        /\ after[i].state # "InFlight"
  BY <1>3 DEF ChunkProgress, ChunkStates
<1>5. after \in Seq(ChunkProgress)
  BY <1>4, MapChunks DEF ChunksOK
<1>6. QED BY <1>3, <1>4, <1>5 DEF ChunksOK, SameShape, SameSent, Exclusive
-----------------------------------------------------------------------------
(* One transfer *)

TransferOK(tp) ==
  /\ tp \in TransferProgress
  /\ ChunksOK(tp.chunks)
  /\ Exclusive(tp.chunks)

LEMMA BegunKeeps ==
  ASSUME NEW tp, TransferOK(tp)
  PROVE  /\ ChunksOK(Begun(tp)) /\ Exclusive(Begun(tp))
         /\ SameShape(tp.chunks, Begun(tp)) /\ SameSent(tp.chunks, Begun(tp))
BY ParkKeeps, ActivateKeeps, ActivateExclusive DEF TransferOK, Begun

LEMMA TickedKeeps ==
  ASSUME NEW tp, TransferOK(tp), NEW rate \in [Paths -> Nat]
  PROVE  TransferOK(Ticked(tp, rate)) /\ Ticked(tp, rate).bytesTotal = tp.bytesTotal
<1> DEFINE begun == Begun(tp)
           moved == Moved(begun, rate)
           left  == Remaining(tp, moved)
           next  == [tp EXCEPT !.chunks = moved, !.bytesRemaining = left]
           done  == [i \in DOMAIN moved |-> [moved[i] EXCEPT !.state = "Completed"]]
<1>1. Ticked(tp, rate) =
        IF left = 0 THEN [next EXCEPT !.state = "Completed", !.suspend = FALSE, !.chunks = done]
        ELSE IF ~tp.suspend THEN next
        ELSE IF Draining(moved) THEN [next EXCEPT !.state = "SuspendPending"]
        ELSE [next EXCEPT !.state = "Paused", !.suspend = FALSE]
  BY DEF Ticked, Moved
<1>2. ChunksOK(begun) /\ Exclusive(begun)
  BY BegunKeeps
<1> HIDE DEF begun
<1>3. ChunksOK(moved) /\ Exclusive(moved)
  BY <1>2, MovedKeeps
<1> HIDE DEF moved
<1>4. ChunksOK(done) /\ Exclusive(done)
  <2>1. "Completed" \in ChunkStates \ {"InFlight"}
    BY DEF ChunkStates
  <2>2. DOMAIN done = DOMAIN moved /\ done = [i \in DOMAIN done |-> done[i]]
    OBVIOUS
  <2>3. \A i \in DOMAIN moved : done[i] = [moved[i] EXCEPT !.state = "Completed"]
    OBVIOUS
  <2> HIDE DEF done
  <2>4. QED BY <1>3, <2>1, <2>2, <2>3, RestateKeeps
<1>5. left \in Nat
  BY <1>3, SentBytesType DEF Remaining, TransferOK, TransferProgress
<1> HIDE DEF left, done
<1>6. tp \in TransferProgress /\ moved \in Seq(ChunkProgress) /\ done \in Seq(ChunkProgress)
  BY <1>3, <1>4 DEF TransferOK, ChunksOK
<1>7. next \in TransferProgress /\ next.chunks = moved /\ next.bytesTotal = tp.bytesTotal
  BY <1>5, <1>6 DEF TransferProgress
<1> HIDE DEF next
<1>8. CASE left = 0
  <2>1. Ticked(tp, rate) = [next EXCEPT !.state = "Completed", !.suspend = FALSE, !.chunks = done]
    BY <1>1, <1>8
  <2>2. QED BY <1>4, <1>6, <1>7, <2>1 DEF TransferOK, TransferProgress, TransferStates
<1>9. CASE left # 0
  <2>1. \/ Ticked(tp, rate) = next
        \/ Ticked(tp, rate) = [next EXCEPT !.state = "SuspendPending"]
        \/ Ticked(tp, rate) = [next EXCEPT !.state = "Paused", !.suspend = FALSE]
    BY <1>1, <1>9
  <2>2. Ticked(tp, rate) \in TransferProgress
    BY <1>7, <2>1 DEF TransferProgress, TransferStates
  <2>3. Ticked(tp, rate).chunks = moved /\ Ticked(tp, rate).bytesTotal = tp.bytesTotal
    BY <1>7, <2>1 DEF TransferProgress
  <2>4. QED BY <1>3, <2>2, <2>3 DEF TransferOK
<1>10. QED BY <1>8, <1>9

LEMMA SuspendedKeeps ==
  ASSUME NEW tp, TransferOK(tp)
  PROVE  TransferOK(Suspended(tp)) /\ Suspended(tp).bytesTotal = tp.bytesTotal
BY DEF TransferOK, TransferProgress, TransferStates, Suspended

LEMMA CancelledKeeps ==
  ASSUME NEW tp, TransferOK(tp)
  PROVE  TransferOK(Cancelled(tp)) /\ Cancelled(tp).bytesTotal = tp.bytesTotal
<1> DEFINE after == [i \in DOMAIN tp.chunks |->
                       IF tp.chunks[i].state = "Completed" THEN tp.chunks[i]
                       ELSE [tp.chunks[i] EXCEPT !.state = "Cancelled"]]
<1>1. DOMAIN after = DOMAIN tp.chunks /\ after = [i \in DOMAIN after |-> after[i]]
  OBVIOUS
<1>2. \A i \in DOMAIN tp.chunks :
        \/ after[i] = [tp.chunks[i] EXCEPT !.state = "Cancelled"]
        \/ after[i] = tp.chunks[i] /\ tp.chunks[i].state = "Completed"
  OBVIOUS
<1>3. Cancelled(tp) = [tp EXCEPT !.state = "Cancelled", !.bytesRemaining = 0, !.chunks = after]
  BY DEF Cancelled
<1> HIDE DEF after
<1>4. ChunksOK(after) /\ Exclusive(after)
  <2>1. "Cancelled" \in ChunkStates \ {"InFlight"}
    BY DEF ChunkStates
  <2>2. ChunksOK(tp.chunks)
    BY DEF TransferOK
  <2>3. QED BY <1>1, <1>2, <2>1, <2>2, RestateKeeps
<1>5. tp \in TransferProgress /\ after \in Seq(ChunkProgress)
  BY <1>4 DEF TransferOK, ChunksOK
<1>6. Cancelled(tp) \in TransferProgress
  <2>1. [tp EXCEPT !.state = "Cancelled"] \in TransferProgress
    BY <1>5 DEF TransferProgress, TransferStates
  <2>2. [tp EXCEPT !.state = "Cancelled", !.bytesRemaining = 0] \in TransferProgress
    BY <2>1 DEF TransferProgress
  <2>3. QED BY <1>3, <1>5, <2>2 DEF TransferProgress
<1>7. Cancelled(tp).chunks = after /\ Cancelled(tp).bytesTotal = tp.bytesTotal
  BY <1>3, <1>5 DEF TransferProgress
<1>8. QED BY <1>4, <1>6, <1>7 DEF TransferOK

(* Requeuing takes every chunk off the wire, so the restart that follows   *)
(* finds all rails free.                                                   *)
LEMMA ReroutedKeeps ==
  ASSUME NEW tp, TransferOK(tp), NEW path \in Paths
  PROVE  TransferOK(Rerouted(tp, path)) /\ Rerouted(tp, path).bytesTotal = tp.bytesTotal
<1> DEFINE queued == [i \in DOMAIN tp.chunks |-> Requeued(tp.chunks[i], path)]
<1>1. DOMAIN queued = DOMAIN tp.chunks /\ queued = [i \in DOMAIN queued |-> queued[i]]
  OBVIOUS
<1>2. \A i \in DOMAIN tp.chunks : tp.chunks[i] \in ChunkProgress /\ tp.chunks[i].sent <= tp.chunks[i].size
  BY DEF TransferOK, ChunksOK
<1>3. \A i \in DOMAIN tp.chunks :
        /\ queued[i] \in ChunkProgress
        /\ queued[i].sent <= queued[i].size
        /\ queued[i].state # "InFlight"
  BY <1>2 DEF Requeued, ChunkProgress, ChunkStates
<1>4. Rerouted(tp, path) =
        [tp EXCEPT !.state = "InFlight", !.suspend = FALSE, !.pathEdges = path, !.chunks = Activate(queued)]
  BY DEF Rerouted
<1> HIDE DEF queued
<1>5. queued \in Seq(ChunkProgress)
  BY <1>1, <1>3, MapChunks DEF TransferOK, ChunksOK
<1>6. ChunksOK(queued) /\ Exclusive(queued)
  BY <1>1, <1>3, <1>5 DEF ChunksOK, Exclusive
<1>7. ChunksOK(Activate(queued)) /\ Exclusive(Activate(queued))
  BY <1>6, ActivateKeeps, ActivateExclusive
<1>8. path \in SUBSET UNION Paths
  OBVIOUS
<1>9. QED BY <1>4, <1>7, <1>8 DEF TransferOK, TransferProgress, TransferStates, ChunksOK

(* A list of Pending chunks makes a transfer.                              *)
LEMMA NewTransferOK ==
  ASSUME NEW kv \in BOOLEAN, NEW total \in Nat, NEW chunks \in Seq(ChunkProgress),
         \A i \in DOMAIN chunks : chunks[i].sent = 0 /\ chunks[i].state = "Pending"
  PROVE  /\ TransferOK(NewTransfer(kv, total, chunks))
         /\ NewTransfer(kv, total, chunks).bytesTotal = total
<1>1. \A i \in DOMAIN chunks : chunks[i] \in ChunkProgress
  OBVIOUS
<1>2. ChunksOK(chunks) /\ Exclusive(chunks)
  BY <1>1 DEF ChunksOK, Exclusive, ChunkProgress
<1>3. ChunksOK(Activate(chunks)) /\ Exclusive(Activate(chunks))
  BY <1>2, ActivateKeeps, ActivateExclusive
<1>4. UNION {chunks[i].path : i \in DOMAIN chunks} \in SUBSET UNION Paths
  BY <1>1 DEF ChunkProgress
<1>5. QED BY <1>3, <1>4
      DEF NewTransfer, TransferOK, TransferProgress, TransferStates, ChunksOK

LEMMA WholeIsPending ==
  ASSUME NEW total \in Nat, NEW path \in Paths
  PROVE  /\ Whole(total, path) \in Seq(ChunkProgress)
         /\ \A i \in DOMAIN Whole(total, path) :
              Whole(total, path)[i].sent = 0 /\ Whole(total, path)[i].state = "Pending"
BY DEF Whole, ChunkProgress, ChunkStates

LEMMA StripeIsPending ==
  ASSUME NEW total \in Nat, NEW route \in [1..NumChunks(total) -> Paths]
  PROVE  /\ Stripe(total, route) \in Seq(ChunkProgress)
         /\ \A i \in DOMAIN Stripe(total, route) :
              Stripe(total, route)[i].sent = 0 /\ Stripe(total, route)[i].state = "Pending"
<1> DEFINE n == NumChunks(total)
           chunks == Stripe(total, route)
<1>1. n \in Nat
  BY NumChunksBounds
<1>2. DOMAIN chunks = 1..n /\ chunks = [i \in 1..n |-> chunks[i]]
  BY DEF Stripe
<1>3. \A i \in 1..n : chunks[i].sent = 0 /\ chunks[i].state = "Pending"
  BY DEF Stripe
<1>4. \A i \in 1..n : chunks[i] \in ChunkProgress
  <2> TAKE i \in 1..n
  <2>1. chunks[i].size \in Nat /\ chunks[i].offset = (i - 1) * ChunkBytes
    BY StripeChunk, StripingAssumption
  <2>2. (i - 1) * ChunkBytes \in Nat
    BY <1>1, StripingAssumption
  <2>3. chunks[i] = [path |-> route[i], offset |-> chunks[i].offset, size |-> chunks[i].size,
                     sent |-> 0, state |-> "Pending"]
    BY DEF Stripe
  <2>4. QED BY <2>1, <2>2, <2>3 DEF ChunkProgress, ChunkStates
<1> HIDE DEF chunks, n
<1>5. chunks \in [1..n -> ChunkProgress]
  BY <1>2, <1>4
<1>6. QED BY <1>1, <1>2, <1>3, <1>5, FunctionIsSeq DEF chunks
LEMMA WiredType ==
  ASSUME NEW tp, TransferOK(tp), NEW rate, NEW b
  PROVE  Cardinality(Wired(tp, rate, b)) \in Nat
<1>1. DOMAIN Begun(tp) = 1..Len(Begun(tp)) /\ Len(Begun(tp)) \in Int
  BY BegunKeeps DEF ChunksOK
<1>2. IsFiniteSet(DOMAIN Begun(tp))
  BY <1>1, FS_Interval
<1>3. Wired(tp, rate, b) \subseteq DOMAIN Begun(tp)
  BY DEF Wired
<1>4. QED BY <1>2, <1>3, FS_Subset, FS_CardinalityType

(***************************************************************************)
(* Part 3: each byte is copied once, Completed means delivered, and what   *)
(* the executor reports of a transfer is what the destination holds.       *)
(***************************************************************************)

-----------------------------------------------------------------------------
(* How the chunks of a transfer lie *)

Extent(c) == c.offset .. (c.offset + c.size - 1)

(* The chunks cut the transfer's bytes into parts.                         *)
Layout(chunks, total) ==
  /\ AllBytes(chunks) = total
  /\ \A i, j \in DOMAIN chunks : i # j => Extent(chunks[i]) \cap Extent(chunks[j]) = {}
  /\ \A i \in DOMAIN chunks : Extent(chunks[i]) \subseteq 0 .. (total - 1)
  /\ \A b \in 0 .. (total - 1) : \E i \in DOMAIN chunks : b \in Extent(chunks[i])

LEMMA WholeLayout ==
  ASSUME NEW total \in Nat, NEW path
  PROVE  Layout(Whole(total, path), total)
<1>1. DOMAIN Whole(total, path) = {1} /\ Extent(Whole(total, path)[1]) = 0 .. (total - 1)
  BY DEF Whole, Extent
<1>2. QED BY <1>1, WholeTotal DEF Layout

LEMMA StripeLayout ==
  ASSUME NEW total \in Nat, NEW route
  PROVE  Layout(Stripe(total, route), total)
<1> DEFINE n == NumChunks(total)
           q == ChunkBytes
           chunks == Stripe(total, route)
<1>1. q \in Nat \ {0} /\ n \in Nat /\ total <= n * q /\ DOMAIN chunks = 1..n
  BY StripingAssumption, NumChunksBounds DEF Stripe
<1>2. \A i \in 1..n : /\ chunks[i].offset = (i - 1) * q
                      /\ chunks[i].size \in 1..q
                      /\ (i - 1) * q + chunks[i].size <= total
                      /\ i < n => chunks[i].size = q
                      /\ i = n => (i - 1) * q + chunks[i].size = total
                      /\ (i - 1) * q \in Nat
  BY <1>1, StripeChunk
<1> HIDE DEF n, chunks
<1>3. ASSUME NEW i \in 1..n, NEW j \in 1..n, i < j
      PROVE  Extent(chunks[i]) \cap Extent(chunks[j]) = {}
  <2>1. (i - 1) * q + q = i * q /\ i * q <= (j - 1) * q
    BY <1>1, <1>3
  <2>2. i * q \in Nat /\ (i - 1) * q \in Nat /\ (j - 1) * q \in Nat
    BY <1>1
  <2>3. /\ chunks[i].offset = (i - 1) * q /\ chunks[j].offset = (j - 1) * q
        /\ chunks[i].size \in 1..q /\ chunks[j].size \in 1..q
    BY <1>2
  <2> DEFINE x == (i - 1) * q
             y == (j - 1) * q
             z == i * q
  <2>4. /\ x \in Nat /\ y \in Nat /\ z \in Nat /\ x + q = z /\ z <= y
        /\ chunks[i].offset = x /\ chunks[j].offset = y
    BY <2>1, <2>2, <2>3
  <2> HIDE DEF x, y, z
  <2> DEFINE si == chunks[i].size
             sj == chunks[j].size
  <2>5. q \in Nat /\ si \in 1..q /\ sj \in 1..q
    BY <1>1, <2>3
  <2> HIDE DEF q, si, sj
  <2>6. si \in Nat /\ sj \in Nat /\ x + si <= y
    BY <2>4, <2>5
  <2>7. Extent(chunks[i]) = x .. (x + si - 1) /\ Extent(chunks[j]) = y .. (y + sj - 1)
    BY <2>4 DEF Extent, si, sj
  <2>8. QED BY <2>4, <2>6, <2>7
<1>4. \A i \in 1..n : Extent(chunks[i]) \subseteq 0 .. (total - 1)
  <2> TAKE i \in 1..n
  <2> DEFINE x == (i - 1) * q
  <2>1. x \in Nat /\ chunks[i].offset = x /\ chunks[i].size \in 1..q /\ x + chunks[i].size <= total
    BY <1>2
  <2> HIDE DEF x
  <2>2. QED BY <1>1, <2>1 DEF Extent
<1>5. ASSUME NEW b \in 0 .. (total - 1)
      PROVE  \E i \in 1..n : b \in Extent(chunks[i])
  <2> DEFINE k == b \div q
             x == k * q
  <2>1. \A a \in Nat, y \in Nat \ {0} :
          y * (a \div y) <= a /\ a < y * (a \div y) + y /\ (a \div y) \in Nat
    OBVIOUS
  <2>2. b \in Nat /\ b < total
    OBVIOUS
  <2>3. k \in Nat /\ q * k <= b /\ b < q * k + q
    BY <1>1, <2>1, <2>2
  <2> HIDE DEF k
  <2>4. x \in Nat /\ x <= b /\ b < x + q
    BY <1>1, <2>3
  <2>5. k < n
    <3>1. CASE k >= n
      <4>1. k * q >= n * q /\ n * q \in Nat
        BY <1>1, <2>3, <3>1
      <4>2. QED BY <1>1, <2>2, <2>4, <4>1
    <3>2. QED BY <1>1, <2>3, <3>1
  <2>6. k + 1 \in 1..n /\ (k + 1) - 1 = k
    BY <1>1, <2>3, <2>5
  <2>7. /\ chunks[k + 1].offset = x /\ chunks[k + 1].size \in 1..q
        /\ k + 1 < n => chunks[k + 1].size = q
        /\ k + 1 = n => x + chunks[k + 1].size = total
    BY <1>2, <2>6
  <2> HIDE DEF x
  <2>8. b \in Extent(chunks[k + 1])
    BY <1>1, <2>2, <2>4, <2>6, <2>7 DEF Extent
  <2>9. QED BY <2>6, <2>8
<1>6. \A i, j \in 1..n : i # j => Extent(chunks[i]) \cap Extent(chunks[j]) = {}
  <2> SUFFICES ASSUME NEW i \in 1..n, NEW j \in 1..n, i # j
               PROVE  Extent(chunks[i]) \cap Extent(chunks[j]) = {}
    OBVIOUS
  <2>1. i < j \/ j < i
    BY <1>1
  <2>2. QED BY <1>3, <2>1
<1>7. AllBytes(chunks) = total
  BY StripeTotal DEF chunks
<1>8. DOMAIN chunks = 1..n
  BY <1>1 DEF chunks
<1>9. Layout(chunks, total)
  BY <1>4, <1>5, <1>6, <1>7, <1>8 DEF Layout
<1>10. QED BY <1>9 DEF chunks

(* A step that leaves the shape of the chunks alone keeps the layout.      *)
LEMMA ShapeKeepsLayout ==
  ASSUME NEW chunks, NEW after, NEW total, Layout(chunks, total), SameShape(chunks, after)
  PROVE  Layout(after, total)
<1>1. AllBytes(after) = AllBytes(chunks)
  <2>1. [i \in DOMAIN after |-> after[i].size] = [i \in DOMAIN chunks |-> chunks[i].size]
    BY DEF SameShape
  <2>2. QED BY <2>1 DEF AllBytes
<1>2. \A i \in DOMAIN chunks : Extent(after[i]) = Extent(chunks[i])
  BY DEF SameShape, Extent
<1>3. QED BY <1>1, <1>2 DEF Layout, SameShape

-----------------------------------------------------------------------------
(* Counting what is sent *)

LEMMA SentUpToAll ==
  ASSUME NEW chunks, ChunksOK(chunks)
  PROVE  /\ SentBytes(chunks) \in Nat /\ AllBytes(chunks) \in Nat
         /\ SentBytes(chunks) <= AllBytes(chunks)
         /\ SentBytes(chunks) = AllBytes(chunks) <=>
              \A i \in DOMAIN chunks : chunks[i].sent = chunks[i].size
<1> DEFINE n == Len(chunks)
           f == [i \in DOMAIN chunks |-> chunks[i].sent]
           g == [i \in DOMAIN chunks |-> chunks[i].size]
<1>1. n \in Nat /\ DOMAIN chunks = 1..n
  BY DEF ChunksOK
<1>2. \A i \in 1..n : chunks[i] \in ChunkProgress /\ chunks[i].sent <= chunks[i].size
  BY <1>1 DEF ChunksOK
<1>3. f \in [1..n -> Nat] /\ g \in [1..n -> Nat] /\ \A i \in 1..n : f[i] <= g[i]
  BY <1>1, <1>2 DEF ChunkProgress
<1>4. f = g <=> \A i \in DOMAIN chunks : chunks[i].sent = chunks[i].size
  <2>1. ASSUME f = g, NEW i \in DOMAIN chunks PROVE chunks[i].sent = chunks[i].size
    <3>1. f[i] = g[i]
      BY <2>1
    <3>2. QED BY <3>1
  <2>2. QED BY <2>1
<1> HIDE DEF f, g, n
<1>5. Total(f) \in Nat /\ Total(g) \in Nat /\ Total(f) <= Total(g) /\ (Total(f) = Total(g) <=> f = g)
  BY <1>1, <1>3, TotalType, TotalMonotone
<1>6. QED BY <1>4, <1>5 DEF SentBytes, AllBytes, f, g

(* Without a chunk left to send, nothing remains, and only then.           *)
LEMMA RemainingNone ==
  ASSUME NEW tp, NEW chunks, ChunksOK(chunks), Layout(chunks, tp.bytesTotal)
  PROVE  /\ Remaining(tp, chunks) \in Nat
         /\ Remaining(tp, chunks) = tp.bytesTotal - SentBytes(chunks)
         /\ Remaining(tp, chunks) = 0 <=>
              \A i \in DOMAIN chunks : chunks[i].sent = chunks[i].size
<1>1. AllBytes(chunks) = tp.bytesTotal
  BY DEF Layout
<1> DEFINE sent == SentBytes(chunks)
           all == AllBytes(chunks)
<1>2. /\ sent \in Nat /\ all \in Nat /\ sent <= all
      /\ sent = all <=> \A i \in DOMAIN chunks : chunks[i].sent = chunks[i].size
      /\ Remaining(tp, chunks) = IF all > sent THEN all - sent ELSE 0
  BY <1>1, SentUpToAll DEF Remaining
<1> HIDE DEF sent, all
<1>3. /\ Remaining(tp, chunks) = all - sent
      /\ Remaining(tp, chunks) \in Nat
      /\ Remaining(tp, chunks) = 0 <=> sent = all
  BY <1>2
<1>4. QED BY <1>1, <1>2, <1>3 DEF sent, all

LEMMA SameRemaining ==
  ASSUME NEW tp, NEW tp2, tp2.bytesTotal = tp.bytesTotal, NEW chunks, NEW after,
         DOMAIN after = DOMAIN chunks, SameSent(chunks, after)
  PROVE  Remaining(tp2, after) = Remaining(tp, chunks)
<1>1. [i \in DOMAIN after |-> after[i].sent] = [i \in DOMAIN chunks |-> chunks[i].sent]
  BY DEF SameSent
<1>2. SentBytes(after) = SentBytes(chunks)
  BY <1>1 DEF SentBytes
<1>3. QED BY <1>2 DEF Remaining

-----------------------------------------------------------------------------
(* One transfer *)

Full(chunks) ==
  \A i \in DOMAIN chunks :
    /\ chunks[i].state = "Completed" => chunks[i].sent = chunks[i].size
    /\ chunks[i].state # "Cancelled"

(* PausedIsQuiescent, of one transfer.                                     *)
Quiescent(tp) ==
  /\ ~tp.suspend
  /\ tp.bytesRemaining > 0
  /\ \A i \in DOMAIN tp.chunks : tp.chunks[i].state \in {"Completed", "Paused"}
  /\ \E i \in DOMAIN tp.chunks : tp.chunks[i].state = "Paused"

Delivers(tp) ==
  /\ Layout(tp.chunks, tp.bytesTotal)
  /\ tp.state # "Cancelled" => Full(tp.chunks) /\ tp.bytesRemaining = Remaining(tp, tp.chunks)
  /\ tp.state = "Completed" => \A i \in DOMAIN tp.chunks : tp.chunks[i].sent = tp.chunks[i].size
  /\ tp.state = "Paused" => Quiescent(tp)

(* ChunksOnlyAdvance, of one chunk list.                                   *)
OnlyAdvance(chunks, after) ==
  \A i \in DOMAIN chunks :
    /\ after[i].sent >= chunks[i].sent
    /\ chunks[i].state = "Completed" => after[i] = chunks[i]

(* A tick first parks or starts Pending chunks...                          *)
LEMMA BegunFull ==
  ASSUME NEW tp, TransferOK(tp), Full(tp.chunks)
  PROVE  /\ Full(Begun(tp))
         /\ \A i \in DOMAIN tp.chunks :
              tp.chunks[i].state = "Completed" => Begun(tp)[i] = tp.chunks[i]
         /\ tp.suspend => \A i \in DOMAIN tp.chunks : Begun(tp)[i].state # "Pending"
<1>1. \A i \in DOMAIN tp.chunks : tp.chunks[i] \in ChunkProgress
  BY DEF TransferOK, ChunksOK
<1>2. DOMAIN Begun(tp) = DOMAIN tp.chunks
  BY DEF Begun, Park, Activate
<1>3. \A i \in DOMAIN tp.chunks :
        Begun(tp)[i] \in {tp.chunks[i], [tp.chunks[i] EXCEPT !.state = "Paused"],
                          [tp.chunks[i] EXCEPT !.state = "InFlight"]}
  BY DEF Begun, Park, Activate
<1>4. Full(Begun(tp))
  BY <1>1, <1>2, <1>3 DEF Full, ChunkProgress
<1>5. \A i \in DOMAIN tp.chunks :
        tp.chunks[i].state = "Completed" => Begun(tp)[i] = tp.chunks[i]
  BY DEF Begun, Park, Activate, FirstForSlot
<1>6. tp.suspend => \A i \in DOMAIN tp.chunks : Begun(tp)[i].state # "Pending"
  BY <1>1 DEF Begun, Park, ChunkProgress
<1>7. QED BY <1>4, <1>5, <1>6

(* ... and then moves the ones in flight.                                  *)
LEMMA MovedFull ==
  ASSUME NEW chunks, ChunksOK(chunks), Full(chunks), NEW rate \in [Paths -> Nat]
  PROVE  /\ Full(Moved(chunks, rate))
         /\ OnlyAdvance(chunks, Moved(chunks, rate))
         /\ \A i \in DOMAIN chunks :
              /\ Moved(chunks, rate)[i].sent = chunks[i].sent + StepOf(chunks[i], rate)
              /\ StepOf(chunks[i], rate) \in Nat
              /\ Moved(chunks, rate)[i].state = "Pending" => chunks[i].state = "Pending"
<1> DEFINE after == Moved(chunks, rate)
<1>1. DOMAIN after = DOMAIN chunks /\ \A i \in DOMAIN chunks : after[i] = Advance(chunks[i], rate)
  BY DEF Moved
<1> HIDE DEF after
<1>2. ASSUME NEW i \in DOMAIN chunks
      PROVE  /\ after[i].sent = chunks[i].sent + StepOf(chunks[i], rate)
             /\ StepOf(chunks[i], rate) \in Nat
             /\ after[i].sent >= chunks[i].sent
             /\ after[i].state = "Pending" => chunks[i].state = "Pending"
             /\ after[i].state = "Completed" => after[i].sent = after[i].size
             /\ after[i].state # "Cancelled"
             /\ chunks[i].state = "Completed" => after[i] = chunks[i]
  <2> DEFINE c == chunks[i]
             sent == c.sent + StepOf(c, rate)
             state == IF c.state = "InFlight" /\ sent >= c.size THEN "Completed" ELSE c.state
  <2>1. c \in ChunkProgress /\ c.sent <= c.size
    BY DEF ChunksOK
  <2>2. /\ StepOf(c, rate) \in Nat
        /\ Advance(c, rate).sent = c.sent + StepOf(c, rate)
        /\ Advance(c, rate).size = c.size /\ Advance(c, rate).sent <= c.size
    BY <2>1, AdvanceKeeps
  <2>3. Advance(c, rate) = [c EXCEPT !.sent = sent, !.state = state]
    BY DEF Advance
  <2>4. Advance(c, rate).state = state
    BY <2>1, <2>3 DEF ChunkProgress
  <2>5. c.state = "Completed" => Advance(c, rate) = c
    <3> SUFFICES ASSUME c.state = "Completed" PROVE Advance(c, rate) = c
      OBVIOUS
    <3>1. sent = c.sent /\ state = c.state
      BY <2>1 DEF StepOf, ChunkProgress
    <3> HIDE DEF sent, state
    <3>2. QED BY <2>1, <2>3, <3>1 DEF ChunkProgress
  <2>6. c.state = "Completed" => c.sent = c.size
    BY DEF Full
  <2>7. c.state # "Cancelled"
    BY DEF Full
  <2>8. state = "Completed" => Advance(c, rate).sent = c.size
    BY <2>1, <2>2, <2>5, <2>6 DEF ChunkProgress
  <2>9. state # "Cancelled" /\ (state = "Pending" => c.state = "Pending")
    BY <2>7
  <2>10. after[i] = Advance(c, rate) /\ c.sent \in Nat
    BY <1>1, <2>1 DEF ChunkProgress
  <2> HIDE DEF state, sent
  <2>11. QED BY <2>2, <2>4, <2>5, <2>8, <2>9, <2>10
<1>3. QED BY <1>1, <1>2 DEF Full, OnlyAdvance, after

(* A tick, of a transfer that is active.                                   *)
LEMMA TickedDelivers ==
  ASSUME NEW tp, TransferOK(tp), Delivers(tp), Active(tp), NEW rate \in [Paths -> Nat]
  PROVE  /\ Delivers(Ticked(tp, rate))
         /\ OnlyAdvance(tp.chunks, Ticked(tp, rate).chunks)
         /\ SameShape(tp.chunks, Ticked(tp, rate).chunks)
         /\ SameSent(Moved(Begun(tp), rate), Ticked(tp, rate).chunks)
         /\ DOMAIN Moved(Begun(tp), rate) = DOMAIN Ticked(tp, rate).chunks
<1> DEFINE begun == Begun(tp)
           moved == Moved(begun, rate)
           left  == Remaining(tp, moved)
           next  == [tp EXCEPT !.chunks = moved, !.bytesRemaining = left]
           done  == [i \in DOMAIN moved |-> [moved[i] EXCEPT !.state = "Completed"]]
           after == Ticked(tp, rate)
<1>1. after =
        IF left = 0 THEN [next EXCEPT !.state = "Completed", !.suspend = FALSE, !.chunks = done]
        ELSE IF ~tp.suspend THEN next
        ELSE IF Draining(moved) THEN [next EXCEPT !.state = "SuspendPending"]
        ELSE [next EXCEPT !.state = "Paused", !.suspend = FALSE]
  BY DEF Ticked, Moved
<1>2. /\ tp \in TransferProgress /\ tp.state \in {"InFlight", "SuspendPending"}
      /\ Full(tp.chunks) /\ Layout(tp.chunks, tp.bytesTotal)
  BY DEF TransferOK, Active, Delivers
<1>3. /\ ChunksOK(begun) /\ SameShape(tp.chunks, begun) /\ SameSent(tp.chunks, begun)
      /\ Full(begun)
      /\ \A i \in DOMAIN tp.chunks : tp.chunks[i].state = "Completed" => begun[i] = tp.chunks[i]
      /\ tp.suspend => \A i \in DOMAIN tp.chunks : begun[i].state # "Pending"
  BY <1>2, BegunKeeps, BegunFull
<1> HIDE DEF begun
<1>4. /\ ChunksOK(moved) /\ SameShape(begun, moved) /\ Full(moved) /\ OnlyAdvance(begun, moved)
      /\ \A i \in DOMAIN begun : moved[i].state = "Pending" => begun[i].state = "Pending"
  BY <1>3, MovedKeeps, MovedFull
<1> HIDE DEF moved
<1>5. SameShape(tp.chunks, moved) /\ OnlyAdvance(tp.chunks, moved)
  <2>1. SameShape(tp.chunks, moved)
    BY <1>3, <1>4 DEF SameShape
  <2>2. \A i \in DOMAIN tp.chunks :
          /\ begun[i].sent = tp.chunks[i].sent /\ moved[i].sent >= begun[i].sent
          /\ begun[i].state = "Completed" => moved[i] = begun[i]
          /\ tp.chunks[i].state = "Completed" => begun[i] = tp.chunks[i]
    BY <1>3, <1>4 DEF SameShape, SameSent, OnlyAdvance
  <2>3. QED BY <2>1, <2>2 DEF OnlyAdvance
<1>6. Layout(moved, tp.bytesTotal)
  BY <1>2, <1>5, ShapeKeepsLayout
<1>7. left \in Nat /\ (left = 0 <=> \A i \in DOMAIN moved : moved[i].sent = moved[i].size)
  BY <1>4, <1>6, RemainingNone
<1>8. \A i \in DOMAIN moved : moved[i] \in ChunkProgress
  BY <1>4 DEF ChunksOK
<1>9. CASE left = 0
  <2>1. /\ after.chunks = done /\ after.bytesRemaining = 0 /\ after.bytesTotal = tp.bytesTotal
        /\ after.state = "Completed"
    BY <1>1, <1>2, <1>9 DEF TransferProgress
  <2>2. /\ DOMAIN done = DOMAIN moved
        /\ \A i \in DOMAIN moved :
             /\ done[i].offset = moved[i].offset /\ done[i].size = moved[i].size
             /\ done[i].sent = moved[i].sent /\ done[i].state = "Completed"
             /\ moved[i].state = "Completed" => done[i] = moved[i]
    BY <1>8 DEF ChunkProgress
  <2> HIDE DEF done
  <2>3. SameShape(moved, done) /\ SameSent(moved, done) /\ SameShape(tp.chunks, done)
    BY <1>5, <2>2 DEF SameShape, SameSent
  <2>4. Layout(done, tp.bytesTotal)
    BY <1>6, <2>3, ShapeKeepsLayout
  <2>5. \A i \in DOMAIN done : done[i].sent = done[i].size
    BY <1>7, <1>9, <2>2
  <2>6. Remaining(after, done) = left
    BY <2>1, <2>2, <2>3, SameRemaining DEF left
  <2>7. Full(done)
    BY <2>2, <2>5 DEF Full
  <2>8. OnlyAdvance(tp.chunks, done)
    BY <1>5, <2>2 DEF OnlyAdvance, SameShape
  <2>9. Delivers(after)
    BY <1>9, <2>1, <2>4, <2>5, <2>6, <2>7 DEF Delivers
  <2>10. QED BY <2>1, <2>2, <2>3, <2>8, <2>9 DEF moved, begun
<1>10. CASE left # 0
  <2>1. /\ after.chunks = moved /\ after.bytesRemaining = left /\ after.bytesTotal = tp.bytesTotal
        /\ after.state \in {"InFlight", "SuspendPending", "Paused"}
        /\ after.state = "Paused" => tp.suspend /\ ~Draining(moved) /\ ~after.suspend
    BY <1>1, <1>2, <1>10 DEF TransferProgress
  <2>2. Remaining(after, moved) = left
    <3> HIDE DEF after, done, next
    <3>1. SameSent(moved, moved) /\ after.bytesTotal = tp.bytesTotal
      BY <2>1 DEF SameSent
    <3>2. QED BY <3>1, SameRemaining DEF left
  <2>3. ASSUME after.state = "Paused" PROVE Quiescent(after)
    <3>1. ASSUME NEW i \in DOMAIN moved PROVE moved[i].state \in {"Completed", "Paused"}
      <4>1. moved[i].state # "Pending" /\ moved[i].state # "InFlight" /\ moved[i].state # "Cancelled"
        BY <1>3, <1>4, <2>1, <2>3 DEF Draining, Full, SameShape
      <4>2. moved[i].state \in ChunkStates
        BY <1>8 DEF ChunkProgress
      <4>3. QED BY <4>1, <4>2 DEF ChunkStates
    <3>2. \E i \in DOMAIN moved : moved[i].state # "Completed"
      BY <1>4, <1>7, <1>10 DEF Full
    <3>3. QED BY <1>7, <1>10, <2>1, <2>3, <3>1, <3>2 DEF Quiescent
  <2>4. Delivers(after)
    BY <1>4, <1>6, <2>1, <2>2, <2>3 DEF Delivers
  <2>5. SameSent(moved, moved)
    BY DEF SameSent
  <2>6. QED BY <1>5, <2>1, <2>4, <2>5 DEF moved, begun
<1>11. QED BY <1>9, <1>10

LEMMA SuspendedDelivers ==
  ASSUME NEW tp, TransferOK(tp), Delivers(tp), Active(tp)
  PROVE  Delivers(Suspended(tp)) /\ Suspended(tp).chunks = tp.chunks
<1>1. /\ Suspended(tp).chunks = tp.chunks /\ Suspended(tp).bytesTotal = tp.bytesTotal
      /\ Suspended(tp).bytesRemaining = tp.bytesRemaining
      /\ Suspended(tp).state = "SuspendPending"
  BY DEF TransferOK, TransferProgress, Suspended
<1>2. Remaining(Suspended(tp), tp.chunks) = Remaining(tp, tp.chunks)
  BY <1>1 DEF Remaining
<1>3. QED BY <1>1, <1>2 DEF Delivers, Active

LEMMA CancelledDelivers ==
  ASSUME NEW tp, TransferOK(tp), Delivers(tp)
  PROVE  /\ Delivers(Cancelled(tp))
         /\ OnlyAdvance(tp.chunks, Cancelled(tp).chunks)
         /\ SameShape(tp.chunks, Cancelled(tp).chunks)
         /\ SameSent(tp.chunks, Cancelled(tp).chunks)
<1> DEFINE after == Cancelled(tp).chunks
<1>1. /\ Cancelled(tp).bytesTotal = tp.bytesTotal /\ Cancelled(tp).state = "Cancelled"
      /\ DOMAIN after = DOMAIN tp.chunks
      /\ \A i \in DOMAIN tp.chunks :
           after[i] = IF tp.chunks[i].state = "Completed" THEN tp.chunks[i]
                      ELSE [tp.chunks[i] EXCEPT !.state = "Cancelled"]
  BY DEF Cancelled, TransferOK, TransferProgress
<1>2. \A i \in DOMAIN tp.chunks : tp.chunks[i] \in ChunkProgress
  BY DEF TransferOK, ChunksOK
<1> HIDE DEF after
<1>3. SameShape(tp.chunks, after) /\ SameSent(tp.chunks, after) /\ OnlyAdvance(tp.chunks, after)
  <2>1. \A i \in DOMAIN tp.chunks :
          after[i] \in {tp.chunks[i], [tp.chunks[i] EXCEPT !.state = "Cancelled"]}
    BY <1>1
  <2>2. \A i \in DOMAIN tp.chunks :
          /\ after[i].offset = tp.chunks[i].offset /\ after[i].size = tp.chunks[i].size
          /\ after[i].sent = tp.chunks[i].sent /\ tp.chunks[i].sent \in Nat
    BY <1>2, <2>1 DEF ChunkProgress
  <2>3. \A i \in DOMAIN tp.chunks : tp.chunks[i].state = "Completed" => after[i] = tp.chunks[i]
    BY <1>1
  <2>4. \A i \in DOMAIN tp.chunks : after[i].sent >= tp.chunks[i].sent
    BY <2>2
  <2>5. QED BY <1>1, <2>2, <2>3, <2>4 DEF SameShape, SameSent, OnlyAdvance
<1>4. Layout(after, tp.bytesTotal)
  BY <1>3, ShapeKeepsLayout DEF Delivers
<1>5. Delivers(Cancelled(tp))
  BY <1>1, <1>4 DEF Delivers, after
<1>6. QED BY <1>3, <1>5 DEF after

LEMMA ReroutedDelivers ==
  ASSUME NEW tp, TransferOK(tp), Delivers(tp), Reroutable(tp), NEW path \in Paths
  PROVE  /\ Delivers(Rerouted(tp, path))
         /\ OnlyAdvance(tp.chunks, Rerouted(tp, path).chunks)
         /\ SameShape(tp.chunks, Rerouted(tp, path).chunks)
         /\ SameSent(tp.chunks, Rerouted(tp, path).chunks)
<1> DEFINE queued == [i \in DOMAIN tp.chunks |-> Requeued(tp.chunks[i], path)]
           after == Activate(queued)
<1>1. \A i \in DOMAIN tp.chunks : tp.chunks[i] \in ChunkProgress
  BY DEF TransferOK, ChunksOK
<1>2. /\ Rerouted(tp, path).chunks = after /\ Rerouted(tp, path).state = "InFlight"
      /\ Rerouted(tp, path).bytesTotal = tp.bytesTotal
      /\ Rerouted(tp, path).bytesRemaining = tp.bytesRemaining
  BY DEF Rerouted, TransferOK, TransferProgress
<1>3. \A i \in DOMAIN tp.chunks :
        /\ queued[i].offset = tp.chunks[i].offset /\ queued[i].size = tp.chunks[i].size
        /\ queued[i].sent = tp.chunks[i].sent
        /\ tp.chunks[i].state = "Completed" => queued[i] = tp.chunks[i]
        /\ tp.chunks[i].state # "Completed" => queued[i].state = "Pending"
        /\ queued[i] \in ChunkProgress
  BY <1>1 DEF Requeued, ChunkProgress, ChunkStates
<1>4. DOMAIN queued = DOMAIN tp.chunks
  OBVIOUS
<1> HIDE DEF queued
<1>5. DOMAIN after = DOMAIN queued /\ \A i \in DOMAIN queued :
        after[i] \in {queued[i], [queued[i] EXCEPT !.state = "InFlight"]}
  BY DEF Activate
<1>6. \A i \in DOMAIN queued : queued[i].state # "Pending" => after[i] = queued[i]
  BY DEF Activate, FirstForSlot
<1> HIDE DEF after
<1>7. \A i \in DOMAIN tp.chunks :
        /\ after[i].offset = tp.chunks[i].offset /\ after[i].size = tp.chunks[i].size
        /\ after[i].sent = tp.chunks[i].sent /\ tp.chunks[i].sent \in Nat
        /\ tp.chunks[i].state = "Completed" => after[i] = tp.chunks[i]
        /\ tp.chunks[i].state # "Completed" => after[i].state \in {"Pending", "InFlight"}
  BY <1>1, <1>3, <1>4, <1>5, <1>6 DEF ChunkProgress
<1>8. SameShape(tp.chunks, after) /\ SameSent(tp.chunks, after) /\ OnlyAdvance(tp.chunks, after)
  BY <1>4, <1>5, <1>7 DEF SameShape, SameSent, OnlyAdvance
<1>9. Full(tp.chunks) /\ tp.bytesRemaining = Remaining(tp, tp.chunks)
  BY DEF Delivers, Reroutable
<1>10. Full(after)
  BY <1>4, <1>5, <1>7, <1>9 DEF Full
<1>11. Layout(after, tp.bytesTotal)
  BY <1>8, ShapeKeepsLayout DEF Delivers
<1>12. Remaining(Rerouted(tp, path), after) = tp.bytesRemaining
  BY <1>2, <1>4, <1>5, <1>8, <1>9, SameRemaining
<1>13. Delivers(Rerouted(tp, path))
  BY <1>2, <1>10, <1>11, <1>12 DEF Delivers
<1>14. QED BY <1>2, <1>8, <1>13

LEMMA NewDelivers ==
  ASSUME NEW kv, NEW total \in Nat, NEW chunks \in Seq(ChunkProgress), Layout(chunks, total),
         \A i \in DOMAIN chunks : chunks[i].sent = 0 /\ chunks[i].state = "Pending"
  PROVE  /\ Delivers(NewTransfer(kv, total, chunks))
         /\ \A i \in DOMAIN NewTransfer(kv, total, chunks).chunks :
              NewTransfer(kv, total, chunks).chunks[i].sent = 0
<1> DEFINE after == Activate(chunks)
           tp == NewTransfer(kv, total, chunks)
<1>1. tp.chunks = after /\ tp.bytesTotal = total /\ tp.bytesRemaining = total /\ tp.state = "InFlight"
  BY DEF NewTransfer
<1>2. ChunksOK(chunks)
  <2>1. \A i \in DOMAIN chunks : chunks[i] \in ChunkProgress
    OBVIOUS
  <2>2. QED BY <2>1 DEF ChunksOK, ChunkProgress
<1>3. ChunksOK(after) /\ SameShape(chunks, after) /\ SameSent(chunks, after)
  BY <1>2, ActivateKeeps
<1>4. \A i \in DOMAIN chunks : after[i].state \in {"Pending", "InFlight"}
  <2>1. \A i \in DOMAIN chunks : after[i] \in {chunks[i], [chunks[i] EXCEPT !.state = "InFlight"]}
    BY DEF Activate
  <2>2. \A i \in DOMAIN chunks : chunks[i] \in ChunkProgress
    OBVIOUS
  <2>3. QED BY <2>1, <2>2 DEF ChunkProgress
<1> HIDE DEF after
<1>5. Layout(after, total)
  BY <1>3, ShapeKeepsLayout
<1>6. Full(after) /\ \A i \in DOMAIN after : after[i].sent = 0
  BY <1>3, <1>4 DEF Full, SameShape, SameSent
<1>7. SentBytes(after) = 0
  <2> DEFINE f == [i \in DOMAIN after |-> after[i].sent]
  <2>1. \A i \in DOMAIN f : f[i] = 0
    BY <1>6
  <2> HIDE DEF f
  <2>2. Pairs(f) = {}
    BY <2>1 DEF Pairs
  <2>3. Total(f) = 0
    BY <2>2, FS_EmptySet DEF Total
  <2>4. QED BY <2>3 DEF SentBytes, f
<1>8. Remaining(tp, after) = total
  BY <1>1, <1>7 DEF Remaining
<1> HIDE DEF tp
<1>9. QED BY <1>1, <1>5, <1>6, <1>8 DEF Delivers, tp

-----------------------------------------------------------------------------
(* The destination buffer of one transfer *)

(* CopiedExactlyOnce, of one buffer m and one chunk list.                  *)
MemOK(chunks, m) ==
  \A b \in DOMAIN m :
    m[b] = IF \E i \in DOMAIN chunks : b \in SentRange(chunks[i]) THEN 1 ELSE 0

LEMMA SameSentMem ==
  ASSUME NEW chunks, NEW after, NEW m, MemOK(chunks, m),
         SameShape(chunks, after), SameSent(chunks, after)
  PROVE  MemOK(after, m)
<1>1. \A i \in DOMAIN chunks : SentRange(after[i]) = SentRange(chunks[i])
  BY DEF SameShape, SameSent, SentRange
<1>2. QED BY <1>1 DEF MemOK, SameShape

(* The bytes a chunk sends in one tick are new ones, and its own.          *)
LEMMA SentGrows ==
  ASSUME NEW c \in ChunkProgress, NEW step \in Nat, NEW d,
         d.offset = c.offset, d.sent = c.sent + step, d.sent <= c.size
  PROVE  LET new == (c.offset + c.sent) .. (c.offset + c.sent + step - 1)
         IN  /\ SentRange(d) = SentRange(c) \cup new
             /\ SentRange(c) \cap new = {}
             /\ new \subseteq Extent(c)
             /\ SentRange(c) \subseteq Extent(c)
<1> DEFINE o == c.offset
           s == c.sent
           z == c.size
<1>1. o \in Nat /\ s \in Nat /\ z \in Nat /\ s + step <= z
  BY DEF ChunkProgress
<1>2. SentRange(c) = o .. (o + s - 1) /\ SentRange(d) = o .. (o + (s + step) - 1)
      /\ Extent(c) = o .. (o + z - 1)
  BY DEF SentRange, Extent
<1> HIDE DEF o, s, z
<1>3. /\ o .. (o + (s + step) - 1) = (o .. (o + s - 1)) \cup ((o + s) .. (o + s + step - 1))
      /\ (o .. (o + s - 1)) \cap ((o + s) .. (o + s + step - 1)) = {}
      /\ (o + s) .. (o + s + step - 1) \subseteq o .. (o + z - 1)
      /\ o .. (o + s - 1) \subseteq o .. (o + z - 1)
  BY <1>1
<1>4. QED BY <1>2, <1>3 DEF o, s

(* What a tick copies of a chunk follows what it had sent and is then      *)
(* counted as sent too, and it lies within the chunk.                      *)
LEMMA TickedRanges ==
  ASSUME NEW tp, TransferOK(tp), Delivers(tp), Active(tp), NEW rate \in [Paths -> Nat],
         NEW i \in DOMAIN tp.chunks, NEW b
  PROVE  LET before == SentRange(tp.chunks[i])
             after  == SentRange(Ticked(tp, rate).chunks[i])
         IN  /\ b \in after <=> b \in before \/ i \in Wired(tp, rate, b)
             /\ ~(b \in before /\ i \in Wired(tp, rate, b))
             /\ b \in after => b \in Extent(tp.chunks[i])
<1> DEFINE begun == Begun(tp)
           moved == Moved(begun, rate)
           after == Ticked(tp, rate).chunks
           new   == (begun[i].offset + begun[i].sent)
                      .. (begun[i].offset + begun[i].sent + StepOf(begun[i], rate) - 1)
<1>1. /\ ChunksOK(begun) /\ SameShape(tp.chunks, begun) /\ SameSent(tp.chunks, begun)
      /\ Full(begun)
  BY BegunKeeps, BegunFull DEF Delivers, Active
<1>2. i \in Wired(tp, rate, b) <=> b \in new
  BY <1>1 DEF Wired, SameShape
<1>3. SameSent(moved, after) /\ DOMAIN moved = DOMAIN after /\ SameShape(tp.chunks, after)
  BY TickedDelivers
<1> HIDE DEF after, begun
<1>4. /\ moved[i].offset = begun[i].offset /\ moved[i].size = begun[i].size
      /\ moved[i].sent = begun[i].sent + StepOf(begun[i], rate)
      /\ StepOf(begun[i], rate) \in Nat /\ moved[i].sent <= moved[i].size
      /\ i \in DOMAIN moved
  BY <1>1, MovedKeeps, MovedFull DEF SameShape, ChunksOK
<1> HIDE DEF moved
<1>5. /\ begun[i] \in ChunkProgress
      /\ after[i].offset = begun[i].offset
      /\ after[i].sent = begun[i].sent + StepOf(begun[i], rate)
      /\ after[i].sent <= begun[i].size
  BY <1>1, <1>3, <1>4 DEF ChunksOK, SameSent, SameShape
<1>6. /\ SentRange(after[i]) = SentRange(begun[i]) \cup new
      /\ SentRange(begun[i]) \cap new = {}
      /\ new \subseteq Extent(begun[i]) /\ SentRange(begun[i]) \subseteq Extent(begun[i])
  BY <1>4, <1>5, SentGrows
<1> HIDE DEF new
<1>7. SentRange(begun[i]) = SentRange(tp.chunks[i]) /\ Extent(begun[i]) = Extent(tp.chunks[i])
  BY <1>1 DEF SameShape, SameSent, SentRange, Extent
<1>8. QED BY <1>2, <1>6, <1>7 DEF after

(* A tick copies the bytes it counts as sent, each of them once.           *)
LEMMA TickedMem ==
  ASSUME NEW tp, TransferOK(tp), Delivers(tp), Active(tp), NEW rate \in [Paths -> Nat],
         NEW m, MemOK(tp.chunks, m)
  PROVE  MemOK(Ticked(tp, rate).chunks,
               [b \in DOMAIN m |-> m[b] + Cardinality(Wired(tp, rate, b))])
<1> DEFINE chunks == tp.chunks
           after == Ticked(tp, rate).chunks
<1>1. DOMAIN after = DOMAIN chunks
  BY TickedDelivers DEF SameShape
<1>2. \A i, j \in DOMAIN chunks : i # j => Extent(chunks[i]) \cap Extent(chunks[j]) = {}
  BY DEF Delivers, Layout
<1>3. ASSUME NEW b \in DOMAIN m
      PROVE  m[b] + Cardinality(Wired(tp, rate, b)) =
               IF \E i \in DOMAIN after : b \in SentRange(after[i]) THEN 1 ELSE 0
  <2>1. m[b] = IF \E i \in DOMAIN chunks : b \in SentRange(chunks[i]) THEN 1 ELSE 0
    BY DEF MemOK
  <2>2. \A i \in DOMAIN chunks :
          /\ b \in SentRange(after[i]) <=> b \in SentRange(chunks[i]) \/ i \in Wired(tp, rate, b)
          /\ ~(b \in SentRange(chunks[i]) /\ i \in Wired(tp, rate, b))
          /\ b \in SentRange(after[i]) => b \in Extent(chunks[i])
    BY TickedRanges
  <2>3. Wired(tp, rate, b) \subseteq DOMAIN chunks
    BY BegunKeeps DEF Wired, SameShape
  <2> HIDE DEF after, chunks
  <2>4. CASE Wired(tp, rate, b) # {}
    <3>1. PICK i \in DOMAIN chunks : i \in Wired(tp, rate, b)
      BY <2>3, <2>4
    <3>2. Wired(tp, rate, b) = {i}
      BY <1>2, <2>2, <2>3, <3>1
    <3>3. Cardinality(Wired(tp, rate, b)) = 1
      BY <3>2, FS_Singleton
    <3>4. ~ \E j \in DOMAIN chunks : b \in SentRange(chunks[j])
      BY <1>2, <2>2, <3>1
    <3>5. \E j \in DOMAIN after : b \in SentRange(after[j])
      BY <1>1, <2>2, <3>1
    <3>6. m[b] = 0
      BY <2>1, <3>4
    <3>7. QED BY <3>3, <3>5, <3>6
  <2>5. CASE Wired(tp, rate, b) = {}
    <3>1. Cardinality(Wired(tp, rate, b)) = 0
      BY <2>5, FS_EmptySet
    <3>2. (\E i \in DOMAIN after : b \in SentRange(after[i])) <=>
            (\E i \in DOMAIN chunks : b \in SentRange(chunks[i]))
      BY <1>1, <2>2, <2>5
    <3>3. QED BY <2>1, <3>1, <3>2
  <2>6. QED BY <2>4, <2>5
<1>4. MemOK(after, [b \in DOMAIN m |-> m[b] + Cardinality(Wired(tp, rate, b))])
  BY <1>3 DEF MemOK
<1>5. QED BY <1>4 DEF after

(* The bytes a buffer still lacks are as many as the chunks have not sent. *)
LEMMA LackingBytes ==
  ASSUME NEW chunks, ChunksOK(chunks), NEW total \in Nat, Layout(chunks, total),
         NEW m, DOMAIN m = 0 .. (total - 1), MemOK(chunks, m)
  PROVE  Cardinality({b \in DOMAIN m : m[b] = 0}) = total - SentBytes(chunks)
<1> DEFINE f == [i \in DOMAIN chunks |-> chunks[i].sent]
           had == {b \in DOMAIN m : m[b] = 1}
           byte == [p \in Pairs(f) |-> chunks[p[1]].offset + p[2] - 1]
<1>1. \A i \in DOMAIN chunks : /\ chunks[i] \in ChunkProgress /\ chunks[i].sent <= chunks[i].size
                               /\ chunks[i].sent \in Nat /\ chunks[i].offset \in Nat
                               /\ chunks[i].size \in Nat
  <2>1. \A i \in DOMAIN chunks : chunks[i] \in ChunkProgress /\ chunks[i].sent <= chunks[i].size
    BY DEF ChunksOK
  <2>2. QED BY <2>1 DEF ChunkProgress
<1>2. \A p \in Pairs(f) : /\ p[1] \in DOMAIN chunks /\ p[2] \in 1 .. chunks[p[1]].sent
                          /\ p = <<p[1], p[2]>>
  BY DEF Pairs
<1>3. \A i \in DOMAIN chunks : \A k \in 1 .. chunks[i].sent : <<i, k>> \in Pairs(f)
  BY DEF Pairs
<1>4. IsFiniteSet(Pairs(f))
  <2>1. Len(chunks) \in Nat /\ DOMAIN chunks = 1..Len(chunks)
    BY DEF ChunksOK
  <2>2. f \in [1..Len(chunks) -> Nat]
    BY <1>1, <2>1
  <2>3. QED BY <2>1, <2>2, PairsFinite
<1>5. \A p \in Pairs(f) : byte[p] \in SentRange(chunks[p[1]])
  <2> TAKE p \in Pairs(f)
  <2>1. /\ byte[p] = chunks[p[1]].offset + p[2] - 1
        /\ p[1] \in DOMAIN chunks /\ p[2] \in 1 .. chunks[p[1]].sent
    BY <1>2
  <2>2. PICK o, s \in Nat : o = chunks[p[1]].offset /\ s = chunks[p[1]].sent
    BY <1>1, <2>1
  <2>3. byte[p] \in o .. (o + s - 1)
    <3> HIDE DEF byte
    <3>1. byte[p] = o + p[2] - 1 /\ p[2] \in 1 .. s
      BY <2>1, <2>2
    <3>2. QED BY <3>1
  <2>4. QED BY <2>2, <2>3 DEF SentRange
<1>6. \A i \in DOMAIN chunks : SentRange(chunks[i]) \subseteq Extent(chunks[i])
  <2> TAKE i \in DOMAIN chunks
  <2>1. PICK o, s, z \in Nat : o = chunks[i].offset /\ s = chunks[i].sent /\ z = chunks[i].size
    BY <1>1
  <2>2. s <= z
    BY <1>1, <2>1
  <2>3. o .. (o + s - 1) \subseteq o .. (o + z - 1)
    BY <2>2
  <2>4. QED BY <2>1, <2>3 DEF SentRange, Extent
<1>7. \A i \in DOMAIN chunks : SentRange(chunks[i]) \subseteq DOMAIN m
  BY <1>6 DEF Layout
<1>8. had = {b \in DOMAIN m : \E i \in DOMAIN chunks : b \in SentRange(chunks[i])}
  BY DEF MemOK
<1>9. byte \in [Pairs(f) -> had]
  BY <1>2, <1>5, <1>7, <1>8
<1>10. ASSUME NEW p \in Pairs(f), NEW r \in Pairs(f), byte[p] = byte[r] PROVE p = r
  <2>1. p[1] = r[1]
    BY <1>2, <1>5, <1>6, <1>10 DEF Layout
  <2>2. p[2] = r[2]
    BY <1>1, <1>2, <1>10, <2>1
  <2>3. QED BY <1>2, <2>1, <2>2
<1>11. ASSUME NEW b \in had PROVE \E p \in Pairs(f) : byte[p] = b
  <2>1. PICK i \in DOMAIN chunks : b \in SentRange(chunks[i])
    BY <1>8
  <2> DEFINE k == b - chunks[i].offset + 1
  <2>2. k \in 1 .. chunks[i].sent /\ chunks[i].offset + k - 1 = b
    BY <1>1, <2>1 DEF SentRange
  <2>3. <<i, k>> \in Pairs(f)
    BY <1>3, <2>2
  <2>4. byte[<<i, k>>] = chunks[i].offset + k - 1
    BY <2>3
  <2>5. QED BY <2>2, <2>3, <2>4
<1> HIDE DEF byte
<1>12. byte \in Bijection(Pairs(f), had)
  <2>1. byte \in Injection(Pairs(f), had)
    BY <1>9, <1>10 DEF Injection, IsInjective
  <2>2. byte \in Surjection(Pairs(f), had)
    BY <1>9, <1>11 DEF Surjection
  <2>3. QED BY <2>1, <2>2 DEF Bijection
<1>13. IsFiniteSet(had) /\ Cardinality(had) = SentBytes(chunks)
  BY <1>4, <1>12, FS_Bijection DEF ExistsBijection, SentBytes, Total
<1>14. {b \in DOMAIN m : m[b] = 0} = (0 .. (total - 1)) \ had
  BY DEF MemOK
<1>15. IsFiniteSet(0 .. (total - 1)) /\ Cardinality(0 .. (total - 1)) = total
  BY FS_Interval
<1>16. (0 .. (total - 1)) \cap had = had
  OBVIOUS
<1>17. Cardinality((0 .. (total - 1)) \ had) = Cardinality(0 .. (total - 1)) - Cardinality((0 .. (total - 1)) \cap had)
  BY <1>15, FS_Difference
<1>18. QED BY <1>13, <1>14, <1>15, <1>16, <1>17
=============================================================================
