--------------------------- MODULE TelemetryProofs ---------------------------
(***************************************************************************)
(* The telemetry ring, for any number of edges, slots and writes, and any  *)
(* width of the index: what the lock-free reader gets, that no sampled     *)
(* edge is lost while the ring has more slots than there are edges, and    *)
(* that no collector runs after stop().                                    *)
(*                                                                         *)
(* The argument is about write numbers.  Write w goes to slot (w-1) of the *)
(* ring and belongs to edge (w-1), both wrapped around, so it stays in its *)
(* slot for RingSize writes, and its edge has its next write NumEdges      *)
(* writes later.  That needs the remainders below, which the SMT solver    *)
(* does not know for a divisor that is a constant of the module.           *)
(***************************************************************************)
EXTENDS Telemetry, TLAPS

(* Remainders *)

LEMMA DivMod ==
  ASSUME NEW n \in Nat \ {0}, NEW a \in Nat
  PROVE  a % n \in 0 .. (n - 1) /\ a \div n \in Nat /\ a = (n * (a \div n)) + (a % n)
OBVIOUS

LEMMA DivModUnique ==
  ASSUME NEW n \in Nat \ {0}, NEW q1 \in Nat, NEW q2 \in Nat,
         NEW r1 \in 0 .. (n - 1), NEW r2 \in 0 .. (n - 1), (n * q1) + r1 = (n * q2) + r2
  PROVE  q1 = q2 /\ r1 = r2
<1>1. ASSUME q1 > q2 PROVE FALSE
  <2>1. PICK d \in Nat \ {0} : q1 = q2 + d
    <3>1. q1 - q2 \in Nat \ {0} /\ q1 = q2 + (q1 - q2)
      BY <1>1
    <3>2. QED BY <3>1
  <2>2. n * q1 = (n * q2) + (n * d)
    BY <2>1
  <2>3. n * d >= n
    BY <2>1
  <2>4. n * q2 \in Nat /\ n * d \in Nat
    OBVIOUS
  <2>5. QED BY <2>2, <2>3, <2>4
<1>2. ASSUME q2 > q1 PROVE FALSE
  <2>1. PICK d \in Nat \ {0} : q2 = q1 + d
    <3>1. q2 - q1 \in Nat \ {0} /\ q2 = q1 + (q2 - q1)
      BY <1>2
    <3>2. QED BY <3>1
  <2>2. n * q2 = (n * q1) + (n * d)
    BY <2>1
  <2>3. n * d >= n
    BY <2>1
  <2>4. n * q1 \in Nat /\ n * d \in Nat
    OBVIOUS
  <2>5. QED BY <2>2, <2>3, <2>4
<1>3. q1 = q2
  BY <1>1, <1>2
<1>4. n * q1 \in Nat
  OBVIOUS
<1>5. QED BY <1>3, <1>4

(* Numbers less than n apart have different remainders.                    *)
LEMMA Apart ==
  ASSUME NEW n \in Nat \ {0}, NEW a \in Nat, NEW b \in Nat, a < b, b < a + n
  PROVE  a % n # b % n
<1>1. SUFFICES ASSUME a % n = b % n PROVE FALSE
  OBVIOUS
<1>2. PICK q1 \in Nat : a = (n * q1) + (a % n)
  BY DivMod
<1>3. PICK q2 \in Nat : b = (n * q2) + (b % n)
  BY DivMod
<1>4. n * q1 \in Nat /\ n * q2 \in Nat /\ a % n \in Nat
  BY DivMod
<1>5. n * q1 < n * q2 /\ n * q2 < (n * q1) + n
  BY <1>1, <1>2, <1>3, <1>4
<1>6. q1 < q2
  <2>1. ASSUME q2 <= q1 PROVE FALSE
    <3>1. n * q2 <= n * q1
      BY <2>1
    <3>2. QED BY <1>4, <1>5, <3>1
  <2>2. QED BY <2>1
<1>7. n * (q1 + 1) <= n * q2 /\ n * (q1 + 1) = (n * q1) + n
  BY <1>6
<1>8. QED BY <1>4, <1>5, <1>7

(* The remainder of the next number.                                       *)
LEMMA ModNext ==
  ASSUME NEW n \in Nat \ {0}, NEW a \in Nat
  PROVE  (a + 1) % n = IF (a % n) + 1 = n THEN 0 ELSE (a % n) + 1
<1>1. PICK q \in Nat : a = (n * q) + (a % n)
  BY DivMod
<1>2. PICK q2 \in Nat : a + 1 = (n * q2) + ((a + 1) % n)
  <2> DEFINE b == a + 1
  <2>1. b \in Nat
    OBVIOUS
  <2> HIDE DEF b
  <2>2. \E q2 \in Nat : b = (n * q2) + (b % n)
    BY <2>1, DivMod
  <2>3. QED BY <2>2 DEF b
<1>3. a % n \in 0 .. (n - 1) /\ (a + 1) % n \in 0 .. (n - 1)
  BY DivMod
<1>4. n * q \in Nat /\ n * q2 \in Nat /\ n * (q + 1) = (n * q) + n
  OBVIOUS
<1>5. CASE (a % n) + 1 = n
  <2>1. (n * (q + 1)) + 0 = (n * q2) + ((a + 1) % n)
    BY <1>1, <1>2, <1>3, <1>4, <1>5
  <2>2. 0 = (a + 1) % n
    BY <1>3, <2>1, DivModUnique
  <2>3. QED BY <1>5, <2>2
<1>6. CASE (a % n) + 1 # n
  <2>1. (n * q) + ((a % n) + 1) = (n * q2) + ((a + 1) % n)
    BY <1>1, <1>2, <1>3, <1>4
  <2>2. (a % n) + 1 \in 0 .. (n - 1)
    BY <1>3, <1>6
  <2>3. (a % n) + 1 = (a + 1) % n
    BY <1>3, <2>1, <2>2, DivModUnique
  <2>4. QED BY <1>6, <2>3
<1>7. QED BY <1>5, <1>6

(* Wrapping at a multiple of n does not disturb the remainder by n.        *)
LEMMA ModMod ==
  ASSUME NEW n \in Nat \ {0}, NEW m \in Nat \ {0}, m % n = 0, NEW a \in Nat
  PROVE  (a % m) % n = a % n
<1>1. PICK k \in Nat : m = n * k
  <2>1. PICK k \in Nat : m = (n * k) + (m % n)
    BY DivMod
  <2>2. n * k \in Nat
    OBVIOUS
  <2>3. QED BY <2>1, <2>2
<1>2. PICK q \in Nat : a = (m * q) + (a % m)
  BY DivMod
<1>3. a % m \in Nat
  BY DivMod
<1>4. PICK q2 \in Nat : a % m = (n * q2) + ((a % m) % n)
  BY <1>3, DivMod
<1>5. PICK q3 \in Nat : a = (n * q3) + (a % n)
  BY DivMod
<1>6. (a % m) % n \in 0 .. (n - 1) /\ a % n \in 0 .. (n - 1)
  BY <1>3, DivMod
<1> DEFINE r == (a % m) % n
           r2 == a % n
           d == k * q
           x == n * d
           y == n * q2
           z == n * q3
<1>7. /\ r \in 0 .. (n - 1) /\ r2 \in 0 .. (n - 1)
      /\ a % m = y + r /\ a = z + r2
  BY <1>4, <1>5, <1>6
<1>8. d \in Nat /\ x \in Nat /\ y \in Nat /\ z \in Nat
  OBVIOUS
<1>9. m * q = x
  BY <1>1
<1>10. n * (d + q2) = x + y /\ d + q2 \in Nat
  <2> HIDE DEF d
  <2>1. QED BY <1>8
<1>11. a = x + (a % m)
  BY <1>2, <1>9
<1> HIDE DEF r, r2, x, y, d
<1>12. (n * (d + q2)) + r = (n * q3) + r2
  <2>1. (n * (d + q2)) + r = a
    BY <1>3, <1>7, <1>8, <1>10, <1>11
  <2>2. (n * q3) + r2 = a
    BY <1>7
  <2>3. QED BY <2>1, <2>2
<1>13. r = r2
  <2>1. PICK u \in Nat : u = d + q2
    BY <1>10
  <2>2. (n * u) + r = (n * q3) + r2 /\ r \in 0 .. (n - 1) /\ r2 \in 0 .. (n - 1)
    BY <1>7, <1>12, <2>1
  <2>3. QED BY <2>2, DivModUnique
<1>14. QED BY <1>13 DEF r, r2

LEMMA ModSmall ==
  ASSUME NEW n \in Nat \ {0}, NEW a \in 0 .. (n - 1)
  PROVE  a % n = a
<1>0. a \in Nat
  OBVIOUS
<1>1. PICK q \in Nat : a = (n * q) + (a % n)
  BY <1>0, DivMod
<1>2. a % n \in 0 .. (n - 1)
  BY <1>0, DivMod
<1>3. (n * 0) + a = (n * q) + (a % n)
  BY <1>1
<1>4. QED BY <1>2, <1>3, DivModUnique

LEMMA ModAgain ==
  ASSUME NEW n \in Nat \ {0}, NEW a \in Nat
  PROVE  (a + n) % n = a % n
<1> DEFINE b == a + n
           r == b % n
           r2 == a % n
<1>1. b \in Nat
  OBVIOUS
<1>2. PICK q \in Nat : a = (n * q) + r2
  BY DivMod
<1>3. PICK q2 \in Nat : b = (n * q2) + r
  BY <1>1, DivMod
<1>4. r \in 0 .. (n - 1) /\ r2 \in 0 .. (n - 1)
  BY <1>1, DivMod
<1>5. n * (q + 1) = (n * q) + n /\ n * q \in Nat /\ n * q2 \in Nat
  OBVIOUS
<1> HIDE DEF r, r2
<1>6. (n * (q + 1)) + r2 = (n * q2) + r
  BY <1>2, <1>3, <1>4, <1>5
<1>7. r2 = r
  BY <1>4, <1>6, DivModUnique
<1>8. QED BY <1>7 DEF r, r2

(* A sum may be taken before or after wrapping at a multiple of n.         *)
SumWraps(n, m, a, k) == ((a % m) + k) % n = (a + k) % n

LEMMA ModPlus ==
  ASSUME NEW n \in Nat \ {0}, NEW m \in Nat \ {0}, m % n = 0, NEW a \in Nat, NEW k \in Nat
  PROVE  SumWraps(n, m, a, k)
<1>1. PICK j \in Nat : m = n * j
  <2>1. PICK j \in Nat : m = (n * j) + (m % n)
    BY DivMod
  <2>2. n * j \in Nat
    OBVIOUS
  <2>3. QED BY <2>1, <2>2
<1>2. PICK q \in Nat : a = (m * q) + (a % m)
  BY DivMod
<1>3. a % m \in Nat
  BY DivMod
<1> DEFINE b == (a % m) + k
           c == a + k
           r == b % n
           r2 == c % n
           d == j * q
           x == n * d
<1>4. b \in Nat /\ c \in Nat
  BY <1>3
<1>5. x = m * q /\ d \in Nat /\ x \in Nat
  BY <1>1
<1> HIDE DEF x, d
<1>6. c = x + b
  <2> DEFINE s == a % m
  <2>1. a = x + s /\ s \in Nat
    BY <1>2, <1>3, <1>5
  <2>2. b = s + k
    OBVIOUS
  <2> HIDE DEF s, b
  <2>3. QED BY <1>5, <2>1, <2>2
<1> HIDE DEF b, c
<1>7. PICK q2 \in Nat : b = (n * q2) + r
  BY <1>4, DivMod
<1>8. PICK q3 \in Nat : c = (n * q3) + r2
  BY <1>4, DivMod
<1>9. r \in 0 .. (n - 1) /\ r2 \in 0 .. (n - 1)
  BY <1>4, DivMod
<1>10. n * (d + q2) = x + (n * q2) /\ d + q2 \in Nat /\ n * q2 \in Nat /\ n * q3 \in Nat
  BY <1>5 DEF x
<1> HIDE DEF r, r2
<1>11. (n * (d + q2)) + r = (n * q3) + r2
  BY <1>5, <1>6, <1>7, <1>8, <1>9, <1>10
<1>12. r = r2
  BY <1>9, <1>10, <1>11, DivModUnique
<1>13. QED BY <1>12 DEF r, r2, b, c, SumWraps

-----------------------------------------------------------------------------
(* Slots and edges of the writes *)

LEMMA ConstantsType ==
  /\ NumEdges \in Nat \ {0} /\ RingSize \in Nat \ {0} /\ IndexLimit \in Nat \ {0}
  /\ MaxWrites \in Nat \ {0} /\ IndexLimit % RingSize = 0
BY TelemetryAssumption

LEMMA PlaceType ==
  ASSUME NEW w \in Nat
  PROVE  Slot(w) \in Slots /\ EdgeOf(w + 1) \in Edges
<1>1. (w + 1) - 1 = w
  OBVIOUS
<1>2. QED BY <1>1, DivMod, ConstantsType DEF Slot, Slots, EdgeOf, Edges

LEMMA SlotsApart ==
  ASSUME NEW a \in Nat, NEW b \in Nat, a < b, b < a + RingSize
  PROVE  Slot(a) # Slot(b)
BY Apart, ConstantsType DEF Slot

LEMMA EdgesApart ==
  ASSUME NEW v \in Nat \ {0}, NEW w \in Nat \ {0}, v < w, w < v + NumEdges
  PROVE  EdgeOf(v) # EdgeOf(w)
<1> DEFINE a == v - 1
           b == w - 1
<1>1. a \in Nat /\ b \in Nat /\ a < b /\ b < a + NumEdges
  BY ConstantsType
<1> HIDE DEF a, b
<1>2. a % NumEdges # b % NumEdges
  BY <1>1, Apart, ConstantsType
<1>3. QED BY <1>2 DEF EdgeOf, a, b

LEMMA EdgeFirst == EdgeOf(1) = 0
<1>1. 0 \in 0 .. (NumEdges - 1) /\ 1 - 1 = 0
  BY ConstantsType
<1>2. 0 % NumEdges = 0
  BY <1>1, ModSmall, ConstantsType
<1>3. QED BY <1>1, <1>2 DEF EdgeOf

LEMMA EdgeNext ==
  ASSUME NEW w \in Nat \ {0}
  PROVE  EdgeOf(w + 1) = IF LastEdge(EdgeOf(w)) THEN 0 ELSE EdgeOf(w) + 1
<1> DEFINE a == w - 1
<1>1. a \in Nat /\ (w + 1) - 1 = a + 1
  OBVIOUS
<1> HIDE DEF a
<1>2. (a + 1) % NumEdges = IF (a % NumEdges) + 1 = NumEdges THEN 0 ELSE (a % NumEdges) + 1
  BY <1>1, ModNext, ConstantsType
<1>3. EdgeOf(w) = a % NumEdges /\ EdgeOf(w + 1) = (a + 1) % NumEdges
  BY <1>1 DEF EdgeOf, a
<1>4. QED BY <1>2, <1>3 DEF LastEdge

LEMMA EdgeAgain ==
  ASSUME NEW w \in Nat \ {0}
  PROVE  EdgeOf(w + NumEdges) = EdgeOf(w)
<1> DEFINE a == w - 1
<1>1. a \in Nat /\ (w + NumEdges) - 1 = a + NumEdges
  BY ConstantsType
<1> HIDE DEF a
<1>2. (a + NumEdges) % NumEdges = a % NumEdges
  BY <1>1, ModAgain, ConstantsType
<1>3. QED BY <1>1, <1>2 DEF EdgeOf, a

(* write_idx_ wraps where its slots do.                                    *)
LEMMA IndexWraps ==
  ASSUME NEW c \in Nat
  PROVE  /\ c % IndexLimit \in 0 .. (IndexLimit - 1)
         /\ Slot(c % IndexLimit) = Slot(c)
         /\ ((c % IndexLimit) + 1) % IndexLimit = (c + 1) % IndexLimit
<1> DEFINE a == c % IndexLimit
<1>1. a \in 0 .. (IndexLimit - 1)
  BY DivMod, ConstantsType
<1>2. Slot(a) = Slot(c)
  BY ModMod, ConstantsType DEF Slot
<1>3. (c + 1) % IndexLimit = IF a + 1 = IndexLimit THEN 0 ELSE a + 1
  BY ModNext, ConstantsType
<1> HIDE DEF a
<1>4. a % IndexLimit = a /\ a \in Nat
  BY <1>1, ModSmall, ConstantsType
<1>5. (a + 1) % IndexLimit = IF a + 1 = IndexLimit THEN 0 ELSE a + 1
  <2> DEFINE r == a % IndexLimit
  <2>1. (a + 1) % IndexLimit = IF r + 1 = IndexLimit THEN 0 ELSE r + 1
    BY <1>4, ModNext, ConstantsType
  <2>2. r = a
    BY <1>4
  <2> HIDE DEF r
  <2>3. QED BY <2>1, <2>2, Zenon
<1>6. QED BY <1>1, <1>2, <1>3, <1>5 DEF a

(* The reader that began after c writes looks in its i-th step at the slot *)
(* of write c - i.                                                         *)
LEMMA ScanSlotIs ==
  ASSUME NEW c \in Nat, NEW i \in Slots
  PROVE  /\ ScanSlot(c % IndexLimit, i) \in Slots
         /\ i < c => ScanSlot(c % IndexLimit, i) = Slot((c - i) - 1)
<1> DEFINE k == (RingSize - 1) - i
           s == c % IndexLimit
           t == s + k
<1>1. k \in Nat /\ i \in Nat
  BY ConstantsType DEF Slots
<1>2. s \in Nat /\ t \in Nat /\ ((s + RingSize) - 1) - i = t
  BY <1>1, DivMod, ConstantsType
<1>3. ScanSlot(s, i) = t % RingSize
  BY <1>2 DEF ScanSlot
<1>4. t % RingSize = (c + k) % RingSize
  <2> HIDE DEF k
  <2>1. SumWraps(RingSize, IndexLimit, c, k)
    BY <1>1, ModPlus, ConstantsType
  <2>2. QED BY <2>1 DEF SumWraps
<1>5. t % RingSize \in Slots
  BY <1>2, DivMod, ConstantsType DEF Slots
<1>6. ASSUME i < c PROVE (c + k) % RingSize = Slot((c - i) - 1)
  <2> DEFINE a == (c - i) - 1
  <2>1. a \in Nat /\ c + k = a + RingSize
    BY <1>1, <1>6, ConstantsType
  <2> HIDE DEF a
  <2>2. (a + RingSize) % RingSize = a % RingSize
    BY <2>1, ModAgain, ConstantsType
  <2>3. QED BY <2>1, <2>2 DEF Slot, a
<1>7. QED BY <1>3, <1>4, <1>5, <1>6

-----------------------------------------------------------------------------
(* The collector *)

(* The writes that are finished.                                           *)
Done == IF collector.at = "store" THEN claims - 1 ELSE claims

(* A slot with the finished sample of write w.                             *)
Holds(sample, w) ==
  sample.timestamp_ns /\ sample.edge_idx = EdgeOf(w) /\ sample.utilization = w

(* Each finished write is in its slot until the slot is claimed again.     *)
RingHolds(done, count, ring) ==
  \A w \in Nat \ {0} : w <= done /\ count < w + RingSize => Holds(ring[Slot(w - 1)], w)

(* The collector's position agrees with the number of writes; a sweep is   *)
(* never begun that MaxWrites would cut off.                               *)
Position(c, count) ==
  /\ c.at \in {"none", "head"} => EdgeOf(count + 1) = 0
  /\ c.at = "claim" => EdgeOf(count + 1) = c.edge /\ count + NumEdges <= MaxWrites + c.edge
  /\ c.at = "store" =>
       /\ count # 0 /\ EdgeOf(count) = c.edge /\ c.slot = Slot(count - 1) /\ c.todo # {}
       /\ count + NumEdges <= MaxWrites + c.edge + 1

(* The fields stored so far.                                               *)
Stored(c, count, ring) ==
  c.at = "store" =>
    /\ "timestamp_ns" \in c.todo \/ ring[c.slot].timestamp_ns
    /\ "edge_idx" \in c.todo \/ ring[c.slot].edge_idx = c.edge
    /\ "utilization" \in c.todo \/ ring[c.slot].utilization = count

(* The newest write of an edge is not a whole sweep behind.                *)
NewestOK(new, done) ==
  \A e \in Edges :
    new[e] # 0 => new[e] <= done /\ EdgeOf(new[e]) = e /\ done < new[e] + NumEdges

(* What is known of a running read, said of the write it should find: the  *)
(* newest one of its edge.  While that is not overwritten the scan does    *)
(* not go past it, and stops nowhere else if it began on a quiet ring.     *)
ReadOK(rd, bg, res, done, count) ==
  rd.at # "idle" =>
    /\ bg.claims <= count /\ rd.start = bg.claims % IndexLimit
    /\ bg.quiet => bg.claims <= done
    /\ bg.newest # 0 =>
         /\ bg.newest <= done /\ bg.newest <= bg.claims /\ EdgeOf(bg.newest) = rd.edge
         /\ bg.claims <= bg.newest + NumEdges
         /\ bg.quiet => bg.claims < bg.newest + NumEdges
         /\ count < bg.newest + RingSize =>
              /\ rd.at = "scan" => bg.newest + rd.i <= bg.claims
              /\ rd.at # "missed"
              /\ bg.quiet /\ rd.at = "take" => bg.newest + rd.i = bg.claims
              /\ bg.quiet /\ rd.at = "done" => res = bg.newest

RingInv ==
  /\ TypeOK
  /\ newest \in [Edges -> Nat]
  /\ began \in [claims : Nat, newest : Nat, quiet : BOOLEAN]
  /\ StoppedIsQuiet
  /\ writeIdx = claims % IndexLimit
  /\ Position(collector, claims)
  /\ Stored(collector, claims, buffer)
  /\ RingHolds(Done, claims, buffer)
  /\ NewestOK(newest, Done)
  /\ ReadOK(reader, began, result, Done, claims)

LEMMA DoneType ==
  ASSUME RingInv
  PROVE  /\ claims \in Nat /\ Done \in Nat /\ Done <= claims /\ claims <= Done + 1
         /\ collector.at # "store" => Done = claims
         /\ collector.at = "store" => Done = claims - 1
BY ConstantsType DEF RingInv, TypeOK, Position, Done

(* A read is not disturbed by what the collector does.                     *)
LEMMA ReadStays ==
  ASSUME NEW rd, NEW bg \in [claims : Nat, newest : Nat, quiet : BOOLEAN], NEW res,
         NEW done \in Nat, NEW count \in Nat, NEW done2 \in Nat, NEW count2 \in Nat,
         done <= done2, count <= count2, ReadOK(rd, bg, res, done, count)
  PROVE  ReadOK(rd, bg, res, done2, count2)
<1>1. bg.claims \in Nat /\ bg.newest \in Nat
  OBVIOUS
<1>2. QED BY <1>1, ConstantsType DEF ReadOK

(* Steps that write nothing: the flags, the join, the head of the loop.    *)
LEMMA OwnerKeeps ==
  ASSUME RingInv, Sweep \/ Start \/ Stop \/ Join
  PROVE  RingInv'
<1>1. /\ UNCHANGED <<buffer, writeIdx, claims, newest, reader, began, result>>
      /\ running' \in BOOLEAN /\ joining' \in BOOLEAN
  BY DEF RingInv, TypeOK, Sweep, Start, Stop, Join, reading
<1>2. 0 \in Edges
  BY ConstantsType DEF Edges
<1>3. /\ StoppedIsQuiet' /\ Position(collector', claims')
      /\ collector' \in [at : {"none", "head", "claim", "store"}, edge : Edges,
                         slot : Slots, todo : SUBSET Fields]
      /\ collector' = collector \/ (collector.at # "store" /\ collector'.at # "store")
  <2>1. CASE Stop \/ Join
    BY <1>1, <2>1 DEF RingInv, TypeOK, StoppedIsQuiet, Stop, Join
  <2>2. CASE Start
    <3>1. collector.at = "none" /\ collector' = [collector EXCEPT !.at = "head"] /\ running'
      BY <2>2 DEF Start, RingInv, StoppedIsQuiet
    <3>2. collector'.at = "head" /\ collector' = [collector EXCEPT !.at = "head"]
      BY <3>1 DEF RingInv, TypeOK
    <3>3. QED BY <1>1, <3>1, <3>2 DEF RingInv, TypeOK, StoppedIsQuiet, Position
  <2>3. CASE Sweep /\ running
    <3>1. /\ collector.at = "head" /\ running' = running /\ claims + NumEdges <= MaxWrites
          /\ collector' = [collector EXCEPT !.at = "claim", !.edge = 0]
      BY <2>3 DEF Sweep
    <3>2. collector'.at = "claim" /\ collector'.edge = 0
      BY <3>1 DEF RingInv, TypeOK
    <3>3. EdgeOf(claims + 1) = 0
      BY <3>1 DEF RingInv, Position
    <3>4. Position(collector', claims')
      BY <1>1, <3>1, <3>2, <3>3, ConstantsType DEF RingInv, TypeOK, Position
    <3>5. QED BY <1>2, <2>3, <3>1, <3>2, <3>4 DEF RingInv, TypeOK, StoppedIsQuiet
  <2>4. CASE Sweep /\ ~running
    <3>1. collector.at = "head" /\ collector' = [collector EXCEPT !.at = "none"]
      BY <2>4 DEF Sweep
    <3>2. collector'.at = "none"
      BY <3>1 DEF RingInv, TypeOK
    <3>3. QED BY <1>1, <3>1, <3>2 DEF RingInv, TypeOK, StoppedIsQuiet, Position
  <2>5. QED BY <2>1, <2>2, <2>3, <2>4
<1>4. Done' = Done
  BY <1>1, <1>3 DEF Done
<1>5. Stored(collector', claims', buffer')
  BY <1>1, <1>3 DEF Stored, RingInv
<1>6. QED BY <1>1, <1>3, <1>4, <1>5 DEF RingInv, TypeOK

LEMMA ClaimKeeps ==
  ASSUME RingInv, Claim
  PROVE  RingInv'
<1>1. /\ collector.at = "claim" /\ claims' = claims + 1
      /\ writeIdx' = (writeIdx + 1) % IndexLimit
      /\ collector' = [collector EXCEPT !.at = "store", !.slot = Slot(writeIdx), !.todo = Fields]
      /\ UNCHANGED <<buffer, running, joining, reader, began, result, newest>>
  BY DEF Claim, reading
<1>2. claims \in Nat /\ Done = claims /\ writeIdx = claims % IndexLimit
  BY <1>1, DoneType DEF RingInv
<1>3. /\ Slot(writeIdx) = Slot(claims) /\ Slot(claims) \in Slots
      /\ writeIdx' = claims' % IndexLimit /\ writeIdx' \in 0 .. (IndexLimit - 1)
  <2>1. (claims + 1) % IndexLimit \in 0 .. (IndexLimit - 1)
    BY <1>2, IndexWraps
  <2>2. QED BY <1>1, <1>2, <2>1, IndexWraps, PlaceType
<1>4. /\ collector'.at = "store" /\ collector'.slot = Slot(claims) /\ collector'.todo = Fields
      /\ collector'.edge = collector.edge
      /\ collector' \in [at : {"none", "head", "claim", "store"}, edge : Edges,
                         slot : Slots, todo : SUBSET Fields]
  BY <1>1, <1>3 DEF RingInv, TypeOK
<1>5. /\ EdgeOf(claims + 1) = collector.edge /\ claims + NumEdges <= MaxWrites + collector.edge
      /\ collector.edge \in 0 .. (NumEdges - 1)
  BY <1>1 DEF RingInv, Position, TypeOK, Edges
<1>6. claims' \in 0..MaxWrites
  BY <1>1, <1>2, <1>5, ConstantsType
<1>7. Position(collector', claims')
  <2>1. (claims + 1) - 1 = claims
    BY <1>2
  <2>2. Fields # {}
    BY DEF Fields
  <2>3. QED BY <1>1, <1>2, <1>4, <1>5, <2>1, <2>2, ConstantsType DEF Position
<1>8. Done' = Done
  BY <1>1, <1>2, <1>4 DEF Done
<1>9. Stored(collector', claims', buffer')
  BY <1>4 DEF Stored, Fields
<1>10. RingHolds(Done', claims', buffer')
  BY <1>1, <1>2, <1>8, ConstantsType DEF RingInv, RingHolds
<1>11. NewestOK(newest', Done')
  BY <1>1, <1>8 DEF RingInv
<1>12. ReadOK(reader', began', result', Done', claims')
  BY <1>1, <1>2, <1>8, ReadStays DEF RingInv
<1>13. StoppedIsQuiet'
  BY <1>1, <1>4 DEF RingInv, StoppedIsQuiet
<1>14. QED BY <1>1, <1>3, <1>4, <1>6, <1>7, <1>9, <1>10, <1>11, <1>12, <1>13 DEF RingInv, TypeOK

(* The slot that is being written: what is stored stays, and the rest of   *)
(* the ring is not touched.                                                *)
LEMMA StoreField ==
  ASSUME RingInv, NEW f \in Fields, Store(f)
  PROVE  /\ buffer' \in [Slots -> [timestamp_ns : BOOLEAN, edge_idx : Edges,
                                   utilization : 0..MaxWrites]]
         /\ \A s \in Slots \ {collector.slot} : buffer'[s] = buffer[s]
         /\ "timestamp_ns" \in collector.todo \ {f} \/ buffer'[collector.slot].timestamp_ns
         /\ "edge_idx" \in collector.todo \ {f} \/ buffer'[collector.slot].edge_idx = collector.edge
         /\ "utilization" \in collector.todo \ {f} \/ buffer'[collector.slot].utilization = claims
<1>1. /\ buffer \in [Slots -> [timestamp_ns : BOOLEAN, edge_idx : Edges, utilization : 0..MaxWrites]]
      /\ collector.slot \in Slots /\ collector.edge \in Edges /\ claims \in 0..MaxWrites
  BY DEF RingInv, TypeOK
<1>2. /\ "timestamp_ns" \in collector.todo \/ buffer[collector.slot].timestamp_ns
      /\ "edge_idx" \in collector.todo \/ buffer[collector.slot].edge_idx = collector.edge
      /\ "utilization" \in collector.todo \/ buffer[collector.slot].utilization = claims
  BY DEF RingInv, Stored, Store
<1>3. f \in {"timestamp_ns", "edge_idx", "utilization"}
  BY DEF Fields
<1>4. CASE f = "timestamp_ns"
  <2>1. buffer' = [buffer EXCEPT ![collector.slot]["timestamp_ns"] = TRUE]
    BY <1>4 DEF Store
  <2>2. QED BY <1>1, <1>2, <1>4, <2>1
<1>5. CASE f = "edge_idx"
  <2>1. buffer' = [buffer EXCEPT ![collector.slot]["edge_idx"] = collector.edge]
    BY <1>5 DEF Store
  <2>2. QED BY <1>1, <1>2, <1>5, <2>1
<1>6. CASE f = "utilization"
  <2>1. buffer' = [buffer EXCEPT ![collector.slot]["utilization"] = claims]
    BY <1>6 DEF Store
  <2>2. QED BY <1>1, <1>2, <1>6, <2>1
<1>7. QED BY <1>3, <1>4, <1>5, <1>6

LEMMA StoreKeeps ==
  ASSUME RingInv, NEW f \in Fields, Store(f)
  PROVE  RingInv'
<1>1. /\ collector.at = "store" /\ f \in collector.todo
      /\ UNCHANGED <<writeIdx, running, joining, reader, began, result, claims>>
  BY DEF Store, reading
<1>2. /\ claims \in Nat \ {0} /\ EdgeOf(claims) = collector.edge
      /\ collector.slot = Slot(claims - 1) /\ collector.slot \in Slots
      /\ claims + NumEdges <= MaxWrites + collector.edge + 1
      /\ collector.edge \in 0 .. (NumEdges - 1)
      /\ collector \in [at : {"none", "head", "claim", "store"}, edge : Edges,
                        slot : Slots, todo : SUBSET Fields]
  BY <1>1 DEF RingInv, Position, TypeOK, Edges
<1>3. Done = claims - 1
  BY <1>1, DoneType
(* No other write that is still in the ring has this slot.                 *)
<1>4. \A w \in Nat \ {0} : w <= claims - 1 /\ claims < w + RingSize => Holds(buffer'[Slot(w - 1)], w)
  <2> TAKE w \in Nat \ {0}
  <2> HAVE w <= claims - 1 /\ claims < w + RingSize
  <2> DEFINE a == w - 1
             b == claims - 1
  <2>1. a \in Nat /\ b \in Nat /\ a < b /\ b < a + RingSize
    BY <1>2, ConstantsType
  <2> HIDE DEF a, b
  <2>2. Slot(a) # Slot(b) /\ Slot(a) \in Slots
    BY <2>1, SlotsApart, PlaceType
  <2>3. Slot(a) # collector.slot /\ Slot(a) = Slot(w - 1)
    BY <1>2, <2>2 DEF a, b
  <2>4. Holds(buffer[Slot(w - 1)], w)
    BY <1>3 DEF RingInv, RingHolds
  <2>5. buffer'[Slot(w - 1)] = buffer[Slot(w - 1)]
    BY <2>2, <2>3, StoreField
  <2>6. QED BY <2>4, <2>5
<1>5. CASE collector.todo # {f}
  <2>1. collector' = [collector EXCEPT !.todo = collector.todo \ {f}] /\ newest' = newest
    BY <1>5 DEF Store
  <2>2. /\ collector'.at = "store" /\ collector'.edge = collector.edge
        /\ collector'.slot = collector.slot /\ collector'.todo = collector.todo \ {f}
        /\ collector' \in [at : {"none", "head", "claim", "store"}, edge : Edges,
                           slot : Slots, todo : SUBSET Fields]
    <3> DEFINE todo == collector.todo \ {f}
    <3>1. todo \in SUBSET Fields
      BY <1>2
    <3>2. collector' = [collector EXCEPT !.todo = todo]
      BY <2>1
    <3> HIDE DEF todo
    <3>3. /\ collector'.at = "store" /\ collector'.edge = collector.edge
          /\ collector'.slot = collector.slot /\ collector'.todo = todo
          /\ collector' \in [at : {"none", "head", "claim", "store"}, edge : Edges,
                             slot : Slots, todo : SUBSET Fields]
      BY <1>1, <1>2, <3>1, <3>2
    <3>4. QED BY <3>3 DEF todo
  <2>3. Done' = Done
    BY <1>1, <2>2 DEF Done
  <2>4. Position(collector', claims')
    BY <1>1, <1>2, <1>5, <2>2 DEF Position
  <2>5. Stored(collector', claims', buffer')
    BY <1>1, <2>2, StoreField DEF Stored
  <2>6. RingHolds(Done', claims', buffer')
    BY <1>1, <1>3, <1>4, <2>3 DEF RingHolds
  <2>7. StoppedIsQuiet'
    BY <1>1 , <2>2 DEF RingInv, StoppedIsQuiet
  <2>8. QED BY <1>1, <2>1, <2>2, <2>3, <2>4, <2>5, <2>6, <2>7, StoreField DEF RingInv, TypeOK
<1>6. CASE collector.todo = {f}
  <2> DEFINE last == LastEdge(collector.edge)
  <2>1. /\ newest' = [newest EXCEPT ![collector.edge] = claims]
        /\ collector' = [at |-> IF last THEN "head" ELSE "claim",
                         edge |-> IF last THEN 0 ELSE collector.edge + 1,
                         slot |-> 0, todo |-> {}]
    BY <1>6 DEF Store
  <2>2. last <=> collector.edge + 1 = NumEdges
    BY DEF LastEdge
  <2>3. EdgeOf(claims + 1) = IF last THEN 0 ELSE collector.edge + 1
    BY <1>2, EdgeNext
  <2> HIDE DEF last
  <2>4. /\ collector'.at = IF last THEN "head" ELSE "claim"
        /\ collector'.edge = IF last THEN 0 ELSE collector.edge + 1
        /\ collector' \in [at : {"none", "head", "claim", "store"}, edge : Edges,
                           slot : Slots, todo : SUBSET Fields]
    BY <1>2, <2>1, <2>2, ConstantsType DEF Edges, Slots
  <2>5. Position(collector', claims')
    BY <1>1, <1>2, <2>2, <2>3, <2>4, ConstantsType DEF Position
  <2>6. Stored(collector', claims', buffer')
    BY <2>4 DEF Stored
  <2>7. Done' = claims
    BY <1>1, <2>4 DEF Done
  <2>8. Holds(buffer'[Slot(claims - 1)], claims)
    BY <1>2, <1>6, StoreField DEF Holds
  <2>9. RingHolds(Done', claims', buffer')
    <3>1. \A w \in Nat \ {0} : w <= claims => w <= claims - 1 \/ w = claims
      BY <1>2
    <3>2. QED BY <1>1, <1>4, <2>7, <2>8, <3>1 DEF RingHolds
  <2>10. newest' \in [Edges -> Nat] /\ NewestOK(newest', Done')
    <3>1. newest \in [Edges -> Nat] /\ NewestOK(newest, claims - 1)
      BY <1>3 DEF RingInv
    <3>2. newest' \in [Edges -> Nat]
      BY <1>2, <2>1, <3>1
    <3>3. ASSUME NEW e \in Edges, newest'[e] # 0
          PROVE  newest'[e] <= claims /\ EdgeOf(newest'[e]) = e /\ claims < newest'[e] + NumEdges
      <4>1. CASE e = collector.edge
        BY <1>2, <2>1, <3>1, <4>1, ConstantsType
      <4>2. CASE e # collector.edge
        <5> DEFINE v == newest[e]
        <5>1. newest'[e] = v /\ v \in Nat \ {0}
          BY <2>1, <3>1, <3>3, <4>2
        <5>2. v <= claims - 1 /\ EdgeOf(v) = e /\ claims - 1 < v + NumEdges
          BY <3>1, <5>1 DEF NewestOK
        <5> HIDE DEF v
        <5>3. EdgeOf(v + NumEdges) = e
          BY <5>1, <5>2, EdgeAgain
        <5>4. claims # v + NumEdges
          BY <1>2, <4>2, <5>3
        <5>5. claims < v + NumEdges /\ v <= claims
          BY <1>2, <5>1, <5>2, <5>4, ConstantsType
        <5>6. QED BY <5>1, <5>2, <5>5
      <4>3. QED BY <4>1, <4>2
    <3>4. QED BY <2>7, <3>2, <3>3 DEF NewestOK
  <2>11. ReadOK(reader', began', result', Done', claims')
    BY <1>1, <1>2, <1>3, <2>7, ReadStays DEF RingInv
  <2>12. StoppedIsQuiet'
    BY <1>1 DEF RingInv, StoppedIsQuiet
  <2>13. QED BY <1>1, <2>4, <2>5, <2>6, <2>9, <2>10, <2>11, <2>12, StoreField DEF RingInv, TypeOK
<1>7. QED BY <1>5, <1>6

-----------------------------------------------------------------------------
(* The reader *)

LEMMA BeginReadKeeps ==
  ASSUME RingInv, NEW e \in Edges, BeginRead(e)
  PROVE  RingInv'
<1>1. /\ reader' = [at |-> "scan", edge |-> e, start |-> writeIdx, i |-> 0]
      /\ began' = [claims |-> claims, newest |-> newest[e], quiet |-> collector.at # "store"]
      /\ result' = 0
      /\ UNCHANGED <<buffer, writeIdx, running, collector, joining, claims, newest>>
  BY DEF BeginRead, daemon
<1>2. /\ claims \in Nat /\ newest[e] \in Nat /\ writeIdx \in 0 .. (IndexLimit - 1)
      /\ 0 \in Slots /\ 0 \in 0..MaxWrites
  BY DoneType, ConstantsType DEF RingInv, TypeOK, Slots
<1>3. Done' = Done
  BY <1>1 DEF Done
<1>4. newest[e] # 0 =>
        newest[e] <= Done /\ EdgeOf(newest[e]) = e /\ Done < newest[e] + NumEdges
  BY DEF RingInv, NewestOK
<1>5. /\ Done \in Nat /\ Done <= claims /\ claims <= Done + 1
      /\ collector.at # "store" => Done = claims
  BY DoneType
<1>6. ReadOK(reader', began', result', Done', claims')
  <2> DEFINE v == newest[e]
             r == [at |-> "scan", edge |-> e, start |-> writeIdx, i |-> 0]
             b == [claims |-> claims, newest |-> v, quiet |-> collector.at # "store"]
  <2>1. /\ b.claims = claims /\ b.newest = v /\ (b.quiet => Done = claims)
        /\ r.at = "scan" /\ r.i = 0 /\ r.edge = e /\ r.start = claims % IndexLimit
    BY <1>5 DEF RingInv
  <2>2. v \in Nat /\ (v # 0 => v <= Done /\ EdgeOf(v) = e /\ Done < v + NumEdges)
    BY <1>2, <1>4
  <2>3. reader' = r /\ began' = b
    BY <1>1
  <2> HIDE DEF v, r, b
  <2>4. ReadOK(r, b, 0, Done, claims)
    BY <1>2, <1>5, <2>1, <2>2, ConstantsType DEF ReadOK
  <2>5. QED BY <1>1, <1>3, <2>3, <2>4
<1>7. began' \in [claims : Nat, newest : Nat, quiet : BOOLEAN]
  BY <1>1, <1>2
<1>8. TypeOK'
  BY <1>1, <1>2 DEF RingInv, TypeOK
<1>9. StoppedIsQuiet'
  BY <1>1 DEF RingInv, StoppedIsQuiet
<1>10. QED BY <1>1, <1>3, <1>6, <1>7, <1>8, <1>9 DEF RingInv

(* The slots a read passes on its way to the write it should find hold     *)
(* later writes of other edges, if it began on a quiet ring; that write's  *)
(* own slot holds its sample.                                              *)
LEMMA ScanSees ==
  ASSUME RingInv, reader.at \in {"scan", "take"}, began.newest # 0,
         claims < began.newest + RingSize, began.newest + reader.i <= began.claims
  PROVE  LET sample == buffer[ScanSlot(reader.start, reader.i)]
         IN  /\ began.newest + reader.i = began.claims =>
                  /\ sample.timestamp_ns /\ sample.edge_idx = reader.edge
                  /\ sample.utilization = began.newest
             /\ began.newest + reader.i # began.claims /\ began.quiet =>
                  sample.edge_idx # reader.edge
<1> DEFINE v == began.newest
           c == began.claims
           i == reader.i
           sample == buffer[ScanSlot(reader.start, i)]
           w == c - i
<1>1. /\ v \in Nat \ {0} /\ c \in Nat /\ i \in Slots /\ i \in Nat /\ claims \in Nat /\ Done \in Nat
      /\ v + i <= c
  <2>1. v \in Nat /\ c \in Nat /\ i \in Slots
    BY DEF RingInv, TypeOK
  <2>2. i \in Nat
    BY <2>1, ConstantsType DEF Slots
  <2>3. QED BY <2>1, <2>2, DoneType
<1>2. /\ reader.start = c % IndexLimit /\ c <= claims
      /\ began.quiet => c <= Done
      /\ v <= Done /\ EdgeOf(v) = reader.edge
      /\ began.quiet => c < v + NumEdges
  BY DEF RingInv, ReadOK
<1>3. w \in Nat \ {0} /\ v <= w /\ w <= c /\ i < c
  BY <1>1
<1>4. sample = buffer[Slot(w - 1)]
  <2>1. sample = buffer[ScanSlot(c % IndexLimit, i)]
    BY <1>2
  <2> HIDE DEF sample, c, i
  <2>2. ScanSlot(c % IndexLimit, i) = Slot((c - i) - 1)
    BY <1>1, <1>3, ScanSlotIs
  <2>3. QED BY <2>1, <2>2
<1>5. /\ RingHolds(Done, claims, buffer)
      /\ claims < v + RingSize
  BY DEF RingInv
<1> HIDE DEF sample
<1>6. CASE v + i = c
  <2>1. w = v
    BY <1>1, <1>6
  <2>2. Holds(sample, v)
    BY <1>1, <1>2, <1>4, <1>5, <2>1 DEF RingHolds
  <2>3. QED BY <1>2, <1>6, <2>2 DEF Holds, sample
<1>7. CASE v + i # c /\ began.quiet
  <2> HIDE DEF v, c, i
  <2>1. v < w
    BY <1>1, <1>3, <1>7
  <2>2. w <= Done /\ claims < w + RingSize /\ w < v + NumEdges
    <3>1. c <= Done /\ c < v + NumEdges /\ claims < v + RingSize
      BY <1>2, <1>5, <1>7
    <3> HIDE DEF w
    <3>2. QED BY <1>1, <1>3, <2>1, <3>1, ConstantsType
  <2> HIDE DEF w
  <2>3. Holds(sample, w)
    BY <1>3, <1>4, <1>5, <2>2 DEF RingHolds
  <2>4. EdgeOf(v) # EdgeOf(w)
    BY <1>1, <1>3, <2>1, <2>2, EdgesApart
  <2>5. sample.edge_idx # reader.edge
    BY <1>2, <2>3, <2>4 DEF Holds
  <2>6. QED BY <1>7, <2>5 DEF sample, v, c, i
<1>8. QED BY <1>6, <1>7 DEF sample

LEMMA ScanKeeps ==
  ASSUME RingInv, Scan
  PROVE  RingInv'
<1> DEFINE sample == buffer[ScanSlot(reader.start, reader.i)]
           found == sample.edge_idx = reader.edge /\ sample.timestamp_ns
<1>1. /\ reader.at = "scan"
      /\ UNCHANGED <<buffer, writeIdx, running, collector, joining, began, result, claims, newest>>
      /\ reader' = IF found THEN [reader EXCEPT !.at = "take"]
                   ELSE IF reader.i + 1 = RingSize THEN [reader EXCEPT !.at = "missed"]
                   ELSE [reader EXCEPT !.i = reader.i + 1]
  BY DEF Scan, daemon
<1>2. /\ reader \in [at : {"idle", "scan", "take", "done", "missed"}, edge : Edges,
                     start : 0 .. (IndexLimit - 1), i : Slots]
      /\ reader.i \in 0 .. (RingSize - 1) /\ claims \in Nat
      /\ began.claims \in Nat /\ began.newest \in Nat
  BY DoneType DEF RingInv, TypeOK, Slots
<1>3. Done' = Done
  BY <1>1 DEF Done
<1>4. ASSUME began.newest # 0, claims < began.newest + RingSize
      PROVE  /\ began.newest + reader.i <= began.claims /\ began.claims <= claims
             /\ began.newest + reader.i = began.claims => found
             /\ began.newest + reader.i # began.claims /\ began.quiet => ~found
  <2>1. began.newest + reader.i <= began.claims /\ began.claims <= claims
    BY <1>1, <1>4 DEF RingInv, ReadOK
  <2>2. QED BY <1>1, <1>4, <2>1, ScanSees
<1> HIDE DEF found
<1>5. /\ reader' \in [at : {"idle", "scan", "take", "done", "missed"}, edge : Edges,
                      start : 0 .. (IndexLimit - 1), i : Slots]
      /\ reader'.edge = reader.edge /\ reader'.start = reader.start
      /\ found => reader'.at = "take" /\ reader'.i = reader.i
      /\ ~found /\ reader.i + 1 = RingSize => reader'.at = "missed"
      /\ ~found /\ reader.i + 1 # RingSize => reader'.at = "scan" /\ reader'.i = reader.i + 1
  <2>1. reader.i + 1 # RingSize => reader.i + 1 \in Slots
    BY <1>2, ConstantsType DEF Slots
  <2>2. QED BY <1>1, <1>2, <2>1
<1>6. /\ began.claims <= claims /\ reader.start = began.claims % IndexLimit
      /\ began.quiet => began.claims <= Done
      /\ began.newest # 0 =>
           /\ began.newest <= Done /\ began.newest <= began.claims
           /\ EdgeOf(began.newest) = reader.edge
           /\ began.claims <= began.newest + NumEdges
           /\ began.quiet => began.claims < began.newest + NumEdges
  BY <1>1 DEF RingInv, ReadOK
<1>7. ASSUME began.newest # 0, claims < began.newest + RingSize
      PROVE  /\ reader'.at = "scan" => began.newest + reader'.i <= began.claims
             /\ reader'.at # "missed" /\ reader'.at # "done"
             /\ began.quiet /\ reader'.at = "take" => began.newest + reader'.i = began.claims
  <2>1. CASE found
    BY <1>4, <1>5, <1>7, <2>1
  <2>2. CASE ~found
    <3>1. began.newest + reader.i < began.claims /\ reader.i + 1 # RingSize
      BY <1>2, <1>4, <1>7, <2>2, ConstantsType
    <3>2. QED BY <1>2, <1>5, <2>2, <3>1
  <2>3. QED BY <2>1, <2>2
<1>8. ReadOK(reader', began, result, Done, claims)
  BY <1>5, <1>6, <1>7 DEF ReadOK
<1>9. TypeOK' /\ StoppedIsQuiet'
  BY <1>1, <1>5 DEF RingInv, TypeOK, StoppedIsQuiet
<1>10. QED BY <1>1, <1>3, <1>8, <1>9 DEF RingInv

LEMMA TakeKeeps ==
  ASSUME RingInv, Take
  PROVE  RingInv'
<1> DEFINE slot == ScanSlot(reader.start, reader.i)
<1>1. /\ reader.at = "take" /\ result' = buffer[slot].utilization
      /\ reader' = [reader EXCEPT !.at = "done"]
      /\ UNCHANGED <<buffer, writeIdx, running, collector, joining, began, claims, newest>>
  BY DEF Take, daemon
<1>2. /\ reader \in [at : {"idle", "scan", "take", "done", "missed"}, edge : Edges,
                     start : 0 .. (IndexLimit - 1), i : Slots]
      /\ began.claims \in Nat /\ began.newest \in Nat
      /\ buffer \in [Slots -> [timestamp_ns : BOOLEAN, edge_idx : Edges, utilization : 0..MaxWrites]]
  BY DEF RingInv, TypeOK
<1>3. reader'.at = "done" /\ reader'.edge = reader.edge /\ reader'.start = reader.start
  BY <1>1, <1>2
<1>4. Done' = Done
  BY <1>1 DEF Done
<1>5. /\ began.claims <= claims /\ reader.start = began.claims % IndexLimit
      /\ began.quiet => began.claims <= Done
      /\ began.newest # 0 =>
           /\ began.newest <= Done /\ began.newest <= began.claims
           /\ EdgeOf(began.newest) = reader.edge
           /\ began.claims <= began.newest + NumEdges
           /\ began.quiet => began.claims < began.newest + NumEdges
           /\ claims < began.newest + RingSize /\ began.quiet =>
                began.newest + reader.i = began.claims
  BY <1>1 DEF RingInv, ReadOK
<1>6. ASSUME began.newest # 0, claims < began.newest + RingSize, began.quiet
      PROVE  result' = began.newest
  <2>1. began.newest + reader.i = began.claims
    BY <1>5, <1>6
  <2>2. began.newest + reader.i <= began.claims
    BY <1>2, <2>1
  <2>3. QED BY <1>1, <1>6, <2>1, <2>2, ScanSees
<1>7. ReadOK(reader', began, result', Done, claims)
  BY <1>3, <1>5, <1>6 DEF ReadOK
<1>8. slot \in Slots
  BY <1>2, <1>5, ScanSlotIs
<1>9. TypeOK' /\ StoppedIsQuiet'
  <2>1. result' \in 0..MaxWrites
    BY <1>1, <1>2, <1>8
  <2>2. reader' \in [at : {"idle", "scan", "take", "done", "missed"}, edge : Edges,
                     start : 0 .. (IndexLimit - 1), i : Slots]
    BY <1>1, <1>2
  <2>3. QED BY <1>1, <2>1, <2>2 DEF RingInv, TypeOK, StoppedIsQuiet
<1>10. QED BY <1>1, <1>4, <1>7, <1>9 DEF RingInv

LEMMA EndReadKeeps ==
  ASSUME RingInv, EndRead
  PROVE  RingInv'
<1>1. /\ reader' = [at |-> "idle", edge |-> 0, start |-> 0, i |-> 0]
      /\ began' = [claims |-> 0, newest |-> 0, quiet |-> TRUE] /\ result' = 0
      /\ UNCHANGED <<buffer, writeIdx, running, collector, joining, claims, newest>>
  BY DEF EndRead, daemon
<1>2. 0 \in Edges /\ 0 \in Slots /\ 0 \in 0 .. (IndexLimit - 1) /\ 0 \in 0..MaxWrites
  BY ConstantsType DEF Edges, Slots
<1>3. Done' = Done
  BY <1>1 DEF Done
<1>4. ReadOK(reader', began', result', Done', claims')
  BY <1>1 DEF ReadOK
<1>5. TypeOK' /\ StoppedIsQuiet'
  BY <1>1, <1>2 DEF RingInv, TypeOK, StoppedIsQuiet
<1>6. QED BY <1>1, <1>3, <1>4, <1>5 DEF RingInv

-----------------------------------------------------------------------------
(* The daemon *)

LEMMA RingInit == Init => RingInv
<1> SUFFICES ASSUME Init PROVE RingInv
  OBVIOUS
<1>1. 0 \in Edges /\ 0 \in Slots /\ 0 \in 0 .. (IndexLimit - 1) /\ 0 \in 0..MaxWrites
  BY ConstantsType DEF Edges, Slots
<1>2. 0 % IndexLimit = 0 /\ EdgeOf(0 + 1) = 0
  BY <1>1, ModSmall, ConstantsType, EdgeFirst
<1>3. TypeOK
  BY <1>1 DEF Init, TypeOK
<1>4. Done = 0 /\ claims = 0 /\ collector.at = "none" /\ reader.at = "idle" /\ writeIdx = 0
  BY DEF Init, Done
<1>5. /\ newest \in [Edges -> Nat] /\ \A e \in Edges : newest[e] = 0
      /\ began \in [claims : Nat, newest : Nat, quiet : BOOLEAN]
  BY DEF Init
<1>6. RingHolds(Done, claims, buffer)
  BY <1>4 DEF RingHolds
<1>7. QED BY <1>2, <1>3, <1>4, <1>5, <1>6
          DEF RingInv, StoppedIsQuiet, Position, Stored, NewestOK, ReadOK

LEMMA RingKeeps == RingInv /\ [Next]_vars => RingInv'
<1>1. ASSUME RingInv, Next PROVE RingInv'
  BY <1>1, OwnerKeeps, ClaimKeeps, StoreKeeps, BeginReadKeeps, ScanKeeps, TakeKeeps, EndReadKeeps
     DEF Next, Collect
<1>2. ASSUME RingInv, UNCHANGED vars PROVE RingInv'
  <2>1. UNCHANGED <<buffer, writeIdx, running, collector, joining, reader, began, result, claims, newest>>
    BY <1>2 DEF vars, daemon, reading
  <2>2. Done' = Done
    BY <2>1 DEF Done
  <2>3. QED BY <1>2, <2>1, <2>2 DEF RingInv, TypeOK, StoppedIsQuiet
<1>3. QED BY <1>1, <1>2

(* write_idx_, the slots and the collector's position keep their ranges    *)
(* for any number of edges and slots, the index wrapping as it goes.       *)
THEOREM DaemonTypeCorrect == Spec => []TypeOK
<1>1. RingInv => TypeOK
  BY DEF RingInv
<1>2. QED BY RingInit, RingKeeps, <1>1, PTL DEF Spec

(* What read_latest gives without a lock: when no write was half done at   *)
(* its start and no more writes began during it than the ring has spare    *)
(* slots, the newest finished sample of its edge, whatever the numbers of  *)
(* edges and slots and wherever write_idx_ wraps.                          *)
THEOREM ReadGivesNewest == Spec => []ReadIsLatest
<1>1. ASSUME RingInv PROVE ReadIsLatest
  <2> SUFFICES ASSUME reader.at \in {"done", "missed"}, Undisturbed, began.newest > 0
               PROVE  reader.at = "done" /\ result >= began.newest /\ EdgeOf(result) = reader.edge
    BY DEF ReadIsLatest
  <2>1. /\ claims \in Nat /\ began.claims \in Nat /\ began.newest \in Nat /\ began.newest # 0
        /\ began.quiet /\ claims - began.claims <= RingSize - NumEdges
    BY <1>1, DoneType DEF RingInv, Undisturbed, Slack
  <2>2. began.claims < began.newest + NumEdges /\ EdgeOf(began.newest) = reader.edge
    BY <1>1, <2>1 DEF RingInv, ReadOK
  <2>3. claims < began.newest + RingSize
    BY <2>1, <2>2, ConstantsType
  <2>4. reader.at # "missed" /\ (reader.at = "done" => result = began.newest)
    BY <1>1, <2>1, <2>3 DEF RingInv, ReadOK
  <2>5. QED BY <2>1, <2>2, <2>4
<1>2. QED BY RingInit, RingKeeps, <1>1, PTL DEF Spec

(* A read of a sampled edge comes back empty only when the collector began *)
(* at least as many writes during it as the ring has spare slots, even if  *)
(* a write was half done at its start.                                     *)
THEOREM MissNeedsOvertaking == Spec => []MissedMeansOvertaken
<1>1. ASSUME RingInv PROVE MissedMeansOvertaken
  <2> SUFFICES ASSUME reader.at = "missed", began.newest > 0
               PROVE  claims - began.claims >= Slack
    BY DEF MissedMeansOvertaken
  <2>1. /\ claims \in Nat /\ began.claims \in Nat /\ began.newest \in Nat /\ began.newest # 0
    BY <1>1, DoneType DEF RingInv
  <2>2. began.claims <= began.newest + NumEdges /\ ~(claims < began.newest + RingSize)
    BY <1>1, <2>1 DEF RingInv, ReadOK
  <2>3. QED BY <2>1, <2>2, ConstantsType DEF Slack
<1>2. QED BY RingInit, RingKeeps, <1>1, PTL DEF Spec

(* With more slots than edges the ring never loses the last sample of an   *)
(* edge, in whatever state the collector is: an overwritten sample is one  *)
(* whose edge has a newer one.                                             *)
THEOREM SamplesStay ==
  ASSUME NumEdges < RingSize
  PROVE  Spec => []SampledIsKept
<1>1. ASSUME RingInv, NEW e \in Edges, newest[e] > 0
      PROVE  \E s \in Slots : buffer[s].timestamp_ns /\ buffer[s].edge_idx = e
  <2> DEFINE v == newest[e]
  <2>1. v \in Nat \ {0} /\ v <= Done /\ EdgeOf(v) = e /\ Done < v + NumEdges
    BY <1>1 DEF RingInv, NewestOK
  <2>2. claims \in Nat /\ Done \in Nat /\ claims <= Done + 1
    BY <1>1, DoneType
  <2> HIDE DEF v
  <2>3. claims < v + RingSize
    BY <2>1, <2>2, ConstantsType
  <2>4. Holds(buffer[Slot(v - 1)], v)
    BY <1>1, <2>1, <2>3 DEF RingInv, RingHolds
  <2>5. Slot(v - 1) \in Slots
    BY <2>1, PlaceType
  <2>6. QED BY <2>1, <2>4, <2>5 DEF Holds
<1>2. RingInv => SampledIsKept
  BY <1>1 DEF SampledIsKept
<1>3. QED BY RingInit, RingKeeps, <1>2, PTL DEF Spec

(* Once stop() has returned no collector is left that could write.         *)
THEOREM StopIsFinal == Spec => []StoppedIsQuiet
<1>1. RingInv => StoppedIsQuiet
  BY DEF RingInv
<1>2. QED BY RingInit, RingKeeps, <1>1, PTL DEF Spec
=============================================================================
