----------------------- MODULE TransferExecutorProofs -----------------------
(***************************************************************************)
(* Theorems about the transfer executor, for every set of paths, any       *)
(* number of rails, any quantum, any sizes and any number of transfers:    *)
(* the lemmas of TransferProofs lifted to its tables and its actions.      *)
(***************************************************************************)
EXTENDS TransferExecutor, TransferProofs

-----------------------------------------------------------------------------
(* The three tables *)

(* The inductive invariant, as an operator so that it can be stated of the *)
(* tables before and after a step alike.                                   *)
TablesOK(table, mem, calls) ==
  /\ table \in Seq(TransferProgress)
  /\ calls \in [DOMAIN table -> Nat]
  /\ mem = [id \in DOMAIN table |-> mem[id]]
  /\ \A id \in DOMAIN table :
       /\ TransferOK(table[id])
       /\ mem[id] \in [0 .. (table[id].bytesTotal - 1) -> Nat]

ExecutorInv == TablesOK(transfers, copied, callbacks)

LEMMA InvIsProperties == ExecutorInv <=> TypeOK /\ OneChunkPerRail
<1>1. ExecutorInv => TypeOK /\ OneChunkPerRail
  BY DEF ExecutorInv, TablesOK, TransferOK, ChunksOK, TypeOK, OneChunkPerRail, Exclusive
<1>2. ASSUME TypeOK, OneChunkPerRail PROVE ExecutorInv
  <2>1. transfers \in Seq(TransferProgress)
    BY <1>2 DEF TypeOK
  <2>2. ASSUME NEW id \in DOMAIN transfers PROVE TransferOK(transfers[id])
    <3>1. transfers[id] \in TransferProgress
      BY <2>1
    <3>2. transfers[id].chunks \in Seq(ChunkProgress)
      BY <3>1 DEF TransferProgress
    <3>3. ChunksOK(transfers[id].chunks)
      BY <1>2, <3>2 DEF TypeOK, ChunksOK
    <3>4. Exclusive(transfers[id].chunks)
      BY <1>2 DEF OneChunkPerRail, Exclusive
    <3>5. QED BY <3>1, <3>3, <3>4 DEF TransferOK
  <2>3. QED BY <1>2, <2>2 DEF TypeOK, ExecutorInv, TablesOK
<1>3. QED BY <1>1, <1>2

(* A step that changes transfers one by one keeps the tables.              *)
LEMMA TablesStep ==
  ASSUME NEW table, NEW mem, NEW calls, TablesOK(table, mem, calls),
         NEW table2, table2 = [id \in DOMAIN table |-> table2[id]],
         \A id \in DOMAIN table :
           TransferOK(table2[id]) /\ table2[id].bytesTotal = table[id].bytesTotal,
         NEW mem2, mem2 = [id \in DOMAIN mem |-> mem2[id]],
         \A id \in DOMAIN mem : mem2[id] \in [DOMAIN mem[id] -> Nat],
         NEW calls2 \in [DOMAIN calls -> Nat]
  PROVE  TablesOK(table2, mem2, calls2)
<1>1. Len(table) \in Nat /\ DOMAIN table = 1..Len(table)
  BY DEF TablesOK
<1>2. DOMAIN mem = DOMAIN table /\ DOMAIN calls = DOMAIN table /\ DOMAIN table2 = DOMAIN table
  BY DEF TablesOK
<1>3. \A id \in DOMAIN table : table2[id] \in TransferProgress
  BY DEF TransferOK
<1>4. table2 \in [1..Len(table) -> TransferProgress]
  BY <1>1, <1>3
<1>5. table2 \in Seq(TransferProgress)
  BY <1>1, <1>4, FunctionIsSeq
<1>6. \A id \in DOMAIN table : mem2[id] \in [0 .. (table2[id].bytesTotal - 1) -> Nat]
  <2> TAKE id \in DOMAIN table
  <2>1. mem[id] \in [0 .. (table[id].bytesTotal - 1) -> Nat]
    BY DEF TablesOK
  <2>2. DOMAIN mem[id] = 0 .. (table2[id].bytesTotal - 1)
    BY <2>1
  <2>3. QED BY <1>2, <2>2
<1>7. QED BY <1>2, <1>5, <1>6 DEF TablesOK

(* Updating one transfer, as pause, reroute and cancel do.                 *)
LEMMA TablesUpdate ==
  ASSUME NEW table, NEW mem, NEW calls, TablesOK(table, mem, calls),
         NEW id \in DOMAIN table, NEW tp, TransferOK(tp), tp.bytesTotal = table[id].bytesTotal
  PROVE  TablesOK([table EXCEPT ![id] = tp], mem, calls)
<1> DEFINE table2 == [table EXCEPT ![id] = tp]
<1>1. table2 = [i \in DOMAIN table |-> table2[i]]
  BY DEF TablesOK
<1>2. \A i \in DOMAIN table : TransferOK(table2[i]) /\ table2[i].bytesTotal = table[i].bytesTotal
  BY DEF TablesOK
<1> HIDE DEF table2
<1>3. /\ mem = [i \in DOMAIN mem |-> mem[i]]
      /\ \A i \in DOMAIN mem : mem[i] \in [DOMAIN mem[i] -> Nat]
      /\ calls \in [DOMAIN calls -> Nat]
  BY DEF TablesOK
<1>4. TablesOK(table2, mem, calls)
  BY <1>1, <1>2, <1>3, TablesStep
<1>5. QED BY <1>4 DEF table2

(* A new entry in each table.                                              *)
LEMMA TablesAppend ==
  ASSUME NEW table, NEW mem, NEW calls, TablesOK(table, mem, calls),
         NEW tp, TransferOK(tp), NEW m \in [0 .. (tp.bytesTotal - 1) -> Nat]
  PROVE  TablesOK(Append(table, tp), Append(mem, m), Append(calls, 0))
<1> DEFINE n == Len(table)
           S == {mem[id] : id \in 1..n}
<1>1. n \in Nat /\ DOMAIN table = 1..n /\ table \in Seq(TransferProgress)
  BY DEF TablesOK
<1>2. mem \in [1..n -> S] /\ calls \in [1..n -> Nat]
  BY <1>1 DEF TablesOK
<1> HIDE DEF n, S
<1>3. /\ mem \in Seq(S) /\ Len(mem) = n
      /\ calls \in Seq(Nat) /\ Len(calls) = n
  BY <1>1, <1>2, FunctionIsSeq
<1>4. tp \in TransferProgress
  BY DEF TransferOK
<1>5. /\ Append(table, tp) \in Seq(TransferProgress)
      /\ DOMAIN Append(table, tp) = 1..(n + 1)
      /\ \A id \in 1..n : Append(table, tp)[id] = table[id]
      /\ Append(table, tp)[n + 1] = tp
  BY <1>1, <1>4 DEF n
<1>6. /\ Append(mem, m) = [id \in 1..(n + 1) |-> Append(mem, m)[id]]
      /\ \A id \in 1..n : Append(mem, m)[id] = mem[id]
      /\ Append(mem, m)[n + 1] = m
  <2>1. mem \in Seq(S \cup {m}) /\ m \in S \cup {m}
    BY <1>3
  <2>2. /\ Append(mem, m) \in Seq(S \cup {m}) /\ Len(Append(mem, m)) = n + 1
        /\ \A id \in 1..n : Append(mem, m)[id] = mem[id]
        /\ Append(mem, m)[n + 1] = m
    BY <1>3, <2>1, AppendProperties
  <2>3. QED BY <2>2, SeqIsFunction
<1>7. Append(calls, 0) \in [1..(n + 1) -> Nat]
  <2>1. Append(calls, 0) \in Seq(Nat) /\ Len(Append(calls, 0)) = n + 1
    BY <1>3, AppendProperties
  <2>2. QED BY <2>1, SeqIsFunction
<1>8. \A id \in 1..(n + 1) :
        /\ TransferOK(Append(table, tp)[id])
        /\ Append(mem, m)[id] \in [0 .. (Append(table, tp)[id].bytesTotal - 1) -> Nat]
  <2>1. \A id \in 1..n : /\ TransferOK(table[id])
                         /\ mem[id] \in [0 .. (table[id].bytesTotal - 1) -> Nat]
    BY <1>1 DEF TablesOK
  <2>2. \A id \in 1..(n + 1) : id \in 1..n \/ id = n + 1
    BY <1>1
  <2>3. QED BY <1>5, <1>6, <2>1, <2>2
<1>9. QED BY <1>5, <1>6, <1>7, <1>8 DEF TablesOK
-----------------------------------------------------------------------------
(* The operations *)

LEMMA SubmittedKeeps ==
  ASSUME ExecutorInv,
         NEW kv \in BOOLEAN, NEW total \in Nat, NEW chunks \in Seq(ChunkProgress),
         \A i \in DOMAIN chunks : chunks[i].sent = 0 /\ chunks[i].state = "Pending",
         transfers' = Submitted(transfers, kv, total, chunks), NewEntry(total)
  PROVE  ExecutorInv'
<1> DEFINE tp == NewTransfer(kv, total, chunks)
           m == [b \in 0 .. (total - 1) |-> 0]
<1>1. TransferOK(tp) /\ tp.bytesTotal = total
  BY NewTransferOK
<1>2. m \in [0 .. (tp.bytesTotal - 1) -> Nat]
  BY <1>1
<1>3. /\ transfers' = Append(transfers, tp)
      /\ copied' = Append(copied, m)
      /\ callbacks' = Append(callbacks, 0)
  BY DEF Submitted, NewEntry
<1> HIDE DEF tp, m
<1>4. QED BY <1>1, <1>2, <1>3, TablesAppend DEF ExecutorInv

(* Pause, reroute and cancel replace one transfer and touch nothing else.  *)
LEMMA ReplacedKeeps ==
  ASSUME ExecutorInv, NEW id \in DOMAIN transfers, NEW tp,
         TransferOK(tp), tp.bytesTotal = transfers[id].bytesTotal,
         transfers' = [transfers EXCEPT ![id] = tp], UNCHANGED <<copied, callbacks>>
  PROVE  ExecutorInv'
BY TablesUpdate DEF ExecutorInv

LEMMA PreemptKeeps ==
  ASSUME ExecutorInv, NEW busy, PreemptSharing(busy)
  PROVE  ExecutorInv'
<1>1. PICK s \in Victims(transfers, busy) :
        /\ transfers' = SuspendAll(transfers, s)
        /\ UNCHANGED <<copied, callbacks>>
  BY DEF PreemptSharing
<1>2. transfers' = [id \in DOMAIN transfers |-> transfers'[id]]
  BY <1>1 DEF SuspendAll
<1>3. \A id \in DOMAIN transfers : transfers'[id] \in {transfers[id], Suspended(transfers[id])}
  BY <1>1 DEF SuspendAll
<1>4. \A id \in DOMAIN transfers :
        TransferOK(transfers'[id]) /\ transfers'[id].bytesTotal = transfers[id].bytesTotal
  BY <1>3, SuspendedKeeps DEF ExecutorInv, TablesOK
<1>5. /\ copied' = [id \in DOMAIN copied |-> copied'[id]]
      /\ \A id \in DOMAIN copied : copied'[id] \in [DOMAIN copied[id] -> Nat]
      /\ callbacks' \in [DOMAIN callbacks -> Nat]
  BY <1>1 DEF ExecutorInv, TablesOK
<1>6. QED BY <1>2, <1>4, <1>5, TablesStep DEF ExecutorInv

LEMMA TickKeeps ==
  ASSUME ExecutorInv, NEW rate \in Rates, Tick(rate)
  PROVE  ExecutorInv'
<1>1. /\ transfers' = TickAll(transfers, rate)
      /\ copied' = CopyAll(copied, transfers, rate)
      /\ callbacks' = Called(callbacks, transfers, transfers')
  BY DEF Tick
<1>2. transfers' = [id \in DOMAIN transfers |-> transfers'[id]]
  BY <1>1 DEF TickAll
<1>3. \A id \in DOMAIN transfers : transfers'[id] \in {transfers[id], Ticked(transfers[id], rate)}
  BY <1>1 DEF TickAll
<1>4. \A id \in DOMAIN transfers :
        TransferOK(transfers'[id]) /\ transfers'[id].bytesTotal = transfers[id].bytesTotal
  BY <1>3, TickedKeeps, ExecutorAssumption DEF ExecutorInv, TablesOK
<1>5. copied' = [id \in DOMAIN copied |-> copied'[id]]
  BY <1>1 DEF CopyAll
<1>6. ASSUME NEW id \in DOMAIN copied
      PROVE  copied'[id] \in [DOMAIN copied[id] -> Nat]
  <2>1. copied[id] \in [DOMAIN copied[id] -> Nat] /\ TransferOK(transfers[id])
    BY <1>6 DEF ExecutorInv, TablesOK
  <2>2. \A b \in DOMAIN copied[id] : Cardinality(Wired(transfers[id], rate, b)) \in Nat
    BY <2>1, WiredType
  <2>3. copied'[id] = IF Active(transfers[id])
                        THEN [b \in DOMAIN copied[id] |->
                                copied[id][b] + Cardinality(Wired(transfers[id], rate, b))]
                        ELSE copied[id]
    BY <1>1 DEF CopyAll
  <2>4. QED BY <2>1, <2>2, <2>3
<1>7. callbacks' \in [DOMAIN callbacks -> Nat]
  BY <1>1 DEF Called, ExecutorInv, TablesOK
<1>8. QED BY <1>2, <1>4, <1>5, <1>6, <1>7, TablesStep DEF ExecutorInv

LEMMA InitKeeps == Init => ExecutorInv
BY DEF Init, ExecutorInv, TablesOK

LEMMA NextKeeps == ExecutorInv /\ [Next]_vars => ExecutorInv'
<1> SUFFICES ASSUME ExecutorInv, [Next]_vars PROVE ExecutorInv'
  OBVIOUS
<1>1. \A id \in DOMAIN transfers : TransferOK(transfers[id])
  BY DEF ExecutorInv, TablesOK
<1>2. ASSUME NEW kv \in BOOLEAN, NEW total \in Sizes, NEW path \in Paths, Submit(kv, total, path)
      PROVE  ExecutorInv'
  <2>1. total \in Nat
    BY ExecutorAssumption
  <2>2. transfers' = Submitted(transfers, kv, total, Whole(total, path)) /\ NewEntry(total)
    BY <1>2 DEF Submit
  <2>3. QED BY <2>1, <2>2, WholeIsPending, SubmittedKeeps
<1>3. ASSUME NEW total \in Sizes, NEW route \in [1..NumChunks(total) -> Paths],
             SubmitStriped(total, route)
      PROVE  ExecutorInv'
  <2>1. total \in Nat
    BY ExecutorAssumption
  <2>2. transfers' = Submitted(transfers, TRUE, total, Stripe(total, route)) /\ NewEntry(total)
    BY <1>3 DEF SubmitStriped
  <2>3. QED BY <2>1, <2>2, StripeIsPending, SubmittedKeeps
<1>4. ASSUME NEW id \in DOMAIN transfers, Pause(id) PROVE ExecutorInv'
  BY <1>1, <1>4, SuspendedKeeps, ReplacedKeeps DEF Pause
<1>5. ASSUME NEW id \in DOMAIN transfers, NEW path \in Paths, Reroute(id, path) PROVE ExecutorInv'
  BY <1>1, <1>5, ReroutedKeeps, ReplacedKeeps DEF Reroute
<1>6. ASSUME NEW id \in DOMAIN transfers, Cancel(id) PROVE ExecutorInv'
  BY <1>1, <1>6, CancelledKeeps, ReplacedKeeps DEF Cancel
<1>7. ASSUME NEW path \in Paths, PreemptSharing(path) PROVE ExecutorInv'
  BY <1>7, PreemptKeeps
<1>8. ASSUME NEW rate \in Rates, Tick(rate) PROVE ExecutorInv'
  BY <1>8, TickKeeps
<1>9. CASE UNCHANGED vars
  BY <1>9 DEF vars, ExecutorInv
<1>10. QED BY <1>2, <1>3, <1>4, <1>5, <1>6, <1>7, <1>8, <1>9 DEF Next
-----------------------------------------------------------------------------
(* Type correctness, of submit, pause, reroute, cancel, preempt_sharing    *)
(* and tick in any order: no chunk ever sends past its end.                *)
THEOREM TypeCorrect == Spec => []TypeOK
<1>1. ExecutorInv => TypeOK
  BY InvIsProperties
<1>2. QED BY InitKeeps, NextKeeps, <1>1, PTL DEF Spec

(* A transfer never drives two chunks over one IB rail, for any number of  *)
(* rails and chunks: what tick, reroute and submit_striped start is always *)
(* the first waiting chunk of a free rail, and a reroute first takes all   *)
(* chunks off their rails.                                                 *)
THEOREM RailExclusive == Spec => []OneChunkPerRail
<1>1. ExecutorInv => OneChunkPerRail
  BY InvIsProperties
<1>2. QED BY InitKeeps, NextKeeps, <1>1, PTL DEF Spec

-----------------------------------------------------------------------------
(* The tables *)

(* CallbackOnce, of one transfer.                                          *)
CallsOK(state, n) ==
  /\ n <= 1
  /\ state = "Completed" => n = 1
  /\ state \notin {"Completed", "Cancelled"} => n = 0

EntryOK(tp, m, n) == Delivers(tp) /\ MemOK(tp.chunks, m) /\ CallsOK(tp.state, n)

EntriesOK(table, mem, calls) ==
  \A id \in DOMAIN table : EntryOK(table[id], mem[id], calls[id])

DeliveryInv == ExecutorInv /\ EntriesOK(transfers, copied, callbacks)

(* Every operation leaves every transfer that was there so, and takes back *)
(* nothing its chunks have sent.                                           *)
AllAdvance(table, after) ==
  \A id \in DOMAIN table : OnlyAdvance(table[id].chunks, after[id].chunks)

LEMMA StillAdvances ==
  ASSUME NEW tp, TransferOK(tp)
  PROVE  OnlyAdvance(tp.chunks, tp.chunks)
<1>1. \A i \in DOMAIN tp.chunks : tp.chunks[i] \in ChunkProgress
  BY DEF TransferOK, ChunksOK
<1>2. QED BY <1>1 DEF OnlyAdvance, ChunkProgress

LEMMA EntrySuspended ==
  ASSUME NEW tp, TransferOK(tp), Active(tp), NEW m, NEW n, EntryOK(tp, m, n)
  PROVE  /\ EntryOK(Suspended(tp), m, n)
         /\ OnlyAdvance(tp.chunks, Suspended(tp).chunks)
<1>1. Delivers(Suspended(tp)) /\ Suspended(tp).chunks = tp.chunks
  BY SuspendedDelivers DEF EntryOK
<1>2. Suspended(tp).state = "SuspendPending"
  BY DEF Suspended, TransferOK, TransferProgress
<1>3. CallsOK(Suspended(tp).state, n)
  BY <1>2 DEF EntryOK, CallsOK, Active
<1>4. QED BY <1>1, <1>3, StillAdvances DEF EntryOK

LEMMA EntryRerouted ==
  ASSUME NEW tp, TransferOK(tp), Reroutable(tp), NEW path \in Paths, NEW m, NEW n, EntryOK(tp, m, n)
  PROVE  /\ EntryOK(Rerouted(tp, path), m, n)
         /\ OnlyAdvance(tp.chunks, Rerouted(tp, path).chunks)
<1>1. Rerouted(tp, path).state = "InFlight"
  BY DEF Rerouted, TransferOK, TransferProgress
<1>2. CallsOK(Rerouted(tp, path).state, n)
  BY <1>1 DEF EntryOK, CallsOK, Reroutable
<1>3. QED BY <1>2, ReroutedDelivers, SameSentMem DEF EntryOK

LEMMA EntryCancelled ==
  ASSUME NEW tp, TransferOK(tp), NEW m, NEW n, EntryOK(tp, m, n)
  PROVE  /\ EntryOK(Cancelled(tp), m, n)
         /\ OnlyAdvance(tp.chunks, Cancelled(tp).chunks)
<1>1. Cancelled(tp).state = "Cancelled"
  BY DEF Cancelled, TransferOK, TransferProgress
<1>2. CallsOK(Cancelled(tp).state, n)
  BY <1>1 DEF EntryOK, CallsOK
<1>3. QED BY <1>2, CancelledDelivers, SameSentMem DEF EntryOK

(* A tick of an active transfer: what CopyAll and Called make of its       *)
(* buffer and its callback.                                                *)
LEMMA EntryTicked ==
  ASSUME NEW tp, TransferOK(tp), Active(tp), NEW rate \in [Paths -> Nat],
         NEW m, NEW n, EntryOK(tp, m, n),
         NEW n2, n2 = IF Ticked(tp, rate).state = "Completed" THEN n + 1 ELSE n
  PROVE  /\ EntryOK(Ticked(tp, rate),
                    [b \in DOMAIN m |-> m[b] + Cardinality(Wired(tp, rate, b))], n2)
         /\ OnlyAdvance(tp.chunks, Ticked(tp, rate).chunks)
<1>1. n = 0
  BY DEF EntryOK, CallsOK, Active
<1>2. CallsOK(Ticked(tp, rate).state, n2)
  BY <1>1 DEF CallsOK
<1>3. QED BY <1>2, TickedDelivers, TickedMem DEF EntryOK

LEMMA EntryNew ==
  ASSUME NEW kv \in BOOLEAN, NEW total \in Nat, NEW chunks \in Seq(ChunkProgress),
         Layout(chunks, total),
         \A i \in DOMAIN chunks : chunks[i].sent = 0 /\ chunks[i].state = "Pending"
  PROVE  EntryOK(NewTransfer(kv, total, chunks), [b \in 0 .. (total - 1) |-> 0], 0)
<1> DEFINE tp == NewTransfer(kv, total, chunks)
<1>1. TransferOK(tp) /\ tp.state = "InFlight"
  BY NewTransferOK DEF NewTransfer
<1>2. Delivers(tp) /\ \A i \in DOMAIN tp.chunks : tp.chunks[i].sent = 0
  BY NewDelivers
<1> HIDE DEF tp
<1>3. \A i \in DOMAIN tp.chunks : tp.chunks[i] \in ChunkProgress
  BY <1>1 DEF TransferOK, ChunksOK
<1>4. \A i \in DOMAIN tp.chunks : SentRange(tp.chunks[i]) = {}
  BY <1>2, <1>3 DEF SentRange, ChunkProgress
<1>5. MemOK(tp.chunks, [b \in 0 .. (total - 1) |-> 0])
  BY <1>4 DEF MemOK
<1>6. EntryOK(tp, [b \in 0 .. (total - 1) |-> 0], 0)
  BY <1>1, <1>2, <1>5 DEF EntryOK, CallsOK
<1>7. QED BY <1>6 DEF tp

(* g is f with x after its first n elements.                               *)
Grown(n, f, x, g) == g[n + 1] = x /\ \A id \in 1..n : g[id] = f[id]

(* The three tables grow together.                                         *)
LEMMA EntriesAppend ==
  ASSUME NEW table, NEW mem, NEW calls, TablesOK(table, mem, calls), EntriesOK(table, mem, calls),
         NEW tp, TransferOK(tp), NEW m, EntryOK(tp, m, 0)
  PROVE  /\ EntriesOK(Append(table, tp), Append(mem, m), Append(calls, 0))
         /\ AllAdvance(table, Append(table, tp))
         /\ DOMAIN Append(table, tp) = 1 .. (Len(table) + 1)
         /\ Grown(Len(table), table, tp, Append(table, tp))
         /\ Grown(Len(table), mem, m, Append(mem, m))
<1> DEFINE n == Len(table)
           S == {mem[id] : id \in 1..n}
<1>1. /\ n \in Nat /\ table \in Seq(TransferProgress) /\ DOMAIN table = 1..n
      /\ mem \in [1..n -> S] /\ calls \in [1..n -> Nat]
  BY DEF TablesOK
<1> HIDE DEF S
<1>2. mem \in Seq(S) /\ Len(mem) = n /\ calls \in Seq(Nat) /\ Len(calls) = n
  <2> HIDE DEF n
  <2>1. QED BY <1>1, FunctionIsSeq
<1>3. /\ DOMAIN Append(table, tp) = 1 .. (n + 1) /\ Append(table, tp)[n + 1] = tp
      /\ \A id \in 1..n : Append(table, tp)[id] = table[id]
  <2>1. tp \in TransferProgress
    BY DEF TransferOK
  <2>2. QED BY <1>1, <2>1
<1> HIDE DEF n
<1>4. Append(mem, m)[n + 1] = m /\ \A id \in 1..n : Append(mem, m)[id] = mem[id]
  <2>1. mem \in Seq(S \cup {m}) /\ m \in S \cup {m}
    BY <1>2
  <2>2. QED BY <1>2, <2>1, AppendProperties
<1>5. Append(calls, 0)[n + 1] = 0 /\ \A id \in 1..n : Append(calls, 0)[id] = calls[id]
  BY <1>2, AppendProperties
<1>6. \A id \in 1 .. (n + 1) : EntryOK(Append(table, tp)[id], Append(mem, m)[id], Append(calls, 0)[id])
  <2>1. \A id \in 1..n : EntryOK(table[id], mem[id], calls[id])
    BY <1>1 DEF EntriesOK
  <2>2. \A id \in 1 .. (n + 1) : id \in 1..n \/ id = n + 1
    BY <1>1
  <2>3. QED BY <1>3, <1>4, <1>5, <2>1, <2>2
<1>7. \A id \in 1..n : OnlyAdvance(table[id].chunks, Append(table, tp)[id].chunks)
  BY <1>1, <1>3, StillAdvances DEF TablesOK
<1>8. QED BY <1>1, <1>3, <1>4, <1>6, <1>7 DEF EntriesOK, AllAdvance, Grown, n

(* Several transfers are suspended: preempt_sharing.                       *)
LEMMA EntriesSuspend ==
  ASSUME NEW table, NEW mem, NEW calls, TablesOK(table, mem, calls), EntriesOK(table, mem, calls),
         NEW s, \A id \in s : Active(table[id])
  PROVE  /\ TablesOK(SuspendAll(table, s), mem, calls)
         /\ EntriesOK(SuspendAll(table, s), mem, calls)
         /\ AllAdvance(table, SuspendAll(table, s))
<1> DEFINE after == SuspendAll(table, s)
<1>1. after = [id \in DOMAIN table |-> after[id]] /\ DOMAIN after = DOMAIN table
  BY DEF SuspendAll
<1>2. \A id \in DOMAIN table :
        after[id] = IF id \in s THEN Suspended(table[id]) ELSE table[id]
  BY DEF SuspendAll
<1> HIDE DEF after
<1>3. \A id \in DOMAIN table :
        TransferOK(table[id]) /\ EntryOK(table[id], mem[id], calls[id])
  BY DEF TablesOK, EntriesOK
<1>4. \A id \in DOMAIN table :
        TransferOK(after[id]) /\ after[id].bytesTotal = table[id].bytesTotal
  BY <1>2, <1>3, SuspendedKeeps
<1>5. /\ mem = [id \in DOMAIN mem |-> mem[id]] /\ calls \in [DOMAIN calls -> Nat]
      /\ \A id \in DOMAIN mem : mem[id] \in [DOMAIN mem[id] -> Nat]
  BY DEF TablesOK
<1>6. TablesOK(after, mem, calls)
  BY <1>1, <1>4, <1>5, TablesStep
<1>7. ASSUME NEW id \in DOMAIN table
      PROVE  /\ EntryOK(after[id], mem[id], calls[id])
             /\ OnlyAdvance(table[id].chunks, after[id].chunks)
  <2>1. CASE id \in s
    BY <1>2, <1>3, <2>1, EntrySuspended
  <2>2. CASE id \notin s
    BY <1>2, <1>3, <2>2, StillAdvances
  <2>3. QED BY <2>1, <2>2
<1>8. QED BY <1>1, <1>6, <1>7 DEF EntriesOK, AllAdvance, after

LEMMA VictimsActive ==
  ASSUME NEW table, NEW busy, NEW s \in Victims(table, busy)
  PROVE  s \subseteq DOMAIN table /\ \A id \in s : table[id].state = "InFlight" /\ Active(table[id])
BY DEF Victims, Preemptable, Active

(* One transfer is replaced: pause, reroute, cancel.                       *)
LEMMA EntriesReplace ==
  ASSUME DeliveryInv, NEW id \in DOMAIN transfers, NEW tp,
         transfers' = [transfers EXCEPT ![id] = tp], UNCHANGED <<copied, callbacks>>,
         EntryOK(tp, copied[id], callbacks[id]), OnlyAdvance(transfers[id].chunks, tp.chunks)
  PROVE  EntriesOK(transfers, copied, callbacks)' /\ AllAdvance(transfers, transfers')
<1>1. DOMAIN transfers' = DOMAIN transfers
  BY DEF DeliveryInv, ExecutorInv, TablesOK
<1>2. transfers'[id] = tp /\ \A i \in DOMAIN transfers : i # id => transfers'[i] = transfers[i]
  BY DEF DeliveryInv, ExecutorInv, TablesOK
<1>3. \A i \in DOMAIN transfers : OnlyAdvance(transfers[i].chunks, transfers[i].chunks)
  BY StillAdvances DEF DeliveryInv, ExecutorInv, TablesOK
<1>4. QED BY <1>1, <1>2, <1>3 DEF DeliveryInv, EntriesOK, AllAdvance

LEMMA EntriesSubmit ==
  ASSUME DeliveryInv,
         NEW kv \in BOOLEAN, NEW total \in Nat, NEW chunks \in Seq(ChunkProgress),
         Layout(chunks, total),
         \A i \in DOMAIN chunks : chunks[i].sent = 0 /\ chunks[i].state = "Pending",
         transfers' = Submitted(transfers, kv, total, chunks), NewEntry(total)
  PROVE  EntriesOK(transfers, copied, callbacks)' /\ AllAdvance(transfers, transfers')
<1> DEFINE tp == NewTransfer(kv, total, chunks)
           m  == [b \in 0 .. (total - 1) |-> 0]
<1>1. /\ transfers' = Append(transfers, tp) /\ copied' = Append(copied, m)
      /\ callbacks' = Append(callbacks, 0)
  BY DEF Submitted, NewEntry
<1>2. TransferOK(tp) /\ EntryOK(tp, m, 0)
  BY NewTransferOK, EntryNew
<1> HIDE DEF tp, m
<1>3. QED BY <1>1, <1>2, EntriesAppend DEF DeliveryInv, ExecutorInv

LEMMA EntriesTick ==
  ASSUME DeliveryInv, NEW rate \in Rates, Tick(rate)
  PROVE  EntriesOK(transfers, copied, callbacks)' /\ AllAdvance(transfers, transfers')
<1>1. /\ transfers' = TickAll(transfers, rate)
      /\ copied' = CopyAll(copied, transfers, rate)
      /\ callbacks' = Called(callbacks, transfers, transfers')
  BY DEF Tick
<1>2. DOMAIN transfers' = DOMAIN transfers
  BY <1>1 DEF TickAll
<1>3. ASSUME NEW id \in DOMAIN transfers
      PROVE  /\ EntryOK(transfers'[id], copied'[id], callbacks'[id])
             /\ OnlyAdvance(transfers[id].chunks, transfers'[id].chunks)
  <2>1. /\ TransferOK(transfers[id]) /\ EntryOK(transfers[id], copied[id], callbacks[id])
        /\ id \in DOMAIN copied /\ id \in DOMAIN callbacks
    BY DEF DeliveryInv, EntriesOK, ExecutorInv, TablesOK
  <2>2. callbacks'[id] = IF /\ transfers[id].state # "Completed"
                            /\ transfers'[id].state = "Completed"
                           THEN callbacks[id] + 1 ELSE callbacks[id]
    BY <1>1, <2>1 DEF Called
  <2>3. CASE Active(transfers[id])
    <3>1. transfers'[id] = Ticked(transfers[id], rate)
      BY <1>1, <2>3 DEF TickAll
    <3>2. copied'[id] = [b \in DOMAIN copied[id] |->
                           copied[id][b] + Cardinality(Wired(transfers[id], rate, b))]
      BY <1>1, <2>1, <2>3 DEF CopyAll
    <3>3. callbacks'[id] = IF Ticked(transfers[id], rate).state = "Completed"
                             THEN callbacks[id] + 1 ELSE callbacks[id]
      BY <2>2, <2>3, <3>1 DEF Active
    <3>4. QED BY <2>1, <2>3, <3>1, <3>2, <3>3, EntryTicked, ExecutorAssumption
  <2>4. CASE ~Active(transfers[id])
    <3>1. transfers'[id] = transfers[id] /\ copied'[id] = copied[id]
      BY <1>1, <2>1, <2>4 DEF TickAll, CopyAll
    <3>2. callbacks'[id] = callbacks[id]
      BY <2>2, <3>1
    <3>3. QED BY <2>1, <3>1, <3>2, StillAdvances
  <2>5. QED BY <2>3, <2>4
<1>4. QED BY <1>2, <1>3 DEF EntriesOK, AllAdvance

(* What an uncancelled transfer counts as remaining is what its buffer     *)
(* lacks.                                                                  *)
LEMMA EntryRemaining ==
  ASSUME NEW tp, TransferOK(tp), tp.state # "Cancelled",
         NEW m \in [0 .. (tp.bytesTotal - 1) -> Nat], NEW n, EntryOK(tp, m, n)
  PROVE  tp.bytesRemaining = Cardinality({b \in DOMAIN m : m[b] = 0})
<1>1. /\ tp.bytesTotal \in Nat /\ ChunksOK(tp.chunks) /\ MemOK(tp.chunks, m)
      /\ Layout(tp.chunks, tp.bytesTotal) /\ tp.bytesRemaining = Remaining(tp, tp.chunks)
  BY DEF TransferOK, TransferProgress, EntryOK, Delivers
<1>2. Remaining(tp, tp.chunks) = tp.bytesTotal - SentBytes(tp.chunks)
  BY <1>1, RemainingNone
<1>3. Cardinality({b \in DOMAIN m : m[b] = 0}) = tp.bytesTotal - SentBytes(tp.chunks)
  BY <1>1, LackingBytes
<1>4. QED BY <1>1, <1>2, <1>3

LEMMA DeliveryInit == Init => DeliveryInv
BY InitKeeps DEF Init, DeliveryInv, EntriesOK

LEMMA DeliveryNext == DeliveryInv /\ [Next]_vars => DeliveryInv' /\ AllAdvance(transfers, transfers')
<1> SUFFICES ASSUME DeliveryInv, [Next]_vars PROVE DeliveryInv' /\ AllAdvance(transfers, transfers')
  OBVIOUS
<1>1. ExecutorInv'
  BY NextKeeps DEF DeliveryInv
<1>2. \A id \in DOMAIN transfers :
        /\ TransferOK(transfers[id]) /\ EntryOK(transfers[id], copied[id], callbacks[id])
        /\ OnlyAdvance(transfers[id].chunks, transfers[id].chunks)
  BY StillAdvances DEF DeliveryInv, EntriesOK, ExecutorInv, TablesOK
<1>3. ASSUME NEW kv \in BOOLEAN, NEW total \in Sizes, NEW path \in Paths, Submit(kv, total, path)
      PROVE  EntriesOK(transfers, copied, callbacks)' /\ AllAdvance(transfers, transfers')
  <2>1. total \in Nat
    BY ExecutorAssumption
  <2>2. transfers' = Submitted(transfers, kv, total, Whole(total, path)) /\ NewEntry(total)
    BY <1>3 DEF Submit
  <2>3. QED BY <2>1, <2>2, WholeIsPending, WholeLayout, EntriesSubmit
<1>4. ASSUME NEW total \in Sizes, NEW route \in [1..NumChunks(total) -> Paths],
             SubmitStriped(total, route)
      PROVE  EntriesOK(transfers, copied, callbacks)' /\ AllAdvance(transfers, transfers')
  <2>1. total \in Nat
    BY ExecutorAssumption
  <2>2. transfers' = Submitted(transfers, TRUE, total, Stripe(total, route)) /\ NewEntry(total)
    BY <1>4 DEF SubmitStriped
  <2>3. QED BY <2>1, <2>2, StripeIsPending, StripeLayout, EntriesSubmit
<1>5. ASSUME NEW id \in DOMAIN transfers, Pause(id)
      PROVE  EntriesOK(transfers, copied, callbacks)' /\ AllAdvance(transfers, transfers')
  BY <1>2, <1>5, EntrySuspended, EntriesReplace DEF Pause, Pausable
<1>6. ASSUME NEW id \in DOMAIN transfers, NEW path \in Paths, Reroute(id, path)
      PROVE  EntriesOK(transfers, copied, callbacks)' /\ AllAdvance(transfers, transfers')
  BY <1>2, <1>6, EntryRerouted, EntriesReplace DEF Reroute
<1>7. ASSUME NEW id \in DOMAIN transfers, Cancel(id)
      PROVE  EntriesOK(transfers, copied, callbacks)' /\ AllAdvance(transfers, transfers')
  BY <1>2, <1>7, EntryCancelled, EntriesReplace DEF Cancel
<1>8. ASSUME NEW path \in Paths, PreemptSharing(path)
      PROVE  EntriesOK(transfers, copied, callbacks)' /\ AllAdvance(transfers, transfers')
  <2>1. PICK s \in Victims(transfers, path) :
          transfers' = SuspendAll(transfers, s) /\ UNCHANGED <<copied, callbacks>>
    BY <1>8 DEF PreemptSharing
  <2>2. QED BY <2>1, VictimsActive, EntriesSuspend DEF DeliveryInv, ExecutorInv
<1>9. ASSUME NEW rate \in Rates, Tick(rate)
      PROVE  EntriesOK(transfers, copied, callbacks)' /\ AllAdvance(transfers, transfers')
  BY <1>9, EntriesTick
<1>10. ASSUME UNCHANGED vars
       PROVE  EntriesOK(transfers, copied, callbacks)' /\ AllAdvance(transfers, transfers')
  BY <1>2, <1>10 DEF vars, DeliveryInv, EntriesOK, AllAdvance
<1>11. EntriesOK(transfers, copied, callbacks)' /\ AllAdvance(transfers, transfers')
  BY <1>3, <1>4, <1>5, <1>6, <1>7, <1>8, <1>9, <1>10 DEF Next
<1>12. QED BY <1>1, <1>11 DEF DeliveryInv

-----------------------------------------------------------------------------
(* A suspension (pause, preempt_sharing) ends with the wire let go: tick   *)
(* declares a transfer Paused only when no chunk is in flight, none waits  *)
(* to be started and something is left to send.                            *)
THEOREM PauseLetsGo == Spec => []PausedIsQuiescent
<1>1. DeliveryInv => PausedIsQuiescent
  BY DEF DeliveryInv, EntriesOK, EntryOK, Delivers, Quiescent, PausedIsQuiescent
<1>2. QED BY DeliveryInit, DeliveryNext, <1>1, PTL DEF Spec

(* However tick, pause and reroute follow each other, maybe_wire_chunk     *)
(* copies each byte once: chunks lie apart, and each tick takes the bytes  *)
(* after those its chunks count as sent.                                   *)
THEOREM EachByteOnce == Spec => []CopiedExactlyOnce
<1>1. DeliveryInv => CopiedExactlyOnce
  BY DEF DeliveryInv, EntriesOK, EntryOK, MemOK, CopiedExactlyOnce
<1>2. QED BY DeliveryInit, DeliveryNext, <1>1, PTL DEF Spec

(* A transfer that complete_locked declared Completed has every byte of    *)
(* its buffer delivered: nothing remains only when every chunk is full,    *)
(* and the chunks cover the buffer.                                        *)
THEOREM CompletionIsDelivery == Spec => []CompletedIsDelivered
<1>1. ASSUME DeliveryInv, NEW id \in DOMAIN transfers, transfers[id].state = "Completed"
      PROVE  /\ \A i \in DOMAIN transfers[id].chunks :
                  transfers[id].chunks[i].sent = transfers[id].chunks[i].size
             /\ \A b \in DOMAIN copied[id] : copied[id][b] = 1
  <2> DEFINE chunks == transfers[id].chunks
  <2>1. /\ Delivers(transfers[id]) /\ MemOK(chunks, copied[id])
        /\ DOMAIN copied[id] = 0 .. (transfers[id].bytesTotal - 1)
    BY <1>1 DEF DeliveryInv, EntriesOK, EntryOK, ExecutorInv, TablesOK, TransferOK, TransferProgress
  <2>2. \A i \in DOMAIN chunks : chunks[i].sent = chunks[i].size
    BY <1>1, <2>1 DEF Delivers
  <2>3. \A i \in DOMAIN chunks : SentRange(chunks[i]) = Extent(chunks[i])
    BY <2>2 DEF SentRange, Extent
  <2>4. \A b \in DOMAIN copied[id] : \E i \in DOMAIN chunks : b \in SentRange(chunks[i])
    BY <2>1, <2>3 DEF Delivers, Layout
  <2>5. \A b \in DOMAIN copied[id] : copied[id][b] = 1
    BY <2>1, <2>4 DEF MemOK
  <2>6. QED BY <2>2, <2>5
<1>2. DeliveryInv => CompletedIsDelivered
  BY <1>1 DEF CompletedIsDelivered
<1>3. QED BY DeliveryInit, DeliveryNext, <1>2, PTL DEF Spec

(* bytes_remaining, by which the NCCL plugin knows that a request is done, *)
(* counts the bytes the destination lacks, until cancel zeroes it.         *)
THEOREM RemainingIsExact == Spec => []RemainingIsTrue
<1>1. DeliveryInv => RemainingIsTrue
  BY EntryRemaining DEF DeliveryInv, EntriesOK, ExecutorInv, TablesOK, RemainingIsTrue
<1>2. QED BY DeliveryInit, DeliveryNext, <1>1, PTL DEF Spec

(* complete_locked runs the callback once for each transfer that completes *)
(* and never earlier: no operation brings a Completed transfer back.       *)
THEOREM OneCallback == Spec => []CallbackOnce
<1>1. DeliveryInv => CallbackOnce
  BY DEF DeliveryInv, EntriesOK, EntryOK, CallsOK, CallbackOnce
<1>2. QED BY DeliveryInit, DeliveryNext, <1>1, PTL DEF Spec

(* No call of the executor takes back what a chunk has sent or touches a   *)
(* chunk that is complete.                                                 *)
THEOREM NothingIsTakenBack == Spec => ChunksOnlyAdvance
<1> DEFINE Step == \A id \in DOMAIN transfers : \A i \in DOMAIN transfers[id].chunks :
                     LET before == transfers[id].chunks[i]
                         after  == transfers'[id].chunks[i]
                     IN  /\ after.sent >= before.sent
                         /\ before.state = "Completed" => after = before
<1>1. DeliveryInv /\ [Next]_vars => [Step]_vars
  <2>1. AllAdvance(transfers, transfers') => Step
    BY DEF AllAdvance, OnlyAdvance
  <2>2. QED BY <2>1, DeliveryNext
<1>2. QED BY DeliveryInit, DeliveryNext, <1>1, PTL DEF Spec, ChunksOnlyAdvance
=============================================================================
