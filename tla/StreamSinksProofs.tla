--------------------------- MODULE StreamSinksProofs ---------------------------
(***************************************************************************)
(* What StreamSinks guarantees for every topic, batch size and number of    *)
(* faults: nothing a checkpoint has passed is missing from its sink, a row  *)
(* is stored again only in a replay, and the Parquet sink implements        *)
(* Delivery.                                                                *)
(***************************************************************************)
EXTENDS StreamSinks, TLAPS

\* A batch that is being written is stored up to `at`; what it has still to
\* write it has written less often than it was handed to the sink.
BatchInv(q) ==
  /\ state[q] \in {"writing", "written"} =>
       /\ base[q] # Unset
       /\ committed[q] <= at[q] /\ at[q] <= planned[q]
       /\ \A o \in Offsets : committed[q] <= o /\ o < at[q] => rows[q][o] > 0
  /\ state[q] = "written" => at[q] = planned[q]
  /\ state[q] = "writing" =>
       \A o \in Offsets : at[q] <= o /\ o < planned[q] => rows[q][o] < tries[q][o]

\* NothingLost for one query.
LossInv(q) ==
  \A o \in Passed(q) : rows[q][o] > 0 \/ (q = ClickHouse /\ o \in skipped)

\* DuplicatesAreReplays for one query.
ReplayInv(q) == \A o \in Offsets : rows[q][o] <= tries[q][o]

QueryInv(q) == BatchInv(q) /\ LossInv(q) /\ ReplayInv(q)

IInv == TypeOK /\ \A q \in Queries : QueryInv(q)

\* An offset below the end of the topic names a message.
LEMMA OffsetsBelowTopic ==
  ASSUME TypeOK, NEW o \in Nat, o < topic
  PROVE  o \in Offsets
BY SinksAssumption DEF TypeOK, Offsets

\* What Written does to the rows of its query and of the other one.
LEMMA WrittenEffect ==
  ASSUME TypeOK, NEW q \in Queries, NEW S
  PROVE  /\ Written(q, S) \in [Queries -> [Offsets -> Nat]]
         /\ \A p \in Queries \ {q} : Written(q, S)[p] = rows[p]
         /\ \A o \in Offsets :
              Written(q, S)[q][o] = IF o \in S THEN rows[q][o] + 1 ELSE rows[q][o]
BY DEF TypeOK, Written

\* A step that leaves everything QueryInv reads of a query alone preserves it.
LEMMA Untouched ==
  ASSUME NEW q \in Queries, QueryInv(q), skipped \subseteq skipped',
         state'[q] = state[q], base'[q] = base[q], planned'[q] = planned[q],
         committed'[q] = committed[q], at'[q] = at[q], rows'[q] = rows[q],
         tries'[q] = tries[q]
  PROVE  QueryInv(q)'
BY DEF QueryInv, BatchInv, LossInv, ReplayInv, Passed

\* A query that is turned off, fails or is idle keeps what it owes.
LEMMA Quiet ==
  ASSUME NEW q \in Queries, QueryInv(q), skipped \subseteq skipped',
         state'[q] \notin {"writing", "written"},
         base'[q] = base[q], committed'[q] = committed[q], rows'[q] = rows[q],
         tries'[q] = tries[q]
  PROVE  QueryInv(q)'
BY DEF QueryInv, BatchInv, LossInv, ReplayInv, Passed

\* The initial state satisfies the invariant.
LEMMA InitInv == Init => IInv
<1> SUFFICES ASSUME Init PROVE IInv
  OBVIOUS
<1>1. TypeOK
  <2>1. 0 \in 0 .. MaxTopic /\ 0 \in 0 .. MaxFaults /\ 0 \in Nat /\ 0 <= 0
    BY SinksAssumption
  <2>2. QED
    BY <2>1 DEF Init, TypeOK
<1>2. ASSUME NEW q \in Queries
      PROVE  QueryInv(q)
  <2>1. /\ state[q] = "off" /\ base[q] = Unset
        /\ \A o \in Offsets : rows[q][o] = 0 /\ tries[q][o] = 0
    BY DEF Init
  <2>2. QED
    BY <2>1 DEF QueryInv, BatchInv, LossInv, ReplayInv, Passed
<1>3. QED
  BY <1>1, <1>2 DEF IInv

-----------------------------------------------------------------------------
(* Spark's part of a batch *)

\* Resolving the start, planning, beginning and committing a batch preserve the
\* invariant.
LEMMA EngineStep ==
  ASSUME IInv, NEW q \in Queries, Engine(q)
  PROVE  IInv'
<1> USE DEF IInv
<1> DEFINE Others == \A p \in Queries \ {q} : QueryInv(p)'
<1>1. CASE ResolveStart(q)
  <2>1. TypeOK'
    BY <1>1, SinksAssumption DEF ResolveStart, TypeOK
  <2>2. QueryInv(q)'
    BY <1>1 DEF ResolveStart, TypeOK, QueryInv, BatchInv, LossInv, ReplayInv, Passed, Offsets
  <2>3. Others
    BY <1>1, Untouched DEF ResolveStart, TypeOK
  <2>4. QED
    BY <2>1, <2>2, <2>3
<1>2. CASE PlanBatch(q)
  <2>1. TypeOK'
    <3>1. planned'[q] \in Nat /\ committed[q] <= planned'[q] /\ planned'[q] <= topic
      BY <1>2, SinksAssumption DEF PlanBatch, TypeOK, Capped
    <3>2. QED
      BY <1>2, <3>1 DEF PlanBatch, TypeOK, Capped
  <2>2. QueryInv(q)'
    BY <1>2, Quiet DEF PlanBatch, TypeOK
  <2>3. Others
    BY <1>2, Untouched DEF PlanBatch, TypeOK
  <2>4. QED
    BY <2>1, <2>2, <2>3
<1>3. CASE BeginBatch(q)
  <2>1. TypeOK'
    <3>1. tries' \in [Queries -> [Offsets -> Nat]]
      BY <1>3 DEF BeginBatch, TypeOK
    <3>2. state' \in [Queries -> {"off", "idle", "writing", "written", "failed"}]
      BY <1>3 DEF BeginBatch, Becomes, TypeOK
    <3>3. at' \in [Queries -> Nat]
      BY <1>3 DEF BeginBatch, TypeOK
    <3>4. QED
      BY <1>3, <3>1, <3>2, <3>3 DEF BeginBatch, TypeOK, checkpoint
  <2>2. QueryInv(q)'
    <3>1. /\ state'[q] = "writing" /\ at'[q] = committed[q]
          /\ \A o \in Offsets : tries'[q][o] =
               IF o \in Batch(q) THEN tries[q][o] + 1 ELSE tries[q][o]
      BY <1>3 DEF BeginBatch, Becomes, TypeOK
    <3>2. /\ base'[q] = base[q] /\ base[q] # Unset /\ committed'[q] = committed[q]
          /\ planned'[q] = planned[q] /\ planned[q] > committed[q]
          /\ rows' = rows /\ skipped' = skipped
      BY <1>3 DEF BeginBatch, checkpoint
    <3>3. \A o \in Offsets :
            o \in Nat /\ rows[q][o] \in Nat /\ tries[q][o] \in Nat /\ rows[q][o] <= tries[q][o]
      BY SinksAssumption DEF TypeOK, QueryInv, ReplayInv, Offsets
    <3>4. committed[q] \in Nat /\ planned[q] \in Nat
      BY DEF TypeOK
    <3>5. BatchInv(q)'
      BY <3>1, <3>2, <3>3, <3>4 DEF BatchInv, Batch
    <3>6. LossInv(q)'
      BY <3>2 DEF LossInv, QueryInv, Passed
    <3>7. ReplayInv(q)'
      BY <3>1, <3>2, <3>3 DEF ReplayInv
    <3>8. QED
      BY <3>5, <3>6, <3>7 DEF QueryInv
  <2>3. Others
    BY <1>3, Untouched DEF BeginBatch, Becomes, TypeOK, checkpoint
  <2>4. QED
    BY <2>1, <2>2, <2>3
<1>4. CASE CommitBatch(q)
  <2>1. TypeOK'
    BY <1>4 DEF CommitBatch, Becomes, TypeOK
  <2>2. QueryInv(q)'
    <3>1. /\ state'[q] = "idle" /\ committed'[q] = planned[q] /\ base' = base
          /\ rows' = rows /\ skipped' = skipped /\ tries' = tries
      BY <1>4 DEF CommitBatch, Becomes, TypeOK
    <3>2. \A o \in Offsets : committed[q] <= o /\ o < planned[q] => rows[q][o] > 0
      BY <1>4 DEF CommitBatch, QueryInv, BatchInv
    <3>3. LossInv(q)'
      BY <3>1, <3>2 DEF LossInv, QueryInv, Passed, Offsets, TypeOK
    <3>4. QED
      BY <3>1, <3>3 DEF QueryInv, BatchInv, ReplayInv
  <2>3. Others
    BY <1>4, Untouched DEF CommitBatch, Becomes, TypeOK
  <2>4. QED
    BY <2>1, <2>2, <2>3
<1>5. QED
  BY <1>1, <1>2, <1>3, <1>4 DEF Engine

-----------------------------------------------------------------------------
(* The sinks *)

\* Writing some of what the batch of q has left, up to `next`, keeps what the
\* query owes, wherever the batch goes from there.
LEMMA WritePart ==
  ASSUME IInv, NEW q \in Queries, state[q] = "writing",
         NEW next \in Nat, at[q] <= next, next <= planned[q],
         rows' = Written(q, at[q] .. next - 1),
         \/ /\ at'[q] = next
            /\ state'[q] = IF next = planned[q] THEN "written" ELSE "writing"
         \/ state'[q] = "failed",
         UNCHANGED <<base, planned, committed, tries, skipped>>
  PROVE  QueryInv(q)'
<1>1. QueryInv(q) /\ TypeOK
  BY DEF IInv
<1>2. \A o \in Offsets :
        /\ o \in Nat /\ rows[q][o] \in Nat /\ tries[q][o] \in Nat
        /\ rows'[q][o] = IF o \in at[q] .. next - 1 THEN rows[q][o] + 1 ELSE rows[q][o]
  <2>1. \A o \in Offsets : o \in Nat
    BY SinksAssumption DEF Offsets
  <2>2. \A o \in Offsets : rows[q][o] \in Nat /\ tries[q][o] \in Nat
    BY <1>1 DEF TypeOK
  <2>3. \A o \in Offsets :
          rows'[q][o] = IF o \in at[q] .. next - 1 THEN rows[q][o] + 1 ELSE rows[q][o]
    <3> DEFINE S == at[q] .. next - 1
    <3>1. rows' = Written(q, S)
      OBVIOUS
    <3> HIDE DEF S
    <3>2. \A o \in Offsets : rows'[q][o] = IF o \in S THEN rows[q][o] + 1 ELSE rows[q][o]
      BY <1>1, <3>1, WrittenEffect
    <3>3. QED
      BY <3>2 DEF S
  <2>4. QED
    BY <2>1, <2>2, <2>3
<1>3. committed[q] \in Nat /\ planned[q] \in Nat /\ at[q] \in Nat
  BY <1>1 DEF TypeOK
<1>4. /\ base[q] # Unset /\ committed[q] <= at[q]
      /\ \A o \in Offsets : committed[q] <= o /\ o < at[q] => rows[q][o] > 0
      /\ \A o \in Offsets : at[q] <= o /\ o < planned[q] => rows[q][o] < tries[q][o]
      /\ \A o \in Offsets : rows[q][o] <= tries[q][o]
  BY <1>1 DEF QueryInv, BatchInv, ReplayInv
<1>5. ReplayInv(q)'
  BY <1>2, <1>3, <1>4 DEF ReplayInv
<1>6. LossInv(q)'
  <2>1. \A o \in Offsets : rows[q][o] > 0 => rows'[q][o] > 0
    BY <1>2
  <2>2. QED
    BY <1>1, <2>1 DEF QueryInv, LossInv, Passed
<1>7. BatchInv(q)'
  <2>1. CASE state'[q] = "failed"
    BY <2>1 DEF BatchInv
  <2>2. CASE at'[q] = next /\ state'[q] = IF next = planned[q] THEN "written" ELSE "writing"
    <3>1. \A o \in Offsets : committed[q] <= o /\ o < next => rows'[q][o] > 0
      BY <1>2, <1>3, <1>4
    <3>2. \A o \in Offsets : next <= o /\ o < planned[q] => rows'[q][o] < tries[q][o]
      BY <1>2, <1>3, <1>4
    <3>3. committed[q] <= next
      BY <1>3, <1>4
    <3>4. QED
      BY <2>2, <3>1, <3>2, <3>3, <1>4 DEF BatchInv
  <2>3. QED
    BY <2>1, <2>2
<1>8. QED
  BY <1>5, <1>6, <1>7 DEF QueryInv

\* _write_parquet_batch preserves the invariant, whole, in part or failing.
LEMMA ParquetStep ==
  ASSUME IInv, WriteParquet
  PROVE  IInv'
<1>1. TypeOK /\ Parquet \in Queries /\ ClickHouse \in Queries /\ Parquet # ClickHouse
  BY DEF IInv, Queries, Parquet, ClickHouse
<1>2. CASE \E next \in at[Parquet] + 1 .. planned[Parquet] :
             /\ rows' = Written(Parquet, at[Parquet] .. next - 1)
             /\ at' = [at EXCEPT ![Parquet] = next]
             /\ Becomes(Parquet, IF next = planned[Parquet] THEN "written" ELSE "writing")
             /\ UNCHANGED faults
  <2> PICK next \in at[Parquet] + 1 .. planned[Parquet] :
             /\ rows' = Written(Parquet, at[Parquet] .. next - 1)
             /\ at' = [at EXCEPT ![Parquet] = next]
             /\ Becomes(Parquet, IF next = planned[Parquet] THEN "written" ELSE "writing")
             /\ UNCHANGED faults
    BY <1>2
  <2>1. next \in Nat /\ at[Parquet] <= next /\ next <= planned[Parquet]
    BY <1>1 DEF TypeOK
  <2>2. /\ at'[Parquet] = next
        /\ state'[Parquet] = IF next = planned[Parquet] THEN "written" ELSE "writing"
    BY <1>1 DEF TypeOK, Becomes
  <2>3. QueryInv(Parquet)'
    BY <1>1, <2>1, <2>2, WritePart DEF WriteParquet, checkpoint
  <2>4. TypeOK'
    <3>1. rows' \in [Queries -> [Offsets -> Nat]]
      BY <1>1, WrittenEffect
    <3>2. at' \in [Queries -> Nat]
      BY <1>1, <2>1 DEF TypeOK
    <3>3. state' \in [Queries -> {"off", "idle", "writing", "written", "failed"}]
      BY <1>1 DEF TypeOK, Becomes
    <3>4. QED
      BY <1>1, <3>1, <3>2, <3>3 DEF TypeOK, WriteParquet, checkpoint
  <2>5. QueryInv(ClickHouse)'
    <3>1. rows'[ClickHouse] = rows[ClickHouse]
      BY <1>1, WrittenEffect
    <3>2. QED
      BY <1>1, <3>1, Untouched DEF IInv, TypeOK, WriteParquet, checkpoint, Becomes
  <2>6. QED
    BY <2>3, <2>4, <2>5 DEF IInv, Queries
<1>3. CASE Becomes(Parquet, "failed") /\ Fault /\ UNCHANGED <<rows, at>>
  <2>1. TypeOK'
    BY <1>1, <1>3, SinksAssumption DEF TypeOK, WriteParquet, checkpoint, Becomes, Fault
  <2>2. QueryInv(Parquet)'
    BY <1>1, <1>3, Quiet DEF IInv, TypeOK, WriteParquet, checkpoint, Becomes
  <2>3. QueryInv(ClickHouse)'
    BY <1>1, <1>3, Untouched DEF IInv, TypeOK, WriteParquet, checkpoint, Becomes
  <2>4. QED
    BY <2>1, <2>2, <2>3 DEF IInv, Queries
<1>4. QED
  BY <1>2, <1>3 DEF WriteParquet

\* One insert of write_batch preserves the invariant, applied or not.
LEMMA ClickHouseStep ==
  ASSUME IInv, InsertChunk
  PROVE  IInv'
<1> DEFINE next == Capped(at[ClickHouse] + Chunk, planned[ClickHouse])
           inserted == Written(ClickHouse, at[ClickHouse] .. next - 1)
<1>1. TypeOK /\ Parquet \in Queries /\ ClickHouse \in Queries /\ Parquet # ClickHouse
  BY DEF IInv, Queries, Parquet, ClickHouse
<1>2. next \in Nat /\ at[ClickHouse] <= next /\ next <= planned[ClickHouse]
  <2>1. at[ClickHouse] \in Nat /\ planned[ClickHouse] \in Nat /\ at[ClickHouse] <= planned[ClickHouse]
    BY <1>1 DEF IInv, QueryInv, BatchInv, TypeOK, InsertChunk
  <2>2. QED
    BY <2>1, SinksAssumption DEF Capped
<1>3. /\ state[ClickHouse] = "writing"
      /\ UNCHANGED <<topic, process, base, planned, committed, tries, skipped>>
      /\ \/ /\ rows' = inserted
            /\ at' = [at EXCEPT ![ClickHouse] = next]
            /\ Becomes(ClickHouse, IF next = planned[ClickHouse] THEN "written" ELSE "writing")
            /\ UNCHANGED faults
         \/ /\ rows' \in {rows, inserted}
            /\ Becomes(ClickHouse, "failed")
            /\ Fault
            /\ UNCHANGED at
  BY DEF InsertChunk, checkpoint
<1>4. rows' \in {rows, inserted}
  BY <1>3
<1> HIDE DEF next
<1>5. inserted[Parquet] = rows[Parquet] /\ inserted \in [Queries -> [Offsets -> Nat]]
  BY <1>1, WrittenEffect
<1> HIDE DEF inserted
<1>6. faults' \in 0 .. MaxFaults
  <2>1. faults \in 0 .. MaxFaults /\ (faults' = faults \/ (faults < MaxFaults /\ faults' = faults + 1))
    BY <1>1, <1>3 DEF TypeOK, Fault
  <2>2. QED
    BY ONLY <2>1, SinksAssumption
<1>7. TypeOK'
  <2>1. rows' \in [Queries -> [Offsets -> Nat]]
    BY <1>1, <1>4, <1>5 DEF TypeOK
  <2>2. at' \in [Queries -> Nat]
    BY <1>1, <1>2, <1>3 DEF TypeOK
  <2>3. state' \in [Queries -> {"off", "idle", "writing", "written", "failed"}]
    BY <1>1, <1>3 DEF TypeOK, Becomes
  <2>4. QED
    BY <1>1, <1>3, <1>6, <2>1, <2>2, <2>3 DEF TypeOK
<1>8. QueryInv(Parquet)'
  <2>1. rows'[Parquet] = rows[Parquet] /\ at'[Parquet] = at[Parquet] /\ state'[Parquet] = state[Parquet]
    BY <1>1, <1>3, <1>4, <1>5 DEF TypeOK, Becomes
  <2>2. QED
    BY <1>1, <1>3, <2>1, Untouched DEF IInv
<1>9. QueryInv(ClickHouse)'
  <2>1. CASE rows' = rows /\ state'[ClickHouse] = "failed"
    BY <1>1, <1>3, <2>1, Quiet DEF IInv
  <2>2. CASE rows' = inserted
    <3>1. \/ /\ at'[ClickHouse] = next
             /\ state'[ClickHouse] = IF next = planned[ClickHouse] THEN "written" ELSE "writing"
          \/ state'[ClickHouse] = "failed"
      BY <1>1, <1>3 DEF TypeOK, Becomes
    <3>2. QED
      BY <1>1, <1>2, <1>3, <2>2, <3>1, WritePart DEF inserted
  <2>3. QED
    BY <1>1, <1>3, <2>1, <2>2 DEF TypeOK, Becomes
<1>10. QED
  BY <1>7, <1>8, <1>9 DEF IInv, Queries

\* Committing a cancelled batch preserves the invariant: what was not written
\* is in `skipped`.
LEMMA CancelledStep ==
  ASSUME IInv, CancelledBatchCommitted
  PROVE  IInv'
<1>1. TypeOK /\ Parquet \in Queries /\ ClickHouse \in Queries /\ Parquet # ClickHouse
  BY DEF IInv, Queries, Parquet, ClickHouse
<1>2. /\ at[ClickHouse] \in Nat /\ planned[ClickHouse] \in Nat /\ committed[ClickHouse] \in Nat
      /\ committed[ClickHouse] <= at[ClickHouse]
      /\ \A o \in Offsets : committed[ClickHouse] <= o /\ o < at[ClickHouse] => rows[ClickHouse][o] > 0
  BY <1>1 DEF IInv, QueryInv, BatchInv, TypeOK, CancelledBatchCommitted
<1>3. at[ClickHouse] .. planned[ClickHouse] - 1 \subseteq Offsets
  <2>1. planned[ClickHouse] <= topic /\ topic \in Nat
    BY <1>1, SinksAssumption DEF TypeOK
  <2>2. QED
    BY <1>1, <1>2, <2>1, OffsetsBelowTopic
<1>4. TypeOK'
  BY <1>1, <1>3 DEF TypeOK, CancelledBatchCommitted, Becomes
<1>5. QueryInv(Parquet)'
  BY <1>1, Untouched DEF IInv, TypeOK, CancelledBatchCommitted, Becomes
<1>6. QueryInv(ClickHouse)'
  <2>1. /\ state'[ClickHouse] = "off" /\ committed'[ClickHouse] = planned[ClickHouse]
        /\ base' = base /\ rows' = rows /\ tries' = tries
        /\ skipped' = skipped \cup (at[ClickHouse] .. planned[ClickHouse] - 1)
    BY <1>1 DEF TypeOK, CancelledBatchCommitted, Becomes
  <2>2. \A o \in Offsets : o \in Nat
    BY SinksAssumption DEF Offsets
  <2>3. LossInv(ClickHouse)'
    BY <1>1, <1>2, <2>1, <2>2 DEF IInv, QueryInv, LossInv, Passed
  <2>4. QED
    BY <1>1, <2>1, <2>3 DEF IInv, QueryInv, BatchInv, ReplayInv
<1>7. QED
  BY <1>4, <1>5, <1>6 DEF IInv, Queries

\* The steps of the process and of the poller touch no batch.
LEMMA ProcessStep ==
  ASSUME IInv,
         \/ \E q \in Queries : StopQuery(q)
         \/ NoticeFailure \/ Signal \/ Exit \/ Crash
         \/ StartUp("failed") \/ StartUp("stopped") \/ Publish
  PROVE  IInv'
<1>1. TypeOK
  BY DEF IInv
<1>2. /\ UNCHANGED <<base, planned, committed, at, rows, tries, skipped>>
      /\ \A q \in Queries : state'[q] = state[q] \/ state'[q] \in {"off", "idle"}
  BY <1>1 DEF StopQuery, NoticeFailure, Signal, Exit, Crash, StartUp, Publish, Becomes,
              checkpoint, TypeOK
<1>3. \A q \in Queries : QueryInv(q)'
  BY <1>2, Untouched, Quiet DEF IInv
<1>4. faults' \in 0 .. MaxFaults
  <2>1. faults \in 0 .. MaxFaults /\ (faults' = faults \/ (faults < MaxFaults /\ faults' = faults + 1))
    BY <1>1 DEF TypeOK, Fault, StopQuery, NoticeFailure, Signal, Exit, Crash, StartUp, Publish
  <2>2. QED
    BY ONLY <2>1, SinksAssumption
<1>5. topic' \in 0 .. MaxTopic /\ topic <= topic'
  <2>1. topic \in 0 .. MaxTopic /\ (topic' = topic \/ (topic < MaxTopic /\ topic' = topic + 1))
    BY <1>1 DEF TypeOK, StopQuery, NoticeFailure, Signal, Exit, Crash, StartUp, Publish
  <2>2. QED
    BY ONLY <2>1, SinksAssumption
<1>6. /\ process' \in {"up", "stopping", "failed", "stopped"}
      /\ state' \in [Queries -> {"off", "idle", "writing", "written", "failed"}]
  BY <1>1 DEF StopQuery, NoticeFailure, Signal, Exit, Crash, StartUp, Publish, Becomes, TypeOK
<1>7. TypeOK'
  <2>1. \A q \in Queries : planned[q] <= topic'
    <3>1. \A q \in Queries : planned[q] \in Nat /\ planned[q] <= topic
      BY <1>1 DEF TypeOK
    <3>2. topic \in Nat /\ topic' \in Nat
      BY <1>1, <1>5, SinksAssumption DEF TypeOK
    <3>3. QED
      BY <3>1, <3>2, <1>5
  <2>2. QED
    BY <1>1, <1>2, <1>4, <1>5, <1>6, <2>1 DEF TypeOK
<1>8. QED
  BY <1>3, <1>7 DEF IInv

-----------------------------------------------------------------------------
(* Theorems *)

\* The invariant holds in every reachable state.
THEOREM Invariance == Spec => []IInv
<1>1. Init => IInv
  BY InitInv
<1>2. IInv /\ [Next]_vars => IInv'
  <2> SUFFICES ASSUME IInv, [Next]_vars PROVE IInv'
    OBVIOUS
  <2>1. CASE Next
    BY <2>1, EngineStep, ParquetStep, ClickHouseStep, CancelledStep, ProcessStep DEF Next
  <2>2. CASE UNCHANGED vars
    <3>1. TypeOK'
      BY <2>2 DEF vars, checkpoint, IInv, TypeOK
    <3>2. \A q \in Queries : QueryInv(q)'
      BY <2>2, Untouched DEF vars, checkpoint, IInv
    <3>3. QED
      BY <3>1, <3>2 DEF IInv
  <2>3. QED
    BY <2>1, <2>2
<1>3. QED
  BY <1>1, <1>2, PTL DEF Spec

\* Every variable has its type; the commit log never passes the offset log, nor
\* the offset log the topic.
THEOREM TypeCorrect == Spec => []TypeOK
BY Invariance, PTL DEF IInv

\* At least once: through any sequence of failed and cancelled batches, crashes
\* and replays, what a checkpoint has passed is in the sink, save the rest of a
\* ClickHouse batch whose cancellation write_batch swallowed.
THEOREM NothingIsLost == Spec => []NothingLost
<1>1. IInv => NothingLost
  BY DEF IInv, QueryInv, LossInv, NothingLost, Queries, Parquet, ClickHouse
<1>2. QED
  BY <1>1, Invariance, PTL

\* A row is never stored more often than its batch was handed to the sink.
THEOREM DuplicatesComeFromReplays == Spec => []DuplicatesAreReplays
<1>1. IInv => DuplicatesAreReplays
  BY DEF IInv, QueryInv, ReplayInv, DuplicatesAreReplays
<1>2. QED
  BY <1>1, Invariance, PTL

-----------------------------------------------------------------------------
(* The Parquet sink implements Delivery *)

Stored == {o \in Offsets : rows[Parquet][o] > 0}

\* A step of the sink's batch is a step of Delivery: resolving the start is
\* Begin, writing is Store, the commit is Finish, the rest is invisible.
LEMMA ParquetStepImplements ==
  ASSUME IInv, IInv', Engine(Parquet) \/ WriteParquet
  PROVE  ParquetDelivery!Next \/ UNCHANGED <<base[Parquet], Stored, committed[Parquet]>>
<1>1. TypeOK /\ TypeOK' /\ Parquet \in Queries /\ QueryInv(Parquet)
  BY DEF IInv, Queries
<1>2. committed[Parquet] \in Nat /\ planned[Parquet] \in Nat /\ topic \in Nat
  BY <1>1, SinksAssumption DEF TypeOK
<1>3. \A o \in Offsets : o \in Nat /\ rows[Parquet][o] \in Nat
  BY <1>1, SinksAssumption DEF Offsets, TypeOK
<1>4. CASE ResolveStart(Parquet)
  <2>1. /\ base[Parquet] = Unset /\ base'[Parquet] = topic /\ committed'[Parquet] = topic
        /\ rows' = rows
    BY <1>1, <1>4 DEF ResolveStart, TypeOK
  <2>2. QED
    BY <1>2, <2>1 DEF ParquetDelivery!Next, ParquetDelivery!Begin, Stored
<1>5. CASE PlanBatch(Parquet) \/ BeginBatch(Parquet)
  BY <1>5 DEF PlanBatch, BeginBatch, checkpoint, Stored
<1>6. CASE CommitBatch(Parquet)
  <2>1. /\ base' = base /\ rows' = rows /\ committed'[Parquet] = planned[Parquet]
        /\ base[Parquet] # Unset /\ committed[Parquet] <= planned[Parquet]
        /\ \A o \in Offsets :
             committed[Parquet] <= o /\ o < planned[Parquet] => rows[Parquet][o] > 0
    BY <1>1, <1>6 DEF CommitBatch, QueryInv, BatchInv, TypeOK
  <2>2. committed[Parquet] .. planned[Parquet] - 1 \subseteq Stored
    <3>1. planned[Parquet] <= topic
      BY <1>1 DEF TypeOK
    <3>2. QED
      BY <1>1, <1>2, <2>1, <3>1, OffsetsBelowTopic DEF Stored
  <2>3. CASE committed[Parquet] = planned[Parquet]
    BY <2>1, <2>3 DEF Stored
  <2>4. CASE committed[Parquet] < planned[Parquet]
    BY <1>2, <2>1, <2>2, <2>4 DEF ParquetDelivery!Next, ParquetDelivery!Finish, Stored
  <2>5. QED
    BY <1>2, <2>1, <2>3, <2>4
<1>7. CASE WriteParquet
  <2>1. /\ base[Parquet] # Unset /\ committed[Parquet] <= at[Parquet] /\ at[Parquet] \in Nat
        /\ base' = base /\ committed' = committed
    BY <1>1, <1>7 DEF WriteParquet, QueryInv, BatchInv, TypeOK, checkpoint
  <2>2. CASE rows' = rows
    BY <2>1, <2>2 DEF Stored
  <2>3. CASE \E next \in at[Parquet] + 1 .. planned[Parquet] :
               rows' = Written(Parquet, at[Parquet] .. next - 1)
    <3> PICK next \in at[Parquet] + 1 .. planned[Parquet] :
               rows' = Written(Parquet, at[Parquet] .. next - 1)
      BY <2>3
    <3> DEFINE S == at[Parquet] .. next - 1
    <3>1. \A o \in S : o >= committed[Parquet]
      BY <1>2, <2>1
    <3>2. rows' = Written(Parquet, S)
      OBVIOUS
    <3> HIDE DEF S
    <3>3. \A o \in Offsets :
            rows'[Parquet][o] = IF o \in S THEN rows[Parquet][o] + 1 ELSE rows[Parquet][o]
      BY <1>1, <3>2, WrittenEffect
    <3>4. Stored' = Stored \cup (S \cap Offsets)
      BY <1>3, <3>3 DEF Stored
    <3>5. S \cap Offsets \in SUBSET {o \in Offsets : o >= committed[Parquet]}
      BY <3>1
    <3>6. QED
      BY <2>1, <3>4, <3>5 DEF ParquetDelivery!Next, ParquetDelivery!Store, Stored
  <2>4. QED
    BY <2>2, <2>3, <1>7 DEF WriteParquet
<1>8. QED
  BY <1>4, <1>5, <1>6, <1>7 DEF Engine

\* The ClickHouse query and the process do nothing that Delivery can see.
LEMMA OtherStepStutters ==
  ASSUME IInv, [Next]_vars, ~Engine(Parquet), ~WriteParquet
  PROVE  UNCHANGED <<base[Parquet], Stored, committed[Parquet]>>
<1>1. TypeOK /\ Parquet \in Queries /\ ClickHouse \in Queries /\ Parquet # ClickHouse
  BY DEF IInv, Queries, Parquet, ClickHouse
<1> SUFFICES /\ base'[Parquet] = base[Parquet] /\ committed'[Parquet] = committed[Parquet]
             /\ rows'[Parquet] = rows[Parquet]
  BY DEF Stored
<1>2. CASE Engine(ClickHouse)
  BY <1>1, <1>2 DEF Engine, ResolveStart, PlanBatch, BeginBatch, CommitBatch, checkpoint, TypeOK
<1>3. CASE InsertChunk
  <2>1. /\ base' = base /\ committed' = committed
        /\ \E S : rows' \in {rows, Written(ClickHouse, S)}
    BY <1>3 DEF InsertChunk, checkpoint
  <2>2. QED
    BY <1>1, <2>1, WrittenEffect
<1>4. CASE CancelledBatchCommitted
  BY <1>1, <1>4 DEF CancelledBatchCommitted, TypeOK
<1>5. CASE \/ \E q \in Queries : StopQuery(q)
           \/ NoticeFailure \/ Signal \/ Exit \/ Crash
           \/ StartUp("failed") \/ StartUp("stopped") \/ Publish
  BY <1>5 DEF StopQuery, NoticeFailure, Signal, Exit, Crash, StartUp, Publish, checkpoint
<1>6. CASE UNCHANGED vars
  BY <1>6 DEF vars, checkpoint
<1>7. QED
  BY <1>2, <1>3, <1>4, <1>5, <1>6 DEF Next, Queries

\* The Parquet sink implements Delivery: whatever happens inside, its position
\* only ever passes stored messages.
THEOREM ParquetImplementsDelivery == Spec => ParquetDelivers
<1>1. Init => ParquetDelivery!Init
  BY DEF Init, ParquetDelivery!Init, Offsets, Queries
<1>2. IInv /\ IInv' /\ [Next]_vars => [ParquetDelivery!Next]_(ParquetDelivery!vars)
  <2> SUFFICES ASSUME IInv, IInv', [Next]_vars
               PROVE  ParquetDelivery!Next \/ UNCHANGED <<base[Parquet], Stored, committed[Parquet]>>
    BY DEF ParquetDelivery!vars, Stored
  <2>1. QED
    BY ParquetStepImplements, OtherStepStutters
<1>3. QED
  BY <1>1, <1>2, Invariance, PTL DEF Spec, ParquetDelivers, ParquetDelivery!Spec
=============================================================================
