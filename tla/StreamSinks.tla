----------------------------- MODULE StreamSinks -----------------------------
(***************************************************************************)
(* The two sinks of GithubStreamingJob under ProcessEventStreamUseCase:     *)
(* each streaming query plans a batch of Kafka offsets, hands it to         *)
(* _write_parquet_batch or write_batch, and commits it.  Spark's engine     *)
(* (the offset log written before a batch, the commit log after it, the     *)
(* replay of a planned batch after a restart), Kafka and docker are         *)
(* external.  A message is named by its offset.                             *)
(***************************************************************************)
EXTENDS Naturals

CONSTANTS
  MaxTopic,       \* bound: messages the topic ever carries
  MaxPerTrigger,  \* maxOffsetsPerTrigger (5000)
  Chunk,          \* _CLICKHOUSE_INSERT_CHUNK_SIZE (1000)
  MaxFaults,      \* bound: failures, crashes and signals
  EventOf,        \* the event_id of the message at each offset
  Unset           \* no starting offset resolved yet

ASSUME SinksAssumption ==
  /\ MaxTopic \in Nat
  /\ MaxPerTrigger \in Nat \ {0}
  /\ Chunk \in Nat \ {0}
  /\ MaxFaults \in Nat
  /\ Unset \notin Nat

Offsets == 0 .. MaxTopic - 1
Parquet == "parquet"
ClickHouse == "clickhouse"
Queries == {Parquet, ClickHouse}

VARIABLES
  topic,      \* number of messages on the topic
  process,    \* "up", "stopping", "failed" (non-zero exit) or "stopped"
  state,      \* each query: "off", "idle", "writing", "written" or "failed"
  base,       \* startingOffsets=latest, resolved once per checkpoint
  planned,    \* end of the last batch in the offset log
  committed,  \* end of the last batch in the commit log
  at,         \* next offset the running batch has to write
  rows,       \* rows stored, per query and offset
  tries,      \* history: times a batch with the offset was handed to the sink
  skipped,    \* history: offsets of cancelled batches that were committed
  faults      \* faults so far

checkpoint == <<base, planned, committed>>
vars == <<topic, process, state, checkpoint, at, rows, tries, skipped, faults>>

Capped(n, cap) == IF n < cap THEN n ELSE cap
Batch(q) == committed[q] .. planned[q] - 1

\* What is stored after the messages at offsets S were written once more.
Written(q, S) ==
  [rows EXCEPT ![q] = [o \in Offsets |-> IF o \in S THEN @[o] + 1 ELSE @[o]]]

\* A fault is one of the MaxFaults the model allows.
Fault == faults < MaxFaults /\ faults' = faults + 1

Becomes(q, s) == state' = [state EXCEPT ![q] = s]

-----------------------------------------------------------------------------
(* One micro-batch: Spark's part *)

\* The first trigger of a new checkpoint resolves "latest" for this query.
ResolveStart(q) ==
  /\ state[q] = "idle" /\ base[q] = Unset
  /\ base' = [base EXCEPT ![q] = topic]
  /\ planned' = [planned EXCEPT ![q] = topic]
  /\ committed' = [committed EXCEPT ![q] = topic]
  /\ UNCHANGED <<topic, process, state, at, rows, tries, skipped, faults>>

\* Mutant: the cap of a batch is not held to the end of the topic.
PlanFullBatch(q) ==
  /\ state[q] = "idle" /\ base[q] # Unset
  /\ planned[q] = committed[q] /\ topic > committed[q]
  /\ planned' = [planned EXCEPT ![q] = committed[q] + MaxPerTrigger]
  /\ UNCHANGED <<topic, process, state, base, committed, at, rows, tries, skipped, faults>>

\* New offsets go to the offset log, unless a planned batch is still open.
PlanBatch(q) ==
  /\ state[q] = "idle" /\ base[q] # Unset
  /\ planned[q] = committed[q] /\ topic > committed[q]
  /\ planned' = [planned EXCEPT ![q] = Capped(topic, committed[q] + MaxPerTrigger)]
  /\ UNCHANGED <<topic, process, state, base, committed, at, rows, tries, skipped, faults>>

\* The open batch, new or left over from before a restart, goes to the sink.
BeginBatch(q) ==
  /\ state[q] = "idle" /\ base[q] # Unset
  /\ planned[q] > committed[q]
  /\ Becomes(q, "writing")
  /\ at' = [at EXCEPT ![q] = committed[q]]
  /\ tries' = [tries EXCEPT ![q] =
       [o \in Offsets |-> IF o \in Batch(q) THEN @[o] + 1 ELSE @[o]]]
  /\ UNCHANGED <<topic, process, checkpoint, rows, skipped, faults>>

\* The sink returned: the batch goes to the commit log.
CommitBatch(q) ==
  /\ state[q] = "written"
  /\ Becomes(q, "idle")
  /\ committed' = [committed EXCEPT ![q] = planned[q]]
  /\ UNCHANGED <<topic, process, base, planned, at, rows, tries, skipped, faults>>

-----------------------------------------------------------------------------
(* The sinks *)

\* Mutant: an error of the save is logged and not raised.
WriteParquetLenient ==
  /\ state[Parquet] = "writing"
  /\ \/ \E next \in at[Parquet] + 1 .. planned[Parquet] :
          /\ rows' = Written(Parquet, at[Parquet] .. next - 1)
          /\ at' = [at EXCEPT ![Parquet] = next]
          /\ Becomes(Parquet, IF next = planned[Parquet] THEN "written" ELSE "writing")
          /\ UNCHANGED faults
     \/ /\ Becomes(Parquet, "written")
        /\ Fault
        /\ UNCHANGED <<rows, at>>
  /\ UNCHANGED <<topic, process, checkpoint, tries, skipped>>

\* _write_parquet_batch: the save renames the batch's files into place one after
\* the other and may die between two of them.
WriteParquet ==
  /\ state[Parquet] = "writing"
  /\ \/ \E next \in at[Parquet] + 1 .. planned[Parquet] :
          /\ rows' = Written(Parquet, at[Parquet] .. next - 1)
          /\ at' = [at EXCEPT ![Parquet] = next]
          /\ Becomes(Parquet, IF next = planned[Parquet] THEN "written" ELSE "writing")
          /\ UNCHANGED faults
     \/ /\ Becomes(Parquet, "failed")
        /\ Fault
        /\ UNCHANGED <<rows, at>>
  /\ UNCHANGED <<topic, process, checkpoint, tries, skipped>>

\* Mutant: every error of an insert is swallowed, not only a cancellation.
InsertChunkLenient ==
  LET next == Capped(at[ClickHouse] + Chunk, planned[ClickHouse])
      inserted == Written(ClickHouse, at[ClickHouse] .. next - 1)
  IN  /\ state[ClickHouse] = "writing"
      /\ \/ /\ rows' = inserted
            /\ at' = [at EXCEPT ![ClickHouse] = next]
            /\ Becomes(ClickHouse, IF next = planned[ClickHouse] THEN "written" ELSE "writing")
            /\ UNCHANGED faults
         \/ /\ rows' \in {rows, inserted}
            /\ Becomes(ClickHouse, "written")
            /\ Fault
            /\ UNCHANGED at
      /\ UNCHANGED <<topic, process, checkpoint, tries, skipped>>

\* Mutant: pending_rows is not emptied after an insert.
InsertGrowingChunk ==
  LET next == Capped(at[ClickHouse] + Chunk, planned[ClickHouse])
      inserted == Written(ClickHouse, committed[ClickHouse] .. next - 1)
  IN  /\ state[ClickHouse] = "writing"
      /\ rows' = inserted
      /\ at' = [at EXCEPT ![ClickHouse] = next]
      /\ Becomes(ClickHouse, IF next = planned[ClickHouse] THEN "written" ELSE "writing")
      /\ UNCHANGED <<topic, process, checkpoint, tries, skipped, faults>>

\* write_batch inserts the rows in chunks; an error that is no cancellation is
\* raised again, whether or not the server applied the insert.
InsertChunk ==
  LET next == Capped(at[ClickHouse] + Chunk, planned[ClickHouse])
      inserted == Written(ClickHouse, at[ClickHouse] .. next - 1)
  IN  /\ state[ClickHouse] = "writing"
      /\ \/ /\ rows' = inserted
            /\ at' = [at EXCEPT ![ClickHouse] = next]
            /\ Becomes(ClickHouse, IF next = planned[ClickHouse] THEN "written" ELSE "writing")
            /\ UNCHANGED faults
         \/ /\ rows' \in {rows, inserted}
            /\ Becomes(ClickHouse, "failed")
            /\ Fault
            /\ UNCHANGED at
      /\ UNCHANGED <<topic, process, checkpoint, tries, skipped>>

-----------------------------------------------------------------------------
(* The process *)

\* Mutant: the ClickHouse query is awaited first.
NoticeClickHouseFailure ==
  /\ process = "up" /\ state[ClickHouse] = "failed"
  /\ process' = "stopping"
  /\ UNCHANGED <<topic, state, checkpoint, at, rows, tries, skipped, faults>>

\* execute learns of a Parquet failure only: await_termination waits for that
\* query first.  It unwinds and stops the other query.
NoticeFailure ==
  /\ process = "up" /\ state[Parquet] = "failed"
  /\ process' = "stopping"
  /\ UNCHANGED <<topic, state, checkpoint, at, rows, tries, skipped, faults>>

\* SIGTERM: the handler stops both queries.
Signal ==
  /\ process = "up"
  /\ process' = "stopping"
  /\ Fault
  /\ UNCHANGED <<topic, state, checkpoint, at, rows, tries, skipped>>

\* query.stop() on a query that is between batches, or whose batch raises.
StopQuery(q) ==
  /\ process = "stopping"
  /\ state[q] \in {"idle", "writing", "written"}
  /\ Becomes(q, "off")
  /\ UNCHANGED <<topic, process, checkpoint, at, rows, tries, skipped, faults>>

\* query.stop() cancels the job group under write_batch, which swallows the
\* cancellation and returns: to Spark the batch is complete, and it may still
\* reach the commit log before the query ends.
CancelledBatchCommitted ==
  /\ process = "stopping"
  /\ state[ClickHouse] = "writing"
  /\ committed' = [committed EXCEPT ![ClickHouse] = planned[ClickHouse]]
  /\ skipped' = skipped \cup (at[ClickHouse] .. planned[ClickHouse] - 1)
  /\ Becomes(ClickHouse, "off")
  /\ UNCHANGED <<topic, process, base, planned, at, rows, tries, faults>>

\* Both queries are down: SparkJobError if Parquet failed, else a clean exit.
Exit ==
  /\ process = "stopping"
  /\ \A q \in Queries : state[q] \in {"off", "failed"}
  /\ process' = IF state[Parquet] = "failed" THEN "failed" ELSE "stopped"
  /\ state' = [q \in Queries |-> "off"]
  /\ UNCHANGED <<topic, checkpoint, at, rows, tries, skipped, faults>>

\* The container dies; what the checkpoints and the sinks hold survives.
Crash ==
  /\ process \in {"up", "stopping"}
  /\ process' = "failed"
  /\ state' = [q \in Queries |-> "off"]
  /\ Fault
  /\ UNCHANGED <<topic, checkpoint, at, rows, tries, skipped>>

\* docker (after a failure) or an operator starts the processor again.
StartUp(from) ==
  /\ process = from
  /\ process' = "up"
  /\ state' = [q \in Queries |-> "idle"]
  /\ UNCHANGED <<topic, checkpoint, at, rows, tries, skipped, faults>>

\* The poller publishes.
Publish ==
  /\ topic < MaxTopic
  /\ topic' = topic + 1
  /\ UNCHANGED <<process, state, checkpoint, at, rows, tries, skipped, faults>>

Init ==
  /\ topic = 0
  /\ process = "stopped"
  /\ state = [q \in Queries |-> "off"]
  /\ base = [q \in Queries |-> Unset]
  /\ planned = [q \in Queries |-> 0]
  /\ committed = [q \in Queries |-> 0]
  /\ at = [q \in Queries |-> 0]
  /\ rows = [q \in Queries |-> [o \in Offsets |-> 0]]
  /\ tries = [q \in Queries |-> [o \in Offsets |-> 0]]
  /\ skipped = {}
  /\ faults = 0

Engine(q) == ResolveStart(q) \/ PlanBatch(q) \/ BeginBatch(q) \/ CommitBatch(q)

Next ==
  \/ \E q \in Queries : Engine(q) \/ StopQuery(q)
  \/ WriteParquet \/ InsertChunk \/ CancelledBatchCommitted
  \/ NoticeFailure \/ Signal \/ Exit \/ Crash
  \/ StartUp("failed") \/ StartUp("stopped") \/ Publish

Spec == Init /\ [][Next]_vars

\* Spark triggers its batches, the sinks return, and docker restarts what
\* failed; nobody has to restart a processor that was told to stop.
Fairness ==
  /\ \A q \in Queries : WF_vars(Engine(q)) /\ WF_vars(StopQuery(q))
  /\ WF_vars(WriteParquet) /\ WF_vars(InsertChunk)
  /\ WF_vars(NoticeFailure) /\ WF_vars(Exit)
  /\ WF_vars(StartUp("failed"))

FairSpec == Spec /\ Fairness

-----------------------------------------------------------------------------
(* Properties *)

\* Every variable has its type, and a checkpoint never runs ahead of the topic.
TypeOK ==
  /\ topic \in 0 .. MaxTopic
  /\ process \in {"up", "stopping", "failed", "stopped"}
  /\ state \in [Queries -> {"off", "idle", "writing", "written", "failed"}]
  /\ base \in [Queries -> Nat \cup {Unset}]
  /\ planned \in [Queries -> Nat]
  /\ committed \in [Queries -> Nat]
  /\ at \in [Queries -> Nat]
  /\ \A q \in Queries : committed[q] <= planned[q] /\ planned[q] <= topic
  /\ rows \in [Queries -> [Offsets -> Nat]]
  /\ tries \in [Queries -> [Offsets -> Nat]]
  /\ skipped \subseteq Offsets
  /\ faults \in 0 .. MaxFaults

\* At least once: every message a checkpoint has passed is in its sink, through
\* any sequence of failures, crashes and replays; the one exception is the rest
\* of a ClickHouse batch whose cancellation was swallowed.
Passed(q) == {o \in Offsets : base[q] # Unset /\ base[q] <= o /\ o < committed[q]}
NothingLost ==
  /\ \A o \in Passed(Parquet) : rows[Parquet][o] > 0
  /\ \A o \in Passed(ClickHouse) : rows[ClickHouse][o] > 0 \/ o \in skipped

\* A row is stored again only because its batch was handed to the sink again:
\* nothing is written outside the batch that is running.
DuplicatesAreReplays ==
  \A q \in Queries, o \in Offsets : rows[q][o] <= tries[q][o]

\* Every message from the starting offset on is archived in Parquet, unless
\* the processor is told to stop.
ParquetArchivesAll ==
  \A o \in Offsets :
    (o < topic /\ base[Parquet] # Unset /\ base[Parquet] <= o)
      ~> (rows[Parquet][o] > 0 \/ process = "stopped")

\* The Parquet sink keeps the promise of Delivery, step by step.
ParquetDelivery ==
  INSTANCE Delivery WITH first <- base[Parquet], done <- committed[Parquet],
                         stored <- {o \in Offsets : rows[Parquet][o] > 0}
ParquetDelivers == ParquetDelivery!Spec

\* docs/submission/mermaid/architecture_overview.mmd:11: the stream is
\* deduplicated by event_id, so the table holds one row per event.
OneRowPerEvent ==
  \A o, p \in Offsets :
    (o # p /\ EventOf[o] = EventOf[p])
      => ~(rows[ClickHouse][o] > 0 /\ rows[ClickHouse][p] > 0)
=============================================================================
