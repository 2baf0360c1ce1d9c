--------------------------- MODULE StreamSupervisor ---------------------------
(***************************************************************************)
(* ProcessEventStreamUseCase supervising GithubStreamingJob.  The coroutine *)
(* hands start, await_termination and stop to an executor thread, one after *)
(* the other; the signal handler runs stop on the event loop's own thread,  *)
(* so its steps fall anywhere between those of the executor.  The two       *)
(* streaming queries and docker's restart policy are external.              *)
(***************************************************************************)
EXTENDS Naturals

CONSTANTS
  MaxSignals,   \* bound: SIGINT/SIGTERM deliveries per process
  MaxRestarts   \* bound: times docker restarts the processor

ASSUME SupervisorAssumption == MaxSignals \in Nat /\ MaxRestarts \in Nat

Parquet == "parquet"
ClickHouse == "clickhouse"
Queries == {Parquet, ClickHouse}

VARIABLES
  query,     \* Spark's own state of each StreamingQuery
  bound,     \* self._parquet_query / self._clickhouse_query is not None
  thread,    \* where the executor thread stands in start, await or stop
  raised,    \* what the coroutine is unwinding with
  handler,   \* where the signal handler stands in stop
  signals,   \* signals delivered to this process
  restarts   \* restarts so far

vars == <<query, bound, thread, raised, handler, signals, restarts>>

Status == {"none", "active", "stopped", "cancelled", "failed"}
Threads == {"start parquet", "bind parquet", "start clickhouse", "bind clickhouse",
            "started", "await parquet", "await clickhouse",
            "stop parquet", "stop clickhouse", "exited"}

Move(from, to) == thread = from /\ thread' = to

\* The coroutine goes on from one executor call to the next, which it cannot
\* while the handler holds the event loop.
Resume(from, to) == handler = "none" /\ Move(from, to)

\* A query that is told to stop ends normally, or its running batch is
\* cancelled and awaitTermination raises.
Halt(q) ==
  IF bound[q] /\ query[q] = "active"
    THEN \E s \in {"stopped", "cancelled"} : query' = [query EXCEPT ![q] = s]
    ELSE UNCHANGED query

-----------------------------------------------------------------------------
(* GithubStreamingJob.start *)

\* Mutant: the field is set although Spark refused the query.
StartQueryBound(q, here, next) ==
  /\ \/ /\ Move(here, next)
        /\ query' = [query EXCEPT ![q] = "active"]
        /\ UNCHANGED <<bound, raised>>
     \/ /\ Resume(here, "stop parquet")
        /\ raised' = "error"
        /\ bound' = [bound EXCEPT ![q] = TRUE]
        /\ UNCHANGED query
  /\ UNCHANGED <<handler, signals, restarts>>

\* Mutant: a refused start leaves execute without stopping the other query.
StartQueryUnguarded(q, here, next) ==
  /\ \/ /\ Move(here, next)
        /\ query' = [query EXCEPT ![q] = "active"]
        /\ UNCHANGED raised
     \/ /\ Resume(here, "exited")
        /\ raised' = "error"
        /\ UNCHANGED query
  /\ UNCHANGED <<bound, handler, signals, restarts>>

\* writeStream.start: the query runs before the field that names it is set,
\* or Spark refuses it and execute unwinds with SparkJobError.
StartQuery(q, here, next) ==
  /\ \/ /\ Move(here, next)
        /\ query' = [query EXCEPT ![q] = "active"]
        /\ UNCHANGED raised
     \/ /\ Resume(here, "stop parquet")
        /\ raised' = "error"
        /\ UNCHANGED query
  /\ UNCHANGED <<bound, handler, signals, restarts>>

BindQuery(q, here, next) ==
  /\ Move(here, next)
  /\ bound' = [bound EXCEPT ![q] = TRUE]
  /\ UNCHANGED <<query, raised, handler, signals, restarts>>

Start ==
  \/ StartQuery(Parquet, "start parquet", "bind parquet")
  \/ BindQuery(Parquet, "bind parquet", "start clickhouse")
  \/ StartQuery(ClickHouse, "start clickhouse", "bind clickhouse")
  \/ BindQuery(ClickHouse, "bind clickhouse", "started")

\* run_in_executor(self._job.await_termination).
BeginAwait ==
  /\ Resume("started", "await parquet")
  /\ UNCHANGED <<query, bound, raised, handler, signals, restarts>>

-----------------------------------------------------------------------------
(* GithubStreamingJob.await_termination and the except clause of execute *)

\* Mutant: every error of a query is taken for a cancellation.
AwaitQueryLenient(q, here, next) ==
  /\ \/ /\ query[q] = "stopped"
        /\ Move(here, next)
        /\ UNCHANGED raised
     \/ /\ query[q] \in {"cancelled", "failed"}
        /\ Resume(here, "stop parquet")
        /\ raised' = "cancelled"
  /\ UNCHANGED <<query, bound, handler, signals, restarts>>

\* awaitTermination returns when the query has stopped and raises what killed
\* it; a cancellation makes execute return, anything else SparkJobError.
AwaitQuery(q, here, next) ==
  /\ \/ /\ query[q] = "stopped"
        /\ Move(here, next)
        /\ UNCHANGED raised
     \/ /\ query[q] \in {"cancelled", "failed"}
        /\ Resume(here, "stop parquet")
        /\ raised' = IF query[q] = "failed" THEN "error" ELSE "cancelled"
  /\ UNCHANGED <<query, bound, handler, signals, restarts>>

\* Mutant: the queries are awaited in the other order.
AwaitSwapped ==
  \/ AwaitQuery(ClickHouse, "await parquet", "await clickhouse")
  \/ handler = "none" /\ AwaitQuery(Parquet, "await clickhouse", "stop parquet")

Await ==
  \/ AwaitQuery(Parquet, "await parquet", "await clickhouse")
  \/ handler = "none" /\ AwaitQuery(ClickHouse, "await clickhouse", "stop parquet")

-----------------------------------------------------------------------------
(* GithubStreamingJob.stop, from the finally clause and from the handler *)

StopQuery(q, here, next) ==
  /\ Move(here, next)
  /\ Halt(q)
  /\ UNCHANGED <<bound, raised, handler, signals, restarts>>

\* run_in_executor(self._job.stop).
Stop ==
  \/ StopQuery(Parquet, "stop parquet", "stop clickhouse")
  \/ handler = "none" /\ StopQuery(ClickHouse, "stop clickhouse", "exited")

\* A signal is delivered: _on_shutdown sets an event nobody waits for and
\* goes on to stop.
Signal ==
  /\ thread # "exited"
  /\ handler = "none"
  /\ signals < MaxSignals
  /\ signals' = signals + 1
  /\ handler' = Parquet
  /\ UNCHANGED <<query, bound, thread, raised, restarts>>

HandlerStops(q, next) ==
  /\ handler = q
  /\ handler' = next
  /\ Halt(q)
  /\ UNCHANGED <<bound, thread, raised, signals, restarts>>

\* Mutant: the handler stops one query only.
HandlerParquet == HandlerStops(Parquet, "none")

Handler == HandlerStops(Parquet, ClickHouse) \/ HandlerStops(ClickHouse, "none")

-----------------------------------------------------------------------------
(* Spark and docker (external) *)

\* A batch raises, or Kafka or the checkpoint becomes unusable.
QueryFails(q) ==
  /\ query[q] = "active"
  /\ query' = [query EXCEPT ![q] = "failed"]
  /\ UNCHANGED <<bound, thread, raised, handler, signals, restarts>>

\* restart: on-failure.
Restart ==
  /\ thread = "exited" /\ raised = "error"
  /\ restarts < MaxRestarts
  /\ restarts' = restarts + 1
  /\ query' = [q \in Queries |-> "none"]
  /\ bound' = [q \in Queries |-> FALSE]
  /\ thread' = "start parquet"
  /\ raised' = "nothing"
  /\ handler' = "none"
  /\ signals' = 0

Init ==
  /\ query = [q \in Queries |-> "none"]
  /\ bound = [q \in Queries |-> FALSE]
  /\ thread = "start parquet"
  /\ raised = "nothing"
  /\ handler = "none"
  /\ signals = 0
  /\ restarts = 0

Executor == Start \/ BeginAwait \/ Await \/ Stop

Next ==
  \/ Executor \/ Signal \/ Handler \/ Restart
  \/ \E q \in Queries : QueryFails(q)

Spec == Init /\ [][Next]_vars

\* Both threads run whenever they are not blocked.
Fairness == WF_vars(Executor) /\ WF_vars(Handler) /\ WF_vars(Restart)

FairSpec == Spec /\ Fairness

-----------------------------------------------------------------------------
(* Properties *)

Started == \A q \in Queries : bound[q]
Exited == thread = "exited"

\* Every variable has its type; a field is set only for a query Spark started.
TypeOK ==
  /\ query \in [Queries -> Status]
  /\ bound \in [Queries -> BOOLEAN]
  /\ \A q \in Queries : bound[q] => query[q] # "none"
  /\ thread \in Threads
  /\ raised \in {"nothing", "cancelled", "error"}
  /\ handler \in Queries \cup {"none"}
  /\ signals \in 0 .. MaxSignals
  /\ restarts \in 0 .. MaxRestarts

\* When execute has returned or raised, no streaming query is left running,
\* wherever start failed and whatever the handler did meanwhile.
NothingLeftRunning ==
  Exited => \A q \in Queries : query[q] # "active"

\* docker restarts the processor only on failure, so it must exit without
\* one only after it was told to stop.
CleanExitWasAsked ==
  (Exited /\ raised # "error") => signals > 0

\* A signal that finds both queries started ends the process.
ShutdownEndsJob ==
  (Started /\ handler = Parquet) ~> Exited

\* A failure of the Parquet query surfaces as SparkJobError.
ParquetFailureSurfaces ==
  (query[Parquet] = "failed" /\ thread \notin {"stop parquet", "stop clickhouse"})
    ~> (Exited /\ raised = "error")

\* execute's docstring (process_event_stream.py:58): SparkJobError if the job
\* encounters a fatal error.  A query that failed while nobody asked for a
\* shutdown must surface.
FailureSurfaces ==
  \A q \in Queries :
    (query[q] = "failed" /\ signals = 0) ~> (Exited \/ signals > 0)

\* The class docstring (process_event_stream.py:42): the event loop stays
\* unblocked to allow graceful shutdown on SIGINT/SIGTERM.
SignalEndsJob == (signals > 0) ~> Exited
=============================================================================
