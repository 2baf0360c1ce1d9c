------------------------ MODULE StreamSupervisorProofs ------------------------
(***************************************************************************)
(* What StreamSupervisor guarantees for every number of signals and         *)
(* restarts: when execute ends no query is left running, and it ends        *)
(* without an error only when it was told to stop.                          *)
(***************************************************************************)
EXTENDS StreamSupervisor, TLAPS

Stopping == {"stop parquet", "stop clickhouse", "exited"}

\* How far start has come, read off the thread: before a query is bound it may
\* run, but only while the thread stands between the two steps.
StartInv ==
  /\ thread = "start parquet" => query[Parquet] = "none"
  /\ thread \in {"start parquet", "bind parquet", "start clickhouse"}
       => query[ClickHouse] = "none"
  /\ thread = "bind parquet" => query[Parquet] # "none"
  /\ thread = "bind clickhouse" => query[ClickHouse] # "none"
  /\ thread \in {"start clickhouse", "bind clickhouse", "started", "await parquet",
                 "await clickhouse"} => bound[Parquet]
  /\ thread \in {"started", "await parquet", "await clickhouse"} => bound[ClickHouse]

\* How far stop has come: what it has passed is no longer active, and what is
\* still active is bound, so that stop will find it.
StopInv ==
  /\ thread \in Stopping => \A q \in Queries : query[q] = "active" => bound[q]
  /\ thread \in {"stop clickhouse", "exited"} => query[Parquet] # "active"
  /\ thread = "exited" => query[ClickHouse] # "active"

\* As long as no signal came, only the coroutine itself can stop a query, and
\* it does so only with an error in hand.
AskedInv ==
  signals = 0 =>
    /\ handler = "none"
    /\ thread \in Stopping => raised = "error"
    /\ thread \notin Stopping =>
         \A q \in Queries : query[q] \notin {"stopped", "cancelled"}

IInv == TypeOK /\ StartInv /\ StopInv /\ AskedInv

\* The initial state satisfies the invariant.
LEMMA InitInv == Init => IInv
<1>1. 0 \in 0 .. MaxSignals /\ 0 \in 0 .. MaxRestarts
  BY SupervisorAssumption
<1>2. QED
  BY <1>1
  DEF Init, IInv, TypeOK, StartInv, StopInv, AskedInv, Queries, Status, Threads,
      Stopping, Parquet, ClickHouse

\* Stopping one query leaves the other as it is and never makes one active.
LEMMA HaltEffect ==
  ASSUME TypeOK, NEW q \in Queries, Halt(q)
  PROVE  /\ query' \in [Queries -> Status]
         /\ \A p \in Queries : query'[p] = "active" => query[p] = "active" /\ (p = q => ~bound[q])
         /\ \A p \in Queries : (query[p] = "none") <=> (query'[p] = "none")
BY DEF Halt, TypeOK, Queries, Status, Parquet, ClickHouse

\* Every step of start preserves the invariant.
LEMMA StartStep ==
  ASSUME IInv, Start
  PROVE  IInv'
<1> USE DEF IInv, TypeOK, StartInv, StopInv, AskedInv, Queries, Status, Threads,
            Stopping, Parquet, ClickHouse, Move, Resume
<1>1. CASE StartQuery(Parquet, "start parquet", "bind parquet")
  BY <1>1 DEF StartQuery
<1>2. CASE BindQuery(Parquet, "bind parquet", "start clickhouse")
  BY <1>2 DEF BindQuery
<1>3. CASE StartQuery(ClickHouse, "start clickhouse", "bind clickhouse")
  BY <1>3 DEF StartQuery
<1>4. CASE BindQuery(ClickHouse, "bind clickhouse", "started")
  BY <1>4 DEF BindQuery
<1>5. QED
  BY <1>1, <1>2, <1>3, <1>4 DEF Start

\* Every step of await_termination preserves the invariant.
LEMMA AwaitStep ==
  ASSUME IInv, BeginAwait \/ Await
  PROVE  IInv'
<1> USE DEF IInv, TypeOK, StartInv, StopInv, AskedInv, Queries, Status, Threads,
            Stopping, Parquet, ClickHouse, Move, Resume
<1>1. CASE BeginAwait
  BY <1>1 DEF BeginAwait
<1>2. CASE AwaitQuery(Parquet, "await parquet", "await clickhouse")
  BY <1>2 DEF AwaitQuery
<1>3. CASE AwaitQuery(ClickHouse, "await clickhouse", "stop parquet")
  BY <1>3 DEF AwaitQuery
<1>4. QED
  BY <1>1, <1>2, <1>3 DEF Await

\* Every step of stop, on the executor thread or in the handler, preserves the
\* invariant.
LEMMA StopStep ==
  ASSUME IInv, Stop \/ Handler
  PROVE  IInv'
<1>1. CASE StopQuery(Parquet, "stop parquet", "stop clickhouse")
  <2>1. Halt(Parquet) /\ Parquet \in Queries
    BY <1>1 DEF StopQuery, Queries
  <2>2. QED
    BY <1>1, <2>1, HaltEffect
    DEF StopQuery, Move, IInv, TypeOK, StartInv, StopInv, AskedInv, Queries, Threads,
        Stopping, Parquet, ClickHouse
<1>2. CASE StopQuery(ClickHouse, "stop clickhouse", "exited")
  <2>1. Halt(ClickHouse) /\ ClickHouse \in Queries
    BY <1>2 DEF StopQuery, Queries
  <2>2. QED
    BY <1>2, <2>1, HaltEffect
    DEF StopQuery, Move, IInv, TypeOK, StartInv, StopInv, AskedInv, Queries, Threads,
        Stopping, Parquet, ClickHouse
<1>3. ASSUME NEW q \in Queries, NEW next \in Queries \cup {"none"}, HandlerStops(q, next)
      PROVE  IInv'
  <2>1. Halt(q)
    BY <1>3 DEF HandlerStops
  <2>2. signals # 0
    BY <1>3 DEF HandlerStops, IInv, AskedInv, Queries, Parquet, ClickHouse
  <2>3. QED
    BY <1>3, <2>1, <2>2, HaltEffect
    DEF HandlerStops, IInv, TypeOK, StartInv, StopInv, AskedInv, Queries, Threads,
        Stopping, Parquet, ClickHouse
<1>4. QED
  BY <1>1, <1>2, <1>3 DEF Stop, Handler, Queries

\* Signals, failures of a query and restarts preserve the invariant.
LEMMA OutsideStep ==
  ASSUME IInv, Signal \/ Restart \/ \E q \in Queries : QueryFails(q)
  PROVE  IInv'
<1> USE DEF IInv, TypeOK, StartInv, StopInv, AskedInv, Queries, Status, Threads,
            Stopping, Parquet, ClickHouse
<1>1. CASE Signal
  <2>1. signals' \in 0 .. MaxSignals /\ signals' # 0
    <3>1. signals \in 0 .. MaxSignals /\ signals < MaxSignals /\ signals' = signals + 1
      BY <1>1 DEF Signal
    <3>2. QED
      BY ONLY <3>1, SupervisorAssumption
  <2>2. QED
    BY <1>1, <2>1 DEF Signal
<1>2. CASE Restart
  <2>1. restarts' \in 0 .. MaxRestarts /\ 0 \in 0 .. MaxSignals
    <3>1. restarts \in 0 .. MaxRestarts /\ restarts < MaxRestarts /\ restarts' = restarts + 1
      BY <1>2 DEF Restart
    <3>2. QED
      BY ONLY <3>1, SupervisorAssumption
  <2>2. QED
    BY <1>2, <2>1 DEF Restart
<1>3. ASSUME NEW q \in Queries, QueryFails(q)
      PROVE  IInv'
  BY <1>3 DEF QueryFails
<1>4. QED
  BY <1>1, <1>2, <1>3

\* The invariant holds in every reachable state.
THEOREM Invariance == Spec => []IInv
<1>1. Init => IInv
  BY InitInv
<1>2. IInv /\ [Next]_vars => IInv'
  <2> SUFFICES ASSUME IInv, [Next]_vars PROVE IInv'
    OBVIOUS
  <2>1. CASE Next
    BY <2>1, StartStep, AwaitStep, StopStep, OutsideStep DEF Next, Executor
  <2>2. CASE UNCHANGED vars
    BY <2>2 DEF vars, IInv, TypeOK, StartInv, StopInv, AskedInv
  <2>3. QED
    BY <2>1, <2>2
<1>3. QED
  BY <1>1, <1>2, PTL DEF Spec

\* Every variable has its type, and a field of the job is set only for a query
\* that Spark has started.
THEOREM TypeCorrect == Spec => []TypeOK
BY Invariance, PTL DEF IInv

\* Once ProcessEventStreamUseCase.execute has returned or raised, neither
\* streaming query is active, wherever start failed and whatever the signal
\* handler did in between.
THEOREM NothingIsLeftRunning == Spec => []NothingLeftRunning
<1>1. IInv => NothingLeftRunning
  BY DEF IInv, StopInv, NothingLeftRunning, Exited, Queries
<1>2. QED
  BY <1>1, Invariance, PTL

\* The process ends without an error only after a signal was delivered to it, so
\* docker's on-failure policy never takes a failure for a shutdown.
THEOREM CleanExitIsAsked == Spec => []CleanExitWasAsked
<1>1. IInv => CleanExitWasAsked
  BY DEF IInv, TypeOK, AskedInv, CleanExitWasAsked, Exited, Stopping
<1>2. QED
  BY <1>1, Invariance, PTL
=============================================================================
