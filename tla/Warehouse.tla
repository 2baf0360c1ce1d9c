------------------------------ MODULE Warehouse ------------------------------
(***************************************************************************)
(* The event archive (Parquet files under event_date=/event_type=) and the *)
(* ClickHouse table github_data, with everything that rewrites them beside *)
(* the stream: CleanupParquetUseCase removes old partitions,               *)
(* 09_parquet_compact.sh merges the small files of one day,                *)
(* ClickHouseBackfillService loads the table from the archive, and         *)
(* ClickHouseEventRepository.save_batch inserts events.  The stream's two  *)
(* sinks (module StreamSinks) are external here: they add a file of the    *)
(* archive and a row of the table for every event, in either order.        *)
(*                                                                         *)
(* An event is a number.  A file lies in the directory <<date, type>> of   *)
(* its events or in the .compact_tmp below it; a part file has the number  *)
(* of its event, compacted files are numbered from 0.                      *)
(***************************************************************************)
EXTENDS Integers, Sequences, FiniteSets

CONSTANTS
  Events,     \* 1 .. n
  DateOf,     \* the day each event was created
  TypeOf,     \* its event type
  Late,       \* bound: the events that are not archived before the model starts
  MaxDay,     \* bound: the last day
  Retention,  \* days a partition is kept (90)
  MaxRows,    \* MAX_ROWS_PER_FILE of the compaction (50 000)
  BatchSize,  \* rows the backfill inserts at once (10 000)
  ChunkSize,  \* rows save_batch inserts at once (10 000)
  Saves,      \* bound: the batch somebody saves through the repository
  Ranges,     \* bound: the first and last day of a backfill
  MaxRuns,    \* bound: cleanups, compactions and backfills
  MaxFaults   \* bound: failures and kills

ASSUME WarehouseAssumption ==
  /\ IsFiniteSet(Events) /\ Events = 1 .. Cardinality(Events)
  /\ Late \subseteq Events
  /\ MaxDay \in Nat
  /\ DateOf \in [Events -> 0 .. MaxDay]
  /\ \A e, f \in Events : e < f => DateOf[e] <= DateOf[f]
  /\ TypeOf \in [Events -> Nat]
  /\ {Retention, MaxRuns, MaxFaults} \subseteq Nat
  /\ {MaxRows, BatchSize, ChunkSize} \subseteq Nat \ {0}
  /\ Saves \in Seq(Events)
  /\ Ranges \subseteq (0 .. MaxDay) \X (0 .. MaxDay)

Days == 0 .. MaxDay
Types == {TypeOf[e] : e \in Events}

\* Where a file may lie in its directory, in the order of the paths:
\* .compact_tmp/compacted-*, compacted-* and part-*.
Temp == 0
Compacted == 1
Part == 2

VARIABLES
  today,    \* the current day
  coming,   \* events the stream has yet to archive, and yet to insert
  files,    \* the files of the archive
  tmpDirs,  \* the directories that have a .compact_tmp
  table,    \* rows of github_data for each event
  clean,    \* the run of the cleanup: its cutoff, the partitions to do
  compact,  \* the run of the compaction
  fill,     \* the run of the backfill
  save,     \* the call of save_batch: the rows to insert, the attempts made
  runs,     \* cleanups, compactions and backfills so far
  faults    \* faults so far

archive == <<files, tmpDirs>>
vars == <<today, coming, archive, table, clean, compact, fill, save, runs, faults>>

File == [date : Days, type : Types, place : {Temp, Compacted, Part}, name : Nat,
         rows : Seq(Events)]

Fault == faults < MaxFaults /\ faults' = faults + 1
Run(job) ==
  /\ runs.clean + runs.compact + runs.fill < MaxRuns
  /\ runs' = [runs EXCEPT ![job] = @ + 1]

Main(date, type) == {f \in files : f.date = date /\ f.type = type /\ f.place # Temp}
Tmp(date, type) == {f \in files : f.date = date /\ f.type = type /\ f.place = Temp}
Day(date) == {f \in files : f.date = date}

\* The directories event_date=/event_type= that exist, and their partitions.
TypeDirs == {<<f.date, f.type>> : f \in files} \cup tmpDirs
Partitions == {d[1] : d \in TypeDirs}

SamePath(f, g) == f.date = g.date /\ f.type = g.type /\ f.place = g.place /\ f.name = g.name
At(f) == {g \in files : SamePath(f, g)}

Before(f, g) ==
  \/ f.date < g.date
  \/ f.date = g.date /\ f.type < g.type
  \/ f.date = g.date /\ f.type = g.type /\ f.place < g.place
  \/ f.date = g.date /\ f.type = g.type /\ f.place = g.place /\ f.name < g.name

\* The numbers in S, and the files in fs by their paths, sorted.
InOrder(S) ==
  {s \in [1 .. Cardinality(S) -> S] : \A i, j \in DOMAIN s : i < j => s[i] < s[j]}
InPathOrder(fs) ==
  {s \in [1 .. Cardinality(fs) -> fs] : \A i, j \in DOMAIN s : i < j => Before(s[i], s[j])}

\* How often the sequence of rows holds the event.
Copies(rows, e) == Cardinality({i \in DOMAIN rows : rows[i] = e})
Holds(f, e) == \E i \in DOMAIN f.rows : f.rows[i] = e
Archived == {e \in Events : \E f \in files : Holds(f, e)}
Inserted(rows) == [e \in Events |-> table[e] + Copies(rows, e)]

CleanIdle == [cutoff |-> 0, todo |-> <<>>]
CompactIdle == [pc |-> "idle", date |-> 0, types |-> <<>>, todo |-> <<>>, rows |-> <<>>, at |-> 0]
FillIdle == [pc |-> "idle", from |-> 0, to |-> 0, paths |-> <<>>, at |-> 0, batch |-> <<>>,
             put |-> [e \in Events |-> 0]]
SaveIdle == [rows |-> <<>>, tried |-> 0]

PartFile(e) == [date |-> DateOf[e], type |-> TypeOf[e], place |-> Part, name |-> e, rows |-> <<e>>]

\* ClickHouse starts empty beside an archive: what the backfill is there for.
Init ==
  /\ today = 0
  /\ coming = [archive |-> Late, table |-> Late]
  /\ files = {PartFile(e) : e \in Events \ Late}
  /\ tmpDirs = {}
  /\ table = [e \in Events |-> 0]
  /\ clean = CleanIdle
  /\ compact = CompactIdle
  /\ fill = FillIdle
  /\ save = [rows |-> Saves, tried |-> 0]
  /\ runs = [clean |-> 0, compact |-> 0, fill |-> 0]
  /\ faults = 0

-----------------------------------------------------------------------------
(* The stream and the calendar *)

NextDay ==
  /\ today < MaxDay
  /\ today' = today + 1
  /\ UNCHANGED <<coming, archive, table, clean, compact, fill, save, runs, faults>>

\* The Parquet sink moves a part file into place.
StreamToArchive(e) ==
  /\ e \in coming.archive /\ DateOf[e] <= today
  /\ coming' = [coming EXCEPT !.archive = @ \ {e}]
  /\ files' = files \cup {PartFile(e)}
  /\ UNCHANGED <<today, tmpDirs, table, clean, compact, fill, save, runs, faults>>

\* The ClickHouse sink inserts a row.
StreamToTable(e) ==
  /\ e \in coming.table /\ DateOf[e] <= today
  /\ coming' = [coming EXCEPT !.table = @ \ {e}]
  /\ table' = Inserted(<<e>>)
  /\ UNCHANGED <<today, archive, clean, compact, fill, save, runs, faults>>

-----------------------------------------------------------------------------
(* CleanupParquetUseCase.execute *)

\* The cutoff and the sorted list of partitions are computed once.
CleanupStart ==
  /\ clean = CleanIdle
  /\ Run("clean")
  /\ \E todo \in InOrder(Partitions) :
       clean' = IF todo = <<>> THEN CleanIdle
                ELSE [cutoff |-> today - Retention, todo |-> todo]
  /\ UNCHANGED <<today, coming, archive, table, compact, fill, save, faults>>

CleanupNext ==
  IF Len(clean.todo) = 1 THEN CleanIdle ELSE [clean EXCEPT !.todo = Tail(clean.todo)]

\* A partition inside the retention is skipped.
CleanupSkip ==
  /\ clean.todo # <<>> /\ Head(clean.todo) >= clean.cutoff
  /\ clean' = CleanupNext
  /\ UNCHANGED <<today, coming, archive, table, compact, fill, save, runs, faults>>

\* rmtree of an old one.  An OSError on the way leaves some of it and the loop
\* goes on; a file that disappears while the sizes are summed ends the run.
CleanupRemove ==
  LET date == Head(clean.todo)
      dirs == {d \in tmpDirs : d[1] = date}
  IN  /\ clean.todo # <<>> /\ date < clean.cutoff
      /\ \/ /\ files' = files \ Day(date)
            /\ tmpDirs' = tmpDirs \ dirs
            /\ clean' = CleanupNext
            /\ UNCHANGED faults
         \/ /\ Fault
            /\ \E gone \in SUBSET Day(date), goneDirs \in SUBSET dirs :
                 /\ \A f \in Day(date) \ gone : <<f.date, f.type>> \in goneDirs => f.place # Temp
                 /\ files' = files \ gone
                 /\ tmpDirs' = tmpDirs \ goneDirs
            /\ clean' = CleanupNext
         \/ Fault /\ clean' = CleanIdle /\ UNCHANGED archive
      /\ UNCHANGED <<today, coming, table, compact, fill, save, runs>>

-----------------------------------------------------------------------------
(* 09_parquet_compact.sh YYYY-MM-DD *)

\* Mutant: the next event type is listed although there is none.
CompactRestEager(types) ==
  [CompactIdle EXCEPT !.pc = "list", !.date = compact.date, !.types = types]

\* What the loop over the event types of the day does next.
CompactRest(types) ==
  IF types = <<>> THEN CompactIdle
  ELSE [CompactIdle EXCEPT !.pc = "list", !.date = compact.date, !.types = types]

CompactStart(date) ==
  /\ compact.pc = "idle" /\ date \in Partitions
  /\ Run("compact")
  /\ \E types \in InOrder({d[2] : d \in {dir \in TypeDirs : dir[1] = date}}) :
       compact' = [CompactIdle EXCEPT !.pc = "list", !.date = date, !.types = types]
  /\ UNCHANGED <<today, coming, archive, table, clean, fill, save, faults>>

Dir == <<compact.date, Head(compact.types)>>

\* The files of one event type are listed; one file is left as it is, together
\* with whatever an earlier run left in .compact_tmp.
CompactList ==
  /\ compact.pc = "list"
  /\ \E olds \in InPathOrder(Main(Dir[1], Dir[2])) :
       compact' = IF Len(olds) <= 1 THEN CompactRest(Tail(compact.types))
                  ELSE [compact EXCEPT !.pc = "read", !.todo = olds]
  /\ UNCHANGED <<today, coming, archive, table, clean, fill, save, runs, faults>>

\* The file a loop over the listed ones has come to.
Current == compact.todo[compact.at + 1]

\* The loop goes on, or its last file was this one and phase is next.
CompactLoop(phase) ==
  IF compact.at + 1 < Len(compact.todo) THEN [compact EXCEPT !.at = compact.at + 1]
  ELSE [compact EXCEPT !.at = 0, !.pc = phase]

\* pq.read_table of one listed file; one that is gone ends the run.
CompactRead ==
  /\ compact.pc = "read"
  /\ \/ At(Current) = {} /\ compact' = CompactIdle
     \/ \E f \in At(Current) :
          compact' = [CompactLoop("clear") EXCEPT !.rows = compact.rows \o f.rows]
  /\ UNCHANGED <<today, coming, archive, table, clean, fill, save, runs, faults>>

\* .compact_tmp is removed if it is there, with all it holds, and created.
CompactClear ==
  /\ compact.pc = "clear"
  /\ files' = files \ Tmp(Dir[1], Dir[2])
  /\ tmpDirs' = tmpDirs \cup {Dir}
  /\ compact' = [compact EXCEPT !.pc = "write"]
  /\ UNCHANGED <<today, coming, table, clean, fill, save, runs, faults>>

CompactedFile(rows) ==
  [date |-> Dir[1], type |-> Dir[2], place |-> Temp, name |-> compact.at, rows |-> rows]

\* combined.slice(offset, max_rows_per_file) is written; without the directory
\* that fails.
CompactWrite ==
  LET offset == compact.at * MaxRows
      end == IF offset + MaxRows < Len(compact.rows) THEN offset + MaxRows ELSE Len(compact.rows)
  IN  /\ compact.pc = "write"
      /\ \/ Dir \notin tmpDirs /\ compact' = CompactIdle /\ UNCHANGED files
         \/ /\ Dir \in tmpDirs
            /\ files' = files \cup {CompactedFile(SubSeq(compact.rows, offset + 1, end))}
            /\ compact' = IF end < Len(compact.rows) THEN [compact EXCEPT !.at = compact.at + 1]
                          ELSE [compact EXCEPT !.at = 0, !.pc = "unlink"]
      /\ UNCHANGED <<today, coming, tmpDirs, table, clean, fill, save, runs, faults>>

\* One of the listed files is unlinked; one that is gone ends the run.
CompactUnlink ==
  /\ compact.pc = "unlink"
  /\ files' = files \ At(Current)
  /\ compact' = IF At(Current) = {} THEN CompactIdle ELSE CompactLoop("collect")
  /\ UNCHANGED <<today, coming, tmpDirs, table, clean, fill, save, runs, faults>>

\* The compacted files are listed.
CompactCollect ==
  /\ compact.pc = "collect"
  /\ \E new \in InPathOrder(Tmp(Dir[1], Dir[2])) :
       compact' = [compact EXCEPT !.pc = IF new = <<>> THEN "rmdir" ELSE "move", !.todo = new]
  /\ UNCHANGED <<today, coming, archive, table, clean, fill, save, runs, faults>>

Moved(f) == [f EXCEPT !.place = Compacted]

\* Mutant: the temporary directory is removed with its first file moved.
CompactMoveEarly ==
  /\ compact.pc = "move"
  /\ \E f \in At(Current) :
       /\ files' = (files \ (Tmp(Dir[1], Dir[2]) \cup At(Moved(f)))) \cup {Moved(f)}
       /\ tmpDirs' = tmpDirs \ {Dir}
       /\ compact' = CompactRest(Tail(compact.types))
  /\ UNCHANGED <<today, coming, table, clean, fill, save, runs, faults>>

\* A compacted file replaces what has its name; one that is gone ends the run.
CompactMove ==
  /\ compact.pc = "move"
  /\ \/ At(Current) = {} /\ compact' = CompactIdle /\ UNCHANGED files
     \/ \E f \in At(Current) :
          /\ files' = (files \ (At(Current) \cup At(Moved(f)))) \cup {Moved(f)}
          /\ compact' = CompactLoop("rmdir")
  /\ UNCHANGED <<today, coming, tmpDirs, table, clean, fill, save, runs, faults>>

\* The .compact_tmp is removed, which fails if it is gone or not empty.
CompactRmdir ==
  LET removable == Dir \in tmpDirs /\ Tmp(Dir[1], Dir[2]) = {}
  IN  /\ compact.pc = "rmdir"
      /\ tmpDirs' = IF removable THEN tmpDirs \ {Dir} ELSE tmpDirs
      /\ compact' = IF removable THEN CompactRest(Tail(compact.types)) ELSE CompactIdle
      /\ UNCHANGED <<today, coming, files, table, clean, fill, save, runs, faults>>

\* The script is killed.
CompactKill ==
  /\ compact.pc # "idle"
  /\ Fault
  /\ compact' = CompactIdle
  /\ UNCHANGED <<today, coming, archive, table, clean, fill, save, runs>>

-----------------------------------------------------------------------------
(* ClickHouseBackfillService.backfill *)

CurrentRowCount == \E e \in Events : table[e] > 0

\* Mutant: force inserts into whatever the table holds.
BackfillStartKeeping(from, to, force) ==
  /\ fill.pc = "idle" /\ Partitions # {} /\ from <= to
  /\ CurrentRowCount => force
  /\ Run("fill")
  /\ fill' = [FillIdle EXCEPT !.pc = "list", !.from = from, !.to = to]
  /\ UNCHANGED <<today, coming, archive, table, clean, compact, save, faults>>

\* Up to the row count: a range that is none, an archive without partitions and
\* rows without force are errors that change nothing.
BackfillStart(from, to, force) ==
  /\ fill.pc = "idle" /\ Partitions # {} /\ from <= to
  /\ CurrentRowCount => force
  /\ Run("fill")
  /\ fill' = [FillIdle EXCEPT !.pc = IF CurrentRowCount THEN "truncate" ELSE "list",
                              !.from = from, !.to = to]
  /\ UNCHANGED <<today, coming, archive, table, clean, compact, save, faults>>

\* _truncate_existing_rows: all days, not only the range.
TruncateExistingRows ==
  /\ fill.pc = "truncate"
  /\ table' = [e \in Events |-> 0]
  /\ fill' = [fill EXCEPT !.pc = "list"]
  /\ UNCHANGED <<today, coming, archive, clean, compact, save, runs, faults>>

\* _partition_files: rglob also finds what lies in .compact_tmp.
PartitionFiles == InPathOrder({f \in files : fill.from <= f.date /\ f.date <= fill.to})

\* The paths are collected.  History: what is in them now.
BackfillList ==
  /\ fill.pc = "list"
  /\ \E paths \in PartitionFiles :
       fill' = IF paths = <<>> THEN FillIdle
               ELSE [fill EXCEPT !.pc = "open", !.paths = paths]
  /\ UNCHANGED <<today, coming, archive, table, clean, compact, save, runs, faults>>

\* The path the loop has come to.
NextPath == fill.paths[fill.at + 1]

\* Mutant: a file that is gone is passed over.
OpenParquetFileIfThere ==
  /\ fill.pc = "open"
  /\ \/ \E f \in At(NextPath) :
          fill' = [fill EXCEPT !.pc = "insert", !.batch = f.rows, !.at = fill.at + 1]
     \/ /\ At(NextPath) = {}
        /\ fill' = IF fill.at + 1 = Len(fill.paths) THEN [fill EXCEPT !.pc = "done"]
                   ELSE [fill EXCEPT !.at = fill.at + 1]
  /\ UNCHANGED <<today, coming, archive, table, clean, compact, save, runs, faults>>

\* pq.ParquetFile: what is at the path now is read; a path that is gone is an
\* OSError, which ends the run.
OpenParquetFile ==
  /\ fill.pc = "open"
  /\ \/ At(NextPath) = {} /\ fill' = FillIdle
     \/ \E f \in At(NextPath) :
          fill' = [fill EXCEPT !.pc = "insert", !.batch = f.rows, !.at = fill.at + 1]
  /\ UNCHANGED <<today, coming, archive, table, clean, compact, save, runs, faults>>

\* The first n of the rows, and those after them.
First(rows, n) == SubSeq(rows, 1, IF Len(rows) < n THEN Len(rows) ELSE n)
Others(rows, n) == SubSeq(rows, (IF Len(rows) < n THEN Len(rows) ELSE n) + 1, Len(rows))

\* One batch of the open file is inserted; an error, after which the rows may be
\* in the table, ends the run.  History: what the run has inserted.
InsertBatch ==
  LET rows == First(fill.batch, BatchSize)
      rest == Others(fill.batch, BatchSize)
  IN  /\ fill.pc = "insert"
      /\ \/ /\ table' = Inserted(rows)
            /\ fill' = [fill EXCEPT
                 !.batch = rest,
                 !.put = [e \in Events |-> fill.put[e] + Copies(rows, e)],
                 !.pc = IF rest # <<>> THEN "insert"
                        ELSE IF fill.at < Len(fill.paths) THEN "open" ELSE "done"]
            /\ UNCHANGED faults
         \/ Fault /\ fill' = FillIdle /\ table' \in {table, Inserted(rows)}
      /\ UNCHANGED <<today, coming, archive, clean, compact, save, runs>>

\* The result is returned.
BackfillResult ==
  /\ fill.pc = "done"
  /\ fill' = FillIdle
  /\ UNCHANGED <<today, coming, archive, table, clean, compact, save, runs, faults>>

-----------------------------------------------------------------------------
(* ClickHouseEventRepository.save_batch *)

SaveChunk == First(save.rows, ChunkSize)

\* _execute_bulk_insert: a network error, after which the rows may be in the
\* table, is tried again until the third attempt; other errors are raised.
ExecuteBulkInsert ==
  /\ save.rows # <<>>
  /\ \/ /\ table' = Inserted(SaveChunk)
        /\ save' = [rows |-> Others(save.rows, ChunkSize), tried |-> 0]
        /\ UNCHANGED faults
     \/ /\ Fault
        /\ table' \in {table, Inserted(SaveChunk)}
        /\ save' = IF save.tried = 2 THEN SaveIdle ELSE [save EXCEPT !.tried = save.tried + 1]
     \/ Fault /\ save' = SaveIdle /\ UNCHANGED table
  /\ UNCHANGED <<today, coming, archive, clean, compact, fill, runs>>

-----------------------------------------------------------------------------
(* GET /events/latest *)

\* The rows, numbered from 1, of events that have copies[e] each.
Numbered(es, copies) == UNION {{e} \X (1 .. copies[e]) : e \in es}

\* The rows of the events found, the newest first and no more than the limit.
NewestFirst(found, limit) ==
  LET newer(e) == Cardinality(Numbered({f \in found : f > e}, table))
      n == Cardinality(Numbered(found, table))
  IN  [i \in 1 .. (IF n < limit THEN n ELSE limit) |->
         CHOOSE e \in found : newer(e) < i /\ i <= newer(e) + table[e]]

\* Mutant: the end of the range is not part of it.
FindByDateRangeExclusive(start, end, limit) ==
  NewestFirst({e \in Events : start <= DateOf[e] /\ DateOf[e] < end}, limit)

\* find_by_date_range: the rows of the days, the newest first; the limit counts
\* rows, not events.  A higher number was created later.
FindByDateRange(start, end, limit) ==
  NewestFirst({e \in Events : start <= DateOf[e] /\ DateOf[e] <= end}, limit)

\* get_latest_events: the limit is applied before the event type is looked at.
GetLatestEvents(limit, types) ==
  LET rows == FindByDateRange(today, today, limit)
  IN  {rows[i] : i \in DOMAIN rows} \cap {e \in Events : TypeOf[e] \in types}

-----------------------------------------------------------------------------

Next ==
  \/ NextDay
  \/ \E e \in Events : StreamToArchive(e) \/ StreamToTable(e)
  \/ CleanupStart \/ CleanupSkip \/ CleanupRemove
  \/ \E date \in Days : CompactStart(date)
  \/ CompactList \/ CompactRead \/ CompactClear \/ CompactWrite \/ CompactUnlink
  \/ CompactCollect \/ CompactMove \/ CompactRmdir \/ CompactKill
  \/ \E range \in Ranges, force \in BOOLEAN : BackfillStart(range[1], range[2], force)
  \/ TruncateExistingRows \/ BackfillList \/ OpenParquetFile \/ InsertBatch
  \/ BackfillResult
  \/ ExecuteBulkInsert

Spec == Init /\ [][Next]_vars

-----------------------------------------------------------------------------
(* Properties *)

\* Every variable has its type, a path has one file, and a file lies where its
\* events belong.
TypeOK ==
  /\ today \in Days
  /\ coming \in [archive : SUBSET Late, table : SUBSET Late]
  /\ files \subseteq File
  /\ \A f, g \in files : SamePath(f, g) => f = g
  /\ \A f \in files, e \in Events : Holds(f, e) => f.date = DateOf[e] /\ f.type = TypeOf[e]
  /\ tmpDirs \subseteq Days \X Types
  /\ \A f \in files : f.place = Temp => <<f.date, f.type>> \in tmpDirs
  /\ table \in [Events -> Nat]
  /\ clean \in [cutoff : Int, todo : Seq(Days)]
  /\ compact \in [pc : {"idle", "list", "read", "clear", "write", "unlink", "collect", "move",
                        "rmdir"},
                  date : Days, types : Seq(Types), todo : Seq(File), rows : Seq(Events), at : Nat]
  /\ compact.pc # "idle" => compact.types # <<>>
  /\ compact.pc \in {"read", "unlink", "move"} => compact.at < Len(compact.todo)
  /\ fill \in [pc : {"idle", "truncate", "list", "open", "insert", "done"}, from : Days, to : Days,
               paths : Seq(File), at : Nat, batch : Seq(Events), put : [Events -> Nat]]
  /\ fill.pc = "open" => fill.at < Len(fill.paths)
  /\ save \in [rows : Seq(Events), tried : 0 .. 2]
  /\ runs \in [clean : Nat, compact : Nat, fill : Nat]
  /\ faults \in 0 .. MaxFaults

\* An archived event leaves the archive only with its partition, when that is
\* past the retention, or with the .compact_tmp a killed compaction left behind:
\* no interleaving of the sink, the cleanup and the compaction, killed anywhere,
\* loses one in any other way.
ArchiveKeeps ==
  [][ \A e \in Archived \ Archived' :
        \/ DateOf[e] < today - Retention
        \/ /\ compact.pc = "clear" /\ faults > 0
           /\ \E f \in Tmp(Dir[1], Dir[2]) : Holds(f, e) ]_vars

\* How often the listed files held the event.
Seen(e) ==
  LET rows(i) == fill.paths[i].rows
  IN  Cardinality(UNION {{i} \X {j \in DOMAIN rows(i) : rows(i)[j] = e} : i \in DOMAIN fill.paths})

\* A backfill that reports success has inserted every event that its files held
\* as they were listed, but for partitions past the retention and .compact_tmp of
\* killed compactions, also when the compaction replaced files under it.
BackfillComplete ==
  fill.pc = "done" /\ faults = 0 =>
    \A e \in Events : Seen(e) > 0 /\ DateOf[e] >= today - Retention => fill.put[e] > 0

\* And exactly as often as they held it, so long as no second compaction has
\* written the paths of the first.
BackfillExact ==
  fill.pc = "done" /\ runs.compact <= 1 => \A e \in Events : fill.put[e] = Seen(e)

BackfillFaithful == BackfillComplete /\ BackfillExact

\* The rows an event may have: one of the stream, three of each save_batch, and
\* those of the last backfill, which may meet it again for each compaction that
\* left or overwrote a .compact_tmp.
MaxCopies(e) ==
  (IF e \in Late \ coming.table THEN 1 ELSE 0) + 3 * Copies(Saves, e) + 1 + runs.compact

\* Failures, retries and repeated backfills do not multiply an event in the
\* table.
CopiesBounded == \A e \in Events : table[e] <= MaxCopies(e)

\* An event of today that is in the table is served by /events/latest, for its
\* type or for all, unless the rows the events created since then may have fill
\* the limit: copies push out no more than that.
LatestServed ==
  \A e \in Events, types \in {{TypeOf[f]} : f \in Events} \cup {Types} :
    table[e] > 0 /\ DateOf[e] = today /\ TypeOf[e] \in types =>
      LET newer == {f \in Events : f > e /\ DateOf[f] = today}
          limit == 1 + Cardinality(Numbered(newer, [f \in Events |-> MaxCopies(f)]))
      IN  e \in GetLatestEvents(limit, types)
=============================================================================
