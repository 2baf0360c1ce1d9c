---------------------------- MODULE RepoMetadata ----------------------------
(***************************************************************************)
(* The repository tables of ClickHouse and the two programs that fill      *)
(* them: SyncRepoMetadataUseCase (src/application/use_cases/               *)
(* sync_repo_metadata.py), which loads the catalog's JSON files, and       *)
(* scripts/enrich_repos_from_events.py, which looks up repositories the    *)
(* event stream shows and the catalog does not have.  Both write the       *)
(* latest row of a repository (repo_metadata) and a snapshot of it         *)
(* (repo_metadata_history) in two inserts, run whenever somebody starts    *)
(* them, and may overlap.  The dashboard derives the growth of the current *)
(* week from the snapshots.                                                *)
(*                                                                         *)
(* Time is counted in ticks; WeekLength of them are a week.  A request     *)
(* answered in a tick sees everything stamped in it.  Stars are only       *)
(* gained, and every star gained is one WatchEvent row of github_data.     *)
(***************************************************************************)
EXTENDS Integers, Sequences, FiniteSets

CONSTANTS
  Repos,       \* the repositories, in the order of their file names
  Growing,     \* bound: the repositories that gain stars and whose files change in
               \* every tick; the others have MaxStars, and files of the first tick
  Late,        \* bound: those whose file a discovery writes ticks after the fetch
  MaxStars,    \* bound: stars a repository may reach
  MaxTime,     \* bound: ticks
  WeekLength,  \* ticks of a week
  Lookback,    \* ticks the growth queries look back (30 days)
  Threshold,   \* the star count whose crossing is reported (10 000)
  SyncBatch,   \* _UPSERT_BATCH_SIZE (100)
  TopLimit,    \* --limit of the enrichment
  FetchBatch,  \* repositories the enrichment looks up at once (10)
  MaxRuns,     \* bound: enrichment runs
  MaxFaults    \* bound: inserts that fail, runs that are killed

ASSUME MetadataAssumption ==
  /\ Repos \subseteq Nat
  /\ IsFiniteSet(Repos)
  /\ Growing \subseteq Repos
  /\ Late \subseteq Repos
  /\ {MaxStars, MaxTime, Lookback, Threshold, TopLimit, MaxRuns, MaxFaults}
       \subseteq Nat
  /\ {WeekLength, SyncBatch, FetchBatch} \subseteq Nat \ {0}

None == [at |-> -1]
Torn == [at |-> -2]

VARIABLES
  now,         \* the current tick
  past,        \* past[r][t + 1]: the stars GitHub showed for r in tick t
  file,        \* the JSON file of each repository in repo_metadata_path
  latest,      \* repo_metadata FINAL: the newest row of each repository
  history,     \* repo_metadata_history
  schema,      \* how that table was created: "none", "keyed" or "keyless"
  starCounts,  \* repo_star_counts, summed over the days
  sync,        \* the run of SyncRepoMetadataUseCase
  enrich,      \* the run of enrich_repos_from_events.py
  runs,        \* enrichment runs so far
  faults       \* faults so far

tables == <<latest, history, schema, starCounts>>
world == <<now, past, file>>
vars == <<world, tables, sync, enrich, runs, faults>>

Ticks == 0 .. MaxTime
Stars == 0 .. MaxStars
RepoRow == [repo : Repos, stars : Stars, at : Ticks]

Shown(r, t) == past[r][t + 1]
Watched(r) == Shown(r, now) - Shown(r, 0)

Fault == faults < MaxFaults /\ faults' = faults + 1

-----------------------------------------------------------------------------
(* The tables *)

\* _repo_to_row, and the row of the enrichment: refreshed_at is the version.
RepoToRow(r, stars, at) == [repo |-> r, stars |-> stars, at |-> at]

\* _repo_to_history_row: the same columns, snapshot_at is refreshed_at.
RepoToHistoryRow(row, source) ==
  [repo |-> row.repo, stars |-> row.stars, at |-> row.at, source |-> source]

\* ReplacingMergeTree(refreshed_at) read with FINAL: the row with the highest
\* version, of equal ones the one inserted last.  An insert has one row at most
\* of a repository.
Replace(table, rows) ==
  [r \in Repos |->
     LET new == {row \in rows : row.repo = r /\ row.at >= table[r].at}
     IN  IF new = {} THEN table[r] ELSE CHOOSE row \in new : TRUE]

\* _execute_bulk_insert: up to three attempts on a broken connection, any of
\* which the server may have carried out; other errors are raised at once.
\* Rows inserted twice have the same sorting key and version: one row.
BulkInsert(before, after, outcome) ==
  \/ outcome = [ok |-> TRUE, table |-> after] /\ UNCHANGED faults
  \/ /\ Fault
     /\ \E table \in {before, after} : outcome = [ok |-> FALSE, table |-> table]

\* CREATE TABLE IF NOT EXISTS with the repository's columns.
EnsureHistoryTable == IF schema = "none" THEN "keyed" ELSE schema

\* The script's statement for the same table has no snapshot_key.
EnsureHistoryTableOfScript == IF schema = "none" THEN "keyless" ELSE schema

-----------------------------------------------------------------------------
(* The world *)

Init ==
  /\ now = 0
  /\ past \in [Repos -> {<<s>> : s \in Stars}]
  /\ \A r \in Repos \ Growing : past[r] = <<MaxStars>>
  /\ file = [r \in Repos |-> None]
  /\ latest = [r \in Repos |-> None]
  /\ history = {}
  /\ schema \in {"none", "keyed"}
  /\ starCounts = [r \in Repos |-> 0]
  /\ sync = [pc |-> "idle", rows |-> <<>>]
  /\ enrich = [pc |-> "idle", todo |-> <<>>, got |-> <<>>]
  /\ runs = 0
  /\ faults = 0

\* A tick passes and repositories gain stars.
Tick ==
  /\ now < MaxTime
  /\ now' = now + 1
  /\ \E shown \in [Repos -> Stars] :
       /\ \A r \in Repos : shown[r] >= Shown(r, now)
       /\ \A r \in Repos \ Growing : shown[r] = Shown(r, now)
       /\ past' = [r \in Repos |-> Append(past[r], shown[r])]
  /\ UNCHANGED <<file, tables, sync, enrich, runs, faults>>

\* map_repo_response: fetched_at and refreshed_at are the moment the answer of
\* GET /repos was mapped.
MapRepoResponse(r) == RepoToRow(r, Shown(r, now), now)

\* 07_repo_metadata_refresh.sh: the file of a repository is replaced by what
\* fetch_repo got, by a rename; an unreadable file is skipped, and any answer but
\* 200 raises and leaves the file alone.
RefreshRepo(r) ==
  /\ r \in Growing \/ now = 0
  /\ file[r] \notin {None, Torn}
  /\ file' = [file EXCEPT ![r] = MapRepoResponse(r)]
  /\ UNCHANGED <<now, past, tables, sync, enrich, runs, faults>>

\* The catalog discovery writes what it fetched some time ago, over whatever
\* there is by now.
DiscoverRepo(r) ==
  /\ r \in Growing \/ now = 0
  /\ \E t \in IF r \in Late THEN 0 .. now ELSE {now} :
       file' = [file EXCEPT ![r] = RepoToRow(r, Shown(r, t), t)]
  /\ UNCHANGED <<now, past, tables, sync, enrich, runs, faults>>

\* The catalog discovery is killed while it writes the file.
TearFile(r) ==
  /\ Fault
  /\ file' = [file EXCEPT ![r] = Torn]
  /\ UNCHANGED <<now, past, tables, sync, enrich, runs>>

-----------------------------------------------------------------------------
(* SyncRepoMetadataUseCase.execute *)

\* _parse_json_file: a file that is not a JSON object is left out.
Parsable == {r \in Repos : file[r] \notin {None, Torn}}

\* _map_raw_to_domain: the versions of a file are those it was written with.
MapRawToDomain(r) == RepoToRow(r, file[r].stars, file[r].at)

\* The names in S, sorted.
InOrder(S) ==
  {names \in [1 .. Cardinality(S) -> S] :
     \A i, j \in DOMAIN names : i < j => names[i] < names[j]}

\* Mutant: a file whose row is in the table already is left out.
JsonFilesIncremental == InOrder({r \in Parsable : latest[r].at < file[r].at})

\* Every JSON file, sorted by name.
JsonFiles == InOrder(Parsable)

SyncIdle == [pc |-> "idle", rows |-> <<>>]

\* All files are read and mapped.  History: the files on disk as it starts.
SyncStart ==
  /\ sync.pc = "idle"
  /\ \E names \in JsonFiles :
       /\ names # <<>>
       /\ sync' = [pc |-> "upsert", done |-> 0,
                   rows |-> [i \in DOMAIN names |-> MapRawToDomain(names[i])],
                   disk |-> {MapRawToDomain(r) : r \in Parsable}]
  /\ UNCHANGED <<world, tables, enrich, runs, faults>>

\* repos[i : i + _UPSERT_BATCH_SIZE]
BatchEnd == IF sync.done + SyncBatch < Len(sync.rows) THEN sync.done + SyncBatch
            ELSE Len(sync.rows)
Batch == {sync.rows[i] : i \in sync.done + 1 .. BatchEnd}

\* Mutant: a batch that could not be upserted is logged and its history is
\* appended all the same.
UpsertBatchLenient ==
  /\ sync.pc = "upsert"
  /\ \E outcome \in [ok : BOOLEAN, table : {latest, Replace(latest, Batch)}] :
       /\ BulkInsert(latest, Replace(latest, Batch), outcome)
       /\ latest' = outcome.table
       /\ sync' = [sync EXCEPT !.pc = "append"]
  /\ UNCHANGED <<world, history, schema, starCounts, enrich, runs>>

\* upsert_batch; a failure is raised as RepoMetadataSyncError.
UpsertBatch ==
  /\ sync.pc = "upsert"
  /\ \E outcome \in [ok : BOOLEAN, table : {latest, Replace(latest, Batch)}] :
       /\ BulkInsert(latest, Replace(latest, Batch), outcome)
       /\ latest' = outcome.table
       /\ sync' = IF outcome.ok THEN [sync EXCEPT !.pc = "append"] ELSE SyncIdle
  /\ UNCHANGED <<world, history, schema, starCounts, enrich, runs>>

\* append_history_batch: the table is created if it is missing; one created
\* without snapshot_key refuses the insert.
AppendHistoryBatch ==
  LET after == history \cup {RepoToHistoryRow(row, "sync") : row \in Batch}
  IN  /\ sync.pc = "append"
      /\ schema' = EnsureHistoryTable
      /\ IF schema' = "keyless"
         THEN sync' = SyncIdle /\ UNCHANGED <<history, faults>>
         ELSE \E outcome \in [ok : BOOLEAN, table : {history, after}] :
                /\ BulkInsert(history, after, outcome)
                /\ history' = outcome.table
                /\ sync' = IF outcome.ok /\ BatchEnd < Len(sync.rows)
                           THEN [sync EXCEPT !.pc = "upsert", !.done = BatchEnd]
                           ELSE SyncIdle
      /\ UNCHANGED <<world, latest, starCounts, enrich, runs>>

-----------------------------------------------------------------------------
(* enrich_repos_from_events.py *)

Active == {r \in Repos : Watched(r) > 0}

\* get_top_repos: the most active first, cut at the limit.
TopRepos ==
  LET n == IF Cardinality(Active) < TopLimit THEN Cardinality(Active) ELSE TopLimit
  IN  {s \in [1 .. n -> Active] :
         /\ \A i, j \in 1 .. n : i < j => s[i] # s[j] /\ Watched(s[i]) >= Watched(s[j])
         /\ \A r \in Active, i \in 1 .. n :
              Watched(r) > Watched(s[i]) => \E j \in 1 .. n : s[j] = r}

\* The elements of the sequence s that are in S, in their order.
Selected(s, S) ==
  LET kept == {s[i] : i \in DOMAIN s} \cap S
  IN  {t \in [1 .. Cardinality(kept) -> kept] :
         \A i, j \in DOMAIN t : i < j =>
           \E k, l \in DOMAIN s : k < l /\ s[k] = t[i] /\ s[l] = t[j]}

\* get_known_repos
KnownRepos == {r \in Repos : latest[r] # None}

\* Mutant: the next row is upserted although nobody answered.
StageEager(todo, got) == IF todo = <<>> /\ got = <<>> THEN "idle" ELSE "upsert"

\* What the loop of main does next: the rows of the batch, then the next batch.
Stage(todo, got) ==
  IF got # <<>> THEN "upsert" ELSE IF todo # <<>> THEN "fetch" ELSE "idle"

Enrichment(todo, got) == [pc |-> Stage(todo, got), todo |-> todo, got |-> got]
EnrichIdle == [pc |-> "idle", todo |-> <<>>, got |-> <<>>]

\* main up to to_fetch: the history table is ensured, the two lists are read.
EnrichStart ==
  /\ enrich.pc = "idle"
  /\ runs < MaxRuns
  /\ runs' = runs + 1
  /\ schema' = EnsureHistoryTableOfScript
  /\ \E top \in TopRepos : \E todo \in Selected(top, Repos \ KnownRepos) :
       enrich' = [pc |-> "count", todo |-> todo, got |-> <<>>]
  /\ UNCHANGED <<world, latest, history, starCounts, sync, faults>>

\* Mutant: the events are counted once more for every repository to fetch.
StarCountsPerRepo ==
  [r \in Repos |-> starCounts[r] + (1 + Len(enrich.todo)) * Watched(r)]

\* The WatchEvents of github_data per day, added to a SummingMergeTree that
\* holds those of an earlier run already.
StarCountsAdded == [r \in Repos |-> starCounts[r] + Watched(r)]

\* backfill_repo_star_counts
BackfillRepoStarCounts ==
  /\ enrich.pc = "count"
  /\ \/ /\ starCounts' = StarCountsAdded
        /\ enrich' = Enrichment(enrich.todo, <<>>)
        /\ UNCHANGED faults
     \/ /\ Fault
        /\ starCounts' \in {starCounts, StarCountsAdded}
        /\ enrich' = EnrichIdle
  /\ UNCHANGED <<world, latest, history, schema, sync, runs>>

\* fetch_github_metadata for one batch: a repository GitHub does not answer
\* for is skipped.
FetchGithubMetadata ==
  LET n == IF Len(enrich.todo) < FetchBatch THEN Len(enrich.todo) ELSE FetchBatch
      batch == SubSeq(enrich.todo, 1, n)
  IN  /\ enrich.pc = "fetch"
      /\ \E answered \in SUBSET {batch[i] : i \in 1 .. n} :
           \E repos \in Selected(batch, answered) :
             enrich' = Enrichment(SubSeq(enrich.todo, n + 1, Len(enrich.todo)),
                                  [i \in DOMAIN repos |->
                                     RepoToRow(repos[i], Shown(repos[i], now), now)])
      /\ UNCHANGED <<world, tables, sync, runs, faults>>

\* The row upsert_repo_metadata builds: fetched_at, refreshed_at and
\* snapshot_at are the moment of the insert, not of the lookup.
EnrichedRow == RepoToRow(Head(enrich.got).repo, Head(enrich.got).stars, now)

\* upsert_repo_metadata, the first insert.  One that fails ends the script.
InsertMetadata ==
  /\ enrich.pc = "upsert"
  /\ \/ /\ latest' = Replace(latest, {EnrichedRow})
        /\ enrich' = [enrich EXCEPT !.pc = "append", !.got[1] = EnrichedRow]
        /\ UNCHANGED faults
     \/ /\ Fault
        /\ latest' \in {latest, Replace(latest, {EnrichedRow})}
        /\ enrich' = EnrichIdle
  /\ UNCHANGED <<world, history, schema, starCounts, sync, runs>>

\* upsert_repo_metadata, the second insert.
InsertSnapshot ==
  LET after == history \cup {RepoToHistoryRow(Head(enrich.got), "enrich")}
  IN  /\ enrich.pc = "append"
      /\ \/ /\ history' = after
            /\ enrich' = Enrichment(enrich.todo, Tail(enrich.got))
            /\ UNCHANGED faults
         \/ /\ Fault
            /\ history' \in {history, after}
            /\ enrich' = EnrichIdle
      /\ UNCHANGED <<world, latest, schema, starCounts, sync, runs>>

Next ==
  \/ Tick
  \/ \E r \in Repos : RefreshRepo(r) \/ DiscoverRepo(r) \/ TearFile(r)
  \/ SyncStart
  \/ UpsertBatch
  \/ AppendHistoryBatch
  \/ EnrichStart
  \/ BackfillRepoStarCounts
  \/ FetchGithubMetadata
  \/ InsertMetadata
  \/ InsertSnapshot

Spec == Init /\ [][Next]_vars

-----------------------------------------------------------------------------
(* The growth queries of the dashboard *)

\* _current_gmt7_week_bounds: the week began here and ends now.
WeekStart == now - (now % WeekLength)

Rows(r, from, to) == {h \in history : h.repo = r /\ from <= h.at /\ h.at < to}

\* argMax(..., snapshot_at): any of the newest rows.
Newest(rows) == {h \in rows : \A g \in rows : g.at <= h.at}

Current(r) == Newest(Rows(r, now + 1 - Lookback, now + 1))

\* Mutant: the first snapshot of the window is the baseline.
BaselineOldest(r) ==
  LET rows == Rows(r, WeekStart - Lookback, WeekStart)
  IN  IF rows = {} THEN {0}
      ELSE {h.stars : h \in {g \in rows : \A f \in rows : g.at <= f.at}}

\* before_week.baseline_stars.  A repository without a snapshot there gets the
\* 0 ClickHouse fills an unmatched LEFT JOIN with, so that coalesce never gets
\* to first_week_stars.
Baseline(r) ==
  LET rows == Rows(r, WeekStart - Lookback, WeekStart)
  IN  IF rows = {} THEN {0} ELSE {h.stars : h \in Newest(rows)}

Gain(current, baseline) == IF current > baseline THEN current - baseline ELSE 0

\* _TRENDING_QUERY: the repositories with a gain and the gain it shows.
Trending ==
  UNION {{[repo |-> r, gain |-> Gain(h.stars, b)] : h \in Current(r), b \in Baseline(r)}
           : r \in Repos}
    \cap {[repo |-> r, gain |-> g] : r \in Repos, g \in 1 .. MaxStars}

\* _NEW_REPOS_REACHING_THRESHOLD_QUERY
ReachingThreshold ==
  {r \in Repos : \E h \in Current(r), b \in Baseline(r) :
                   b < Threshold /\ h.stars >= Threshold /\ Gain(h.stars, b) > 0}

\* _require_repo_metadata_history: without the table the endpoints answer 503.
\* (A process that once found it missing goes on to do so.)
HistoryTableExists == schema # "none"

GetTrending == IF HistoryTableExists THEN Trending ELSE {}
GetNewReposReaching10k == IF HistoryTableExists THEN ReachingThreshold ELSE {}

\* get_trending of ClickHouseRepoMetadataRepository: every repository of the
\* latest table with its summed star counts, 0 where there are none.
StarVelocity == [r \in KnownRepos |-> starCounts[r]]

-----------------------------------------------------------------------------
(* Properties *)

\* Every variable has its type; the batch a run works on exists.
TypeOK ==
  /\ now \in Ticks
  /\ past \in [Repos -> Seq(Stars)]
  /\ \A r \in Repos : Len(past[r]) = now + 1
  /\ file \in [Repos -> RepoRow \cup {None, Torn}]
  /\ latest \in [Repos -> RepoRow \cup {None}]
  /\ history \subseteq [repo : Repos, stars : Stars, at : Ticks,
                        source : {"sync", "enrich"}]
  /\ schema \in {"none", "keyed", "keyless"}
  /\ starCounts \in [Repos -> Nat]
  /\ \/ sync = SyncIdle
     \/ /\ sync \in [pc : {"upsert", "append"}, rows : Seq(RepoRow), done : Nat,
                      disk : SUBSET RepoRow]
        /\ sync.done < Len(sync.rows)
  /\ enrich \in [pc : {"idle", "count", "fetch", "upsert", "append"},
                 todo : Seq(Repos), got : Seq(RepoRow)]
  /\ enrich.pc \in {"upsert", "append"} => enrich.got # <<>>
  /\ runs \in 0 .. MaxRuns
  /\ faults \in 0 .. MaxFaults

\* The history never knows of a newer state of a repository than the latest
\* table: both programs insert the latest row first and stop when that fails,
\* and neither an overlapping run of the other program nor a late insert of an
\* older file takes a newer row back.
HistoryNeverAhead == \A h \in history : latest[h.repo].at >= h.at

Stored(row) ==
  /\ latest[row.repo].at >= row.at
  /\ \E h \in history : h.repo = row.repo /\ h.at = row.at /\ h.stars = row.stars

\* A sync that comes to its end has repaired whatever earlier runs left half
\* done: every file that was on disk as it started is in both tables, also where
\* an earlier run failed or was killed between the two inserts.
SyncRepairs ==
  [][ (sync.pc = "append" /\ sync'.pc = "idle" /\ faults' = faults
         /\ schema' = "keyed")
      => \A row \in sync.disk : Stored(row)' ]_vars

\* The snapshots of the tick before the week began, all of them read in it.
FreshBaseline(r) ==
  LET rows == Rows(r, WeekStart - 1, WeekStart)
  IN  rows # {} /\ \A h \in rows : h.stars = Shown(r, h.at)

\* Where the week began with a fresh snapshot, the dashboard shows at most the
\* stars gained since, and reports a crossing only of a repository that was
\* below the threshold before the week and is not below it now; whatever
\* programs wrote snapshots in between, in whatever order.
GrowthOfTheWeek ==
  \A r \in Repos : FreshBaseline(r) =>
    LET before == Shown(r, WeekStart - 1)
    IN  /\ \A t \in GetTrending : t.repo = r => t.gain <= Shown(r, now) - before
        /\ r \in GetNewReposReaching10k => before < Threshold /\ Shown(r, now) >= Threshold

\* Each run of the enrichment counts a star at most once: the velocity the
\* repository reports is at most as many times too high as the enrichment has
\* been started, also when it was killed and started again.
StarCountsBounded ==
  \A r \in KnownRepos : StarVelocity[r] <= runs * Watched(r)
=============================================================================
