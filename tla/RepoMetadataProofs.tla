-------------------------- MODULE RepoMetadataProofs --------------------------
(***************************************************************************)
(* What the two writers of the repository tables guarantee for every set   *)
(* of repositories, batch size, number of runs and of faults: the history  *)
(* is never ahead of the latest table, star counts are never added more    *)
(* often than the enrichment was started, a sync that finishes has stored  *)
(* every file it found, and the growth of the week the dashboard shows was *)
(* gained in that week.                                                    *)
(***************************************************************************)
EXTENDS RepoMetadata, FiniteSetTheorems, FunctionTheorems, SequenceTheorems, TLAPS

\* Stars are only gained.
StarsGained == \A r \in Repos : Shown(r, 0) <= Shown(r, now)

\* The sync has one row of a repository.
RowsDistinct ==
  sync # SyncIdle =>
    \A i, j \in DOMAIN sync.rows : sync.rows[i].repo = sync.rows[j].repo => i = j

\* What a program is about to append is in the latest table already.
UpsertedFirst ==
  /\ sync.pc = "append" => \A row \in Batch : latest[row.repo].at >= row.at
  /\ enrich.pc = "append" => latest[Head(enrich.got).repo].at >= Head(enrich.got).at

\* A run of the enrichment that has yet to count the events has added nothing.
CountedRuns == IF enrich.pc = "count" THEN runs - 1 ELSE runs
CountsInv ==
  /\ CountedRuns >= 0
  /\ \A r \in Repos : starCounts[r] <= CountedRuns * Watched(r)

IInv == TypeOK /\ StarsGained /\ RowsDistinct /\ UpsertedFirst /\ HistoryNeverAhead /\ CountsInv

HistoryRow == [repo : Repos, stars : Stars, at : Ticks, source : {"sync", "enrich"}]

\* TypeOK in the parts that change together.
WorldType ==
  /\ now \in Ticks
  /\ past \in [Repos -> Seq(Stars)]
  /\ \A r \in Repos : Len(past[r]) = now + 1
  /\ file \in [Repos -> RepoRow \cup {None, Torn}]
TableType ==
  /\ latest \in [Repos -> RepoRow \cup {None}]
  /\ history \subseteq HistoryRow
  /\ schema \in {"none", "keyed", "keyless"}
  /\ starCounts \in [Repos -> Nat]
SyncType ==
  \/ sync = SyncIdle
  \/ /\ sync \in [pc : {"upsert", "append"}, rows : Seq(RepoRow), done : Nat,
                   disk : SUBSET RepoRow]
     /\ sync.done < Len(sync.rows)
EnrichType ==
  /\ enrich \in [pc : {"idle", "count", "fetch", "upsert", "append"},
                 todo : Seq(Repos), got : Seq(RepoRow)]
  /\ enrich.pc \in {"upsert", "append"} => enrich.got # <<>>
CounterType ==
  /\ runs \in 0 .. MaxRuns
  /\ faults \in 0 .. MaxFaults

\* The parts are the whole.
LEMMA TypeParts == TypeOK <=> WorldType /\ TableType /\ SyncType /\ EnrichType /\ CounterType
BY DEF TypeOK, WorldType, TableType, SyncType, EnrichType, CounterType, HistoryRow

\* And so they are of the next state.
LEMMA NextTypeParts ==
  WorldType' /\ TableType' /\ SyncType' /\ EnrichType' /\ CounterType' => TypeOK'
BY DEF TypeOK, WorldType, TableType, SyncType, EnrichType, CounterType, HistoryRow

-----------------------------------------------------------------------------
(* The operators *)

\* What the assumptions say of the bounds.
LEMMA Bounds ==
  /\ Repos \subseteq Nat /\ IsFiniteSet(Repos)
  /\ MaxStars \in Nat /\ MaxTime \in Nat /\ MaxRuns \in Nat /\ MaxFaults \in Nat
  /\ SyncBatch \in Nat /\ SyncBatch > 0 /\ FetchBatch \in Nat /\ FetchBatch > 0
  /\ TopLimit \in Nat
BY MetadataAssumption

\* The tick of a row, a hole or a torn file is an integer.
LEMMA AtType == \A x \in RepoRow \cup {None, Torn} : x.at \in Int
BY Bounds DEF RepoRow, None, Torn, Ticks

\* A function on 1 .. n is a sequence of length n.
LEMMA FunctionIsSeq ==
  ASSUME NEW S, NEW n \in Nat, NEW f \in [1 .. n -> S]
  PROVE  f \in Seq(S) /\ Len(f) = n /\ DOMAIN f = 1 .. n /\ (f = <<>> <=> n = 0)
<1>1. \E m \in Nat : f \in [1 .. m -> S]
  OBVIOUS
<1>2. f \in Seq(S) /\ DOMAIN f = 1 .. n
  BY <1>1, SeqDef
<1>3. Len(f) = n
  BY <1>2, LenProperties
<1>4. QED
  BY <1>2, <1>3, EmptySeq, SeqEqual

\* What GitHub showed in a tick that has come is a star count.
LEMMA ShownType ==
  ASSUME WorldType, NEW r \in Repos, NEW t \in 0 .. now
  PROVE  Shown(r, t) \in Stars
<1>1. now \in Nat /\ past[r] \in Seq(Stars) /\ Len(past[r]) = now + 1
  BY Bounds DEF WorldType, Ticks
<1>2. t + 1 \in 1 .. Len(past[r])
  BY <1>1
<1>3. QED
  BY <1>1, <1>2, ElementOfSeq DEF Shown

\* A row made of a tick that has come is a row.
LEMMA RowType ==
  ASSUME WorldType, NEW r \in Repos, NEW t \in 0 .. now
  PROVE  RepoToRow(r, Shown(r, t), t) \in RepoRow
<1>1. Shown(r, t) \in Stars
  BY ShownType
<1>2. t \in Ticks
  BY Bounds DEF WorldType, Ticks
<1>3. QED
  BY <1>1, <1>2 DEF RepoToRow, RepoRow

\* The stars gained since the start are a number.
LEMMA WatchedType ==
  ASSUME WorldType, StarsGained, NEW r \in Repos
  PROVE  Watched(r) \in Nat
<1>1. 0 \in 0 .. now /\ now \in 0 .. now
  BY Bounds DEF WorldType, Ticks
<1>2. Shown(r, 0) \in Stars /\ Shown(r, now) \in Stars
  BY <1>1, ShownType
<1>3. QED
  BY <1>2, Bounds DEF Watched, StarsGained, Stars

\* ReplacingMergeTree keeps rows, never goes back to an older one, and holds a
\* row as new as each that was inserted.
LEMMA ReplaceEffect ==
  ASSUME NEW table \in [Repos -> RepoRow \cup {None}], NEW rows \in SUBSET RepoRow,
         \A x, y \in rows : x.repo = y.repo => x = y
  PROVE  /\ Replace(table, rows) \in [Repos -> RepoRow \cup {None}]
         /\ \A r \in Repos : Replace(table, rows)[r].at >= table[r].at
         /\ \A row \in rows : Replace(table, rows)[row.repo].at >= row.at
<1> DEFINE new(r) == {row \in rows : row.repo = r /\ row.at >= table[r].at}
           after == Replace(table, rows)
<1>1. \A x \in RepoRow \cup {None} : x.at \in Int
  BY AtType
<1>2. \A r \in Repos : after[r] = IF new(r) = {} THEN table[r] ELSE CHOOSE row \in new(r) : TRUE
  BY DEF Replace
<1>3. \A r \in Repos : \/ new(r) = {} /\ after[r] = table[r]
                       \/ after[r] \in new(r)
  BY <1>2
<1>4. after \in [Repos -> RepoRow \cup {None}]
  <2>1. after = [r \in Repos |-> after[r]]
    BY DEF Replace
  <2>2. \A r \in Repos : after[r] \in RepoRow \cup {None}
    BY <1>3
  <2>3. QED
    BY <2>1, <2>2
<1>5. \A r \in Repos : after[r].at >= table[r].at
  BY <1>1, <1>3
<1>6. ASSUME NEW row \in rows PROVE after[row.repo].at >= row.at
  <2>1. row.repo \in Repos /\ row \in RepoRow
    BY DEF RepoRow
  <2>2. CASE row.at >= table[row.repo].at
    <3>1. after[row.repo] \in new(row.repo)
      BY <1>3, <2>1, <2>2
    <3>2. after[row.repo] = row
      BY <3>1
    <3>3. QED
      BY <1>1, <2>1, <3>2
  <2>3. CASE ~(row.at >= table[row.repo].at)
    BY <1>1, <1>5, <1>4, <2>1, <2>3
  <2>4. QED
    BY <2>2, <2>3
<1>7. QED
  BY <1>4, <1>5, <1>6

\* A selection is a sequence of what may be selected.
LEMMA SelectedType ==
  ASSUME NEW s, NEW S \in SUBSET Repos, NEW t \in Selected(s, S)
  PROVE  t \in Seq(S)
<1> DEFINE kept == {s[i] : i \in DOMAIN s} \cap S
<1>1. kept \in SUBSET Repos
  OBVIOUS
<1>2. Cardinality(kept) \in Nat
  BY <1>1, Bounds, FS_Subset, FS_CardinalityType
<1>3. t \in [1 .. Cardinality(kept) -> kept]
  BY DEF Selected
<1>4. t \in [1 .. Cardinality(kept) -> S]
  BY <1>3
<1>5. QED
  BY <1>2, <1>4, FunctionIsSeq

\* The batch of the sync is made of its rows.
LEMMA BatchType ==
  ASSUME SyncType, RowsDistinct, sync # SyncIdle
  PROVE  /\ Batch \in SUBSET RepoRow
         /\ \A x, y \in Batch : x.repo = y.repo => x = y
         /\ BatchEnd \in Nat
         /\ BatchEnd <= Len(sync.rows)
<1>1. sync.rows \in Seq(RepoRow) /\ sync.done \in Nat /\ sync.done < Len(sync.rows)
  BY DEF SyncType
<1>2. Len(sync.rows) \in Nat /\ DOMAIN sync.rows = 1 .. Len(sync.rows)
  BY <1>1, LenProperties
<1>3. BatchEnd \in Nat /\ BatchEnd <= Len(sync.rows)
  BY <1>1, <1>2, Bounds DEF BatchEnd
<1>4. sync.done + 1 .. BatchEnd \subseteq 1 .. Len(sync.rows)
  BY <1>1, <1>2, <1>3
<1>5. \A i \in 1 .. Len(sync.rows) : sync.rows[i] \in RepoRow
  BY <1>1, ElementOfSeq
<1>6. QED
  BY <1>2, <1>3, <1>4, <1>5 DEF Batch, RowsDistinct

\* Where the loop of the enrichment goes on, a row is there to be upserted.
LEMMA EnrichmentType ==
  ASSUME NEW todo \in Seq(Repos), NEW got \in Seq(RepoRow)
  PROVE  /\ Enrichment(todo, got) \in [pc : {"idle", "fetch", "upsert"}, todo : Seq(Repos),
                                       got : Seq(RepoRow)]
         /\ Enrichment(todo, got).pc = "upsert" => Enrichment(todo, got).got # <<>>
BY DEF Enrichment, Stage

\* Multiplication by a number is monotone.
LEMMA TimesMonotone ==
  ASSUME NEW c \in Nat, NEW m \in Nat, NEW n \in Nat, m <= n
  PROVE  c * m <= c * n
<1>1. n - m \in Nat /\ n = m + (n - m)
  OBVIOUS
<1>2. c * (n - m) \in Nat
  BY <1>1
<1>3. c * n = c * m + c * (n - m)
  BY <1>1
<1>4. QED
  BY <1>2, <1>3

-----------------------------------------------------------------------------
(* The invariant *)

\* The initial states satisfy the invariant.
LEMMA InitInv == Init => IInv
<1> SUFFICES ASSUME Init PROVE IInv
  OBVIOUS
<1> USE DEF Init
<1>1. now = 0 /\ 0 \in Ticks
  BY Bounds DEF Ticks
<1>2. \A r \in Repos : past[r] \in Seq(Stars) /\ Len(past[r]) = 1
  <2>1. \A s \in Stars : <<s>> \in Seq(Stars) /\ Len(<<s>>) = 1
    OBVIOUS
  <2>2. \A r \in Repos : \E s \in Stars : past[r] = <<s>>
    OBVIOUS
  <2>3. QED
    BY <2>1, <2>2
<1>3. WorldType
  <2>1. past \in [Repos -> Seq(Stars)]
    BY <1>2
  <2>2. QED
    BY <1>1, <1>2, <2>1 DEF WorldType
<1>4. TableType /\ SyncType /\ CounterType
  BY Bounds DEF TableType, SyncType, SyncIdle, CounterType, HistoryRow
<1>5. EnrichType
  BY EmptySeq DEF EnrichType
<1>6. TypeOK
  BY <1>3, <1>4, <1>5, TypeParts
<1>7. StarsGained
  <2>1. \A r \in Repos : Shown(r, 0) \in Stars
    BY <1>1, <1>3, ShownType
  <2>2. QED
    BY <1>1, <2>1, Bounds DEF StarsGained, Stars
<1>8. CountsInv
  <2>1. \A r \in Repos : Watched(r) \in Nat
    BY <1>3, <1>7, WatchedType
  <2>2. QED
    BY <2>1 DEF CountsInv, CountedRuns
<1>9. RowsDistinct /\ UpsertedFirst /\ HistoryNeverAhead
  BY DEF RowsDistinct, UpsertedFirst, HistoryNeverAhead, SyncIdle
<1>10. QED
  BY <1>6, <1>7, <1>8, <1>9 DEF IInv

\* A step that leaves the world alone keeps what the world shows.
LEMMA WorldKept ==
  ASSUME WorldType, StarsGained, UNCHANGED world
  PROVE  /\ WorldType' /\ StarsGained'
         /\ \A r \in Repos : Watched(r)' = Watched(r)
BY DEF WorldType, StarsGained, world, Watched, Shown

\* A step that leaves the sync alone and takes no row back keeps what is true of
\* the sync.
LEMMA SyncKept ==
  ASSUME IInv, UNCHANGED sync, TableType', \A r \in Repos : latest'[r].at >= latest[r].at
  PROVE  /\ SyncType' /\ RowsDistinct'
         /\ sync'.pc = "append" => \A row \in Batch' : latest'[row.repo].at >= row.at
<1>1. SyncType' /\ RowsDistinct' /\ Batch' = Batch
  BY TypeParts DEF IInv, SyncType, RowsDistinct, Batch, BatchEnd
<1>2. ASSUME sync.pc = "append", NEW row \in Batch PROVE latest'[row.repo].at >= row.at
  <2>1. row \in RepoRow
    BY <1>2, TypeParts, BatchType DEF IInv, SyncIdle
  <2>2. row.repo \in Repos /\ row.at \in Int
    BY <2>1, AtType DEF RepoRow
  <2>3. latest[row.repo].at \in Int /\ latest'[row.repo].at \in Int
    BY <2>2, TypeParts, AtType DEF IInv, TableType
  <2>4. latest[row.repo].at >= row.at
    BY <1>2 DEF IInv, UpsertedFirst
  <2>5. QED
    BY <2>2, <2>3, <2>4
<1>3. QED
  BY <1>1, <1>2

\* The same of the enrichment and of the history.
LEMMA EnrichKept ==
  ASSUME IInv, UNCHANGED enrich, TableType', \A r \in Repos : latest'[r].at >= latest[r].at
  PROVE  /\ EnrichType'
         /\ enrich'.pc = "append" => latest'[Head(enrich'.got).repo].at >= Head(enrich'.got).at
<1>1. EnrichType'
  BY TypeParts DEF IInv, EnrichType
<1>2. ASSUME enrich.pc = "append"
      PROVE  latest'[Head(enrich.got).repo].at >= Head(enrich.got).at
  <2>1. Head(enrich.got) \in RepoRow
    BY <1>2, TypeParts, HeadTailProperties DEF IInv, EnrichType
  <2>2. Head(enrich.got).repo \in Repos /\ Head(enrich.got).at \in Int
    BY <2>1, AtType DEF RepoRow
  <2>3. latest[Head(enrich.got).repo].at \in Int /\ latest'[Head(enrich.got).repo].at \in Int
    BY <2>2, TypeParts, AtType DEF IInv, TableType
  <2>4. QED
    BY <1>2, <2>2, <2>3 DEF IInv, UpsertedFirst
<1>3. QED
  BY <1>1, <1>2

\* A history that only loses its lead stays behind.
LEMMA HistoryKept ==
  ASSUME IInv, UNCHANGED history, TableType', \A r \in Repos : latest'[r].at >= latest[r].at
  PROVE  HistoryNeverAhead'
<1>1. ASSUME NEW h \in history PROVE latest'[h.repo].at >= h.at
  <2>1. h.repo \in Repos /\ h.at \in Int
    BY TypeParts, Bounds DEF IInv, TableType, HistoryRow, Ticks
  <2>2. latest[h.repo].at \in Int /\ latest'[h.repo].at \in Int
    BY <2>1, TypeParts, AtType DEF IInv, TableType
  <2>3. QED
    BY <2>1, <2>2 DEF IInv, HistoryNeverAhead
<1>2. QED
  BY <1>1 DEF HistoryNeverAhead

\* What stays true of the counts when neither they nor the runs to count change.
LEMMA CountsKept ==
  ASSUME IInv, UNCHANGED starCounts, CountedRuns' = CountedRuns,
         \A r \in Repos : Watched(r)' = Watched(r)
  PROVE  CountsInv'
BY DEF IInv, CountsInv

\* A tick preserves the invariant: what was gained is never lost again.
LEMMA TickStep ==
  ASSUME IInv, Tick
  PROVE  IInv'
<1> USE DEF Tick
<1>1. WorldType /\ TableType /\ SyncType /\ EnrichType /\ CounterType /\ StarsGained
  BY TypeParts DEF IInv
<1>2. now \in Nat /\ now' = now + 1 /\ now' \in Ticks /\ 0 \in 0 .. now /\ now \in 0 .. now
  BY <1>1, Bounds DEF WorldType, Ticks
<1>3. PICK shown \in [Repos -> Stars] :
        /\ \A r \in Repos : shown[r] >= Shown(r, now)
        /\ past' = [r \in Repos |-> Append(past[r], shown[r])]
  OBVIOUS
<1>4. ASSUME NEW r \in Repos
      PROVE  /\ past'[r] \in Seq(Stars) /\ Len(past'[r]) = now' + 1
             /\ Shown(r, 0)' = Shown(r, 0) /\ Shown(r, now)' = shown[r]
  <2>1. past[r] \in Seq(Stars) /\ Len(past[r]) = now + 1 /\ shown[r] \in Stars
    BY <1>1, <1>3 DEF WorldType
  <2>2. past'[r] = Append(past[r], shown[r])
    BY <1>3
  <2>3. /\ past'[r] \in Seq(Stars) /\ Len(past'[r]) = now + 2
        /\ past'[r][1] = past[r][1] /\ past'[r][now + 2] = shown[r]
    BY <1>2, <2>1, <2>2, AppendProperties
  <2>4. QED
    BY <1>2, <2>3 DEF Shown
<1>5. WorldType'
  <2>1. past' \in [Repos -> Seq(Stars)]
    BY <1>3, <1>4
  <2>2. QED
    BY <1>1, <1>2, <1>4, <2>1 DEF WorldType
<1>6. \A r \in Repos : Shown(r, 0) \in Nat /\ Shown(r, now) \in Nat /\ shown[r] \in Nat
                        /\ Shown(r, 0) <= Shown(r, now)
  BY <1>1, <1>2, <1>3, ShownType, Bounds DEF Stars, StarsGained
<1>7. StarsGained'
  BY <1>3, <1>4, <1>6 DEF StarsGained
<1>8. \A r \in Repos : Watched(r) \in Nat /\ Watched(r)' \in Nat /\ Watched(r) <= Watched(r)'
  BY <1>3, <1>4, <1>6 DEF Watched
<1>9. CountedRuns' = CountedRuns /\ CountedRuns \in Nat
  BY <1>1 DEF CountedRuns, IInv, CountsInv, CounterType
<1>10. CountsInv'
  <2>1. ASSUME NEW r \in Repos PROVE starCounts[r] <= CountedRuns * Watched(r)'
    <3>1. starCounts[r] \in Nat /\ starCounts[r] <= CountedRuns * Watched(r)
      BY <1>1 DEF IInv, CountsInv, TableType
    <3>2. CountedRuns * Watched(r) <= CountedRuns * Watched(r)'
      BY <1>8, <1>9, TimesMonotone
    <3>3. CountedRuns * Watched(r) \in Nat /\ CountedRuns * Watched(r)' \in Nat
      BY <1>8, <1>9
    <3>4. QED
      BY <3>1, <3>2, <3>3
  <2>2. QED
    BY <1>9, <2>1 DEF CountsInv, tables
<1>11. TableType' /\ CounterType' /\ \A r \in Repos : latest'[r].at >= latest[r].at
  <2>1. \A r \in Repos : latest[r].at \in Int
    BY <1>1, AtType DEF TableType
  <2>2. QED
    BY <1>1, <2>1 DEF TableType, CounterType, tables
<1>12. /\ SyncType' /\ RowsDistinct' /\ EnrichType' /\ UpsertedFirst' /\ HistoryNeverAhead'
  BY <1>11, SyncKept, EnrichKept, HistoryKept DEF tables, UpsertedFirst
<1>13. QED
  BY <1>5, <1>7, <1>10, <1>11, <1>12, NextTypeParts DEF IInv

\* A step of the files alone preserves the invariant.
LEMMA FileStep ==
  ASSUME IInv, NEW r \in Repos, RefreshRepo(r) \/ DiscoverRepo(r) \/ TearFile(r)
  PROVE  IInv'
<1>1. WorldType /\ TableType /\ SyncType /\ EnrichType /\ CounterType /\ StarsGained
  BY TypeParts DEF IInv
<1>2. UNCHANGED <<now, past, tables, sync, enrich, runs>>
  BY DEF RefreshRepo, DiscoverRepo, TearFile
<1>3. \E row \in RepoRow \cup {Torn} : file' = [file EXCEPT ![r] = row]
  <2>1. CASE RefreshRepo(r)
    <3>1. now \in 0 .. now
      BY <1>1, Bounds DEF WorldType, Ticks
    <3>2. MapRepoResponse(r) \in RepoRow
      BY <1>1, <3>1, RowType DEF MapRepoResponse
    <3>3. QED
      BY <2>1, <3>2 DEF RefreshRepo
  <2>2. CASE DiscoverRepo(r)
    <3>1. now \in 0 .. now
      BY <1>1, Bounds DEF WorldType, Ticks
    <3>2. \E t \in 0 .. now : file' = [file EXCEPT ![r] = RepoToRow(r, Shown(r, t), t)]
      BY <2>2, <3>1 DEF DiscoverRepo
    <3>3. QED
      BY <1>1, <3>2, RowType
  <2>3. CASE TearFile(r)
    BY <2>3 DEF TearFile
  <2>4. QED
    BY <2>1, <2>2, <2>3
<1>4. WorldType'
  BY <1>1, <1>2, <1>3 DEF WorldType
<1>5. StarsGained' /\ \A q \in Repos : Watched(q)' = Watched(q)
  BY <1>1, <1>2 DEF StarsGained, Shown, Watched
<1>6. TableType' /\ \A q \in Repos : latest'[q].at >= latest[q].at
  BY <1>1, <1>2, AtType DEF TableType, tables
<1>7. CounterType'
  BY <1>1, <1>2, Bounds DEF CounterType, RefreshRepo, DiscoverRepo, TearFile, Fault
<1>8. SyncType' /\ RowsDistinct' /\ EnrichType' /\ UpsertedFirst' /\ HistoryNeverAhead'
  BY <1>2, <1>6, SyncKept, EnrichKept, HistoryKept DEF tables, UpsertedFirst
<1>9. CountsInv'
  BY <1>2, <1>5, CountsKept DEF CountedRuns, tables
<1>10. QED
  BY <1>4, <1>5, <1>6, <1>7, <1>8, <1>9, NextTypeParts DEF IInv

\* SyncStart preserves the invariant: one row of each file that can be read.
LEMMA SyncStartStep ==
  ASSUME IInv, SyncStart
  PROVE  IInv'
<1>1. WorldType /\ TableType /\ SyncType /\ EnrichType /\ CounterType /\ StarsGained
  BY TypeParts DEF IInv
<1>2. UNCHANGED <<world, tables, enrich, runs, faults>>
  BY DEF SyncStart
<1>3. PICK names \in JsonFiles :
        /\ names # <<>>
        /\ sync' = [pc |-> "upsert", done |-> 0,
                    rows |-> [i \in DOMAIN names |-> MapRawToDomain(names[i])],
                    disk |-> {MapRawToDomain(r) : r \in Parsable}]
  BY DEF SyncStart
<1> DEFINE n == Cardinality(Parsable)
           rows == [i \in 1 .. n |-> MapRawToDomain(names[i])]
<1>4. n \in Nat
  BY Bounds, FS_Subset, FS_CardinalityType DEF Parsable
<1>5. /\ names \in [1 .. n -> Parsable]
      /\ \A i, j \in 1 .. n : i < j => names[i] < names[j]
  BY DEF JsonFiles, InOrder
<1>6. \A r \in Parsable : MapRawToDomain(r) \in RepoRow /\ MapRawToDomain(r).repo = r
  BY <1>1 DEF Parsable, WorldType, MapRawToDomain, RepoToRow, RepoRow
<1>7. rows \in [1 .. n -> RepoRow]
  BY <1>5, <1>6
<1>8. rows \in Seq(RepoRow) /\ Len(rows) = n /\ DOMAIN rows = 1 .. n
  BY <1>4, <1>7, FunctionIsSeq
<1>9. n > 0
  BY <1>3, <1>4, <1>5, FunctionIsSeq
<1>10. sync' = [pc |-> "upsert", done |-> 0, rows |-> rows,
                disk |-> {MapRawToDomain(r) : r \in Parsable}]
  <2>1. DOMAIN names = 1 .. n
    BY <1>5
  <2>2. QED
    BY <1>3, <2>1
<1> HIDE DEF rows
<1>11. SyncType' /\ sync'.pc = "upsert" /\ sync'.rows = rows
  BY <1>6, <1>8, <1>9, <1>10 DEF SyncType
<1>12. RowsDistinct'
  <2>1. \A i, j \in 1 .. n : rows[i].repo = rows[j].repo => i = j
    <3>1. \A i \in 1 .. n : rows[i].repo = names[i] /\ names[i] \in Nat
      BY <1>5, <1>6, Bounds DEF rows, Parsable
    <3>2. QED
      BY <1>4, <1>5, <3>1
  <2>2. QED
    BY <1>8, <1>11, <2>1 DEF RowsDistinct
<1>13. WorldType' /\ StarsGained' /\ \A r \in Repos : Watched(r)' = Watched(r)
  BY <1>1, <1>2, WorldKept
<1>14. TableType' /\ CounterType' /\ \A r \in Repos : latest'[r].at >= latest[r].at
  BY <1>1, <1>2, AtType DEF TableType, CounterType, tables
<1>15. EnrichType' /\ UpsertedFirst' /\ HistoryNeverAhead'
  BY <1>2, <1>11, <1>14, EnrichKept, HistoryKept DEF UpsertedFirst, tables
<1>16. CountsInv'
  BY <1>2, <1>13, CountsKept DEF CountedRuns, tables
<1>17. QED
  BY <1>11, <1>12, <1>13, <1>14, <1>15, <1>16, NextTypeParts DEF IInv

\* UpsertBatch preserves the invariant: the history is appended to only after the
\* rows have been upserted.
LEMMA UpsertStep ==
  ASSUME IInv, UpsertBatch
  PROVE  IInv'
<1> USE DEF UpsertBatch
<1>1. WorldType /\ TableType /\ SyncType /\ EnrichType /\ CounterType /\ StarsGained
      /\ RowsDistinct
  BY TypeParts DEF IInv
<1>2. UNCHANGED <<world, history, schema, starCounts, enrich, runs>>
  OBVIOUS
<1>3. sync # SyncIdle /\ sync.pc = "upsert"
  BY DEF SyncIdle
<1>4. Batch \in SUBSET RepoRow /\ \A x, y \in Batch : x.repo = y.repo => x = y
  BY <1>1, <1>3, BatchType
<1> DEFINE after == Replace(latest, Batch)
<1>5. /\ after \in [Repos -> RepoRow \cup {None}]
      /\ \A r \in Repos : after[r].at >= latest[r].at
      /\ \A row \in Batch : after[row.repo].at >= row.at
  BY <1>1, <1>4, ReplaceEffect DEF TableType
<1> HIDE DEF after
<1>6. PICK outcome \in [ok : BOOLEAN, table : {latest, after}] :
        /\ BulkInsert(latest, after, outcome)
        /\ latest' = outcome.table
        /\ sync' = IF outcome.ok THEN [sync EXCEPT !.pc = "append"] ELSE SyncIdle
  BY DEF after
<1>7. latest' \in {latest, after} /\ (outcome.ok => latest' = after)
  BY <1>6 DEF BulkInsert
<1>8. CounterType'
  BY <1>1, <1>2, <1>6, Bounds DEF CounterType, BulkInsert, Fault
<1>9. TableType'
  BY <1>1, <1>2, <1>5, <1>7 DEF TableType
<1>10. \A r \in Repos : latest'[r].at >= latest[r].at
  BY <1>1, <1>5, <1>7, AtType DEF TableType
<1>11. /\ SyncType' /\ RowsDistinct'
       /\ sync'.pc = "append" => \A row \in Batch' : latest'[row.repo].at >= row.at
  <2>1. CASE outcome.ok
    <3>1. sync' = [sync EXCEPT !.pc = "append"] /\ latest' = after
      BY <1>6, <1>7, <2>1
    <3>2. sync \in [pc : {"upsert", "append"}, rows : Seq(RepoRow), done : Nat,
                    disk : SUBSET RepoRow]
          /\ sync.done < Len(sync.rows)
      BY <1>1, <1>3 DEF SyncType
    <3>3. sync'.rows = sync.rows /\ sync'.done = sync.done
      BY <3>1, <3>2
    <3>4. SyncType'
      BY <3>1, <3>2 DEF SyncType
    <3>5. Batch' = Batch /\ RowsDistinct'
      BY <1>1, <1>3, <3>3 DEF Batch, BatchEnd, RowsDistinct
    <3>6. QED
      BY <1>5, <3>1, <3>4, <3>5
  <2>2. CASE ~outcome.ok
    BY <1>6, <2>2 DEF SyncType, RowsDistinct, SyncIdle
  <2>3. QED
    BY <2>1, <2>2
<1>12. WorldType' /\ StarsGained' /\ \A r \in Repos : Watched(r)' = Watched(r)
  BY <1>1, <1>2, WorldKept
<1>13. EnrichType' /\ UpsertedFirst' /\ HistoryNeverAhead'
  BY <1>2, <1>9, <1>10, <1>11, EnrichKept, HistoryKept DEF UpsertedFirst
<1>14. CountsInv'
  BY <1>2, <1>12, CountsKept DEF CountedRuns
<1>15. QED
  BY <1>8, <1>9, <1>11, <1>12, <1>13, <1>14, NextTypeParts DEF IInv

\* AppendHistoryBatch preserves the invariant: it adds what is in the latest
\* table already.
LEMMA AppendStep ==
  ASSUME IInv, AppendHistoryBatch
  PROVE  IInv'
<1> DEFINE added == {RepoToHistoryRow(row, "sync") : row \in Batch}
<1>1. WorldType /\ TableType /\ SyncType /\ EnrichType /\ CounterType /\ StarsGained
      /\ RowsDistinct
  BY TypeParts DEF IInv
<1>2. UNCHANGED <<world, latest, starCounts, enrich, runs>> /\ sync.pc = "append"
  BY DEF AppendHistoryBatch
<1>3. sync # SyncIdle
  BY <1>2 DEF SyncIdle
<1>4. Batch \in SUBSET RepoRow /\ BatchEnd \in Nat /\ BatchEnd <= Len(sync.rows)
  BY <1>1, <1>3, BatchType
<1>5. /\ schema' \in {"none", "keyed", "keyless"}
      /\ history' \in {history, history \cup added}
      /\ faults' \in 0 .. MaxFaults
      /\ \/ sync' = SyncIdle
         \/ BatchEnd < Len(sync.rows) /\ sync' = [sync EXCEPT !.pc = "upsert", !.done = BatchEnd]
  <2>1. CASE schema' = "keyless"
    BY <1>1, <2>1 DEF AppendHistoryBatch, CounterType
  <2>2. CASE schema' # "keyless"
    <3>1. PICK outcome \in [ok : BOOLEAN, table : {history, history \cup added}] :
            /\ BulkInsert(history, history \cup added, outcome)
            /\ history' = outcome.table
            /\ sync' = IF outcome.ok /\ BatchEnd < Len(sync.rows)
                       THEN [sync EXCEPT !.pc = "upsert", !.done = BatchEnd]
                       ELSE SyncIdle
      BY <2>2 DEF AppendHistoryBatch
    <3>2. faults' \in 0 .. MaxFaults
      BY <1>1, <3>1, Bounds DEF BulkInsert, Fault, CounterType
    <3>3. schema' \in {"none", "keyed", "keyless"}
      BY <1>1 DEF AppendHistoryBatch, EnsureHistoryTable, TableType
    <3>4. QED
      BY <3>1, <3>2, <3>3
  <2>3. QED
    BY <2>1, <2>2
<1>6. added \subseteq HistoryRow /\ \A h \in added : latest[h.repo].at >= h.at
  BY <1>2, <1>4 DEF RepoToHistoryRow, HistoryRow, RepoRow, IInv, UpsertedFirst
<1> HIDE DEF added
<1>7. TableType' /\ CounterType'
  BY <1>1, <1>2, <1>5, <1>6 DEF TableType, CounterType
<1>8. HistoryNeverAhead'
  BY <1>2, <1>5, <1>6 DEF HistoryNeverAhead, IInv
<1>9. SyncType' /\ RowsDistinct' /\ sync'.pc # "append"
  <2>1. CASE sync' = SyncIdle
    BY <2>1 DEF SyncType, RowsDistinct, SyncIdle
  <2>2. CASE BatchEnd < Len(sync.rows) /\ sync' = [sync EXCEPT !.pc = "upsert", !.done = BatchEnd]
    <3>1. sync \in [pc : {"upsert", "append"}, rows : Seq(RepoRow), done : Nat,
                    disk : SUBSET RepoRow]
      BY <1>1, <1>3 DEF SyncType
    <3>2. sync'.rows = sync.rows /\ sync'.done = BatchEnd /\ sync'.pc = "upsert"
      BY <2>2, <3>1
    <3>3. SyncType'
      BY <1>4, <2>2, <3>1, <3>2 DEF SyncType
    <3>4. RowsDistinct'
      BY <1>1, <1>3, <3>2 DEF RowsDistinct
    <3>5. QED
      BY <3>2, <3>3, <3>4
  <2>3. QED
    BY <1>5, <2>1, <2>2
<1>10. WorldType' /\ StarsGained' /\ \A r \in Repos : Watched(r)' = Watched(r)
  BY <1>1, <1>2, WorldKept
<1>11. \A r \in Repos : latest'[r].at >= latest[r].at
  BY <1>1, <1>2, AtType DEF TableType
<1>12. EnrichType' /\ UpsertedFirst'
  BY <1>2, <1>7, <1>9, <1>11, EnrichKept DEF UpsertedFirst
<1>13. CountsInv'
  BY <1>2, <1>10, CountsKept DEF CountedRuns
<1>14. QED
  BY <1>7, <1>8, <1>9, <1>10, <1>12, <1>13, NextTypeParts DEF IInv

\* A step of the enrichment that leaves the two tables and the world alone and
\* does not get to the second insert keeps all but what it changes.
LEMMA EnrichElsewhere ==
  ASSUME IInv, UNCHANGED <<world, latest, history, sync>>,
         schema' \in {"none", "keyed", "keyless"}, starCounts' \in [Repos -> Nat],
         EnrichType', enrich'.pc # "append", CounterType', CountsInv'
  PROVE  IInv'
<1>1. WorldType /\ TableType /\ StarsGained
  BY TypeParts DEF IInv
<1>2. TableType' /\ \A r \in Repos : latest'[r].at >= latest[r].at
  BY <1>1, AtType DEF TableType
<1>3. WorldType' /\ StarsGained'
  BY <1>1, WorldKept
<1>4. SyncType' /\ RowsDistinct' /\ UpsertedFirst' /\ HistoryNeverAhead'
  BY <1>2, SyncKept, HistoryKept DEF UpsertedFirst
<1>5. QED
  BY <1>2, <1>3, <1>4, NextTypeParts DEF IInv

\* EnrichStart preserves the invariant: a run more has the events to count.
LEMMA EnrichStartStep ==
  ASSUME IInv, EnrichStart
  PROVE  IInv'
<1> USE DEF EnrichStart
<1>1. WorldType /\ TableType /\ EnrichType /\ CounterType /\ StarsGained
  BY TypeParts DEF IInv
<1>2a. PICK top \in TopRepos : \E todo \in Selected(top, Repos \ KnownRepos) :
         enrich' = [pc |-> "count", todo |-> todo, got |-> <<>>]
  OBVIOUS
<1>2. PICK todo \in Selected(top, Repos \ KnownRepos) :
        enrich' = [pc |-> "count", todo |-> todo, got |-> <<>>]
  BY <1>2a
<1>3. todo \in Seq(Repos)
  <2>1. todo \in Seq(Repos \ KnownRepos)
    BY SelectedType
  <2>2. QED
    BY <2>1, SeqMonotonic
<1>4. EnrichType' /\ enrich'.pc = "count"
  BY <1>2, <1>3, EmptySeq DEF EnrichType
<1>5. CounterType' /\ runs' = runs + 1
  BY <1>1, Bounds DEF CounterType
<1>6. schema' \in {"none", "keyed", "keyless"} /\ starCounts' \in [Repos -> Nat]
  BY <1>1 DEF TableType, EnsureHistoryTableOfScript
<1>7. CountsInv'
  <2>1. CountedRuns' = runs /\ CountedRuns = runs /\ runs \in Nat
    BY <1>1, <1>4, <1>5 DEF CountedRuns, CounterType
  <2>2. \A r \in Repos : Watched(r)' = Watched(r)
    BY <1>1, WorldKept
  <2>3. QED
    BY <2>1, <2>2, CountsKept
<1>8. QED
  BY <1>4, <1>5, <1>6, <1>7, EnrichElsewhere

\* BackfillRepoStarCounts preserves the invariant: the run is counted once it has
\* added the stars, all of them or, where the insert failed, perhaps none.
LEMMA CountStep ==
  ASSUME IInv, BackfillRepoStarCounts
  PROVE  IInv'
<1> USE DEF BackfillRepoStarCounts
<1>1. WorldType /\ TableType /\ EnrichType /\ CounterType /\ StarsGained
  BY TypeParts DEF IInv
<1>2. EnrichType' /\ enrich'.pc \notin {"count", "append"}
  <2>1. CASE enrich' = Enrichment(enrich.todo, <<>>)
    BY <1>1, <2>1, EnrichmentType, EmptySeq DEF EnrichType
  <2>2. CASE enrich' = EnrichIdle
    BY <2>2, EmptySeq DEF EnrichType, EnrichIdle
  <2>3. QED
    BY <2>1, <2>2
<1>3. CounterType'
  BY <1>1, Bounds DEF CounterType, Fault
<1>4. \A r \in Repos : Watched(r) \in Nat /\ Watched(r)' = Watched(r)
  BY <1>1, WatchedType, WorldKept
<1>5. /\ StarCountsAdded \in [Repos -> Nat]
      /\ \A r \in Repos : StarCountsAdded[r] = starCounts[r] + Watched(r)
  BY <1>1, <1>4 DEF StarCountsAdded, TableType
<1>6. starCounts' \in {starCounts, StarCountsAdded}
  OBVIOUS
<1>7. CountsInv'
  <2>1. /\ CountedRuns = runs - 1 /\ CountedRuns' = runs
        /\ runs \in Nat /\ runs - 1 \in Nat
    BY <1>1, <1>2 DEF CountedRuns, CounterType, IInv, CountsInv
  <2>2. ASSUME NEW r \in Repos PROVE starCounts'[r] <= runs * Watched(r)
    <3>1. starCounts[r] \in Nat /\ starCounts[r] <= (runs - 1) * Watched(r)
      BY <1>1, <2>1 DEF IInv, CountsInv, TableType
    <3>2. /\ (runs - 1) * Watched(r) + Watched(r) = runs * Watched(r)
          /\ (runs - 1) * Watched(r) \in Nat
      BY <1>4, <2>1
    <3>3. starCounts'[r] <= starCounts[r] + Watched(r)
      BY <1>4, <1>5, <1>6, <3>1
    <3>4. starCounts'[r] \in Nat
      BY <1>1, <1>5, <1>6 DEF TableType
    <3>5. QED
      BY <1>4, <3>1, <3>2, <3>3, <3>4
  <2>3. QED
    BY <1>4, <2>1, <2>2 DEF CountsInv
<1>8. schema' \in {"none", "keyed", "keyless"} /\ starCounts' \in [Repos -> Nat]
  BY <1>1, <1>5, <1>6 DEF TableType
<1>9. QED
  BY <1>2, <1>3, <1>7, <1>8, EnrichElsewhere

\* FetchGithubMetadata preserves the invariant: what was answered becomes rows.
LEMMA FetchStep ==
  ASSUME IInv, FetchGithubMetadata
  PROVE  IInv'
<1> DEFINE n == IF Len(enrich.todo) < FetchBatch THEN Len(enrich.todo) ELSE FetchBatch
           batch == SubSeq(enrich.todo, 1, n)
           rest == SubSeq(enrich.todo, n + 1, Len(enrich.todo))
<1>1. WorldType /\ TableType /\ EnrichType /\ CounterType /\ StarsGained
  BY TypeParts DEF IInv
<1>2. UNCHANGED <<world, tables, sync, runs, faults>> /\ enrich.pc = "fetch"
  BY DEF FetchGithubMetadata
<1>3. enrich.todo \in Seq(Repos) /\ Len(enrich.todo) \in Nat
  BY <1>1, LenProperties DEF EnrichType
<1>4. n \in Nat /\ n <= Len(enrich.todo)
  BY <1>3, Bounds
<1>5. batch \in Seq(Repos) /\ rest \in Seq(Repos) /\ Len(batch) = n
  BY <1>3, <1>4, SubSeqProperties, ElementOfSeq
<1>6a. PICK answered \in SUBSET {batch[i] : i \in 1 .. n} : \E repos \in Selected(batch, answered) :
         enrich' = Enrichment(rest, [i \in DOMAIN repos |->
                                       RepoToRow(repos[i], Shown(repos[i], now), now)])
  BY DEF FetchGithubMetadata
<1>6. PICK repos \in Selected(batch, answered) :
        enrich' = Enrichment(rest, [i \in DOMAIN repos |->
                                      RepoToRow(repos[i], Shown(repos[i], now), now)])
  BY <1>6a
<1>7. answered \in SUBSET Repos
  BY <1>5, ElementOfSeq
<1>8. repos \in Seq(Repos)
  BY <1>7, SelectedType, SeqMonotonic
<1> DEFINE got == [i \in DOMAIN repos |-> RepoToRow(repos[i], Shown(repos[i], now), now)]
<1>9. got \in Seq(RepoRow)
  <2>1. now \in 0 .. now
    BY <1>1, Bounds DEF WorldType, Ticks
  <2>2. \A r \in Repos : RepoToRow(r, Shown(r, now), now) \in RepoRow
    BY <1>1, <2>1, RowType
  <2>3. DOMAIN repos = 1 .. Len(repos) /\ Len(repos) \in Nat
    BY <1>8, LenProperties
  <2>4. \A i \in 1 .. Len(repos) : repos[i] \in Repos
    BY <1>8, ElementOfSeq
  <2>5. got \in [1 .. Len(repos) -> RepoRow]
    BY <2>2, <2>3, <2>4
  <2>6. QED
    BY <2>3, <2>5, FunctionIsSeq
<1>10. EnrichType' /\ enrich'.pc \in {"idle", "fetch", "upsert"}
  <2> HIDE DEF got, rest
  <2>1. enrich' = Enrichment(rest, got)
    BY <1>6 DEF got
  <2>2. QED
    BY <1>5, <1>9, <2>1, EnrichmentType DEF EnrichType
<1>11. CountsInv'
  <2>1. \A r \in Repos : Watched(r)' = Watched(r)
    BY <1>1, <1>2, WorldKept
  <2>2. QED
    BY <1>2, <1>10, <2>1, CountsKept DEF CountedRuns, tables
<1>12. QED
  BY <1>1, <1>2, <1>10, <1>11, EnrichElsewhere DEF TableType, CounterType, tables

\* The row of the next repository to enrich, as it is inserted.
LEMMA EnrichedRowType ==
  ASSUME WorldType, EnrichType, enrich.pc = "upsert"
  PROVE  EnrichedRow \in RepoRow
<1>1. Head(enrich.got) \in RepoRow
  BY HeadTailProperties DEF EnrichType
<1>2. now \in Ticks
  BY DEF WorldType
<1>3. QED
  BY <1>1, <1>2 DEF EnrichedRow, RepoToRow, RepoRow

\* InsertMetadata preserves the invariant: the snapshot that comes next is of a
\* row that has been inserted.
LEMMA InsertMetadataStep ==
  ASSUME IInv, InsertMetadata
  PROVE  IInv'
<1> DEFINE after == Replace(latest, {EnrichedRow})
<1>1. WorldType /\ TableType /\ SyncType /\ EnrichType /\ CounterType /\ StarsGained
  BY TypeParts DEF IInv
<1>2. /\ UNCHANGED <<world, history, schema, starCounts, sync, runs>>
      /\ enrich.pc = "upsert"
      /\ latest' \in {latest, after}
      /\ \/ /\ latest' = after
            /\ enrich' = [enrich EXCEPT !.pc = "append", !.got[1] = EnrichedRow]
         \/ enrich' = EnrichIdle
  BY DEF InsertMetadata
<1>3. EnrichedRow \in RepoRow
  BY <1>1, <1>2, EnrichedRowType
<1>4. /\ after \in [Repos -> RepoRow \cup {None}]
      /\ \A r \in Repos : after[r].at >= latest[r].at
      /\ after[EnrichedRow.repo].at >= EnrichedRow.at
  <2>1. {EnrichedRow} \in SUBSET RepoRow /\ \A x, y \in {EnrichedRow} : x.repo = y.repo => x = y
    BY <1>3
  <2>2. QED
    BY <1>1, <2>1, ReplaceEffect DEF TableType
<1> HIDE DEF after
<1>5. CounterType'
  BY <1>1, Bounds DEF CounterType, Fault, InsertMetadata
<1>6. TableType' /\ \A r \in Repos : latest'[r].at >= latest[r].at
  BY <1>1, <1>2, <1>4, AtType DEF TableType
<1>7. /\ EnrichType' /\ enrich'.pc # "count"
      /\ enrich'.pc = "append" => latest'[Head(enrich'.got).repo].at >= Head(enrich'.got).at
  <2>1. CASE /\ latest' = after
             /\ enrich' = [enrich EXCEPT !.pc = "append", !.got[1] = EnrichedRow]
    <3>1. enrich.got \in Seq(RepoRow) /\ enrich.got # <<>>
      BY <1>1, <1>2 DEF EnrichType
    <3>2. Len(enrich.got) \in Nat /\ 1 \in 1 .. Len(enrich.got)
      BY <3>1, EmptySeq
    <3>3. /\ [enrich.got EXCEPT ![1] = EnrichedRow] \in Seq(RepoRow)
          /\ Len([enrich.got EXCEPT ![1] = EnrichedRow]) = Len(enrich.got)
          /\ [enrich.got EXCEPT ![1] = EnrichedRow][1] = EnrichedRow
      BY <1>3, <3>1, <3>2, ExceptSeq
    <3>4. /\ enrich'.pc = "append" /\ enrich'.todo = enrich.todo
          /\ enrich'.got = [enrich.got EXCEPT ![1] = EnrichedRow]
          /\ enrich' = [pc |-> enrich'.pc, todo |-> enrich'.todo, got |-> enrich'.got]
      BY <1>1, <2>1 DEF EnrichType
    <3>5. Head(enrich'.got) = EnrichedRow /\ enrich'.got # <<>>
      BY <3>2, <3>3, <3>4, EmptySeq
    <3>6. EnrichType'
      BY <1>1, <3>3, <3>4, <3>5 DEF EnrichType
    <3>7. QED
      BY <1>4, <2>1, <3>4, <3>5, <3>6
  <2>2. CASE enrich' = EnrichIdle
    BY <2>2, EmptySeq DEF EnrichType, EnrichIdle
  <2>3. QED
    BY <1>2, <2>1, <2>2
<1>8. WorldType' /\ StarsGained' /\ \A r \in Repos : Watched(r)' = Watched(r)
  BY <1>1, <1>2, WorldKept
<1>9. SyncType' /\ RowsDistinct' /\ UpsertedFirst' /\ HistoryNeverAhead'
  BY <1>2, <1>6, <1>7, SyncKept, HistoryKept DEF UpsertedFirst
<1>10. CountsInv'
  BY <1>2, <1>7, <1>8, CountsKept DEF CountedRuns
<1>11. QED
  BY <1>5, <1>6, <1>7, <1>8, <1>9, <1>10, NextTypeParts DEF IInv

\* InsertSnapshot preserves the invariant.
LEMMA InsertSnapshotStep ==
  ASSUME IInv, InsertSnapshot
  PROVE  IInv'
<1> DEFINE row == Head(enrich.got)
           snapshot == RepoToHistoryRow(row, "enrich")
<1>1. WorldType /\ TableType /\ SyncType /\ EnrichType /\ CounterType /\ StarsGained
  BY TypeParts DEF IInv
<1>2. /\ UNCHANGED <<world, latest, schema, starCounts, sync, runs>>
      /\ enrich.pc = "append"
      /\ history' \in {history, history \cup {snapshot}}
      /\ \/ enrich' = Enrichment(enrich.todo, Tail(enrich.got))
         \/ enrich' = EnrichIdle
  BY DEF InsertSnapshot
<1>3. row \in RepoRow /\ Tail(enrich.got) \in Seq(RepoRow) /\ enrich.todo \in Seq(Repos)
  BY <1>1, <1>2, HeadTailProperties DEF EnrichType
<1>4. latest[row.repo].at >= row.at
  BY <1>2 DEF IInv, UpsertedFirst
<1> HIDE DEF row
<1>5. snapshot \in HistoryRow /\ latest[snapshot.repo].at >= snapshot.at
  BY <1>3, <1>4 DEF RepoToHistoryRow, HistoryRow, RepoRow
<1> HIDE DEF snapshot
<1>6. CounterType'
  BY <1>1, Bounds DEF CounterType, Fault, InsertSnapshot
<1>7. TableType' /\ \A r \in Repos : latest'[r].at >= latest[r].at
  BY <1>1, <1>2, <1>5, AtType DEF TableType
<1>8. HistoryNeverAhead'
  BY <1>2, <1>5 DEF HistoryNeverAhead, IInv
<1>9. EnrichType' /\ enrich'.pc \notin {"count", "append"}
  <2>1. CASE enrich' = Enrichment(enrich.todo, Tail(enrich.got))
    BY <1>3, <2>1, EnrichmentType DEF EnrichType
  <2>2. CASE enrich' = EnrichIdle
    BY <2>2, EmptySeq DEF EnrichType, EnrichIdle
  <2>3. QED
    BY <1>2, <2>1, <2>2
<1>10. WorldType' /\ StarsGained' /\ \A r \in Repos : Watched(r)' = Watched(r)
  BY <1>1, <1>2, WorldKept
<1>11. SyncType' /\ RowsDistinct' /\ UpsertedFirst'
  BY <1>2, <1>7, <1>9, SyncKept DEF UpsertedFirst
<1>12. CountsInv'
  BY <1>2, <1>9, <1>10, CountsKept DEF CountedRuns
<1>13. QED
  BY <1>6, <1>7, <1>8, <1>9, <1>10, <1>11, <1>12, NextTypeParts DEF IInv

\* Every step preserves the invariant.
LEMMA NextInv == IInv /\ [Next]_vars => IInv'
<1> SUFFICES ASSUME IInv, [Next]_vars PROVE IInv'
  OBVIOUS
<1>1. CASE Tick
  BY <1>1, TickStep
<1>2. CASE \E r \in Repos : RefreshRepo(r) \/ DiscoverRepo(r) \/ TearFile(r)
  BY <1>2, FileStep
<1>3. CASE SyncStart
  BY <1>3, SyncStartStep
<1>4. CASE UpsertBatch
  BY <1>4, UpsertStep
<1>5. CASE AppendHistoryBatch
  BY <1>5, AppendStep
<1>6. CASE EnrichStart
  BY <1>6, EnrichStartStep
<1>7. CASE BackfillRepoStarCounts
  BY <1>7, CountStep
<1>8. CASE FetchGithubMetadata
  BY <1>8, FetchStep
<1>9. CASE InsertMetadata
  BY <1>9, InsertMetadataStep
<1>10. CASE InsertSnapshot
  BY <1>10, InsertSnapshotStep
<1>11. CASE UNCHANGED vars
  <2>1. UNCHANGED <<now, past, file, latest, history, schema, starCounts, sync, enrich, runs, faults>>
    BY <1>11 DEF vars, world, tables
  <2>2. TypeOK' /\ StarsGained' /\ RowsDistinct' /\ HistoryNeverAhead'
    BY <2>1 DEF IInv, TypeOK, StarsGained, RowsDistinct, HistoryNeverAhead, Shown
  <2>3. UpsertedFirst'
    BY <2>1 DEF IInv, UpsertedFirst, Batch, BatchEnd
  <2>4. CountsInv'
    BY <2>1 DEF IInv, CountsInv, CountedRuns, Watched, Shown
  <2>5. QED
    BY <2>2, <2>3, <2>4 DEF IInv
<1>12. QED
  BY <1>1, <1>2, <1>3, <1>4, <1>5, <1>6, <1>7, <1>8, <1>9, <1>10, <1>11 DEF Next

\* The invariant holds in every reachable state.
THEOREM Invariance == Spec => []IInv
BY InitInv, NextInv, PTL DEF Spec

\* Every variable has its type, for every set of repositories and every bound.
THEOREM TypeCorrect == Spec => []TypeOK
<1>1. IInv => TypeOK
  BY DEF IInv
<1>2. QED
  BY <1>1, Invariance, PTL

\* repo_metadata_history never holds a newer snapshot of a repository than
\* repo_metadata, however the sync, the enrichment, failures and late files of the
\* discovery interleave.
THEOREM HistoryBehind == Spec => []HistoryNeverAhead
<1>1. IInv => HistoryNeverAhead
  BY DEF IInv
<1>2. QED
  BY <1>1, Invariance, PTL

\* The velocity a repository reports is at most as many times too high as the
\* enrichment has been started.
THEOREM CountsBounded == Spec => []StarCountsBounded
<1>1. IInv => StarCountsBounded
  <2> SUFFICES ASSUME IInv, NEW r \in KnownRepos PROVE StarVelocity[r] <= runs * Watched(r)
    BY DEF StarCountsBounded
  <2>1. r \in Repos /\ StarVelocity[r] = starCounts[r]
    BY DEF StarVelocity, KnownRepos
  <2>2. WorldType /\ TableType /\ CounterType /\ StarsGained /\ CountsInv
    BY TypeParts DEF IInv
  <2>3. runs \in Nat /\ CountedRuns \in Nat /\ CountedRuns <= runs
    BY <2>2 DEF CountedRuns, CounterType, CountsInv
  <2>4. Watched(r) \in Nat /\ starCounts[r] \in Nat
    BY <2>1, <2>2, WatchedType DEF TableType
  <2>5. CountedRuns * Watched(r) <= runs * Watched(r)
    <3>1. Watched(r) * CountedRuns <= Watched(r) * runs
      BY <2>3, <2>4, TimesMonotone
    <3>2. QED
      BY <2>3, <2>4, <3>1
  <2>6. starCounts[r] <= CountedRuns * Watched(r)
    BY <2>1, <2>2 DEF CountsInv
  <2>7. CountedRuns * Watched(r) \in Nat /\ runs * Watched(r) \in Nat
    BY <2>3, <2>4
  <2>8. QED
    BY <2>1, <2>4, <2>5, <2>6, <2>7
<1>2. QED
  BY <1>1, Invariance, PTL
-----------------------------------------------------------------------------
(* What a finished sync has repaired *)

\* A sync has a row of every file that was on disk, and has stored the rows of the
\* batches it is done with.
RepairInv ==
  sync # SyncIdle =>
    /\ \A row \in sync.disk : \E i \in DOMAIN sync.rows : sync.rows[i] = row
    /\ \A i \in 1 .. sync.done : Stored(sync.rows[i])

\* Sorting a set of names loses none of them.
LEMMA InOrderCovers ==
  ASSUME NEW S \in SUBSET Repos, NEW names \in InOrder(S)
  PROVE  \A r \in S : \E i \in DOMAIN names : names[i] = r
<1> DEFINE n == Cardinality(S)
<1>1. IsFiniteSet(S) /\ n \in Nat
  BY Bounds, FS_Subset, FS_CardinalityType
<1>2. names \in [1 .. n -> S] /\ \A i, j \in 1 .. n : i < j => names[i] < names[j]
  BY DEF InOrder
<1>3. \A i, j \in 1 .. n : names[i] = names[j] => i = j
  <2>1. \A i \in 1 .. n : names[i] \in Nat
    BY <1>2, Bounds
  <2>2. QED
    BY <1>1, <1>2, <2>1
<1>4. names \in Injection(1 .. n, S)
  BY <1>2, <1>3, Fun_IsInj
<1>5. Cardinality(1 .. n) = n
  BY <1>1, FS_Interval
<1>6. names \in Surjection(1 .. n, S)
  BY <1>1, <1>4, <1>5, FS_Injection
<1>7. QED
  BY <1>2, <1>6 DEF Surjection

\* No step takes a snapshot away or a row of the latest table back.
LEMMA TablesGrow ==
  ASSUME IInv, [Next]_vars
  PROVE  history \subseteq history' /\ \A r \in Repos : latest'[r].at >= latest[r].at
<1>1. WorldType /\ TableType /\ SyncType /\ EnrichType /\ RowsDistinct
  BY TypeParts DEF IInv
<1>2. \A r \in Repos : latest[r].at >= latest[r].at
  BY <1>1, AtType DEF TableType
<1>3. CASE UpsertBatch
  <2>1. sync # SyncIdle /\ history' = history /\ latest' \in {latest, Replace(latest, Batch)}
    BY <1>3 DEF UpsertBatch, SyncIdle
  <2>2. Batch \in SUBSET RepoRow /\ \A x, y \in Batch : x.repo = y.repo => x = y
    BY <1>1, <2>1, BatchType
  <2>3. \A r \in Repos : Replace(latest, Batch)[r].at >= latest[r].at
    BY <1>1, <2>2, ReplaceEffect DEF TableType
  <2>4. QED
    BY <1>2, <2>1, <2>3
<1>4. CASE InsertMetadata
  <2>1. history' = history /\ latest' \in {latest, Replace(latest, {EnrichedRow})}
    BY <1>4 DEF InsertMetadata
  <2>2. {EnrichedRow} \in SUBSET RepoRow
    BY <1>1, <1>4, EnrichedRowType DEF InsertMetadata
  <2>3. \A r \in Repos : Replace(latest, {EnrichedRow})[r].at >= latest[r].at
    BY <1>1, <2>2, ReplaceEffect DEF TableType
  <2>4. QED
    BY <1>2, <2>1, <2>3
<1>5. CASE AppendHistoryBatch \/ InsertSnapshot
  <2>1. CASE AppendHistoryBatch
    <3> DEFINE after == history \cup {RepoToHistoryRow(row, "sync") : row \in Batch}
    <3>1. latest' = latest /\ (history' = history
            \/ \E outcome \in [ok : BOOLEAN, table : {history, after}] : history' = outcome.table)
      BY <2>1 DEF AppendHistoryBatch
    <3>2. history \subseteq after
      OBVIOUS
    <3> HIDE DEF after
    <3>3. QED
      BY <1>2, <3>1, <3>2
  <2>2. CASE InsertSnapshot
    BY <1>2, <2>2 DEF InsertSnapshot
  <2>3. QED
    BY <1>5, <2>1, <2>2
<1>6. CASE UNCHANGED <<latest, history>>
  BY <1>2, <1>6
<1>7. UpsertBatch \/ InsertMetadata \/ AppendHistoryBatch \/ InsertSnapshot
        \/ UNCHANGED <<latest, history>>
  <2>1. CASE Tick
    BY <2>1 DEF Tick, tables
  <2>2. CASE \E r \in Repos : RefreshRepo(r) \/ DiscoverRepo(r) \/ TearFile(r)
    BY <2>2 DEF RefreshRepo, DiscoverRepo, TearFile, tables
  <2>3. CASE SyncStart \/ FetchGithubMetadata
    BY <2>3 DEF SyncStart, FetchGithubMetadata, tables
  <2>4. CASE EnrichStart \/ BackfillRepoStarCounts
    BY <2>4 DEF EnrichStart, BackfillRepoStarCounts
  <2>5. CASE UNCHANGED vars
    BY <2>5 DEF vars, tables
  <2>6. QED
    BY <2>1, <2>2, <2>3, <2>4, <2>5 DEF Next
<1>8. QED
  BY <1>3, <1>4, <1>5, <1>6, <1>7

\* What is stored stays stored.
LEMMA StoredKept ==
  ASSUME IInv, IInv', [Next]_vars
  PROVE  \A row \in RepoRow : Stored(row) => Stored(row)'
<1> SUFFICES ASSUME NEW row \in RepoRow, Stored(row) PROVE Stored(row)'
  OBVIOUS
<1>1. row.repo \in Repos /\ row.at \in Int
  BY AtType DEF RepoRow
<1>2. latest \in [Repos -> RepoRow \cup {None}] /\ latest' \in [Repos -> RepoRow \cup {None}]
  BY DEF IInv, TypeOK
<1>3. latest[row.repo].at \in Int /\ latest'[row.repo].at \in Int
  BY <1>1, <1>2, AtType
<1>4. latest'[row.repo].at >= latest[row.repo].at /\ history \subseteq history'
  BY <1>1, TablesGrow
<1>5. latest[row.repo].at >= row.at
  BY DEF Stored
<1>6. latest'[row.repo].at >= row.at
  BY <1>1, <1>3, <1>4, <1>5
<1>7. QED
  BY <1>4, <1>6 DEF Stored

\* An append that succeeds has stored its batch.
LEMMA BatchStored ==
  ASSUME IInv, sync.pc = "append", latest' = latest,
         history' = history \cup {RepoToHistoryRow(row, "sync") : row \in Batch}
  PROVE  \A row \in Batch : Stored(row)'
<1> SUFFICES ASSUME NEW row \in Batch PROVE Stored(row)'
  OBVIOUS
<1>1. latest'[row.repo].at >= row.at
  BY DEF IInv, UpsertedFirst
<1>2. RepoToHistoryRow(row, "sync") \in history'
  OBVIOUS
<1>3. \E h \in history' : h.repo = row.repo /\ h.at = row.at /\ h.stars = row.stars
  BY <1>2 DEF RepoToHistoryRow
<1>4. QED
  BY <1>1, <1>3 DEF Stored

\* How an append that neither fails nor is refused ends.
LEMMA AppendOutcome ==
  ASSUME IInv, AppendHistoryBatch, \/ sync' # SyncIdle
                                   \/ faults' = faults /\ schema' = "keyed"
  PROVE  /\ sync.pc = "append" /\ latest' = latest
         /\ history' = history \cup {RepoToHistoryRow(row, "sync") : row \in Batch}
         /\ sync' = IF BatchEnd < Len(sync.rows)
                    THEN [sync EXCEPT !.pc = "upsert", !.done = BatchEnd] ELSE SyncIdle
<1> DEFINE after == history \cup {RepoToHistoryRow(row, "sync") : row \in Batch}
<1>1. sync.pc = "append" /\ latest' = latest
  BY DEF AppendHistoryBatch
<1>2. schema' # "keyless"
  BY DEF AppendHistoryBatch
<1>3. PICK outcome \in [ok : BOOLEAN, table : {history, after}] :
        /\ BulkInsert(history, after, outcome)
        /\ history' = outcome.table
        /\ sync' = IF outcome.ok /\ BatchEnd < Len(sync.rows)
                   THEN [sync EXCEPT !.pc = "upsert", !.done = BatchEnd] ELSE SyncIdle
  BY <1>2 DEF AppendHistoryBatch
<1> HIDE DEF after
<1>4. outcome.ok
  <2>1. CASE sync' # SyncIdle
    BY <1>3, <2>1
  <2>2. CASE faults' = faults
    <3>1. faults \in Nat
      BY Bounds DEF IInv, TypeOK
    <3>2. outcome = [ok |-> TRUE, table |-> after]
      BY <1>3, <2>2, <3>1 DEF BulkInsert, Fault
    <3>3. QED
      BY <3>2
  <2>3. QED
    BY <2>1, <2>2
<1>5. history' = after
  BY <1>3, <1>4 DEF BulkInsert
<1>6. QED
  BY <1>1, <1>3, <1>4, <1>5 DEF after

\* The rows a sync is done with once the batch is stored.
LEMMA DoneStored ==
  ASSUME IInv, IInv', RepairInv, [Next]_vars, sync # SyncIdle,
         \A row \in Batch : Stored(row)'
  PROVE  \A i \in 1 .. BatchEnd : \A row \in {sync.rows[i]} : Stored(row)'
<1> SUFFICES ASSUME NEW i \in 1 .. BatchEnd, NEW row \in {sync.rows[i]} PROVE Stored(row)'
  OBVIOUS
<1>1. sync.rows \in Seq(RepoRow) /\ sync.done \in Nat
  BY TypeParts DEF IInv, SyncType
<1>2. BatchEnd \in Nat /\ BatchEnd <= Len(sync.rows) /\ Len(sync.rows) \in Nat
  BY <1>1, TypeParts, BatchType, LenProperties DEF IInv
<1>3. row \in RepoRow
  BY <1>1, <1>2, ElementOfSeq
<1>4. CASE i \in 1 .. sync.done
  BY <1>3, <1>4, StoredKept DEF RepairInv
<1>5. CASE i \in sync.done + 1 .. BatchEnd
  BY <1>5 DEF Batch
<1>6. QED
  BY <1>1, <1>2, <1>4, <1>5

\* Every step preserves what is true of the rows of the sync.
LEMMA RepairStep ==
  ASSUME IInv, IInv', RepairInv, [Next]_vars
  PROVE  RepairInv'
<1>1. CASE SyncStart
  <2>1. PICK names \in InOrder(Parsable) :
          sync' = [pc |-> "upsert", done |-> 0,
                   rows |-> [i \in DOMAIN names |-> MapRawToDomain(names[i])],
                   disk |-> {MapRawToDomain(r) : r \in Parsable}]
    BY <1>1 DEF SyncStart, JsonFiles
  <2>2. \A r \in Parsable : \E i \in DOMAIN names : names[i] = r
    BY InOrderCovers DEF Parsable
  <2>3. \A row \in sync'.disk : \E i \in DOMAIN sync'.rows : sync'.rows[i] = row
    BY <2>1, <2>2
  <2>4. 1 .. sync'.done = {}
    BY <2>1
  <2>5. QED
    BY <2>3, <2>4 DEF RepairInv
<1>2. CASE /\ sync'.rows = sync.rows /\ sync'.done = sync.done /\ sync'.disk = sync.disk
           /\ sync # SyncIdle
  <2>1. sync.rows \in Seq(RepoRow) /\ sync.done \in Nat /\ sync.done < Len(sync.rows)
    BY <1>2, TypeParts DEF IInv, SyncType
  <2>2. \A i \in 1 .. sync.done : sync.rows[i] \in RepoRow
    <3>1. Len(sync.rows) \in Nat
      BY <2>1, LenProperties
    <3>2. QED
      BY <2>1, <3>1, ElementOfSeq
  <2>3. \A i \in 1 .. sync'.done : Stored(sync.rows[i]) /\ sync'.rows[i] \in RepoRow
    BY <1>2, <2>2 DEF RepairInv
  <2>4. ASSUME NEW i \in 1 .. sync'.done PROVE Stored(sync.rows[i])'
    <3>1. PICK row \in RepoRow : row = sync.rows[i] /\ row = sync'.rows[i]
      BY <1>2, <2>2
    <3>2. Stored(row)'
      BY <2>3, <3>1, StoredKept
    <3>3. QED
      BY <3>1, <3>2 DEF Stored
  <2>5. QED
    BY <1>2, <2>4 DEF RepairInv
<1>3. CASE sync' = SyncIdle
  BY <1>3 DEF RepairInv, SyncIdle
<1>4. CASE AppendHistoryBatch /\ sync' # SyncIdle
  <2>1. /\ sync.pc = "append" /\ latest' = latest
        /\ history' = history \cup {RepoToHistoryRow(row, "sync") : row \in Batch}
        /\ sync' = [sync EXCEPT !.pc = "upsert", !.done = BatchEnd]
    BY <1>4, AppendOutcome
  <2>2. sync # SyncIdle
    BY <2>1 DEF SyncIdle
  <2>3. sync'.rows = sync.rows /\ sync'.done = BatchEnd /\ sync'.disk = sync.disk
    BY <2>1, <2>2, TypeParts DEF IInv, SyncType
  <2>4. \A i \in 1 .. BatchEnd : \A row \in {sync.rows[i]} : Stored(row)'
    BY <2>1, <2>2, BatchStored, DoneStored
  <2>5. ASSUME NEW i \in 1 .. sync'.done PROVE Stored(sync.rows[i])'
    <3>1. PICK row \in {sync.rows[i]} : row = sync'.rows[i]
      BY <2>3
    <3>2. Stored(row)'
      BY <2>3, <2>4, <3>1
    <3>3. QED
      BY <3>1, <3>2 DEF Stored
  <2>6. QED
    BY <2>2, <2>3, <2>5 DEF RepairInv
<1>5. UpsertBatch => sync' = SyncIdle
                     \/ /\ sync'.rows = sync.rows /\ sync'.done = sync.done
                        /\ sync'.disk = sync.disk /\ sync # SyncIdle
  <2> SUFFICES ASSUME UpsertBatch, sync' # SyncIdle
               PROVE  /\ sync'.rows = sync.rows /\ sync'.done = sync.done
                      /\ sync'.disk = sync.disk /\ sync # SyncIdle
    OBVIOUS
  <2>1. sync' = [sync EXCEPT !.pc = "append"] /\ sync # SyncIdle
    BY DEF UpsertBatch, SyncIdle
  <2>2. QED
    BY <2>1, TypeParts DEF IInv, SyncType
<1>6. UNCHANGED sync => sync' = SyncIdle
                        \/ /\ sync'.rows = sync.rows /\ sync'.done = sync.done
                           /\ sync'.disk = sync.disk /\ sync # SyncIdle
  OBVIOUS
<1>7. SyncStart \/ UpsertBatch \/ AppendHistoryBatch \/ UNCHANGED sync
  BY DEF Next, vars, Tick, RefreshRepo, DiscoverRepo, TearFile, EnrichStart,
     BackfillRepoStarCounts, FetchGithubMetadata, InsertMetadata, InsertSnapshot
<1>8. QED
  BY <1>1, <1>2, <1>3, <1>4, <1>5, <1>6, <1>7

\* A sync that comes to its end without a fault and is not refused by the history
\* table leaves every file that was on disk in both tables.
LEMMA EndRepairs ==
  ASSUME IInv, IInv', RepairInv, [Next]_vars,
         sync.pc = "append", sync'.pc = "idle", faults' = faults, schema' = "keyed"
  PROVE  \A row \in sync.disk : Stored(row)'
<1>1. AppendHistoryBatch
  BY DEF Next, vars, Tick, RefreshRepo, DiscoverRepo, TearFile, SyncStart, UpsertBatch,
     EnrichStart, BackfillRepoStarCounts, FetchGithubMetadata, InsertMetadata, InsertSnapshot
<1>2. sync # SyncIdle
  BY DEF SyncIdle
<1>3. /\ latest' = latest
      /\ history' = history \cup {RepoToHistoryRow(row, "sync") : row \in Batch}
      /\ sync' = IF BatchEnd < Len(sync.rows)
                 THEN [sync EXCEPT !.pc = "upsert", !.done = BatchEnd] ELSE SyncIdle
  BY <1>1, AppendOutcome
<1>4. sync.rows \in Seq(RepoRow) /\ Len(sync.rows) \in Nat /\ DOMAIN sync.rows = 1 .. Len(sync.rows)
  BY <1>2, TypeParts, LenProperties DEF IInv, SyncType
<1>5. BatchEnd = Len(sync.rows)
  <2>1. BatchEnd \in Nat /\ BatchEnd <= Len(sync.rows)
    BY <1>2, TypeParts, BatchType DEF IInv
  <2>2. ~(BatchEnd < Len(sync.rows))
    <3>1. SUFFICES ASSUME BatchEnd < Len(sync.rows) PROVE FALSE
      OBVIOUS
    <3>2. sync \in [pc : {"upsert", "append"}, rows : Seq(RepoRow), done : Nat,
                    disk : SUBSET RepoRow]
      BY <1>2, TypeParts DEF IInv, SyncType
    <3>3. sync'.pc = "upsert"
      BY <1>3, <3>1, <3>2
    <3>4. QED
      BY <3>3
  <2>3. QED
    BY <1>4, <2>1, <2>2
<1>6. \A i \in 1 .. BatchEnd : \A row \in {sync.rows[i]} : Stored(row)'
  BY <1>2, <1>3, BatchStored, DoneStored
<1>7. ASSUME NEW row \in sync.disk PROVE Stored(row)'
  <2>1. PICK i \in DOMAIN sync.rows : sync.rows[i] = row
    BY <1>2 DEF RepairInv
  <2>2. QED
    BY <1>4, <1>5, <1>6, <2>1
<1>8. QED
  BY <1>7

\* Whatever earlier runs left half done, whatever ran beside it: a sync that comes
\* to its end has every file that was on disk as it started in both tables.
THEOREM SyncsRepair == Spec => SyncRepairs
<1>1. Init => RepairInv
  BY DEF Init, RepairInv, SyncIdle
<1>2. IInv /\ IInv' /\ RepairInv /\ [Next]_vars => RepairInv'
  BY RepairStep
<1>3. IInv /\ IInv' /\ RepairInv /\ [Next]_vars =>
        [(sync.pc = "append" /\ sync'.pc = "idle" /\ faults' = faults /\ schema' = "keyed")
           => \A row \in sync.disk : Stored(row)']_vars
  BY EndRepairs
<1>4. QED
  BY <1>1, <1>2, <1>3, Invariance, PTL DEF Spec, SyncRepairs

-----------------------------------------------------------------------------
(* What the snapshots say of the stars *)

\* The rows on their way: of the files, of the sync and of the enrichment.
FileRows == {MapRawToDomain(r) : r \in Parsable}
SyncRows == {sync.rows[i] : i \in DOMAIN sync.rows}
EnrichRows == {enrich.got[i] : i \in DOMAIN enrich.got}
KnownRows == FileRows \cup SyncRows \cup EnrichRows \cup history

\* A row shows no more stars than the repository has by now.
Had(row) == row.stars <= Shown(row.repo, now)

\* Stars are never lost, and no row anywhere shows stars that were not gained.
ShownGrows == \A r \in Repos : \A t \in 0 .. now : Shown(r, t) <= Shown(r, now)
RealInv == ShownGrows /\ \A row \in KnownRows : Had(row)

\* The last element of a sequence is one of its set.
LEMMA LastElement ==
  ASSUME NEW S, NEW s \in Seq(S), NEW n \in Nat, Len(s) = n + 1
  PROVE  s[n + 1] \in S
BY ElementOfSeq

\* A known row is of a repository and has a star count.
LEMMA KnownRowsType ==
  ASSUME IInv
  PROVE  \A row \in KnownRows : row.repo \in Repos /\ row.stars \in Nat
<1>1. FileRows \subseteq RepoRow
  BY TypeParts DEF IInv, WorldType, FileRows, Parsable, MapRawToDomain, RepoToRow, RepoRow
<1>2. SyncRows \subseteq RepoRow
  <2>1. CASE sync = SyncIdle
    BY <2>1 DEF SyncRows, SyncIdle
  <2>2. CASE sync.rows \in Seq(RepoRow)
    BY <2>2, LenProperties, ElementOfSeq DEF SyncRows
  <2>3. QED
    BY <2>1, <2>2, TypeParts DEF IInv, SyncType
<1>3. EnrichRows \subseteq RepoRow
  <2>1. enrich.got \in Seq(RepoRow)
    BY TypeParts DEF IInv, EnrichType
  <2>2. QED
    BY <2>1, LenProperties, ElementOfSeq DEF EnrichRows
<1>4. history \subseteq HistoryRow
  BY TypeParts DEF IInv, TableType
<1>5. \A row \in RepoRow \cup HistoryRow : row.repo \in Repos /\ row.stars \in Nat
  BY Bounds DEF RepoRow, HistoryRow, Stars
<1>6. QED
  BY <1>1, <1>2, <1>3, <1>4, <1>5 DEF KnownRows

\* A step leaves the past as it is, and no star is lost in it.
LEMMA ShownStep ==
  ASSUME IInv, IInv', ShownGrows, [Next]_vars
  PROVE  /\ ShownGrows'
         /\ \A r \in Repos : \A t \in 0 .. now : Shown(r, t) <= Shown(r, now)'
<1>1. WorldType /\ now \in Nat
  BY TypeParts, Bounds DEF IInv, WorldType, Ticks
<1>2. CASE UNCHANGED <<now, past>>
  BY <1>2 DEF ShownGrows, Shown
<1>3. CASE Tick
  <2>1. PICK shown \in [Repos -> Stars] :
          /\ \A r \in Repos : shown[r] >= Shown(r, now)
          /\ past' = [r \in Repos |-> Append(past[r], shown[r])]
    BY <1>3 DEF Tick
  <2>2. now' = now + 1
    BY <1>3 DEF Tick
  <2>3. ASSUME NEW r \in Repos
        PROVE  /\ \A t \in 0 .. now : Shown(r, t)' = Shown(r, t)
               /\ Shown(r, now)' = shown[r]
    <3>1. past[r] \in Seq(Stars) /\ Len(past[r]) = now + 1 /\ shown[r] \in Stars
      BY <1>1, <2>1 DEF WorldType
    <3>2. past'[r] = Append(past[r], shown[r])
      BY <2>1
    <3>3. /\ \A i \in 1 .. now + 1 : past'[r][i] = past[r][i]
          /\ past'[r][now + 2] = shown[r]
      BY <1>1, <3>1, <3>2, AppendProperties
    <3>4. \A t \in 0 .. now : t + 1 \in 1 .. now + 1
      BY <1>1
    <3>5. now' + 1 = now + 2
      BY <1>1, <2>2
    <3>6. QED
      BY <3>3, <3>4, <3>5 DEF Shown
  <2>4. ASSUME NEW r \in Repos, NEW t \in 0 .. now
        PROVE  Shown(r, t) <= Shown(r, now)'
    <3>1. Shown(r, t) \in Nat /\ Shown(r, now) \in Nat /\ shown[r] \in Nat
      <4>1. now \in 0 .. now
        BY <1>1
      <4>2. QED
        BY <1>1, <2>1, <4>1, ShownType, Bounds DEF Stars
    <3>2. Shown(r, t) <= Shown(r, now) /\ Shown(r, now) <= shown[r]
      BY <2>1, <3>1 DEF ShownGrows
    <3>3. QED
      BY <2>3, <3>1, <3>2
  <2>5. ASSUME NEW r \in Repos, NEW t \in 0 .. now'
        PROVE  Shown(r, t)' <= Shown(r, now)'
    <3>1. CASE t \in 0 .. now
      BY <2>3, <2>4, <3>1
    <3>2. CASE t = now'
      <4>1. now' \in 0 .. now'
        BY <1>1, <2>2
      <4>2. Shown(r, now)' \in Stars
        BY <2>1, <2>3
      <4>3. QED
        BY <3>2, <4>2, Bounds DEF Shown, Stars
    <3>3. QED
      BY <1>1, <2>2, <3>1, <3>2
  <2>6. QED
    BY <2>4, <2>5 DEF ShownGrows
<1>4. QED
  BY <1>2, <1>3 DEF Next, vars, world, RefreshRepo, DiscoverRepo, TearFile, SyncStart,
     UpsertBatch, AppendHistoryBatch, EnrichStart, BackfillRepoStarCounts,
     FetchGithubMetadata, InsertMetadata, InsertSnapshot

\* Where the stars of a row come from: another row of the same repository, or
\* what GitHub showed in a tick that has come.
Source(row) ==
  /\ row.repo \in Repos
  /\ \/ \E known \in KnownRows : known.repo = row.repo /\ known.stars = row.stars
     \/ \E t \in 0 .. now : row.stars = Shown(row.repo, t)

\* A known row is its own source.
LEMMA KnownSource ==
  ASSUME IInv
  PROVE  \A row \in KnownRows : Source(row)
BY KnownRowsType DEF Source

\* A file is written with what GitHub showed.
LEMMA FileSource ==
  ASSUME IInv, [Next]_vars
  PROVE  \A row \in FileRows' : Source(row)
<1>1. WorldType /\ now \in 0 .. now
  BY TypeParts, Bounds DEF IInv, WorldType, Ticks
<1>2. ASSUME NEW r \in Repos, NEW t \in 0 .. now,
             file' = [file EXCEPT ![r] = RepoToRow(r, Shown(r, t), t)]
      PROVE  \A row \in FileRows' : Source(row)
  <2> SUFFICES ASSUME NEW q \in Repos, file'[q] \notin {None, Torn}
               PROVE  Source(RepoToRow(q, file'[q].stars, file'[q].at))
    BY DEF FileRows, Parsable, MapRawToDomain
  <2>1. CASE q = r
    <3>1. file'[q].stars = Shown(r, t)
      BY <1>1, <1>2, <2>1 DEF WorldType, RepoToRow
    <3>2. QED
      BY <2>1, <3>1 DEF Source, RepoToRow
  <2>2. CASE q # r
    <3>1. file'[q] = file[q]
      BY <1>1, <1>2, <2>2 DEF WorldType
    <3>2. RepoToRow(q, file[q].stars, file[q].at) \in KnownRows
      BY <3>1 DEF KnownRows, FileRows, Parsable, MapRawToDomain
    <3>3. QED
      BY <3>1, <3>2, KnownSource
  <2>3. QED
    BY <2>1, <2>2
<1>3. CASE UNCHANGED file
  <2>1. FileRows' = FileRows
    BY <1>3 DEF FileRows, Parsable, MapRawToDomain
  <2>2. QED
    BY <2>1, KnownSource DEF KnownRows
<1>4. CASE \E r \in Repos : RefreshRepo(r)
  BY <1>1, <1>2, <1>4 DEF RefreshRepo, MapRepoResponse
<1>5. CASE \E r \in Repos : DiscoverRepo(r)
  <2>1. PICK r \in Repos : \E t \in 0 .. now :
          file' = [file EXCEPT ![r] = RepoToRow(r, Shown(r, t), t)]
    BY <1>1, <1>5 DEF DiscoverRepo
  <2>2. QED
    BY <1>2, <2>1
<1>6. CASE \E r \in Repos : TearFile(r)
  <2>1. PICK r \in Repos : file' = [file EXCEPT ![r] = Torn]
    BY <1>6 DEF TearFile
  <2>2. FileRows' \subseteq FileRows
    <3>1. \A q \in Repos : file'[q] \notin {None, Torn} => file'[q] = file[q] /\ file[q] \notin {None, Torn}
      BY <1>1, <2>1 DEF WorldType
    <3>2. QED
      BY <3>1 DEF FileRows, Parsable, MapRawToDomain
  <2>3. QED
    BY <2>2, KnownSource DEF KnownRows
<1>7. QED
  BY <1>3, <1>4, <1>5, <1>6 DEF Next, vars, world, Tick, SyncStart, UpsertBatch,
     AppendHistoryBatch, EnrichStart, BackfillRepoStarCounts, FetchGithubMetadata,
     InsertMetadata, InsertSnapshot

\* The sync has the rows of the files.
LEMMA SyncSource ==
  ASSUME IInv, [Next]_vars
  PROVE  \A row \in SyncRows' : Source(row)
<1>1. CASE SyncStart
  <2>1. PICK names \in JsonFiles :
          sync' = [pc |-> "upsert", done |-> 0,
                   rows |-> [i \in DOMAIN names |-> MapRawToDomain(names[i])],
                   disk |-> {MapRawToDomain(r) : r \in Parsable}]
    BY <1>1 DEF SyncStart
  <2>2. \A i \in DOMAIN names : names[i] \in Parsable
    BY DEF JsonFiles, InOrder
  <2>3. SyncRows' \subseteq FileRows
    BY <2>1, <2>2 DEF SyncRows, FileRows
  <2>4. QED
    BY <2>3, KnownSource DEF KnownRows
<1>2. CASE sync'.rows = sync.rows
  <2>1. SyncRows' = SyncRows
    BY <1>2 DEF SyncRows
  <2>2. QED
    BY <2>1, KnownSource DEF KnownRows
<1>3. CASE sync' = SyncIdle
  BY <1>3 DEF SyncRows, SyncIdle
<1>4. ASSUME UpsertBatch \/ AppendHistoryBatch PROVE sync' = SyncIdle \/ sync'.rows = sync.rows
  <2>1. sync # SyncIdle
    BY <1>4 DEF UpsertBatch, AppendHistoryBatch, SyncIdle
  <2>2. sync \in [pc : {"upsert", "append"}, rows : Seq(RepoRow), done : Nat,
                  disk : SUBSET RepoRow]
    BY <2>1, TypeParts DEF IInv, SyncType
  <2>3. \/ sync' = SyncIdle
        \/ sync' = [sync EXCEPT !.pc = "append"]
        \/ sync' = [sync EXCEPT !.pc = "upsert", !.done = BatchEnd]
    BY <1>4 DEF UpsertBatch, AppendHistoryBatch
  <2>4. QED
    BY <2>2, <2>3
<1>5. QED
  BY <1>1, <1>2, <1>3, <1>4 DEF Next, vars, Tick, RefreshRepo, DiscoverRepo, TearFile,
     EnrichStart, BackfillRepoStarCounts, FetchGithubMetadata, InsertMetadata, InsertSnapshot

\* The enrichment has the rows of what was answered.
LEMMA EnrichSource ==
  ASSUME IInv, [Next]_vars
  PROVE  \A row \in EnrichRows' : Source(row)
<1>1. WorldType /\ EnrichType /\ now \in 0 .. now
  BY TypeParts, Bounds DEF IInv, WorldType, Ticks
<1>2. enrich.got \in Seq(RepoRow) /\ Len(enrich.got) \in Nat /\ DOMAIN enrich.got = 1 .. Len(enrich.got)
  BY <1>1, LenProperties DEF EnrichType
<1>3. CASE enrich'.got = enrich.got
  <2>1. EnrichRows' = EnrichRows
    BY <1>3 DEF EnrichRows
  <2>2. QED
    BY <2>1, KnownSource DEF KnownRows
<1>4. CASE enrich'.got = <<>>
  BY <1>4 DEF EnrichRows
<1>5. CASE FetchGithubMetadata
  <2> DEFINE n == IF Len(enrich.todo) < FetchBatch THEN Len(enrich.todo) ELSE FetchBatch
             batch == SubSeq(enrich.todo, 1, n)
             rest == SubSeq(enrich.todo, n + 1, Len(enrich.todo))
             got(repos) == [i \in DOMAIN repos |-> RepoToRow(repos[i], Shown(repos[i], now), now)]
  <2>1. PICK answered \in SUBSET {batch[i] : i \in 1 .. n} : \E repos \in Selected(batch, answered) :
           enrich' = Enrichment(rest, got(repos))
    BY <1>5 DEF FetchGithubMetadata
  <2>2. PICK repos \in Selected(batch, answered) : enrich' = Enrichment(rest, got(repos))
    BY <2>1
  <2>3. \A i \in DOMAIN repos : repos[i] \in Repos
    <3>1. enrich.todo \in Seq(Repos) /\ Len(enrich.todo) \in Nat
      BY <1>1, LenProperties DEF EnrichType
    <3>2. n \in Nat /\ n <= Len(enrich.todo)
      BY <3>1, Bounds
    <3>3. batch \in Seq(Repos) /\ Len(batch) = n
      BY <3>1, <3>2, SubSeqProperties, ElementOfSeq
    <3>4. answered \in SUBSET Repos
      BY <2>1, <3>3, ElementOfSeq
    <3>5. repos \in Seq(answered)
      BY <3>4, SelectedType
    <3>6. QED
      BY <3>4, <3>5, LenProperties, ElementOfSeq
  <2>4. enrich'.got = got(repos)
    BY <2>2 DEF Enrichment
  <2> HIDE DEF got
  <2>5. ASSUME NEW i \in DOMAIN repos PROVE Source(RepoToRow(repos[i], Shown(repos[i], now), now))
    BY <1>1, <2>3 DEF Source, RepoToRow
  <2>6. QED
    BY <2>4, <2>5 DEF EnrichRows, got
<1>6. CASE InsertMetadata /\ enrich'.got = [enrich.got EXCEPT ![1] = EnrichedRow]
  <2>1. enrich.got # <<>>
    BY <1>1, <1>6 DEF InsertMetadata, EnrichType
  <2>2. 1 \in DOMAIN enrich.got /\ Head(enrich.got) = enrich.got[1]
    BY <1>2, <2>1, EmptySeq
  <2>3. enrich.got[1] \in KnownRows
    BY <2>2 DEF KnownRows, EnrichRows
  <2>4. EnrichedRow.repo = enrich.got[1].repo /\ EnrichedRow.stars = enrich.got[1].stars
    BY <2>2 DEF EnrichedRow, RepoToRow
  <2>5. Source(EnrichedRow)
    BY <2>3, <2>4, KnownRowsType DEF Source
  <2>6. \A i \in DOMAIN enrich.got : Source(enrich.got[i])
    BY KnownSource DEF KnownRows, EnrichRows
  <2>7. \A i \in DOMAIN enrich.got : enrich'.got[i] \in {EnrichedRow, enrich.got[i]}
    BY <1>2, <1>6
  <2>8. QED
    BY <1>2, <1>6, <2>5, <2>6, <2>7 DEF EnrichRows
<1>7. CASE InsertSnapshot /\ enrich'.got = Tail(enrich.got)
  <2>1. enrich.got # <<>>
    BY <1>1, <1>7 DEF InsertSnapshot, EnrichType
  <2>2. EnrichRows' \subseteq EnrichRows
    BY <1>2, <1>7, <2>1, HeadTailProperties, LenProperties DEF EnrichRows
  <2>3. QED
    BY <2>2, KnownSource DEF KnownRows
<1>8. ASSUME InsertMetadata \/ InsertSnapshot \/ BackfillRepoStarCounts \/ EnrichStart
      PROVE  \/ enrich'.got \in {enrich.got, <<>>}
             \/ InsertMetadata /\ enrich'.got = [enrich.got EXCEPT ![1] = EnrichedRow]
             \/ InsertSnapshot /\ enrich'.got = Tail(enrich.got)
  <2>2. CASE InsertMetadata
    <3>1. \/ enrich' = [enrich EXCEPT !.pc = "append", !.got[1] = EnrichedRow]
          \/ enrich' = EnrichIdle
      BY <2>2 DEF InsertMetadata
    <3>2. enrich'.got \in {<<>>, [enrich.got EXCEPT ![1] = EnrichedRow]}
      <4>1. enrich \in [pc : {"idle", "count", "fetch", "upsert", "append"},
                        todo : Seq(Repos), got : Seq(RepoRow)]
        BY <1>1 DEF EnrichType
      <4>2. enrich' = [enrich EXCEPT !.pc = "append", !.got[1] = EnrichedRow]
              => enrich'.got = [enrich.got EXCEPT ![1] = EnrichedRow]
        BY <4>1
      <4>3. QED
        BY <3>1, <4>2 DEF EnrichIdle
    <3>3. QED
      BY <2>2, <3>2
  <2>3. CASE InsertSnapshot
    <3>1. enrich' \in {EnrichIdle, Enrichment(enrich.todo, Tail(enrich.got))}
      BY <2>3 DEF InsertSnapshot
    <3>2. enrich'.got \in {<<>>, Tail(enrich.got)}
      BY <3>1 DEF EnrichIdle, Enrichment
    <3>3. QED
      BY <2>3, <3>2
  <2>4. CASE BackfillRepoStarCounts \/ EnrichStart
    BY <2>4 DEF BackfillRepoStarCounts, EnrichStart, EnrichIdle, Enrichment
  <2>5. QED
    BY <1>8, <2>2, <2>3, <2>4
<1>9. QED
  BY <1>3, <1>4, <1>5, <1>6, <1>7, <1>8 DEF Next, vars, Tick, RefreshRepo, DiscoverRepo,
     TearFile, SyncStart, UpsertBatch, AppendHistoryBatch

\* A snapshot is of a row of the sync or of the enrichment.
LEMMA HistorySource ==
  ASSUME IInv, [Next]_vars
  PROVE  \A row \in history' : Source(row)
<1>1. CASE history' = history
  BY <1>1, KnownSource DEF KnownRows
<1>2. CASE AppendHistoryBatch
  <2> DEFINE added == {RepoToHistoryRow(row, "sync") : row \in Batch}
  <2>1. history' \subseteq history \cup added
    <3>1. history' = history
            \/ \E outcome \in [ok : BOOLEAN, table : {history, history \cup added}] :
                 history' = outcome.table
      BY <1>2 DEF AppendHistoryBatch
    <3> HIDE DEF added
    <3>2. QED
      BY <3>1
  <2>2. Batch \subseteq SyncRows
    <3>1. sync # SyncIdle
      BY <1>2 DEF AppendHistoryBatch, SyncIdle
    <3>2. sync.rows \in Seq(RepoRow) /\ sync.done \in Nat
      BY <3>1, TypeParts DEF IInv, SyncType
    <3>3. BatchEnd \in Nat /\ BatchEnd <= Len(sync.rows)
      BY <3>1, TypeParts, BatchType DEF IInv
    <3>4. QED
      BY <3>2, <3>3, LenProperties DEF Batch, SyncRows
  <2>3. ASSUME NEW row \in Batch PROVE Source(RepoToHistoryRow(row, "sync"))
    <3>1. row \in KnownRows
      BY <2>2 DEF KnownRows
    <3>2. QED
      BY <3>1, KnownRowsType DEF Source, RepoToHistoryRow
  <2>4. QED
    BY <2>1, <2>3, KnownSource DEF KnownRows
<1>3. CASE InsertSnapshot
  <2> DEFINE row == Head(enrich.got)
  <2>1. history' \subseteq history \cup {RepoToHistoryRow(row, "enrich")}
    BY <1>3 DEF InsertSnapshot
  <2>2. row \in EnrichRows
    <3>1. enrich.got \in Seq(RepoRow) /\ enrich.got # <<>>
      BY <1>3, TypeParts DEF IInv, EnrichType, InsertSnapshot
    <3>2. QED
      BY <3>1, LenProperties, EmptySeq DEF EnrichRows
  <2>3. Source(RepoToHistoryRow(row, "enrich"))
    <3>1. row \in KnownRows
      BY <2>2 DEF KnownRows
    <3>2. QED
      BY <3>1, KnownRowsType DEF Source, RepoToHistoryRow
  <2>4. QED
    BY <2>1, <2>3, KnownSource DEF KnownRows
<1>4. QED
  BY <1>1, <1>2, <1>3 DEF Next, vars, tables, Tick, RefreshRepo, DiscoverRepo, TearFile,
     SyncStart, UpsertBatch, EnrichStart, BackfillRepoStarCounts, FetchGithubMetadata,
     InsertMetadata

\* Every step preserves it: a row has its stars from a row before it or from GitHub.
LEMMA RealStep ==
  ASSUME IInv, IInv', RealInv, [Next]_vars
  PROVE  RealInv'
<1>1. ShownGrows'
  BY ShownStep DEF RealInv
<1>2. ASSUME NEW row \in KnownRows' PROVE row.stars <= Shown(row.repo, now)'
  <2>1. Source(row)
    BY FileSource, SyncSource, EnrichSource, HistorySource DEF KnownRows
  <2>2. row.repo \in Repos
    BY <2>1 DEF Source
  <2>3. \A t \in 0 .. now : Shown(row.repo, t) <= Shown(row.repo, now)'
    BY <2>2, ShownStep DEF RealInv
  <2>4. CASE \E t \in 0 .. now : row.stars = Shown(row.repo, t)
    BY <2>3, <2>4
  <2>5. CASE \E known \in KnownRows : known.repo = row.repo /\ known.stars = row.stars
    <3>1. row.stars \in Nat /\ row.stars <= Shown(row.repo, now)
      BY <2>5, KnownRowsType DEF RealInv, Had
    <3>2. WorldType /\ now \in 0 .. now
      BY TypeParts, Bounds DEF IInv, WorldType, Ticks
    <3>3. Shown(row.repo, now) \in Nat /\ Shown(row.repo, now)' \in Nat
      <4>1. Shown(row.repo, now) \in Stars
        BY <2>2, <3>2, ShownType
      <4>2. Shown(row.repo, now)' \in Stars
        <5>1. /\ now' \in Ticks /\ past' \in [Repos -> Seq(Stars)]
              /\ \A r \in Repos : Len(past'[r]) = now' + 1
          BY DEF IInv, TypeOK
        <5>2. now' \in Nat
          BY <5>1, Bounds DEF Ticks
        <5>3. past'[row.repo] \in Seq(Stars) /\ Len(past'[row.repo]) = now' + 1
          BY <2>2, <5>1
        <5>4. QED
          BY <5>2, <5>3, LastElement DEF Shown
      <4>3. QED
        BY <4>1, <4>2, Bounds DEF Stars
    <3>4. QED
      BY <2>3, <3>1, <3>2, <3>3
  <2>6. QED
    BY <2>1, <2>4, <2>5 DEF Source
<1>3. QED
  BY <1>1, <1>2 DEF RealInv, Had

\* It holds at first: the tables are empty and no tick has passed.
LEMMA RealInit == Init => RealInv
<1> SUFFICES ASSUME Init PROVE RealInv
  OBVIOUS
<1>1. KnownRows = {}
  BY DEF Init, KnownRows, FileRows, SyncRows, EnrichRows, Parsable
<1>2. ShownGrows
  <2>1. now = 0 /\ WorldType
    BY InitInv, TypeParts DEF Init, IInv
  <2>2. \A r \in Repos : Shown(r, 0) \in Nat
    BY <2>1, ShownType, Bounds DEF Stars
  <2>3. QED
    BY <2>1, <2>2 DEF ShownGrows
<1>3. QED
  BY <1>1, <1>2 DEF RealInv

\* With fresh snapshots of the tick before the week, the newest rows of the
\* baseline are these.
LEMMA BaselineFresh ==
  ASSUME IInv, NEW r \in Repos, FreshBaseline(r), Lookback >= 1
  PROVE  Baseline(r) = {Shown(r, WeekStart - 1)}
<1> DEFINE rows == Rows(r, WeekStart - Lookback, WeekStart)
           last == Rows(r, WeekStart - 1, WeekStart)
<1>1. WeekStart \in Int /\ Lookback \in Nat
  <2>1. now \in Nat /\ WeekLength \in Nat \ {0} /\ Lookback \in Nat
    BY MetadataAssumption, Bounds DEF IInv, TypeOK, Ticks
  <2>2. now % WeekLength \in Int
    BY <2>1
  <2>3. QED
    BY <2>1, <2>2 DEF WeekStart
<1> DEFINE W == WeekStart
<1>2. \A h \in history : h.at \in Nat
  BY Bounds DEF IInv, TypeOK, Ticks
<1> HIDE DEF W
<1>3. W \in Int
  BY <1>1 DEF W
<1>4. \A h \in last : h \in history /\ h.repo = r /\ h.at = W - 1 /\ h \in rows
  BY <1>1, <1>2, <1>3 DEF Rows, W
<1>5. \A h \in rows : h \in history /\ h.repo = r /\ h.at < W /\ h.at \in Nat
  BY <1>2 DEF Rows, W
<1>6. last # {} /\ \A h \in last : h.stars = Shown(r, h.at)
  BY DEF FreshBaseline
<1>7. \A h \in rows : h.at = W - 1 => h \in last
  BY <1>1, <1>3, <1>5 DEF Rows, W
<1>8. Newest(rows) = last
  <2>1. \A h \in Newest(rows) : h \in last
    <3> SUFFICES ASSUME NEW h \in Newest(rows) PROVE h.at = W - 1 /\ h \in rows
      BY <1>7
    <3>1. h \in rows /\ \A g \in rows : g.at <= h.at
      BY DEF Newest
    <3>2. PICK g \in last : TRUE
      BY <1>6
    <3>3. W - 1 <= h.at
      BY <1>4, <3>1, <3>2
    <3>4. QED
      BY <1>3, <1>5, <3>1, <3>3
  <2>2. \A h \in last : h \in Newest(rows)
    BY <1>3, <1>4, <1>5 DEF Newest
  <2>3. QED
    BY <2>1, <2>2
<1> HIDE DEF rows, last
<1>9. rows # {}
  BY <1>4, <1>6
<1>10. Baseline(r) = {h.stars : h \in last}
  BY <1>8, <1>9 DEF Baseline, rows
<1>11. \A h \in last : h.stars = Shown(r, WeekStart - 1)
  BY <1>4, <1>6 DEF W
<1>12. QED
  BY <1>6, <1>10, <1>11

\* Growth of the current week that the dashboard shows was gained in it, and a
\* crossing of the threshold that it reports happened in it: for every repository
\* the week of which began with a fresh snapshot.
THEOREM GrowthIsReal == Spec => []GrowthOfTheWeek
<1>1. IInv /\ RealInv => GrowthOfTheWeek
  <2> SUFFICES ASSUME IInv, RealInv, NEW r \in Repos, FreshBaseline(r)
               PROVE  LET before == Shown(r, WeekStart - 1)
                      IN  /\ \A t \in GetTrending : t.repo = r => t.gain <= Shown(r, now) - before
                          /\ r \in GetNewReposReaching10k =>
                               before < Threshold /\ Shown(r, now) >= Threshold
    BY DEF GrowthOfTheWeek
  <2> DEFINE before == Shown(r, WeekStart - 1)
  <2>1. WorldType /\ TableType /\ now \in Nat /\ now \in 0 .. now /\ Lookback \in Nat
    BY TypeParts, MetadataAssumption DEF IInv, WorldType, Ticks
  <2>2. WeekStart \in Int /\ WeekStart <= now
    <3>1. now % WeekLength \in 0 .. WeekLength - 1
      BY <2>1, MetadataAssumption
    <3>2. QED
      BY <2>1, <3>1, MetadataAssumption DEF WeekStart
  <2>3. WeekStart - 1 \in 0 .. now
    <3>1. PICK h \in Rows(r, WeekStart - 1, WeekStart) : TRUE
      BY DEF FreshBaseline
    <3>2. h \in history /\ h.at < WeekStart
      BY DEF Rows
    <3>3. h.at \in Nat
      BY <2>1, <3>2, Bounds DEF TableType, HistoryRow, Ticks
    <3>4. QED
      BY <2>1, <2>2, <3>2, <3>3
  <2>4. before \in Nat /\ Shown(r, now) \in Nat /\ before <= Shown(r, now)
    BY <2>1, <2>3, ShownType, Bounds DEF Stars, RealInv, ShownGrows
  <2>5. \A h \in Current(r) : Lookback >= 1 /\ h.stars \in Nat /\ h.stars <= Shown(r, now)
    <3> SUFFICES ASSUME NEW h \in Current(r)
                 PROVE  Lookback >= 1 /\ h.stars \in Nat /\ h.stars <= Shown(r, now)
      OBVIOUS
    <3>1. h \in history /\ h.repo = r /\ now + 1 - Lookback <= h.at /\ h.at < now + 1
      BY DEF Current, Newest, Rows
    <3>2. h.at \in Nat /\ h.stars \in Nat
      BY <2>1, <3>1, Bounds DEF TableType, HistoryRow, Ticks, Stars
    <3>3. h.stars <= Shown(r, now)
      BY <3>1 DEF RealInv, KnownRows, Had
    <3>4. QED
      BY <2>1, <3>1, <3>2, <3>3
  <2>6. \A h \in Current(r), b \in Baseline(r) :
          b = before /\ h.stars \in Nat /\ h.stars <= Shown(r, now)
    BY <2>5, BaselineFresh
  <2> HIDE DEF before
  <2>7. ASSUME NEW t \in GetTrending, t.repo = r
        PROVE  t.gain <= Shown(r, now) - before
    <3>1. t \in Trending
      BY <2>7 DEF GetTrending
    <3>2. PICK q \in Repos :
            t \in {[repo |-> q, gain |-> Gain(h.stars, b)] : h \in Current(q), b \in Baseline(q)}
      BY <3>1 DEF Trending
    <3>3. PICK h \in Current(q), b \in Baseline(q) : t = [repo |-> q, gain |-> Gain(h.stars, b)]
      BY <3>2
    <3>4. q = r /\ t.gain = Gain(h.stars, b)
      BY <2>7, <3>3
    <3>5. b = before /\ h.stars \in Nat /\ h.stars <= Shown(r, now)
      BY <2>6, <3>3, <3>4
    <3>6. QED
      BY <2>4, <3>4, <3>5 DEF Gain, before
  <2>8. ASSUME r \in GetNewReposReaching10k
        PROVE  before < Threshold /\ Shown(r, now) >= Threshold
    <3>1. r \in ReachingThreshold
      BY <2>8 DEF GetNewReposReaching10k
    <3>2. PICK h \in Current(r), b \in Baseline(r) : b < Threshold /\ h.stars >= Threshold
      BY <3>1 DEF ReachingThreshold
    <3>3. b = before /\ h.stars \in Nat /\ h.stars <= Shown(r, now)
      BY <2>6, <3>2
    <3>4. QED
      BY <2>4, <3>2, <3>3, MetadataAssumption DEF before
  <2>9. QED
    BY <2>7, <2>8 DEF before
<1>2. QED
  BY <1>1, RealInit, RealStep, Invariance, PTL DEF Spec
=============================================================================
