--------------------------- MODULE CatalogDiscovery ---------------------------
(***************************************************************************)
(* DiscoverRepoCatalogUseCase: GitHub Search answers with a bounded number  *)
(* of results, so the space of (stars, creation date) is split into shards  *)
(* until each is small enough, every shard is read page by page, the full   *)
(* metadata of what was found is fetched, and the catalog is written.       *)
(* GitHub is external and alive: repositories gain and lose stars between   *)
(* any two requests.  The recursion of _collect_shards is a set of shards   *)
(* still to be counted, taken from left to right.  A day is a number.       *)
(***************************************************************************)
EXTENDS Integers, FiniteSets

CONSTANTS
  Repos,         \* the repositories GitHub knows, numbered
  CreatedOn,     \* creation date of each
  MinStars,      \* repo_discovery_min_stars
  TopStars,      \* bound: the most stars a repository can have
  StartDate,     \* repo_discovery_start_date
  Today,
  MaxShardSize,  \* repo_discovery_max_shard_size (900)
  SearchCap,     \* results GitHub Search serves for one query (1000)
  PageSize,      \* _SEARCH_PAGE_SIZE (100)
  BatchSize,     \* _METADATA_FETCH_BATCH_SIZE (10)
  Limit,         \* execute's limit; the command line sets none
  MaxMoves,      \* bound: changes of a star count
  MaxRuns,       \* bound: runs of the use case
  MaxKills       \* bound: runs that are killed

ASSUME DiscoveryAssumption ==
  /\ Repos \subseteq Nat /\ IsFiniteSet(Repos)
  /\ CreatedOn \in [Repos -> Nat]
  /\ MinStars \in Nat \ {0} /\ TopStars \in Nat
  /\ StartDate \in Nat /\ Today \in Nat /\ StartDate <= Today
  /\ MaxShardSize \in Nat \ {0} /\ SearchCap \in Nat /\ MaxShardSize <= SearchCap
  /\ PageSize \in Nat \ {0} /\ BatchSize \in Nat \ {0} /\ Limit \in Nat
  /\ MaxMoves \in Nat /\ MaxRuns \in Nat /\ MaxKills \in Nat

VARIABLES
  stars,     \* star count of each repository, now
  phase,     \* where execute stands
  root,      \* the root shard
  pending,   \* shards _collect_shards has still to count
  leaves,    \* shard_results
  searched,  \* leaves whose pages have all been read
  page,      \* next page of the leaf being read
  found,     \* repo_candidates: the star count each was found with
  start,     \* start of the next metadata batch
  fetched,   \* full_repos
  written,   \* repositories whose file this run has written
  files,     \* the run each repository's file was written by (0: no whole file)
  latest,    \* latest.json
  run,       \* number of the run
  moved,     \* history: repositories whose stars changed since the run's first request
  kills      \* runs killed so far

search == <<root, pending, leaves, searched, page, found>>
output == <<start, fetched, written>>
disk == <<files, latest>>
env == <<stars, moved, kills>>
vars == <<phase, run, search, output, disk, env>>

NoSnapshot == [run |-> 0, repos |-> {}, count |-> 0]
NoShard == [min |-> 0, max |-> 0, after |-> 0, before |-> 0]

Enter(next) == phase' = next

\* execute returns or raises, or dies: its locals are gone.
Return ==
  /\ Enter("idle")
  /\ root' = NoShard
  /\ pending' = {} /\ leaves' = {} /\ searched' = {} /\ page' = 1
  /\ found' = [r \in {} |-> 0]
  /\ start' = 0 /\ fetched' = {} /\ written' = {}
  /\ moved' = {}

-----------------------------------------------------------------------------
(* GitHub Search (external) *)

Matches(s, r) ==
  /\ s.min <= stars[r] /\ stars[r] <= s.max
  /\ s.after <= CreatedOn[r] /\ CreatedOn[r] <= s.before

Matching(s) == {r \in Repos : Matches(s, r)}

\* sort=stars, order=desc; ties stay in a fixed order.
Ahead(of, x, r) == of[x] > of[r] \/ (of[x] = of[r] /\ x < r)
Position(of, S, r) == Cardinality({x \in S : Ahead(of, x, r)})

\* One page of a query, as far as GitHub serves it.
SearchPage(s, p) ==
  {r \in Matching(s) :
     /\ Position(stars, Matching(s), r) \div PageSize = p - 1
     /\ Position(stars, Matching(s), r) < SearchCap}

-----------------------------------------------------------------------------
(* Splitting *)

\* Mutant: the right half starts at the midpoint.
RightStarsFromMidpoint(s) == [s EXCEPT !.min = (s.min + s.max) \div 2]

LeftStars(s) == [s EXCEPT !.max = (s.min + s.max) \div 2]
RightStars(s) == [s EXCEPT !.min = (s.min + s.max) \div 2 + 1]

DateMidpoint(s) == s.after + (s.before - s.after) \div 2
LeftDates(s) == [s EXCEPT !.before = DateMidpoint(s)]
RightDates(s) == [s EXCEPT !.after = DateMidpoint(s) + 1]

\* Mutant: a range of one star value is still split by stars.
SplitByStars(s) ==
  CASE s.min <= s.max -> {LeftStars(s), RightStars(s)}
    [] s.min > s.max /\ s.after < s.before -> {LeftDates(s), RightDates(s)}
    [] OTHER -> {}

\* The shards that replace s: by stars as long as the range has two values,
\* then by date; none when neither can be split.
Split(s) ==
  CASE s.min < s.max -> {LeftStars(s), RightStars(s)}
    [] s.min >= s.max /\ s.after < s.before -> {LeftDates(s), RightDates(s)}
    [] OTHER -> {}

\* Left before right, the order of the recursion and of shard_results.
NotAfter(s, t) == s.min < t.min \/ (s.min = t.min /\ s.after <= t.after)

-----------------------------------------------------------------------------
(* execute *)

Begin ==
  /\ phase = "idle" /\ run < MaxRuns
  /\ Enter("top")
  /\ run' = run + 1
  /\ UNCHANGED <<search, output, disk, env>>

\* get_repository_search_max_stars: the stars of the first hit of the widest query,
\* 0 if it has none.
SearchMaxStars ==
  {top \in {0} \cup {stars[r] : r \in Repos} :
     /\ \A r \in Repos : stars[r] >= MinStars => stars[r] <= top
     /\ top = 0 \/ top >= MinStars
     /\ top = 0 => \A r \in Repos : stars[r] < MinStars}

\* The root shard reaches from the threshold to the most stars there are.
ReadTop ==
  /\ phase = "top"
  /\ \E top \in SearchMaxStars :
       \/ /\ top < MinStars
          /\ Return
       \/ /\ top >= MinStars
          /\ Enter("collect")
          /\ root' = [min |-> MinStars, max |-> top,
                      after |-> StartDate, before |-> Today]
          /\ pending' = {root'}
          /\ UNCHANGED <<leaves, searched, page, found, output, moved>>
  /\ UNCHANGED <<run, disk, stars, kills>>

Counted == UNCHANGED <<phase, root, searched, page, found, output, moved>>

\* count_repositories on the next shard, and what follows from the count.
CountShard ==
  /\ phase = "collect"
  /\ \E s \in pending :
       LET count == Cardinality(Matching(s))
       IN  /\ \A t \in pending : NotAfter(s, t)
           /\ \/ /\ count = 0
                 /\ pending' = pending \ {s}
                 /\ Counted /\ UNCHANGED leaves
              \/ /\ count \in 1 .. MaxShardSize
                 /\ pending' = pending \ {s}
                 /\ leaves' = leaves \cup {[shard |-> s, matched |-> count]}
                 /\ Counted
              \/ /\ count > MaxShardSize /\ Split(s) # {}
                 /\ pending' = (pending \ {s}) \cup Split(s)
                 /\ Counted /\ UNCHANGED leaves
              \/ /\ count > MaxShardSize /\ Split(s) = {}
                 /\ Return   \* ValidationError
  /\ UNCHANGED <<run, disk, stars, kills>>

\* _collect_shards returns.
ShardsCollected ==
  /\ phase = "collect" /\ pending = {}
  /\ Enter("search")
  /\ UNCHANGED <<run, search, output, disk, env>>

\* Mutant: the last page is not read.
PageCountShort(leaf) == (leaf.matched + PageSize - 1) \div PageSize - 1

\* math.ceil(matched_count / _SEARCH_PAGE_SIZE)
PageCount(leaf) == (leaf.matched + PageSize - 1) \div PageSize

Found(items) ==
  [r \in DOMAIN found \cup items |-> IF r \in items THEN stars[r] ELSE found[r]]

\* One page of the next leaf goes into repo_candidates, by name.
ReadPage ==
  /\ phase = "search"
  /\ \E leaf \in leaves \ searched :
       /\ \A other \in leaves \ searched : NotAfter(leaf.shard, other.shard)
       /\ found' = Found(SearchPage(leaf.shard, page))
       /\ IF page < PageCount(leaf)
            THEN page' = page + 1 /\ UNCHANGED searched
            ELSE page' = 1 /\ searched' = searched \cup {leaf}
  /\ UNCHANGED <<phase, run, root, pending, leaves, output, disk, env>>

PagesRead ==
  /\ phase = "search" /\ searched = leaves
  /\ Enter("fetch")
  /\ UNCHANGED <<run, search, output, disk, env>>

\* _sort_candidates, and the limit.
Rank(r) == Position(found, DOMAIN found, r)
Chosen == {r \in DOMAIN found : Rank(r) < Limit}

\* fetch_repository_metadata of each of some repositories: those GitHub answers for.
FetchRepositoryMetadata(repos) == SUBSET repos

\* gather over one batch: lookups that fail are logged and left out.
FetchBatch ==
  /\ phase = "fetch" /\ start < Cardinality(Chosen)
  /\ \E ok \in FetchRepositoryMetadata(
                {r \in Chosen : Rank(r) \in start .. start + BatchSize - 1}) :
       fetched' = fetched \cup ok
  /\ start' = start + BatchSize
  /\ UNCHANGED <<phase, run, search, written, disk, env>>

BatchesFetched ==
  /\ phase = "fetch" /\ start >= Cardinality(Chosen)
  /\ Enter("write")
  /\ UNCHANGED <<run, search, output, disk, env>>

-----------------------------------------------------------------------------
(* _write_outputs *)

\* Mutant: a file is written for every candidate.
NextCandidateFile(r) ==
  /\ r \in Chosen \ written
  /\ \A x \in Chosen \ written : Rank(r) <= Rank(x)

NextFile(r) ==
  /\ r \in fetched \ written
  /\ \A x \in fetched \ written : Rank(r) <= Rank(x)

WriteFile ==
  /\ phase = "write"
  /\ \E r \in Repos :
       /\ NextFile(r)
       /\ files' = [files EXCEPT ![r] = run]
       /\ written' = written \cup {r}
  /\ UNCHANGED <<phase, run, search, start, fetched, latest, env>>

\* Mutant: the candidates are counted, not what was fetched.
SnapshotOfCandidates ==
  [run |-> run, repos |-> Chosen, count |-> Cardinality(Chosen)]

Snapshot == [run |-> run, repos |-> Chosen, count |-> Cardinality(fetched)]

\* latest.json; the dated copy that follows it is read by nobody.
WriteSnapshot ==
  /\ phase = "write" /\ written = fetched
  /\ latest' = Snapshot
  /\ Return
  /\ UNCHANGED <<run, files, stars, kills>>

-----------------------------------------------------------------------------
(* What can go wrong *)

\* A search request is refused or fails: the exception ends the run.
SearchFails ==
  /\ phase \in {"top", "collect", "search"}
  /\ Return
  /\ UNCHANGED <<run, disk, stars, kills>>

\* The process is killed.  write_text truncates before it writes, so the file
\* it was at may be left without its content.
Kill ==
  /\ phase # "idle" /\ kills < MaxKills
  /\ kills' = kills + 1
  /\ Return
  /\ \/ UNCHANGED disk
     \/ /\ phase = "write"
        /\ \E r \in Repos : NextFile(r) /\ files' = [files EXCEPT ![r] = 0]
        /\ UNCHANGED latest
     \/ /\ phase = "write" /\ written = fetched
        /\ latest' = NoSnapshot
        /\ UNCHANGED files
  /\ UNCHANGED <<run, stars>>

\* A repository gains or loses stars.
StarsMove ==
  /\ phase # "idle"
  /\ Cardinality(moved) < MaxMoves
  /\ \E r \in Repos \ moved, n \in 0 .. TopStars :
       /\ n # stars[r]
       /\ stars' = [stars EXCEPT ![r] = n]
       /\ moved' = moved \cup {r}
  /\ UNCHANGED <<phase, run, search, output, disk, kills>>

Init ==
  /\ stars \in [Repos -> 0 .. TopStars]
  /\ phase = "idle"
  /\ root = NoShard
  /\ pending = {} /\ leaves = {} /\ searched = {} /\ page = 1
  /\ found = [r \in {} |-> 0]
  /\ start = 0 /\ fetched = {} /\ written = {}
  /\ moved = {}
  /\ files = [r \in Repos |-> 0]
  /\ latest = NoSnapshot
  /\ run = 0 /\ kills = 0

Execute ==
  \/ ReadTop \/ CountShard \/ ShardsCollected \/ ReadPage \/ PagesRead
  \/ FetchBatch \/ BatchesFetched \/ WriteFile \/ WriteSnapshot

Next == Begin \/ Execute \/ SearchFails \/ Kill \/ StarsMove

Spec == Init /\ [][Next]_vars

\* A run that was started goes on.
FairSpec == Spec /\ WF_vars(Execute)

-----------------------------------------------------------------------------
(* Properties *)

Shards == [min : Nat, max : Nat, after : Nat, before : Nat]
Leaves == [shard : Shards, matched : 1 .. MaxShardSize]

\* Every variable has its type, and only what was fetched is written.
TypeOK ==
  /\ stars \in [Repos -> Nat]
  /\ phase \in {"idle", "top", "collect", "search", "fetch", "write"}
  /\ root \in Shards
  /\ pending \subseteq Shards
  /\ leaves \subseteq Leaves
  /\ searched \subseteq leaves
  /\ page \in Nat \ {0}
  /\ DOMAIN found \subseteq Repos /\ found \in [DOMAIN found -> Nat]
  /\ start \in Nat
  /\ written \subseteq fetched /\ fetched \subseteq DOMAIN found
  /\ files \in [Repos -> 0 .. run]
  /\ latest \in [run : 0 .. run, repos : SUBSET Repos, count : Nat]
  /\ run \in 0 .. MaxRuns
  /\ moved \subseteq Repos
  /\ kills \in 0 .. MaxKills

\* The shards tile the search space: while a run collects and reads shards, a
\* repository that belongs to the root and kept its stars is in exactly one
\* shard, still to be counted or to be read, however the others moved.
InOneShard(r) ==
  /\ \E s \in pending \cup {leaf.shard : leaf \in leaves} : Matches(s, r)
  /\ \A s, t \in pending \cup {leaf.shard : leaf \in leaves} :
       Matches(s, r) /\ Matches(t, r) => s = t
ShardsTile ==
  phase \in {"collect", "search", "fetch", "write"} =>
    \A r \in Matching(root) \ moved : InOneShard(r)

\* No page boundary, tie or shard boundary loses a repository: if no star
\* count changed since the run began, the candidates are exactly the
\* repositories the root describes.
CatalogComplete ==
  (phase \in {"fetch", "write"} /\ moved = {}) => DOMAIN found = Matching(root)

\* latest.json never counts repositories whose files are not there: through
\* failed and killed runs, all but one file per kill of those it counts are
\* whole and at least as new as the snapshot.
CountedFilesExist ==
  latest.count <=
    Cardinality({r \in latest.repos : files[r] >= latest.run}) + kills

\* Splitting comes to an end, whatever the counts do meanwhile, and so does
\* the run.
RunEnds == (phase # "idle") ~> (phase = "idle")
=============================================================================
