---------------------------- MODULE ExternalNews ----------------------------
(***************************************************************************)
(* News of the official feeds: SyncExternalNewsSourcesUseCase fetches the  *)
(* enabled sources through RssNewsReader, marks what is not fit to be      *)
(* served and stores it with the health of each source through             *)
(* ClickHouseExternalNewsRepository; the readiness use case and the list   *)
(* and detail endpoints read both tables.  A sync is one POST request:     *)
(* several may run at the same time, and one may fail or die anywhere.     *)
(*                                                                         *)
(* A source is a number, its place in the configuration; each has a        *)
(* provider of its own.  An entry of a feed is a record: guid, link and    *)
(* title ("" where the element is missing), the features of its text the   *)
(* quality score looks at, and the tick it was published in (Undated if it *)
(* does not say).                                                          *)
(***************************************************************************)
EXTENDS Integers, SequencesExt

CONSTANTS
  Sources,    \* 1 .. n, in the order of the configuration
  Shows,      \* Shows[s]: the lists of entries the feed s may show
  Limits,     \* values of limit_per_source
  MaxAge,     \* ticks a successful check stays fresh (180 minutes)
  ListLimit,  \* limit of the list of latest items
  Requests,   \* bound: sync requests that may run at the same time
  MaxSyncs,   \* bound: sync requests
  MaxTime,    \* bound: ticks
  MaxFaults   \* bound: writes that fail

Undated == -1

EntriesOf(s) == UNION {ToSet(feed) : feed \in Shows[s]}
Entries == UNION {EntriesOf(s) : s \in Sources}

ASSUME NewsAssumption ==
  /\ IsFiniteSet(Sources) /\ Sources = 1 .. Cardinality(Sources)
  /\ DOMAIN Shows = Sources
  /\ \A s \in Sources : Shows[s] \subseteq Seq(Entries)
  /\ Limits \subseteq Nat \ {0}
  /\ {MaxAge, ListLimit, MaxSyncs, MaxTime, MaxFaults} \subseteq Nat
  /\ \A e \in Entries : e.published \in 0 .. MaxTime \cup {Undated}

VARIABLES
  now,      \* the current tick
  enabled,  \* the sources that are enabled in the settings
  items,    \* external_news_items FINAL, by provider and source_id
  health,   \* source_health_snapshots; got is history: the entries of the check
  sync,     \* each sync request
  started,  \* sync requests so far
  faults    \* faults so far

vars == <<now, enabled, items, health, sync, started, faults>>

None == [at |-> -1]
Idle == [pc |-> "idle"]
Fault == faults < MaxFaults /\ faults' = faults + 1

FirstNonEmpty(parts) == SelectSeq(parts, LAMBDA part : part # "")[1]

-----------------------------------------------------------------------------
(* RssNewsReader *)

Title(e) == FirstNonEmpty(<<e.title, "Untitled">>)

\* The id is the guid, else the link, else the title.
SourceId(e) == FirstNonEmpty(<<e.guid, e.link, Title(e)>>)

\* _parse_datetime: an entry that does not say when was published now.
PublishedAt(e) == IF e.published = Undated THEN now ELSE e.published

\* _parse_rss and _parse_atom: the first entries of the feed.
ParseEntries(entries, limit) ==
  [i \in 1 .. (IF Len(entries) < limit THEN Len(entries) ELSE limit) |->
     LET e == entries[i]
     IN  [id |-> SourceId(e), title |-> Title(e), url |-> e.link, entry |-> e,
          published |-> PublishedAt(e)]]

\* fetch_latest: the parsed entries, an ExternalSourceError (the answer is not a
\* 2xx or not XML), or any other exception (a timeout, a reset connection).
FetchLatest(s, limit) ==
  {[source |-> s, kind |-> "ok", items |-> ParseEntries(feed, limit)] : feed \in Shows[s]}
    \cup {[source |-> s, kind |-> kind, items |-> <<>>] : kind \in {"error", "raised"}}

-----------------------------------------------------------------------------
(* What is fit to be served *)

\* compute_quality_score
QualityScore(e) ==
  45 + (IF e.longTitle THEN 20 ELSE 0) + (IF e.longSummary THEN 20 ELSE 0)
     + (IF e.http THEN 0 ELSE 5) + (IF e.digit THEN 5 ELSE 0)

\* should_quarantine
QuarantineReason(item, duplicate) ==
  IF item.url = "" THEN "missing_required_fields"
  ELSE IF duplicate THEN "duplicate_content"
  ELSE IF QualityScore(item.entry) < 55 THEN "low_confidence_content"
  ELSE "none"

Fingerprint(item) == <<item.title, item.url>>
Fingerprints(list) == {Fingerprint(list[i]) : i \in DOMAIN list}

\* Mutant: what an earlier request stored counts as seen.
EnrichItemsRemembering(list, seen) ==
  [i \in DOMAIN list |->
     LET stored == {k \in DOMAIN items : items[k] # None}
         known == seen \cup Fingerprints(SubSeq(list, 1, i - 1))
                       \cup {items[k].story : k \in stored}
     IN  [id |-> list[i].id, story |-> Fingerprint(list[i]), published |-> list[i].published,
          reason |-> QuarantineReason(list[i], Fingerprint(list[i]) \in known)]]

\* _enrich_items: a story seen before, in this feed or in one before it, is a
\* duplicate, whatever became of the first copy.
EnrichItems(list, seen) ==
  [i \in DOMAIN list |->
     [id |-> list[i].id, story |-> Fingerprint(list[i]), published |-> list[i].published,
      reason |-> QuarantineReason(list[i],
        Fingerprint(list[i]) \in seen \cup Fingerprints(SubSeq(list, 1, i - 1)))]]

-----------------------------------------------------------------------------
(* ClickHouseExternalNewsRepository *)

\* The sorting key of external_news_items, a ReplacingMergeTree(ingested_at): a
\* provider and a source_id.
Keys == UNION {{<<s, SourceId(e)>> : e \in EntriesOf(s)} : s \in Sources}

ItemToRow(item, at) ==
  [story |-> item.story, published |-> item.published, reason |-> item.reason, at |-> at]

\* upsert_items: one insert, stamped now; of one key the last row wins.
Upserted(s, list) ==
  [k \in Keys |->
     LET mine == {i \in DOMAIN list : k = <<s, list[i].id>>}
     IN  IF mine = {} \/ items[k].at > now THEN items[k]
         ELSE ItemToRow(list[CHOOSE i \in mine : \A j \in mine : j <= i], now)]

\* ORDER BY: the newest first, those of one moment by provider, and in any order
\* where that does not tell them apart.
Before(k, l) ==
  \/ items[k].published > items[l].published
  \/ items[k].published = items[l].published /\ k[1] < l[1]

\* list_latest_items: what comes before a row of the page is on the page before it.
ListLatestItems(limit, includeQuarantined) ==
  LET rows == {k \in Keys : items[k] # None /\
                 (includeQuarantined \/ items[k].reason = "none")}
      n == IF Cardinality(rows) < limit THEN Cardinality(rows) ELSE limit
  IN  {page \in [1 .. n -> rows] :
         /\ IsInjective(page)
         /\ \A j \in 1 .. n, k \in rows :
              Before(k, page[j]) => \E i \in 1 .. n : i < j /\ page[i] = k}

\* WHERE source_id: the rows with an id, of any provider.
WithId(id) == {k \in Keys : k[2] = id /\ items[k] # None}

\* get_item_by_source_id: the newest of them.
GetItemBySourceId(id) ==
  {k \in WithId(id) : \A l \in WithId(id) : items[l].published <= items[k].published}

\* list_latest_source_health: the newest snapshot of a source, if it has one.
LatestHealth(s) ==
  {h \in health : h.source = s /\ \A g \in health : g.source = s => g.at <= h.at}

-----------------------------------------------------------------------------
(* SyncExternalNewsSourcesUseCase.execute, behind POST .../sources/sync *)

Init ==
  /\ now = 0
  /\ enabled = Sources
  /\ items = [k \in Keys |-> None]
  /\ health = {}
  /\ sync = [p \in Requests |-> Idle]
  /\ started = 0
  /\ faults = 0

Tick ==
  /\ now < MaxTime
  /\ now' = now + 1
  /\ UNCHANGED <<enabled, items, health, sync, started, faults>>

\* The API is restarted with other sources enabled; requests die with it.
Restart ==
  /\ enabled' \in SUBSET Sources
  /\ sync' = [p \in Requests |-> Idle]
  /\ UNCHANGED <<now, items, health, started, faults>>

\* checked_at is taken as the fetches start.
SyncStart(p) ==
  /\ sync[p].pc = "idle" /\ started < MaxSyncs
  /\ started' = started + 1
  /\ sync' = [sync EXCEPT ![p] = [pc |-> "fetch", at |-> now]]
  /\ UNCHANGED <<now, enabled, items, health, faults>>

\* Mutant: past the last result the loop goes on with a snapshot.
LoopEndless(request) ==
  [request EXCEPT !.pc = IF request.results # <<>> /\ Head(request.results).kind = "ok"
                         THEN "upsert" ELSE "append"]

\* What the loop over the results does with the first of them.
Loop(request) ==
  IF request.results = <<>> THEN [request EXCEPT !.pc = "done"]
  ELSE [request EXCEPT !.pc = IF Head(request.results).kind = "ok" THEN "upsert" ELSE "append"]

\* gather returns, one result of each source in their order: with an exception
\* nobody caught the request fails.
SyncFetched(p) ==
  /\ sync[p].pc = "fetch"
  /\ \E limit \in Limits :
       LET outcomes == UNION {FetchLatest(s, limit) : s \in enabled}
       IN  \E results \in [1 .. Cardinality(enabled) -> outcomes] :
             /\ \A i, j \in DOMAIN results : i < j => results[i].source < results[j].source
             /\ sync' = [sync EXCEPT ![p] =
                  IF \E i \in DOMAIN results : results[i].kind = "raised" THEN Idle
                  ELSE Loop([pc |-> "loop", at |-> sync[p].at, results |-> results,
                             seen |-> {}, of |-> enabled])]
  /\ UNCHANGED <<now, enabled, items, health, started, faults>>

\* Mutant: a failed insert is logged and the loop goes on with the next source.
UpsertItemsLenient(p) ==
  LET result == Head(sync[p].results)
      after == Upserted(result.source, EnrichItems(result.items, sync[p].seen))
      seen == sync[p].seen \cup Fingerprints(result.items)
  IN  /\ sync[p].pc = "upsert"
      /\ \/ /\ items' = after
            /\ sync' = [sync EXCEPT ![p].pc = "append", ![p].seen = seen]
            /\ UNCHANGED faults
         \/ /\ Fault
            /\ sync' = [sync EXCEPT ![p] =
                 Loop([@ EXCEPT !.results = Tail(@), !.seen = seen])]
            /\ UNCHANGED items
      /\ UNCHANGED <<now, enabled, health, started>>

\* Mutant: the request goes on when the insert has failed.
UpsertItemsUnchecked(p) ==
  LET result == Head(sync[p].results)
      after == Upserted(result.source, EnrichItems(result.items, sync[p].seen))
      next == [sync EXCEPT ![p].pc = "append",
                           ![p].seen = @ \cup Fingerprints(result.items)]
  IN  /\ sync[p].pc = "upsert"
      /\ sync' = next
      /\ \/ items' = after /\ UNCHANGED faults
         \/ Fault /\ UNCHANGED items
      /\ UNCHANGED <<now, enabled, health, started>>

\* The items of a source that answered; a failed insert, whose rows may be in the
\* table, ends the request.
UpsertItems(p) ==
  LET result == Head(sync[p].results)
      after == Upserted(result.source, EnrichItems(result.items, sync[p].seen))
  IN  /\ sync[p].pc = "upsert"
      /\ \/ /\ items' = after
            /\ sync' = [sync EXCEPT ![p].pc = "append",
                                    ![p].seen = @ \cup Fingerprints(result.items)]
            /\ UNCHANGED faults
         \/ Fault /\ items' \in {items, after} /\ sync' = [sync EXCEPT ![p] = Idle]
      /\ UNCHANGED <<now, enabled, health, started>>

Snapshot(p) ==
  [source |-> Head(sync[p].results).source, status |-> Head(sync[p].results).kind,
   at |-> sync[p].at,
   got |-> {Head(sync[p].results).items[i].id : i \in DOMAIN Head(sync[p].results).items}]

\* append_source_health_snapshot; a failed insert ends the request.
AppendSourceHealthSnapshot(p) ==
  /\ sync[p].pc = "append"
  /\ \/ /\ health' = health \cup {Snapshot(p)}
        /\ sync' = [sync EXCEPT ![p] =
             Loop([sync[p] EXCEPT !.results = Tail(sync[p].results)])]
        /\ UNCHANGED faults
     \/ /\ Fault
        /\ health' \in {health, health \cup {Snapshot(p)}}
        /\ sync' = [sync EXCEPT ![p] = Idle]
  /\ UNCHANGED <<now, enabled, items, started>>

\* The result goes out.
SyncResult(p) ==
  /\ sync[p].pc = "done"
  /\ sync' = [sync EXCEPT ![p] = Idle]
  /\ UNCHANGED <<now, enabled, items, health, started, faults>>

Next ==
  \/ Tick
  \/ Restart
  \/ \E p \in Requests :
       \/ SyncStart(p)
       \/ SyncFetched(p)
       \/ UpsertItems(p)
       \/ AppendSourceHealthSnapshot(p)
       \/ SyncResult(p)

Spec == Init /\ [][Next]_vars

-----------------------------------------------------------------------------
(* GetNewsImpactReadinessUseCase *)

\* Mutant: any check in time is a healthy one.
FreshnessOfAnyCheck(s) ==
  IF LatestHealth(s) = {} THEN {"unknown"}
  ELSE {IF now - h.at <= MaxAge THEN "healthy"
        ELSE IF s \in enabled THEN "stale" ELSE "unknown" : h \in LatestHealth(s)}

\* _build_source_dto: of two snapshots of the same moment either may be read.
Freshness(s) ==
  IF LatestHealth(s) = {} THEN {"unknown"}
  ELSE {IF h.status = "ok" /\ now - h.at <= MaxAge THEN "healthy"
        ELSE IF s \in enabled THEN "stale" ELSE "unknown" : h \in LatestHealth(s)}

\* execute with sync enabled: ready needs a source that is enabled and one that
\* is healthy.
MaybeReady == enabled # {} /\ \E s \in Sources : "healthy" \in Freshness(s)

-----------------------------------------------------------------------------
(* The news pages.  Of each item a response shows its id, its story and      *)
(* whether it is hidden; scores and matched repositories are left out.     *)

ItemDTO(k) ==
  [id |-> k[2], story |-> items[k].story, quarantined |-> items[k].reason # "none"]

\* ListPersistedExternalNewsItemsUseCase, GetPersistedExternalNewsItemUseCase
LatestItems(limit, includeQuarantined) ==
  {[i \in DOMAIN rows |-> ItemDTO(rows[i])] :
     rows \in ListLatestItems(limit, includeQuarantined)}
PersistedItem(id) == {ItemDTO(k) : k \in GetItemBySourceId(id)}

\* _build_events: one event for a row, in the order of the rows, also where the
\* repositories to match cannot be read.
BuildEvents(rows) == [i \in DOMAIN rows |-> ItemDTO(rows[i])]

\* GetNewsImpactSnapshotUseCase
ImpactEvents(limit) == {BuildEvents(rows) : rows \in ListLatestItems(limit, FALSE)}
ImpactDetail(id) == {BuildEvents(<<k>>)[1] : k \in GetItemBySourceId(id)}

-----------------------------------------------------------------------------
(* Properties *)

Vetted == {"none", "missing_required_fields", "duplicate_content", "low_confidence_content"}

\* Every variable has its type; the loop always has a result to work on.
TypeOK ==
  /\ now \in 0 .. MaxTime
  /\ enabled \subseteq Sources
  /\ DOMAIN items = Keys
  /\ \A k \in Keys : items[k] # None =>
       items[k].at \in 0 .. now /\ items[k].published \in 0 .. MaxTime /\ items[k].reason \in Vetted
  /\ \A h \in health : h.source \in Sources /\ h.status \in {"ok", "error"} /\ h.at <= now
  /\ DOMAIN sync = Requests
  /\ \A p \in Requests :
       /\ sync[p].pc \in {"idle", "fetch", "upsert", "append", "done"}
       /\ sync[p].pc \in {"upsert", "append"} => sync[p].results # <<>>
  /\ started \in 0 .. MaxSyncs
  /\ faults \in 0 .. MaxFaults

\* A stored item that is hidden as a duplicate has a stored twin that is not: no
\* failure between two sources and no overlap of requests leaves only copies of
\* a story that point at each other.
DuplicateHasOriginal ==
  \A k \in Keys : items[k] # None /\ items[k].reason = "duplicate_content" =>
    \E l \in Keys : /\ items[l] # None /\ items[l].story = items[k].story
                    /\ items[l].reason # "duplicate_content"

\* A request that answers has written a snapshot of every source that was
\* enabled: the error of one feed keeps no other from being checked.  And a
\* source is only ever reported ok when everything the check fetched is in the
\* table, also where an insert failed or the request died on the way.
SourcesAccounted ==
  /\ \A p \in Requests : sync[p].pc = "done" =>
       \A s \in sync[p].of : \E h \in health : h.source = s /\ h.at = sync[p].at
  /\ \A h \in health : h.status = "ok" =>
       \A id \in h.got : items[<<h.source, id>>] # None

\* The ingestion is reported ready only if a source answered within the last
\* MaxAge ticks and everything it showed is in the table: neither an error nor a
\* check whose request finished long after it counts as fresh, whatever snapshots
\* and failed inserts of other requests came in between.
ReadyMeansFresh ==
  MaybeReady => \E h \in health :
    /\ h.status = "ok" /\ now - h.at <= MaxAge
    /\ \A id \in h.got : items[<<h.source, id>>] # None

Fit(e) == e.link # "" /\ QualityScore(e) >= 55
Servable(story) == \A e \in Entries : story = <<Title(e), e.link>> => Fit(e)

\* Every stored story that is fit is on the page, and its id leads to its details.
Serves(page, detail(_)) ==
  \A k \in Keys : items[k] # None /\ Servable(items[k].story) =>
    \E i \in DOMAIN page : page[i].story = items[k].story /\ page[i] \in detail(page[i].id)

\* A stored story all of whose copies are fit to be served is on the news page
\* and on the impact page, and its id leads to its own details on both:
\* repeating the sync, in whole or in part or twice at the same time, never
\* hides it.
StoriesServed ==
  /\ \A page \in LatestItems(ListLimit, FALSE) : Serves(page, PersistedItem)
  /\ \A page \in ImpactEvents(ListLimit) : Serves(page, ImpactDetail)

-----------------------------------------------------------------------------
(* What the proofs of DuplicateHasOriginal and StoriesServed ask of the feeds. *)

\* A feed lists an id once, and an entry that is published again under its id has
\* the title and the link it had.
StableIds ==
  \A s \in Sources :
    /\ \A feed \in Shows[s] : \A i, j \in DOMAIN feed :
         SourceId(feed[i]) = SourceId(feed[j]) => i = j
    /\ \A e, f \in EntriesOf(s) :
         SourceId(e) = SourceId(f) => Title(e) = Title(f) /\ e.link = f.link

\* No two providers use the same id.
OwnIds ==
  \A s, t \in Sources : \A e \in EntriesOf(s), f \in EntriesOf(t) :
    SourceId(e) = SourceId(f) => s = t

\* A page has room for every item that is fit.
RoomForAll ==
  LET fit == UNION {{<<s, SourceId(e)>> : e \in {f \in EntriesOf(s) : Fit(f)}} : s \in Sources}
  IN  IsFiniteSet(fit) /\ Cardinality(fit) <= ListLimit
=============================================================================
