--------------------------- MODULE ExternalNewsProofs ---------------------------
(***************************************************************************)
(* What the health of the news sources may say and what the pages show,    *)
(* for any sources, feeds, number of overlapping syncs, restarts and       *)
(* failing inserts: a request that answers has checked every source, no    *)
(* source is reported ok before its items are in the table, and a          *)
(* duplicate is hidden only beside an original that is not.                *)
(***************************************************************************)
EXTENDS ExternalNews, FiniteSetTheorems, FunctionTheorems, SequenceTheorems,
        NaturalsInduction, TLAPS

-----------------------------------------------------------------------------
(* The invariant *)

Item == [id : {SourceId(e) : e \in Entries}, title : {Title(e) : e \in Entries},
         url : {e.link : e \in Entries}, entry : Entries, published : 0 .. MaxTime]
Stories == {Title(e) : e \in Entries} \X {e.link : e \in Entries}

\* What a request keeps of a source that was fetched: a failed one has no items.
Results ==
  {r \in [source : Sources, kind : {"ok", "error"}, items : Seq(Item)] :
     /\ r.kind = "error" => r.items = <<>>
     /\ \A i \in DOMAIN r.items : <<r.source, r.items[i].id>> \in Keys}

Request(pcs) ==
  [pc : pcs, at : 0 .. now, results : Seq(Results), seen : SUBSET Stories, of : SUBSET Sources]

\* Every source the request was about is still to come or has its snapshot.
Covered(r) ==
  \A s \in r.of : \/ \E i \in DOMAIN r.results : r.results[i].source = s
                  \/ \E h \in health : h.source = s /\ h.at = r.at

\* The items of the source whose snapshot is next are in the table.
ItemsFirst(r) ==
  \A i \in DOMAIN Head(r.results).items :
    items[<<Head(r.results).source, Head(r.results).items[i].id>>] # None

RequestOK(r) ==
  \/ r = Idle
  \/ r \in [pc : {"fetch"}, at : 0 .. now]
  \/ /\ r \in Request({"upsert", "append", "done"})
     /\ r.pc \in {"upsert", "append"} => r.results # <<>>
     /\ r.pc = "done" => r.results = <<>>
     /\ r.pc = "append" => ItemsFirst(r)
     /\ Covered(r)

RowOK(row) ==
  row.at \in 0 .. now /\ row.published \in 0 .. MaxTime /\ row.reason \in Vetted

WorldType ==
  /\ now \in 0 .. MaxTime
  /\ enabled \subseteq Sources
  /\ started \in 0 .. MaxSyncs
  /\ faults \in 0 .. MaxFaults

ItemsOK ==
  /\ DOMAIN items = Keys
  /\ \A k \in Keys : items[k] # None => RowOK(items[k])

HealthOK ==
  \A h \in health :
    /\ h.source \in Sources /\ h.status \in {"ok", "error"} /\ h.at \in 0 .. now
    /\ \A id \in h.got : <<h.source, id>> \in Keys /\ items[<<h.source, id>>] # None

SyncOK ==
  /\ DOMAIN sync = Requests
  /\ \A p \in Requests : \A r : r = sync[p] => RequestOK(r)

IInv == WorldType /\ ItemsOK /\ HealthOK /\ SyncOK

\* What the assumptions say of the bounds.
LEMMA Bounds ==
  /\ Sources \subseteq Nat /\ IsFiniteSet(Sources)
  /\ Limits \subseteq Nat \ {0}
  /\ MaxSyncs \in Nat /\ MaxTime \in Nat /\ MaxFaults \in Nat
  /\ \A s \in Sources : Shows[s] \subseteq Seq(Entries)
  /\ \A e \in Entries : e.published \in 0 .. MaxTime \cup {Undated}
BY NewsAssumption, FS_CardinalityType

-----------------------------------------------------------------------------
(* The operators *)

\* A function on 1 .. n is a sequence of length n.
LEMMA FunctionIsSeq ==
  ASSUME NEW S, NEW n \in Nat, NEW f \in [1 .. n -> S]
  PROVE  f \in Seq(S) /\ Len(f) = n /\ DOMAIN f = 1 .. n
<1>1. \E m \in Nat : f \in [1 .. m -> S]
  OBVIOUS
<1>2. f \in Seq(S) /\ DOMAIN f = 1 .. n
  BY <1>1, SeqDef
<1>3. QED
  BY <1>2, LenProperties

\* The id of what a feed shows is a key of its provider.
LEMMA KeyOfEntry ==
  ASSUME NEW s \in Sources, NEW feed \in Shows[s], NEW i \in DOMAIN feed
  PROVE  <<s, SourceId(feed[i])>> \in Keys
<1>1. feed[i] \in ToSet(feed)
  BY DEF ToSet
<1>2. feed[i] \in EntriesOf(s)
  BY <1>1 DEF EntriesOf
<1>3. <<s, SourceId(feed[i])>> \in {<<s, SourceId(e)>> : e \in EntriesOf(s)}
  BY <1>2
<1>4. QED
  BY <1>3 DEF Keys

\* What the reader makes of a feed: items that have a key.
LEMMA ParsedType ==
  ASSUME WorldType, NEW s \in Sources, NEW feed \in Shows[s], NEW limit \in Limits
  PROVE  /\ ParseEntries(feed, limit) \in Seq(Item)
         /\ \A i \in DOMAIN ParseEntries(feed, limit) :
              <<s, ParseEntries(feed, limit)[i].id>> \in Keys
<1> DEFINE n == IF Len(feed) < limit THEN Len(feed) ELSE limit
           item(e) == [id |-> SourceId(e), title |-> Title(e), url |-> e.link, entry |-> e,
                       published |-> PublishedAt(e)]
           parsed == [i \in 1 .. n |-> item(feed[i])]
<1>1. feed \in Seq(Entries)
  BY Bounds
<1>2. Len(feed) \in Nat /\ DOMAIN feed = 1 .. Len(feed) /\ \A i \in 1 .. Len(feed) : feed[i] \in Entries
  BY <1>1, LenProperties, ElementOfSeq
<1>3. n \in Nat /\ 1 .. n \subseteq DOMAIN feed
  BY <1>2, Bounds
<1>4. \A e \in Entries : item(e) \in Item
  <2> SUFFICES ASSUME NEW e \in Entries PROVE item(e) \in Item
    OBVIOUS
  <2>1. PublishedAt(e) \in 0 .. MaxTime
    BY Bounds DEF PublishedAt, WorldType, Undated
  <2>2. QED
    BY <2>1 DEF Item
<1>5. ParseEntries(feed, limit) = parsed
  BY DEF ParseEntries
<1> HIDE DEF item, n
<1>6. parsed \in [1 .. n -> Item]
  BY <1>2, <1>3, <1>4
<1>7. parsed \in Seq(Item) /\ DOMAIN parsed = 1 .. n
  BY <1>3, <1>6, FunctionIsSeq
<1>8. \A i \in 1 .. n : <<s, parsed[i].id>> \in Keys
  <2>1. \A i \in 1 .. n : parsed[i].id = SourceId(feed[i])
    BY DEF item
  <2>2. QED
    BY <1>3, <2>1, KeyOfEntry
<1>9. QED
  BY <1>5, <1>7, <1>8

\* A result that did not raise is one a request can go on with.
LEMMA FetchedType ==
  ASSUME WorldType, NEW s \in Sources, NEW limit \in Limits,
         NEW r \in FetchLatest(s, limit), r.kind # "raised"
  PROVE  r \in Results /\ r.source = s
<1>1. CASE \E feed \in Shows[s] :
             r = [source |-> s, kind |-> "ok", items |-> ParseEntries(feed, limit)]
  BY <1>1, ParsedType DEF Results
<1>2. CASE r = [source |-> s, kind |-> "error", items |-> <<>>]
  <2>1. <<>> \in Seq(Item) /\ DOMAIN <<>> = {}
    BY EmptySeq
  <2>2. QED
    BY <1>2, <2>1 DEF Results
<1>3. QED
  BY <1>1, <1>2 DEF FetchLatest

Below == {pair \in Nat \X Nat : pair[1] < pair[2]}

\* A set of row numbers has a last one.
LEMMA LastRow ==
  ASSUME NEW n \in Nat, NEW M \in SUBSET (1 .. n), M # {}
  PROVE  \E i \in M : \A j \in M : j <= i
<1> DEFINE back == {b \in Nat : n - b \in M}
<1>1. back \in SUBSET Nat /\ back # {}
  <2>1. PICK i \in M : TRUE
    OBVIOUS
  <2>2. n - i \in Nat /\ n - (n - i) = i
    BY <2>1
  <2>3. n - i \in back
    BY <2>1, <2>2
  <2>4. QED
    BY <2>3
<1>2. IsWellFoundedOn(Below, Nat)
  BY NatLessThanWellFounded, Zenon DEF OpToRel, Below
<1>3. PICK b \in back : \A c \in back : <<c, b>> \notin Below
  BY <1>1, <1>2, WFMin
<1>4. ASSUME NEW j \in M PROVE j <= n - b
  <2>1. n - j \in back /\ n - j \in Nat /\ b \in Nat /\ j \in Nat
    <3>1. n - j \in Nat /\ n - (n - j) = j
      OBVIOUS
    <3>2. QED
      BY <3>1
  <2>2. <<n - j, b>> \in Nat \X Nat /\ <<n - j, b>>[1] = n - j /\ <<n - j, b>>[2] = b
    BY <2>1
  <2>3. ~(n - j < b)
    BY <1>3, <2>1, <2>2 DEF Below
  <2>4. QED
    BY <2>1, <2>3
<1>5. n - b \in M
  BY <1>3
<1>6. QED
  BY <1>4, <1>5

\* Every row has a verdict, and the id of its item.
LEMMA EnrichedType ==
  ASSUME NEW list \in Seq(Item), NEW seen
  PROVE  /\ DOMAIN EnrichItems(list, seen) = DOMAIN list
         /\ \A i \in DOMAIN list :
              /\ EnrichItems(list, seen)[i].id = list[i].id
              /\ EnrichItems(list, seen)[i].published \in 0 .. MaxTime
              /\ EnrichItems(list, seen)[i].reason \in Vetted
<1> DEFINE twin(i) == Fingerprint(list[i]) \in seen \cup Fingerprints(SubSeq(list, 1, i - 1))
           reason(i) == QuarantineReason(list[i], twin(i))
           row(i) == [id |-> list[i].id, story |-> Fingerprint(list[i]),
                      published |-> list[i].published, reason |-> reason(i)]
<1>1. \A i \in DOMAIN list : list[i] \in Item
  BY ElementOfSeq, LenProperties
<1>2. \A i : reason(i) \in Vetted
  BY DEF QuarantineReason, Vetted
<1>3. EnrichItems(list, seen) = [i \in DOMAIN list |-> row(i)]
  BY DEF EnrichItems
<1> HIDE DEF reason
<1>4. \A i \in DOMAIN list :
        row(i).id = list[i].id /\ row(i).published \in 0 .. MaxTime /\ row(i).reason \in Vetted
  BY <1>1, <1>2 DEF Item
<1> HIDE DEF row
<1>5. QED
  BY <1>3, <1>4

\* An upsert stores every item it was given and takes none away.
LEMMA UpsertedEffect ==
  ASSUME WorldType, ItemsOK, NEW s \in Sources, NEW list \in Seq(Item), NEW seen,
         \A i \in DOMAIN list : <<s, list[i].id>> \in Keys
  PROVE  LET after == Upserted(s, EnrichItems(list, seen))
         IN  /\ DOMAIN after = Keys
             /\ \A k \in Keys : after[k] # None => RowOK(after[k])
             /\ \A k \in Keys : items[k] # None => after[k] # None
             /\ \A i \in DOMAIN list : after[<<s, list[i].id>>] # None
<1> DEFINE rows == EnrichItems(list, seen)
           after == Upserted(s, rows)
           mine(k) == {i \in DOMAIN rows : k = <<s, rows[i].id>>}
           last(k) == CHOOSE i \in mine(k) : \A j \in mine(k) : j <= i
           new(k) == ItemToRow(rows[last(k)], now)
<1>1. /\ DOMAIN rows = 1 .. Len(list) /\ Len(list) \in Nat /\ DOMAIN list = 1 .. Len(list)
      /\ \A i \in DOMAIN list : /\ rows[i].id = list[i].id
                                /\ rows[i].published \in 0 .. MaxTime
                                /\ rows[i].reason \in Vetted
  BY EnrichedType, LenProperties
<1>2. now \in Nat /\ None.at = -1
  BY Bounds DEF WorldType, None
<1>3. /\ DOMAIN after = Keys
      /\ \A k \in Keys : after[k] = IF mine(k) = {} \/ items[k].at > now THEN items[k] ELSE new(k)
  BY DEF Upserted
<1> HIDE DEF rows, after
<1>4. \A k : mine(k) # {} => last(k) \in DOMAIN list
  <2> SUFFICES ASSUME NEW k, mine(k) # {} PROVE last(k) \in mine(k)
    BY <1>1
  <2>1. mine(k) \in SUBSET (1 .. Len(list))
    BY <1>1
  <2>2. \E i \in mine(k) : \A j \in mine(k) : j <= i
    <3> HIDE DEF mine
    <3>1. QED
      BY <1>1, <2>1, LastRow
  <2>3. QED
    BY <2>2
<1>5. \A k : mine(k) # {} => new(k).at = now /\ RowOK(new(k))
  <2> SUFFICES ASSUME NEW k, mine(k) # {} PROVE new(k).at = now /\ RowOK(new(k))
    OBVIOUS
  <2>1. last(k) \in DOMAIN list
    BY <1>4
  <2> HIDE DEF last, mine
  <2>2. /\ new(k).at = now /\ new(k).published = rows[last(k)].published
        /\ new(k).reason = rows[last(k)].reason
    BY DEF ItemToRow
  <2>3. QED
    BY <1>1, <1>2, <2>1, <2>2 DEF RowOK
<1> HIDE DEF new
<1>6. \A k \in Keys : items[k] # None => after[k] # None
  <2> SUFFICES ASSUME NEW k \in Keys, items[k] # None PROVE after[k] # None
    OBVIOUS
  <2>1. CASE mine(k) = {} \/ items[k].at > now
    BY <1>3, <2>1
  <2>2. CASE mine(k) # {} /\ ~(items[k].at > now)
    BY <1>2, <1>3, <1>5, <2>2
  <2>3. QED
    BY <2>1, <2>2
<1>7. \A k \in Keys : after[k] # None => RowOK(after[k])
  <2> SUFFICES ASSUME NEW k \in Keys, after[k] # None PROVE RowOK(after[k])
    OBVIOUS
  <2>1. CASE mine(k) = {} \/ items[k].at > now
    BY <1>3, <2>1 DEF ItemsOK
  <2>2. CASE mine(k) # {} /\ ~(items[k].at > now)
    BY <1>3, <1>5, <2>2
  <2>3. QED
    BY <2>1, <2>2
<1>8. ASSUME NEW i \in DOMAIN list PROVE after[<<s, list[i].id>>] # None
  <2> DEFINE k == <<s, list[i].id>>
  <2>1. k \in Keys /\ mine(k) # {}
    BY <1>1
  <2> HIDE DEF k, mine
  <2>2. CASE items[k] = None
    <3>1. ~(items[k].at > now)
      BY <1>2, <2>2
    <3>2. after[k] = new(k)
      BY <1>3, <2>1, <3>1
    <3>3. QED
      BY <1>2, <1>5, <2>1, <3>2 DEF k
  <2>3. CASE items[k] # None
    BY <1>6, <2>1, <2>3 DEF k
  <2>4. QED
    BY <2>2, <2>3
<1>9. QED
  BY <1>3, <1>6, <1>7, <1>8 DEF after, rows

-----------------------------------------------------------------------------
(* The requests *)

\* What stays true of every request while time passes and the tables grow.
LEMMA RequestsKept ==
  ASSUME WorldType, now' \in 0 .. MaxTime, now' >= now, health \subseteq health',
         \A k \in Keys : items[k] # None => items'[k] # None
  PROVE  \A r : RequestOK(r) => RequestOK(r)'
<1> SUFFICES ASSUME NEW r, RequestOK(r) PROVE RequestOK(r)'
  OBVIOUS
<1>1. 0 .. now \subseteq 0 .. now'
  BY Bounds DEF WorldType
<1>2. CASE r = Idle \/ r \in [pc : {"fetch"}, at : 0 .. now]
  BY <1>1, <1>2 DEF RequestOK, Idle
<1>3. CASE /\ r \in Request({"upsert", "append", "done"})
           /\ r.pc \in {"upsert", "append"} => r.results # <<>>
           /\ r.pc = "done" => r.results = <<>>
           /\ r.pc = "append" => ItemsFirst(r)
           /\ Covered(r)
  <2>1. r \in Request({"upsert", "append", "done"})'
    BY <1>1, <1>3 DEF Request
  <2>2. Covered(r)'
    BY <1>3 DEF Covered
  <2>3. ASSUME r.pc = "append" PROVE ItemsFirst(r)'
    <3>1. Head(r.results) \in Results
      BY <1>3, <2>3, HeadTailProperties DEF Request
    <3>2. \A i \in DOMAIN Head(r.results).items :
            <<Head(r.results).source, Head(r.results).items[i].id>> \in Keys
      BY <3>1 DEF Results
    <3>3. ItemsFirst(r)
      BY <1>3, <2>3
    <3>4. QED
      BY <3>2, <3>3 DEF ItemsFirst
  <2>4. QED
    BY <1>3, <2>1, <2>2, <2>3 DEF RequestOK
<1>4. QED
  BY <1>2, <1>3 DEF RequestOK

\* Changing one request.
LEMMA OneRequest ==
  ASSUME SyncOK, NEW p \in Requests, NEW r, RequestOK(r)',
         sync' = [sync EXCEPT ![p] = r], \A q : RequestOK(q) => RequestOK(q)'
  PROVE  SyncOK'
<1>1. DOMAIN sync' = Requests /\ sync'[p] = r /\ \A q \in Requests \ {p} : sync'[q] = sync[q]
  BY DEF SyncOK
<1>2. ASSUME NEW q \in Requests, NEW v, v = sync'[q] PROVE RequestOK(v)'
  <2>1. CASE q = p
    BY <1>1, <1>2, <2>1
  <2>2. CASE q # p
    <3>1. v = sync[q]
      BY <1>1, <1>2, <2>2
    <3>2. RequestOK(v)
      BY <3>1 DEF SyncOK
    <3>3. QED
      BY <3>2
  <2>3. QED
    BY <2>1, <2>2
<1>3. QED
  BY <1>1, <1>2 DEF SyncOK

\* The request is over.
LEMMA IdleOK == RequestOK(Idle)
BY DEF RequestOK

\* Ending one request.
LEMMA EndedRequest ==
  ASSUME SyncOK, NEW p \in Requests, sync' = [sync EXCEPT ![p] = Idle],
         \A q : RequestOK(q) => RequestOK(q)'
  PROVE  SyncOK'
<1>1. PICK v : v = Idle
  OBVIOUS
<1>2. RequestOK(v)'
  BY <1>1, IdleOK
<1>3. sync' = [sync EXCEPT ![p] = v]
  BY <1>1
<1>4. QED
  BY <1>2, <1>3, OneRequest

\* The loop goes on with a source that has items to insert, or with one that has
\* failed and has none.
LEMMA LoopShape ==
  ASSUME NEW r \in Request({"loop", "append"})
  PROVE  /\ Loop(r) \in Request({"upsert", "append", "done"})
         /\ Loop(r).results = r.results /\ Loop(r).of = r.of /\ Loop(r).at = r.at
         /\ Loop(r).pc \in {"upsert", "append"} => r.results # <<>>
         /\ Loop(r).pc = "done" => r.results = <<>>
         /\ Loop(r).pc = "append" => DOMAIN Head(r.results).items = {}
<1> USE DEF Request
<1>1. CASE r.results = <<>>
  <2>1. Loop(r) = [r EXCEPT !.pc = "done"]
    BY <1>1 DEF Loop
  <2>2. QED
    BY <1>1, <2>1
<1>2. CASE r.results # <<>>
  <2> DEFINE pc == IF Head(r.results).kind = "ok" THEN "upsert" ELSE "append"
  <2>1. Loop(r) = [r EXCEPT !.pc = pc]
    BY <1>2 DEF Loop
  <2>2. pc = "append" => DOMAIN Head(r.results).items = {}
    <3>1. Head(r.results) \in Results
      BY <1>2, HeadTailProperties
    <3>2. Head(r.results).kind # "ok" => Head(r.results).items = <<>>
      BY <3>1 DEF Results
    <3>3. QED
      BY <3>2, EmptySeq
  <2>3. pc \in {"upsert", "append"} /\ Loop(r).pc = pc
    BY <2>1
  <2>4. /\ Loop(r) \in Request({"upsert", "append", "done"})
        /\ Loop(r).results = r.results /\ Loop(r).of = r.of /\ Loop(r).at = r.at
    BY <2>1
  <2>5. QED
    BY <1>2, <2>2, <2>3, <2>4
<1>3. QED
  BY <1>1, <1>2

LEMMA LoopOK ==
  ASSUME NEW r \in Request({"loop", "append"}), Covered(r)
  PROVE  RequestOK(Loop(r))
<1>1. PICK v : v = Loop(r)
  OBVIOUS
<1>2. Covered(v)
  BY <1>1, LoopShape DEF Covered
<1>3. v.pc = "append" => ItemsFirst(v)
  BY <1>1, LoopShape DEF ItemsFirst
<1>4. QED
  BY <1>1, <1>2, <1>3, LoopShape DEF RequestOK

-----------------------------------------------------------------------------
(* The steps *)

\* The initial state satisfies the invariant.
LEMMA InitInv == Init => IInv
<1> SUFFICES ASSUME Init PROVE IInv
  OBVIOUS
<1>1. WorldType /\ ItemsOK /\ HealthOK
  BY Bounds DEF Init, WorldType, ItemsOK, HealthOK
<1>2. SyncOK
  BY IdleOK DEF Init, SyncOK
<1>3. QED
  BY <1>1, <1>2 DEF IInv

\* What a step keeps that leaves the tables alone.
LEMMA TablesKept ==
  ASSUME IInv, UNCHANGED <<items, health>>, now' \in 0 .. MaxTime, now' >= now
  PROVE  ItemsOK' /\ HealthOK' /\ \A r : RequestOK(r) => RequestOK(r)'
<1>1. 0 .. now \subseteq 0 .. now'
  BY Bounds DEF IInv, WorldType
<1>2. ItemsOK' /\ HealthOK'
  BY <1>1 DEF IInv, ItemsOK, HealthOK, RowOK
<1>3. QED
  BY <1>2, RequestsKept DEF IInv

\* Time, restarts and the beginning and end of a request.
LEMMA OutsideStep ==
  ASSUME IInv, Tick \/ Restart \/ \E p \in Requests : SyncStart(p) \/ SyncResult(p)
  PROVE  IInv'
<1>1. WorldType /\ SyncOK
  BY DEF IInv
<1> DEFINE summary ==
             /\ UNCHANGED <<items, health, faults>>
             /\ now' = now \/ (now < MaxTime /\ now' = now + 1)
             /\ enabled' = enabled \/ enabled' \in SUBSET Sources
             /\ started' = started \/ (started < MaxSyncs /\ started' = started + 1)
<1>0. summary
  <2>1. CASE Tick
    BY <2>1 DEF Tick
  <2>2. CASE Restart
    BY <2>2 DEF Restart
  <2>3. ASSUME NEW p \in Requests, SyncStart(p) PROVE summary
    BY <2>3 DEF SyncStart
  <2>4. ASSUME NEW p \in Requests, SyncResult(p) PROVE summary
    BY <2>4 DEF SyncResult
  <2> HIDE DEF summary
  <2>5. QED
    BY <2>1, <2>2, <2>3, <2>4
<1>2. UNCHANGED <<items, health>> /\ now' \in 0 .. MaxTime /\ now' >= now
  BY <1>0, <1>1, Bounds DEF WorldType
<1>3. ItemsOK' /\ HealthOK' /\ \A r : RequestOK(r) => RequestOK(r)'
  BY <1>2, TablesKept
<1>4. WorldType'
  <2>1. enabled' \subseteq Sources /\ faults' \in 0 .. MaxFaults
    BY <1>0, <1>1 DEF WorldType
  <2>2. started' \in 0 .. MaxSyncs
    BY <1>0, <1>1, Bounds DEF WorldType
  <2>3. QED
    BY <1>2, <2>1, <2>2 DEF WorldType
<1>5. SyncOK'
  <2>1. CASE Tick
    <3>1. sync' = sync
      BY <2>1 DEF Tick
    <3>2. QED
      BY <1>1, <1>3, <3>1 DEF SyncOK
  <2>2. CASE Restart
    <3>1. DOMAIN sync' = Requests /\ \A p \in Requests : sync'[p] = Idle
      BY <2>2 DEF Restart
    <3>2. PICK v : v = Idle
      OBVIOUS
    <3>3. RequestOK(v)'
      BY <1>3, <3>2, IdleOK
    <3>4. \A p \in Requests : sync'[p] = v
      BY <3>1, <3>2 DEF Idle
    <3>5. QED
      BY <3>1, <3>3, <3>4 DEF SyncOK
  <2>3. CASE \E p \in Requests : SyncStart(p)
    <3>1. PICK p \in Requests : sync' = [sync EXCEPT ![p] = [pc |-> "fetch", at |-> now]]
      BY <2>3 DEF SyncStart
    <3>2. PICK r : r = [pc |-> "fetch", at |-> now]
      OBVIOUS
    <3>3. RequestOK(r)
      BY <1>1, <3>2, Bounds DEF RequestOK, WorldType
    <3>4. QED
      BY <1>1, <1>3, <3>1, <3>2, <3>3, OneRequest
  <2>4. CASE \E p \in Requests : SyncResult(p)
    <3>1. PICK p \in Requests : sync' = [sync EXCEPT ![p] = Idle]
      BY <2>4 DEF SyncResult
    <3>2. QED
      BY <1>1, <1>3, <3>1, IdleOK, EndedRequest
  <2>5. QED
    BY <2>1, <2>2, <2>3, <2>4
<1>6. QED
  BY <1>3, <1>4, <1>5 DEF IInv

\* Numbers in increasing order, as many as a set has: all of the set.
LEMMA InOrderCovers ==
  ASSUME NEW S \in SUBSET Sources, NEW f \in [1 .. Cardinality(S) -> S],
         \A i, j \in 1 .. Cardinality(S) : i < j => f[i] < f[j]
  PROVE  \A s \in S : \E i \in 1 .. Cardinality(S) : f[i] = s
<1> DEFINE n == Cardinality(S)
<1>1. IsFiniteSet(S) /\ n \in Nat
  BY Bounds, FS_Subset, FS_CardinalityType
<1>2. \A i, j \in 1 .. n : f[i] = f[j] => i = j
  <2>1. \A i \in 1 .. n : f[i] \in Nat
    BY Bounds
  <2>2. QED
    BY <1>1, <2>1
<1>3. f \in Injection(1 .. n, S)
  BY <1>2, Fun_IsInj
<1>4. Cardinality(1 .. n) = n
  BY <1>1, FS_Interval
<1>5. f \in Surjection(1 .. n, S)
  BY <1>1, <1>3, <1>4, FS_Injection
<1>6. QED
  BY <1>5 DEF Surjection

\* The results of a fetch nothing of which raised: one of every enabled source.
LEMMA FetchedAll ==
  ASSUME WorldType, NEW limit \in Limits,
         NEW results \in [1 .. Cardinality(enabled) ->
                            UNION {FetchLatest(s, limit) : s \in enabled}],
         \A i, j \in DOMAIN results : i < j => results[i].source < results[j].source,
         ~ \E i \in DOMAIN results : results[i].kind = "raised"
  PROVE  /\ results \in Seq(Results)
         /\ \A s \in enabled : \E i \in DOMAIN results : results[i].source = s
<1> DEFINE n == Cardinality(enabled)
<1>1. n \in Nat /\ enabled \in SUBSET Sources
  BY Bounds, FS_Subset, FS_CardinalityType DEF WorldType
<1>2. ASSUME NEW i \in 1 .. n
      PROVE  results[i] \in Results /\ results[i].source \in enabled
  <2>1. PICK s \in enabled : results[i] \in FetchLatest(s, limit)
    OBVIOUS
  <2>2. s \in Sources /\ results[i].kind # "raised"
    BY <1>1
  <2>3. QED
    BY <2>1, <2>2, FetchedType
<1>3. DOMAIN results = 1 .. n
  OBVIOUS
<1>4. results \in [1 .. n -> Results]
  BY <1>2
<1>5. results \in Seq(Results)
  BY <1>1, <1>4, FunctionIsSeq
<1>6. PICK f : f = [i \in 1 .. n |-> results[i].source]
  OBVIOUS
<1>7. f \in [1 .. n -> enabled] /\ \A i, j \in 1 .. n : i < j => f[i] < f[j]
  BY <1>2, <1>3, <1>6
<1>8. \A s \in enabled : \E i \in 1 .. n : f[i] = s
  BY <1>1, <1>7, InOrderCovers
<1>9. QED
  BY <1>3, <1>5, <1>6, <1>8

\* The feeds have been fetched.
LEMMA FetchedStep ==
  ASSUME IInv, NEW p \in Requests, SyncFetched(p)
  PROVE  IInv'
<1>1. WorldType /\ SyncOK /\ now \in 0 .. MaxTime /\ MaxTime \in Nat
  BY Bounds DEF IInv, WorldType
<1>2. UNCHANGED <<now, enabled, items, health, started, faults>>
  BY DEF SyncFetched
<1>3. ItemsOK' /\ HealthOK' /\ \A r : RequestOK(r) => RequestOK(r)'
  <2>1. now' \in 0 .. MaxTime /\ now' >= now
    BY <1>1, <1>2
  <2>2. QED
    BY <1>2, <2>1, TablesKept
<1>4. WorldType'
  BY <1>1, <1>2 DEF WorldType
<1>5. SyncOK'
  <2>0. PICK limit \in Limits :
          \E results \in [1 .. Cardinality(enabled) ->
                            UNION {FetchLatest(s, limit) : s \in enabled}] :
            /\ \A i, j \in DOMAIN results : i < j => results[i].source < results[j].source
            /\ sync' = [sync EXCEPT ![p] =
                 IF \E i \in DOMAIN results : results[i].kind = "raised" THEN Idle
                 ELSE Loop([pc |-> "loop", at |-> sync[p].at, results |-> results,
                            seen |-> {}, of |-> enabled])]
    BY DEF SyncFetched
  <2>1. PICK results \in [1 .. Cardinality(enabled) ->
                            UNION {FetchLatest(s, limit) : s \in enabled}] :
          /\ \A i, j \in DOMAIN results : i < j => results[i].source < results[j].source
          /\ sync' = [sync EXCEPT ![p] =
               IF \E i \in DOMAIN results : results[i].kind = "raised" THEN Idle
               ELSE Loop([pc |-> "loop", at |-> sync[p].at, results |-> results,
                          seen |-> {}, of |-> enabled])]
    BY <2>0
  <2>2. CASE \E i \in DOMAIN results : results[i].kind = "raised"
    <3>1. sync' = [sync EXCEPT ![p] = Idle]
      BY <2>1, <2>2
    <3>2. QED
      BY <1>1, <1>3, <3>1, EndedRequest
  <2>3. CASE ~ \E i \in DOMAIN results : results[i].kind = "raised"
    <3>1. PICK r : r = [pc |-> "loop", at |-> sync[p].at, results |-> results,
                        seen |-> {}, of |-> enabled]
      OBVIOUS
    <3>2. sync[p].at \in 0 .. now
      <4>1. RequestOK(sync[p]) /\ sync[p].pc = "fetch"
        BY <1>1 DEF SyncOK, SyncFetched
      <4>2. QED
        BY <4>1 DEF RequestOK, Request, Idle
    <3>3. /\ results \in Seq(Results)
          /\ \A s \in enabled : \E i \in DOMAIN results : results[i].source = s
      BY <1>1, <2>1, <2>3, FetchedAll
    <3>4. r \in Request({"loop", "append"}) /\ Covered(r)
      BY <1>1, <3>1, <3>2, <3>3 DEF Request, Covered, WorldType
    <3>5. RequestOK(Loop(r))
      BY <3>4, LoopOK
    <3>6. PICK v : v = Loop(r)
      OBVIOUS
    <3>7. sync' = [sync EXCEPT ![p] = v]
      BY <2>1, <2>3, <3>1, <3>6
    <3>8. RequestOK(v)'
      BY <1>3, <3>5, <3>6
    <3>9. QED
      BY <1>1, <1>3, <3>7, <3>8, OneRequest
  <2>4. QED
    BY <2>2, <2>3
<1>6. QED
  BY <1>3, <1>4, <1>5 DEF IInv

\* The head of the results of a request in the loop.
LEMMA HeadOK ==
  ASSUME IInv, NEW p \in Requests, sync[p].pc \in {"upsert", "append"}
  PROVE  /\ sync[p] \in Request({"upsert", "append", "done"})
         /\ sync[p].results # <<>> /\ Covered(sync[p])
         /\ sync[p].pc = "append" => ItemsFirst(sync[p])
         /\ Head(sync[p].results) \in Results
<1>1. RequestOK(sync[p])
  BY DEF IInv, SyncOK
<1>2. /\ sync[p] \in Request({"upsert", "append", "done"})
      /\ sync[p].results # <<>> /\ Covered(sync[p])
      /\ sync[p].pc = "append" => ItemsFirst(sync[p])
  BY <1>1 DEF RequestOK, Idle
<1>3. Head(sync[p].results) \in Results
  BY <1>2, HeadTailProperties DEF Request
<1>4. QED
  BY <1>2, <1>3

\* The items of a source are inserted, or the insert fails.
LEMMA UpsertStep ==
  ASSUME IInv, NEW p \in Requests, UpsertItems(p)
  PROVE  IInv'
<1> DEFINE result == Head(sync[p].results)
           after == Upserted(result.source, EnrichItems(result.items, sync[p].seen))
<1>1. WorldType /\ SyncOK /\ ItemsOK /\ HealthOK /\ now \in 0 .. MaxTime /\ MaxTime \in Nat
      /\ MaxFaults \in Nat
  BY Bounds DEF IInv, WorldType
<1>2. /\ UNCHANGED <<now, enabled, health, started>>
      /\ sync[p].pc = "upsert" /\ items' \in {items, after}
      /\ faults' = faults \/ Fault
  BY DEF UpsertItems
<1>3. /\ sync[p] \in Request({"upsert", "append", "done"})
      /\ sync[p].results # <<>> /\ Covered(sync[p]) /\ result \in Results
  BY <1>2, HeadOK
<1>4. /\ result.source \in Sources /\ result.items \in Seq(Item)
      /\ \A i \in DOMAIN result.items : <<result.source, result.items[i].id>> \in Keys
  BY <1>3 DEF Results
<1>5. /\ DOMAIN after = Keys
      /\ \A k \in Keys : after[k] # None => RowOK(after[k])
      /\ \A k \in Keys : items[k] # None => after[k] # None
      /\ \A i \in DOMAIN result.items : after[<<result.source, result.items[i].id>>] # None
  BY <1>1, <1>4, UpsertedEffect
<1>6. PICK table : table = after
  OBVIOUS
<1> HIDE DEF after
<1>7. WorldType'
  BY <1>1, <1>2 DEF WorldType, Fault
<1>8. ItemsOK'
  <2>1. DOMAIN items' = Keys
    BY <1>1, <1>2, <1>5 DEF ItemsOK
  <2>2. \A k \in Keys : items'[k] # None => RowOK(items'[k])
    BY <1>1, <1>2, <1>5 DEF ItemsOK
  <2>3. QED
    BY <1>2, <2>1, <2>2 DEF ItemsOK, RowOK
<1>9. \A k \in Keys : items[k] # None => items'[k] # None
  BY <1>2, <1>5
<1>10. HealthOK'
  BY <1>1, <1>2, <1>9 DEF HealthOK
<1>11. \A r : RequestOK(r) => RequestOK(r)'
  <2>1. now' \in 0 .. MaxTime /\ now' >= now /\ health \subseteq health'
    BY <1>1, <1>2
  <2>2. QED
    BY <1>1, <1>9, <2>1, RequestsKept
<1>12. SyncOK'
  <2>1. CASE sync' = [sync EXCEPT ![p] = Idle]
    BY <1>1, <1>11, <2>1, EndedRequest
  <2>2. CASE /\ items' = after
             /\ sync' = [sync EXCEPT ![p].pc = "append",
                                     ![p].seen = @ \cup Fingerprints(result.items)]
    <3>1. PICK r : r = sync[p]
      OBVIOUS
    <3>2. PICK seen : seen = r.seen \cup Fingerprints(result.items)
      OBVIOUS
    <3>3. PICK v : v = [r EXCEPT !.pc = "append", !.seen = seen]
      OBVIOUS
    <3>4. sync' = [sync EXCEPT ![p] = v]
      BY <1>1, <1>3, <2>2, <3>1, <3>2, <3>3 DEF SyncOK, Request
    <3>5. seen \in SUBSET Stories
      <4>1. r.seen \in SUBSET Stories
        BY <1>3, <3>1 DEF Request
      <4>2. \A i \in DOMAIN result.items : result.items[i] \in Item
        BY <1>4, ElementOfSeq, LenProperties
      <4>3. \A i \in DOMAIN result.items : Fingerprint(result.items[i]) \in Stories
        BY <4>2 DEF Fingerprint, Stories, Item
      <4>4. QED
        BY <3>2, <4>1, <4>3 DEF Fingerprints
    <3>6. /\ v \in Request({"upsert", "append", "done"})
          /\ v.results = r.results /\ v.of = r.of /\ v.at = r.at /\ v.pc = "append"
      BY <1>3, <3>1, <3>3, <3>5 DEF Request
    <3>7. v \in Request({"upsert", "append", "done"})' /\ Covered(v)'
      BY <1>2, <1>3, <3>1, <3>6 DEF Request, Covered
    <3>8. ItemsFirst(v)'
      <4>1. Head(v.results) = result
        BY <3>1, <3>6
      <4>2. \A i \in DOMAIN result.items :
              items'[<<result.source, result.items[i].id>>] # None
        BY <1>5, <2>2
      <4>3. QED
        BY <3>1, <3>6, <4>2 DEF ItemsFirst
    <3>9. RequestOK(v)'
      BY <1>3, <3>1, <3>6, <3>7, <3>8 DEF RequestOK
    <3>10. QED
      BY <1>1, <1>11, <3>4, <3>9, OneRequest
  <2>3. QED
    BY <2>1, <2>2 DEF UpsertItems, after
<1>13. QED
  BY <1>7, <1>8, <1>10, <1>12 DEF IInv

\* The snapshot of a source is appended, or that fails.
LEMMA AppendStep ==
  ASSUME IInv, NEW p \in Requests, AppendSourceHealthSnapshot(p)
  PROVE  IInv'
<1> DEFINE result == Head(sync[p].results)
<1>1. WorldType /\ SyncOK /\ ItemsOK /\ HealthOK /\ now \in 0 .. MaxTime /\ MaxTime \in Nat
      /\ MaxFaults \in Nat
  BY Bounds DEF IInv, WorldType
<1>2. PICK snap : snap = Snapshot(p)
  OBVIOUS
<1>3. /\ UNCHANGED <<now, enabled, items, started>>
      /\ sync[p].pc = "append" /\ health' \in {health, health \cup {snap}}
      /\ faults' = faults \/ Fault
  BY <1>2 DEF AppendSourceHealthSnapshot
<1>4. /\ sync[p] \in Request({"upsert", "append", "done"})
      /\ sync[p].results # <<>> /\ Covered(sync[p]) /\ ItemsFirst(sync[p])
      /\ result \in Results
  BY <1>3, HeadOK
<1>5. /\ snap.source = result.source /\ snap.status = result.kind /\ snap.at = sync[p].at
      /\ snap.got = {result.items[i].id : i \in DOMAIN result.items}
  BY <1>2 DEF Snapshot
<1>6. /\ snap.source \in Sources /\ snap.status \in {"ok", "error"} /\ snap.at \in 0 .. now
      /\ \A id \in snap.got : <<snap.source, id>> \in Keys /\ items[<<snap.source, id>>] # None
  <2>1. \A i \in DOMAIN result.items :
          /\ <<result.source, result.items[i].id>> \in Keys
          /\ items[<<result.source, result.items[i].id>>] # None
    BY <1>4 DEF Results, ItemsFirst
  <2>2. result.source \in Sources /\ result.kind \in {"ok", "error"} /\ sync[p].at \in 0 .. now
    BY <1>4 DEF Results, Request
  <2>3. QED
    BY <1>5, <2>1, <2>2
<1>7. WorldType'
  BY <1>1, <1>3 DEF WorldType, Fault
<1>8. ItemsOK'
  BY <1>1, <1>3 DEF ItemsOK, RowOK
<1>9. HealthOK'
  BY <1>1, <1>3, <1>6 DEF HealthOK
<1>10. \A r : RequestOK(r) => RequestOK(r)'
  <2>1. now' \in 0 .. MaxTime /\ now' >= now /\ health \subseteq health'
        /\ \A k \in Keys : items[k] # None => items'[k] # None
    BY <1>1, <1>3
  <2>2. QED
    BY <1>1, <2>1, RequestsKept
<1>11. SyncOK'
  <2>1. CASE sync' = [sync EXCEPT ![p] = Idle]
    BY <1>1, <1>10, <2>1, EndedRequest
  <2>2. CASE /\ health' = health \cup {snap}
             /\ sync' = [sync EXCEPT ![p] =
                  Loop([sync[p] EXCEPT !.results = Tail(sync[p].results)])]
    <3>1. PICK r : r = sync[p]
      OBVIOUS
    <3>2. PICK left : left = [r EXCEPT !.results = Tail(r.results)]
      OBVIOUS
    <3>3. PICK v : v = Loop(left)
      OBVIOUS
    <3>4. sync' = [sync EXCEPT ![p] = v]
      <4>1. Loop([sync[p] EXCEPT !.results = Tail(sync[p].results)]) = v
        BY <3>1, <3>2, <3>3
      <4>2. QED
        BY <2>2, <4>1
    <3>5. r.results \in Seq(Results) /\ r.results # <<>> /\ r.pc = "append"
      BY <1>3, <1>4, <3>1 DEF Request
    <3>6. /\ Tail(r.results) \in Seq(Results)
          /\ \A i \in DOMAIN r.results : i = 1 \/ \E j \in DOMAIN Tail(r.results) :
               Tail(r.results)[j] = r.results[i]
      <4>1. /\ Tail(r.results) \in Seq(Results) /\ Len(r.results) \in Nat \ {0}
            /\ DOMAIN r.results = 1 .. Len(r.results)
            /\ DOMAIN Tail(r.results) = 1 .. (Len(r.results) - 1)
            /\ \A j \in 1 .. (Len(r.results) - 1) : Tail(r.results)[j] = r.results[j + 1]
        BY <3>5, HeadTailProperties, LenProperties, EmptySeq
      <4>2. ASSUME NEW i \in DOMAIN r.results, i # 1
            PROVE  i - 1 \in DOMAIN Tail(r.results) /\ Tail(r.results)[i - 1] = r.results[i]
        BY <4>1, <4>2
      <4>3. QED
        BY <4>1, <4>2
    <3>7. left \in Request({"loop", "append"})
      BY <1>4, <3>1, <3>2, <3>5, <3>6 DEF Request
    <3>8. left.results = Tail(r.results) /\ left.of = r.of /\ left.at = r.at
      BY <1>4, <3>1, <3>2 DEF Request
    <3>9. /\ v \in Request({"upsert", "append", "done"})
          /\ v.results = left.results /\ v.of = left.of /\ v.at = left.at
          /\ v.pc \in {"upsert", "append"} => v.results # <<>>
          /\ v.pc = "done" => v.results = <<>>
          /\ v.pc = "append" => DOMAIN Head(v.results).items = {}
      BY <3>3, <3>7, LoopShape
    <3>10. v \in Request({"upsert", "append", "done"})'
      BY <1>3, <3>9 DEF Request
    <3>11. Covered(v)'
      <4>1. SUFFICES ASSUME NEW s \in v.of
                     PROVE  \/ \E i \in DOMAIN v.results : v.results[i].source = s
                            \/ \E h \in health' : h.source = s /\ h.at = v.at
        BY DEF Covered
      <4>2. CASE \E h \in health : h.source = s /\ h.at = r.at
        BY <2>2, <3>8, <3>9, <4>2
      <4>3. CASE \E i \in DOMAIN r.results : r.results[i].source = s
        <5>1. PICK i \in DOMAIN r.results : r.results[i].source = s
          BY <4>3
        <5>2. CASE i = 1
          <6>1. snap.source = s /\ snap.at = v.at
            BY <1>5, <3>1, <3>5, <3>8, <3>9, <5>1, <5>2
          <6>2. QED
            BY <2>2, <6>1
        <5>3. CASE i # 1
          BY <3>6, <3>8, <3>9, <5>1, <5>3
        <5>4. QED
          BY <5>2, <5>3
      <4>4. QED
        BY <1>4, <3>1, <3>8, <3>9, <4>2, <4>3 DEF Covered
    <3>12. v.pc = "append" => ItemsFirst(v)'
      BY <3>9 DEF ItemsFirst
    <3>13. RequestOK(v)'
      BY <3>9, <3>10, <3>11, <3>12 DEF RequestOK
    <3>14. QED
      BY <1>1, <1>10, <3>4, <3>13, OneRequest
  <2>3. QED
    BY <1>2, <2>1, <2>2 DEF AppendSourceHealthSnapshot
<1>12. QED
  BY <1>7, <1>8, <1>9, <1>11 DEF IInv

\* Every step keeps the invariant.
LEMMA NextInv ==
  ASSUME IInv, [Next]_vars
  PROVE  IInv'
<1>1. CASE Tick \/ Restart \/ \E p \in Requests : SyncStart(p) \/ SyncResult(p)
  BY <1>1, OutsideStep
<1>2. CASE \E p \in Requests : SyncFetched(p)
  BY <1>2, FetchedStep
<1>3. CASE \E p \in Requests : UpsertItems(p)
  BY <1>3, UpsertStep
<1>4. CASE \E p \in Requests : AppendSourceHealthSnapshot(p)
  BY <1>4, AppendStep
<1>5. CASE UNCHANGED vars
  <2>1. UNCHANGED <<now, enabled, items, health, sync, started, faults>>
    BY <1>5 DEF vars
  <2>2. WorldType /\ ItemsOK /\ HealthOK /\ SyncOK
    BY DEF IInv
  <2>3. WorldType' /\ now' \in 0 .. MaxTime /\ now' >= now
    BY <2>1, <2>2, Bounds DEF WorldType
  <2>4. ItemsOK' /\ HealthOK' /\ \A r : RequestOK(r) => RequestOK(r)'
    BY <2>1, <2>3, TablesKept
  <2>5. SyncOK'
    BY <2>1, <2>2, <2>4 DEF SyncOK
  <2>6. QED
    BY <2>3, <2>4, <2>5 DEF IInv
<1>6. QED
  BY <1>1, <1>2, <1>3, <1>4, <1>5 DEF Next

\* The invariant holds in every reachable state.
LEMMA Invariance == Spec => []IInv
<1>1. IInv /\ [Next]_vars => IInv'
  BY NextInv
<1>2. QED
  BY InitInv, <1>1, PTL DEF Spec

-----------------------------------------------------------------------------
(* The theorems *)

\* Every variable has its type in every reachable state, and the loop of a sync
\* that is not done always has the result of a source to work on.
THEOREM TypeCorrect == Spec => []TypeOK
<1>1. IInv => TypeOK
  <2> SUFFICES ASSUME IInv PROVE TypeOK
    OBVIOUS
  <2>1. WorldType /\ ItemsOK /\ HealthOK /\ SyncOK
    BY DEF IInv
  <2>2. ASSUME NEW k \in Keys, items[k] # None
        PROVE  items[k].at \in 0 .. now /\ items[k].published \in 0 .. MaxTime
               /\ items[k].reason \in Vetted
    BY <2>1, <2>2 DEF ItemsOK, RowOK
  <2>3. ASSUME NEW h \in health
        PROVE  h.source \in Sources /\ h.status \in {"ok", "error"} /\ h.at <= now
    BY <2>1, Bounds DEF HealthOK, WorldType
  <2>4. ASSUME NEW p \in Requests
        PROVE  /\ sync[p].pc \in {"idle", "fetch", "upsert", "append", "done"}
               /\ sync[p].pc \in {"upsert", "append"} => sync[p].results # <<>>
    <3>1. RequestOK(sync[p])
      BY <2>1 DEF SyncOK
    <3>2. QED
      BY <3>1 DEF RequestOK, Request, Idle
  <2>5. DOMAIN items = Keys /\ DOMAIN sync = Requests
    BY <2>1 DEF ItemsOK, SyncOK
  <2>6. QED
    BY <2>1, <2>2, <2>3, <2>4, <2>5 DEF TypeOK, WorldType
<1>2. QED
  BY <1>1, Invariance, PTL

\* A sync that answers has a snapshot of every source that was enabled, and a
\* source reported ok has in the table everything the check fetched.
THEOREM SourcesChecked == Spec => []SourcesAccounted
<1>1. IInv => SourcesAccounted
  <2> SUFFICES ASSUME IInv PROVE SourcesAccounted
    OBVIOUS
  <2>1. HealthOK /\ SyncOK
    BY DEF IInv
  <2>2. ASSUME NEW p \in Requests, sync[p].pc = "done", NEW s \in sync[p].of
        PROVE  \E h \in health : h.source = s /\ h.at = sync[p].at
    <3>1. RequestOK(sync[p])
      BY <2>1 DEF SyncOK
    <3>2. sync[p].results = <<>> /\ Covered(sync[p])
      BY <2>2, <3>1 DEF RequestOK, Idle
    <3>3. DOMAIN sync[p].results = {}
      BY <3>2, EmptySeq
    <3>4. QED
      BY <3>2, <3>3 DEF Covered
  <2>3. ASSUME NEW h \in health, NEW id \in h.got PROVE items[<<h.source, id>>] # None
    BY <2>1 DEF HealthOK
  <2>4. QED
    BY <2>2, <2>3 DEF SourcesAccounted
<1>2. QED
  BY <1>1, Invariance, PTL

\* The ingestion is reported ready only if a source answered within the last
\* MaxAge ticks and everything it showed is in the table.
THEOREM ReadyIsFresh == Spec => []ReadyMeansFresh
<1>1. IInv => ReadyMeansFresh
  <2> SUFFICES ASSUME IInv, MaybeReady
               PROVE  \E h \in health :
                        /\ h.status = "ok" /\ now - h.at <= MaxAge
                        /\ \A id \in h.got : items[<<h.source, id>>] # None
    BY DEF ReadyMeansFresh
  <2>1. PICK h \in health : h.status = "ok" /\ now - h.at <= MaxAge
    BY DEF MaybeReady, Freshness, LatestHealth
  <2>2. \A id \in h.got : items[<<h.source, id>>] # None
    BY DEF IInv, HealthOK
  <2>3. QED
    BY <2>1, <2>2
<1>2. QED
  BY <1>1, Invariance, PTL
-----------------------------------------------------------------------------
(* Duplicates and their originals.  What is hidden as a duplicate was seen   *)
(* in this feed or in one of a source before it, and there somebody has      *)
(* stored a copy that is not: a request that stores such a copy again as a   *)
(* duplicate has itself seen one before that.                                *)

\* A copy that is not hidden as a duplicate is stored for a source up to s.
Original(story, s) ==
  \E k \in Keys : /\ k[1] <= s /\ items[k] # None /\ items[k].story = story
                  /\ items[k].reason # "duplicate_content"

\* The entry a row was made of.
Behind(k, row, e) ==
  /\ SourceId(e) = k[2] /\ row.story = <<Title(e), e.link>>
  /\ Fit(e) => row.reason \in {"none", "duplicate_content"}
  /\ row.reason = "none" => Fit(e)

RowsBacked ==
  \A k \in Keys : items[k] # None => \E e \in EntriesOf(k[1]) : Behind(k, items[k], e)

\* The items of a result are entries of a feed of the source, each with an id of its own.
ReadFrom(s, list) ==
  /\ \A i \in DOMAIN list :
       /\ list[i].entry \in EntriesOf(s) /\ list[i].id = SourceId(list[i].entry)
       /\ list[i].title = Title(list[i].entry) /\ list[i].url = list[i].entry.link
  /\ \A i, j \in DOMAIN list : list[i].id = list[j].id => i = j

\* The sources a request has been through.
Passed(r) == IF r.pc = "append" THEN Head(r.results).source ELSE Head(r.results).source - 1

SeenOK(r) ==
  r.pc \in {"upsert", "append"} =>
    /\ \A i \in DOMAIN r.results : ReadFrom(r.results[i].source, r.results[i].items)
    /\ \A i, j \in DOMAIN r.results : i < j => r.results[i].source < r.results[j].source
    /\ \A story \in r.seen : Original(story, Passed(r))

OriginalsInv ==
  /\ IInv /\ DuplicateHasOriginal /\ RowsBacked
  /\ \A p \in Requests : \A r : r = sync[p] => SeenOK(r)

\* A key is a source and an id of its feed.
LEMMA KeyShape ==
  ASSUME NEW k \in Keys
  PROVE  /\ k[1] \in Sources /\ k = <<k[1], k[2]>>
         /\ \E e \in EntriesOf(k[1]) : SourceId(e) = k[2]
<1>1. PICK s \in Sources : k \in {<<s, SourceId(e)>> : e \in EntriesOf(s)}
  BY DEF Keys
<1>2. PICK e \in EntriesOf(s) : k = <<s, SourceId(e)>>
  BY <1>1
<1>3. QED
  BY <1>2

\* What the reader makes of a feed that keeps its ids.
LEMMA ParsedRead ==
  ASSUME StableIds, NEW s \in Sources, NEW feed \in Shows[s], NEW limit \in Limits
  PROVE  ReadFrom(s, ParseEntries(feed, limit))
<1> DEFINE n == IF Len(feed) < limit THEN Len(feed) ELSE limit
           parsed == ParseEntries(feed, limit)
<1>1. feed \in Seq(Entries)
  BY Bounds
<1>2. Len(feed) \in Nat /\ DOMAIN feed = 1 .. Len(feed)
  BY <1>1, LenProperties
<1>3. n \in Nat /\ 1 .. n \subseteq DOMAIN feed
  BY <1>2, Bounds
<1>4. /\ DOMAIN parsed = 1 .. n
      /\ \A i \in 1 .. n :
           /\ parsed[i].entry = feed[i] /\ parsed[i].id = SourceId(feed[i])
           /\ parsed[i].title = Title(feed[i]) /\ parsed[i].url = feed[i].link
  BY DEF ParseEntries
<1> HIDE DEF parsed, n
<1>5. \A i \in 1 .. n : feed[i] \in EntriesOf(s)
  BY <1>3 DEF EntriesOf, ToSet
<1>6. \A i, j \in 1 .. n : SourceId(feed[i]) = SourceId(feed[j]) => i = j
  BY <1>3 DEF StableIds
<1>7. ReadFrom(s, parsed)
  BY <1>4, <1>5, <1>6 DEF ReadFrom
<1>8. QED
  BY <1>7 DEF parsed

\* And what a fetch that did not raise.
LEMMA FetchedRead ==
  ASSUME StableIds, NEW s \in Sources, NEW limit \in Limits,
         NEW r \in FetchLatest(s, limit), r.kind # "raised"
  PROVE  r.source = s /\ ReadFrom(s, r.items)
<1>1. CASE \E feed \in Shows[s] :
             r = [source |-> s, kind |-> "ok", items |-> ParseEntries(feed, limit)]
  BY <1>1, ParsedRead
<1>2. CASE r = [source |-> s, kind |-> "error", items |-> <<>>]
  <2>1. DOMAIN <<>> = {}
    BY EmptySeq
  <2>2. QED
    BY <1>2, <2>1 DEF ReadFrom
<1>3. QED
  BY <1>1, <1>2 DEF FetchLatest

\* A list has a first copy of each of its stories, which is not a duplicate of
\* one before it in the list.
LEMMA FirstCopy ==
  ASSUME NEW list \in Seq(Item), NEW i \in DOMAIN list
  PROVE  \E j \in DOMAIN list :
           /\ Fingerprint(list[j]) = Fingerprint(list[i])
           /\ Fingerprint(list[j]) \notin Fingerprints(SubSeq(list, 1, j - 1))
<1> DEFINE copies == {m \in DOMAIN list : Fingerprint(list[m]) = Fingerprint(list[i])}
<1>1. DOMAIN list = 1 .. Len(list) /\ Len(list) \in Nat
  BY LenProperties
<1>2. copies \in SUBSET Nat /\ i \in copies
  BY <1>1
<1>3. IsWellFoundedOn(Below, Nat)
  BY NatLessThanWellFounded, Zenon DEF OpToRel, Below
<1>4. PICK j \in copies : \A m \in copies : <<m, j>> \notin Below
  BY <1>2, <1>3, WFMin
<1>5. j \in 1 .. Len(list) /\ Fingerprint(list[j]) = Fingerprint(list[i])
  BY <1>1, <1>4
<1>6. \A m \in 1 .. (j - 1) : Fingerprint(list[m]) # Fingerprint(list[j])
  <2> SUFFICES ASSUME NEW m \in 1 .. (j - 1), Fingerprint(list[m]) = Fingerprint(list[j])
               PROVE  FALSE
    OBVIOUS
  <2>1. m \in copies
    BY <1>1, <1>5
  <2>2. <<m, j>> \in Below
    BY <1>5 DEF Below
  <2>3. QED
    BY <1>4, <2>1, <2>2
<1>7. /\ DOMAIN SubSeq(list, 1, j - 1) = 1 .. (j - 1)
      /\ \A m \in 1 .. (j - 1) : SubSeq(list, 1, j - 1)[m] = list[m]
  <2>1. SubSeq(list, 1, j - 1) = [m \in 1 .. (j - 1) |-> list[m]]
    BY <1>1, <1>5 DEF SubSeq
  <2>2. QED
    BY <2>1
<1>8. Fingerprint(list[j]) \notin Fingerprints(SubSeq(list, 1, j - 1))
  BY <1>6, <1>7 DEF Fingerprints
<1>9. QED
  BY <1>1, <1>5, <1>8

\* What the quarantine makes of the items of a feed.
LEMMA EnrichedStory ==
  ASSUME NEW s, NEW list \in Seq(Item), ReadFrom(s, list), NEW seen, NEW i \in DOMAIN list
  PROVE  LET row == EnrichItems(list, seen)[i]
         IN  /\ row.story = Fingerprint(list[i])
             /\ row.story = <<Title(list[i].entry), list[i].entry.link>>
             /\ Fit(list[i].entry) => row.reason \in {"none", "duplicate_content"}
             /\ row.reason = "none" => Fit(list[i].entry)
             /\ row.reason = "duplicate_content" =>
                  row.story \in seen \cup Fingerprints(SubSeq(list, 1, i - 1))
<1> DEFINE twin == Fingerprint(list[i]) \in seen \cup Fingerprints(SubSeq(list, 1, i - 1))
<1>1. /\ EnrichItems(list, seen)[i].story = Fingerprint(list[i])
      /\ EnrichItems(list, seen)[i].reason = QuarantineReason(list[i], twin)
  BY DEF EnrichItems
<1>2. Fingerprint(list[i]) = <<Title(list[i].entry), list[i].entry.link>>
  BY DEF Fingerprint, ReadFrom
<1>3. QuarantineReason(list[i], twin) = "duplicate_content" => twin
  BY DEF QuarantineReason
<1>4. /\ Fit(list[i].entry) => QuarantineReason(list[i], twin) \in {"none", "duplicate_content"}
      /\ QuarantineReason(list[i], twin) = "none" => Fit(list[i].entry)
  <2>1. list[i].url = list[i].entry.link
    BY DEF ReadFrom
  <2>2. PICK score : score = QualityScore(list[i].entry)
    OBVIOUS
  <2>3. score \in Int
    BY <2>2 DEF QualityScore
  <2>4. Fit(list[i].entry) <=> list[i].url # "" /\ score >= 55
    BY <2>1, <2>2 DEF Fit
  <2>5. score >= 55 <=> ~(score < 55)
    BY <2>3
  <2>6. QED
    BY <2>2, <2>4, <2>5 DEF QuarantineReason
<1> HIDE DEF twin
<1>5. QED
  BY <1>1, <1>2, <1>3, <1>4 DEF twin

\* An upsert writes the row of each of its items and no other.
LEMMA UpsertedRows ==
  ASSUME WorldType, ItemsOK, NEW s \in Sources, NEW list \in Seq(Item), NEW seen,
         \A i \in DOMAIN list : <<s, list[i].id>> \in Keys, ReadFrom(s, list)
  PROVE  LET after == Upserted(s, EnrichItems(list, seen))
         IN  \A k \in Keys :
               \/ after[k] = items[k] /\ \A i \in DOMAIN list : k # <<s, list[i].id>>
               \/ \E i \in DOMAIN list :
                    /\ k = <<s, list[i].id>>
                    /\ after[k].story = EnrichItems(list, seen)[i].story
                    /\ after[k].reason = EnrichItems(list, seen)[i].reason
<1> DEFINE rows == EnrichItems(list, seen)
           after == Upserted(s, rows)
           mine(k) == {i \in DOMAIN rows : k = <<s, rows[i].id>>}
           last(k) == CHOOSE i \in mine(k) : \A j \in mine(k) : j <= i
<1>1. DOMAIN rows = DOMAIN list /\ \A i \in DOMAIN list : rows[i].id = list[i].id
  BY EnrichedType
<1>2. \A k \in Keys : after[k] = IF mine(k) = {} \/ items[k].at > now THEN items[k]
                                 ELSE ItemToRow(rows[last(k)], now)
  BY DEF Upserted
<1>3. DOMAIN list = 1 .. Len(list) /\ Len(list) \in Nat
  BY LenProperties
<1> HIDE DEF rows, after
<1> SUFFICES ASSUME NEW k \in Keys
             PROVE  \/ after[k] = items[k] /\ \A i \in DOMAIN list : k # <<s, list[i].id>>
                    \/ \E i \in DOMAIN list : /\ k = <<s, list[i].id>>
                                              /\ after[k].story = rows[i].story
                                              /\ after[k].reason = rows[i].reason
  BY DEF rows, after
<1>4. CASE mine(k) = {}
  BY <1>1, <1>2, <1>4
<1>5. CASE mine(k) # {}
  <2>1. mine(k) \in SUBSET (1 .. Len(list))
    BY <1>1, <1>3
  <2>2. \E i \in mine(k) : \A j \in mine(k) : j <= i
    <3> HIDE DEF mine
    <3>1. QED
      BY <1>3, <1>5, <2>1, LastRow
  <2>3. PICK i : i = last(k)
    OBVIOUS
  <2>4. i \in mine(k)
    BY <2>2, <2>3
  <2>5. ~(items[k].at > now)
    <3>1. now \in Nat /\ None.at = -1
      BY Bounds DEF WorldType, None
    <3>2. items[k] # None => items[k].at \in 0 .. now
      BY DEF ItemsOK, RowOK
    <3>3. QED
      BY <3>1, <3>2
  <2>6. after[k] = ItemToRow(rows[i], now)
    BY <1>2, <1>5, <2>3, <2>5
  <2>7. i \in DOMAIN list /\ k = <<s, list[i].id>>
    BY <1>1, <2>4
  <2>8. QED
    BY <2>6, <2>7 DEF ItemToRow
<1>6. QED
  BY <1>4, <1>5
\* An upsert leaves every story it stores, and every story that had one, with an
\* original at or before the source it had it at.
LEMMA StoredStories ==
  ASSUME StableIds, WorldType, ItemsOK, RowsBacked,
         NEW s \in Sources, NEW list \in Seq(Item), NEW seen,
         \A i \in DOMAIN list : <<s, list[i].id>> \in Keys, ReadFrom(s, list),
         \A story \in seen : Original(story, s - 1),
         items' = Upserted(s, EnrichItems(list, seen))
  PROVE  /\ \A i \in DOMAIN list : Original(Fingerprint(list[i]), s)'
         /\ \A story : \A t \in Int : Original(story, t) => Original(story, t)'
         /\ RowsBacked'
         /\ DuplicateHasOriginal => DuplicateHasOriginal'
<1> DEFINE rows == EnrichItems(list, seen)
           same(k) == items'[k] = items[k] /\ \A i \in DOMAIN list : k # <<s, list[i].id>>
           written(k, i) == /\ k = <<s, list[i].id>>
                            /\ items'[k].story = rows[i].story
                            /\ items'[k].reason = rows[i].reason
<1>1. \A k \in Keys : same(k) \/ \E i \in DOMAIN list : written(k, i)
  BY UpsertedRows
<1>2. \A i \in DOMAIN list : items'[<<s, list[i].id>>] # None
  BY UpsertedEffect
<1>3. \A i \in DOMAIN list :
        /\ rows[i].story = Fingerprint(list[i])
        /\ rows[i].story = <<Title(list[i].entry), list[i].entry.link>>
        /\ Fit(list[i].entry) => rows[i].reason \in {"none", "duplicate_content"}
        /\ rows[i].reason = "none" => Fit(list[i].entry)
        /\ rows[i].reason = "duplicate_content" =>
             rows[i].story \in seen \cup Fingerprints(SubSeq(list, 1, i - 1))
  BY EnrichedStory
<1>4. s \in Nat /\ \A k \in Keys : k[1] \in Nat
  BY Bounds, KeyShape
<1> HIDE DEF rows
<1>5. ASSUME NEW i \in DOMAIN list PROVE Original(Fingerprint(list[i]), s)'
  <2>1. PICK j \in DOMAIN list :
          /\ Fingerprint(list[j]) = Fingerprint(list[i])
          /\ Fingerprint(list[j]) \notin Fingerprints(SubSeq(list, 1, j - 1))
    BY FirstCopy
  <2>2. CASE rows[j].reason = "duplicate_content"
    <3>1. Original(Fingerprint(list[i]), s - 1)
      BY <1>3, <2>1, <2>2
    <3>2. PICK l \in Keys : /\ l[1] <= s - 1 /\ items[l] # None
                            /\ items[l].story = Fingerprint(list[i])
                            /\ items[l].reason # "duplicate_content"
      BY <3>1 DEF Original
    <3>3. l[1] # s /\ l[1] <= s
      BY <1>4, <3>2
    <3>4. same(l)
      BY <1>1, <3>3
    <3>5. QED
      BY <3>2, <3>3, <3>4 DEF Original
  <2>3. CASE rows[j].reason # "duplicate_content"
    <3>1. PICK k : k = <<s, list[j].id>>
      OBVIOUS
    <3>2. k \in Keys /\ k[1] <= s /\ items'[k] # None
      BY <1>2, <1>4, <3>1
    <3>3. PICK m \in DOMAIN list : written(k, m)
      BY <1>1, <3>1, <3>2
    <3>4. m = j
      BY <3>1, <3>3 DEF ReadFrom
    <3>5. items'[k].story = Fingerprint(list[i]) /\ items'[k].reason # "duplicate_content"
      BY <1>3, <2>1, <2>3, <3>3, <3>4
    <3>6. QED
      BY <3>2, <3>5 DEF Original
  <2>4. QED
    BY <2>2, <2>3
<1>6. ASSUME NEW story, NEW t \in Int, Original(story, t) PROVE Original(story, t)'
  <2>1. PICK l \in Keys : /\ l[1] <= t /\ items[l] # None /\ items[l].story = story
                          /\ items[l].reason # "duplicate_content"
    BY <1>6 DEF Original
  <2>2. CASE same(l)
    BY <2>1, <2>2 DEF Original
  <2>3. CASE \E i \in DOMAIN list : written(l, i)
    <3>1. PICK i \in DOMAIN list : written(l, i)
      BY <2>3
    <3>2. s <= t /\ l[1] = s /\ l[2] = list[i].id
      BY <2>1, <3>1
    <3>3. PICK e \in EntriesOf(s) : SourceId(e) = list[i].id /\ story = <<Title(e), e.link>>
      BY <2>1, <3>2 DEF RowsBacked, Behind
    <3>4. list[i].entry \in EntriesOf(s) /\ list[i].id = SourceId(list[i].entry)
      BY DEF ReadFrom
    <3>5. Title(e) = Title(list[i].entry) /\ e.link = list[i].entry.link
      BY <3>3, <3>4 DEF StableIds
    <3>6. story = Fingerprint(list[i])
      BY <1>3, <3>3, <3>5
    <3>7. Original(story, s)'
      BY <1>5, <3>6
    <3>8. PICK k \in Keys : /\ k[1] <= s /\ items'[k] # None /\ items'[k].story = story
                            /\ items'[k].reason # "duplicate_content"
      BY <3>7 DEF Original
    <3>9. k[1] <= t
      BY <1>4, <3>2, <3>8
    <3>10. QED
      BY <3>8, <3>9 DEF Original
  <2>4. QED
    BY <1>1, <2>2, <2>3
<1>7. RowsBacked'
  <2> SUFFICES ASSUME NEW k \in Keys, items'[k] # None
               PROVE  \E e \in EntriesOf(k[1]) : Behind(k, items'[k], e)
    BY DEF RowsBacked, Behind
  <2>1. CASE same(k)
    BY <2>1 DEF RowsBacked
  <2>2. CASE \E i \in DOMAIN list : written(k, i)
    <3>1. PICK i \in DOMAIN list : written(k, i)
      BY <2>2
    <3>2. list[i].entry \in EntriesOf(s) /\ list[i].id = SourceId(list[i].entry)
      BY DEF ReadFrom
    <3>3. k[1] = s /\ k[2] = list[i].id
      BY <3>1
    <3>4. Behind(k, items'[k], list[i].entry)
      BY <1>3, <3>1, <3>2, <3>3 DEF Behind
    <3>5. QED
      BY <3>2, <3>3, <3>4
  <2>3. QED
    BY <1>1, <2>1, <2>2
<1>8. ASSUME DuplicateHasOriginal PROVE DuplicateHasOriginal'
  <2> SUFFICES ASSUME NEW k \in Keys, items'[k] # None, items'[k].reason = "duplicate_content"
               PROVE  \E l \in Keys : /\ items'[l] # None /\ items'[l].story = items'[k].story
                                      /\ items'[l].reason # "duplicate_content"
    BY DEF DuplicateHasOriginal
  <2>1. PICK story : story = items'[k].story
    OBVIOUS
  <2>2. \E t \in Int : Original(story, t)'
    <3>1. CASE same(k)
      <4>1. PICK l \in Keys : /\ items[l] # None /\ items[l].story = story
                              /\ items[l].reason # "duplicate_content"
        BY <1>8, <2>1, <3>1 DEF DuplicateHasOriginal
      <4>2. PICK t : t = l[1]
        OBVIOUS
      <4>3. t \in Int /\ l[1] <= t
        BY <1>4, <4>2
      <4>4. Original(story, t)
        BY <4>1, <4>3 DEF Original
      <4>5. QED
        BY <1>6, <4>3, <4>4
    <3>2. CASE \E i \in DOMAIN list : written(k, i)
      BY <1>3, <1>4, <1>5, <2>1, <3>2
    <3>3. QED
      BY <1>1, <3>1, <3>2
  <2>3. QED
    BY <2>1, <2>2 DEF Original
<1>9. QED
  BY <1>5, <1>6, <1>7, <1>8

\* A request sees what it saw while the tables grow.
LEMMA SeenKept ==
  ASSUME \A story : \A t \in Int : Original(story, t) => Original(story, t)',
         NEW r, SeenOK(r), RequestOK(r)
  PROVE  SeenOK(r)'
<1> SUFFICES ASSUME r.pc \in {"upsert", "append"}
             PROVE  \A story \in r.seen : Original(story, Passed(r))'
  BY DEF SeenOK, Passed
<1>1. r.results \in Seq(Results) /\ r.results # <<>>
  BY DEF RequestOK, Request, Idle
<1>2. Head(r.results).source \in Nat
  <2>1. Head(r.results) \in Results
    BY <1>1, HeadTailProperties
  <2>2. QED
    BY <2>1, Bounds DEF Results
<1>3. PICK t : t = Passed(r)
  OBVIOUS
<1>4. t \in Int
  BY <1>2, <1>3 DEF Passed
<1>5. \A story \in r.seen : Original(story, t)'
  BY <1>3, <1>4 DEF SeenOK
<1>6. QED
  BY <1>3, <1>5 DEF Passed

\* Changing one request.
LEMMA OneSeen ==
  ASSUME OriginalsInv, NEW p \in Requests, NEW v, SeenOK(v)', IInv',
         RowsBacked', DuplicateHasOriginal', sync' = [sync EXCEPT ![p] = v],
         \A story : \A t \in Int : Original(story, t) => Original(story, t)'
  PROVE  OriginalsInv'
<1>1. DOMAIN sync = Requests
  BY DEF OriginalsInv, IInv, SyncOK
<1>2. ASSUME NEW q \in Requests, NEW r, r = sync'[q] PROVE SeenOK(r)'
  <2>1. CASE q = p
    BY <1>1, <1>2, <2>1
  <2>2. CASE q # p
    <3>1. r = sync[q]
      BY <1>1, <1>2, <2>2
    <3>2. SeenOK(r) /\ RequestOK(r)
      BY <3>1 DEF OriginalsInv, IInv, SyncOK
    <3>3. QED
      BY <3>2, SeenKept
  <2>3. QED
    BY <2>1, <2>2
<1>3. QED
  BY <1>2 DEF OriginalsInv

LEMMA IdleSeen == SeenOK(Idle)
BY DEF SeenOK, Idle
\* What a step keeps that stores no item.
LEMMA StoriesKept ==
  ASSUME OriginalsInv, items' = items
  PROVE  /\ RowsBacked' /\ DuplicateHasOriginal'
         /\ \A story : \A t \in Int : Original(story, t) => Original(story, t)'
BY DEF OriginalsInv, RowsBacked, DuplicateHasOriginal, Original

\* Time, restarts and the beginning and end of a request.
LEMMA OutsideSeen ==
  ASSUME OriginalsInv, IInv',
         Tick \/ Restart \/ (\E p \in Requests : SyncStart(p) \/ SyncResult(p)) \/ UNCHANGED vars
  PROVE  OriginalsInv'
<1>1. items' = items
  BY DEF Tick, Restart, SyncStart, SyncResult, vars
<1>2. /\ RowsBacked' /\ DuplicateHasOriginal'
      /\ \A story : \A t \in Int : Original(story, t) => Original(story, t)'
  BY <1>1, StoriesKept
<1>3. CASE Tick \/ UNCHANGED vars
  <2>1. sync' = sync
    BY <1>3 DEF Tick, vars
  <2>2. ASSUME NEW p \in Requests, NEW r, r = sync'[p] PROVE SeenOK(r)'
    <3>1. SeenOK(r) /\ RequestOK(r)
      BY <2>1, <2>2 DEF OriginalsInv, IInv, SyncOK
    <3>2. QED
      BY <1>2, <3>1, SeenKept
  <2>3. QED
    BY <1>2, <2>2 DEF OriginalsInv
<1>4. CASE Restart
  <2>1. ASSUME NEW p \in Requests, NEW r, r = sync'[p] PROVE SeenOK(r)'
    <3>1. r = Idle
      BY <1>4, <2>1 DEF Restart
    <3>2. QED
      BY <3>1 DEF SeenOK, Idle
  <2>2. QED
    BY <1>2, <2>1 DEF OriginalsInv
<1>5. CASE \E p \in Requests : SyncStart(p) \/ SyncResult(p)
  <2>1. PICK p \in Requests : SyncStart(p) \/ SyncResult(p)
    BY <1>5
  <2>2. PICK v : v = IF SyncStart(p) THEN [pc |-> "fetch", at |-> now] ELSE Idle
    OBVIOUS
  <2>3. v.pc \in {"fetch", "idle"}
    BY <2>2 DEF Idle
  <2>4. sync' = [sync EXCEPT ![p] = v]
    BY <2>1, <2>2 DEF SyncStart, SyncResult
  <2>5. SeenOK(v)'
    BY <2>3 DEF SeenOK
  <2>6. QED
    BY <1>2, <2>4, <2>5, OneSeen
<1>6. QED
  BY <1>3, <1>4, <1>5

\* The results of a fetch are in the order of their sources.
LEMMA FetchedSeen ==
  ASSUME StableIds, OriginalsInv, IInv', NEW p \in Requests, SyncFetched(p)
  PROVE  OriginalsInv'
<1>1. WorldType
  BY DEF OriginalsInv, IInv
<1>2. /\ RowsBacked' /\ DuplicateHasOriginal'
      /\ \A story : \A t \in Int : Original(story, t) => Original(story, t)'
  BY StoriesKept DEF SyncFetched
<1>3. PICK limit \in Limits :
        \E results \in [1 .. Cardinality(enabled) ->
                          UNION {FetchLatest(s, limit) : s \in enabled}] :
          /\ \A i, j \in DOMAIN results : i < j => results[i].source < results[j].source
          /\ sync' = [sync EXCEPT ![p] =
               IF \E i \in DOMAIN results : results[i].kind = "raised" THEN Idle
               ELSE Loop([pc |-> "loop", at |-> sync[p].at, results |-> results,
                          seen |-> {}, of |-> enabled])]
  BY DEF SyncFetched
<1>4. PICK results \in [1 .. Cardinality(enabled) ->
                          UNION {FetchLatest(s, limit) : s \in enabled}] :
        /\ \A i, j \in DOMAIN results : i < j => results[i].source < results[j].source
        /\ sync' = [sync EXCEPT ![p] =
             IF \E i \in DOMAIN results : results[i].kind = "raised" THEN Idle
             ELSE Loop([pc |-> "loop", at |-> sync[p].at, results |-> results,
                        seen |-> {}, of |-> enabled])]
  BY <1>3
<1>5. CASE \E i \in DOMAIN results : results[i].kind = "raised"
  <2>1. PICK v : v = Idle
    OBVIOUS
  <2>2. SeenOK(v)'
    BY <2>1 DEF SeenOK, Idle
  <2>3. sync' = [sync EXCEPT ![p] = v]
    BY <1>4, <1>5, <2>1
  <2>4. QED
    BY <1>2, <2>2, <2>3, OneSeen
<1>6. CASE ~ \E i \in DOMAIN results : results[i].kind = "raised"
  <2>1. PICK r : r = [pc |-> "loop", at |-> sync[p].at, results |-> results,
                      seen |-> {}, of |-> enabled]
    OBVIOUS
  <2>2. PICK v : v = Loop(r)
    OBVIOUS
  <2>3. v.results = results /\ v.seen = {}
    BY <2>1, <2>2 DEF Loop
  <2>4. \A i \in DOMAIN results : ReadFrom(results[i].source, results[i].items)
    <3> SUFFICES ASSUME NEW i \in DOMAIN results
                 PROVE  ReadFrom(results[i].source, results[i].items)
      OBVIOUS
    <3>1. PICK s \in enabled : results[i] \in FetchLatest(s, limit)
      OBVIOUS
    <3>2. s \in Sources /\ results[i].kind # "raised"
      BY <1>1, <1>6 DEF WorldType
    <3>3. QED
      BY <3>1, <3>2, FetchedRead
  <2>5. SeenOK(v)'
    BY <1>4, <2>3, <2>4 DEF SeenOK
  <2>6. sync' = [sync EXCEPT ![p] = v]
    BY <1>4, <1>6, <2>1, <2>2
  <2>7. QED
    BY <1>2, <2>5, <2>6, OneSeen
<1>7. QED
  BY <1>5, <1>6

\* The items of a source are inserted, or the insert fails.
LEMMA UpsertSeen ==
  ASSUME StableIds, OriginalsInv, IInv', NEW p \in Requests, UpsertItems(p)
  PROVE  OriginalsInv'
<1>1. WorldType /\ ItemsOK /\ RowsBacked /\ DuplicateHasOriginal /\ IInv /\ SyncOK
  BY DEF OriginalsInv, IInv
<1>2. PICK r : r = sync[p]
  OBVIOUS
<1>3. PICK result : result = Head(r.results)
  OBVIOUS
<1>4. PICK s : s = result.source
  OBVIOUS
<1>5. PICK list : list = result.items
  OBVIOUS
<1>6. PICK seen : seen = r.seen
  OBVIOUS
<1>7. r.pc = "upsert" /\ SeenOK(r)
  BY <1>2 DEF UpsertItems, OriginalsInv
<1>8. /\ r \in Request({"upsert", "append", "done"}) /\ r.results # <<>> /\ result \in Results
      /\ r.results \in Seq(Results) /\ 1 \in DOMAIN r.results /\ r.results[1] = result
  <2>1. /\ r \in Request({"upsert", "append", "done"}) /\ r.results # <<>> /\ result \in Results
    BY <1>1, <1>2, <1>3, <1>7, HeadOK
  <2>2. r.results \in Seq(Results)
    BY <2>1 DEF Request
  <2>3. Len(r.results) \in Nat \ {0} /\ DOMAIN r.results = 1 .. Len(r.results)
    BY <2>1, <2>2, LenProperties, EmptySeq
  <2>4. QED
    BY <1>3, <2>1, <2>2, <2>3
<1>9. /\ s \in Sources /\ list \in Seq(Item)
      /\ \A i \in DOMAIN list : <<s, list[i].id>> \in Keys
  BY <1>4, <1>5, <1>8 DEF Results
<1>10. ReadFrom(s, list) /\ \A story \in seen : Original(story, s - 1)
  BY <1>3, <1>4, <1>5, <1>6, <1>7, <1>8 DEF SeenOK, Passed
<1>11. s \in Nat
  BY <1>9, Bounds
<1>12. ASSUME items' = Upserted(s, EnrichItems(list, seen))
       PROVE  /\ \A i \in DOMAIN list : Original(Fingerprint(list[i]), s)'
              /\ \A story : \A t \in Int : Original(story, t) => Original(story, t)'
              /\ RowsBacked' /\ DuplicateHasOriginal'
  BY <1>1, <1>9, <1>10, <1>12, StoredStories
<1>13. CASE /\ items' = Upserted(s, EnrichItems(list, seen))
            /\ sync' = [sync EXCEPT ![p].pc = "append",
                                    ![p].seen = @ \cup Fingerprints(list)]
  <2>1. PICK all : all = seen \cup Fingerprints(list)
    OBVIOUS
  <2>2. PICK v : v = [r EXCEPT !.pc = "append", !.seen = all]
    OBVIOUS
  <2>3. sync' = [sync EXCEPT ![p] = v]
    BY <1>1, <1>2, <1>6, <1>8, <1>13, <2>1, <2>2 DEF SyncOK, Request
  <2>4. v.pc = "append" /\ v.seen = all /\ v.results = r.results
    BY <1>8, <2>2 DEF Request
  <2>5. \A story \in all : Original(story, s)'
    <3> SUFFICES ASSUME NEW story \in all PROVE Original(story, s)'
      OBVIOUS
    <3>1. CASE story \in seen
      <4>1. PICK l \in Keys : /\ l[1] <= s - 1 /\ items[l] # None /\ items[l].story = story
                              /\ items[l].reason # "duplicate_content"
        BY <1>10, <3>1 DEF Original
      <4>2. l[1] <= s
        BY <1>11, <4>1, Bounds, KeyShape
      <4>3. Original(story, s)
        BY <4>1, <4>2 DEF Original
      <4>4. QED
        BY <1>11, <1>12, <1>13, <4>3
    <3>2. CASE story \in Fingerprints(list)
      BY <1>12, <1>13, <3>2 DEF Fingerprints
    <3>3. QED
      BY <2>1, <3>1, <3>2
  <2>6. SeenOK(v)'
    <3>1. Passed(v) = s
      BY <1>3, <1>4, <2>4 DEF Passed
    <3>2. /\ \A i \in DOMAIN r.results : ReadFrom(r.results[i].source, r.results[i].items)
          /\ \A i, j \in DOMAIN r.results : i < j => r.results[i].source < r.results[j].source
      BY <1>7 DEF SeenOK
    <3>3. QED
      BY <2>4, <2>5, <3>1, <3>2 DEF SeenOK, Passed
  <2>7. QED
    BY <1>12, <1>13, <2>3, <2>6, OneSeen
<1>14. CASE /\ items' \in {items, Upserted(s, EnrichItems(list, seen))}
            /\ sync' = [sync EXCEPT ![p] = Idle]
  <2>1. PICK v : v = Idle
    OBVIOUS
  <2>2. SeenOK(v)'
    BY <2>1 DEF SeenOK, Idle
  <2>3. sync' = [sync EXCEPT ![p] = v]
    BY <1>14, <2>1
  <2>4. /\ RowsBacked' /\ DuplicateHasOriginal'
        /\ \A story : \A t \in Int : Original(story, t) => Original(story, t)'
    BY <1>12, <1>14, StoriesKept
  <2>5. QED
    BY <2>2, <2>3, <2>4, OneSeen
<1>15. QED
  BY <1>2, <1>3, <1>4, <1>5, <1>6, <1>13, <1>14 DEF UpsertItems

\* The snapshot of a source is appended, or that fails.
LEMMA AppendSeen ==
  ASSUME OriginalsInv, IInv', NEW p \in Requests, AppendSourceHealthSnapshot(p)
  PROVE  OriginalsInv'
<1>1. IInv /\ SyncOK
  BY DEF OriginalsInv, IInv
<1>2. /\ RowsBacked' /\ DuplicateHasOriginal'
      /\ \A story : \A t \in Int : Original(story, t) => Original(story, t)'
  BY StoriesKept DEF AppendSourceHealthSnapshot
<1>3. CASE sync' = [sync EXCEPT ![p] = Idle]
  <2>1. PICK v : v = Idle
    OBVIOUS
  <2>2. SeenOK(v)'
    BY <2>1 DEF SeenOK, Idle
  <2>3. sync' = [sync EXCEPT ![p] = v]
    BY <1>3, <2>1
  <2>4. QED
    BY <1>2, <2>2, <2>3, OneSeen
<1>4. CASE sync' = [sync EXCEPT ![p] =
                      Loop([sync[p] EXCEPT !.results = Tail(sync[p].results)])]
  <2>1. PICK r : r = sync[p]
    OBVIOUS
  <2>2. PICK left : left = [r EXCEPT !.results = Tail(r.results)]
    OBVIOUS
  <2>3. PICK v : v = Loop(left)
    OBVIOUS
  <2>4. sync' = [sync EXCEPT ![p] = v]
    <3>1. Loop([sync[p] EXCEPT !.results = Tail(sync[p].results)]) = v
      BY <2>1, <2>2, <2>3
    <3>2. QED
      BY <1>4, <3>1
  <2>5. r.pc = "append" /\ SeenOK(r)
    BY <2>1 DEF AppendSourceHealthSnapshot, OriginalsInv
  <2>6. /\ r \in Request({"upsert", "append", "done"})
        /\ r.results \in Seq(Results) /\ r.results # <<>>
    BY <1>1, <2>1, <2>5, HeadOK DEF Request
  <2>7. PICK tail : tail = Tail(r.results)
    OBVIOUS
  <2>8. /\ Len(r.results) \in Nat \ {0} /\ DOMAIN r.results = 1 .. Len(r.results)
        /\ tail \in Seq(Results) /\ DOMAIN tail = 1 .. (Len(r.results) - 1)
        /\ \A j \in 1 .. (Len(r.results) - 1) : tail[j] = r.results[j + 1]
    BY <2>6, <2>7, HeadTailProperties, LenProperties, EmptySeq
  <2>9. /\ \A i \in DOMAIN tail : i + 1 \in DOMAIN r.results /\ tail[i] = r.results[i + 1]
    BY <2>8
  <2>10. v.results = tail /\ v.seen = r.seen /\ v.pc \in {"upsert", "append", "done"}
    <3>1. left.results = tail /\ left.seen = r.seen
      BY <2>2, <2>6, <2>7 DEF Request
    <3>2. left \in Request({"append"})
      BY <2>2, <2>5, <2>6, <2>7, <2>8 DEF Request
    <3>3. QED
      BY <2>3, <3>1, <3>2 DEF Loop, Request
  <2>11. \A i \in DOMAIN tail : ReadFrom(tail[i].source, tail[i].items)
    BY <2>5, <2>9 DEF SeenOK
  <2>12. \A i, j \in DOMAIN tail : i < j => tail[i].source < tail[j].source
    <3> SUFFICES ASSUME NEW i \in DOMAIN tail, NEW j \in DOMAIN tail, i < j
                 PROVE  tail[i].source < tail[j].source
      OBVIOUS
    <3>1. i + 1 < j + 1
      BY <2>8
    <3>2. QED
      BY <2>5, <2>9, <3>1 DEF SeenOK
  <2>13. ASSUME v.pc \in {"upsert", "append"}, NEW story \in v.seen
         PROVE  Original(story, Passed(v))
    <3>1. tail # <<>>
      BY <2>2, <2>3, <2>6, <2>7, <2>10, <2>13 DEF Loop, Request
    <3>2. 1 \in DOMAIN tail /\ 2 \in DOMAIN r.results /\ 1 \in DOMAIN r.results
      BY <2>8, <3>1, EmptySeq, LenProperties
    <3>3. /\ Head(v.results) = r.results[2] /\ Head(r.results) = r.results[1]
      BY <2>8, <2>9, <2>10, <3>2
    <3>4. r.results[1].source < r.results[2].source
      BY <2>5, <3>2 DEF SeenOK
    <3>5. r.results[1].source \in Nat /\ r.results[2].source \in Nat
      <4>1. r.results[1] \in Results /\ r.results[2] \in Results
        BY <2>6, <3>2, ElementOfSeq, <2>8
      <4>2. QED
        BY <4>1, Bounds DEF Results
    <3>6. Original(story, r.results[1].source)
      BY <2>5, <2>10, <2>13, <3>3 DEF SeenOK, Passed
    <3>7. PICK l \in Keys : /\ l[1] <= r.results[1].source
                            /\ items[l] # None /\ items[l].story = story
                            /\ items[l].reason # "duplicate_content"
      BY <3>6 DEF Original
    <3>8. l[1] \in Nat
      BY Bounds, KeyShape
    <3>9. l[1] <= Passed(v)
      BY <3>3, <3>4, <3>5, <3>7, <3>8 DEF Passed
    <3>10. QED
      BY <3>7, <3>9 DEF Original
  <2>14. SeenOK(v)
    BY <2>10, <2>11, <2>12, <2>13 DEF SeenOK
  <2>15. SeenOK(v)'
    BY <2>14 DEF SeenOK, Passed, Original, AppendSourceHealthSnapshot
  <2>16. QED
    BY <1>2, <2>4, <2>15, OneSeen
<1>5. QED
  BY <1>3, <1>4 DEF AppendSourceHealthSnapshot

\* The invariant holds in every reachable state.
LEMMA OriginalsAlways ==
  ASSUME StableIds
  PROVE  Spec => []OriginalsInv
<1>1. Init => OriginalsInv
  <2> SUFFICES ASSUME Init PROVE OriginalsInv
    OBVIOUS
  <2>1. IInv
    BY InitInv
  <2>2. /\ \A k \in Keys : items[k] = None
        /\ \A p \in Requests : sync[p] = Idle
    BY DEF Init
  <2>3. \A p \in Requests : \A r : r = sync[p] => SeenOK(r)
    BY <2>2, IdleSeen
  <2>4. QED
    BY <2>1, <2>2, <2>3 DEF OriginalsInv, DuplicateHasOriginal, RowsBacked
<1>2. OriginalsInv /\ [Next]_vars => OriginalsInv'
  <2> SUFFICES ASSUME OriginalsInv, [Next]_vars PROVE OriginalsInv'
    OBVIOUS
  <2>1. IInv'
    BY NextInv DEF OriginalsInv
  <2>2. CASE \/ Tick \/ Restart \/ UNCHANGED vars
             \/ \E p \in Requests : SyncStart(p) \/ SyncResult(p)
    BY <2>1, <2>2, OutsideSeen
  <2>3. CASE \E p \in Requests : SyncFetched(p)
    BY <2>1, <2>3, FetchedSeen
  <2>4. CASE \E p \in Requests : UpsertItems(p)
    BY <2>1, <2>4, UpsertSeen
  <2>5. CASE \E p \in Requests : AppendSourceHealthSnapshot(p)
    BY <2>1, <2>5, AppendSeen
  <2>6. QED
    BY <2>2, <2>3, <2>4, <2>5 DEF Next
<1>3. QED
  BY <1>1, <1>2, PTL DEF Spec

\* A stored item that is hidden as a duplicate has a stored twin that is not, if the
\* feeds keep their ids: whatever feeds show and however syncs overlap, fail or die.
THEOREM DuplicatesHaveOriginals ==
  ASSUME StableIds
  PROVE  Spec => []DuplicateHasOriginal
<1>1. OriginalsInv => DuplicateHasOriginal
  BY DEF OriginalsInv
<1>2. QED
  BY <1>1, OriginalsAlways, PTL
\* A stored story that is fit has a row on the page, the only one with its id.
LEMMA ShownRow ==
  ASSUME OriginalsInv, OwnIds, RoomForAll, NEW page \in ListLatestItems(ListLimit, FALSE),
         NEW k \in Keys, items[k] # None, Servable(items[k].story)
  PROVE  \E i \in DOMAIN page :
           /\ page[i] \in Keys /\ items[page[i]].story = items[k].story
           /\ page[i] \in GetItemBySourceId(page[i][2])
<1> DEFINE rows == {l \in Keys : items[l] # None /\ (FALSE \/ items[l].reason = "none")}
           n == IF Cardinality(rows) < ListLimit THEN Cardinality(rows) ELSE ListLimit
           fit == UNION {{<<s, SourceId(e)>> : e \in {f \in EntriesOf(s) : Fit(f)}} : s \in Sources}
<1>1. /\ \A l \in Keys : items[l] # None => \E e \in EntriesOf(l[1]) : Behind(l, items[l], e)
      /\ DuplicateHasOriginal
  BY DEF OriginalsInv, RowsBacked
<1>2. PICK l \in Keys : /\ items[l] # None /\ items[l].story = items[k].story
                        /\ items[l].reason # "duplicate_content"
  BY <1>1 DEF DuplicateHasOriginal
<1>3. items[l].reason = "none"
  <2>1. PICK e \in EntriesOf(l[1]) : Behind(l, items[l], e)
    BY <1>1, <1>2
  <2>2. e \in Entries
    BY KeyShape DEF Entries
  <2>3. Fit(e)
    BY <1>2, <2>1, <2>2 DEF Servable, Behind
  <2>4. QED
    BY <1>2, <2>1, <2>3 DEF Behind
<1>4. rows \in SUBSET fit
  <2> SUFFICES ASSUME NEW m \in rows PROVE m \in fit
    OBVIOUS
  <2>1. PICK e \in EntriesOf(m[1]) : Behind(m, items[m], e)
    BY <1>1
  <2>2. Fit(e) /\ SourceId(e) = m[2]
    BY <2>1 DEF Behind
  <2>3. m[1] \in Sources /\ m = <<m[1], m[2]>>
    BY KeyShape
  <2>4. m \in {<<m[1], SourceId(f)>> : f \in {f \in EntriesOf(m[1]) : Fit(f)}}
    BY <2>2, <2>3
  <2>5. QED
    BY <2>3, <2>4
<1>5. IsFiniteSet(rows) /\ Cardinality(rows) \in Nat /\ Cardinality(rows) <= ListLimit
  <2>1. IsFiniteSet(fit) /\ Cardinality(fit) <= ListLimit
    BY DEF RoomForAll
  <2>2. ListLimit \in Nat
    BY NewsAssumption
  <2> HIDE DEF rows, fit
  <2>3. IsFiniteSet(rows) /\ Cardinality(rows) <= Cardinality(fit)
    BY <1>4, <2>1, FS_Subset
  <2>4. Cardinality(rows) \in Nat /\ Cardinality(fit) \in Nat
    BY <2>1, <2>3, FS_CardinalityType
  <2>5. QED
    BY <2>1, <2>2, <2>3, <2>4
<1>6. n = Cardinality(rows)
  <2>1. ListLimit \in Nat
    BY NewsAssumption
  <2> HIDE DEF rows
  <2>2. QED
    BY <1>5, <2>1
<1>7. page \in [1 .. n -> rows] /\ IsInjective(page)
  BY DEF ListLatestItems
<1>8. l \in rows
  BY <1>2, <1>3
<1>9. \E i \in DOMAIN page : page[i] = l
  <2> HIDE DEF rows, n
  <2>1. page \in Injection(1 .. n, rows)
    BY <1>7, Fun_IsInj DEF IsInjective
  <2>2. IsFiniteSet(1 .. n) /\ Cardinality(1 .. n) = Cardinality(rows)
    BY <1>5, <1>6, FS_Interval
  <2>3. page \in Surjection(1 .. n, rows)
    BY <1>5, <2>1, <2>2, FS_Injection
  <2>4. QED
    BY <1>7, <1>8, <2>3 DEF Surjection
<1>10. l \in GetItemBySourceId(l[2])
  <2>1. ASSUME NEW m \in Keys, m[2] = l[2], items[m] # None
        PROVE  items[m].published <= items[l].published
    <3>1. PICK e \in EntriesOf(m[1]) : SourceId(e) = m[2]
      BY KeyShape
    <3>2. PICK f \in EntriesOf(l[1]) : SourceId(f) = l[2]
      BY KeyShape
    <3>3. m[1] = l[1]
      BY <2>1, <3>1, <3>2, KeyShape DEF OwnIds
    <3>4. m = l
      BY <2>1, <3>3, KeyShape
    <3>5. items[l].published \in 0 .. MaxTime
      BY <1>2 DEF OriginalsInv, IInv, ItemsOK, RowOK
    <3>6. QED
      BY <3>4, <3>5, Bounds
  <2>2. QED
    BY <1>2, <2>1 DEF GetItemBySourceId, WithId
<1>11. QED
  BY <1>2, <1>9, <1>10

\* A stored story all of whose copies are fit is on the news page and on the impact
\* page, and its id leads to its own details on both, if feeds keep ids of their own and
\* the page has room: no repeated, partial or overlapping sync hides it.
THEOREM StoriesAreServed ==
  ASSUME StableIds, OwnIds, RoomForAll
  PROVE  Spec => []StoriesServed
<1>1. OriginalsInv => StoriesServed
  <2> SUFFICES ASSUME OriginalsInv PROVE StoriesServed
    OBVIOUS
  <2>1. ASSUME NEW page \in LatestItems(ListLimit, FALSE), NEW k \in Keys, items[k] # None,
               Servable(items[k].story)
        PROVE  \E i \in DOMAIN page : /\ page[i].story = items[k].story
                                      /\ page[i] \in PersistedItem(page[i].id)
    <3>1. PICK rows \in ListLatestItems(ListLimit, FALSE) :
            page = [i \in DOMAIN rows |-> ItemDTO(rows[i])]
      BY DEF LatestItems
    <3>2. PICK i \in DOMAIN rows : /\ items[rows[i]].story = items[k].story
                                   /\ rows[i] \in GetItemBySourceId(rows[i][2])
      BY <2>1, ShownRow
    <3>3. i \in DOMAIN page /\ page[i] = ItemDTO(rows[i])
      BY <3>1
    <3>4. page[i].id = rows[i][2] /\ page[i].story = items[rows[i]].story
      BY <3>3 DEF ItemDTO
    <3>5. page[i] \in PersistedItem(page[i].id)
      BY <3>2, <3>3, <3>4 DEF PersistedItem
    <3>6. QED
      BY <3>2, <3>3, <3>4, <3>5
  <2>2. ASSUME NEW page \in ImpactEvents(ListLimit), NEW k \in Keys, items[k] # None,
               Servable(items[k].story)
        PROVE  \E i \in DOMAIN page : /\ page[i].story = items[k].story
                                      /\ page[i] \in ImpactDetail(page[i].id)
    <3>1. PICK rows \in ListLatestItems(ListLimit, FALSE) :
            page = [i \in DOMAIN rows |-> ItemDTO(rows[i])]
      BY DEF ImpactEvents, BuildEvents
    <3>2. PICK i \in DOMAIN rows : /\ items[rows[i]].story = items[k].story
                                   /\ rows[i] \in GetItemBySourceId(rows[i][2])
      BY <2>2, ShownRow
    <3>3. i \in DOMAIN page /\ page[i] = ItemDTO(rows[i])
      BY <3>1
    <3>4. page[i].id = rows[i][2] /\ page[i].story = items[rows[i]].story
      BY <3>3 DEF ItemDTO
    <3>5. BuildEvents(<<rows[i]>>)[1] = ItemDTO(rows[i])
      BY DEF BuildEvents
    <3>6. page[i] \in ImpactDetail(page[i].id)
      BY <3>2, <3>3, <3>4, <3>5 DEF ImpactDetail
    <3>7. QED
      BY <3>2, <3>3, <3>4, <3>6
  <2>3. QED
    BY <2>1, <2>2 DEF StoriesServed, Serves
<1>2. QED
  BY <1>1, OriginalsAlways, PTL
=============================================================================
