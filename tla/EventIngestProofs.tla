--------------------------- MODULE EventIngestProofs ---------------------------
(***************************************************************************)
(* What the poller's loop guarantees for every set of tokens, feed, page   *)
(* size and number of restarts: a page it takes on is accounted for event  *)
(* by event, and the ETags bound how often an event can be published.      *)
(***************************************************************************)
EXTENDS EventIngest, FiniteSetTheorems, SequenceTheorems, TLAPS

\* The page in the loop's hands, from event k on.
Rest(v, k) == SubSeq(Page(v), k, Len(Page(v)))

PagePoller ==
  /\ poller.pc \in {"fetched", "batch"}
  /\ DOMAIN poller = {"pc", "page"}
  /\ \E v \in 0 .. feed, k \in 1 .. PageSize + 1 : poller.page = Rest(v, k)
PollerType == poller \in Pollers \/ PagePoller
ProducerType == (At("polling") \/ At("batch") \/ At("waiting")) => producer

\* The producer is up from its start to its stop.
ProducerUp == poller.pc \notin {"starting", "stopping", "stopped", "dead"} => producer

\* The other variables.
DataType ==
  /\ feed \in 0 .. MaxEvents
  /\ etag \in [Tokens -> 0 .. feed]
  /\ producer \in BOOLEAN
  /\ shutdown \in BOOLEAN
  /\ copies \in [Events -> Nat]
  /\ failed \subseteq Ingestible
  /\ accepted \subseteq Events
  /\ garbled \subseteq 0 .. feed
  /\ restarts \in 0 .. MaxRestarts

\* TypeOK in the parts that change together.
LEMMA TypeParts == TypeOK <=> DataType /\ PollerType /\ ProducerType
BY DEF TypeOK, DataType, PollerType, PagePoller, ProducerType, Rest

-----------------------------------------------------------------------------
(* Pages *)

LEMMA BoundsType ==
  /\ MaxEvents \in Nat /\ PageSize \in Nat \ {0} /\ MaxAttempts \in Nat \ {0}
  /\ MaxRestarts \in Nat
BY IngestAssumption

\* A page has at most PageSize events, no two the same, numbered from the newest
\* down.
LEMMA PageShape ==
  ASSUME NEW v \in Nat
  PROVE  /\ OnPage(v) \subseteq 1 .. v
         /\ Page(v) \in Seq(OnPage(v))
         /\ Len(Page(v)) \in Nat /\ Len(Page(v)) <= PageSize
         /\ \A i, j \in 1 .. Len(Page(v)) : Page(v)[i] = Page(v)[j] => i = j
         /\ v = 0 => Page(v) = <<>>
<1> DEFINE n == IF v < PageSize THEN v ELSE PageSize
<1>1. n \in Nat /\ n <= v /\ n <= PageSize /\ (v = 0 => n = 0)
  BY BoundsType
<1>2. Page(v) = [i \in 1 .. n |-> v - i + 1]
  BY DEF Page
<1> HIDE DEF n
<1>3. \A i \in 1 .. n : v - i + 1 \in 1 .. v
  BY <1>1
<1>4. OnPage(v) = {v - i + 1 : i \in 1 .. n}
  BY <1>2 DEF OnPage
<1>5. Page(v) \in Seq(OnPage(v)) /\ Len(Page(v)) = n
  BY <1>1, <1>2, <1>4, LenProperties, IsASeq
<1>6. \A i, j \in 1 .. n : Page(v)[i] = Page(v)[j] => i = j
  BY <1>1, <1>2
<1>7. v = 0 => Page(v) = <<>>
  BY <1>1, <1>5, EmptySeq
<1> QED
  BY <1>1, <1>3, <1>4, <1>5, <1>6, <1>7

\* The rest of a page is a sequence of its events, no two the same.
LEMMA RestShape ==
  ASSUME NEW v \in Nat, NEW k \in 1 .. PageSize + 1
  PROVE  /\ Rest(v, k) \in Seq(OnPage(v))
         /\ \A i, j \in 1 .. Len(Rest(v, k)) :
              Rest(v, k)[i] = Rest(v, k)[j] => i = j
<1> DEFINE p == Page(v)
           n == Len(p)
<1>1. /\ p \in Seq(OnPage(v)) /\ n \in Nat /\ k \in Nat /\ k > 0
      /\ \A i, j \in 1 .. n : p[i] = p[j] => i = j
  BY PageShape, BoundsType
<1>2. \A i \in k .. n : p[i] \in OnPage(v)
  BY <1>1, ElementOfSeq
<1>3. /\ Rest(v, k) \in Seq(OnPage(v))
      /\ Len(Rest(v, k)) = IF k <= n THEN n - k + 1 ELSE 0
      /\ \A i \in 1 .. n - k + 1 : Rest(v, k)[i] = p[k + i - 1]
  BY <1>1, <1>2, SubSeqProperties DEF Rest
<1> HIDE DEF p, n
<1>4. ASSUME NEW i \in 1 .. Len(Rest(v, k)), NEW j \in 1 .. Len(Rest(v, k)),
             Rest(v, k)[i] = Rest(v, k)[j]
      PROVE  i = j
  <2>1. k <= n /\ i \in 1 .. n - k + 1 /\ j \in 1 .. n - k + 1
    BY <1>1, <1>3
  <2>2. k + i - 1 \in 1 .. n /\ k + j - 1 \in 1 .. n
    BY <1>1, <2>1
  <2>3. p[k + i - 1] = p[k + j - 1]
    BY <1>3, <1>4, <2>1
  <2> QED
    BY <1>1, <2>1, <2>2, <2>3
<1> QED
  BY <1>3, <1>4

\* Taking the first event of a rest leaves the next rest.
LEMMA RestTail ==
  ASSUME NEW v \in Nat, NEW k \in 1 .. PageSize + 1, Rest(v, k) # <<>>
  PROVE  k + 1 \in 1 .. PageSize + 1 /\ Tail(Rest(v, k)) = Rest(v, k + 1)
<1> DEFINE p == Page(v)
           n == Len(p)
<1>1. p \in Seq(OnPage(v)) /\ n \in Nat /\ n <= PageSize /\ k \in Nat /\ k > 0
  BY PageShape, BoundsType
<1> HIDE DEF p
<1>2. k <= n
  <2>1. n < k => SubSeq(p, k, n) = <<>>
    BY <1>1, SubSeqEmpty
  <2> QED
    BY <1>1, <2>1 DEF Rest, p
<1>3. Tail(SubSeq(p, k, n)) = SubSeq(p, k + 1, n)
  BY <1>1, <1>2, HeadTailOfSubSeq
<1> QED
  BY <1>1, <1>2, <1>3, BoundsType DEF Rest, p

\* A page that just arrived, and the empty one of a 304, are such rests.
LEMMA WholePage ==
  ASSUME NEW v \in Nat
  PROVE  Rest(v, 1) = Page(v) /\ Rest(0, 1) = <<>>
<1>1. \A w \in Nat : Rest(w, 1) = Page(w)
  BY PageShape, SubSeqFull DEF Rest
<1> QED
  BY <1>1, PageShape

Elems(s) == {s[i] : i \in DOMAIN s}

\* What Tail leaves of a sequence of different events.
LEMMA Dropped ==
  ASSUME NEW S, NEW s \in Seq(S), s # <<>>,
         \A i, j \in 1 .. Len(s) : s[i] = s[j] => i = j
  PROVE  /\ Head(s) \in S
         /\ Elems(s) = {Head(s)} \cup Elems(Tail(s))
         /\ Head(s) \notin Elems(Tail(s))
<1>1. /\ Len(s) \in Nat /\ Len(s) > 0 /\ DOMAIN s = 1 .. Len(s)
      /\ Head(s) = s[1] /\ Head(s) \in S
      /\ Tail(s) \in Seq(S) /\ Len(Tail(s)) = Len(s) - 1
      /\ DOMAIN Tail(s) = 1 .. Len(Tail(s))
      /\ \A i \in 1 .. Len(Tail(s)) : Tail(s)[i] = s[i + 1]
  BY HeadTailProperties, EmptySeq, LenProperties
<1> DEFINE m == Len(s)
<1>2. \A i \in 1 .. m - 1 : i + 1 \in 1 .. m /\ Tail(s)[i] = s[i + 1] /\ i + 1 # 1
  BY <1>1
<1>3. \A i \in 1 .. m : i = 1 \/ (i - 1 \in 1 .. m - 1 /\ Tail(s)[i - 1] = s[i])
  BY <1>1
<1>4. 1 \in 1 .. m
  BY <1>1
<1>5. Elems(s) = {s[i] : i \in 1 .. m} /\ Elems(Tail(s)) = {Tail(s)[i] : i \in 1 .. m - 1}
  BY <1>1 DEF Elems
<1>6. Head(s) = s[1] /\ Head(s) \in S
  BY <1>1
<1> HIDE DEF m
<1>7. ASSUME NEW e
      PROVE  e \in Elems(s) <=> e = Head(s) \/ e \in Elems(Tail(s))
  <2>1. ASSUME NEW i \in 1 .. m, e = s[i]
        PROVE  e = s[1] \/ e \in Elems(Tail(s))
    BY <1>3, <1>5, <2>1
  <2>2. ASSUME NEW i \in 1 .. m - 1, e = Tail(s)[i]
        PROVE  e \in Elems(s)
    BY <1>2, <1>5, <2>2
  <2>3. s[1] \in Elems(s)
    BY <1>4, <1>5
  <2> QED
    BY <1>5, <1>6, <2>1, <2>2, <2>3
<1>8. Head(s) \notin Elems(Tail(s))
  BY <1>2, <1>4, <1>5, <1>6 DEF m
<1> QED
  BY <1>6, <1>7, <1>8

-----------------------------------------------------------------------------
(* The inductive invariant *)

PageEvents == Elems(poller.page)
InHand(e) == poller.pc \in {"fetched", "batch"} /\ e \in PageEvents

\* The versions of the page up to n that show e, and those of them that each token
\* may have got when it has the ETag `tag`.
Versions(e, n) == {v \in e .. n : e \in OnPage(v)}
SeenBy(e, tag, n) == {use \in Tokens \X Versions(e, n) : use[2] <= tag[use[1]]}
Uses(e, n) == Cardinality(Tokens) * Cardinality(Versions(e, n))

\* Publishing e is paid for by a token's first sight of a version that shows it,
\* in this life of the process or an earlier one.
CopiesInv ==
  \A e \in Events :
    copies[e] + (IF InHand(e) THEN 1 ELSE 0)
      <= Uses(e, feed) * restarts + Cardinality(SeenBy(e, etag, feed))
NoDiscarded == \A e \in Discarded : copies[e] = 0

IInv == DataType /\ PollerType /\ ProducerUp /\ PageAccounted /\ CopiesInv /\ NoDiscarded

\* The page in hand is a sequence of events, no two the same; without its first
\* event it is the rest of the same page.
LEMMA RestEvents ==
  ASSUME DataType, PagePoller
  PROVE  /\ PageEvents \subseteq 1 .. feed
         /\ PageEvents \subseteq Events
         /\ poller.page # <<>> =>
              /\ Head(poller.page) \in PageEvents
              /\ NextInBatch.page = Tail(poller.page)
              /\ NextInBatch.pc = poller.pc
              /\ PageEvents = {Head(poller.page)} \cup Elems(Tail(poller.page))
              /\ Head(poller.page) \notin Elems(Tail(poller.page))
<1>1. PICK v \in 0 .. feed, k \in 1 .. PageSize + 1 : poller.page = Rest(v, k)
  BY DEF PagePoller
<1>2. v \in Nat /\ feed \in Nat /\ v <= feed /\ feed <= MaxEvents
  BY BoundsType DEF DataType
<1>3. /\ poller.page \in Seq(OnPage(v))
      /\ \A i, j \in 1 .. Len(poller.page) : poller.page[i] = poller.page[j] => i = j
  BY <1>1, <1>2, RestShape
<1>4. OnPage(v) \subseteq 1 .. feed /\ 1 .. feed \subseteq Events
  <2>1. OnPage(v) \subseteq 1 .. v
    BY <1>2, PageShape
  <2>2. 1 .. v \subseteq 1 .. feed /\ 1 .. feed \subseteq 1 .. MaxEvents
    BY <1>2, BoundsType
  <2> QED
    BY <2>1, <2>2 DEF Events
<1>5. PageEvents \subseteq OnPage(v)
  BY <1>3, ElementOfSeq, LenProperties DEF PageEvents, Elems
<1>6. NextInBatch.page = Tail(poller.page) /\ NextInBatch.pc = poller.pc
  BY DEF PagePoller, NextInBatch
<1>7. poller.page # <<>> =>
        /\ PageEvents = {Head(poller.page)} \cup Elems(Tail(poller.page))
        /\ Head(poller.page) \notin Elems(Tail(poller.page))
  BY <1>3, Dropped DEF PageEvents
<1> QED
  BY <1>4, <1>5, <1>6, <1>7

-----------------------------------------------------------------------------
(* Types *)

\* Each step keeps the type of the data.
LEMMA DataPreserved ==
  ASSUME DataType, PollerType, Next
  PROVE  DataType'
<1> USE BoundsType DEF DataType, history
<1>1. CASE Start \/ OpenStream \/ Fetch \/ PageFails \/ SkipEvent \/ BatchDone \/ Resume
           \/ Stop \/ Signal \/ Kill
  BY <1>1 DEF Start, OpenStream, Fetch, PageFails, SkipEvent, BatchDone, Resume, Stop, Signal,
              Kill
<1>2. CASE PageArrives
  BY <1>2 DEF PageArrives
<1>3. CASE PageGarbled
  <2>1. feed \in 0 .. feed /\ feed' = feed
    BY <1>3 DEF PageGarbled
  <2>2. garbled' = garbled \cup {feed} /\ etag' = [etag EXCEPT ![poller.token] = feed]
    BY <1>3 DEF PageGarbled
  <2>3. garbled' \subseteq 0 .. feed' /\ etag' \in [Tokens -> 0 .. feed']
    BY <2>1, <2>2
  <2> QED
    BY <1>3, <2>1, <2>3 DEF PageGarbled
<1>4. CASE TakePage
  <2>1. At("fetched") => PageEvents \subseteq Events
    BY RestEvents DEF PollerType, Pollers, At
  <2>2. accepted' \subseteq accepted \cup PageEvents /\ At("fetched")
    BY <1>4 DEF TakePage, PageEvents, Elems
  <2>3. accepted' \subseteq Events
    BY <2>1, <2>2
  <2> QED
    BY <1>4, <2>3 DEF TakePage
<1>5. CASE PublishEvent
  <2>1. Head(poller.page) \in Events
    BY <1>5, RestEvents DEF PublishEvent, PollerType, Pollers, At
  <2> QED
    BY <1>5, <2>1 DEF PublishEvent, Ingestible
<1>6. CASE NewEvent
  BY <1>6 DEF NewEvent, memory
<1>7. CASE Restart
  <2>1. etag' \in [Tokens -> 0 .. feed] /\ restarts' \in 0 .. MaxRestarts
    BY <1>7 DEF Restart
  <2> QED
    BY <1>7, <2>1 DEF Restart
<1> QED
  BY <1>1, <1>2, <1>3, <1>4, <1>5, <1>6, <1>7 DEF Next, Loop

\* Each step leaves the poller with a record of its type.
LEMMA PollerPreserved ==
  ASSUME DataType, PollerType, Next
  PROVE  PollerType'
<1> USE BoundsType DEF DataType, PollerType
<1>1. CASE Start \/ OpenStream \/ BatchDone \/ Resume \/ Stop \/ Kill \/ Restart
  <2>1. \A pc \in {"starting", "outer", "polling", "limited", "stopped", "dead"} :
          [pc |-> pc] \in Pollers
    BY DEF Pollers
  <2>2. [pc |-> "stopping", crash |-> FALSE] \in Pollers
    BY DEF Pollers
  <2> QED
    BY <1>1, <2>1, <2>2 DEF Start, OpenStream, BatchDone, Resume, Stop, Kill, Restart
<1>2. CASE Fetch
  BY <1>2 DEF Fetch, Pollers
<1>3. CASE PageArrives \/ PageFails \/ PageGarbled
  <2>1. At("waiting") => poller \in [pc : {"waiting"}, token : Tokens, attempt : 1 .. MaxAttempts]
    BY DEF At, Pollers, PagePoller
  <2>2. \A page : /\ Fetched(page).pc = "fetched" /\ Fetched(page).page = page
                  /\ DOMAIN Fetched(page) = {"pc", "page"}
    BY DEF Fetched
  <2>3. \A v \in 0 .. feed : poller' = Fetched(Page(v)) /\ feed' = feed => PagePoller'
    BY <2>2, WholePage DEF PagePoller
  <2>4. poller' = Fetched(<<>>) /\ feed' = feed => PagePoller'
    BY <2>2, WholePage DEF PagePoller
  <2>5. \A last : At("waiting") /\ Attempt(last) => poller' \in Pollers \/ poller' = last
    BY <2>1 DEF Attempt, Pollers
  <2>6. CASE PageArrives
    BY <1>3, <2>3, <2>4, <2>6 DEF PageArrives
  <2>7. [pc |-> "limited"] \in Pollers /\ [pc |-> "stopping", crash |-> TRUE] \in Pollers
    BY DEF Pollers
  <2>8. CASE PageFails
    BY <2>4, <2>5, <2>7, <2>8 DEF PageFails
  <2>9. CASE PageGarbled
    BY <2>5, <2>7, <2>9 DEF PageGarbled
  <2> QED
    BY <1>3, <2>6, <2>8, <2>9
<1>4. CASE TakePage
  BY <1>4 DEF TakePage, Pollers, PagePoller, At
<1>5. CASE SkipEvent \/ PublishEvent
  <2>1. PagePoller /\ poller.page # <<>> /\ poller' = NextInBatch /\ feed' = feed
    BY <1>5 DEF SkipEvent, PublishEvent, At, Pollers
  <2>2. PICK v \in 0 .. feed, k \in 1 .. PageSize + 1 : poller.page = Rest(v, k)
    BY <2>1 DEF PagePoller
  <2>3. k + 1 \in 1 .. PageSize + 1 /\ Tail(poller.page) = Rest(v, k + 1)
    BY <2>1, <2>2, RestTail
  <2>4. /\ poller'.page = Tail(poller.page) /\ poller'.pc = poller.pc
        /\ DOMAIN poller' = {"pc", "page"}
    BY <2>1 DEF PagePoller, NextInBatch
  <2> QED
    BY <2>1, <2>3, <2>4 DEF PagePoller
<1>6. CASE Signal
  BY <1>6 DEF Signal, PagePoller
<1>7. CASE NewEvent
  BY <1>7 DEF NewEvent, memory, PagePoller
<1> QED
  BY <1>1, <1>2, <1>3, <1>4, <1>5, <1>6, <1>7 DEF Next, Loop
\* Nothing is processed without a started producer.
LEMMA ProducerPreserved ==
  ASSUME DataType, PollerType, ProducerUp, Next
  PROVE  ProducerUp'
<1> USE DEF ProducerUp, At
<1>1. CASE Start \/ OpenStream \/ TakePage \/ BatchDone \/ Resume \/ Stop \/ Kill
           \/ Restart \/ Signal
  BY <1>1 DEF Start, OpenStream, TakePage, BatchDone, Resume, Stop, Kill, Restart, Signal
<1>2. CASE Fetch \/ PageArrives \/ PageFails \/ PageGarbled
  <2>1. producer' = producer /\ producer
    BY <1>2 DEF Fetch, PageArrives, PageFails, PageGarbled
  <2> QED
    BY <2>1
<1>3. CASE SkipEvent \/ PublishEvent
  <2>1. producer' = producer /\ producer
    BY <1>3 DEF SkipEvent, PublishEvent
  <2> QED
    BY <2>1
<1>4. CASE NewEvent
  BY <1>4 DEF NewEvent, memory
<1> QED
  BY <1>1, <1>2, <1>3, <1>4 DEF Next, Loop

-----------------------------------------------------------------------------
(* Accounting *)

\* Each step keeps PageAccounted.
LEMMA AccountPreserved ==
  ASSUME DataType, PollerType, PageAccounted, Next
  PROVE  PageAccounted'
<1>1. StillInBatch = IF At("batch") THEN PageEvents ELSE {}
  BY DEF StillInBatch, PageEvents, Elems
<1>2. StillInBatch' = IF poller'.pc = "batch" THEN Elems(poller'.page) ELSE {}
  BY DEF StillInBatch, Elems, At
<1> USE DEF PageAccounted
<1>3. CASE Start \/ OpenStream \/ Fetch \/ PageArrives \/ PageFails \/ PageGarbled \/ Resume
  <2>1. /\ accepted' = accepted /\ copies' = copies /\ failed' = failed
        /\ Running /\ ~At("batch")
    BY <1>3 DEF Start, OpenStream, Fetch, PageArrives, PageFails, PageGarbled, Resume, history,
                Running, At
  <2> QED
    BY <1>1, <2>1
<1>4. CASE Stop \/ Kill
  <2>1. ~Running'
    BY <1>4 DEF Stop, Kill, Running
  <2> QED
    BY <2>1
<1>5. CASE Restart
  BY <1>5 DEF Restart
<1>6. CASE TakePage
  <2>1. /\ copies' = copies /\ failed' = failed /\ At("fetched") /\ Running
        /\ \/ accepted' = accepted
           \/ /\ accepted' = accepted \cup PageEvents
              /\ poller'.pc = "batch" /\ poller'.page = poller.page
    BY <1>6 DEF TakePage, history, PageEvents, Elems, At, Running
  <2> QED
    BY <1>1, <1>2, <2>1 DEF PageEvents, At
<1>7. CASE SkipEvent \/ PublishEvent
  <2>1. /\ At("batch") /\ poller.page # <<>> /\ Running
        /\ accepted' = accepted /\ poller' = NextInBatch
    BY <1>7 DEF SkipEvent, PublishEvent, At, Running
  <2>2. PagePoller
    BY <2>1 DEF PollerType, Pollers, At
  <2>3. StillInBatch \subseteq {Head(poller.page)} \cup StillInBatch'
    BY <1>1, <1>2, <2>1, <2>2, RestEvents DEF At
  <2>4. CASE SkipEvent
    <3>1. copies' = copies /\ failed' = failed /\ Head(poller.page) \notin Ingestible
      BY <2>4 DEF SkipEvent, history, Ingestible
    <3> QED
      BY <2>1, <2>3, <3>1
  <2>5. CASE PublishEvent
    <3>1. Head(poller.page) \in Events
      BY <2>1, <2>2, RestEvents
    <3>2. /\ failed \subseteq failed'
          /\ \A e \in Events : copies[e] > 0 => copies'[e] > 0
          /\ copies'[Head(poller.page)] > 0 \/ Head(poller.page) \in failed'
      BY <2>5, <3>1 DEF PublishEvent, DataType
    <3> QED
      BY <2>1, <2>3, <3>2 DEF Ingestible
  <2> QED
    BY <1>7, <2>4, <2>5
<1>8. CASE BatchDone
  <2>1. /\ At("batch") /\ poller.page = <<>> /\ Running
        /\ accepted' = accepted /\ copies' = copies /\ failed' = failed
    BY <1>8 DEF BatchDone, history, At, Running
  <2>2. StillInBatch = {}
    BY <1>1, <2>1 DEF PageEvents, Elems
  <2> QED
    BY <2>1, <2>2
<1>9. CASE Signal \/ NewEvent
  <2>1. /\ poller' = poller /\ accepted' = accepted /\ copies' = copies /\ failed' = failed
    BY <1>9 DEF Signal, NewEvent, memory, history
  <2>2. StillInBatch' = StillInBatch /\ (Running' <=> Running)
    BY <2>1 DEF StillInBatch, At, Running
  <2> QED
    BY <2>1, <2>2
<1> QED
  BY <1>3, <1>4, <1>5, <1>6, <1>7, <1>8, <1>9 DEF Next, Loop
-----------------------------------------------------------------------------
(* Duplication *)

\* The uses of e are finitely many, and grow with the feed and the ETags.
LEMMA UsesBounded ==
  ASSUME NEW e \in Events, NEW n \in Nat, NEW tag
  PROVE  /\ Uses(e, n) \in Nat
         /\ IsFiniteSet(SeenBy(e, tag, n))
         /\ Cardinality(SeenBy(e, tag, n)) \in Nat
         /\ Cardinality(SeenBy(e, tag, n)) <= Uses(e, n)
<1>1. e \in Nat
  BY BoundsType DEF Events
<1>2. IsFiniteSet(e .. n)
  BY <1>1, FS_Interval
<1>3. IsFiniteSet(Versions(e, n)) /\ IsFiniteSet(Tokens)
  BY <1>2, FS_Subset, IngestAssumption DEF Versions
<1>4. /\ IsFiniteSet(Tokens \X Versions(e, n))
      /\ Cardinality(Tokens \X Versions(e, n)) = Uses(e, n)
  BY <1>3, FS_Product DEF Uses
<1>5. SeenBy(e, tag, n) \subseteq Tokens \X Versions(e, n)
  BY DEF SeenBy
<1> QED
  BY <1>4, <1>5, FS_Subset, FS_CardinalityType

LEMMA UsesGrow ==
  ASSUME NEW e \in Events, NEW m \in Nat, NEW n \in Nat, m <= n,
         NEW tag \in [Tokens -> Nat], NEW later \in [Tokens -> Nat],
         \A t \in Tokens : tag[t] <= later[t]
  PROVE  /\ Uses(e, m) <= Uses(e, n)
         /\ Cardinality(SeenBy(e, tag, m)) <= Cardinality(SeenBy(e, later, n))
         /\ \A t \in Tokens :
              (tag[t] < n /\ later[t] = n /\ e \in OnPage(n)) =>
                 Cardinality(SeenBy(e, tag, m)) + 1 <= Cardinality(SeenBy(e, later, n))
<1>1. e \in Nat
  BY BoundsType DEF Events
<1>2. Versions(e, m) \subseteq Versions(e, n) /\ Versions(e, n) \subseteq Nat
  BY <1>1 DEF Versions
<1>3. IsFiniteSet(Versions(e, n)) /\ IsFiniteSet(Tokens)
  <2>1. IsFiniteSet(e .. n)
    BY <1>1, FS_Interval
  <2> QED
    BY <2>1, FS_Subset, IngestAssumption DEF Versions
<1>4. Uses(e, m) <= Uses(e, n)
  <2>1. Cardinality(Versions(e, m)) <= Cardinality(Versions(e, n))
        /\ IsFiniteSet(Versions(e, m))
    BY <1>2, <1>3, FS_Subset
  <2>2. Cardinality(Tokens) \in Nat /\ Cardinality(Versions(e, m)) \in Nat
        /\ Cardinality(Versions(e, n)) \in Nat
    BY <1>3, <2>1, FS_CardinalityType
  <2>3. \A a, b, c \in Nat : a <= b => c * a <= c * b
    OBVIOUS
  <2> QED
    BY <2>1, <2>2, <2>3 DEF Uses
<1>5. SeenBy(e, tag, m) \subseteq SeenBy(e, later, n)
  <2> SUFFICES ASSUME NEW use \in SeenBy(e, tag, m)
               PROVE  use \in SeenBy(e, later, n)
    OBVIOUS
  <2>1. use \in Tokens \X Versions(e, m) /\ use[2] <= tag[use[1]]
    BY DEF SeenBy
  <2>2. use[1] \in Tokens /\ use[2] \in Nat /\ use \in Tokens \X Versions(e, n)
    BY <1>2, <2>1
  <2>3. use[2] <= later[use[1]]
    BY <2>1, <2>2
  <2> QED
    BY <2>2, <2>3 DEF SeenBy
<1>6. IsFiniteSet(SeenBy(e, later, n)) /\ IsFiniteSet(SeenBy(e, tag, m))
  BY UsesBounded
<1>7. Cardinality(SeenBy(e, tag, m)) <= Cardinality(SeenBy(e, later, n))
  BY <1>5, <1>6, FS_Subset
<1>8. ASSUME NEW t \in Tokens, tag[t] < n, later[t] = n, e \in OnPage(n)
      PROVE  Cardinality(SeenBy(e, tag, m)) + 1 <= Cardinality(SeenBy(e, later, n))
  <2>1. <<t, n>> \in SeenBy(e, later, n)
    <3>1. e <= n
      BY <1>8, PageShape, <1>1
    <3> QED
      BY <1>1, <1>8, <3>1 DEF SeenBy, Versions
  <2>2. <<t, n>> \notin SeenBy(e, tag, m)
    BY <1>8 DEF SeenBy
  <2>3. /\ IsFiniteSet(SeenBy(e, tag, m) \cup {<<t, n>>})
        /\ Cardinality(SeenBy(e, tag, m) \cup {<<t, n>>}) = Cardinality(SeenBy(e, tag, m)) + 1
    BY <1>6, <2>2, FS_AddElement
  <2>4. SeenBy(e, tag, m) \cup {<<t, n>>} \subseteq SeenBy(e, later, n)
    BY <1>5, <2>1
  <2>5. Cardinality(SeenBy(e, tag, m) \cup {<<t, n>>}) <= Cardinality(SeenBy(e, later, n))
    BY <1>6, <2>4, FS_Subset
  <2> QED
    BY <2>3, <2>5
<1> QED
  BY <1>4, <1>7, <1>8

\* Each step keeps CopiesInv.
LEMMA CopiesPreserved ==
  ASSUME DataType, DataType', PollerType, CopiesInv, Next
  PROVE  CopiesInv'
<1> SUFFICES ASSUME NEW e \in Events
             PROVE  copies'[e] + (IF InHand(e)' THEN 1 ELSE 0)
                      <= Uses(e, feed') * restarts' + Cardinality(SeenBy(e, etag', feed'))
  BY DEF CopiesInv
<1> DEFINE U == Uses(e, feed)
           V == Cardinality(SeenBy(e, etag, feed))
           W == Cardinality(SeenBy(e, etag', feed'))
<1>1. copies[e] + (IF InHand(e) THEN 1 ELSE 0) <= U * restarts + V
  BY DEF CopiesInv
<1>2. /\ feed \in Nat /\ feed' \in Nat /\ restarts \in Nat /\ restarts' \in Nat
      /\ copies[e] \in Nat /\ copies'[e] \in Nat
      /\ etag \in [Tokens -> Nat] /\ etag' \in [Tokens -> Nat]
      /\ \A t \in Tokens : etag[t] <= feed /\ etag'[t] <= feed'
  BY BoundsType DEF DataType
<1>3. /\ U \in Nat /\ Uses(e, feed') \in Nat /\ V \in Nat /\ W \in Nat /\ V <= U
  BY <1>2, UsesBounded
<1>4. InHand(e)' <=> poller'.pc \in {"fetched", "batch"} /\ e \in Elems(poller'.page)
  BY DEF InHand, PageEvents
<1> HIDE DEF U, V, W
<1>5. ASSUME feed' = feed, etag' = etag, restarts' = restarts,
             copies'[e] + (IF InHand(e)' THEN 1 ELSE 0)
               <= copies[e] + (IF InHand(e) THEN 1 ELSE 0)
      PROVE  copies'[e] + (IF InHand(e)' THEN 1 ELSE 0) <= Uses(e, feed') * restarts' + W
  BY <1>1, <1>2, <1>3, <1>5 DEF U, V, W
<1>6. Elems(<<>>) = {}
  BY DEF Elems
<1>7. CASE Start \/ OpenStream \/ Fetch \/ BatchDone \/ Resume \/ Stop \/ Kill \/ Signal
  <2>1. feed' = feed /\ etag' = etag /\ restarts' = restarts /\ copies' = copies
    BY <1>7 DEF Start, OpenStream, Fetch, BatchDone, Resume, Stop, Kill, Signal, history
  <2>2. poller' = poller \/ poller'.pc \notin {"fetched", "batch"}
    BY <1>7 DEF Start, OpenStream, Fetch, BatchDone, Resume, Stop, Kill, Signal
  <2>3. InHand(e)' => InHand(e)
    BY <1>4, <2>2 DEF InHand, PageEvents
  <2> QED
    BY <1>2, <1>5, <2>1, <2>3 DEF W
<1>8. CASE TakePage
  <2>1. feed' = feed /\ etag' = etag /\ restarts' = restarts /\ copies' = copies
    BY <1>8 DEF TakePage, history
  <2>2. InHand(e)' => InHand(e)
    BY <1>4, <1>8 DEF TakePage, InHand, PageEvents, At
  <2> QED
    BY <1>2, <1>5, <2>1, <2>2 DEF W
<1>9. CASE SkipEvent \/ PublishEvent
  <2>1. /\ PagePoller /\ poller.page # <<>> /\ poller' = NextInBatch /\ poller.pc = "batch"
        /\ feed' = feed /\ etag' = etag /\ restarts' = restarts
    BY <1>9 DEF SkipEvent, PublishEvent, At, Pollers, PollerType, history
  <2>2. /\ PageEvents = {Head(poller.page)} \cup Elems(Tail(poller.page))
        /\ Head(poller.page) \notin Elems(Tail(poller.page))
        /\ poller'.page = Tail(poller.page) /\ poller'.pc = "batch"
    BY <2>1, RestEvents
  <2>3. /\ InHand(e) <=> e = Head(poller.page) \/ e \in Elems(Tail(poller.page))
        /\ InHand(e)' <=> e \in Elems(Tail(poller.page))
    BY <1>4, <2>1, <2>2 DEF InHand
  <2>4. copies'[e] = copies[e] \/ (e = Head(poller.page) /\ copies'[e] = copies[e] + 1)
    BY <1>9 DEF SkipEvent, PublishEvent, DataType
  <2> QED
    BY <1>2, <1>5, <2>1, <2>2, <2>3, <2>4 DEF W
<1>10. CASE PageArrives
  <2>1. /\ poller.pc = "waiting" /\ feed' = feed /\ restarts' = restarts /\ copies' = copies
        /\ ~InHand(e)
    BY <1>10 DEF PageArrives, At, history, InHand
  <2>2. CASE etag[poller.token] = feed /\ feed # 0
    <3>1. poller' = Fetched(<<>>) /\ etag' = etag
      BY <1>10, <2>2 DEF PageArrives
    <3>2. ~InHand(e)'
      BY <1>4, <1>6, <3>1 DEF Fetched
    <3> QED
      BY <1>2, <1>5, <2>1, <3>1, <3>2 DEF W
  <2>3. CASE ~(etag[poller.token] = feed /\ feed # 0)
    <3>1. /\ poller' = Fetched(Page(feed))
          /\ etag' = [etag EXCEPT ![poller.token] = feed]
      BY <1>10, <2>3 DEF PageArrives
    <3>2. InHand(e)' => e \in OnPage(feed)
      BY <1>4, <3>1 DEF Fetched, Elems, OnPage
    <3>3. poller.token \in Tokens
      BY <2>1 DEF PollerType, PagePoller, Pollers
    <3>4. \A t \in Tokens : etag[t] <= etag'[t]
      BY <1>2, <3>1, <3>3
    <3>5. V <= W
      BY <1>2, <2>1, <3>4, UsesGrow DEF V, W
    <3>6. ASSUME e \in OnPage(feed)
          PROVE  V + 1 <= W
      <4>1. OnPage(feed) \subseteq 1 .. feed
        BY <1>2, PageShape
      <4>2. feed # 0
        BY <1>2, <3>6, <4>1
      <4>3. etag[poller.token] < feed /\ etag'[poller.token] = feed
        BY <1>2, <2>3, <3>1, <3>3, <4>2
      <4> QED
        BY <1>2, <2>1, <3>3, <3>4, <3>6, <4>3, UsesGrow DEF V, W
    <3> QED
      BY <1>1, <1>2, <1>3, <2>1, <3>2, <3>5, <3>6 DEF U, W
  <2> QED
    BY <2>2, <2>3
<1>11. CASE PageFails \/ PageGarbled
  <2>1. /\ poller.pc = "waiting" /\ feed' = feed /\ restarts' = restarts /\ copies' = copies
        /\ ~InHand(e)
    BY <1>11 DEF PageFails, PageGarbled, At, history, InHand
  <2>2. poller \in [pc : {"waiting"}, token : Tokens, attempt : 1 .. MaxAttempts]
    BY <2>1 DEF PollerType, PagePoller, Pollers
  <2>3. ~InHand(e)'
    <3>1. poller' = Fetched(<<>>) \/ poller'.pc \notin {"fetched", "batch"}
      BY <1>11, <2>2 DEF PageFails, PageGarbled, Attempt
    <3> QED
      BY <1>4, <1>6, <3>1 DEF Fetched
  <2>4. \A t \in Tokens : etag[t] <= etag'[t]
    BY <1>2, <1>11, <2>2 DEF PageFails, PageGarbled
  <2>5. V <= W
    BY <1>2, <2>1, <2>4, UsesGrow DEF V, W
  <2> QED
    BY <1>1, <1>2, <1>3, <2>1, <2>3, <2>5 DEF U, W
<1>12. CASE NewEvent
  <2>1. /\ feed' = feed + 1 /\ etag' = etag /\ restarts' = restarts /\ copies' = copies
        /\ poller' = poller
    BY <1>12 DEF NewEvent, memory, history
  <2>2. V <= W /\ U <= Uses(e, feed')
    BY <1>2, <2>1, UsesGrow DEF U, V, W
  <2>3. U * restarts <= Uses(e, feed') * restarts'
    <3>1. \A a, b, c \in Nat : a <= b => a * c <= b * c
      OBVIOUS
    <3> QED
      BY <1>2, <1>3, <2>1, <2>2, <3>1
  <2>4. InHand(e)' = InHand(e)
    BY <2>1 DEF InHand, PageEvents
  <2>5. U * restarts \in Nat /\ Uses(e, feed') * restarts' \in Nat
    BY <1>2, <1>3
  <2> QED
    BY <1>1, <1>2, <1>3, <2>1, <2>2, <2>3, <2>4, <2>5 DEF W
<1>13. CASE Restart
  <2>1. /\ feed' = feed /\ restarts' = restarts + 1 /\ copies' = copies
        /\ poller'.pc = "starting"
    BY <1>13 DEF Restart
  <2>2. U * (restarts + 1) = U * restarts + U /\ U * restarts \in Nat
    BY <1>2, <1>3
  <2>3. ~InHand(e)'
    BY <1>4, <2>1
  <2> QED
    BY <1>1, <1>2, <1>3, <2>1, <2>2, <2>3 DEF U, W
<1> QED
  BY <1>7, <1>8, <1>9, <1>10, <1>11, <1>12, <1>13 DEF Next, Loop, W

\* Nothing unfit is published.
LEMMA DiscardedPreserved ==
  ASSUME DataType, NoDiscarded, Next
  PROVE  NoDiscarded'
<1>1. CASE PublishEvent
  BY <1>1, IngestAssumption DEF PublishEvent, NoDiscarded, DataType, Events
<1>2. CASE ~PublishEvent
  <2>1. copies' = copies
    BY <1>2 DEF Next, Loop, Start, OpenStream, Fetch, PageArrives, PageFails, PageGarbled,
                TakePage, SkipEvent, BatchDone, Resume, Stop, Signal, NewEvent, Kill, Restart
  <2> QED
    BY <2>1 DEF NoDiscarded
<1> QED
  BY <1>1, <1>2

-----------------------------------------------------------------------------
(* The theorems *)

LEMMA InitInv == Init => IInv
<1> SUFFICES ASSUME Init
             PROVE  IInv
  OBVIOUS
<1> USE BoundsType DEF Init
<1>1. DataType
  <2>1. etag \in [Tokens -> 0 .. feed] /\ copies \in [Events -> Nat]
    OBVIOUS
  <2>2. feed \in 0 .. MaxEvents /\ restarts \in 0 .. MaxRestarts
    OBVIOUS
  <2>3. producer \in BOOLEAN /\ shutdown \in BOOLEAN
    OBVIOUS
  <2>4. failed = {} /\ accepted = {} /\ garbled = {}
    OBVIOUS
  <2> HIDE DEF Init
  <2> QED
    BY <2>1, <2>2, <2>3, <2>4 DEF DataType
<1>2. PollerType /\ ProducerUp
  BY DEF PollerType, Pollers, ProducerUp
<1>3. PageAccounted /\ NoDiscarded
  BY IngestAssumption DEF PageAccounted, NoDiscarded, Events
<1>4. CopiesInv
  <2> SUFFICES ASSUME NEW e \in Events
               PROVE  copies[e] + (IF InHand(e) THEN 1 ELSE 0)
                        <= Uses(e, feed) * restarts + Cardinality(SeenBy(e, etag, feed))
    BY DEF CopiesInv
  <2>1. Uses(e, feed) \in Nat /\ Cardinality(SeenBy(e, etag, feed)) \in Nat
    BY UsesBounded
  <2>2. ~InHand(e) /\ copies[e] = 0
    BY DEF InHand
  <2> QED
    BY <2>1, <2>2
<1> QED
  BY <1>1, <1>2, <1>3, <1>4 DEF IInv

LEMMA StepInv == IInv /\ [Next]_vars => IInv'
<1> SUFFICES ASSUME IInv, [Next]_vars
             PROVE  IInv'
  OBVIOUS
<1>1. CASE Next
  BY <1>1, DataPreserved, PollerPreserved, ProducerPreserved, AccountPreserved, CopiesPreserved,
     DiscardedPreserved DEF IInv
<1>2. CASE UNCHANGED vars
  BY <1>2 DEF vars, memory, history, IInv, DataType, PollerType, PagePoller, ProducerUp,
              PageAccounted, StillInBatch, Running, At, CopiesInv, InHand, PageEvents, NoDiscarded
<1> QED
  BY <1>1, <1>2

LEMMA Invariant == Spec => []IInv
BY InitInv, StepInv, PTL DEF Spec

\* Every variable has its type, and the loop processes nothing without a
\* started producer.
THEOREM TypeCorrect == Spec => []TypeOK
<1>1. IInv => TypeOK
  BY TypeParts DEF IInv, ProducerUp, ProducerType, At
<1> QED
  BY <1>1, Invariant, PTL

\* One bad event never costs another event of its page, whatever fails.
THEOREM PagesAccounted == Spec => []PageAccounted
<1>1. IInv => PageAccounted
  BY DEF IInv
<1> QED
  BY <1>1, Invariant, PTL

\* The ETags bound how often an event is published, through any failures and
\* restarts; nothing unfit for ingestion is.
THEOREM DuplicatesBounded == Spec => []DuplicationBounded
<1>1. IInv => DuplicationBounded
  <2> SUFFICES ASSUME IInv, NEW e \in Events
               PROVE  /\ copies[e] <= Cardinality(Tokens) * Showing(e) * (restarts + 1)
                      /\ e \in Discarded => copies[e] = 0
    BY DEF DuplicationBounded
  <2>1. feed \in Nat /\ restarts \in Nat /\ copies[e] \in Nat
    BY BoundsType DEF IInv, DataType
  <2>2. Uses(e, feed) = Cardinality(Tokens) * Showing(e)
    BY DEF Uses, Versions, Showing
  <2> DEFINE U == Uses(e, feed)
             V == Cardinality(SeenBy(e, etag, feed))
  <2>3. U \in Nat /\ V \in Nat /\ V <= U
    BY <2>1, UsesBounded
  <2>4. copies[e] <= U * restarts + V
    BY <2>1, <2>3 DEF IInv, CopiesInv
  <2> HIDE DEF U, V
  <2>5. U * (restarts + 1) = U * restarts + U /\ U * restarts \in Nat
    BY <2>1, <2>3
  <2>6. copies[e] <= U * (restarts + 1)
    BY <2>1, <2>3, <2>4, <2>5
  <2> QED
    BY <2>2, <2>6 DEF U, IInv, NoDiscarded
<1> QED
  BY <1>1, Invariant, PTL
=============================================================================
