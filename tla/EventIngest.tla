----------------------------- MODULE EventIngest -----------------------------
(***************************************************************************)
(* PollGithubEventsUseCase.execute over GitHubClient.stream_events: pages  *)
(* of the public feed are fetched with a per-token ETag, filtered, mapped  *)
(* and published to Kafka one event after the other, until SIGINT or       *)
(* SIGTERM.  Which token serves a fetch and when the pool is exhausted is  *)
(* TokenPool's business; here any token may be taken and the rate limit    *)
(* may strike at any fetch.  The feed, the broker and docker are external. *)
(***************************************************************************)
EXTENDS Naturals, Sequences, FiniteSets

CONSTANTS
  Tokens,       \* the tokens of the pool
  MaxEvents,    \* bound: events the feed ever carries, numbered by age
  PageSize,     \* events on one page of GET /events
  MaxAttempts,  \* stop_after_attempt(3)
  Discarded,    \* events should_ingest rejects or the mapper cannot map
  MaxRestarts   \* bound: times docker restarts the poller

ASSUME IngestAssumption ==
  /\ Tokens # {} /\ IsFiniteSet(Tokens)
  /\ MaxEvents \in Nat /\ PageSize \in Nat \ {0}
  /\ MaxAttempts \in Nat \ {0} /\ MaxRestarts \in Nat
  /\ Discarded \subseteq 1 .. MaxEvents

Events == 1 .. MaxEvents
Ingestible == Events \ Discarded

VARIABLES
  feed,      \* number of events published by GitHub so far: the page's version
  etag,      \* _TokenState.etag["/events"], per token (0: none yet)
  poller,    \* where execute stands
  producer,  \* KafkaEventProducer._producer is started
  shutdown,  \* _shutdown_event
  copies,    \* messages on the topic, per event
  failed,    \* events whose publish raised KafkaError
  accepted,  \* history: events of the pages this process went on to process
  garbled,   \* history: page versions whose body did not parse
  restarts   \* restarts so far

memory == <<etag, poller, producer, shutdown, accepted>>
history == <<failed, garbled, restarts>>
vars == <<feed, memory, copies, history>>

\* GET /events lists the newest event first.
Page(v) == [i \in 1 .. (IF v < PageSize THEN v ELSE PageSize) |-> v - i + 1]
OnPage(v) == {Page(v)[i] : i \in DOMAIN Page(v)}

At(pc) == poller.pc = pc
Fetched(page) == [pc |-> "fetched", page |-> page]

-----------------------------------------------------------------------------
(* The loop of execute *)

\* Mutant: a broker that is down is ignored.
StartAnyway ==
  /\ At("starting")
  /\ poller' = [pc |-> "outer"]
  /\ producer' \in BOOLEAN
  /\ UNCHANGED <<feed, etag, shutdown, accepted, copies, history>>

\* producer.start: a broker that is down ends the process before the loop.
Start ==
  /\ At("starting")
  /\ \/ /\ poller' = [pc |-> "outer"]
        /\ producer' = TRUE
     \/ /\ poller' = [pc |-> "dead"]
        /\ UNCHANGED producer
  /\ UNCHANGED <<feed, etag, shutdown, accepted, copies, history>>

\* Mutant: the loop does not look at the event.
OpenStreamAlways ==
  /\ At("outer")
  /\ poller' = [pc |-> "polling"]
  /\ UNCHANGED <<feed, etag, producer, shutdown, accepted, copies, history>>

\* while not self._shutdown_event.is_set(): a new stream is opened.
OpenStream ==
  /\ At("outer")
  /\ poller' = IF shutdown THEN [pc |-> "stopping", crash |-> FALSE]
                           ELSE [pc |-> "polling"]
  /\ UNCHANGED <<feed, etag, producer, shutdown, accepted, copies, history>>

\* fetch_events takes a token and asks for the page, or the pool is exhausted.
Fetch ==
  /\ At("polling")
  /\ \/ \E t \in Tokens : poller' = [pc |-> "waiting", token |-> t, attempt |-> 1]
     \/ poller' = [pc |-> "limited"]
  /\ UNCHANGED <<feed, etag, producer, shutdown, accepted, copies, history>>

\* Mutant: the ETag of an answer is not stored.
PageArrivesUntagged ==
  /\ At("waiting")
  /\ poller' = Fetched(Page(feed))
  /\ UNCHANGED <<feed, etag, producer, shutdown, accepted, copies, history>>

\* 304 when this token's ETag is that of the current page: an empty page is
\* yielded.  Otherwise 200: the ETag is stored and the page is yielded.
PageArrives ==
  /\ At("waiting")
  /\ IF etag[poller.token] = feed /\ feed # 0
       THEN /\ poller' = Fetched(<<>>)
            /\ UNCHANGED etag
       ELSE /\ poller' = Fetched(Page(feed))
            /\ etag' = [etag EXCEPT ![poller.token] = feed]
  /\ UNCHANGED <<feed, producer, shutdown, accepted, copies, history>>

\* What a failed attempt leads to, `last` when the attempts are used up.
Attempt(last) ==
  poller' = IF poller.attempt < MaxAttempts
              THEN [poller EXCEPT !.attempt = @ + 1]
              ELSE last

\* Mutant: the ETag is stored before the status of the answer is looked at.
PageFailsTagged ==
  /\ At("waiting")
  /\ Attempt(Fetched(<<>>))
  /\ etag' = [etag EXCEPT ![poller.token] = feed]
  /\ UNCHANGED <<feed, producer, shutdown, accepted, copies, history>>

\* 403/429 ends in the rate-limit sleep; any other GitHubAPIError in an empty
\* page after stream_events slept; a transport error is neither and unwinds
\* execute.
PageFails ==
  /\ At("waiting")
  /\ \/ Attempt([pc |-> "limited"])
     \/ Attempt(Fetched(<<>>))
     \/ Attempt([pc |-> "stopping", crash |-> TRUE])
  /\ UNCHANGED <<feed, etag, producer, shutdown, accepted, copies, history>>

\* 200 with a body that is not JSON: the ETag was stored before response.json()
\* raised, and the retry carries it.
PageGarbled ==
  /\ At("waiting")
  /\ etag[poller.token] # feed
  /\ etag' = [etag EXCEPT ![poller.token] = feed]
  /\ garbled' = garbled \cup {feed}
  /\ Attempt([pc |-> "stopping", crash |-> TRUE])
  /\ UNCHANGED <<feed, producer, shutdown, accepted, copies, failed, restarts>>

\* The body of `async for`: a page that arrives after the signal is dropped.
TakePage ==
  /\ At("fetched")
  /\ IF shutdown
       THEN /\ poller' = [pc |-> "outer"]
            /\ UNCHANGED accepted
       ELSE /\ poller' = [pc |-> "batch", page |-> poller.page]
            /\ accepted' = accepted \cup {poller.page[i] : i \in DOMAIN poller.page}
  /\ UNCHANGED <<feed, etag, producer, shutdown, copies, history>>

NextInBatch == [poller EXCEPT !.page = Tail(@)]

\* Mutant: an event that is rejected ends the batch.
SkipBatch ==
  /\ At("batch") /\ poller.page # <<>>
  /\ Head(poller.page) \in Discarded
  /\ poller' = [poller EXCEPT !.page = <<>>]
  /\ UNCHANGED <<feed, etag, producer, shutdown, accepted, copies, history>>

\* _process_batch, an event the filter or the mapper rejects: the next one.
SkipEvent ==
  /\ At("batch") /\ poller.page # <<>>
  /\ Head(poller.page) \in Discarded
  /\ poller' = NextInBatch
  /\ UNCHANGED <<feed, etag, producer, shutdown, accepted, copies, history>>

\* _process_batch, publish: send_and_wait returns, or raises without or with
\* the message on the topic; the error is counted and the next event taken.
PublishEvent ==
  /\ At("batch") /\ poller.page # <<>>
  /\ producer
  /\ LET e == Head(poller.page)
         delivered == [copies EXCEPT ![e] = @ + 1]
     IN  /\ e \notin Discarded
         /\ \/ copies' = delivered /\ UNCHANGED failed
            \/ copies' = delivered /\ failed' = failed \cup {e}
            \/ UNCHANGED copies /\ failed' = failed \cup {e}
  /\ poller' = NextInBatch
  /\ UNCHANGED <<feed, etag, producer, shutdown, accepted, garbled, restarts>>

\* The page is done; after poll_interval the generator fetches again.
BatchDone ==
  /\ At("batch") /\ poller.page = <<>>
  /\ poller' = [pc |-> "polling"]
  /\ UNCHANGED <<feed, etag, producer, shutdown, accepted, copies, history>>

\* The rate-limit sleep is over.
Resume ==
  /\ At("limited")
  /\ poller' = [pc |-> "outer"]
  /\ UNCHANGED <<feed, etag, producer, shutdown, accepted, copies, history>>

\* finally: producer.stop().
Stop ==
  /\ At("stopping")
  /\ producer' = FALSE
  /\ poller' = [pc |-> IF poller.crash THEN "dead" ELSE "stopped"]
  /\ UNCHANGED <<feed, etag, shutdown, accepted, copies, history>>

Running == poller.pc \notin {"stopped", "dead"}

\* SIGINT or SIGTERM.
Signal ==
  /\ Running /\ ~shutdown
  /\ shutdown' = TRUE
  /\ UNCHANGED <<feed, etag, poller, producer, accepted, copies, history>>

-----------------------------------------------------------------------------
(* Outside the process *)

\* The feed moves on; many events may fall between two polls.
NewEvent ==
  /\ feed < MaxEvents
  /\ feed' = feed + 1
  /\ UNCHANGED <<memory, copies, history>>

\* The process is killed: nothing in its memory survives.
Kill ==
  /\ Running /\ restarts < MaxRestarts
  /\ poller' = [pc |-> "dead"]
  /\ UNCHANGED <<feed, etag, producer, shutdown, accepted, copies, history>>

\* docker starts the container again.
Restart ==
  /\ At("dead") /\ restarts < MaxRestarts
  /\ restarts' = restarts + 1
  /\ poller' = [pc |-> "starting"]
  /\ etag' = [t \in Tokens |-> 0]
  /\ producer' = FALSE
  /\ shutdown' = FALSE
  /\ accepted' = {}
  /\ UNCHANGED <<feed, copies, failed, garbled>>

Init ==
  /\ feed = 0
  /\ etag = [t \in Tokens |-> 0]
  /\ poller = [pc |-> "starting"]
  /\ producer = FALSE
  /\ shutdown = FALSE
  /\ copies = [e \in Events |-> 0]
  /\ failed = {}
  /\ accepted = {}
  /\ garbled = {}
  /\ restarts = 0

Loop ==
  \/ Start \/ OpenStream \/ Fetch \/ PageArrives \/ PageFails \/ PageGarbled
  \/ TakePage \/ SkipEvent \/ PublishEvent \/ BatchDone \/ Resume \/ Stop

Next == Loop \/ Signal \/ NewEvent \/ Kill \/ Restart

Spec == Init /\ [][Next]_vars

\* The coroutine is scheduled as long as it can run.  GitHub answers with a
\* page infinitely often if it is asked with the same token infinitely often,
\* and every token is asked infinitely often if fetches are (TokenPool's
\* EveryTokenServes for tokens that stay usable).
AskedWith(t) == At("waiting") /\ poller.token = t /\ PageArrives

Fairness ==
  /\ WF_vars(Loop)
  /\ WF_vars(Restart)
  /\ \A t \in Tokens : SF_vars(AskedWith(t))
  /\ \A t \in Tokens :
       SF_vars(Fetch /\ poller'.pc = "waiting" /\ poller'.token = t)

FairSpec == Spec /\ Fairness

-----------------------------------------------------------------------------
(* Properties *)

Pollers ==
  [pc : {"starting", "outer", "polling", "limited", "stopped", "dead"}]
    \cup [pc : {"waiting"}, token : Tokens, attempt : 1 .. MaxAttempts]
    \cup [pc : {"stopping"}, crash : BOOLEAN]

\* Every variable has its type, and nothing is processed without a producer.
TypeOK ==
  /\ feed \in 0 .. MaxEvents
  /\ etag \in [Tokens -> 0 .. feed]
  /\ \/ poller \in Pollers
     \/ /\ poller.pc \in {"fetched", "batch"}
        /\ DOMAIN poller = {"pc", "page"}
        /\ \E v \in 0 .. feed, k \in 1 .. PageSize + 1 :
             poller.page = SubSeq(Page(v), k, Len(Page(v)))
  /\ (At("polling") \/ At("batch") \/ At("waiting")) => producer
  /\ producer \in BOOLEAN
  /\ shutdown \in BOOLEAN
  /\ copies \in [Events -> Nat]
  /\ failed \subseteq Ingestible
  /\ accepted \subseteq Events
  /\ garbled \subseteq 0 .. feed
  /\ restarts \in 0 .. MaxRestarts

StillInBatch == IF At("batch") THEN {poller.page[i] : i \in DOMAIN poller.page} ELSE {}

\* One bad event never costs another: every ingestible event of a page the
\* loop took on is on the topic, or its own publish failed, or its turn is
\* still to come, as long as the process lives.
PageAccounted ==
  Running =>
    \A e \in (accepted \cap Ingestible) \ StillInBatch :
      copies[e] > 0 \/ e \in failed

\* Only events that exist and are fit for ingestion reach the topic, and the
\* ETags bound how often: once per token and version of the page that shows
\* the event, in each life of the process.
Showing(e) == Cardinality({v \in e .. feed : e \in OnPage(v)})
DuplicationBounded ==
  \A e \in Events :
    /\ copies[e] <= Cardinality(Tokens) * Showing(e) * (restarts + 1)
    /\ e \in Discarded => copies[e] = 0

\* A signal always ends the process, whatever the loop was doing.
ShutdownTerminates == shutdown ~> ~Running

\* The ETags never hide a page from the loop for good: once the feed is quiet,
\* every ingestible event still on the page is published or its publish
\* fails, in a process that is neither told to stop nor dead for good, unless
\* the body of that very page was unreadable.
LastPageIngested ==
  \A e \in OnPage(MaxEvents) \cap Ingestible :
    (/\ <>(feed = MaxEvents)
     /\ <>[](Running /\ ~shutdown)
     /\ [](MaxEvents \notin garbled))
      => <>(copies[e] > 0 \/ e \in failed)
=============================================================================
