------------------------------ MODULE TokenPool ------------------------------
(***************************************************************************)
(* GitHubClient (src/infrastructure/github/client.py): a pool of API       *)
(* tokens walked round-robin, one polling coroutine that fetches /events   *)
(* with retries, and the burst of concurrent repository lookups that       *)
(* enriches each page.  GitHub itself is external: it charges a token's    *)
(* quota, refills it when the token's window ends and reports both in the  *)
(* headers of its answers.                                                 *)
(*                                                                         *)
(* Time is relative: every timer is the number of ticks left until it      *)
(* runs out, so the state space is finite although time is not bounded.    *)
(***************************************************************************)
EXTENDS Naturals, FiniteSetsExt

CONSTANTS
  NumTokens,    \* tokens configured in GITHUB_API_TOKENS
  Limit,        \* requests a token may make per window (5000)
  Threshold,    \* _RATE_LIMIT_THRESHOLD (100)
  Window,       \* length of a quota window, in ticks (one hour)
  PageRepos,    \* most repositories one page of events can need looked up
  MaxAttempts,  \* stop_after_attempt(3)
  Revocable     \* the tokens GitHub may revoke

ASSUME PoolAssumption ==
  /\ NumTokens \in Nat \ {0}
  /\ Window \in Nat \ {0}
  /\ PageRepos \in Nat \ {0}
  /\ MaxAttempts \in Nat \ {0}
  /\ Threshold \in Nat
  /\ Limit \in Nat
  /\ Threshold <= Limit
  /\ Revocable \subseteq 0 .. NumTokens - 1

Tokens == 0 .. NumTokens - 1

\* Request slots: 0 is the poller's GET /events, the others are the lookups
\* one asyncio.gather runs at the same time.
Slots == 0 .. PageRepos
LookupSlots == 1 .. PageRepos

Idle == [phase |-> "none"]
NoHeaders == [given |-> FALSE]

VARIABLES
  remaining,  \* _TokenState.remaining, per token
  resetIn,    \* max(0, _TokenState.reset_at - now), per token
  invalid,    \* _TokenState.is_invalid, per token
  cursor,     \* the next token itertools.cycle yields
  poller,     \* the coroutine in fetch_events / stream_events / execute
  sleepIn,    \* what is left of the rate-limit sleep
  request,    \* what is in flight, per slot
  quota,      \* requests GitHub still grants in the window, per token
  windowIn,   \* ticks until GitHub refills the quota (0: no window open)
  revoked,    \* tokens GitHub no longer accepts
  faulty      \* history: an answer was lost after it was charged, or the
              \* process was restarted

clientVars == <<remaining, resetIn, invalid, cursor>>
serverVars == <<quota, windowIn, revoked>>
vars == <<clientVars, poller, sleepIn, request, serverVars, faulty>>

-----------------------------------------------------------------------------
(* The token pool *)

\* Mutant: the reserve below the threshold is used up as well.
IsExhaustedLate(t) == invalid[t] \/ (remaining[t] = 0 /\ resetIn[t] > 0)

\* Mutant: the end of the window is not looked at.
IsExhaustedForever(t) == invalid[t] \/ remaining[t] < Threshold

IsExhausted(t) == invalid[t] \/ (remaining[t] < Threshold /\ resetIn[t] > 0)
Usable == {t \in Tokens : ~IsExhausted(t)}

\* The token _next_token_state returns when the cycle stands at c.
NextTokenState(c) ==
  (c + Min({k \in Tokens : (c + k) % NumTokens \in Usable})) % NumTokens

\* Mutant: the cycle stays at the token it found.
Stay(t) == t

After(t) == (t + 1) % NumTokens

\* Where the cycle stands after n tokens were taken from it.
CursorWalks ==
  {c \in [0 .. PageRepos -> Tokens] :
     /\ c[0] = cursor
     /\ \A n \in 1 .. PageRepos :
          c[n] = IF Usable = {} THEN c[n - 1] ELSE After(NextTokenState(c[n - 1]))}

\* The wait carried by RateLimitExceededError when no token is usable: the
\* minimum runs over every token of the pool, the invalid ones included.
EarliestReset == Min({resetIn[t] : t \in Tokens})

UpdateFromHeaders(t, h) ==
  /\ remaining' = IF h.given THEN [remaining EXCEPT ![t] = h.rem] ELSE remaining
  /\ resetIn' = IF h.given THEN [resetIn EXCEPT ![t] = h.rst] ELSE resetIn

Send(t) == [phase |-> "sent", token |-> t]
Answer(t, s, h) == [phase |-> "answered", token |-> t, status |-> s, headers |-> h]

-----------------------------------------------------------------------------
(* The poller: fetch_events under stream_events under execute *)

\* fetch_events is entered: a token is taken and GET /events is sent with it,
\* or every token is exhausted and execute starts the rate-limit sleep.
FetchEvents ==
  /\ poller.pc = "idle"
  /\ \/ /\ Usable # {}
        /\ LET t == NextTokenState(cursor)
           IN  /\ cursor' = After(t)
               /\ poller' = [pc |-> "fetching", token |-> t, attempt |-> 1]
               /\ request' = [request EXCEPT ![0] = Send(t)]
        /\ UNCHANGED sleepIn
     \/ /\ Usable = {}
        /\ poller' = [pc |-> "limited", cause |-> "pool"]
        /\ sleepIn' = EarliestReset
        /\ UNCHANGED <<cursor, request>>
  /\ UNCHANGED <<remaining, resetIn, invalid, serverVars, faulty>>

\* A page arrived: gather starts one lookup per repository the cache does not
\* hold.  Every lookup takes its token before any of them is answered; when
\* no token is usable the lookups return at once.
Enrich ==
  /\ poller.pc = "fetched"
  /\ \E n \in 0 .. PageRepos, c \in CursorWalks :
       LET k == IF Usable = {} THEN 0 ELSE n
       IN  /\ request' = [s \in Slots |->
                 IF s \in 1 .. k THEN Send(NextTokenState(c[s - 1])) ELSE Idle]
           /\ cursor' = c[k]
  /\ poller' = [pc |-> "enriching"]
  /\ UNCHANGED <<remaining, resetIn, invalid, sleepIn, serverVars, faulty>>

\* Mutant: the page is handed on while lookups are still in flight.
EnrichDoneEarly ==
  /\ poller.pc = "enriching"
  /\ poller' = [pc |-> "idle"]
  /\ UNCHANGED <<clientVars, sleepIn, request, serverVars, faulty>>

\* gather has every result and the page goes to the caller.
EnrichDone ==
  /\ poller.pc = "enriching"
  /\ \A s \in LookupSlots : request[s] = Idle
  /\ poller' = [pc |-> "idle"]
  /\ UNCHANGED <<clientVars, sleepIn, request, serverVars, faulty>>

\* _get_repo_metadata's answer: only the headers touch the pool, whatever the
\* status, and an error is swallowed.
LookupAnswered(s) ==
  /\ request[s].phase = "answered"
  /\ UpdateFromHeaders(request[s].token, request[s].headers)
  /\ request' = [request EXCEPT ![s] = Idle]
  /\ UNCHANGED <<invalid, cursor, poller, sleepIn, serverVars, faulty>>

\* _get's answer for GET /events: 200 goes on to the enrichment, 304 yields an
\* empty page.
PageAnswered ==
  /\ request[0].phase = "answered"
  /\ request[0].status \in {"ok", "same"}
  /\ UpdateFromHeaders(poller.token, request[0].headers)
  /\ poller' = [pc |-> IF request[0].status = "ok" THEN "fetched" ELSE "idle"]
  /\ request' = [request EXCEPT ![0] = Idle]
  /\ UNCHANGED <<invalid, cursor, sleepIn, serverVars, faulty>>

\* Any failure of _get is retried, with the token fetch_events took at first,
\* until MaxAttempts; then execute sleeps on RateLimitExceededError,
\* stream_events swallows another GitHubAPIError, and a transport error, which
\* is neither, ends the process.
PageFailed ==
  /\ request[0].phase = "answered"
  /\ request[0].status \in {"denied", "limited", "error", "lost"}
  /\ LET t == poller.token
         status == request[0].status
     IN  /\ UpdateFromHeaders(t, request[0].headers)
         /\ invalid' = [invalid EXCEPT ![t] = @ \/ status = "denied"]
         /\ \/ /\ poller.attempt < MaxAttempts
               /\ poller' = [poller EXCEPT !.attempt = @ + 1]
               /\ request' = [request EXCEPT ![0] = Send(t)]
               /\ UNCHANGED sleepIn
            \/ /\ poller.attempt = MaxAttempts
               /\ poller' = CASE status = "limited" -> [pc |-> "limited", cause |-> "token"]
                              [] status = "lost"    -> [pc |-> "dead"]
                              [] OTHER              -> [pc |-> "idle"]
               /\ sleepIn' = IF status = "limited" THEN resetIn'[t] ELSE 0
               /\ request' = [request EXCEPT ![0] = Idle]
  /\ UNCHANGED <<cursor, serverVars, faulty>>

\* The rate-limit sleep ends and execute opens a new stream.
Resume ==
  /\ poller.pc = "limited"
  /\ sleepIn = 0
  /\ poller' = [pc |-> "idle"]
  /\ UNCHANGED <<clientVars, sleepIn, request, serverVars, faulty>>

\* docker restarts the poller; the new client knows nothing of the quota its
\* predecessor spent.
Restart ==
  /\ poller.pc = "dead"
  /\ remaining' = [t \in Tokens |-> Limit]
  /\ resetIn' = [t \in Tokens |-> Window]
  /\ invalid' = [t \in Tokens |-> FALSE]
  /\ cursor' = 0
  /\ poller' = [pc |-> "idle"]
  /\ faulty' = TRUE
  /\ UNCHANGED <<sleepIn, request, serverVars>>

-----------------------------------------------------------------------------
(* GitHub and the clock (external) *)

Opened(t) == IF windowIn[t] = 0 THEN Window ELSE windowIn[t]

\* A request is counted against its token, and the answer's headers say so.
ServeCharged(s) ==
  LET t == request[s].token
  IN  /\ request[s].phase = "sent"
      /\ ~revoked[t] /\ quota[t] > 0
      /\ quota' = [quota EXCEPT ![t] = @ - 1]
      /\ windowIn' = [windowIn EXCEPT ![t] = Opened(t)]
      /\ \E status \in {"ok", "error"} :
           request' = [request EXCEPT ![s] = Answer(t, status,
               [given |-> TRUE, rem |-> quota[t] - 1, rst |-> Opened(t)])]
      /\ UNCHANGED <<clientVars, poller, sleepIn, revoked, faulty>>

\* Answers that cost nothing: 304 for an unchanged page, 403/429 for an empty
\* quota or a secondary limit, 401 for a revoked token, 5xx from the edge.
ServeFree(s) ==
  LET t == request[s].token
      told == [given |-> TRUE, rem |-> quota[t], rst |-> Opened(t)]
  IN  /\ request[s].phase = "sent"
      /\ \/ /\ ~revoked[t] /\ s = 0
            /\ request' = [request EXCEPT ![s] = Answer(t, "same", told)]
         \/ /\ ~revoked[t]
            /\ request' = [request EXCEPT ![s] = Answer(t, "limited", told)]
         \/ /\ revoked[t]
            /\ request' = [request EXCEPT ![s] = Answer(t, "denied", NoHeaders)]
         \/ /\ ~revoked[t]
            /\ request' = [request EXCEPT ![s] = Answer(t, "error", NoHeaders)]
      /\ UNCHANGED <<clientVars, poller, sleepIn, serverVars, faulty>>

\* A timeout or a broken connection, before or after GitHub counted the
\* request.
Lose(s) ==
  LET t == request[s].token
  IN  /\ request[s].phase = "sent"
      /\ request' = [request EXCEPT ![s] = Answer(t, "lost", NoHeaders)]
      /\ \/ UNCHANGED <<quota, windowIn, faulty>>
         \/ /\ quota[t] > 0 /\ ~revoked[t]
            /\ quota' = [quota EXCEPT ![t] = @ - 1]
            /\ windowIn' = [windowIn EXCEPT ![t] = Opened(t)]
            /\ faulty' = TRUE
      /\ UNCHANGED <<clientVars, poller, sleepIn, revoked>>

Revoke(t) ==
  /\ t \in Revocable
  /\ ~revoked[t]
  /\ revoked' = [revoked EXCEPT ![t] = TRUE]
  /\ UNCHANGED <<clientVars, poller, sleepIn, request, quota, windowIn, faulty>>

Less(n) == IF n = 0 THEN 0 ELSE n - 1

\* One tick passes everywhere: a window that ends refills its quota.  An
\* answer names an absolute reset time, so it ages while it travels.
Tick ==
  /\ resetIn' = [t \in Tokens |-> Less(resetIn[t])]
  /\ windowIn' = [t \in Tokens |-> Less(windowIn[t])]
  /\ quota' = [t \in Tokens |-> IF windowIn[t] = 1 THEN Limit ELSE quota[t]]
  /\ sleepIn' = Less(sleepIn)
  /\ request' = [s \in Slots |->
       IF request[s].phase = "answered" /\ request[s].headers.given
         THEN [request[s] EXCEPT !.headers.rst = Less(@)]
         ELSE request[s]]
  /\ UNCHANGED <<remaining, invalid, cursor, poller, revoked, faulty>>

-----------------------------------------------------------------------------
Init ==
  /\ remaining = [t \in Tokens |-> Limit]
  /\ resetIn = [t \in Tokens |-> Window]
  /\ invalid = [t \in Tokens |-> FALSE]
  /\ cursor = 0
  /\ poller = [pc |-> "idle"]
  /\ sleepIn = 0
  /\ request = [s \in Slots |-> Idle]
  /\ quota = [t \in Tokens |-> Limit]
  /\ windowIn = [t \in Tokens |-> 0]
  /\ revoked = [t \in Tokens |-> FALSE]
  /\ faulty = FALSE

Poller ==
  \/ FetchEvents \/ PageAnswered \/ PageFailed
  \/ Enrich \/ (\E s \in LookupSlots : LookupAnswered(s)) \/ EnrichDone
  \/ Resume

GitHub == \E s \in Slots : ServeCharged(s) \/ ServeFree(s) \/ Lose(s)

Next == Poller \/ Restart \/ GitHub \/ Tick \/ (\E t \in Tokens : Revoke(t))

\* The event loop keeps running, every request is answered or times out (httpx
\* bounds each phase of it), docker restarts what died, and time passes.
Fairness ==
  /\ WF_vars(Poller)
  /\ WF_vars(Restart)
  /\ \A s \in Slots : WF_vars(ServeCharged(s) \/ ServeFree(s) \/ Lose(s))
  /\ WF_vars(Tick)

Spec == Init /\ [][Next]_vars
FairSpec == Spec /\ Fairness

-----------------------------------------------------------------------------
(* Properties *)

Statuses == {"ok", "same", "denied", "limited", "error", "lost"}
Headers == {NoHeaders}
             \cup [given : {TRUE}, rem : 0 .. Limit, rst : 0 .. Window]
Requests == {Idle} \cup [phase : {"sent"}, token : Tokens]
             \cup [phase : {"answered"}, token : Tokens, status : Statuses, headers : Headers]
Pollers == [pc : {"idle", "fetched", "enriching", "dead"}]
             \cup [pc : {"fetching"}, token : Tokens, attempt : 1 .. MaxAttempts]
             \cup [pc : {"limited"}, cause : {"pool", "token"}]

\* Every variable has its type; the poller has a request in flight exactly
\* while it is fetching, and lookups only while it enriches a page.
TypeOK ==
  /\ remaining \in [Tokens -> 0 .. Limit]
  /\ resetIn \in [Tokens -> 0 .. Window]
  /\ invalid \in [Tokens -> BOOLEAN]
  /\ cursor \in Tokens
  /\ poller \in Pollers
  /\ sleepIn \in 0 .. Window
  /\ request \in [Slots -> Requests]
  /\ (request[0] # Idle) <=> (poller.pc = "fetching")
  /\ (\E s \in LookupSlots : request[s] # Idle) => poller.pc = "enriching"
  /\ quota \in [Tokens -> 0 .. Limit]
  /\ windowIn \in [Tokens -> 0 .. Window]
  /\ revoked \in [Tokens -> BOOLEAN]
  /\ faulty \in BOOLEAN

\* What is sent before the pool looks again: the lookups of a page, or the
\* attempts for the page itself.
Burst == IF MaxAttempts > PageRepos THEN MaxAttempts ELSE PageRepos

\* The reserve of Threshold requests absorbs everything the client can send on
\* knowledge that is out of date: the lookups of one page leave before any is
\* answered, their answers arrive in any order, so `remaining` may go up
\* again, and a page is retried with the token it was first asked for.  As
\* long as no charged answer was lost and the process was not restarted, a
\* token keeps at least Threshold + 1 - PageRepos - Burst requests.
QuotaMargin ==
  ~faulty => \A t \in Tokens : quota[t] + PageRepos + Burst >= Threshold + 1

\* While no token has been found invalid, the rate-limit sleep of execute is
\* long enough: when it is over, some token can be used again.
SleepIsLongEnough ==
  (poller.pc = "limited" /\ sleepIn = 0 /\ \A t \in Tokens : ~invalid[t])
    => Usable # {}

\* A poller that hit the rate limit polls GitHub again, unless every token of
\* the pool has been found invalid.
PollingResumes ==
  (poller.pc = "limited" /\ \E t \in Tokens : ~invalid[t])
    ~> (poller.pc = "fetching")

\* Round-robin starves nobody, although the page fetches and the lookups share
\* one cursor: in a process that stays up, a token that stays usable from some
\* point on is used again and again.
EveryTokenServes ==
  \A t \in Tokens :
    <>[](t \in Usable /\ poller.pc # "dead")
      => []<>(\E s \in Slots : request[s] # Idle /\ request[s].token = t)

\* What RateLimitExceededError says of itself (exceptions.py:49, client.py:484):
\* when it is raised, every token of the pool is exhausted.
LimitMeansAllExhausted ==
  [][ (poller.pc # "limited" /\ poller'.pc = "limited") => Usable' = {} ]_vars
=============================================================================
