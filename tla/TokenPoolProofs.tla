---------------------------- MODULE TokenPoolProofs ----------------------------
(***************************************************************************)
(* What the token pool guarantees for every number of tokens, lookups and  *)
(* attempts, every quota, window and threshold: a token is never used far  *)
(* below the threshold, and the rate-limit sleep is long enough.           *)
(***************************************************************************)
EXTENDS TokenPool, FiniteSetTheorems, WellFoundedInduction, TLAPS

\* TypeOK in the parts that change together.
ClientType ==
  /\ remaining \in [Tokens -> 0 .. Limit]
  /\ resetIn \in [Tokens -> 0 .. Window]
  /\ invalid \in [Tokens -> BOOLEAN]
  /\ cursor \in Tokens
  /\ sleepIn \in 0 .. Window
FlightType ==
  /\ poller \in Pollers
  /\ request \in [Slots -> Requests]
  /\ (request[0] # Idle) <=> (poller.pc = "fetching")
  /\ (\E s \in LookupSlots : request[s] # Idle) => poller.pc = "enriching"
ServerType ==
  /\ quota \in [Tokens -> 0 .. Limit]
  /\ windowIn \in [Tokens -> 0 .. Window]
  /\ revoked \in [Tokens -> BOOLEAN]
  /\ faulty \in BOOLEAN

LEMMA TypeParts == TypeOK <=> ClientType /\ FlightType /\ ServerType
BY DEF TypeOK, ClientType, FlightType, ServerType

LEMMA BoundsType ==
  /\ NumTokens \in Nat \ {0} /\ Window \in Nat \ {0} /\ PageRepos \in Nat \ {0}
  /\ MaxAttempts \in Nat \ {0} /\ Threshold \in Nat /\ Limit \in Nat /\ Threshold <= Limit
BY PoolAssumption

-----------------------------------------------------------------------------
(* Walking the pool *)

Below == {pair \in Nat \X Nat : pair[1] < pair[2]}

\* A set of numbers has a least one.
LEMMA Smallest ==
  ASSUME NEW S \in SUBSET Nat, S # {}
  PROVE  Min(S) \in S
<1>1. IsWellFoundedOn(Below, Nat)
  BY NatLessThanWellFounded, Zenon DEF OpToRel, Below
<1>2. PICK x \in S : \A y \in S : <<y, x>> \notin Below
  BY <1>1, WFMin
<1>3. ASSUME NEW y \in S, y < x
      PROVE  <<y, x>> \in Below
  <2>1. <<y, x>> \in Nat \X Nat /\ <<y, x>>[1] = y /\ <<y, x>>[2] = x
    OBVIOUS
  <2> QED
    BY <1>3, <2>1 DEF Below
<1>4. \A y \in S : ~(y < x)
  BY <1>2, <1>3
<1>5. \A y \in S : x <= y
  BY <1>4
<1> QED
  BY <1>5 DEF Min

LEMMA Wrap ==
  ASSUME NEW n \in Nat \ {0}, NEW a \in Nat, a < 2 * n
  PROVE  a % n = IF a < n THEN a ELSE a - n
OBVIOUS

\* _next_token_state goes once around the pool: it finds a token that is not
\* exhausted if there is one.
LEMMA NextUsable ==
  ASSUME NEW c \in Tokens, Usable # {}
  PROVE  NextTokenState(c) \in Usable /\ NextTokenState(c) \in Tokens
<1> DEFINE K == {k \in Tokens : (c + k) % NumTokens \in Usable}
<1>1. PICK t \in Tokens : t \in Usable
  BY DEF Usable
<1>2. c \in Nat /\ c < NumTokens /\ t \in Nat /\ t < NumTokens /\ NumTokens \in Nat \ {0}
  BY <1>1, BoundsType DEF Tokens
<1> DEFINE d == IF t >= c THEN t - c ELSE t - c + NumTokens
<1>3. d \in Nat /\ d < NumTokens /\ c + d \in Nat /\ c + d < 2 * NumTokens
      /\ (IF c + d < NumTokens THEN c + d ELSE c + d - NumTokens) = t
  BY <1>2
<1> HIDE DEF d
<1>4. (c + d) % NumTokens = t /\ d \in Tokens
  BY <1>2, <1>3, Wrap DEF Tokens
<1>5. K # {} /\ K \in SUBSET Nat
  BY <1>1, <1>4 DEF Tokens
<1>6. Min(K) \in K
  BY <1>5, Smallest
<1> QED
  BY <1>6 DEF NextTokenState, Usable

LEMMA AfterType == \A t \in Tokens : After(t) \in Tokens
<1> TAKE t \in Tokens
<1> DEFINE n == t + 1
<1>1. n \in Nat /\ n <= NumTokens /\ n < 2 * NumTokens /\ NumTokens \in Nat \ {0}
  BY BoundsType DEF Tokens
<1> HIDE DEF n
<1>2. n % NumTokens = IF n < NumTokens THEN n ELSE n - NumTokens
  BY <1>1, Wrap
<1>3. n % NumTokens \in Tokens
  BY <1>1, <1>2 DEF Tokens
<1> QED
  BY <1>3 DEF After, n

\* The rate-limit sleep is the rest of some token's window.
LEMMA EarliestIsSome ==
  ASSUME ClientType
  PROVE  \E t \in Tokens : EarliestReset = resetIn[t]
<1>1. {resetIn[t] : t \in Tokens} \in SUBSET Nat
  BY BoundsType DEF ClientType
<1>2. 0 \in Tokens
  BY BoundsType DEF Tokens
<1>3. EarliestReset \in {resetIn[t] : t \in Tokens}
  BY <1>1, <1>2, Smallest DEF EarliestReset
<1> QED
  BY <1>3

-----------------------------------------------------------------------------
(* Types *)

\* What can be in a slot.
LEMMA RequestShape ==
  ASSUME NEW r \in Requests
  PROVE  /\ r.phase \in {"none", "sent", "answered"}
         /\ r.phase = "none" <=> r = Idle
         /\ r.phase # "none" => r.token \in Tokens
         /\ r.phase = "answered" =>
              /\ r.status \in Statuses /\ r.headers \in Headers
              /\ r = [phase |-> "answered", token |-> r.token, status |-> r.status,
                      headers |-> r.headers]
BY DEF Requests, Idle

LEMMA SendType == \A t \in Tokens : Send(t) \in Requests /\ Send(t) # Idle
BY DEF Send, Requests, Idle

LEMMA AnswerType ==
  \A t \in Tokens, status \in Statuses, h \in Headers :
    Answer(t, status, h) \in Requests /\ Answer(t, status, h) # Idle
BY DEF Answer, Requests, Idle

LEMMA HeadersShape ==
  ASSUME NEW h \in Headers
  PROVE  /\ h.given \in BOOLEAN
         /\ h.given => h.rem \in 0 .. Limit /\ h.rst \in 0 .. Window
<1>1. CASE h = NoHeaders
  <2>1. h.given = FALSE
    BY <1>1 DEF NoHeaders
  <2> QED
    BY <2>1
<1>2. CASE h \in [given : {TRUE}, rem : 0 .. Limit, rst : 0 .. Window]
  <2>1. h.given = TRUE /\ h.rem \in 0 .. Limit /\ h.rst \in 0 .. Window
    BY <1>2
  <2> QED
    BY <2>1
<1> QED
  BY <1>1, <1>2 DEF Headers

\* Charged and free answers carry the quota and the window GitHub has.
LEMMA ToldType ==
  ASSUME NEW q \in 0 .. Limit, NEW w \in 0 .. Window
  PROVE  [given |-> TRUE, rem |-> q, rst |-> w] \in Headers
BY DEF Headers

\* Where the poller stands decides its other fields.
LEMMA PollerShape ==
  ASSUME poller \in Pollers
  PROVE  /\ poller.pc = "fetching" =>
              /\ poller.token \in Tokens /\ poller.attempt \in 1 .. MaxAttempts
              /\ poller = [pc |-> "fetching", token |-> poller.token, attempt |-> poller.attempt]
         /\ \A pc \in {"idle", "fetched", "enriching", "dead"} : [pc |-> pc] \in Pollers
         /\ \A t \in Tokens, n \in 1 .. MaxAttempts :
              [pc |-> "fetching", token |-> t, attempt |-> n] \in Pollers
         /\ \A cause \in {"pool", "token"} : [pc |-> "limited", cause |-> cause] \in Pollers
BY DEF Pollers
\* What UpdateFromHeaders does to the client.
LEMMA UpdateType ==
  ASSUME ClientType, NEW t \in Tokens, NEW h \in Headers, UpdateFromHeaders(t, h)
  PROVE  /\ remaining' \in [Tokens -> 0 .. Limit] /\ resetIn' \in [Tokens -> 0 .. Window]
         /\ \A u \in Tokens \ {t} : remaining'[u] = remaining[u] /\ resetIn'[u] = resetIn[u]
         /\ h.given => remaining'[t] = h.rem /\ resetIn'[t] = h.rst
         /\ ~h.given => remaining' = remaining /\ resetIn' = resetIn
<1>1. CASE h.given
  BY <1>1, HeadersShape DEF UpdateFromHeaders, ClientType
<1>2. CASE ~h.given
  BY <1>2 DEF UpdateFromHeaders, ClientType
<1> QED
  BY <1>1, <1>2

LEMMA ZeroSlot == 0 \in Slots /\ 0 \notin LookupSlots /\ LookupSlots \subseteq Slots
                  /\ \A s \in Slots : s = 0 \/ s \in LookupSlots
BY BoundsType DEF Slots, LookupSlots

\* An answer to a request in flight, or a new request in place of one: the slots
\* in use stay in use.
LEMMA InFlight ==
  ASSUME FlightType, poller' = poller, NEW s \in Slots, request[s] # Idle,
         NEW r \in Requests, r # Idle, request' = [request EXCEPT ![s] = r]
  PROVE  FlightType'
BY ZeroSlot DEF FlightType

LEMMA ServerSteps ==
  ASSUME TypeOK, NEW s \in Slots, ServeCharged(s) \/ ServeFree(s) \/ Lose(s)
  PROVE  TypeOK'
<1> DEFINE t == request[s].token
<1>1. ClientType /\ FlightType /\ ServerType
  BY TypeParts
<1>2. request[s] \in Requests /\ request[s].phase = "sent"
  BY <1>1 DEF FlightType, ServeCharged, ServeFree, Lose
<1>3. t \in Tokens /\ request[s] # Idle
  BY <1>2, RequestShape DEF Idle
<1>4. /\ quota[t] \in 0 .. Limit /\ Opened(t) \in 0 .. Window /\ windowIn[t] \in 0 .. Window
      /\ (quota[t] > 0 => quota[t] - 1 \in 0 .. Limit)
  BY <1>1, <1>3, BoundsType DEF ServerType, Opened
<1>5. NoHeaders \in Headers /\ {"ok", "same", "limited", "denied", "error", "lost"} \subseteq Statuses
  BY DEF Headers, Statuses
<1> HIDE DEF t
<1>6. poller' = poller /\ ClientType'
  BY <1>1 DEF ServeCharged, ServeFree, Lose, ClientType, clientVars
<1>7. ServerType'
  <2>1. CASE quota' = quota /\ windowIn' = windowIn
    BY <1>1, <2>1 DEF ServerType, ServeCharged, ServeFree, Lose, serverVars
  <2>2. CASE /\ quota' = [quota EXCEPT ![t] = @ - 1] /\ quota[t] > 0
             /\ windowIn' = [windowIn EXCEPT ![t] = Opened(t)]
    <3>1. quota' \in [Tokens -> 0 .. Limit] /\ windowIn' \in [Tokens -> 0 .. Window]
      BY <1>1, <1>3, <1>4, <2>2 DEF ServerType
    <3>2. revoked' = revoked /\ faulty' \in BOOLEAN
      BY <1>1 DEF ServeCharged, ServeFree, Lose, serverVars, ServerType
    <3> QED
      BY <1>1, <3>1, <3>2 DEF ServerType
  <2> QED
    BY <2>1, <2>2 DEF ServeCharged, ServeFree, Lose, serverVars, t
<1>8. \E r \in Requests : r # Idle /\ request' = [request EXCEPT ![s] = r]
  <2>1. \A status \in Statuses :
          /\ Answer(t, status, NoHeaders) \in Requests /\ Answer(t, status, NoHeaders) # Idle
    BY <1>3, <1>5, AnswerType
  <2>2. \A q \in 0 .. Limit, status \in Statuses :
          LET h == [given |-> TRUE, rem |-> q, rst |-> Opened(t)]
          IN  Answer(t, status, h) \in Requests /\ Answer(t, status, h) # Idle
    BY <1>3, <1>4, AnswerType, ToldType
  <2>3. CASE ServeCharged(s)
    BY <1>4, <1>5, <2>2, <2>3 DEF ServeCharged, t
  <2>4. CASE ServeFree(s)
    BY <1>4, <1>5, <2>1, <2>2, <2>4 DEF ServeFree, t
  <2>5. CASE Lose(s)
    BY <1>5, <2>1, <2>5 DEF Lose, t
  <2> QED
    BY <2>3, <2>4, <2>5
<1>9. FlightType'
  BY <1>1, <1>3, <1>6, <1>8, InFlight
<1> QED
  BY <1>6, <1>7, <1>9, TypeParts DEF TypeOK, ClientType, FlightType, ServerType
\* Each step of the client keeps the types.
LEMMA ClientSteps ==
  ASSUME TypeOK, Poller \/ Restart
  PROVE  TypeOK'
<1>1. ClientType /\ FlightType /\ ServerType
  BY TypeParts
<1>2. ServerType'
  BY <1>1 DEF Poller, Restart, FetchEvents, PageAnswered, PageFailed, Enrich, LookupAnswered,
              EnrichDone, Resume, serverVars, ServerType
<1>3. /\ poller.pc = "fetching" =>
           /\ poller.token \in Tokens /\ poller.attempt \in 1 .. MaxAttempts
           /\ request[0] # Idle /\ \A s \in LookupSlots : request[s] = Idle
      /\ poller.pc \notin {"fetching", "enriching"} => request = [s \in Slots |-> Idle]
  BY <1>1, PollerShape, ZeroSlot DEF FlightType
<1>4. \A pc \in {"idle", "fetched", "enriching", "dead"} :
        [pc |-> pc] \in Pollers /\ [pc |-> pc].pc = pc
  BY <1>1, PollerShape DEF FlightType
<1>5. \A cause \in {"pool", "token"} :
        /\ [pc |-> "limited", cause |-> cause] \in Pollers
        /\ [pc |-> "limited", cause |-> cause].pc = "limited"
  BY <1>1, PollerShape DEF FlightType
<1>6. Idle \in Requests
  BY DEF Requests
<1>7. CASE FetchEvents
  <2>1. CASE Usable # {}
    <3> DEFINE t == NextTokenState(cursor)
    <3>1. t \in Tokens /\ After(t) \in Tokens
      BY <1>1, <2>1, NextUsable, AfterType DEF ClientType
    <3> HIDE DEF t
    <3>2. /\ cursor' = After(t) /\ poller' = [pc |-> "fetching", token |-> t, attempt |-> 1]
          /\ request' = [request EXCEPT ![0] = Send(t)]
          /\ sleepIn' = sleepIn /\ remaining' = remaining /\ resetIn' = resetIn
          /\ invalid' = invalid /\ poller.pc = "idle"
      BY <1>7, <2>1 DEF FetchEvents, t
    <3>3. ClientType'
      BY <1>1, <3>1, <3>2 DEF ClientType
    <3>4. poller' \in Pollers /\ poller'.pc = "fetching"
      BY <3>1, <3>2, BoundsType DEF Pollers
    <3>5. FlightType'
      BY <1>1, <1>3, <3>1, <3>2, <3>4, SendType, ZeroSlot DEF FlightType
    <3> QED
      BY <1>2, <3>3, <3>5 DEF TypeOK, ClientType, FlightType, ServerType
  <2>2. CASE Usable = {}
    <3>1. EarliestReset \in 0 .. Window
      BY <1>1, EarliestIsSome DEF ClientType
    <3>2. ClientType'
      BY <1>1, <1>7, <2>2, <3>1 DEF FetchEvents, ClientType
    <3>3. poller' = [pc |-> "limited", cause |-> "pool"] /\ request' = request /\ poller.pc = "idle"
      BY <1>7, <2>2 DEF FetchEvents
    <3>4. FlightType'
      BY <1>1, <1>3, <1>5, <3>3, ZeroSlot DEF FlightType
    <3> QED
      BY <1>2, <3>2, <3>4 DEF TypeOK, ClientType, FlightType, ServerType
  <2> QED
    BY <2>1, <2>2
<1>8. CASE Enrich
  <2>1. PICK n \in 0 .. PageRepos, c \in CursorWalks :
          LET k == IF Usable = {} THEN 0 ELSE n
          IN  /\ request' = [s \in Slots |->
                    IF s \in 1 .. k THEN Send(NextTokenState(c[s - 1])) ELSE Idle]
              /\ cursor' = c[k]
    BY <1>8 DEF Enrich
  <2> DEFINE k == IF Usable = {} THEN 0 ELSE n
  <2>2. k \in 0 .. PageRepos /\ (Usable = {} => 1 .. k = {})
    BY <2>1, BoundsType
  <2>3. c \in [0 .. PageRepos -> Tokens]
    BY DEF CursorWalks
  <2>4. \A s \in 1 .. k : s \in LookupSlots /\ c[s - 1] \in Tokens
    BY <2>2, <2>3, BoundsType DEF LookupSlots
  <2>5. \A s \in 1 .. k : NextTokenState(c[s - 1]) \in Tokens
    BY <2>2, <2>4, NextUsable
  <2>6. request' = [s \in Slots |->
                    IF s \in 1 .. k THEN Send(NextTokenState(c[s - 1])) ELSE Idle]
        /\ cursor' = c[k] /\ poller' = [pc |-> "enriching"]
    BY <1>8, <2>1 DEF Enrich
  <2>7. cursor' \in Tokens
    BY <2>2, <2>3, <2>6
  <2> HIDE DEF k
  <2>8. ClientType'
    BY <1>1, <1>8, <2>7 DEF Enrich, ClientType
  <2>9. request' \in [Slots -> Requests]
    BY <1>6, <2>5, <2>6, SendType
  <2>10. request'[0] = Idle
    BY <2>4, <2>6, ZeroSlot
  <2>11. FlightType'
    BY <1>4, <2>6, <2>9, <2>10 DEF FlightType
  <2> QED
    BY <1>2, <2>8, <2>11 DEF TypeOK, ClientType, FlightType, ServerType
<1>9. ASSUME NEW s \in LookupSlots, LookupAnswered(s)
      PROVE  TypeOK'
  <2>1. request[s].phase = "answered" /\ request[s] \in Requests /\ s \in Slots /\ s # 0
    BY <1>1, <1>9, ZeroSlot DEF LookupAnswered, FlightType
  <2>2. request[s].token \in Tokens /\ request[s].headers \in Headers /\ request[s] # Idle
    BY <2>1, RequestShape DEF Idle
  <2>3. UpdateFromHeaders(request[s].token, request[s].headers)
    BY <1>9 DEF LookupAnswered
  <2>4. ClientType'
    BY <1>1, <1>9, <2>2, <2>3, UpdateType DEF LookupAnswered, ClientType
  <2>5. request' = [request EXCEPT ![s] = Idle] /\ poller' = poller
    BY <1>9 DEF LookupAnswered
  <2>6. FlightType'
    BY <1>1, <1>6, <2>1, <2>2, <2>5, ZeroSlot DEF FlightType
  <2> QED
    BY <1>2, <2>4, <2>6 DEF TypeOK, ClientType, FlightType, ServerType
<1>10. CASE EnrichDone \/ Resume
  <2>1. ClientType'
    BY <1>1, <1>10 DEF EnrichDone, Resume, clientVars, ClientType
  <2>2. poller' = [pc |-> "idle"] /\ request' = request /\ request = [s \in Slots |-> Idle]
    BY <1>1, <1>3, <1>10, ZeroSlot DEF EnrichDone, Resume, FlightType
  <2>3. FlightType'
    BY <1>1, <1>4, <2>2, ZeroSlot DEF FlightType
  <2> QED
    BY <1>2, <2>1, <2>3 DEF TypeOK, ClientType, FlightType, ServerType
<1>11. CASE PageAnswered \/ PageFailed
  <2>1. request[0].phase = "answered" /\ request[0] \in Requests /\ 0 \in Slots
    BY <1>1, <1>11, ZeroSlot DEF PageAnswered, PageFailed, FlightType
  <2>2. request[0] # Idle /\ request[0].headers \in Headers
    BY <2>1, RequestShape DEF Idle
  <2>3. /\ poller.pc = "fetching" /\ poller.token \in Tokens
        /\ poller.attempt \in 1 .. MaxAttempts
        /\ \A s \in LookupSlots : request[s] = Idle
        /\ poller = [pc |-> "fetching", token |-> poller.token, attempt |-> poller.attempt]
    BY <1>1, <1>3, <2>2, PollerShape DEF FlightType
  <2>4. UpdateFromHeaders(poller.token, request[0].headers)
    BY <1>11 DEF PageAnswered, PageFailed
  <2>5. remaining' \in [Tokens -> 0 .. Limit] /\ resetIn' \in [Tokens -> 0 .. Window]
    BY <1>1, <2>2, <2>3, <2>4, UpdateType
  <2>6. ASSUME NEW r \in Requests, request' = [request EXCEPT ![0] = r], poller' \in Pollers,
               (r # Idle) <=> (poller'.pc = "fetching")
        PROVE  FlightType'
    BY <1>1, <2>3, <2>6, ZeroSlot DEF FlightType
  <2>7. CASE PageAnswered
    <3>1. ClientType'
      BY <1>1, <2>5, <2>7 DEF PageAnswered, ClientType
    <3>2. request' = [request EXCEPT ![0] = Idle] /\ poller' \in Pollers /\ poller'.pc # "fetching"
      BY <1>4, <2>7 DEF PageAnswered
    <3> QED
      BY <1>2, <1>6, <2>6, <3>1, <3>2 DEF TypeOK, ClientType, FlightType, ServerType
  <2>8. CASE PageFailed
    <3>1. invalid' \in [Tokens -> BOOLEAN] /\ cursor' = cursor
      BY <1>1, <2>8 DEF PageFailed, ClientType
    <3>2. CASE poller.attempt < MaxAttempts
      <4>1. /\ poller' = [poller EXCEPT !.attempt = @ + 1]
            /\ request' = [request EXCEPT ![0] = Send(poller.token)] /\ sleepIn' = sleepIn
        BY <2>3, <2>8, <3>2, BoundsType DEF PageFailed
      <4>2. poller.attempt + 1 \in 1 .. MaxAttempts
        BY <2>3, <3>2, BoundsType
      <4>3. poller' = [pc |-> "fetching", token |-> poller.token, attempt |-> poller.attempt + 1]
        BY <2>3, <4>1
      <4>4. poller' \in Pollers /\ poller'.pc = "fetching"
        BY <2>3, <4>2, <4>3 DEF Pollers
      <4>5. FlightType'
        BY <2>3, <2>6, <4>1, <4>4, SendType
      <4> QED
        BY <1>1, <1>2, <2>5, <3>1, <4>1, <4>5 DEF TypeOK, ClientType, FlightType, ServerType
    <3>3. CASE poller.attempt = MaxAttempts
      <4>1. /\ poller' \in {[pc |-> "limited", cause |-> "token"], [pc |-> "dead"], [pc |-> "idle"]}
            /\ request' = [request EXCEPT ![0] = Idle]
            /\ sleepIn' \in {0, resetIn'[poller.token]}
        BY <2>3, <2>8, <3>3, BoundsType DEF PageFailed
      <4>2. poller' \in Pollers /\ poller'.pc # "fetching"
        BY <1>4, <1>5, <4>1
      <4>3. sleepIn' \in 0 .. Window
        BY <2>3, <2>5, <4>1, BoundsType
      <4>4. FlightType'
        BY <1>6, <2>6, <4>1, <4>2
      <4> QED
        BY <1>1, <1>2, <2>5, <3>1, <4>3, <4>4 DEF TypeOK, ClientType, FlightType, ServerType
    <3> QED
      BY <2>3, <2>8, <3>2, <3>3 DEF PageFailed
  <2> QED
    BY <1>11, <2>7, <2>8
<1>12. CASE Restart
  <2>1. ClientType'
    BY <1>1, <1>12, BoundsType DEF Restart, ClientType, Tokens
  <2>2. poller' = [pc |-> "idle"] /\ request' = request /\ request = [s \in Slots |-> Idle]
    BY <1>3, <1>12 DEF Restart
  <2>3. FlightType'
    BY <1>1, <1>4, <2>2, ZeroSlot DEF FlightType
  <2> QED
    BY <1>2, <2>1, <2>3 DEF TypeOK, ClientType, FlightType, ServerType
<1> QED
  BY <1>7, <1>8, <1>9, <1>10, <1>11, <1>12 DEF Poller
LEMMA LessType ==
  ASSUME NEW n \in Nat
  PROVE  Less(n) \in Nat /\ Less(n) <= n /\ (n = 0 => Less(n) = 0) /\ (n # 0 => Less(n) = n - 1)
BY DEF Less

\* An answer that ages keeps its slot, its token and its type.
LEMMA Aged ==
  ASSUME FlightType, Tick, NEW s \in Slots
  PROVE  /\ request'[s] \in Requests
         /\ request'[s].phase = request[s].phase
         /\ request'[s].token = request[s].token
         /\ (request'[s] = Idle) <=> (request[s] = Idle)
         /\ request[s].phase = "answered" /\ request[s].headers.given =>
              /\ request'[s].headers.given
              /\ request'[s].headers.rem = request[s].headers.rem
              /\ request'[s].headers.rst = Less(request[s].headers.rst)
         /\ ~(request[s].phase = "answered" /\ request[s].headers.given) =>
              request'[s] = request[s]
<1>1. request[s] \in Requests
  BY DEF FlightType
<1>2. CASE request[s].phase = "answered" /\ request[s].headers.given
  <2> DEFINE h == request[s].headers
             g == [h EXCEPT !.rst = Less(@)]
  <2>1. /\ request[s].token \in Tokens /\ request[s].status \in Statuses /\ h \in Headers
        /\ request[s] = [phase |-> "answered", token |-> request[s].token,
                         status |-> request[s].status, headers |-> h]
    BY <1>1, <1>2, RequestShape
  <2>2. h \in [given : {TRUE}, rem : 0 .. Limit, rst : 0 .. Window]
    <3>1. NoHeaders.given = FALSE
      BY DEF NoHeaders
    <3>2. h # NoHeaders
      BY <1>2, <3>1
    <3> QED
      BY <2>1, <3>2 DEF Headers
  <2>3. Less(h.rst) \in 0 .. Window
    <3>1. \A n \in 0 .. Window : Less(n) \in 0 .. Window
      BY LessType, BoundsType
    <3>2. h.rst \in 0 .. Window
      BY <2>2
    <3> QED
      BY <3>1, <3>2
  <2>4. g \in [given : {TRUE}, rem : 0 .. Limit, rst : 0 .. Window]
        /\ g.given = TRUE /\ g.rem = h.rem /\ g.rst = Less(h.rst)
    BY <2>2, <2>3
  <2>5. request'[s] = [request[s] EXCEPT !.headers.rst = Less(@)]
    BY <1>2 DEF Tick
  <2> HIDE DEF h
  <2>6. request'[s] = [phase |-> "answered", token |-> request[s].token,
                       status |-> request[s].status, headers |-> g]
    BY <2>1, <2>5 DEF h
  <2> HIDE DEF g
  <2>7. g \in Headers
    BY <2>4 DEF Headers
  <2>8. request'[s] \in Requests /\ request'[s] # Idle
    BY <2>1, <2>6, <2>7 DEF Requests, Idle
  <2>9. request[s] # Idle
    BY <1>2 DEF Idle
  <2> QED
    BY <1>2, <2>4, <2>6, <2>8, <2>9 DEF h
<1>3. CASE ~(request[s].phase = "answered" /\ request[s].headers.given)
  BY <1>1, <1>3 DEF Tick
<1> QED
  BY <1>2, <1>3

LEMMA TickSteps ==
  ASSUME TypeOK, Tick
  PROVE  TypeOK'
<1>1. ClientType /\ FlightType /\ ServerType
  BY TypeParts
<1>2. \A n \in 0 .. Window : Less(n) \in 0 .. Window
  BY LessType, BoundsType
<1>3. ClientType'
  BY <1>1, <1>2 DEF Tick, ClientType
<1>4. ServerType'
  <2>1. quota' \in [Tokens -> 0 .. Limit] /\ windowIn' \in [Tokens -> 0 .. Window]
    BY <1>1, <1>2, BoundsType DEF Tick, ServerType
  <2> QED
    BY <1>1, <2>1 DEF Tick, ServerType
<1>5. FlightType'
  <2>1. request' \in [Slots -> Requests]
    <3>1. \A s \in Slots : request'[s] \in Requests
      BY <1>1, Aged
    <3>2. request' = [s \in Slots |-> request'[s]]
      BY DEF Tick
    <3> QED
      BY <3>1, <3>2
  <2>2. \A s \in Slots : (request'[s] = Idle) <=> (request[s] = Idle)
    BY <1>1, Aged
  <2>3. poller' = poller
    BY DEF Tick
  <2> QED
    BY <1>1, <2>1, <2>2, <2>3, ZeroSlot DEF FlightType
<1> QED
  BY <1>3, <1>4, <1>5 DEF TypeOK, ClientType, FlightType, ServerType

LEMMA TypePreserved == TypeOK /\ [Next]_vars => TypeOK'
<1> SUFFICES ASSUME TypeOK, [Next]_vars
             PROVE  TypeOK'
  OBVIOUS
<1>1. ASSUME NEW t \in Tokens, Revoke(t)
      PROVE  TypeOK'
  BY <1>1 DEF Revoke, TypeOK, clientVars
<1>2. CASE UNCHANGED vars
  BY <1>2 DEF vars, clientVars, serverVars, TypeOK
<1> QED
  BY <1>1, <1>2, ServerSteps, ClientSteps, TickSteps DEF Next, GitHub

LEMMA TypeInit == Init => TypeOK
<1> SUFFICES ASSUME Init
             PROVE  TypeOK
  OBVIOUS
<1>1. [pc |-> "idle"] \in Pollers /\ Idle \in Requests /\ 0 \in Tokens
  BY BoundsType DEF Pollers, Requests, Tokens
<1>2. ClientType
  BY <1>1, BoundsType DEF Init, ClientType
<1>3. ServerType
  <2>1. Limit \in 0 .. Limit /\ 0 \in 0 .. Window
    BY BoundsType
  <2>2. /\ quota = [t \in Tokens |-> Limit] /\ windowIn = [t \in Tokens |-> 0]
        /\ revoked = [t \in Tokens |-> FALSE] /\ faulty = FALSE
    BY DEF Init
  <2>3. quota \in [Tokens -> 0 .. Limit] /\ windowIn \in [Tokens -> 0 .. Window]
    BY <2>1, <2>2
  <2>4. revoked \in [Tokens -> BOOLEAN] /\ faulty \in BOOLEAN
    BY <2>2
  <2> QED
    BY <2>3, <2>4 DEF ServerType
<1>4. FlightType
  BY <1>1, ZeroSlot DEF Init, FlightType
<1> QED
  BY <1>2, <1>3, <1>4, TypeParts

\* Every variable has its type; a request is in flight only where the poller
\* waits for it.
THEOREM TypeCorrect == Spec => []TypeOK
BY TypeInit, TypePreserved, PTL DEF Spec

-----------------------------------------------------------------------------
(* The rate-limit sleep *)

\* While execute sleeps, the window of some token ends no later than the sleep.
SleepInv == poller.pc = "limited" => \E t \in Tokens : resetIn[t] <= sleepIn

LEMMA SleepPreserved == TypeOK /\ SleepInv /\ [Next]_vars => SleepInv'
<1> SUFFICES ASSUME TypeOK, SleepInv, [Next]_vars, poller'.pc = "limited"
             PROVE  \E t \in Tokens : resetIn'[t] <= sleepIn'
  BY DEF SleepInv
<1>1. ClientType /\ FlightType /\ ServerType
  BY TypeParts
<1>2. CASE FetchEvents
  <2>1. sleepIn' = EarliestReset /\ resetIn' = resetIn
    BY <1>2 DEF FetchEvents
  <2>2. PICK t \in Tokens : EarliestReset = resetIn[t]
    BY <1>1, EarliestIsSome
  <2>3. resetIn[t] <= resetIn[t]
    BY <1>1, BoundsType DEF ClientType
  <2> QED
    BY <2>1, <2>2, <2>3
<1>3. CASE PageFailed
  <2>1. request[0] # Idle
    BY <1>3 DEF PageFailed, Idle
  <2>2. /\ poller.token \in Tokens /\ poller.attempt \in 1 .. MaxAttempts
        /\ poller = [pc |-> "fetching", token |-> poller.token, attempt |-> poller.attempt]
    BY <1>1, <2>1, PollerShape DEF FlightType
  <2>3. CASE poller.attempt < MaxAttempts
    <3>1. poller' = [poller EXCEPT !.attempt = @ + 1]
      BY <1>3, <2>2, <2>3, BoundsType DEF PageFailed
    <3>2. poller'.pc = "fetching"
      BY <2>2, <3>1
    <3> QED
      BY <3>2
  <2>4. CASE poller.attempt = MaxAttempts
    <3>1. sleepIn' = IF request[0].status = "limited" THEN resetIn'[poller.token] ELSE 0
      BY <1>3, <2>2, <2>4, BoundsType DEF PageFailed
    <3>2. request[0].status = "limited"
      BY <1>3, <2>2, <2>4, BoundsType DEF PageFailed
    <3>3. resetIn'[poller.token] \in Nat
      BY <2>2, TypePreserved, BoundsType DEF TypeOK
    <3> QED
      BY <2>2, <3>1, <3>2, <3>3
  <2> QED
    BY <1>3, <2>2, <2>3, <2>4 DEF PageFailed
<1>4. CASE Tick
  <2>1. PICK t \in Tokens : resetIn[t] <= sleepIn
    BY <1>4 DEF Tick, SleepInv
  <2>2. resetIn[t] \in Nat /\ sleepIn \in Nat
    BY <1>1, BoundsType DEF ClientType
  <2>3. Less(resetIn[t]) <= Less(sleepIn)
    BY <2>1, <2>2 DEF Less
  <2> QED
    BY <1>4, <2>3 DEF Tick
<1>5. ASSUME NEW s \in LookupSlots, LookupAnswered(s)
      PROVE  FALSE
  <2>1. request[s] # Idle /\ poller' = poller
    BY <1>5 DEF LookupAnswered, Idle
  <2> QED
    BY <1>1, <2>1 DEF FlightType
<1>6. CASE PageAnswered \/ Enrich \/ EnrichDone \/ Resume \/ Restart
  BY <1>6 DEF PageAnswered, Enrich, EnrichDone, Resume, Restart
<1>7. ASSUME poller' = poller, resetIn' = resetIn, sleepIn' = sleepIn
      PROVE  \E t \in Tokens : resetIn'[t] <= sleepIn'
  BY <1>7 DEF SleepInv
<1> QED
  BY <1>2, <1>3, <1>4, <1>5, <1>6, <1>7
  DEF Next, Poller, GitHub, ServeCharged, ServeFree, Lose, Revoke, clientVars, vars

\* When the sleep is over, a token that was not found invalid can be used.
THEOREM SleepsLongEnough == Spec => []SleepIsLongEnough
<1>1. Init => SleepInv
  BY DEF Init, SleepInv
<1>2. TypeOK /\ SleepInv => SleepIsLongEnough
  <2> SUFFICES ASSUME TypeOK, SleepInv, poller.pc = "limited", sleepIn = 0,
                      \A t \in Tokens : ~invalid[t]
               PROVE  Usable # {}
    BY DEF SleepIsLongEnough
  <2>1. PICK t \in Tokens : resetIn[t] <= 0
    BY DEF SleepInv
  <2>2. resetIn[t] = 0
    BY <2>1, BoundsType DEF TypeOK
  <2>3. t \in Usable
    BY <2>2 DEF Usable, IsExhausted
  <2> QED
    BY <2>3
<1> QED
  BY <1>1, <1>2, TypeInit, TypePreserved, SleepPreserved, PTL DEF Spec
-----------------------------------------------------------------------------
(* The reserve *)

SendingIn(req, t) == {s \in LookupSlots : req[s].phase = "sent" /\ req[s].token = t}

\* Lookups GitHub has yet to answer, and attempts the page has left, with t.
Lookups(req, t) == Cardinality(SendingIn(req, t))
Tries(t) ==
  IF poller.pc = "fetching" /\ poller.token = t
    THEN MaxAttempts - poller.attempt + (IF request[0].phase = "sent" THEN 1 ELSE 0)
    ELSE 0

\* A page is retried with the token it was first asked for.
PageToken == poller.pc = "fetching" => request[0].token = poller.token

FullQuota == \A t \in Tokens : windowIn[t] = 0 => quota[t] = Limit

\* What the headers (rem, rst) say of t is off by the lookups of one page at most,
\* n of which are still to be counted; and they name the right window, or it has
\* been refilled.
Accurate(t, rem, rst, n) ==
  /\ quota[t] + PageRepos >= rem + 1 + n
  /\ windowIn[t] = rst \/ quota[t] + PageRepos >= Limit + 1 + n

TellsOf(req, s, t) ==
  req[s].phase = "answered" /\ req[s].headers.given /\ req[s].token = t
HeaderInv ==
  \A s \in Slots, t \in Tokens : TellsOf(request, s, t) =>
    Accurate(t, request[s].headers.rem, request[s].headers.rst, Lookups(request, t))

\* What the pool knows of a token is as accurate, or an answer is on its way.
KnownInv ==
  \A t \in Tokens :
    Accurate(t, remaining[t], resetIn[t], 0) \/ \E s \in Slots : TellsOf(request, s, t)

\* QuotaMargin, with what is in flight still to be paid.
MarginInv ==
  \A t \in Tokens :
    quota[t] + PageRepos + Burst >= Threshold + 1 + Lookups(request, t) + Tries(t)

IInv ==
  /\ TypeOK /\ PageToken /\ FullQuota
  /\ ~faulty => HeaderInv /\ KnownInv /\ MarginInv

-----------------------------------------------------------------------------
(* Counting what is in flight *)

LEMMA LookupsType ==
  ASSUME NEW req, NEW t
  PROVE  /\ IsFiniteSet(SendingIn(req, t))
         /\ Lookups(req, t) \in 0 .. PageRepos
         /\ \A s \in LookupSlots \ SendingIn(req, t) : Lookups(req, t) <= PageRepos - 1
         /\ (\A s \in LookupSlots : s \notin SendingIn(req, t)) => Lookups(req, t) = 0
<1>1. IsFiniteSet(LookupSlots) /\ Cardinality(LookupSlots) = PageRepos
  BY FS_Interval, BoundsType DEF LookupSlots
<1>2. SendingIn(req, t) \subseteq LookupSlots
  BY DEF SendingIn
<1>3. /\ IsFiniteSet(SendingIn(req, t)) /\ Lookups(req, t) <= PageRepos
      /\ Lookups(req, t) = PageRepos => SendingIn(req, t) = LookupSlots
  BY <1>1, <1>2, FS_Subset DEF Lookups
<1>4. Lookups(req, t) \in Nat
  BY <1>3, FS_CardinalityType DEF Lookups
<1>5. SendingIn(req, t) = {} => Lookups(req, t) = 0
  BY FS_EmptySet DEF Lookups
<1>6. ASSUME NEW s \in LookupSlots \ SendingIn(req, t)
      PROVE  Lookups(req, t) <= PageRepos - 1
  BY <1>3, <1>4, <1>6, BoundsType
<1> QED
  BY <1>2, <1>3, <1>4, <1>5, <1>6, BoundsType

LEMMA LookupsSame ==
  ASSUME NEW req, NEW later, NEW t,
         \A s \in LookupSlots : (s \in SendingIn(req, t)) <=> (s \in SendingIn(later, t))
  PROVE  Lookups(later, t) = Lookups(req, t)
<1>1. SendingIn(later, t) = SendingIn(req, t)
  BY DEF SendingIn
<1> QED
  BY <1>1 DEF Lookups

\* Replacing what a slot holds by something that is not a request in flight.
LEMMA LookupsDrop ==
  ASSUME NEW req, NEW later, NEW s \in Slots, later[s].phase # "sent",
         \A j \in Slots \ {s} : later[j] = req[j], NEW t
  PROVE  /\ s \in SendingIn(req, t) => Lookups(later, t) = Lookups(req, t) - 1
         /\ s \notin SendingIn(req, t) => Lookups(later, t) = Lookups(req, t)
<1>1. \A j \in LookupSlots : (j \in SendingIn(later, t)) <=> (j \in SendingIn(req, t) /\ j # s)
  BY ZeroSlot DEF SendingIn
<1>2. SendingIn(later, t) = SendingIn(req, t) \ {s}
  BY <1>1 DEF SendingIn
<1>3. IsFiniteSet(SendingIn(req, t))
  BY LookupsType
<1> QED
  BY <1>2, <1>3, FS_RemoveElement DEF Lookups

LEMMA BurstType == Burst \in Nat /\ Burst >= MaxAttempts /\ Burst >= PageRepos /\ Burst >= 1
BY BoundsType DEF Burst

\* Attempts left are not negative, and none without a page in flight.
LEMMA TriesType ==
  ASSUME TypeOK, NEW t \in Tokens
  PROVE  /\ Tries(t) \in Nat /\ Tries(t) <= MaxAttempts
         /\ request[0] = Idle => Tries(t) = 0
<1>1. poller.pc = "fetching" => poller.attempt \in 1 .. MaxAttempts
  BY PollerShape DEF TypeOK
<1>2. CASE poller.pc = "fetching" /\ poller.token = t
  BY <1>1, <1>2, BoundsType DEF Tries, TypeOK
<1>3. CASE ~(poller.pc = "fetching" /\ poller.token = t)
  BY <1>3, BoundsType DEF Tries
<1> QED
  BY <1>2, <1>3
-----------------------------------------------------------------------------
(* Each step keeps the invariant *)

\* What GitHub does to a request: it is refused or lost at no cost, or charged and
\* the answer says so, or charged and the answer lost.
LEMMA ServeEffect ==
  ASSUME TypeOK, NEW s \in Slots, ServeCharged(s) \/ ServeFree(s) \/ Lose(s),
         NEW t, t = request[s].token
  PROVE  /\ request[s].phase = "sent" /\ t \in Tokens
         /\ poller' = poller /\ remaining' = remaining /\ resetIn' = resetIn
         /\ \E status \in Statuses, h \in Headers :
              /\ request' = [request EXCEPT ![s] = Answer(t, status, h)]
              /\ h.given => h.rem = quota'[t] /\ h.rst = Opened(t)
              /\ \/ /\ quota' = quota /\ windowIn' = windowIn /\ faulty' = faulty
                 \/ /\ quota[t] > 0
                    /\ quota' = [quota EXCEPT ![t] = @ - 1]
                    /\ windowIn' = [windowIn EXCEPT ![t] = Opened(t)]
                    /\ h.given \/ faulty'
                    /\ faulty => faulty'
<1>1. ClientType /\ FlightType /\ ServerType
  BY TypeParts
<1>2. request[s] \in Requests /\ request[s].phase = "sent"
  BY <1>1 DEF FlightType, ServeCharged, ServeFree, Lose
<1>3. t \in Tokens
  BY <1>2, RequestShape
<1>4. /\ quota[t] \in 0 .. Limit /\ Opened(t) \in 0 .. Window
      /\ (quota[t] > 0 => quota[t] - 1 \in 0 .. Limit)
  BY <1>1, <1>3, BoundsType DEF ServerType, Opened
<1>5. NoHeaders \in Headers /\ NoHeaders.given = FALSE
  BY DEF Headers, NoHeaders
<1>6. poller' = poller /\ remaining' = remaining /\ resetIn' = resetIn
  BY DEF ServeCharged, ServeFree, Lose, clientVars
<1>7. \A q \in 0 .. Limit :
        LET h == [given |-> TRUE, rem |-> q, rst |-> Opened(t)]
        IN  h \in Headers /\ h.given = TRUE /\ h.rem = q /\ h.rst = Opened(t)
  BY <1>4, ToldType
<1>8. {"ok", "same", "limited", "denied", "error", "lost"} \subseteq Statuses
  BY DEF Statuses
<1>9. CASE ServeCharged(s)
  <2> DEFINE h == [given |-> TRUE, rem |-> quota[t] - 1, rst |-> Opened(t)]
  <2>1. PICK status \in {"ok", "error"} : request' = [request EXCEPT ![s] = Answer(t, status, h)]
    BY <1>9 DEF ServeCharged
  <2>2. /\ quota' = [quota EXCEPT ![t] = @ - 1] /\ quota[t] > 0 /\ faulty' = faulty
        /\ windowIn' = [windowIn EXCEPT ![t] = Opened(t)]
    BY <1>9 DEF ServeCharged
  <2>3. quota'[t] = quota[t] - 1
    BY <1>1, <1>3, <2>2 DEF ServerType
  <2>4. h \in Headers /\ h.given = TRUE /\ h.rem = quota'[t] /\ h.rst = Opened(t)
    BY <1>4, <1>7, <2>2, <2>3
  <2> HIDE DEF h
  <2> QED
    BY <1>2, <1>3, <1>6, <1>8, <2>1, <2>2, <2>4
<1>10. CASE ServeFree(s)
  <2> DEFINE h == [given |-> TRUE, rem |-> quota[t], rst |-> Opened(t)]
  <2>1. quota' = quota /\ windowIn' = windowIn /\ faulty' = faulty
    BY <1>10 DEF ServeFree, serverVars
  <2>2. h \in Headers /\ h.given = TRUE /\ h.rem = quota'[t] /\ h.rst = Opened(t)
    BY <1>4, <1>7, <2>1
  <2>3. \E status \in Statuses :
          \/ request' = [request EXCEPT ![s] = Answer(t, status, h)]
          \/ request' = [request EXCEPT ![s] = Answer(t, status, NoHeaders)]
    BY <1>8, <1>10 DEF ServeFree
  <2> HIDE DEF h
  <2> QED
    BY <1>2, <1>3, <1>5, <1>6, <2>1, <2>2, <2>3
<1>11. CASE Lose(s)
  <2>1. request' = [request EXCEPT ![s] = Answer(t, "lost", NoHeaders)]
    BY <1>11 DEF Lose
  <2>2. \/ quota' = quota /\ windowIn' = windowIn /\ faulty' = faulty
        \/ /\ quota[t] > 0 /\ faulty' = TRUE
           /\ quota' = [quota EXCEPT ![t] = @ - 1]
           /\ windowIn' = [windowIn EXCEPT ![t] = Opened(t)]
    BY <1>11 DEF Lose
  <2> QED
    BY <1>2, <1>3, <1>5, <1>6, <1>8, <2>1, <2>2
<1> QED
  BY <1>9, <1>10, <1>11

LEMMA ServeKeeps ==
  ASSUME IInv, NEW s \in Slots, ServeCharged(s) \/ ServeFree(s) \/ Lose(s)
  PROVE  PageToken' /\ FullQuota' /\ (~faulty' => HeaderInv' /\ KnownInv' /\ MarginInv')
<1> DEFINE t == request[s].token
<1>1. TypeOK /\ TypeOK' /\ PageToken /\ FullQuota
  BY ServerSteps DEF IInv
<1>2. /\ request[s].phase = "sent" /\ t \in Tokens
      /\ poller' = poller /\ remaining' = remaining /\ resetIn' = resetIn
  BY <1>1, ServeEffect
<1>3. PICK status \in Statuses, h \in Headers :
        /\ request' = [request EXCEPT ![s] = Answer(t, status, h)]
        /\ h.given => h.rem = quota'[t] /\ h.rst = Opened(t)
        /\ \/ /\ quota' = quota /\ windowIn' = windowIn /\ faulty' = faulty
           \/ /\ quota[t] > 0
              /\ quota' = [quota EXCEPT ![t] = @ - 1]
              /\ windowIn' = [windowIn EXCEPT ![t] = Opened(t)]
              /\ h.given \/ faulty'
              /\ faulty => faulty'
  BY <1>1, ServeEffect
<1> DEFINE a == Answer(t, status, h)
<1>4. a.phase = "answered" /\ a.token = t /\ a.headers = h
  BY DEF Answer
<1> HIDE DEF t, a
<1>5. request' = [request EXCEPT ![s] = a]
  BY <1>3 DEF a
<1>6. /\ request \in [Slots -> Requests] /\ request[s] # Idle
      /\ request'[s] = a /\ \A j \in Slots \ {s} : request'[j] = request[j]
  BY <1>1, <1>2, <1>5 DEF TypeOK, Idle
<1>7. /\ quota \in [Tokens -> 0 .. Limit] /\ quota' \in [Tokens -> 0 .. Limit]
      /\ windowIn \in [Tokens -> 0 .. Window] /\ windowIn' \in [Tokens -> 0 .. Window]
  BY <1>1 DEF TypeOK
<1>8. /\ \A u \in Tokens \ {t} : quota'[u] = quota[u] /\ windowIn'[u] = windowIn[u]
      /\ quota'[t] <= quota[t] /\ quota'[t] + 1 >= quota[t]
      /\ (quota'[t] = quota[t] /\ windowIn'[t] = windowIn[t]) \/ windowIn'[t] = Opened(t)
  BY <1>2, <1>3, <1>7, BoundsType
<1>9. Opened(t) # 0 /\ (windowIn[t] # 0 => Opened(t) = windowIn[t])
  BY <1>2, <1>7, BoundsType DEF Opened
<1>10. PageToken'
  <2>1. request'[0].token = request[0].token
    BY <1>4, <1>6, ZeroSlot DEF t
  <2> QED
    BY <1>1, <1>2, <2>1 DEF PageToken
<1>11. FullQuota'
  <2> SUFFICES ASSUME NEW u \in Tokens, windowIn'[u] = 0
               PROVE  quota'[u] = Limit
    BY DEF FullQuota
  <2> QED
    BY <1>1, <1>8, <1>9 DEF FullQuota
<1>12. \A u \in Tokens :
         /\ s \in SendingIn(request, u) => Lookups(request', u) = Lookups(request, u) - 1
         /\ s \notin SendingIn(request, u) => Lookups(request', u) = Lookups(request, u)
  <2>1. request'[s].phase # "sent"
    BY <1>4, <1>6
  <2> QED
    BY <1>6, <2>1, LookupsDrop
<1>13. \A u \in Tokens : (s \in SendingIn(request, u)) <=> (s # 0 /\ u = t)
  BY <1>2, ZeroSlot DEF SendingIn, t
<1>14. s = 0 => \A u \in Tokens : Lookups(request, u) = 0 /\ Lookups(request', u) = 0
  <2> SUFFICES ASSUME s = 0, NEW u \in Tokens
               PROVE  Lookups(request, u) = 0 /\ Lookups(request', u) = 0
    OBVIOUS
  <2>1. \A j \in LookupSlots : request[j] = Idle
    BY <1>1, <1>6 DEF TypeOK
  <2>2. \A j \in LookupSlots : j \notin SendingIn(request, u)
    BY <2>1 DEF SendingIn, Idle
  <2> QED
    BY <1>12, <1>13, <2>2, LookupsType
<1>15. \A u \in Tokens : /\ Lookups(request, u) \in 0 .. PageRepos
                         /\ Lookups(request', u) \in 0 .. PageRepos
  BY LookupsType
<1>16. ASSUME NEW j \in Slots, j # s, request[j] # Idle
       PROVE  j \in LookupSlots /\ s \in LookupSlots
  BY <1>1, <1>6, <1>16, ZeroSlot DEF TypeOK
<1>17. ASSUME ~faulty'
       PROVE  HeaderInv' /\ KnownInv' /\ MarginInv'
  <2>1. /\ HeaderInv /\ KnownInv /\ MarginInv
        /\ (quota' = quota /\ windowIn' = windowIn) \/ h.given
    BY <1>3, <1>17, <1>1 DEF IInv, TypeOK
  <2>2. ASSUME NEW j \in Slots, NEW u \in Tokens, TellsOf(request', j, u)
        PROVE  Accurate(u, request[j].headers.rem, request[j].headers.rst,
                        Lookups(request, u))'
    <3>1. CASE j = s
      <4>1. /\ u = t /\ request'[j].headers.rem = quota'[t]
            /\ request'[j].headers.rst = Opened(t)
        BY <1>3, <1>4, <1>6, <2>2, <3>1 DEF TellsOf
      <4>2. Lookups(request', t) <= PageRepos - 1
        <5>1. CASE s = 0
          BY <1>2, <1>14, <5>1, BoundsType
        <5>2. CASE s # 0
          BY <1>2, <1>12, <1>13, <1>15, <5>2, BoundsType
        <5> QED
          BY <5>1, <5>2
      <4>3. windowIn'[t] = Opened(t) \/ quota'[t] = Limit
        BY <1>1, <1>2, <1>8, <1>9 DEF FullQuota
      <4> QED
        BY <1>2, <1>7, <1>15, <4>1, <4>2, <4>3, BoundsType DEF Accurate
    <3>2. CASE j # s
      <4> DEFINE g == request[j].headers
                 m == Lookups(request, u)
                 n == Lookups(request', u)
      <4>1. request'[j] = request[j] /\ TellsOf(request, j, u) /\ request[j] # Idle
        BY <1>6, <2>2, <3>2 DEF TellsOf, Idle
      <4>2. Accurate(u, g.rem, g.rst, m)
        BY <2>1, <4>1 DEF HeaderInv
      <4>3. g.rem \in 0 .. Limit /\ g.rst \in 0 .. Window
        BY <1>6, <4>1, RequestShape, HeadersShape DEF TellsOf
      <4>4. j \in LookupSlots /\ s # 0
        BY <1>16, <3>2, <4>1, ZeroSlot
      <4>5. m <= PageRepos - 1
        BY <4>1, <4>4, LookupsType DEF TellsOf, SendingIn
      <4> HIDE DEF g, m, n
      <4>6. m \in 0 .. PageRepos /\ n \in 0 .. PageRepos
            /\ n = (IF u = t THEN m - 1 ELSE m)
        BY <1>12, <1>13, <1>15, <4>4 DEF m, n
      <4>7. quota[u] \in 0 .. Limit /\ quota'[u] \in 0 .. Limit
        BY <1>7
      <4>8. quota'[u] + PageRepos >= g.rem + 1 + n
        BY <1>8, <4>2, <4>3, <4>6, <4>7, BoundsType DEF Accurate
      <4>9. windowIn'[u] = g.rst \/ quota'[u] + PageRepos >= Limit + 1 + n
        <5>1. CASE quota[u] + PageRepos >= Limit + 1 + m
          BY <1>8, <4>6, <4>7, <5>1, BoundsType
        <5>2. CASE windowIn[u] = g.rst /\ windowIn[u] # 0
          BY <1>8, <1>9, <5>2
        <5>3. CASE windowIn[u] = 0
          <6>1. quota[u] = Limit
            BY <1>1, <5>3 DEF FullQuota
          <6> QED
            BY <1>8, <4>5, <4>6, <4>7, <6>1, <5>3, <4>2, BoundsType DEF Accurate
        <5> QED
          BY <4>2, <5>1, <5>2, <5>3 DEF Accurate
      <4> QED
        BY <4>1, <4>8, <4>9 DEF Accurate, g, n
    <3> QED
      BY <3>1, <3>2
  <2>3. ASSUME NEW u \in Tokens
        PROVE  \/ Accurate(u, remaining[u], resetIn[u], 0)'
               \/ \E j \in Slots : TellsOf(request', j, u)
    <3>1. CASE \E j \in Slots : TellsOf(request, j, u)
      <4>1. PICK j \in Slots : TellsOf(request, j, u)
        BY <3>1
      <4>2. j # s
        BY <1>2, <4>1 DEF TellsOf
      <4> QED
        BY <1>6, <4>1, <4>2 DEF TellsOf
    <3>2. CASE Accurate(u, remaining[u], resetIn[u], 0)
      <4>1. CASE u = t /\ h.given
        BY <1>4, <1>6, <4>1 DEF TellsOf
      <4>2. CASE ~(u = t /\ h.given)
        <5>1. quota'[u] = quota[u] /\ windowIn'[u] = windowIn[u]
          BY <1>8, <2>1, <4>2
        <5> QED
          BY <1>2, <3>2, <5>1 DEF Accurate
      <4> QED
        BY <4>1, <4>2
    <3> QED
      BY <2>1, <3>1, <3>2 DEF KnownInv
  <2>4. ASSUME NEW u \in Tokens
        PROVE  quota'[u] + PageRepos + Burst
                 >= Threshold + 1 + Lookups(request', u) + Tries(u)'
    <3> DEFINE T == Tries(u)
               U == Tries(u)'
    <3>1. quota[u] + PageRepos + Burst >= Threshold + 1 + Lookups(request, u) + T
      BY <2>1 DEF MarginInv
    <3>2. T \in Nat
      BY <1>1, TriesType
    <3>3. s # 0 => U = T
      BY <1>2, <1>6, ZeroSlot DEF Tries
    <3>4. s = 0 => U = (IF u = t THEN T - 1 ELSE T)
      <4>1. SUFFICES ASSUME s = 0
                     PROVE  U = (IF u = t THEN T - 1 ELSE T)
        OBVIOUS
      <4>2. /\ poller.pc = "fetching" /\ poller.token = t
            /\ poller.attempt \in 1 .. MaxAttempts
        BY <1>1, <1>6, <4>1, PollerShape DEF TypeOK, PageToken, t
      <4>3. request[0].phase = "sent" /\ request'[0].phase = "answered"
        BY <1>2, <1>4, <1>6, <4>1
      <4> QED
        BY <1>2, <4>2, <4>3, BoundsType DEF Tries
    <3> HIDE DEF T, U
    <3>5. quota[u] \in 0 .. Limit /\ quota'[u] \in 0 .. Limit
      BY <1>7
    <3>6. quota'[u] + PageRepos + Burst >= Threshold + 1 + Lookups(request', u) + U
      <4>1. CASE u # t
        BY <1>8, <1>12, <1>13, <3>1, <3>3, <3>4, <4>1
      <4>2. CASE u = t /\ s # 0
        BY <1>8, <1>12, <1>13, <1>15, <3>1, <3>2, <3>3, <3>5, <4>2, BoundsType, BurstType
      <4>3. CASE u = t /\ s = 0
        BY <1>8, <1>14, <3>1, <3>2, <3>4, <3>5, <4>3, BoundsType, BurstType
      <4> QED
        BY <4>1, <4>2, <4>3
    <3> QED
      BY <3>6 DEF U
  <2>5. HeaderInv'
    BY <2>2 DEF HeaderInv
  <2>6. KnownInv'
    BY <2>3 DEF KnownInv
  <2>7. MarginInv'
    BY <2>4 DEF MarginInv
  <2> QED
    BY <2>5, <2>6, <2>7
<1> QED
  BY <1>10, <1>11, <1>17
\* With nothing in flight, a token that is not exhausted has its reserve.
LEMMA UsableMargin ==
  ASSUME TypeOK, FullQuota, KnownInv, \A s \in Slots : request[s] = Idle,
         NEW t \in Usable
  PROVE  quota[t] + PageRepos >= Threshold + 1
<1>1. t \in Tokens /\ (remaining[t] >= Threshold \/ resetIn[t] = 0)
  BY BoundsType DEF Usable, IsExhausted, TypeOK
<1>2. \A s \in Slots : ~TellsOf(request, s, t)
  BY DEF TellsOf, Idle
<1>3. Accurate(t, remaining[t], resetIn[t], 0)
  BY <1>1, <1>2 DEF KnownInv
<1>4. quota[t] \in 0 .. Limit /\ remaining[t] \in 0 .. Limit /\ windowIn[t] \in 0 .. Window
  BY <1>1 DEF TypeOK
<1>5. CASE remaining[t] >= Threshold
  BY <1>3, <1>4, <1>5, BoundsType DEF Accurate
<1>6. CASE resetIn[t] = 0
  <2>1. quota[t] = Limit \/ quota[t] + PageRepos >= Limit + 1
    BY <1>1, <1>3, <1>6, BoundsType DEF Accurate, FullQuota
  <2> QED
    BY <1>4, <2>1, BoundsType
<1> QED
  BY <1>1, <1>5, <1>6

\* An answer is taken in: its slot is free or sends the page again.
LEMMA TakeIn ==
  ASSUME TypeOK, TypeOK', HeaderInv, KnownInv, quota' = quota, windowIn' = windowIn,
         NEW s \in Slots, request[s].phase = "answered",
         UpdateFromHeaders(request[s].token, request[s].headers),
         request'[s].phase # "answered", \A j \in Slots \ {s} : request'[j] = request[j],
         s = 0 \/ request'[s] = Idle
  PROVE  /\ HeaderInv' /\ KnownInv'
         /\ \A t \in Tokens : Lookups(request', t) = Lookups(request, t)
<1> DEFINE u == request[s].token
           h == request[s].headers
<1>1. request[s] \in Requests /\ ClientType
  BY TypeParts DEF TypeOK
<1>2. u \in Tokens /\ h \in Headers
  BY <1>1, RequestShape
<1> HIDE DEF u, h
<1>3. /\ \A t \in Tokens \ {u} : remaining'[t] = remaining[t] /\ resetIn'[t] = resetIn[t]
      /\ h.given => remaining'[u] = h.rem /\ resetIn'[u] = h.rst
      /\ ~h.given => remaining' = remaining /\ resetIn' = resetIn
  BY <1>1, <1>2, UpdateType DEF u, h
<1>4. ASSUME NEW t \in Tokens
      PROVE  Lookups(request', t) = Lookups(request, t)
  <2>1. \A j \in LookupSlots : (j \in SendingIn(request, t)) <=> (j \in SendingIn(request', t))
    BY ZeroSlot DEF SendingIn, Idle
  <2> QED
    BY <2>1, LookupsSame
<1>5. ASSUME NEW j \in Slots, NEW t \in Tokens, TellsOf(request', j, t)
      PROVE  Accurate(t, request[j].headers.rem, request[j].headers.rst, Lookups(request, t))'
  <2>1. j # s /\ request'[j] = request[j] /\ TellsOf(request, j, t)
    BY <1>5 DEF TellsOf
  <2>2. Accurate(t, request[j].headers.rem, request[j].headers.rst, Lookups(request, t))
    BY <2>1 DEF HeaderInv
  <2> QED
    BY <1>4, <2>1, <2>2 DEF Accurate
<1>6. ASSUME NEW t \in Tokens
      PROVE  \/ Accurate(t, remaining[t], resetIn[t], 0)'
             \/ \E j \in Slots : TellsOf(request', j, t)
  <2>1. CASE t = u /\ h.given
    <3>1. Accurate(t, h.rem, h.rst, Lookups(request, t))
      BY <2>1 DEF HeaderInv, TellsOf, u, h
    <3>2. Lookups(request, t) \in 0 .. PageRepos
      BY LookupsType
    <3>3. h.rem \in 0 .. Limit /\ quota[t] \in 0 .. Limit
      BY <1>2, <2>1, HeadersShape DEF TypeOK
    <3> QED
      BY <1>3, <2>1, <3>1, <3>2, <3>3, BoundsType DEF Accurate
  <2>2. CASE ~(t = u /\ h.given)
    <3>1. remaining'[t] = remaining[t] /\ resetIn'[t] = resetIn[t]
      BY <1>3, <2>2
    <3>2. CASE Accurate(t, remaining[t], resetIn[t], 0)
      BY <3>1, <3>2 DEF Accurate
    <3>3. CASE \E j \in Slots : TellsOf(request, j, t)
      <4>1. PICK j \in Slots : TellsOf(request, j, t)
        BY <3>3
      <4>2. j # s
        BY <2>2, <4>1 DEF TellsOf, u, h
      <4> QED
        BY <4>1, <4>2 DEF TellsOf
    <3> QED
      BY <3>2, <3>3 DEF KnownInv
  <2> QED
    BY <2>1, <2>2
<1>7. HeaderInv'
  BY <1>5 DEF HeaderInv
<1>8. KnownInv'
  BY <1>6 DEF KnownInv
<1> QED
  BY <1>4, <1>7, <1>8

\* Nothing was in flight; requests are sent with tokens that are not exhausted.
LEMMA SendOut ==
  ASSUME TypeOK, TypeOK', FullQuota, KnownInv, MarginInv,
         quota' = quota, windowIn' = windowIn, remaining' = remaining, resetIn' = resetIn,
         \A s \in Slots : request[s] = Idle,
         \A s \in Slots : request'[s] = Idle
                            \/ (request'[s].phase = "sent" /\ request'[s].token \in Usable),
         PageToken'
  PROVE  HeaderInv' /\ KnownInv' /\ MarginInv'
<1>1. \A s \in Slots, t \in Tokens : ~TellsOf(request, s, t) /\ ~TellsOf(request', s, t)
  BY DEF TellsOf, Idle
<1>2. HeaderInv'
  BY <1>1 DEF HeaderInv
<1>3. KnownInv'
  BY <1>1 DEF KnownInv, Accurate
<1>4. ASSUME NEW t \in Tokens
      PROVE  quota'[t] + PageRepos + Burst >= Threshold + 1 + Lookups(request', t) + Tries(t)'
  <2> DEFINE T == Tries(t)'
             L == Lookups(request', t)
  <2>1. T \in Nat /\ T <= MaxAttempts /\ (request'[0] = Idle => T = 0)
    <3>1. poller'.pc = "fetching" =>
            poller'.attempt \in Nat /\ poller'.attempt >= 1 /\ poller'.attempt <= MaxAttempts
      BY BoundsType DEF TypeOK, Pollers
    <3>2. CASE poller'.pc = "fetching" /\ poller'.token = t
      BY <3>1, <3>2, BoundsType DEF Tries, TypeOK
    <3>3. CASE ~(poller'.pc = "fetching" /\ poller'.token = t)
      BY <3>3, BoundsType DEF Tries
    <3> QED
      BY <3>2, <3>3
  <2>2. L \in 0 .. PageRepos
    BY LookupsType
  <2>3. request'[0] # Idle => L = 0
    <3>1. request'[0] # Idle => \A s \in LookupSlots : request'[s] = Idle
      BY DEF TypeOK
    <3>2. request'[0] # Idle => \A s \in LookupSlots : s \notin SendingIn(request', t)
      BY <3>1 DEF SendingIn, Idle
    <3> QED
      BY <3>2, LookupsType
  <2>4. quota[t] \in 0 .. Limit
    BY DEF TypeOK
  <2>5. CASE t \in Usable
    <3>1. quota[t] + PageRepos >= Threshold + 1
      BY <2>5, UsableMargin
    <3> HIDE DEF T, L
    <3>2. T + L <= Burst
      BY <2>1, <2>2, <2>3, BurstType, BoundsType
    <3>3. quota'[t] + PageRepos + Burst >= Threshold + 1 + L + T
      BY <2>1, <2>2, <2>4, <3>1, <3>2, BurstType, BoundsType
    <3> QED
      BY <3>3 DEF T, L
  <2>6. CASE t \notin Usable
    <3>1. \A s \in LookupSlots : s \notin SendingIn(request', t)
      BY <2>6, ZeroSlot DEF SendingIn, Idle
    <3>2. L = 0
      BY <3>1, LookupsType
    <3>3. T = 0
      <4>1. ~(poller'.pc = "fetching" /\ poller'.token = t)
        BY <2>6, ZeroSlot DEF PageToken, TypeOK
      <4> QED
        BY <4>1 DEF Tries
    <3>4. quota[t] + PageRepos + Burst >= Threshold + 1 + Lookups(request, t) + Tries(t)
      BY DEF MarginInv
    <3>5. Lookups(request, t) \in 0 .. PageRepos /\ Tries(t) \in Nat
      BY LookupsType, TriesType
    <3> HIDE DEF T, L
    <3>6. quota'[t] + PageRepos + Burst >= Threshold + 1 + L + T
      BY <2>4, <3>2, <3>3, <3>4, <3>5, BurstType, BoundsType
    <3> QED
      BY <3>6 DEF T, L
  <2> QED
    BY <2>5, <2>6
<1>5. MarginInv'
  BY <1>4 DEF MarginInv
<1> QED
  BY <1>2, <1>3, <1>5
LEMMA ClientKeeps ==
  ASSUME IInv, Poller \/ Restart
  PROVE  PageToken' /\ FullQuota' /\ (~faulty' => HeaderInv' /\ KnownInv' /\ MarginInv')
<1>1. TypeOK /\ TypeOK' /\ PageToken /\ FullQuota
  BY ClientSteps DEF IInv
<1>2. quota' = quota /\ windowIn' = windowIn
  BY DEF Poller, Restart, FetchEvents, PageAnswered, PageFailed, Enrich, LookupAnswered,
         EnrichDone, Resume, serverVars
<1>3. FullQuota'
  BY <1>1, <1>2 DEF FullQuota
<1>4. request \in [Slots -> Requests] /\ cursor \in Tokens
  BY <1>1 DEF TypeOK
<1>5. \A s \in LookupSlots : request[s] # Idle => poller.pc = "enriching"
  BY <1>1 DEF TypeOK
<1>6. \A t \in Tokens : Send(t).phase = "sent" /\ Send(t).token = t
  BY DEF Send
\* The steps that send, and those that only move the poller.
<1>7. ASSUME remaining' = remaining, resetIn' = resetIn, faulty' = faulty,
             \A s \in Slots : request[s] = Idle,
             \A s \in Slots : request'[s] = Idle
                                \/ (request'[s].phase = "sent" /\ request'[s].token \in Usable),
             PageToken'
      PROVE  ~faulty' => HeaderInv' /\ KnownInv' /\ MarginInv'
  BY <1>1, <1>2, <1>7, SendOut DEF IInv
<1>8. CASE FetchEvents
  <2>1. \A s \in Slots : request[s] = Idle
    BY <1>1, <1>5, <1>8, ZeroSlot DEF FetchEvents, TypeOK
  <2>2. remaining' = remaining /\ resetIn' = resetIn /\ faulty' = faulty
    BY <1>8 DEF FetchEvents
  <2>3. CASE Usable # {}
    <3> DEFINE t == NextTokenState(cursor)
    <3>1. t \in Usable /\ t \in Tokens
      BY <1>4, <2>3, NextUsable
    <3> HIDE DEF t
    <3>2. /\ request' = [request EXCEPT ![0] = Send(t)]
          /\ poller' = [pc |-> "fetching", token |-> t, attempt |-> 1]
      BY <1>8, <2>3 DEF FetchEvents, t
    <3>3. request'[0] = Send(t) /\ \A s \in Slots \ {0} : request'[s] = Idle
      BY <1>4, <2>1, <3>2, ZeroSlot
    <3>4. PageToken'
      BY <1>6, <3>1, <3>2, <3>3 DEF PageToken
    <3> QED
      BY <1>3, <1>6, <1>7, <2>1, <2>2, <3>1, <3>3, <3>4
  <2>4. CASE Usable = {}
    <3>1. request' = request /\ poller' = [pc |-> "limited", cause |-> "pool"]
      BY <1>8, <2>4 DEF FetchEvents
    <3>2. PageToken'
      BY <3>1 DEF PageToken
    <3> QED
      BY <1>3, <1>7, <2>1, <2>2, <3>1, <3>2
  <2> QED
    BY <2>3, <2>4
<1>9. CASE Enrich
  <2>1. \A s \in Slots : request[s] = Idle
    BY <1>1, <1>5, <1>9, ZeroSlot DEF Enrich, TypeOK
  <2>2. remaining' = remaining /\ resetIn' = resetIn /\ faulty' = faulty
    BY <1>9 DEF Enrich
  <2>3. PageToken'
    BY <1>9 DEF Enrich, PageToken
  <2>4. PICK n \in 0 .. PageRepos, c \in CursorWalks :
          LET k == IF Usable = {} THEN 0 ELSE n
          IN  request' = [s \in Slots |->
                  IF s \in 1 .. k THEN Send(NextTokenState(c[s - 1])) ELSE Idle]
    BY <1>9 DEF Enrich
  <2> DEFINE k == IF Usable = {} THEN 0 ELSE n
  <2>5. k \in 0 .. PageRepos /\ (Usable = {} => 1 .. k = {})
    BY BoundsType
  <2>6. c \in [0 .. PageRepos -> Tokens]
    BY DEF CursorWalks
  <2>7. \A s \in Slots :
          request'[s] = IF s \in 1 .. k THEN Send(NextTokenState(c[s - 1])) ELSE Idle
    BY <2>4
  <2> HIDE DEF k
  <2>8. \A s \in 1 .. k : c[s - 1] \in Tokens
    BY <2>5, <2>6, BoundsType
  <2>9. \A s \in 1 .. k : NextTokenState(c[s - 1]) \in Usable /\ NextTokenState(c[s - 1]) \in Tokens
    BY <2>5, <2>8, NextUsable
  <2>10. \A s \in Slots : request'[s] = Idle
                            \/ (request'[s].phase = "sent" /\ request'[s].token \in Usable)
    BY <1>6, <2>7, <2>9
  <2> QED
    BY <1>3, <1>7, <2>1, <2>2, <2>3, <2>10
<1>10. CASE EnrichDone \/ Resume
  <2>1. \A s \in Slots : request[s] = Idle
    BY <1>1, <1>5, <1>10, ZeroSlot DEF EnrichDone, Resume, TypeOK
  <2>2. /\ remaining' = remaining /\ resetIn' = resetIn /\ faulty' = faulty
        /\ request' = request /\ poller' = [pc |-> "idle"]
    BY <1>10 DEF EnrichDone, Resume, clientVars
  <2>3. PageToken'
    BY <2>2 DEF PageToken
  <2> QED
    BY <1>3, <1>7, <2>1, <2>2, <2>3
<1>11. ASSUME NEW s \in LookupSlots, LookupAnswered(s)
       PROVE  PageToken' /\ (~faulty' => HeaderInv' /\ KnownInv' /\ MarginInv')
  <2>1. s \in Slots /\ s # 0 /\ request[s].phase = "answered"
    BY <1>11, ZeroSlot DEF LookupAnswered
  <2>2. /\ request'[s] = Idle /\ \A j \in Slots \ {s} : request'[j] = request[j]
        /\ poller' = poller /\ faulty' = faulty
        /\ UpdateFromHeaders(request[s].token, request[s].headers)
    BY <1>4, <1>11, <2>1 DEF LookupAnswered
  <2>3. PageToken'
    BY <1>1, <2>1, <2>2, ZeroSlot DEF PageToken
  <2>4. ASSUME ~faulty'
        PROVE  HeaderInv' /\ KnownInv' /\ MarginInv'
    <3>1. HeaderInv /\ KnownInv /\ MarginInv
      BY <2>2, <2>4 DEF IInv
    <3>2. request'[s].phase # "answered"
      BY <2>2 DEF Idle
    <3>3. /\ HeaderInv' /\ KnownInv'
          /\ \A t \in Tokens : Lookups(request', t) = Lookups(request, t)
      BY <1>1, <1>2, <2>1, <2>2, <3>1, <3>2, TakeIn
    <3>4. \A t \in Tokens : Tries(t)' = Tries(t)
      BY <2>1, <2>2, ZeroSlot DEF Tries
    <3>5. MarginInv'
      BY <1>2, <3>1, <3>3, <3>4 DEF MarginInv
    <3> QED
      BY <3>3, <3>5
  <2> QED
    BY <2>3, <2>4
<1>12. CASE PageAnswered \/ PageFailed
  <2>1. request[0].phase = "answered" /\ request[0] # Idle /\ faulty' = faulty
    BY <1>12 DEF PageAnswered, PageFailed, Idle
  <2>2. /\ poller.pc = "fetching" /\ poller.token \in Tokens
        /\ poller.attempt \in 1 .. MaxAttempts /\ request[0].token = poller.token
        /\ poller = [pc |-> "fetching", token |-> poller.token, attempt |-> poller.attempt]
    BY <1>1, <2>1, PollerShape DEF TypeOK, PageToken
  <2>3. UpdateFromHeaders(request[0].token, request[0].headers)
    BY <1>12, <2>2 DEF PageAnswered, PageFailed
  <2>4. \/ /\ request' = [request EXCEPT ![0] = Idle] /\ poller'.pc # "fetching"
        \/ /\ request' = [request EXCEPT ![0] = Send(poller.token)]
           /\ poller.attempt < MaxAttempts /\ poller' = [poller EXCEPT !.attempt = @ + 1]
    BY <1>12 DEF PageAnswered, PageFailed
  <2>5. \/ request'[0] = Idle /\ poller'.pc # "fetching"
        \/ /\ request'[0] = Send(poller.token) /\ poller.attempt < MaxAttempts
           /\ poller' = [pc |-> "fetching", token |-> poller.token,
                         attempt |-> poller.attempt + 1]
    BY <1>4, <2>2, <2>4, ZeroSlot
  <2>6. \A j \in Slots \ {0} : request'[j] = request[j]
    BY <1>4, <2>4
  <2>7. PageToken'
    BY <1>6, <2>2, <2>5 DEF PageToken
  <2>8. ASSUME ~faulty'
        PROVE  HeaderInv' /\ KnownInv' /\ MarginInv'
    <3>1. HeaderInv /\ KnownInv /\ MarginInv
      BY <2>1, <2>8 DEF IInv
    <3>2. request'[0].phase # "answered"
      BY <1>6, <2>2, <2>5 DEF Idle
    <3>3. /\ HeaderInv' /\ KnownInv'
          /\ \A t \in Tokens : Lookups(request', t) = Lookups(request, t)
      BY <1>1, <1>2, <2>1, <2>3, <2>6, <3>1, <3>2, ZeroSlot, TakeIn
    <3>4. ASSUME NEW t \in Tokens
          PROVE  Tries(t)' <= Tries(t) /\ Tries(t)' \in Nat /\ Tries(t) \in Nat
      <4>1. Tries(t) \in Nat
        BY <1>1, TriesType
      <4>2. Tries(t) = IF poller.token = t THEN MaxAttempts - poller.attempt ELSE 0
        BY <2>1, <2>2, BoundsType DEF Tries
      <4>3. CASE request'[0] = Idle /\ poller'.pc # "fetching"
        <5>1. Tries(t)' = 0
          BY <4>3 DEF Tries
        <5> QED
          BY <4>1, <5>1
      <4>4. CASE /\ request'[0] = Send(poller.token) /\ poller.attempt < MaxAttempts
                 /\ poller' = [pc |-> "fetching", token |-> poller.token,
                               attempt |-> poller.attempt + 1]
        <5>1. Tries(t)' = IF poller.token = t THEN MaxAttempts - (poller.attempt + 1) + 1 ELSE 0
          BY <1>6, <2>2, <4>4 DEF Tries
        <5> QED
          BY <2>2, <4>1, <4>2, <5>1, BoundsType
      <4> QED
        BY <2>5, <4>3, <4>4
    <3>5. ASSUME NEW t \in Tokens
          PROVE  quota'[t] + PageRepos + Burst >= Threshold + 1 + Lookups(request', t) + Tries(t)'
      <4>1. quota[t] + PageRepos + Burst >= Threshold + 1 + Lookups(request, t) + Tries(t)
        BY <3>1 DEF MarginInv
      <4>2. quota[t] \in 0 .. Limit /\ Lookups(request, t) \in 0 .. PageRepos
        BY <1>1, LookupsType DEF TypeOK
      <4> QED
        BY <1>2, <3>3, <3>4, <4>1, <4>2, BoundsType, BurstType
    <3>6. MarginInv'
      BY <3>5 DEF MarginInv
    <3> QED
      BY <3>3, <3>6
  <2> QED
    BY <1>3, <2>7, <2>8
<1>13. CASE Restart
  BY <1>3, <1>13 DEF Restart, PageToken
<1> QED
  BY <1>3, <1>8, <1>9, <1>10, <1>11, <1>12, <1>13 DEF Poller

LEMMA TickKeeps ==
  ASSUME IInv, Tick
  PROVE  PageToken' /\ FullQuota' /\ (~faulty' => HeaderInv' /\ KnownInv' /\ MarginInv')
<1>1. TypeOK /\ FlightType /\ PageToken /\ FullQuota
  BY TypeParts DEF IInv
<1>2. /\ poller' = poller /\ faulty' = faulty /\ remaining' = remaining
      /\ \A t \in Tokens :
           /\ resetIn'[t] = Less(resetIn[t]) /\ windowIn'[t] = Less(windowIn[t])
           /\ quota'[t] = IF windowIn[t] = 1 THEN Limit ELSE quota[t]
  BY DEF Tick
<1>3. \A s \in Slots :
        /\ request'[s].phase = request[s].phase /\ request'[s].token = request[s].token
        /\ request[s].phase = "answered" /\ request[s].headers.given =>
             /\ request'[s].headers.given
             /\ request'[s].headers.rem = request[s].headers.rem
             /\ request'[s].headers.rst = Less(request[s].headers.rst)
        /\ ~(request[s].phase = "answered" /\ request[s].headers.given) =>
             request'[s] = request[s]
  BY <1>1, Aged
<1>4. \A t \in Tokens : quota[t] \in 0 .. Limit /\ windowIn[t] \in 0 .. Window
  BY <1>1 DEF TypeOK
<1>5. PageToken'
  BY <1>1, <1>2, <1>3, ZeroSlot DEF PageToken
<1>6. FullQuota'
  <2> SUFFICES ASSUME NEW t \in Tokens, windowIn'[t] = 0
               PROVE  quota'[t] = Limit
    BY DEF FullQuota
  <2>1. windowIn[t] = 0 \/ windowIn[t] = 1
    BY <1>2, <1>4, BoundsType DEF Less
  <2> QED
    BY <1>1, <1>2, <2>1 DEF FullQuota
<1>7. \A t \in Tokens : Lookups(request', t) = Lookups(request, t)
  <2> TAKE t \in Tokens
  <2>1. \A s \in LookupSlots : (s \in SendingIn(request, t)) <=> (s \in SendingIn(request', t))
    BY <1>3, ZeroSlot DEF SendingIn
  <2> QED
    BY <2>1, LookupsSame
<1>8. \A t \in Tokens : Tries(t)' = Tries(t)
  BY <1>2, <1>3, ZeroSlot DEF Tries
\* What was known of a token ages with its window.
<1>9. ASSUME NEW t \in Tokens, NEW rem \in 0 .. Limit, NEW rst \in 0 .. Window,
             NEW n \in 0 .. PageRepos - 1, Accurate(t, rem, rst, n)
      PROVE  /\ quota'[t] + PageRepos >= rem + 1 + n
             /\ windowIn'[t] = Less(rst) \/ quota'[t] + PageRepos >= Limit + 1 + n
  <2>1. CASE windowIn[t] = 1
    BY <1>2, <1>9, <2>1, BoundsType
  <2>2. CASE windowIn[t] # 1
    BY <1>2, <1>9, <2>2 DEF Accurate
  <2> QED
    BY <2>1, <2>2
<1>10. ASSUME ~faulty'
       PROVE  HeaderInv' /\ KnownInv' /\ MarginInv'
  <2>1. HeaderInv /\ KnownInv /\ MarginInv
    BY <1>2, <1>10 DEF IInv
  <2>2. \A s \in Slots, t \in Tokens : TellsOf(request', s, t) <=> TellsOf(request, s, t)
    <3> TAKE s \in Slots, t \in Tokens
    <3>1. CASE request[s].phase = "answered" /\ request[s].headers.given
      BY <1>3, <3>1 DEF TellsOf
    <3>2. CASE ~(request[s].phase = "answered" /\ request[s].headers.given)
      BY <1>3, <3>2 DEF TellsOf
    <3> QED
      BY <3>1, <3>2
  <2>3. ASSUME NEW s \in Slots, NEW t \in Tokens, TellsOf(request', s, t)
        PROVE  Accurate(t, request[s].headers.rem, request[s].headers.rst, Lookups(request, t))'
    <3> DEFINE h == request[s].headers
               n == Lookups(request, t)
    <3>1. TellsOf(request, s, t) /\ request[s] \in Requests /\ request[s] # Idle
      BY <1>1, <2>2, <2>3 DEF FlightType, TellsOf, Idle
    <3>2. h.rem \in 0 .. Limit /\ h.rst \in 0 .. Window
      BY <3>1, RequestShape, HeadersShape DEF TellsOf
    <3>3. n \in 0 .. PageRepos - 1
      <4>1. n \in 0 .. PageRepos
        BY LookupsType
      <4>2. CASE s = 0
        <5>1. \A j \in LookupSlots : request[j] = Idle
          BY <1>1, <3>1, <4>2 DEF TypeOK
        <5>2. \A j \in LookupSlots : j \notin SendingIn(request, t)
          BY <5>1 DEF SendingIn, Idle
        <5>3. n = 0
          BY <5>2, LookupsType
        <5> QED
          BY <5>3, BoundsType
      <4>3. CASE s # 0
        <5>1. s \in LookupSlots \ SendingIn(request, t)
          BY <3>1, <4>3, ZeroSlot DEF TellsOf, SendingIn
        <5>2. n <= PageRepos - 1
          BY <5>1, LookupsType
        <5> QED
          BY <4>1, <5>2, BoundsType
      <4> QED
        BY <4>2, <4>3
    <3>4. Accurate(t, h.rem, h.rst, n)
      BY <2>1, <3>1 DEF HeaderInv
    <3>5. request'[s].headers.rem = h.rem /\ request'[s].headers.rst = Less(h.rst)
          /\ Lookups(request', t) = n
      BY <1>3, <1>7, <3>1 DEF TellsOf
    <3> HIDE DEF h, n
    <3>6. /\ quota'[t] + PageRepos >= h.rem + 1 + n
          /\ windowIn'[t] = Less(h.rst) \/ quota'[t] + PageRepos >= Limit + 1 + n
      BY <1>9, <3>2, <3>3, <3>4
    <3> QED
      BY <3>5, <3>6 DEF Accurate
  <2>4. ASSUME NEW t \in Tokens
        PROVE  \/ Accurate(t, remaining[t], resetIn[t], 0)'
               \/ \E s \in Slots : TellsOf(request', s, t)
    <3>1. CASE \E s \in Slots : TellsOf(request, s, t)
      BY <2>2, <3>1
    <3>2. CASE Accurate(t, remaining[t], resetIn[t], 0)
      <4>1. remaining[t] \in 0 .. Limit /\ resetIn[t] \in 0 .. Window /\ 0 \in 0 .. PageRepos - 1
        BY <1>1, BoundsType DEF TypeOK
      <4>2. /\ quota'[t] + PageRepos >= remaining[t] + 1 + 0
            /\ windowIn'[t] = Less(resetIn[t]) \/ quota'[t] + PageRepos >= Limit + 1 + 0
        BY <1>9, <3>2, <4>1
      <4> QED
        BY <1>2, <4>2 DEF Accurate
    <3> QED
      BY <2>1, <3>1, <3>2 DEF KnownInv
  <2>5. ASSUME NEW t \in Tokens
        PROVE  quota'[t] + PageRepos + Burst >= Threshold + 1 + Lookups(request', t) + Tries(t)'
    <3>1. quota[t] + PageRepos + Burst >= Threshold + 1 + Lookups(request, t) + Tries(t)
      BY <2>1 DEF MarginInv
    <3>2. Lookups(request, t) \in 0 .. PageRepos /\ Tries(t) \in Nat
      BY <1>1, LookupsType, TriesType
    <3>3. quota'[t] >= quota[t] /\ quota'[t] \in 0 .. Limit
      BY <1>2, <1>4, BoundsType
    <3> QED
      BY <1>4, <1>7, <1>8, <3>1, <3>2, <3>3, BoundsType, BurstType
  <2>6. HeaderInv'
    BY <2>3 DEF HeaderInv
  <2>7. KnownInv'
    BY <2>4 DEF KnownInv
  <2>8. MarginInv'
    BY <2>5 DEF MarginInv
  <2> QED
    BY <2>6, <2>7, <2>8
<1> QED
  BY <1>5, <1>6, <1>10

LEMMA MarginInit == Init => IInv
<1> SUFFICES ASSUME Init
             PROVE  IInv
  OBVIOUS
<1>1. TypeOK
  BY TypeInit
<1>2. PageToken /\ FullQuota
  BY DEF Init, PageToken, FullQuota
<1>3. \A s \in Slots : request[s] = Idle
  BY DEF Init
<1>4. HeaderInv
  BY <1>3 DEF HeaderInv, TellsOf, Idle
<1>5. KnownInv
  <2>1. \A t \in Tokens : quota[t] = Limit /\ remaining[t] = Limit
    BY DEF Init
  <2> QED
    BY <2>1, BoundsType DEF KnownInv, Accurate
<1>6. MarginInv
  <2> SUFFICES ASSUME NEW t \in Tokens
               PROVE  quota[t] + PageRepos + Burst
                        >= Threshold + 1 + Lookups(request, t) + Tries(t)
    BY DEF MarginInv
  <2>1. quota[t] = Limit
    BY DEF Init
  <2>2. Tries(t) = 0
    BY <1>1, <1>3, ZeroSlot, TriesType
  <2>3. Lookups(request, t) = 0
    <3>1. \A s \in LookupSlots : s \notin SendingIn(request, t)
      BY <1>3, ZeroSlot DEF SendingIn, Idle
    <3> QED
      BY <3>1, LookupsType
  <2> QED
    BY <2>1, <2>2, <2>3, BoundsType, BurstType
<1> QED
  BY <1>1, <1>2, <1>4, <1>5, <1>6 DEF IInv

LEMMA MarginStep == IInv /\ [Next]_vars => IInv'
<1> SUFFICES ASSUME IInv, [Next]_vars
             PROVE  IInv'
  OBVIOUS
<1>1. TypeOK'
  BY TypePreserved DEF IInv
<1>2. ASSUME poller' = poller, request' = request, quota' = quota, windowIn' = windowIn,
             remaining' = remaining, resetIn' = resetIn, faulty' = faulty
      PROVE  PageToken' /\ FullQuota' /\ (~faulty' => HeaderInv' /\ KnownInv' /\ MarginInv')
  BY <1>2 DEF IInv, PageToken, FullQuota, HeaderInv, KnownInv, MarginInv, Accurate, Tries
<1>3. PageToken' /\ FullQuota' /\ (~faulty' => HeaderInv' /\ KnownInv' /\ MarginInv')
  BY <1>2, ServeKeeps, ClientKeeps, TickKeeps
  DEF Next, GitHub, Revoke, clientVars, serverVars, vars
<1> QED
  BY <1>1, <1>3 DEF IInv

\* The reserve absorbs all that is sent on knowledge that is out of date.
THEOREM MarginKept == Spec => []QuotaMargin
<1>1. IInv => QuotaMargin
  <2> SUFFICES ASSUME IInv, ~faulty, NEW t \in Tokens
               PROVE  quota[t] + PageRepos + Burst >= Threshold + 1
    BY DEF QuotaMargin
  <2>1. quota[t] + PageRepos + Burst >= Threshold + 1 + Lookups(request, t) + Tries(t)
    BY DEF IInv, MarginInv
  <2>2. /\ Lookups(request, t) \in 0 .. PageRepos /\ Tries(t) \in Nat
        /\ quota[t] \in 0 .. Limit
    BY LookupsType, TriesType DEF IInv, TypeOK
  <2> QED
    BY <2>1, <2>2, BoundsType, BurstType
<1> QED
  BY <1>1, MarginInit, MarginStep, PTL DEF Spec
=============================================================================
