---------------------------- MODULE ServiceProofs ----------------------------
(***************************************************************************)
(* Proofs about the services that the steps of an engine use: the HTTP     *)
(* exchange, the bucket that limits its rate, the cache of compiled        *)
(* patterns and the receive channel, how a step's target names the         *)
(* operation or the topic that it uses, how the sources of a description   *)
(* are bound to documents, and how the replacements of a request body are  *)
(* made, each for itself.                                                  *)
(***************************************************************************)
EXTENDS KafkaReceive, HttpExchange, RateLimiter, RegexCache, OperationResolution, ReceiveTarget, DocumentBinding,
        PayloadReplacement,
        SequenceTheorems, FiniteSetTheorems, TLAPS

-----------------------------------------------------------------------------
(***************************************************************************)
(* The invariant.  What a hop may send depends on the whole chain before   *)
(* it, so that it must hold between hops too, also when the request is     *)
(* ready and the exchange late.                                            *)
(***************************************************************************)
Hop == [from : Urls, status : {301, 302, 303, 307}]
HeaderSet == [credentials : BOOLEAN, payload : BOOLEAN, referer : Urls \union {ExchangeNone}]

ChainTyped ==
  /\ first \in [url : Urls, method : Methods, body : BOOLEAN]
  /\ hops \in Seq(Hop) /\ headers \in HeaderSet
  /\ exchangeClock \in Nat /\ hopEnds = Timeout /\ exchangeReceived <= MaxBytes
  /\ exchangePhase \in {"sending", "reading"} => exchangeClock <= Timeout

Home ==
  headers.credentials = TRUE =>
    \A k \in 1 .. Len(hops) + 1 : SameOrigin(Trail[k], first.url)

Secret ==
  AllowDowngrade = FALSE =>
    \A k \in 1 .. Len(hops) : Trail[k].tls = TRUE => Trail[k + 1].tls = TRUE

Whole ==
  /\ body = TRUE => first.body = TRUE /\ method = first.method
  /\ headers.payload = body
  /\ first.method = "HEAD" => method = "HEAD"

HopInv ==
  /\ ExchangeTypeOK /\ ChainTyped /\ Home /\ Secret /\ Whole /\ UnverifiedWhereExcepted

-----------------------------------------------------------------------------
LEMMA TrailOf ==
  ASSUME NEW h \in Seq(Hop), NEW u \in Urls, NEW trail,
         trail = [k \in 1 .. Len(h) |-> h[k].from] \o <<u>>
  PROVE  /\ Len(h) \in Nat /\ trail \in Seq(Urls) /\ Len(trail) = Len(h) + 1
         /\ \A k \in 1 .. Len(h) : trail[k] = h[k].from
         /\ trail[Len(h) + 1] = u
<1> DEFINE past == [k \in 1 .. Len(h) |-> h[k].from]
<1>1. Len(h) \in Nat
  BY LenProperties
<1>2. \A k \in 1 .. Len(h) : h[k] \in Hop
  BY ElementOfSeq
<1>3. \A k \in 1 .. Len(h) : past[k] \in Urls /\ past[k] = h[k].from
  BY <1>2 DEF Hop
<1>4. past \in Seq(Urls) /\ Len(past) = Len(h)
  BY <1>1, <1>3
<1>5. trail = past \o <<u>>
  OBVIOUS
<1> HIDE DEF past
<1> DEFINE one == <<u>>
<1>6. one \in Seq(Urls) /\ Len(one) = 1 /\ one[1] = u
  OBVIOUS
<1> HIDE DEF one
<1>7. /\ trail \in Seq(Urls) /\ Len(trail) = Len(past) + 1
      /\ \A k \in 1 .. Len(past) + 1 :
           trail[k] = IF k <= Len(past) THEN past[k] ELSE one[k - Len(past)]
  <2>2. /\ past \o one \in Seq(Urls) /\ Len(past \o one) = Len(past) + Len(one)
        /\ \A k \in 1 .. Len(past) + Len(one) :
             (past \o one)[k] = IF k <= Len(past) THEN past[k] ELSE one[k - Len(past)]
    BY <1>4, <1>6, ConcatProperties, ZenonT(40)
  <2>3. QED BY <1>6, <1>5, <2>2 DEF one
<1>10. QED BY <1>1, <1>3, <1>4, <1>6, <1>7

LEMMA TrailFacts ==
  ASSUME hops \in Seq(Hop), url \in Urls
  PROVE  /\ Len(hops) \in Nat /\ Trail \in Seq(Urls) /\ Len(Trail) = Len(hops) + 1
         /\ Trail[Len(hops) + 1] = url
BY TrailOf DEF Trail

\* A redirect that is followed adds the next URL to the trail.
LEMMA TrailGrows ==
  ASSUME hops \in Seq(Hop), url \in Urls, url' \in Urls, NEW status \in {301, 302, 303, 307},
         hops' = Append(hops, [from |-> url, status |-> status])
  PROVE  /\ hops' \in Seq(Hop) /\ Len(hops') = Len(hops) + 1
         /\ \A k \in 1 .. Len(hops) + 1 : Trail'[k] = Trail[k]
         /\ Trail'[Len(hops) + 2] = url'
<1> DEFINE n == Len(hops)
<1>2. /\ n \in Nat /\ hops' \in Seq(Hop) /\ Len(hops') = n + 1
      /\ \A k \in 1 .. n : hops'[k] = hops[k]
      /\ hops'[n + 1] = [from |-> url, status |-> status] BY DEF Hop
<1>3. /\ \A k \in 1 .. n : Trail[k] = hops[k].from
      /\ Trail[n + 1] = url
  BY TrailOf DEF Trail
<1>5. /\ \A k \in 1 .. n + 1 : Trail'[k] = hops'[k].from
      /\ Trail'[n + 1 + 1] = url' BY <1>2, TrailOf DEF Trail
<1> HIDE DEF n
<1>7. \A k \in 1 .. n + 1 : Trail'[k] = Trail[k]
  <2> SUFFICES ASSUME NEW k \in 1 .. n + 1 PROVE Trail'[k] = Trail[k]
    OBVIOUS
  <2>1. CASE k \in 1 .. n
    BY <1>2, <1>3, <1>5, <2>1
  <2>2. CASE k = n + 1
    BY <1>2, <1>3, <1>5, <2>2
  <2>3. QED BY <1>2, <2>1, <2>2
<1>9. QED BY <1>2, <1>5, <1>7 DEF n

-----------------------------------------------------------------------------
\* A step that leaves the request alone.
LEMMA RequestKept ==
  ASSUME HopInv, UNCHANGED <<first, request>>
  PROVE  Home' /\ Secret' /\ Whole'
  BY DEF HopInv, Home, Secret, Whole, request, Trail

LEMMA HopInit == ExchangeInit => HopInv
<1> SUFFICES ASSUME ExchangeInit PROVE HopInv
  OBVIOUS
<1>1. PICK u \in Urls, m \in Methods, b \in BOOLEAN :
        /\ first = [url |-> u, method |-> m, body |-> b]
        /\ url = u /\ method = m /\ body = b
        /\ headers = [credentials |-> TRUE, payload |-> b, referer |-> ExchangeNone]
  BY DEF ExchangeInit
<1>2. /\ exchangePhase = "ready" /\ hops = <<>> /\ exchangeClock = 0 /\ hopEnds = Timeout
      /\ client = ExchangeNone /\ used = {} /\ exchangeReceived = 0 /\ exchangeCancelled = FALSE
      /\ failure = ExchangeNone
  BY DEF ExchangeInit
<1>3. /\ MaxRedirects \in Nat /\ Timeout \in Nat /\ MaxBytes \in Nat
  BY ExchangeAssumption
<1>4. hops \in Seq(Hop) /\ Len(hops) = 0
  BY <1>2
<1>5. ExchangeTypeOK
  BY <1>1, <1>2, <1>3, <1>4 DEF ExchangeTypeOK
<1>6. ChainTyped
  BY <1>1, <1>2, <1>3, <1>4 DEF ChainTyped, HeaderSet
<1>11. QED
  BY <1>5, <1>6, <1>1, <1>4, TrailFacts, <1>2 DEF HopInv, Whole, Home, Secret, SameOrigin, UnverifiedWhereExcepted

\* The client is chosen by the URL of the hop, and never later than the deadline.
LEMMA HopSend == ASSUME HopInv, ExchangeSend PROVE HopInv'
<1>1. UNCHANGED <<first, request, exchangeClock, exchangeReceived, exchangeCancelled>>
      /\ UNCHANGED <<url, method, body, headers, hops>>
  BY DEF ExchangeSend, request
<1>2. Home' /\ Secret' /\ Whole'
  BY <1>1, RequestKept
<1>3. ASSUME NEW kind \in Failures, ExchangeFail(kind), UNCHANGED <<client, used, hopEnds>>
      PROVE  HopInv'
  <2>1. exchangePhase' = "failed" /\ failure' # ExchangeNone
    BY <1>3, ExchangeAssumption DEF ExchangeFail
  <2>5. QED BY <1>2, <1>1, <1>3, <2>1 DEF HopInv, ExchangeTypeOK, ChainTyped, UnverifiedWhereExcepted
<1>4. CASE /\ ~Late /\ SelectClient /\ hopEnds' = HopEnd
           /\ exchangePhase' = "sending" /\ UNCHANGED failure
           /\ exchangePhase = "ready"
  <2>1. \/ client' = "insecure" /\ (InsecureAll \/ Matching(url) # {})
        \/ client' = "verified"
    BY <1>4 DEF SelectClient
  <2>8. UnverifiedWhereExcepted'
    BY <1>1, <2>1, ExchangeAssumption DEF UnverifiedWhereExcepted, Matching
  <2>9. QED
    BY <1>2, <1>1, <1>4, <2>1, ExchangeAssumption, <2>8 DEF HopInv, ChainTyped, HopEnd, Late, ExchangeTypeOK,
       SelectClient, Recorded, Matching
<1>5. QED
  BY <1>3, <1>4 DEF ExchangeSend, Failures

\* A redirect is refused, or it rewrites the request for the next hop.
LEMMA HopRedirected == ASSUME HopInv, Redirected PROVE HopInv'
<1>1. /\ exchangePhase = "sending"
      /\ UNCHANGED <<first, exchangeClock, hopEnds, client, used, exchangeReceived, exchangeCancelled>>
  BY DEF Redirected
<1>2. PICK status \in {301, 302, 303, 307}, next \in Urls :
        \/ Decide(next) = "follow" /\ Follow(next, status)
        \/ Decide(next) # "follow" /\ ExchangeFail(Decide(next)) /\ UNCHANGED request
  BY DEF Redirected
<1>3. CASE Decide(next) # "follow" /\ ExchangeFail(Decide(next)) /\ UNCHANGED request
  <2>3. exchangePhase' = "failed" /\ failure' # ExchangeNone
    BY <1>3, ExchangeAssumption DEF ExchangeFail, Decide, Failures
  <2>6. QED BY <1>1, <1>3, RequestKept, <2>3 DEF HopInv, UnverifiedWhereExcepted, ExchangeTypeOK, ChainTyped, request
<1>4. CASE Decide(next) = "follow" /\ Follow(next, status)
  <2>1. /\ hops' = Append(hops, [from |-> url, status |-> status]) /\ url' = next
        /\ method' = IF method # "HEAD" /\ DropsPayload(status) THEN "GET" ELSE method
        /\ body' = (body /\ ~DropsPayload(status))
        /\ headers' = RewrittenHeaders(next, status)
        /\ exchangePhase' = "ready" /\ failure' = failure
    BY <1>4 DEF Follow
  <2>2. /\ hops \in Seq(Hop) /\ url \in Urls /\ url' \in Urls /\ Len(hops) \in Nat
        /\ headers \in HeaderSet /\ body \in BOOLEAN
    BY <2>1, TrailFacts DEF HopInv, ChainTyped, ExchangeTypeOK
  <2>3. /\ hops' \in Seq(Hop) /\ Len(hops') = Len(hops) + 1
        /\ \A k \in 1 .. Len(hops) + 1 : Trail'[k] = Trail[k]
        /\ Trail'[Len(hops) + 2] = next /\ Trail[Len(hops) + 1] = url
    BY <2>1, <2>2, TrailGrows, TrailFacts
  <2>4. ~(url.tls /\ ~next.tls /\ ~AllowDowngrade) /\ ~(Len(hops) >= MaxRedirects)
    BY <1>4 DEF Decide
  <2>6. Len(hops') <= MaxRedirects BY <2>2, <2>3, <2>4, ExchangeAssumption
  <2>7. headers' \in HeaderSet /\ headers'.payload \in BOOLEAN /\ body' \in BOOLEAN
    BY <2>1, <2>2 DEF RewrittenHeaders, HeaderSet
  <2>9. ExchangeTypeOK' BY <1>1, <2>1, <2>2, <2>6, <2>7 DEF HopInv, ExchangeTypeOK, Methods
  <2>10. ChainTyped'
    BY <1>1, <2>1, <2>3, <2>7 DEF HopInv, ChainTyped
  <2>12. Home'
    <3> SUFFICES ASSUME headers'.credentials = TRUE, NEW k \in 1 .. Len(hops') + 1
                 PROVE  SameOrigin(Trail'[k], first.url)
      BY <1>1 DEF Home
    <3>1. headers.credentials = TRUE /\ SameOrigin(url, next)
      BY <2>1, <2>2 DEF RewrittenHeaders, CrossHost, HeaderSet
    <3>2. \A m \in 1 .. Len(hops) + 1 : SameOrigin(Trail[m], first.url)
      BY <3>1 DEF HopInv, Home
    <3>4. QED BY <2>3, <2>2, <3>2, <3>1 DEF SameOrigin
  <2>13. Secret'
    <3> SUFFICES ASSUME AllowDowngrade = FALSE, NEW k \in 1 .. Len(hops'), Trail'[k].tls = TRUE
                 PROVE  Trail'[k + 1].tls = TRUE
      BY DEF Secret
    <3>1. CASE k \in 1 .. Len(hops) BY <3>1, <2>3, <2>2 DEF HopInv, Secret
    <3>2. CASE k = Len(hops) + 1 BY <2>4, <2>3, <3>2, <2>2 DEF Urls
    <3>3. k \in 1 .. Len(hops) \/ k = Len(hops) + 1 BY <2>2, <2>3
    <3>4. QED
      BY <3>1, <3>2, <3>3
  <2>14. Whole' BY <1>1, <2>1, <2>2 DEF Whole, RewrittenHeaders, HopInv
  <2>16. QED BY <2>9, <2>10, <2>12, <2>13, <2>14, <2>1 DEF HopInv, UnverifiedWhereExcepted
<1>5. QED
  BY <1>2, <1>3, <1>4

\* The answer, the body, failures, cancellation and time.
LEMMA HopOther ==
  ASSUME HopInv, ExchangeAnswered \/ Chunk \/ Complete \/ Broken \/ GiveUp \/ ExchangeCancel
                   \/ ExchangeTick \/ UNCHANGED exchangeVars
  PROVE  HopInv'
<1>1. UNCHANGED <<first, request, hopEnds, client, used>>
      /\ UNCHANGED <<url, method, body, headers, hops>>
  BY DEF ExchangeAnswered, Chunk, Complete, Broken, GiveUp, ExchangeCancel, ExchangeTick,
         exchangeVars, request
<1>3. /\ exchangePhase' \in {exchangePhase, "reading", "done", "failed"}
      /\ exchangePhase' = "reading" => exchangePhase \in {"sending", "reading"}
      /\ (failure' # ExchangeNone <=> exchangePhase' = "failed")
  <2>1. failure # ExchangeNone <=> exchangePhase = "failed"
    BY DEF HopInv, ExchangeTypeOK
  <2>2. \A kind \in Failures : kind # ExchangeNone
    BY ExchangeAssumption
  <2>3. QED
    BY <2>1, <2>2 DEF ExchangeAnswered, Chunk, TakeChunk, Complete, Broken, GiveUp, ExchangeFail,
       ExchangeCancel, ExchangeTick, exchangeVars, Failures
<1>4. exchangeReceived' \in Nat /\ exchangeReceived' <= MaxBytes
  <2>1. exchangeReceived \in Nat /\ exchangeReceived <= MaxBytes /\ MaxBytes \in Nat
    BY ExchangeAssumption DEF HopInv, ExchangeTypeOK, ChainTyped
  <2>2. CASE Chunk
    <3>1. PICK n \in 1 .. MaxBytes + 1 : TakeChunk(n)
      BY <2>2 DEF Chunk
    <3>3. QED BY <2>1, <3>1 DEF TakeChunk
  <2>3. CASE ~Chunk
    BY <2>1, <2>3 DEF ExchangeAnswered, Complete, Broken, GiveUp, ExchangeCancel, ExchangeTick, exchangeVars
  <2>4. QED
    BY <2>2, <2>3
<1>5. exchangeClock' \in Nat
      /\ (exchangePhase' \in {"sending", "reading"} => exchangeClock' <= Timeout)
  <2>1. /\ exchangeClock \in Nat /\ Timeout \in Nat /\ hopEnds = Timeout
        /\ exchangePhase \in {"sending", "reading"} => exchangeClock <= Timeout
    BY ExchangeAssumption DEF HopInv, ChainTyped
  <2>2. CASE ExchangeTick BY <2>1, <2>2 DEF ExchangeTick
  <2>3. CASE ~ExchangeTick
    BY <1>3, <2>1, <2>3 DEF ExchangeAnswered, Chunk, Complete, Broken, GiveUp, ExchangeCancel, exchangeVars
  <2>4. QED
    BY <2>2, <2>3
<1>8. UnverifiedWhereExcepted'
  BY <1>1, <1>3 DEF HopInv, UnverifiedWhereExcepted, Matching, EffectivePort
<1>9. QED BY <1>1, RequestKept, <1>3, <1>4, <1>5, <1>8 DEF HopInv, ExchangeTypeOK, ChainTyped

LEMMA HopHolds == ExchangeSpec => []HopInv
<1>1. HopInv /\ [ExchangeNext]_exchangeVars => HopInv'
  BY HopSend, HopRedirected, HopOther DEF ExchangeNext
<1>2. QED
  BY <1>1, HopInit, PTL DEF ExchangeSpec

\* Whatever the redirects, the entries that are excepted and the limits, each hop
\* sends what it may: the credentials only home, nothing in plain text after TLS,
\* the payload whole or not at all, a certificate unchecked only where this hop's
\* own URL is excepted, by one deadline and within one limit (HttpClient::request).
THEOREM HopsAreSafe == ExchangeSpec => []EveryHopIsSafe
<1>1. HopInv => EveryHopIsSafe
  <2> SUFFICES ASSUME HopInv PROVE EveryHopIsSafe
    OBVIOUS
  <2>1. /\ Len(hops) \in Nat /\ Trail \in Seq(Urls) /\ Len(Trail) = Len(hops) + 1
        /\ headers \in HeaderSet /\ body \in BOOLEAN
    BY TrailFacts DEF HopInv, ChainTyped, ExchangeTypeOK
  <2>2. DOMAIN Trail = 1 .. Len(hops) + 1 /\ \A k \in DOMAIN Trail : Trail[k] \in Urls
    BY <2>1
  <2>4. NeverDowngrades BY <2>2, ExchangeAssumption, <2>1 DEF NeverDowngrades, HopInv, Secret, Urls
  <2>6. WithinDeadline /\ BodyWithinLimit
    BY DEF WithinDeadline, BodyWithinLimit, HopInv, ChainTyped
  <2>7. QED
    BY <2>2, <2>1, <2>4, <2>6 DEF EveryHopIsSafe, HopInv, PayloadIsWhole, Whole, CredentialsStayHome, Home, ToSet,
       HeaderSet
<1>2. QED
  BY <1>1, HopHolds, PTL

-----------------------------------------------------------------------------
(***************************************************************************)
(* The invariant.  Compilations are numbered without gaps, so that the     *)
(* number of a later one is fresh; a task that is about to publish holds a *)
(* compilation of its pattern, whatever the others published since its     *)
(* lookup.                                                                 *)
(***************************************************************************)
Numbered == \E n \in Nat : DOMAIN compiled = 1 .. n

CacheTask == [at : {"idle", "miss", "publish", "done"}, pattern : Patterns \union {0}, result : Nat]

Holds(all, n, p) == n \in DOMAIN all /\ all[n] = p

CacheInv ==
  /\ task \in [Tasks -> CacheTask] /\ Numbered
  /\ IsFiniteSet(DOMAIN cache) /\ RetainedBounded
  /\ \A p \in DOMAIN cache : Holds(compiled, cache[p], p)
  /\ \A t \in Tasks :
       /\ task[t].at \in {"publish", "done"} => Holds(compiled, task[t].result, task[t].pattern)
       /\ task[t].at = "publish" => task[t].pattern \notin Long

LEMMA CacheInvInit == CacheInit => CacheInv
<1> SUFFICES ASSUME CacheInit PROVE CacheInv
  OBVIOUS
<1>1. /\ DOMAIN cache = {} /\ DOMAIN compiled = {}
      /\ task = [t \in Tasks |-> [at |-> "idle", pattern |-> 0, result |-> 0]]
  BY DEF CacheInit, Idle
<1>7. QED BY <1>1, FS_EmptySet, CacheAssumption DEF CacheInv, CacheTask, Numbered, RetainedBounded

\* A task is given t's record; the cache and the compilations stay.
LEMMA TaskMoves ==
  ASSUME CacheInv, NEW t \in Tasks, NEW r \in CacheTask, task' = [task EXCEPT ![t] = r],
         UNCHANGED <<cache, compiled>>,
         r.at \in {"publish", "done"} => Holds(compiled, r.result, r.pattern),
         r.at = "publish" => r.pattern \notin Long
  PROVE  CacheInv'
  BY DEF CacheInv, Numbered, RetainedBounded

LEMMA InvLookup ==
  ASSUME CacheInv, NEW t \in Tasks, NEW p \in Patterns, Lookup(t, p)
  PROVE  CacheInv'
<1>1. UNCHANGED <<cache, compiled>>
  BY DEF Lookup
<1>2. CASE p \notin Long /\ p \in DOMAIN cache
  <2> DEFINE r == [at |-> "done", pattern |-> p, result |-> cache[p]]
  <2>2. r \in CacheTask /\ Holds(compiled, r.result, r.pattern) /\ r.at # "publish"
    BY <1>2 DEF CacheTask, CacheInv, Numbered, Holds
  <2>3. task' = [task EXCEPT ![t] = r]
    BY <1>2 DEF Lookup
  <2> HIDE DEF r
  <2>4. QED
    BY <1>1, <2>2, <2>3, TaskMoves
<1>3. CASE ~(p \notin Long /\ p \in DOMAIN cache)
  <2> DEFINE r == [at |-> "miss", pattern |-> p, result |-> 0]
  <2>1. r \in CacheTask /\ r.at = "miss"
    BY DEF CacheTask
  <2>2. task' = [task EXCEPT ![t] = r]
    BY <1>3 DEF Lookup
  <2> HIDE DEF r
  <2>3. QED
    BY <1>1, <2>1, <2>2, TaskMoves
<1>4. QED
  BY <1>2, <1>3

LEMMA InvReturn == ASSUME CacheInv, NEW t \in Tasks, Return(t) PROVE CacheInv'
  BY TaskMoves DEF Return, Idle, CacheTask

\* The new compilation has a number of its own.
LEMMA InvCompile == ASSUME CacheInv, NEW t \in Tasks, Compile(t) PROVE CacheInv'
<1>1. PICK m \in Nat : DOMAIN compiled = 1 .. m
  BY DEF CacheInv, Numbered
<1>2. Cardinality(1 .. m) = m
  BY FS_Interval
<1> DEFINE n == m + 1
           p == task[t].pattern
           goes == IF p \in Long THEN "done" ELSE "publish"
<1>3. /\ task[t].at = "miss" /\ cache' = cache
      /\ compiled' = [k \in 1 .. n |-> IF k = n THEN p ELSE compiled[k]]
      /\ task' = [task EXCEPT ![t].result = n, ![t].at = goes]
  BY <1>1, <1>2 DEF Compile
<1>5. /\ task' \in [Tasks -> CacheTask]
      /\ task'[t].at = goes /\ task'[t].pattern = p /\ task'[t].result = n
      /\ \A s \in Tasks : s # t => task'[s] = task[s] BY <1>3 DEF CacheTask, CacheInv
<1>6. Holds(compiled', n, p) /\ \A k, q : Holds(compiled, k, q) => Holds(compiled', k, q)
  <2>1. n \in 1 .. n /\ \A k \in 1 .. m : k \in 1 .. n /\ k # n
    BY <1>1
  <2>3. ASSUME NEW k, NEW q, Holds(compiled, k, q) PROVE Holds(compiled', k, q)
    BY <1>1, <1>3, <2>1, <2>3 DEF Holds
  <2>4. QED BY <1>3, <2>1, <2>3 DEF Holds
<1>7. Numbered'
  BY <1>1, <1>3 DEF Numbered
<1>8. \A s \in Tasks :
        /\ task'[s].at \in {"publish", "done"} => Holds(compiled', task'[s].result, task'[s].pattern)
        /\ task'[s].at = "publish" => task'[s].pattern \notin Long
  BY <1>3, <1>5, <1>6, SMTT(20) DEF CacheInv
<1>9. QED
  BY <1>3, <1>5, <1>6, <1>7, <1>8 DEF CacheInv, RetainedBounded

\* What a publication leaves: the pattern is retained, the others stay or go.
LEMMA Published ==
  ASSUME CacheInv, NEW t \in Tasks, Publish(t)
  PROVE  LET p == task[t].pattern IN
         /\ p \in DOMAIN cache' /\ p \notin Long
         /\ task' = [task EXCEPT ![t].at = "done", ![t].result = cache'[p]]
         /\ compiled' = compiled
         /\ Holds(compiled, cache'[p], p)
         /\ \A q \in DOMAIN cache' : q # p => q \in DOMAIN cache /\ cache'[q] = cache[q]
         /\ p \in DOMAIN cache => cache' = cache
         /\ \/ DOMAIN cache \subseteq DOMAIN cache'
            \/ Cardinality(DOMAIN cache) = Capacity /\ p \notin DOMAIN cache
         /\ IsFiniteSet(DOMAIN cache') /\ Cardinality(DOMAIN cache') <= Capacity
<1> DEFINE p == task[t].pattern
           n == task[t].result
<1>1. /\ task[t].at = "publish" /\ compiled' = compiled
      /\ cache' = IF p \in DOMAIN cache THEN cache
                  ELSE IF Cardinality(DOMAIN cache) = Capacity THEN SingleEntry(p, n)
                  ELSE Retain(cache, p, n)
      /\ task' = [task EXCEPT ![t].at = "done", ![t].result = cache'[p]]
  BY DEF Publish
<1>2. Holds(compiled, n, p) /\ p \notin Long /\ \A q \in DOMAIN cache : Holds(compiled, cache[q], q)
  BY <1>1 DEF CacheInv
<1>3. /\ IsFiniteSet(DOMAIN cache) /\ Cardinality(DOMAIN cache) <= Capacity
      /\ Cardinality(DOMAIN cache) \in Nat /\ Capacity \in Nat \ {0}
  BY FS_CardinalityType, CacheAssumption DEF CacheInv, RetainedBounded
<1> HIDE DEF p, n
<1>4. CASE p \in DOMAIN cache
  BY <1>1, <1>2, <1>3, <1>4 DEF p
<1>5. CASE p \notin DOMAIN cache /\ Cardinality(DOMAIN cache) = Capacity
  <2>3. 1 <= Capacity
    BY <1>3
  <2>4. QED BY <1>1, <1>2, <1>5, FS_Singleton, <2>3 DEF p, SingleEntry
<1>6. CASE p \notin DOMAIN cache /\ Cardinality(DOMAIN cache) # Capacity
  <2>2. /\ IsFiniteSet(DOMAIN cache \union {p})
        /\ Cardinality(DOMAIN cache \union {p}) = Cardinality(DOMAIN cache) + 1
    BY <1>3, <1>6, FS_AddElement
  <2>4. QED BY <1>1, <1>2, <1>6, <2>2, <1>3 DEF p, Retain
<1>7. QED
  BY <1>4, <1>5, <1>6

LEMMA InvPublish == ASSUME CacheInv, NEW t \in Tasks, Publish(t) PROVE CacheInv'
<1> DEFINE p == task[t].pattern
<1>1. /\ p \in DOMAIN cache' /\ p \notin Long
      /\ task' = [task EXCEPT ![t].at = "done", ![t].result = cache'[p]]
      /\ compiled' = compiled /\ Holds(compiled, cache'[p], p)
      /\ \A q \in DOMAIN cache' : q # p => q \in DOMAIN cache /\ cache'[q] = cache[q]
      /\ IsFiniteSet(DOMAIN cache') /\ Cardinality(DOMAIN cache') <= Capacity
  BY Published
<1>3. cache'[p] \in Nat
  BY <1>1 DEF Holds, CacheInv, Numbered
<1>4. /\ task' \in [Tasks -> CacheTask]
      /\ task'[t].at = "done" /\ task'[t].pattern = p /\ task'[t].result = cache'[p]
      /\ \A s \in Tasks : s # t => task'[s] = task[s] BY <1>1, <1>3 DEF CacheTask, CacheInv
<1> HIDE DEF p
<1>9. DOMAIN cache' \intersect Long = {}
  BY <1>1 DEF CacheInv, RetainedBounded
<1>10. QED BY <1>1, <1>4, <1>9 DEF CacheInv, RetainedBounded, Numbered

LEMMA CacheInvNext == ASSUME CacheInv, [CacheNext]_cacheVars PROVE CacheInv'
<1>1. CASE UNCHANGED cacheVars
  BY <1>1 DEF CacheInv, cacheVars, Numbered, RetainedBounded, Holds
<1>2. QED
  BY <1>1, InvLookup, InvCompile, InvPublish, InvReturn DEF CacheNext

-----------------------------------------------------------------------------
\* Nothing but a publication touches the cache.
LEMMA OthersKeep ==
  ASSUME CacheNext, ~\E t \in Tasks : Publish(t)
  PROVE  cache' = cache
BY DEF CacheNext, Lookup, Compile, Return

\* What a task is given, when it was not given it before, is the retained compilation.
LEMMA GivenIsRetained ==
  ASSUME CacheInv, CacheNext, NEW t \in Tasks, task'[t].at = "done", task[t].at # "done",
         task'[t].pattern \notin Long
  PROVE  task'[t].pattern \in DOMAIN cache' /\ cache'[task'[t].pattern] = task'[t].result
<1>1. task \in [Tasks -> CacheTask]
  BY DEF CacheInv
<1>2. PICK s \in Tasks : \/ \E p \in Patterns : Lookup(s, p)
                         \/ Compile(s) \/ Publish(s) \/ Return(s)
  BY DEF CacheNext
<1>4. CASE \E p \in Patterns : Lookup(t, p)
  BY <1>1, <1>4 DEF Lookup
<1>5. CASE Compile(t)
  BY <1>1, <1>5 DEF Compile, CacheTask
<1>6. CASE Publish(t)
  <2>1. /\ task[t].pattern \in DOMAIN cache'
        /\ task' = [task EXCEPT ![t].at = "done", ![t].result = cache'[task[t].pattern]]
    BY <1>6, Published
  <2>3. QED BY <2>1, <1>1 DEF CacheTask
<1>7. CASE Return(t)
  BY <1>1, <1>7 DEF Return, Idle
<1>8. QED BY <1>2, <1>1, <1>4, <1>5, <1>6, <1>7 DEF Lookup, Compile, Publish, Return

\* However the steps of an engine race for its patterns, and whatever the capacity,
\* the cache stays within it, evicts only for a new pattern, and gives all who ask
\* for a pattern it retains one compilation of it (RegexCache::get_or_compile).
THEOREM CompilationsShared == CacheSpec => CompilationsAreShared
<1>1. CacheInit => CacheInv
  BY CacheInvInit
<1>2. CacheInv /\ [CacheNext]_cacheVars => CacheInv'
  BY CacheInvNext
<1>3. CacheInv => RetainedBounded /\ OwnPattern
  BY DEF CacheInv, OwnPattern, Holds
<1>4. ASSUME CacheInv, [CacheNext]_cacheVars
      PROVE  [/\ \A p \in DOMAIN cache \intersect DOMAIN cache' : cache'[p] = cache[p]
              /\ ~(DOMAIN cache \subseteq DOMAIN cache') =>
                   Cardinality(DOMAIN cache) = Capacity
                     /\ ~(DOMAIN cache' \subseteq DOMAIN cache)]_cacheVars
  <2>1. CASE \E t \in Tasks : Publish(t)
    <3>1. PICK t \in Tasks : Publish(t)
      BY <2>1
    <3> DEFINE p == task[t].pattern
    <3> HIDE DEF p
    <3>3. QED BY <1>4, <3>1, Published
  <2>2. CASE CacheNext /\ ~\E t \in Tasks : Publish(t)
    BY <2>2, OthersKeep
  <2>3. QED
    BY <1>4, <2>1, <2>2
<1>5. ASSUME CacheInv, [CacheNext]_cacheVars
      PROVE  [\A t \in Tasks :
                task'[t].at = "done" /\ task[t].at # "done" /\ task'[t].pattern \notin Long =>
                  task'[t].pattern \in DOMAIN cache'
                    /\ cache'[task'[t].pattern] = task'[t].result]_cacheVars
  BY <1>5, GivenIsRetained
<1>6. QED
  BY <1>1, <1>2, <1>3, <1>4, <1>5, PTL
     DEF CacheSpec, CompilationsAreShared, OnlyNewPatternsEvict, OneResultShared

-----------------------------------------------------------------------------
(***************************************************************************)
(* The receive channel.  A record is taken at the offset a fetch was asked *)
(* for, long before; that this is still the cursor follows from the locks, *)
(* and that there is a cursor from what a workflow is armed for.  So the   *)
(* invariant says who holds a lock, what a fetch waits for, which topics   *)
(* are armed at each stage, and what a pass has read so far.               *)
(***************************************************************************)
ReceivePc == {"idle", "locking", "holding", "fetching", "received"} \union Errors
AttemptState == [pc : ReceivePc, expired : BOOLEAN, fetch : [part : Nat, offset : Nat]]

ByPartition(f) ==
  /\ f = [t \in Topics |-> f[t]]
  /\ \A t \in Topics : f[t] = [p \in Partitions(t) |-> f[t][p]]

ReceiveTyped ==
  /\ stage \in {"entering", "arming", "running", "ended"}
  /\ entry \in DOMAIN Entries /\ level \in 1 .. Len(Entries[entry].levels) + 1
  /\ pass \in [at : Nat \ {0}, found : BOOLEAN, read : Seq(Nat), spent : BOOLEAN]
  /\ att \in [Steps -> AttemptState] /\ lockHolder \in [Topics -> Steps \union {NoStep}]
  /\ cursor \in [Topics -> Seq(Nat)] /\ start \in [Topics -> Seq(Nat)] /\ turn \in [Topics -> Nat]
  /\ before = [t \in Topics |-> before[t]] /\ ByPartition(log) /\ ByPartition(taken)
  /\ \A t \in Topics : \A p \in Partitions(t) : log[t][p] \in Seq(Kinds)

Locks ==
  /\ \A t \in Topics : lockHolder[t] # NoStep => TopicOf[lockHolder[t]] = t /\ Armed(t)
  /\ \A s \in Steps : att[s].pc \in {"holding", "fetching"} <=> lockHolder[TopicOf[s]] = s

Working ==
  \A s \in Steps :
    /\ att[s].pc # "idle" => s \in Level /\ stage \notin {"entering", "arming"}
    /\ att[s].pc \notin {"internal", "unsupported"}
    /\ Active(s) => Armed(TopicOf[s])
    /\ att[s].pc = "fetching" =>
         /\ att[s].fetch.part \in Partitions(TopicOf[s])
         /\ att[s].fetch.offset = cursor[TopicOf[s]][att[s].fetch.part]

ArmedBefore(n) == \A k \in DOMAIN Receivers : k < n => Armed(TopicOf[Receivers[k]])

Prepared ==
  /\ stage \in {"arming", "running"} => Admitted
  /\ stage = "arming" => mode = "live" /\ ArmedBefore(pass.at)
  /\ stage = "running" /\ mode = "live" => ArmedBefore(Len(Receivers) + 1)
  /\ OnlyLiveConnects

Reading ==
  stage = "arming" /\ pass.found = TRUE =>
    /\ pass.at <= Len(Receivers) /\ ~Armed(Target) /\ PartitionCount[Target] # 0
    /\ Len(pass.read) <= PartitionCount[Target]
    /\ \A p \in Partitions(Target) :
         before[Target][p] \in Nat /\ before[Target][p] <= Len(log[Target][p])
    /\ \A p \in DOMAIN pass.read :
         before[Target][p] <= pass.read[p] /\ pass.read[p] <= Len(log[Target][p])

\* The offsets from one on to the next, in order.
Offsets(from, next) == [k \in 1 .. next - from |-> from + k - 1]

Book(t) ==
  /\ ~Armed(t) => \A p \in Partitions(t) : taken[t][p] = <<>>
  /\ Armed(t) =>
       /\ Len(cursor[t]) = PartitionCount[t] /\ Len(start[t]) = PartitionCount[t]
       /\ turn[t] \in Partitions(t)
       /\ \A p \in Partitions(t) :
            /\ before[t][p] <= start[t][p] /\ start[t][p] <= Len(log[t][p])
            /\ start[t][p] <= cursor[t][p]
            /\ taken[t][p] = Offsets(start[t][p], cursor[t][p])

Books == \A t \in Topics : Book(t)

ReceiveInv == ReceiveTyped /\ Locks /\ Working /\ Prepared /\ Reading /\ Books

\* Updating one partition of one topic changes nothing else.
Updated(f, t, p, v) == [f EXCEPT ![t][p] = v]

LEMMA PartitionUpdated ==
  ASSUME NEW f, ByPartition(f), NEW t \in Topics, NEW p \in Partitions(t), NEW v,
         NEW g, g = Updated(f, t, p, v)
  PROVE  /\ ByPartition(g)
         /\ \A t2 \in Topics : \A p2 \in Partitions(t2) :
              g[t2][p2] = IF t2 = t /\ p2 = p THEN v ELSE f[t2][p2]
         /\ \A t2 \in Topics : t2 # t => g[t2] = f[t2]
<1> DEFINE row == [f[t] EXCEPT ![p] = v]
<1>1. g = [f EXCEPT ![t] = row]
  BY DEF Updated
<1>2. f = [t2 \in Topics |-> f[t2]] /\ f[t] = [p2 \in Partitions(t) |-> f[t][p2]]
  BY DEF ByPartition
<1>3. row = [p2 \in Partitions(t) |-> IF p2 = p THEN v ELSE f[t][p2]]
  BY <1>2
<1> HIDE DEF row
<1>4. g = [t2 \in Topics |-> IF t2 = t THEN row ELSE f[t2]]
  BY <1>1, <1>2
<1>5. g[t] = row /\ \A t2 \in Topics : t2 # t => g[t2] = f[t2]
  BY <1>4
<1>6. ASSUME NEW t2 \in Topics PROVE g[t2] = [p2 \in Partitions(t2) |-> g[t2][p2]]
  <2>1. CASE t2 = t
    BY <2>1, <1>5, <1>3
  <2>2. CASE t2 # t
    BY <2>2, <1>5 DEF ByPartition
  <2> QED BY <2>1, <2>2
<1>9. ASSUME NEW t2 \in Topics, NEW p2 \in Partitions(t2)
      PROVE  g[t2][p2] = IF t2 = t /\ p2 = p THEN v ELSE f[t2][p2]
  <2>1. CASE t2 = t
    BY <2>1, <1>5, <1>3
  <2>2. CASE t2 # t
    BY <2>2, <1>5
  <2> QED BY <2>1, <2>2
<1> QED BY <1>5, <1>6, <1>4, <1>9 DEF ByPartition

LEMMA EntriesTyped ==
  ASSUME NEW e \in DOMAIN Entries
  PROVE  /\ Entries[e].receivers \in Seq(Steps) /\ Entries[e].levels \in Seq(SUBSET Steps)
         /\ Len(Entries[e].levels) \in Nat
<1> DEFINE Workflow == [receivers : Seq(Steps), levels : Seq(SUBSET Steps)]
<1>1. Entries \in Seq(Workflow)
  BY EntriesAssumption
<1> HIDE DEF Workflow
<1>2. Entries[e] \in Workflow
  BY <1>1
<1> USE DEF Workflow
<1> QED BY <1>2

\* The receive steps of the workflow and its levels.
LEMMA ReceiversTyped ==
  ASSUME ReceiveTyped
  PROVE  /\ Receivers \in Seq(Steps) /\ Len(Receivers) \in Nat /\ DOMAIN Receivers = 1 .. Len(Receivers)
         /\ Level \subseteq {Receivers[k] : k \in DOMAIN Receivers}
         /\ \A k \in DOMAIN Receivers : Receivers[k] \in Steps /\ TopicOf[Receivers[k]] \in Topics
<1>1. entry \in DOMAIN Entries
  BY DEF ReceiveTyped
<1>2. Receivers \in Seq(Steps)
  BY <1>1, EntriesTyped DEF Receivers
<1> QED BY <1>2, <1>1, EntriesAssumption, ElementOfSeq, ReceiveAssumption DEF Level, Receivers

-----------------------------------------------------------------------------
(***************************************************************************)
(* What a step of the system leaves alone stays true.                      *)
(***************************************************************************)
LEMMA LocksStay ==
  ASSUME Locks, UNCHANGED <<lockHolder, att, cursor>>
  PROVE  Locks'
BY DEF Locks, Armed

LEMMA WorkingStays ==
  ASSUME Working, UNCHANGED <<att, stage, entry, level, cursor>>
  PROVE  Working'
BY DEF Working, Level, Active, Armed

LEMMA PreparedStays ==
  ASSUME Prepared, UNCHANGED <<stage, mode, refused, entry, pass, clients, cursor>>
  PROVE  Prepared'
BY DEF Prepared, Admitted, Receivers, ArmedBefore, Armed, OnlyLiveConnects

LEMMA ReadingStays ==
  ASSUME Reading, UNCHANGED <<stage, entry, pass, cursor, before, log>>
  PROVE  Reading'
BY DEF Reading, Target, Receivers, Armed

LEMMA BooksStay ==
  ASSUME Books, UNCHANGED <<cursor, start, turn, before, taken, log>>
  PROVE  Books'
BY DEF Books, Book, Armed

-----------------------------------------------------------------------------
LEMMA ReceiveInvInit == ReceiveInit => ReceiveInv
<1> SUFFICES ASSUME ReceiveInit PROVE ReceiveInv
  OBVIOUS
<1>1. ReceiveTyped
  <2>3. <<>> \in Seq(Nat) /\ <<>> \in Seq(Kinds)
    OBVIOUS
  <2>5. pass \in [at : Nat \ {0}, found : BOOLEAN, read : Seq(Nat), spent : BOOLEAN]
    BY <2>3 DEF ReceiveInit
  <2>6. cursor \in [Topics -> Seq(Nat)] /\ start \in [Topics -> Seq(Nat)] /\ turn \in [Topics -> Nat]
    BY <2>3 DEF ReceiveInit
  <2>7. \A t \in Topics : \A p \in Partitions(t) : log[t][p] \in Seq(Kinds)
    BY <2>3 DEF ReceiveInit
  <2> QED
    BY EntriesAssumption, EntriesTyped, <2>5, <2>6, <2>7 DEF ReceiveInit, ReceiveTyped, ByPartition, AttemptState,
       Attempt, NoFetch, ReceivePc
<1>2. \A t \in Topics : ~Armed(t)
  BY DEF ReceiveInit, Armed
<1>4. Prepared /\ Reading
  BY <1>2 DEF ReceiveInit, Prepared, Reading, OnlyLiveConnects
<1> QED
  BY <1>1, ReceiveAssumption, <1>4, <1>2 DEF ReceiveInv, ReceiveInit, Locks, Working, Active, Attempt, Books, Book

(***************************************************************************)
(* The environment.                                                        *)
(***************************************************************************)
LEMMA ProduceKeeps ==
  ASSUME ReceiveInv, NEW t \in Topics, NEW p \in Partitions(t), NEW kind \in Kinds,
         Produce(t, p, kind)
  PROVE  ReceiveInv'
<1> USE DEF ReceiveInv
<1>1. /\ log' = Updated(log, t, p, Append(log[t][p], kind))
      /\ UNCHANGED <<low, runVars, passVars, cursorVars, stepVars>>
  BY DEF Produce, Updated
<1>2. UNCHANGED <<stage, mode, refused, entry, level, pass, clients, start, before, cursor, turn,
                  lockHolder, taken, att>>
  BY <1>1 DEF runVars, passVars, cursorVars, stepVars
<1>3. /\ ByPartition(log')
      /\ \A t2 \in Topics : \A p2 \in Partitions(t2) :
           log'[t2][p2] = IF t2 = t /\ p2 = p THEN Append(log[t][p], kind) ELSE log[t2][p2]
  BY <1>1, PartitionUpdated DEF ReceiveTyped
<1>5. Append(log[t][p], kind) \in Seq(Kinds) /\ Len(Append(log[t][p], kind)) = Len(log[t][p]) + 1 BY DEF ReceiveTyped
<1>6. \A t2 \in Topics : \A p2 \in Partitions(t2) :
        /\ Len(log[t2][p2]) \in Nat /\ Len(log'[t2][p2]) \in Nat
        /\ Len(log[t2][p2]) <= Len(log'[t2][p2]) /\ log'[t2][p2] \in Seq(Kinds)
  <2> TAKE t2 \in Topics
  <2> TAKE p2 \in Partitions(t2)
  <2>1. log[t2][p2] \in Seq(Kinds)
    BY DEF ReceiveTyped
  <2>2. Len(log[t2][p2]) \in Nat
    BY <2>1
  <2>3. CASE t2 = t /\ p2 = p
    <3>1. log'[t2][p2] = Append(log[t][p], kind)
      BY <2>3, <1>3
    <3> QED BY <3>1, <1>5, <2>3, <2>2
  <2>4. CASE ~(t2 = t /\ p2 = p) BY <2>4, <1>3, <2>1, <2>2
  <2> QED BY <2>3, <2>4
<1>8. Locks' /\ Working' /\ Prepared'
  BY <1>2, LocksStay, WorkingStays, PreparedStays
<1>9. Reading'
  <2> SUFFICES ASSUME stage = "arming" /\ pass.found = TRUE PROVE Reading'
    BY <1>2 DEF Reading
  <2>1. /\ pass.at <= Len(Receivers) /\ ~Armed(Target) /\ PartitionCount[Target] # 0
        /\ Len(pass.read) <= PartitionCount[Target]
        /\ \A p2 \in Partitions(Target) :
             before[Target][p2] \in Nat /\ before[Target][p2] <= Len(log[Target][p2])
        /\ \A p2 \in DOMAIN pass.read :
             before[Target][p2] <= pass.read[p2] /\ pass.read[p2] <= Len(log[Target][p2])
    BY DEF Reading
  <2>2. Target \in Topics /\ Target' = Target /\ pass.read \in Seq(Nat) /\ PartitionCount[Target] \in Nat
    <3>2. Target \in Topics BY <2>1, ReceiversTyped DEF Target, ReceiveTyped
    <3> QED BY <3>2, <1>2, ReceiveAssumption DEF Target, Receivers, ReceiveTyped
  <2> DEFINE tgt == Target
  <2>4. /\ \A p2 \in Partitions(tgt) : before[tgt][p2] \in Nat /\ before[tgt][p2] <= Len(log'[tgt][p2])
        /\ \A p2 \in DOMAIN pass.read :
             before[tgt][p2] <= pass.read[p2] /\ pass.read[p2] <= Len(log'[tgt][p2])
    <3>1. \A p2 \in DOMAIN pass.read : pass.read[p2] \in Nat
      BY <2>2
    <3>2. /\ tgt \in Topics /\ DOMAIN pass.read \subseteq Partitions(tgt)
          /\ \A p2 \in Partitions(tgt) : before[tgt][p2] \in Nat /\ before[tgt][p2] <= Len(log[tgt][p2])
          /\ \A p2 \in DOMAIN pass.read :
               before[tgt][p2] <= pass.read[p2] /\ pass.read[p2] <= Len(log[tgt][p2]) BY <2>1, <2>2 DEF Partitions
    <3> HIDE DEF tgt
    <3> QED BY <3>1, <3>2, <1>6
  <2> QED BY <2>1, <2>2, <2>4, <1>2 DEF Reading, Receivers, Armed
<1>10. Books'
  <2> SUFFICES ASSUME NEW t2 \in Topics PROVE Book(t2)'
    BY DEF Books
  <2>1. Book(t2) /\ start[t2] \in Seq(Nat) /\ PartitionCount[t2] \in Nat
    BY ReceiveAssumption DEF Books, ReceiveTyped
  <2>2. Armed(t2) => \A p2 \in Partitions(t2) : start[t2][p2] \in Nat
    BY <2>1 DEF Book, Partitions
  <2> QED BY <1>2, <1>6, <2>1, <2>2, SMTT(20) DEF Book, Armed
<1> QED BY <1>2, <1>3, <1>6, <1>8, <1>9, <1>10 DEF ReceiveTyped, ByPartition

\* Neither what the broker trims, nor the token, nor a deadline is looked at here.
LEMMA EnvironmentKeeps ==
  ASSUME ReceiveInv,
         \/ \E t \in Topics : \E p \in Partitions(t) : Trim(t, p)
         \/ \E why \in {"cancelled", "timeout"} : FireToken(why)
  PROVE  ReceiveInv'
<1>1. UNCHANGED <<log, stage, mode, refused, entry, level, pass, clients, start, before, cursor,
                  turn, lockHolder, taken, att>>
  BY DEF Trim, FireToken, runVars, passVars, cursorVars, stepVars, broker
<1> QED
  BY <1>1, LocksStay, WorkingStays, PreparedStays, ReadingStays, BooksStay DEF ReceiveInv, ReceiveTyped, ByPartition

LEMMA DeadlinesKeep ==
  ASSUME ReceiveInv, PreparationDeadline \/ \E s \in Steps : StepDeadline(s)
  PROVE  ReceiveInv'
<1> USE DEF ReceiveInv
<1>1. CASE PreparationDeadline
  <2>1. /\ pass' = [pass EXCEPT !.spent = TRUE]
        /\ UNCHANGED <<log, stage, mode, refused, entry, level, clients, start, before, cursor,
                       turn, lockHolder, taken, att>>
    BY <1>1 DEF PreparationDeadline, runVars, cursorVars, stepVars, broker
  <2>2. /\ pass' \in [at : Nat \ {0}, found : BOOLEAN, read : Seq(Nat), spent : BOOLEAN]
        /\ pass'.at = pass.at /\ pass'.found = pass.found /\ pass'.read = pass.read
    BY <2>1 DEF ReceiveTyped
  <2>3. ReceiveTyped'
    BY <2>1, <2>2 DEF ReceiveTyped, ByPartition
  <2>4. Prepared'
    BY <2>1, <2>2 DEF Prepared, Admitted, Receivers, ArmedBefore, Armed, OnlyLiveConnects
  <2>5. Reading'
    BY <2>1, <2>2 DEF Reading, Target, Receivers, Armed
  <2> QED BY <2>1, <2>3, <2>4, <2>5, LocksStay, WorkingStays, BooksStay
<1>2. ASSUME NEW s \in Steps, StepDeadline(s) PROVE ReceiveInv'
  <2>1. /\ att' = [att EXCEPT ![s].expired = TRUE]
        /\ UNCHANGED <<log, stage, mode, refused, entry, level, pass, clients, start, before, cursor,
                       turn, lockHolder, taken>>
    BY <1>2 DEF StepDeadline, runVars, passVars, cursorVars, broker
  <2>2. /\ att' \in [Steps -> AttemptState]
        /\ \A r \in Steps : att'[r].pc = att[r].pc /\ att'[r].fetch = att[r].fetch
    BY <2>1, ZenonT(40) DEF ReceiveTyped, AttemptState
  <2>3. ReceiveTyped'
    BY <2>1, <2>2 DEF ReceiveTyped, ByPartition
  <2>4. Locks'
    BY <2>1, <2>2 DEF Locks, Armed
  <2>5. Working'
    BY <2>1, <2>2 DEF Working, Level, Active, Armed
  <2> QED BY <2>1, <2>3, <2>4, <2>5, PreparedStays, ReadingStays, BooksStay
<1> QED BY <1>1, <1>2

\* An invocation that has ended keeps what it has.
LEMMA EndKeeps ==
  ASSUME ReceiveInv, NEW how, End(how)
  PROVE  ReceiveInv'
<1> USE DEF ReceiveInv
<1>1. /\ stage' = "ended"
      /\ UNCHANGED <<log, mode, refused, entry, level, pass, clients, start, before, cursor,
                     turn, lockHolder, taken, att>>
  BY DEF End, passVars, cursorVars, stepVars, broker
<1>4. Prepared' /\ Reading'
  BY <1>1 DEF Prepared, Reading, OnlyLiveConnects, Armed
<1> QED BY <1>1, <1>4, LocksStay, BooksStay DEF ReceiveTyped, ByPartition, Working, Level, Active, Armed

(***************************************************************************)
(* A workflow is entered, and its topics are armed.                        *)
(***************************************************************************)
LEMMA BeginPassKeeps ==
  ASSUME ReceiveInv, stage = "entering", Admitted,
         NEW next, BeginPass(next), next = IF mode = "live" THEN "arming" ELSE "running"
  PROVE  ReceiveInv'
<1> USE DEF ReceiveInv
<1>1. /\ stage' = next /\ level' = 1
      /\ pass' = [at |-> 1, found |-> FALSE, read |-> <<>>, spent |-> FALSE]
      /\ UNCHANGED <<log, mode, refused, entry, clients, start, before, cursor, turn, lockHolder,
                     taken, att>>
  BY DEF BeginPass, cursorVars, stepVars, broker
<1>4. Prepared'
  <2>4. ArmedBefore(1)'
    BY <1>1, ReceiversTyped DEF ArmedBefore, Receivers
  <2> QED BY <1>1, <2>4 DEF Prepared, ArmedBefore, Admitted, Receivers, OnlyLiveConnects, Armed
<1> QED BY <1>1, EntriesTyped, <1>4, LocksStay, BooksStay DEF Reading, Working, Active, ReceiveTyped, ByPartition

LEMMA EnterWorkflowKeeps == ReceiveInv /\ EnterWorkflow => ReceiveInv'
<1> SUFFICES ASSUME ReceiveInv, EnterWorkflow PROVE ReceiveInv'
  OBVIOUS
<1>1. CASE \E how : End(how)
  BY <1>1, EndKeeps
<1>2. CASE Admitted /\ BeginPass(IF mode = "live" THEN "arming" ELSE "running")
  BY <1>2, BeginPassKeeps DEF EnterWorkflow
<1> QED BY <1>1, <1>2 DEF EnterWorkflow

\* The topic of the receive step a pass has come to.
LEMMA TargetTyped ==
  ASSUME ReceiveInv, Coming
  PROVE  /\ pass.at \in DOMAIN Receivers /\ Target \in Topics /\ PartitionCount[Target] \in Nat
         /\ pass.at \in Nat \ {0} /\ pass.read \in Seq(Nat) /\ Len(pass.read) \in Nat
         /\ pass.found \in BOOLEAN /\ pass.spent \in BOOLEAN
<1> USE DEF ReceiveInv
<1> QED BY ReceiversTyped, ReceiveAssumption DEF Target, Coming, ReceiveTyped

\* A pass goes on to the next receive step once the topic of this one is armed.
LEMMA SkipArmedKeeps == ReceiveInv /\ SkipArmed => ReceiveInv'
<1> SUFFICES ASSUME ReceiveInv, SkipArmed PROVE ReceiveInv'
  OBVIOUS
<1> USE DEF ReceiveInv
<1>1. /\ Coming /\ Armed(Target)
      /\ pass' = [pass EXCEPT !.at = @ + 1, !.found = FALSE, !.read = <<>>]
      /\ UNCHANGED <<log, stage, mode, refused, entry, level, clients, start, before, cursor, turn,
                     lockHolder, taken, att>>
  BY DEF SkipArmed, AlreadyArmed, runVars, cursorVars, stepVars, broker
<1>2. /\ pass' \in [at : Nat \ {0}, found : BOOLEAN, read : Seq(Nat), spent : BOOLEAN]
      /\ pass'.at = pass.at + 1 /\ pass'.found = FALSE
  <2>1. <<>> \in Seq(Nat)
    OBVIOUS
  <2>2. pass \in [at : Nat \ {0}, found : BOOLEAN, read : Seq(Nat), spent : BOOLEAN]
    BY DEF ReceiveTyped
  <2>3. pass.at + 1 \in Nat \ {0} /\ pass.spent \in BOOLEAN
    BY <2>2
  <2> QED BY <1>1, <2>1, <2>2, <2>3
<1>3. ReceiveTyped'
  BY <1>1, <1>2 DEF ReceiveTyped, ByPartition
<1>4. Prepared'
  <2>3. \A k \in DOMAIN Receivers : k < pass'.at => cursor'[TopicOf[Receivers[k]]] # <<>>
    BY <1>1, TargetTyped, ReceiversTyped, <1>2 DEF ArmedBefore, Armed, Prepared, Coming, Target
  <2> QED BY <1>1, <2>3 DEF Prepared, ArmedBefore, Armed, Receivers, Admitted, OnlyLiveConnects, Coming
<1>5. Reading'
  BY <1>2 DEF Reading
<1> QED BY <1>1, <1>3, <1>4, <1>5, LocksStay, WorkingStays, BooksStay

LEMMA ConnectKeeps == ReceiveInv /\ Connect => ReceiveInv'
<1> SUFFICES ASSUME ReceiveInv, Connect PROVE ReceiveInv'
  OBVIOUS
<1> USE DEF ReceiveInv
<1>1. CASE \E how : End(how)
  BY <1>1, EndKeeps
<1>2. CASE UNCHANGED <<broker, runVars, pass, start, before, cursorVars, stepVars>>
  <2>1. UNCHANGED <<log, stage, mode, refused, entry, level, pass, start, before, cursor, turn,
                    lockHolder, taken, att>>
    BY <1>2 DEF runVars, cursorVars, stepVars, broker
  <2>4. Prepared' BY <2>1 DEF Prepared, Admitted, Receivers, ArmedBefore, Armed, OnlyLiveConnects, Connect, Coming
  <2> QED BY <2>1, <2>4, LocksStay, WorkingStays, ReadingStays, BooksStay DEF ReceiveTyped, ByPartition
<1> QED BY <1>1, <1>2 DEF Connect

\* The ends of the log are noted when the topic is found.
LEMMA ListTopicsKeeps == ReceiveInv /\ ListTopics => ReceiveInv'
<1> SUFFICES ASSUME ReceiveInv, ListTopics PROVE ReceiveInv'
  OBVIOUS
<1> USE DEF ReceiveInv
<1>1. CASE \E how : End(how)
  BY <1>1, EndKeeps
<1>2. CASE ~Unprepared
  <2>1. /\ Coming /\ ~Armed(Target) /\ PartitionCount[Target] # 0
        /\ pass' = [pass EXCEPT !.found = TRUE, !.read = <<>>]
        /\ before' = [before EXCEPT ![Target] = LogEnds(Target)]
        /\ UNCHANGED <<log, stage, mode, refused, entry, level, clients, start, cursor, turn,
                       lockHolder, taken, att>>
    BY <1>2 DEF ListTopics, AlreadyArmed, runVars, cursorVars, stepVars, broker
  <2>2. /\ pass' \in [at : Nat \ {0}, found : BOOLEAN, read : Seq(Nat), spent : BOOLEAN]
        /\ pass'.at = pass.at /\ pass'.found = TRUE /\ pass'.read = <<>>
    <3>1. <<>> \in Seq(Nat)
      OBVIOUS
    <3> QED BY <2>1, <3>1 DEF ReceiveTyped
  <2>3. /\ before' = [t \in Topics |-> before'[t]] /\ before'[Target] = LogEnds(Target)
        /\ \A t \in Topics : t # Target => before'[t] = before[t]
    BY <2>1, TargetTyped DEF ReceiveTyped
  <2>4. ReceiveTyped'
    BY <2>1, <2>2, <2>3 DEF ReceiveTyped, ByPartition
  <2>5. Prepared'
    BY <2>1, <2>2 DEF Prepared, Admitted, Receivers, ArmedBefore, Armed, OnlyLiveConnects
  <2>6. Reading'
    <3>1. Target' = Target /\ pass.at <= Len(Receivers) /\ Receivers' = Receivers
      BY <2>1, <2>2 DEF Target, Receivers, Coming
    <3> DEFINE tgt == Target
    <3>2. \A p \in Partitions(tgt) :
            before'[tgt][p] \in Nat /\ before'[tgt][p] <= Len(log[tgt][p])
      <4> SUFFICES ASSUME NEW p \in Partitions(tgt)
                   PROVE  before'[tgt][p] \in Nat /\ before'[tgt][p] <= Len(log[tgt][p])
        OBVIOUS
      <4> QED BY <2>1, TargetTyped, <2>3 DEF LogEnds, ReceiveTyped
    <3>4. PartitionCount[tgt] \in Nat
      BY <2>1, TargetTyped
    <3> QED BY <2>1, <2>2, <3>1, <3>2, <3>4 DEF Reading, Armed
  <2>7. Books'
    <3> SUFFICES ASSUME NEW t \in Topics PROVE Book(t)'
      BY DEF Books
    <3>1. Book(t)
      BY DEF Books
    <3>2. CASE t = Target
      BY <2>1, <3>1, <3>2 DEF Book, Armed
    <3>3. CASE t # Target
      BY <2>1, <2>3, <3>1, <3>3 DEF Book, Armed
    <3> QED BY <3>2, <3>3
  <2> QED BY <2>1, <2>4, <2>5, <2>6, <2>7, LocksStay, WorkingStays
<1> QED BY <1>1, <1>2 DEF Unprepared

\* An offset that is read is the end of a log, which is not before it was noted.
LEMMA ReadOffsetKeeps == ReceiveInv /\ ReadOffset => ReceiveInv'
<1> SUFFICES ASSUME ReceiveInv, ReadOffset PROVE ReceiveInv'
  OBVIOUS
<1> USE DEF ReceiveInv
<1>1. CASE \E how : End(how)
  BY <1>1, EndKeeps
<1>2. CASE ~Unprepared
  <2> DEFINE tgt == Target
             next == Len(pass.read) + 1
             last == Len(log[tgt][next])
  <2>1. /\ Coming /\ pass.found /\ Len(pass.read) < PartitionCount[tgt]
        /\ pass' = [pass EXCEPT !.read = Append(pass.read, last)]
        /\ UNCHANGED <<log, stage, mode, refused, entry, level, clients, start, before, cursor, turn,
                       lockHolder, taken, att>>
    BY <1>2 DEF ReadOffset, StartOffset, runVars, cursorVars, stepVars, broker
  <2>2. /\ tgt \in Topics /\ PartitionCount[tgt] \in Nat /\ pass.read \in Seq(Nat)
        /\ Len(pass.read) \in Nat /\ pass.found = TRUE /\ stage = "arming"
    BY <2>1, TargetTyped DEF Coming
  <2>3. /\ pass.at <= Len(Receivers) /\ ~Armed(tgt) /\ PartitionCount[tgt] # 0
        /\ \A p \in Partitions(tgt) :
             before[tgt][p] \in Nat /\ before[tgt][p] <= Len(log[tgt][p])
        /\ \A p \in DOMAIN pass.read :
             before[tgt][p] <= pass.read[p] /\ pass.read[p] <= Len(log[tgt][p])
    BY <2>2 DEF Reading
  <2>4. Target' = tgt /\ Receivers' = Receivers
    BY <2>1 DEF Target, Receivers, ReceiveTyped
  <2> HIDE DEF tgt
  <2>5. next \in Partitions(tgt) /\ last \in Nat BY <2>1, <2>2 DEF ReceiveTyped, Partitions
  <2> HIDE DEF last
  <2>6. /\ pass' \in [at : Nat \ {0}, found : BOOLEAN, read : Seq(Nat), spent : BOOLEAN]
        /\ pass'.at = pass.at /\ pass'.found = TRUE /\ pass'.read = Append(pass.read, last)
    <3>1. Append(pass.read, last) \in Seq(Nat)
      BY <2>2, <2>5
    <3> QED BY <2>1, <2>2, <3>1 DEF ReceiveTyped
  <2>7. ReceiveTyped'
    BY <2>1, <2>6 DEF ReceiveTyped, ByPartition
  <2>8. Prepared'
    BY <2>1, <2>6 DEF Prepared, Admitted, Receivers, ArmedBefore, Armed, OnlyLiveConnects
  <2>9. Reading'
    <3>1. /\ Len(pass'.read) = next /\ DOMAIN pass'.read = 1 .. next
          /\ pass'.read[next] = last /\ \A p \in 1 .. Len(pass.read) : pass'.read[p] = pass.read[p]
      BY <2>6, <2>2, <2>5
    <3>2. ASSUME NEW p \in DOMAIN pass'.read
          PROVE  before[tgt][p] <= pass'.read[p] /\ pass'.read[p] <= Len(log[tgt][p])
      <4>1. CASE p = next
        BY <4>1, <3>1, <2>3, <2>5 DEF last
      <4>2. CASE p # next
        <5>1. p \in 1 .. Len(pass.read)
          BY <3>1, <4>2, <2>2
        <5>2. p \in DOMAIN pass.read
          BY <5>1, <2>2
        <5> QED BY <5>1, <5>2, <3>1, <2>3
      <4> QED BY <4>1, <4>2
    <3>3. Len(pass'.read) <= PartitionCount[tgt]
      BY <3>1, <2>1, <2>2
    <3> QED BY <2>1, <2>3, <2>4, <2>6, <3>2, <3>3 DEF Reading, Armed
  <2> QED BY <2>1, <2>7, <2>8, <2>9, LocksStay, WorkingStays, BooksStay
<1> QED BY <1>1, <1>2 DEF Unprepared

\* The offsets before the first record.
LEMMA NoOffsets == ASSUME NEW n \in Nat PROVE Offsets(n, n) = <<>>
BY DEF Offsets

\* The offsets that were read become the cursors.
LEMMA ArmKeeps == ReceiveInv /\ Arm => ReceiveInv'
<1> SUFFICES ASSUME ReceiveInv, Arm PROVE ReceiveInv'
  OBVIOUS
<1> USE DEF ReceiveInv
<1> DEFINE tgt == Target
<1>1. /\ tgt \in Topics /\ PartitionCount[tgt] \in Nat /\ pass.read \in Seq(Nat)
      /\ Len(pass.read) \in Nat /\ pass.found = TRUE /\ stage = "arming" /\ mode = "live"
      /\ pass.at \in DOMAIN Receivers /\ pass.at \in Nat \ {0} /\ tgt = TopicOf[Receivers[pass.at]]
      /\ Len(pass.read) = PartitionCount[tgt]
  BY TargetTyped DEF Arm, Coming, Prepared, Target
<1>2. /\ ~Armed(tgt) /\ PartitionCount[tgt] # 0
      /\ \A p \in DOMAIN pass.read :
           before[tgt][p] <= pass.read[p] /\ pass.read[p] <= Len(log[tgt][p])
  BY <1>1 DEF Reading
<1>3. /\ cursor' = [cursor EXCEPT ![tgt] = pass.read] /\ turn' = [turn EXCEPT ![tgt] = 1]
      /\ start' = [start EXCEPT ![tgt] = pass.read]
      /\ pass' = [pass EXCEPT !.at = @ + 1, !.found = FALSE, !.read = <<>>]
      /\ UNCHANGED <<log, stage, mode, refused, entry, level, clients, before, lockHolder, taken, att>>
  BY <1>2 DEF Arm, runVars, stepVars, broker
<1> HIDE DEF tgt
<1>4. /\ pass' \in [at : Nat \ {0}, found : BOOLEAN, read : Seq(Nat), spent : BOOLEAN]
      /\ pass'.at = pass.at + 1 /\ pass'.found = FALSE
  <2>1. <<>> \in Seq(Nat)
    OBVIOUS
  <2>2. pass \in [at : Nat \ {0}, found : BOOLEAN, read : Seq(Nat), spent : BOOLEAN]
    BY DEF ReceiveTyped
  <2>3. pass.at + 1 \in Nat \ {0} /\ pass.spent \in BOOLEAN
    BY <2>2
  <2> QED BY <1>3, <2>1, <2>2, <2>3
<1>5. /\ cursor' \in [Topics -> Seq(Nat)] /\ start' \in [Topics -> Seq(Nat)] /\ turn' \in [Topics -> Nat]
      /\ cursor'[tgt] = pass.read /\ start'[tgt] = pass.read /\ turn'[tgt] = 1
      /\ \A t \in Topics : t # tgt =>
           cursor'[t] = cursor[t] /\ start'[t] = start[t] /\ turn'[t] = turn[t]
  BY <1>1, <1>3 DEF ReceiveTyped
<1>7. \A t \in Topics : Armed(t)' <=> Armed(t) \/ t = tgt BY <1>2, <1>5, <1>1 DEF Armed
<1>8. ReceiveTyped'
  BY <1>3, <1>4, <1>5 DEF ReceiveTyped, ByPartition
<1>9. Locks'
  BY <1>3, <1>7 DEF Locks
<1>10. Working' BY <1>1, <1>3 DEF Working, Active
<1>11. Prepared'
  <2>1. \A k \in DOMAIN Receivers : k < pass.at + 1 => cursor'[TopicOf[Receivers[k]]] # <<>>
    <3> SUFFICES ASSUME NEW k \in DOMAIN Receivers, k < pass.at + 1
                 PROVE  cursor'[TopicOf[Receivers[k]]] # <<>>
      OBVIOUS
    <3> QED BY ReceiversTyped, <1>1, <1>7 DEF Armed, Prepared, ArmedBefore
  <2> QED BY <1>1, <1>3, <1>4, <2>1 DEF Prepared, ArmedBefore, Armed, Receivers, Admitted, OnlyLiveConnects
<1>13. Books'
  <2> SUFFICES ASSUME NEW t \in Topics PROVE Book(t)'
    BY DEF Books
  <2>1. Book(t)
    BY DEF Books
  <2>2. CASE t = tgt
    <3>2. \A p \in Partitions(tgt) :
            /\ before[tgt][p] <= pass.read[p] /\ pass.read[p] <= Len(log[tgt][p])
            /\ pass.read[p] <= pass.read[p]
            /\ taken[tgt][p] = Offsets(pass.read[p], pass.read[p])
      <4> SUFFICES ASSUME NEW p \in Partitions(tgt)
                   PROVE  /\ before[tgt][p] <= pass.read[p] /\ pass.read[p] <= Len(log[tgt][p])
                          /\ pass.read[p] <= pass.read[p]
                          /\ taken[tgt][p] = Offsets(pass.read[p], pass.read[p])
        OBVIOUS
      <4> QED BY <1>1, <2>1, <2>2, <1>2, NoOffsets DEF Partitions, Book
    <3>3. 1 \in Partitions(tgt)
      BY <1>1, <1>2 DEF Partitions
    <3> QED BY <2>2, <3>2, <3>3, <1>1, <1>3, <1>5, <1>7, SMTT(20) DEF Book
  <2>3. CASE t # tgt
    BY <2>1, <2>3, <1>3, <1>5, <1>7 DEF Book
  <2> QED BY <2>2, <2>3
<1> QED BY <1>8, <1>9, <1>10, <1>11, <1>4, <1>13 DEF Reading

LEMMA ArmingDoneKeeps == ReceiveInv /\ ArmingDone => ReceiveInv'
<1> SUFFICES ASSUME ReceiveInv, ArmingDone PROVE ReceiveInv'
  OBVIOUS
<1> USE DEF ReceiveInv
<1>1. /\ stage = "arming" /\ stage' = "running" /\ pass.at > Len(Receivers)
      /\ UNCHANGED <<log, mode, refused, entry, level, pass, clients, start, before, cursor, turn,
                     lockHolder, taken, att>>
  BY DEF ArmingDone, passVars, cursorVars, stepVars, broker
<1>4. Prepared'
  BY <1>1, ReceiversTyped DEF Prepared, Admitted, Receivers, ArmedBefore, Armed, OnlyLiveConnects, ReceiveTyped
<1> QED BY <1>1, <1>4, LocksStay, BooksStay DEF ReceiveTyped, ByPartition, Working, Active, Reading

(***************************************************************************)
(* A step at work.                                                         *)
(***************************************************************************)
AtWork(s) == s \in Steps /\ s \in Level /\ stage \notin {"entering", "arming"}

LEMMA FailKeeps ==
  ASSUME ReceiveInv, NEW s \in Steps, AtWork(s),
         NEW kind \in Errors \ {"internal", "unsupported"}, Fail(s, kind)
  PROVE  ReceiveInv'
<1> USE DEF ReceiveInv
<1>1. /\ att' = [att EXCEPT ![s] = Attempt(kind)] /\ lockHolder' = Release(s)
      /\ UNCHANGED <<log, stage, mode, refused, entry, level, pass, clients, start, before, cursor,
                     turn, taken>>
  BY DEF Fail, runVars, passVars, broker
<1>3. /\ att' \in [Steps -> AttemptState] /\ att'[s].pc = kind
      /\ \A r \in Steps : r # s => att'[r] = att[r]
  BY <1>1 DEF ReceiveTyped, Attempt, AttemptState, NoFetch, ReceivePc
<1>4. /\ lockHolder' \in [Topics -> Steps \union {NoStep}]
      /\ \A t \in Topics : lockHolder'[t] = IF lockHolder[t] = s THEN NoStep ELSE lockHolder[t]
  BY <1>1 DEF ReceiveTyped, Release
<1>5. ReceiveTyped'
  BY <1>1, <1>3, <1>4 DEF ReceiveTyped, ByPartition
<1>6. Locks'
  <2>2. \A r \in Steps : att'[r].pc \in {"holding", "fetching"} <=> lockHolder'[TopicOf[r]] = r
    <3> TAKE r \in Steps
    <3>1. TopicOf[r] \in Topics /\ r # NoStep
      BY ReceiveAssumption
    <3>2. CASE r = s
      BY <3>1, <3>2, <1>3, <1>4 DEF Errors
    <3>3. CASE r # s
      BY <3>1, <3>3, <1>3, <1>4 DEF Locks
    <3> QED BY <3>2, <3>3
  <2> QED BY <1>1, <1>4, <2>2 DEF Locks, Armed
<1>7. Working'
  <2> SUFFICES ASSUME NEW r \in Steps
               PROVE  /\ att'[r].pc # "idle" => r \in Level /\ stage \notin {"entering", "arming"}
                      /\ att'[r].pc \notin {"internal", "unsupported"}
                      /\ att'[r].pc \in {"locking", "holding", "fetching"} => Armed(TopicOf[r])
                      /\ att'[r].pc = "fetching" =>
                           /\ att'[r].fetch.part \in Partitions(TopicOf[r])
                           /\ att'[r].fetch.offset = cursor[TopicOf[r]][att'[r].fetch.part]
    BY <1>1 DEF Working, Level, Active, Armed
  <2>1. CASE r = s
    BY <2>1, <1>3 DEF AtWork, Errors
  <2>2. CASE r # s
    BY <2>2, <1>3 DEF Working, Active
  <2> QED BY <2>1, <2>2
<1> QED BY <1>1, <1>5, <1>6, <1>7, PreparedStays, ReadingStays, BooksStay

Held == {"holding", "fetching"}

LEMMA BecomeKeeps ==
  ASSUME ReceiveInv, NEW s \in Steps, AtWork(s),
         NEW place \in {"received", "locking", "holding"}, Become(s, place),
         place = "holding" <=> att[s].pc \in Held, place = "locking" => Armed(TopicOf[s])
  PROVE  ReceiveInv'
<1> USE DEF ReceiveInv
<1>1. /\ att' = [att EXCEPT ![s].pc = place]
      /\ UNCHANGED <<log, stage, mode, refused, entry, level, pass, clients, start, before, cursor,
                     turn, taken, lockHolder>>
  BY DEF Become, runVars, passVars, cursorVars, broker
<1>2. /\ att' \in [Steps -> AttemptState] /\ att'[s].pc = place
      /\ \A r \in Steps : r # s => att'[r] = att[r]
  BY <1>1 DEF ReceiveTyped, AttemptState, ReceivePc
<1>3. ReceiveTyped'
  BY <1>1, <1>2 DEF ReceiveTyped, ByPartition
<1>4. Locks'
  BY <1>1, <1>2 DEF Locks, Armed, Held
<1>5. Working'
  <2> SUFFICES ASSUME NEW r \in Steps
               PROVE  /\ att'[r].pc # "idle" => r \in Level /\ stage \notin {"entering", "arming"}
                      /\ att'[r].pc \notin {"internal", "unsupported"}
                      /\ att'[r].pc \in {"locking", "holding", "fetching"} => Armed(TopicOf[r])
                      /\ att'[r].pc = "fetching" =>
                           /\ att'[r].fetch.part \in Partitions(TopicOf[r])
                           /\ att'[r].fetch.offset = cursor[TopicOf[r]][att'[r].fetch.part]
    BY <1>1 DEF Working, Level, Active, Armed
  <2>1. CASE r = s
    BY <2>1, <1>2 DEF AtWork, Working, Active, Held
  <2>2. CASE r # s
    BY <2>2, <1>2 DEF Working, Active
  <2> QED BY <2>1, <2>2
<1> QED BY <1>1, <1>3, <1>4, <1>5, PreparedStays, ReadingStays, BooksStay

\* A step of a level is one of those its workflow was armed for.
LEMMA StepEntryKeeps ==
  ASSUME ReceiveInv, NEW s \in Steps, StepEntry(s)
  PROVE  ReceiveInv'
<1> USE DEF ReceiveInv
<1>1. stage = "running" /\ s \in Level /\ att[s].pc = "idle"
  BY DEF StepEntry
<1>2. AtWork(s)
  BY <1>1 DEF AtWork
<1>3. PICK k \in DOMAIN Receivers : Receivers[k] = s
  BY <1>1, ReceiversTyped
<1>4. s \notin refused
  BY <1>1, <1>3 DEF Prepared, Admitted
<1>6. CASE Fail(s, "cancelled")
  BY <1>2, <1>6, FailKeeps DEF Errors
<1>7. CASE Fail(s, "config")
  BY <1>2, <1>7, FailKeeps DEF Errors
<1>8. CASE Become(s, "received")
  BY <1>1, <1>2, <1>8, BecomeKeeps DEF Held
<1>9. CASE Armed(TopicOf[s]) /\ Become(s, "locking")
  BY <1>1, <1>2, <1>9, BecomeKeeps DEF Held
<1>10. \/ Fail(s, "cancelled") \/ Fail(s, "config") \/ Become(s, "received")
       \/ Armed(TopicOf[s]) /\ Become(s, "locking")
  <2>1. CASE cancel # "no"
    BY <2>1 DEF StepEntry
  <2>2. CASE cancel = "no" /\ Expects[s] = "object"
    BY <2>2, <1>4 DEF StepEntry
  <2>3. CASE cancel = "no" /\ Expects[s] # "object" /\ mode # "live"
    BY <2>3, <1>4 DEF StepEntry
  <2>4. CASE cancel = "no" /\ Expects[s] # "object" /\ mode = "live"
    BY <2>4, <1>4, <1>1, <1>3, ReceiversTyped DEF StepEntry, Prepared, ArmedBefore
  <2> QED BY <2>1, <2>2, <2>3, <2>4
<1> QED BY <1>6, <1>7, <1>8, <1>9, <1>10

LEMMA BusyIsAtWork ==
  ASSUME ReceiveInv, NEW s \in Steps, att[s].pc # "idle"
  PROVE  AtWork(s)
BY DEF ReceiveInv, Working, AtWork

\* A lock that is taken was free, and its topic has cursors.
LEMMA TakeLockKeeps ==
  ASSUME ReceiveInv, NEW s \in Steps, TakeLock(s)
  PROVE  ReceiveInv'
<1> USE DEF ReceiveInv
<1> DEFINE t == TopicOf[s]
<1>1. /\ att[s].pc = "locking" /\ lockHolder[t] = NoStep
      /\ lockHolder' = [lockHolder EXCEPT ![t] = s] /\ att' = [att EXCEPT ![s].pc = "holding"]
      /\ UNCHANGED <<log, stage, mode, refused, entry, level, pass, clients, start, before, cursor,
                     turn, taken>>
  BY DEF TakeLock, runVars, passVars, broker
<1>2. /\ att' \in [Steps -> AttemptState] /\ att'[s].pc = "holding"
      /\ \A r \in Steps : r # s => att'[r] = att[r]
  <2>1. att \in [Steps -> AttemptState] /\ att' = [att EXCEPT ![s].pc = "holding"]
    BY <1>1 DEF ReceiveTyped
  <2> QED BY <2>1 DEF AttemptState, ReceivePc
<1>3. t \in Topics /\ Armed(t) /\ NoStep \notin Steps
  BY <1>1, ReceiveAssumption DEF Working, Active
<1>4. /\ lockHolder' \in [Topics -> Steps \union {NoStep}] /\ lockHolder'[t] = s
      /\ \A t2 \in Topics : t2 # t => lockHolder'[t2] = lockHolder[t2]
  BY <1>1, <1>3 DEF ReceiveTyped
<1>5. ReceiveTyped'
  BY <1>1, <1>2, <1>4 DEF ReceiveTyped, ByPartition
<1>6. Locks'
  <2>1. \A t2 \in Topics : lockHolder'[t2] # NoStep => TopicOf[lockHolder'[t2]] = t2 /\ cursor[t2] # <<>>
    <3> TAKE t2 \in Topics
    <3>1. CASE t2 = t
      BY <3>1, <1>3, <1>4 DEF Armed
    <3>2. CASE t2 # t
      BY <3>2, <1>4 DEF Locks, Armed
    <3> QED BY <3>1, <3>2
  <2>2. \A r \in Steps : att'[r].pc \in {"holding", "fetching"} <=> lockHolder'[TopicOf[r]] = r
    <3> TAKE r \in Steps
    <3>2. CASE r = s
      BY <3>2, <1>2, <1>4
    <3>3. CASE r # s BY ReceiveAssumption, <3>3, <1>1, <1>2, <1>3, <1>4 DEF Locks
    <3> QED BY <3>2, <3>3
  <2> QED BY <1>1, <2>1, <2>2 DEF Locks, Armed
<1>7. Working'
  <2> SUFFICES ASSUME NEW r \in Steps
               PROVE  /\ att'[r].pc # "idle" => r \in Level /\ stage \notin {"entering", "arming"}
                      /\ att'[r].pc \notin {"internal", "unsupported"}
                      /\ att'[r].pc \in {"locking", "holding", "fetching"} => Armed(TopicOf[r])
                      /\ att'[r].pc = "fetching" =>
                           /\ att'[r].fetch.part \in Partitions(TopicOf[r])
                           /\ att'[r].fetch.offset = cursor[TopicOf[r]][att'[r].fetch.part]
    BY <1>1 DEF Working, Level, Active, Armed
  <2>1. CASE r = s
    BY <2>1, <1>1, <1>2, <1>3 DEF Working
  <2>2. CASE r # s
    BY <2>2, <1>2 DEF Working, Active
  <2> QED BY <2>1, <2>2
<1> QED BY <1>1, <1>5, <1>6, <1>7, PreparedStays, ReadingStays, BooksStay

\* Who holds the lock of a topic has partitions to poll in turn.
LEMMA HolderHas ==
  ASSUME ReceiveInv, NEW s \in Steps, att[s].pc \in Held
  PROVE  /\ TopicOf[s] \in Topics /\ Armed(TopicOf[s]) /\ lockHolder[TopicOf[s]] = s
         /\ PartitionCount[TopicOf[s]] \in Nat /\ PartitionCount[TopicOf[s]] # 0
         /\ turn[TopicOf[s]] \in Partitions(TopicOf[s])
         /\ Len(cursor[TopicOf[s]]) = PartitionCount[TopicOf[s]]
         /\ cursor[TopicOf[s]] \in Seq(Nat)
<1> USE DEF ReceiveInv
<1>1. TopicOf[s] \in Topics /\ PartitionCount[TopicOf[s]] \in Nat
  BY ReceiveAssumption
<1>2. Armed(TopicOf[s]) /\ lockHolder[TopicOf[s]] = s
  BY DEF Working, Active, Locks, Held
<1> QED BY <1>1, <1>2 DEF ReceiveTyped, Partitions, Book, Books

LEMMA TurnInRange ==
  ASSUME NEW n \in Nat, NEW m \in Nat, m # 0
  PROVE  (n % m) + 1 \in 1 .. m
OBVIOUS

\* A fetch is asked for at the cursor.
LEMMA PollKeeps ==
  ASSUME ReceiveInv, NEW s \in Steps, Poll(s)
  PROVE  ReceiveInv'
<1> USE DEF ReceiveInv
<1>1. att[s].pc = "holding" /\ AtWork(s)
  BY BusyIsAtWork DEF Poll
<1>2. CASE Fail(s, "cancelled") \/ Fail(s, "receiveTimeout")
  BY <1>1, <1>2, FailKeeps DEF Errors
<1>3. CASE ~(Fail(s, "cancelled") \/ Fail(s, "receiveTimeout"))
  <2> DEFINE t == TopicOf[s]
             n == turn[t]
             o == cursor[t][n]
  <2>1. /\ att' = [att EXCEPT ![s].pc = "fetching", ![s].fetch = [part |-> n, offset |-> o]]
        /\ turn' = [turn EXCEPT ![t] = NextTurn(t)]
        /\ UNCHANGED <<log, stage, mode, refused, entry, level, pass, clients, start, before, cursor,
                       lockHolder, taken>>
    BY <1>3 DEF Poll, runVars, passVars, broker
  <2>2. /\ t \in Topics /\ Armed(t) /\ PartitionCount[t] \in Nat /\ PartitionCount[t] # 0
        /\ n \in Partitions(t) /\ Len(cursor[t]) = PartitionCount[t] /\ cursor[t] \in Seq(Nat)
    BY <1>1, HolderHas DEF Held
  <2>3. n \in Nat /\ o \in Nat
    BY <2>2 DEF Partitions
  <2>4. NextTurn(t) \in Partitions(t) /\ NextTurn(t) \in Nat
    <3> HIDE DEF t
    <3> QED BY <2>2, <2>3, TurnInRange DEF NextTurn, Partitions
  <2> HIDE DEF t, n, o
  <2>5. /\ att' \in [Steps -> AttemptState] /\ att'[s].pc = "fetching"
        /\ att'[s].fetch.part = n /\ att'[s].fetch.offset = o
        /\ \A r \in Steps : r # s => att'[r] = att[r]
    BY <2>1, <2>3 DEF ReceiveTyped, AttemptState, ReceivePc
  <2>6. /\ turn' \in [Topics -> Nat] /\ turn'[t] = NextTurn(t)
        /\ \A t2 \in Topics : t2 # t => turn'[t2] = turn[t2]
    BY <2>1, <2>2, <2>4 DEF ReceiveTyped
  <2>7. ReceiveTyped'
    BY <2>1, <2>5, <2>6 DEF ReceiveTyped, ByPartition
  <2>8. Locks'
    BY <2>1, <2>5, <1>1 DEF Locks, Armed
  <2>9. Working'
    <3> SUFFICES ASSUME NEW r \in Steps
                 PROVE  /\ att'[r].pc # "idle" => r \in Level /\ stage \notin {"entering", "arming"}
                        /\ att'[r].pc \notin {"internal", "unsupported"}
                        /\ att'[r].pc \in {"locking", "holding", "fetching"} => Armed(TopicOf[r])
                        /\ att'[r].pc = "fetching" =>
                             /\ att'[r].fetch.part \in Partitions(TopicOf[r])
                             /\ att'[r].fetch.offset = cursor[TopicOf[r]][att'[r].fetch.part]
      BY <2>1 DEF Working, Level, Active, Armed
    <3>1. CASE r = s
      BY <3>1, <2>2, <2>5, <1>1 DEF AtWork, t, n, o
    <3>2. CASE r # s
      BY <3>2, <2>5 DEF Working, Active
    <3> QED BY <3>1, <3>2
  <2>10. Books'
    <3> SUFFICES ASSUME NEW t2 \in Topics PROVE Book(t2)'
      BY DEF Books
    <3> QED BY <2>4, <2>6, <2>1 DEF Book, Armed, Books
  <2> QED BY <2>1, <2>7, <2>8, <2>9, <2>10, PreparedStays, ReadingStays
<1> QED BY <1>2, <1>3

\* The first record of an answer is the one that was asked for.
LEMMA EarliestIsFirst ==
  ASSUME NEW a \in Nat, NEW b \in Nat, a <= b
  PROVE  Earliest(a .. b) = a
  BY DEF Earliest

\* One more offset has been taken.
LEMMA OffsetsGrow ==
  ASSUME NEW a \in Nat, NEW b \in Nat, a <= b
  PROVE  Append(Offsets(a, b), b) = Offsets(a, b + 1)
<1> DEFINE old == Offsets(a, b)
           new == Offsets(a, b + 1)
<1>1. /\ old \in Seq(Nat) /\ Len(old) = b - a /\ \A k \in 1 .. b - a : old[k] = a + k - 1
      /\ b - a \in Nat BY DEF Offsets
<1>2. /\ new \in Seq(Nat) /\ Len(new) = b - a + 1 /\ \A k \in 1 .. b - a + 1 : new[k] = a + k - 1 BY DEF Offsets
<1> HIDE DEF old, new
<1>3. /\ Append(old, b) \in Seq(Nat) /\ Len(Append(old, b)) = b - a + 1
      /\ \A k \in 1 .. b - a : Append(old, b)[k] = old[k]
      /\ Append(old, b)[b - a + 1] = b
  BY <1>1
<1>4. \A k \in 1 .. b - a + 1 : Append(old, b)[k] = new[k]
  <2> TAKE k \in 1 .. b - a + 1
  <2>1. CASE k \in 1 .. b - a
    BY <2>1, <1>1, <1>2, <1>3
  <2>2. CASE k = b - a + 1
    BY <2>2, <1>2, <1>3
  <2> QED BY <2>1, <2>2, <1>1
<1> QED BY <1>2, <1>3, <1>4, SeqEqual DEF old, new

\* A record is taken by the step that holds the lock, at the cursor.
LEMMA TakeKeeps ==
  ASSUME ReceiveInv, NEW s \in Steps, att[s].pc = "fetching", NEW o,
         o = att[s].fetch.offset, Take(s, TopicOf[s], att[s].fetch.part, o)
  PROVE  ReceiveInv'
<1> USE DEF ReceiveInv
<1> DEFINE t == TopicOf[s]
           p == att[s].fetch.part
           verdict == Verdict(s, log[t][p][o + 1])
<1>1. /\ t \in Topics /\ Armed(t) /\ lockHolder[t] = s /\ PartitionCount[t] \in Nat
      /\ PartitionCount[t] # 0 /\ turn[t] \in Partitions(t)
      /\ Len(cursor[t]) = PartitionCount[t] /\ cursor[t] \in Seq(Nat)
  BY HolderHas DEF Held
<1>2. p \in Partitions(t) /\ o = cursor[t][p] /\ AtWork(s)
  BY BusyIsAtWork DEF Working
<1>3. o \in Nat /\ DOMAIN cursor[t] = Partitions(t)
  BY <1>1, <1>2, SMTT(20) DEF Partitions
<1>4. verdict \in {"malformed", "holding", "received", "criteria"}
  BY DEF Verdict
<1>5. /\ cursor' = [cursor EXCEPT ![t][p] = o + 1]
      /\ taken' = Updated(taken, t, p, Append(taken[t][p], o))
      /\ att' = [att EXCEPT ![s] = [pc |-> verdict, expired |-> att[s].expired, fetch |-> NoFetch]]
      /\ lockHolder' = IF verdict = "holding" THEN lockHolder ELSE Release(s)
      /\ UNCHANGED <<log, stage, mode, refused, entry, level, pass, clients, start, before, turn>>
  BY DEF Take, Updated, runVars, passVars, broker
<1> HIDE DEF verdict
<1>6. /\ att' \in [Steps -> AttemptState] /\ att'[s].pc = verdict
      /\ \A r \in Steps : r # s => att'[r] = att[r]
  BY <1>5, <1>4 DEF ReceiveTyped, AttemptState, ReceivePc, Errors, NoFetch
<1>7. /\ lockHolder' \in [Topics -> Steps \union {NoStep}]
      /\ \A t2 \in Topics :
           lockHolder'[t2] = IF verdict # "holding" /\ lockHolder[t2] = s THEN NoStep ELSE lockHolder[t2]
  BY <1>5 DEF ReceiveTyped, Release
<1> HIDE DEF t, p
<1>8. /\ ByPartition(taken')
      /\ taken'[t][p] = Append(taken[t][p], o)
      /\ \A p2 \in Partitions(t) : p2 # p => taken'[t][p2] = taken[t][p2]
      /\ \A t2 \in Topics : t2 # t => taken'[t2] = taken[t2]
  <2>2. t \in Topics /\ p \in Partitions(t) /\ taken' = Updated(taken, t, p, Append(taken[t][p], o))
    BY <1>1, <1>2, <1>5
  <2>3. /\ ByPartition(taken')
        /\ \A t2 \in Topics : \A p2 \in Partitions(t2) :
             taken'[t2][p2] = IF t2 = t /\ p2 = p THEN Append(taken[t][p], o) ELSE taken[t2][p2]
        /\ \A t2 \in Topics : t2 # t => taken'[t2] = taken[t2] BY <2>2, PartitionUpdated DEF ReceiveTyped
  <2> QED BY <2>2, <2>3
<1>9. /\ cursor' \in [Topics -> Seq(Nat)] /\ Len(cursor'[t]) = Len(cursor[t])
      /\ cursor'[t][p] = o + 1
      /\ \A p2 \in Partitions(t) : p2 # p => cursor'[t][p2] = cursor[t][p2]
      /\ \A t2 \in Topics : t2 # t => cursor'[t2] = cursor[t2]
  <2> DEFINE row == [cursor[t] EXCEPT ![p] = o + 1]
  <2>1. /\ row \in Seq(Nat) /\ Len(row) = Len(cursor[t]) /\ row[p] = o + 1
        /\ \A p2 \in Partitions(t) : p2 # p => row[p2] = cursor[t][p2]
    BY <1>1, <1>2, <1>3
  <2>2. cursor' = [cursor EXCEPT ![t] = row]
    BY <1>5
  <2> HIDE DEF row
  <2> QED BY <1>1, <2>1, <2>2 DEF ReceiveTyped
<1>10. \A t2 \in Topics : Armed(t2)' <=> Armed(t2)
  <2>2. cursor'[t] # <<>> BY <1>1, <1>9
  <2> QED BY <2>2, <1>1, <1>9 DEF Armed
<1>11. ReceiveTyped'
  <2>1. ByPartition(log')
    BY <1>5 DEF ReceiveTyped, ByPartition
  <2> QED BY <2>1, <1>5, <1>6, <1>7, <1>8, <1>9 DEF ReceiveTyped
<1>12. Locks'
  <2>2. \A r \in Steps : att'[r].pc \in {"holding", "fetching"} <=> lockHolder'[TopicOf[r]] = r
    <3> TAKE r \in Steps
    <3>1. TopicOf[r] \in Topics /\ r # NoStep
      BY ReceiveAssumption
    <3>2. CASE r = s
      BY <3>1, <3>2, <1>1, <1>4, <1>6, <1>7 DEF t
    <3>3. CASE r # s
      BY <3>1, <3>3, <1>6, <1>7 DEF Locks
    <3> QED BY <3>2, <3>3
  <2> QED BY <1>7, <1>10, <2>2 DEF Locks, Armed
<1>13. Working'
  <2> SUFFICES ASSUME NEW r \in Steps
               PROVE  /\ att'[r].pc # "idle" => r \in Level /\ stage \notin {"entering", "arming"}
                      /\ att'[r].pc \notin {"internal", "unsupported"}
                      /\ att'[r].pc \in {"locking", "holding", "fetching"} => cursor'[TopicOf[r]] # <<>>
                      /\ att'[r].pc = "fetching" =>
                           /\ att'[r].fetch.part \in Partitions(TopicOf[r])
                           /\ att'[r].fetch.offset = cursor'[TopicOf[r]][att'[r].fetch.part]
    BY <1>5 DEF Working, Level, Active, Armed
  <2>1. TopicOf[r] \in Topics
    BY ReceiveAssumption
  <2>2. CASE r = s
    BY <2>2, <1>1, <1>2, <1>4, <1>6, <1>10 DEF AtWork, t, Armed
  <2>3. CASE r # s
    <3>2. att[r].pc = "fetching" => TopicOf[r] # t
      BY <1>1, <2>3 DEF Locks
    <3> QED BY <2>3, <1>6, <3>2, <2>1, <1>9, <1>10 DEF Working, Active, Armed
  <2> QED BY <2>2, <2>3
<1>14. Prepared'
  BY <1>5, <1>10, ReceiversTyped DEF Prepared, Admitted, Receivers, ArmedBefore, OnlyLiveConnects
<1>15. Reading' BY <1>2, <1>5 DEF Reading, AtWork
<1>16. Books'
  <2> SUFFICES ASSUME NEW t2 \in Topics PROVE Book(t2)'
    BY DEF Books
  <2>1. Book(t2) /\ Book(t)
    BY <1>1 DEF Books
  <2>2. CASE t2 # t
    BY <2>1, <2>2, <1>5, <1>8, <1>9, <1>10 DEF Book
  <2>3. CASE t2 = t
    <3>1. /\ Len(start[t]) = PartitionCount[t] /\ start[t] \in Seq(Nat)
          /\ \A p2 \in Partitions(t) :
               /\ before[t][p2] <= start[t][p2] /\ start[t][p2] <= Len(log[t][p2])
               /\ start[t][p2] <= cursor[t][p2]
               /\ taken[t][p2] = Offsets(start[t][p2], cursor[t][p2])
      BY <1>1, <2>1 DEF Book, ReceiveTyped
    <3>2. start[t][p] \in Nat
      BY <1>1, <1>2, <3>1 DEF Partitions
    <3>3. taken'[t][p] = Offsets(start[t][p], o + 1) /\ start[t][p] <= o + 1
      <4>1. taken'[t][p] = Append(Offsets(start[t][p], o), o) /\ start[t][p] <= o
        BY <1>2, <1>8, <3>1
      <4>2. Append(Offsets(start[t][p], o), o) = Offsets(start[t][p], o + 1)
        BY <4>1, <3>2, <1>3, OffsetsGrow
      <4>3. start[t][p] <= o + 1
        BY <4>1, <3>2, <1>3
      <4> QED BY <4>1, <4>2, <4>3
    <3>4. \A p2 \in Partitions(t) :
            start[t][p2] <= cursor'[t][p2] /\ taken'[t][p2] = Offsets(start[t][p2], cursor'[t][p2])
      <4> TAKE p2 \in Partitions(t)
      <4>1. CASE p2 = p
        BY <4>1, <3>3, <1>9
      <4>2. CASE p2 # p
        BY <4>2, <3>1, <1>8, <1>9
      <4> QED BY <4>1, <4>2
    <3> QED BY <2>3, <3>1, <3>4, <1>1, <1>5, <1>9, <1>10 DEF Book
  <2> QED BY <2>2, <2>3
<1> QED BY <1>11, <1>12, <1>13, <1>14, <1>15, <1>16

LEMMA AnswerKeeps ==
  ASSUME ReceiveInv, NEW s \in Steps, Answer(s)
  PROVE  ReceiveInv'
<1> DEFINE t == TopicOf[s]
           p == att[s].fetch.part
           o == att[s].fetch.offset
<1>1. att[s].pc = "fetching" /\ AtWork(s) /\ Use(s, t, p, o)
  BY BusyIsAtWork DEF Answer
<1>2. CASE Fail(s, "transport")
  BY <1>1, <1>2, FailKeeps DEF Errors
<1>3. CASE Become(s, "holding")
  BY <1>1, <1>3, BecomeKeeps DEF Held
<1>4. CASE \E batch \in Batches(t, p, o) : Take(s, t, p, Earliest(batch))
  <2>1. PICK last \in o .. Len(log[t][p]) - 1 : Take(s, t, p, Earliest(o .. last))
    BY <1>4 DEF Batches
  <2>2. o \in Nat /\ last \in Nat /\ o <= last
    <3>1. o \in Nat /\ t \in Topics /\ p \in Partitions(t)
      BY <1>1, ReceiveAssumption DEF ReceiveInv, Working, AttemptState, ReceiveTyped
    <3> HIDE DEF t, p, o
    <3> QED BY <2>1, <3>1 DEF ReceiveInv, ReceiveTyped
  <2> QED BY <1>1, <2>1, <2>2, EarliestIsFirst, TakeKeeps
<1>5. Fail(s, "transport") \/ Become(s, "holding")
      \/ \E batch \in Batches(t, p, o) : Take(s, t, p, Earliest(batch))
  <2> HIDE DEF t, p, o
  <2> QED BY <1>1 DEF Use
<1> QED BY <1>2, <1>3, <1>4, <1>5

LEMMA StepKeeps ==
  ASSUME ReceiveInv, NEW s \in Steps, StepNext(s)
  PROVE  ReceiveInv'
<1>1. CASE StepEntry(s)
  BY <1>1, StepEntryKeeps
<1>2. CASE TakeLock(s)
  BY <1>2, TakeLockKeeps
<1>3. CASE GiveUpLock(s) \/ StopFetch(s) BY <1>3, BusyIsAtWork, FailKeeps DEF Errors, GiveUpLock, StopFetch
<1>4. CASE Poll(s)
  BY <1>4, PollKeeps
<1>5. CASE Answer(s)
  BY <1>5, AnswerKeeps
<1> QED BY <1>1, <1>2, <1>3, <1>4, <1>5 DEF StepNext

(***************************************************************************)
(* Between the levels nobody is at work, and no lock is held.              *)
(***************************************************************************)
LEMMA SettledLevel ==
  ASSUME ReceiveInv, \A s \in Level : Settled(s)
  PROVE  /\ \A s \in Steps : att[s].pc \notin Held \union {"locking"}
         /\ \A t \in Topics : lockHolder[t] = NoStep
<1> USE DEF ReceiveInv
<1>1. \A s \in Steps : att[s].pc \notin Held \union {"locking"}
  BY DEF Working, Settled, Held, Errors
<1>2. ASSUME NEW t \in Topics PROVE lockHolder[t] = NoStep
  <2> SUFFICES ASSUME lockHolder[t] # NoStep PROVE FALSE
    OBVIOUS
  <2>1. lockHolder[t] \in Steps /\ TopicOf[lockHolder[t]] = t
    BY DEF ReceiveTyped, Locks
  <2> QED BY <1>1, <2>1 DEF Locks, Held
<1> QED BY <1>1, <1>2

\* The step that is tried again had failed: it holds no lock, and its siblings keep theirs.
LEMMA RetryKeeps ==
  ASSUME ReceiveInv, NEW s \in Steps, Retry(s)
  PROVE  ReceiveInv'
<1> USE DEF ReceiveInv
<1>1. /\ att' = [att EXCEPT ![s] = Attempt("idle")] /\ att[s].pc \in Errors
      /\ UNCHANGED <<log, stage, mode, refused, entry, level, pass, clients, start, before, cursor,
                     turn, lockHolder, taken>>
  BY DEF Retry, runVars, passVars, cursorVars, broker
<1>3. /\ att' \in [Steps -> AttemptState] /\ att'[s].pc = "idle" /\ att[s].pc \notin Held
      /\ \A r \in Steps : r # s => att'[r] = att[r]
  BY <1>1 DEF ReceiveTyped, Attempt, AttemptState, NoFetch, ReceivePc, Errors, Held
<1>4. ReceiveTyped'
  BY <1>1, <1>3 DEF ReceiveTyped, ByPartition
<1>5. Locks'
  <2>1. \A r \in Steps : att'[r].pc \in Held <=> att[r].pc \in Held BY <1>3 DEF Held
  <2> QED BY <1>1, <2>1 DEF Locks, Held, Armed
<1>6. Working'
  <2> SUFFICES ASSUME NEW r \in Steps
               PROVE  /\ att'[r].pc # "idle" => r \in Level' /\ stage' \notin {"entering", "arming"}
                      /\ att'[r].pc \notin {"internal", "unsupported"}
                      /\ Active(r)' => Armed(TopicOf[r])'
                      /\ att'[r].pc = "fetching" =>
                           /\ att'[r].fetch.part \in Partitions(TopicOf[r])
                           /\ att'[r].fetch.offset = cursor'[TopicOf[r]][att'[r].fetch.part]
    BY DEF Working
  <2>1. CASE r = s BY <2>1, <1>3 DEF Active
  <2>2. CASE r # s BY <2>2, <1>1, <1>3 DEF Working, Active, Armed, Level
  <2> QED BY <2>1, <2>2
<1> QED BY <1>1, <1>4, <1>5, <1>6, PreparedStays, ReadingStays, BooksStay

LEMMA NextLevelKeeps == ReceiveInv /\ NextLevel => ReceiveInv'
<1> SUFFICES ASSUME ReceiveInv, NextLevel PROVE ReceiveInv'
  OBVIOUS
<1> USE DEF ReceiveInv
<1>1. /\ att' = [s \in Steps |-> Attempt("idle")] /\ \A r \in Level : Settled(r)
      /\ level' = level + 1 /\ level \in DOMAIN Entries[entry].levels
      /\ UNCHANGED <<log, stage, mode, refused, entry, pass, clients, start, before, cursor,
                     turn, lockHolder, taken>>
  BY DEF NextLevel, LevelSettled, passVars, cursorVars, broker
<1>3. att' \in [Steps -> AttemptState] /\ \A s \in Steps : att'[s].pc = "idle"
  BY <1>1 DEF Attempt, AttemptState, NoFetch, ReceivePc
<1>5. ReceiveTyped' BY <1>1, <1>3, EntriesTyped DEF ReceiveTyped, ByPartition
<1>6. Locks' BY <1>1, SettledLevel, ReceiveAssumption, <1>3 DEF Locks
<1>7. Working'
  BY <1>3 DEF Working, Active
<1> QED BY <1>1, <1>5, <1>6, <1>7, PreparedStays, ReadingStays, BooksStay

\* Past the last level every step is idle, so that the next workflow finds them so.
LEMMA LeaveWorkflowKeeps == ReceiveInv /\ LeaveWorkflow => ReceiveInv'
<1> SUFFICES ASSUME ReceiveInv, LeaveWorkflow PROVE ReceiveInv'
  OBVIOUS
<1> USE DEF ReceiveInv
<1>1. CASE \E how : End(how)
  BY <1>1, EndKeeps
<1>2. CASE entry' = entry + 1
  <2>1. /\ stage = "running" /\ level > Len(Entries[entry].levels) /\ entry # Len(Entries)
        /\ level' = 1 /\ stage' = "entering"
        /\ UNCHANGED <<log, mode, refused, pass, clients, start, before, cursor, turn, lockHolder,
                       taken, att>>
    BY EntriesAssumption, <1>2 DEF LeaveWorkflow, End, passVars, cursorVars, stepVars, broker, ReceiveTyped
  <2>2. entry' \in DOMAIN Entries BY EntriesAssumption, <2>1, <1>2 DEF ReceiveTyped
  <2>5. Level = {} BY EntriesTyped, <2>1 DEF Level, ReceiveTyped
  <2>6. Working' BY <2>1, <2>5 DEF Working, Active
  <2> QED
    BY <2>1, <2>2, EntriesTyped, <2>6, LocksStay, BooksStay DEF Prepared, Reading, OnlyLiveConnects, Armed,
       ReceiveTyped, ByPartition
<1> QED BY <1>1, <1>2 DEF LeaveWorkflow

LEMMA ReceiveInvNext == ReceiveInv /\ [ReceiveNext]_receiveVars => ReceiveInv'
<1> SUFFICES ASSUME ReceiveInv, [ReceiveNext]_receiveVars PROVE ReceiveInv'
  OBVIOUS
<1>1. CASE Environment
  BY <1>1, ProduceKeeps, EnvironmentKeeps DEF Environment
<1>2. CASE PreparationDeadline \/ \E s \in Steps : StepDeadline(s) \/ Retry(s)
  BY <1>2, DeadlinesKeep, RetryKeeps
<1>3. CASE Arming
  BY <1>3, EnterWorkflowKeeps, SkipArmedKeeps, ConnectKeeps, ListTopicsKeeps, ReadOffsetKeeps,
     ArmKeeps, ArmingDoneKeeps DEF Arming
<1>4. CASE \E s \in Steps : StepNext(s)
  BY <1>4, StepKeeps
<1>5. CASE Between
  BY <1>5, NextLevelKeeps, LeaveWorkflowKeeps, EndKeeps
  DEF Between, FailRun, CancelBetween
<1>6. CASE UNCHANGED receiveVars
  <2>1. UNCHANGED <<log, stage, mode, refused, entry, level, pass, clients, start, before, cursor,
                    turn, lockHolder, taken, att>>
    BY <1>6 DEF receiveVars, broker, runVars, passVars, cursorVars, stepVars
  <2> QED
    BY <2>1, LocksStay, WorkingStays, PreparedStays, ReadingStays, BooksStay DEF ReceiveInv, ReceiveTyped, ByPartition
<1> QED BY <1>1, <1>2, <1>3, <1>4, <1>5, <1>6 DEF ReceiveNext

\* The invariant contains what is promised of every state.
LEMMA ReceiveInvSuffices ==
  ReceiveInv => /\ ReceiveTypeOK /\ EachRecordOnce /\ StartsWhereArmed /\ NeverUnarmed
                /\ RefusedBeforeConnecting /\ OnlyLiveConnects
<1> SUFFICES ASSUME ReceiveInv
             PROVE  /\ ReceiveTypeOK /\ EachRecordOnce /\ StartsWhereArmed /\ NeverUnarmed
                    /\ RefusedBeforeConnecting /\ OnlyLiveConnects
  OBVIOUS
<1> USE DEF ReceiveInv
<1>1. ReceiveTypeOK BY EntriesAssumption DEF ReceiveTypeOK, ReceiveTyped, Locks, Books, Book
<1>4. NeverUnarmed /\ RefusedBeforeConnecting
  BY DEF NeverUnarmed, RefusedBeforeConnecting, Working
<1>5. OnlyLiveConnects
  BY DEF Prepared
<1> QED BY <1>1, <1>4, <1>5 DEF EachRecordOnce, Books, Book, Offsets, StartsWhereArmed

\* Only an answer takes a record, and only while the token has not fired.
LEMMA TokenStopsTaking == [ReceiveNext]_receiveVars => (cancel # "no" => UNCHANGED taken)
<1> SUFFICES ASSUME [ReceiveNext]_receiveVars, cancel # "no" PROVE UNCHANGED taken
  OBVIOUS
<1> USE DEF cursorVars
<1>1. CASE Environment
  BY <1>1 DEF Environment, Produce, Trim, FireToken
<1>2. CASE PreparationDeadline \/ \E s \in Steps : StepDeadline(s) \/ Retry(s)
  BY <1>2 DEF PreparationDeadline, StepDeadline, Retry
<1>3. CASE Arming
  BY <1>3 DEF Arming, EnterWorkflow, BeginPass, SkipArmed, Connect, ListTopics, Unprepared, ReadOffset,
              Arm, ArmingDone, End
<1>4. ASSUME NEW s \in Steps, StepNext(s) PROVE UNCHANGED taken
  <2>1. \/ \E kind : Fail(s, kind)
        \/ \E place : Become(s, place)
        \/ TakeLock(s) \/ Poll(s)
    BY <1>4 DEF StepNext, StepEntry, GiveUpLock, StopFetch, Answer
  <2> QED BY <2>1 DEF Fail, Become, TakeLock, Poll
<1>5. CASE Between
  BY <1>5 DEF Between, FailRun, NextLevel, CancelBetween, LeaveWorkflow, End
<1>6. CASE UNCHANGED receiveVars
  BY <1>6 DEF receiveVars
<1> QED BY <1>1, <1>2, <1>3, <1>4, <1>5, <1>6 DEF ReceiveNext

\* Every receive step gets the stream of its topic from the place where the topic
\* was armed, each record once and in order, whatever the workflows, the levels, the
\* partitions and the broker, and no record once the token has fired
\* (arm_receivers, execute_message_step).
THEOREM ReceivesExact == ReceiveSpec => ReceivesAreExact
<1>1. ReceiveSpec => []ReceiveInv
  BY ReceiveInvInit, ReceiveInvNext, PTL DEF ReceiveSpec
<1> QED BY <1>1, ReceiveInvSuffices, TokenStopsTaking, PTL
        DEF ReceiveSpec, ReceivesAreExact, CancelWins

-----------------------------------------------------------------------------
(***************************************************************************)
(* The rate limiter: what the bucket has given since any moment, with what *)
(* it still has, is the burst and what has been earned since               *)
(***************************************************************************)
\* A bucket that has given something since the observer started has been refilled
\* up to a clock that is not long before; what it has given and what it still has
\* then is the burst and what has been earned since.
Accounted ==
  /\ window.since <= clock
  /\ window.spent = 0 => tokens <= Full
  /\ window.spent # 0 =>
       /\ window.since - MaxLag <= lastRefill
       /\ window.spent + tokens <= Full + lastRefill - window.since + MaxLag

\* A clock that has been read is not long ago.
ReadsAreFresh ==
  \A c \in Callers : phase[c] = "reading" => read[c] <= clock /\ clock - MaxLag <= read[c]

RateInv == BucketTypeOK /\ BucketBounded /\ ReadsAreFresh /\ (Limited => Accounted)

\* The bucket holds something when it is full.
LEMMA FullIsPositive == Full \in Nat /\ Full >= Period
  BY RateAssumption, SMT DEF Full

\* What a refill leaves.
LEMMA RefillBounds ==
  ASSUME RateInv, NEW now \in Nat, now <= clock
  PROVE  /\ Refilled(now) \in Nat /\ Refilled(now) <= Full
         /\ RefilledTo(now) \in Nat /\ RefilledTo(now) <= clock
         /\ Limited => /\ RefilledTo(now) >= lastRefill /\ RefilledTo(now) >= now
                       /\ Refilled(now) - tokens <= RefilledTo(now) - lastRefill
  BY FullIsPositive, RateAssumption DEF RateInv, BucketTypeOK, BucketBounded, Refilled, RefilledTo, Least

\* The invariant holds at the start.
LEMMA RateBegins == RateInit => RateInv
  BY FullIsPositive, RateAssumption
  DEF RateInit, RateInv, BucketTypeOK, BucketBounded, ReadsAreFresh, Accounted, Phases

\* A caller at the lock leaves it with the books in order.
LEMMA AcquireKeepsBooks ==
  ASSUME RateInv, NEW c \in Callers, Acquire(c)
  PROVE  RateInv'
<1>1. read[c] \in Nat /\ read[c] <= clock /\ clock - MaxLag <= read[c]
  BY DEF RateInv, BucketTypeOK, ReadsAreFresh, Acquire
<1> DEFINE left == Refilled(read[c]) upto == RefilledTo(read[c])
<1>2. /\ left \in Nat /\ left <= Full /\ upto \in Nat /\ upto <= clock
      /\ Limited => /\ upto >= lastRefill /\ upto >= read[c]
                    /\ left - tokens <= upto - lastRefill
  BY <1>1, RefillBounds
<1>3. lastRefill' = upto /\ clock' = clock /\ cancelled' = cancelled
  BY DEF Acquire
<1>4. CASE Spend(c)
  <2>1. /\ left >= Period /\ tokens' = left - Period /\ read' = read
        /\ window' = [window EXCEPT !.spent = @ + Period]
        /\ phase' = [phase EXCEPT ![c] = "ready"] /\ started' = [started EXCEPT ![c] = @ + 1]
    BY <1>4 DEF Spend
  <2>2. window'.since = window.since /\ window'.spent = window.spent + Period
    BY <2>1 DEF RateInv, BucketTypeOK
  <2> HIDE DEF left, upto
  <2>6. Limited => Accounted'
    <3> SUFFICES ASSUME Limited PROVE Accounted'
      OBVIOUS
    <3>0. /\ window.since \in Nat /\ window.spent \in Nat /\ tokens \in Nat /\ clock \in Nat
          /\ lastRefill \in Nat /\ MaxLag \in Nat /\ Period \in Nat \ {0} /\ Full \in Nat
      BY FullIsPositive, RateAssumption DEF RateInv, BucketTypeOK
    <3>1. /\ window'.since <= clock' /\ window'.spent # 0
          /\ window'.since - MaxLag <= lastRefill'
      BY <3>0, <1>1, <1>2, <1>3, <2>2 DEF RateInv, Accounted
    <3>2. window'.spent + tokens' <= Full + lastRefill' - window'.since + MaxLag
      <4>1. CASE window.spent = 0
        BY <4>1, <3>0, <3>1, <1>2, <1>3, <2>1, <2>2
      <4>2. CASE window.spent # 0 BY <4>2, <3>0, <1>2, <1>3, <2>1, <2>2 DEF RateInv, Accounted
      <4> QED BY <4>1, <4>2
    <3> QED BY <3>1, <3>2 DEF Accounted, Full
  <2> QED
    BY <1>2, <1>3, <2>1, RateAssumption, FullIsPositive, <2>6 DEF RateInv, BucketTypeOK, ReadsAreFresh, Phases,
       BucketBounded, Full
<1>5. CASE Sleep(c)
  <2>1. /\ left < Period /\ tokens' = left /\ window' = window /\ started' = started
        /\ phase' = [phase EXCEPT ![c] = "sleeping"]
        /\ read' = [read EXCEPT ![c] = clock + Period - left]
    BY <1>5 DEF Sleep
  <2> HIDE DEF left, upto
  <2>5. Limited => Accounted'
    BY FullIsPositive, RateAssumption, <1>2, <1>3, <2>1 DEF RateInv, Accounted, Full, BucketTypeOK
  <2> QED
    BY <1>2, <2>1, RateAssumption, <1>3, FullIsPositive, <2>5 DEF RateInv, BucketTypeOK, ReadsAreFresh, Phases,
       BucketBounded, Full
<1> QED BY <1>4, <1>5 DEF Acquire

\* Every step keeps the books in order.
LEMMA RateSteps == RateInv /\ [RateNext]_rateVars => RateInv'
<1> SUFFICES ASSUME RateInv, [RateNext]_rateVars PROVE RateInv'
  OBVIOUS
<1> USE RateAssumption DEF RateInv
<1>1. CASE Tick
  BY <1>1 DEF Tick, BucketTypeOK, BucketBounded, ReadsAreFresh, Accounted, Full
<1>2. CASE Observe
  BY <1>2 DEF Observe, BucketTypeOK, BucketBounded, ReadsAreFresh, Accounted, Full
<1>3. ASSUME NEW c \in Callers, ReadClock(c) PROVE RateInv'
  BY <1>3 DEF ReadClock, BucketTypeOK, BucketBounded, ReadsAreFresh, Accounted, Full, Phases
<1>4. ASSUME NEW c \in Callers, Acquire(c) PROVE RateInv'
  BY <1>4, AcquireKeepsBooks
<1>5. ASSUME NEW c \in Callers, Wake(c) \/ Refuse(c) PROVE RateInv'
  BY <1>5 DEF Wake, Refuse, BucketTypeOK, BucketBounded, ReadsAreFresh, Accounted, Full, Phases
<1>6. ASSUME NEW c \in Callers, Cancel(c) PROVE RateInv'
  BY <1>6 DEF Cancel, BucketTypeOK, BucketBounded, ReadsAreFresh, Accounted, Full
<1>7. CASE UNCHANGED rateVars
  BY <1>7 DEF rateVars, BucketTypeOK, BucketBounded, ReadsAreFresh, Accounted, Full
<1> QED BY <1>1, <1>2, <1>3, <1>4, <1>5, <1>6, <1>7 DEF RateNext, Step

\* The books are always in order.
THEOREM BooksInOrder == RateSpec => []RateInv
  BY RateBegins, RateSteps, PTL DEF RateSpec

\* The bucket never holds more than the burst and is never refilled from the future
\* (RateLimiterState::refill).
THEOREM BucketSafety == RateSpec => []BucketBounded
<1>1. RateInv => BucketBounded
  BY DEF RateInv
<1> QED BY <1>1, BooksInOrder, PTL

\* In any stretch of time no more requests start than a full bucket and what that
\* stretch earns, however the callers interleave between the clock and the lock
\* (HttpClient::wait_for_rate_limit).
THEOREM RateSafety == RateSpec => []AnyWindow
<1>1. RateInv => AnyWindow
  <2> SUFFICES ASSUME RateInv, Limited PROVE window.spent <= Full + (clock - window.since) + MaxLag
    BY DEF AnyWindow
  <2> QED BY FullIsPositive, RateAssumption DEF RateInv, Accounted, BucketTypeOK, BucketBounded
<1> QED BY <1>1, BooksInOrder, PTL

\* The bucket is what its configuration says at every moment and over any stretch
\* of time (HttpClient::wait_for_rate_limit, RateLimiterState::refill).
THEOREM RateIsKept == RateSpec => []RateKept
<1>1. RateInv => BucketTypeOK
  BY DEF RateInv
<1>2. BucketTypeOK /\ BucketBounded /\ AnyWindow => RateKept
  BY DEF RateKept
<1> QED BY <1>1, <1>2, BooksInOrder, BucketSafety, RateSafety, PTL

-----------------------------------------------------------------------------
(***************************************************************************)
(* Operations.  Each entry of the index is that of an operation that       *)
(* declares the id; those of an id in a source are as many as the          *)
(* operations of that source which declare it and are indexed, and each of *)
(* these has one.  What a target was resolved to is what it would be now.  *)
(***************************************************************************)
AllPositions == UNION {Positions(n) : n \in Openapi}
Filed == {OperationEntry(p) : p \in AllPositions}
Indexed(n, id) == Declaring(n, id) \ pending

Catalogued == sources \in Catalogues /\ pending \subseteq AllPositions

FiledAsDeclared ==
  \A id \in DOMAIN index :
    /\ id # OperationNone /\ index[id] # << >> /\ index[id] \in Seq(Filed)
    /\ \A k \in DOMAIN index[id] : \E p \in AllPositions :
         OperationAt(p).id = id /\ IsRoutable(p) /\ index[id][k] = OperationEntry(p)

NoneIsLost ==
  \A id : id # OperationNone => \A n \in Openapi :
    /\ \A p \in Indexed(n, id) : \E k \in DOMAIN Of(id) : Of(id)[k] = OperationEntry(p)
    /\ IsFiniteSet(Indexed(n, id)) /\ Cardinality(MatchedPlaces(id, n)) = Cardinality(Indexed(n, id))

Replied ==
  answer # OperationNone =>
    pending = {} /\ answer.target \in OperationTargets /\ answer.to = Resolution(answer.target)

OperationInv == Catalogued /\ FiledAsDeclared /\ NoneIsLost /\ Replied

FixedPlaces(n, i) == {[source |-> n, item |-> i, method |-> m, additional |-> FALSE] : m \in DOMAIN i.fixed}
AdditionalPlaces(n, i) == {[source |-> n, item |-> i, method |-> m, additional |-> TRUE] : m \in DOMAIN i.additional}

\* A place in a document is told by its item, its method and which of the two kinds it is.
LEMMA PositionsOf ==
  ASSUME NEW n, NEW p \in Positions(n)
  PROVE  /\ p.source = n /\ p.item \in Kept(n).items /\ p.additional \in BOOLEAN
         /\ p = [source |-> n, item |-> p.item, method |-> p.method, additional |-> p.additional]
         /\ (~p.additional => p.method \in DOMAIN p.item.fixed)
<1>1. PICK i \in Kept(n).items : p \in FixedPlaces(n, i) \union AdditionalPlaces(n, i)
  BY DEF Positions, FixedPlaces, AdditionalPlaces
<1>2. CASE p \in FixedPlaces(n, i)
  <2>1. PICK m \in DOMAIN i.fixed : p = [source |-> n, item |-> i, method |-> m, additional |-> FALSE]
    BY <1>2 DEF FixedPlaces
  <2> QED BY <1>1, <2>1
<1>3. CASE p \in AdditionalPlaces(n, i)
  <2>1. PICK m \in DOMAIN i.additional : p = [source |-> n, item |-> i, method |-> m, additional |-> TRUE]
    BY <1>3 DEF AdditionalPlaces
  <2> QED BY <1>1, <2>1
<1> QED BY <1>1, <1>2, <1>3

\* What is declared is what can be indexed.
LEMMA DeclaringIs ==
  ASSUME NEW n, NEW id, NEW p
  PROVE  p \in Declaring(n, id) <=> p \in Positions(n) /\ OperationAt(p).id = id /\ IsRoutable(p)
  BY PositionsOf DEF Declaring, IsRoutable

LEMMA OperationBegins == OperationInit => OperationInv
<1> SUFFICES ASSUME OperationInit
             PROVE  OperationInv
  OBVIOUS
<1>1. sources \in Catalogues /\ pending = AllPositions /\ index = << >> /\ answer = OperationNone
  BY DEF OperationInit, AllPositions
<1>2. DOMAIN index = {}
  BY <1>1
<1>3. ASSUME NEW id, NEW n \in Openapi
      PROVE  Indexed(n, id) = {} /\ Of(id) = << >> /\ MatchedPlaces(id, n) = {}
  BY <1>1, DeclaringIs, <1>2 DEF Indexed, MatchedPlaces, AllPositions, Of
<1> QED BY <1>1, <1>2, <1>3, FS_EmptySet DEF OperationInv, Catalogued, FiledAsDeclared, Replied, NoneIsLost

\* An entry added at the end is one place more, if it is of source n.
LEMMA OnePlaceMore ==
  ASSUME NEW S, NEW q \in Seq(S), NEW e \in S, NEW n
  PROVE  /\ IsFiniteSet({k \in DOMAIN q : q[k].source = n}) /\ Len(q) + 1 \notin DOMAIN q
         /\ {k \in DOMAIN Append(q, e) : Append(q, e)[k].source = n}
              = {k \in DOMAIN q : q[k].source = n} \union (IF e.source = n THEN {Len(q) + 1} ELSE {})
<1>1. Len(q) \in Nat /\ DOMAIN q = 1 .. Len(q)
  OBVIOUS
<1>3. IsFiniteSet(1 .. Len(q))
  BY <1>1, FS_Interval
<1>4. IsFiniteSet({k \in DOMAIN q : q[k].source = n}) BY <1>1, <1>3, FS_Subset
<1> QED BY <1>1, AppendProperties, <1>4

\* The places of a source are finitely many.
LEMMA PlacesAreFinite ==
  ASSUME FiledAsDeclared, NEW id, NEW n
  PROVE  /\ Of(id) \in Seq(Filed)
         /\ IsFiniteSet(MatchedPlaces(id, n))
         /\ \A k \in DOMAIN Of(id) : \E p \in Declaring(Of(id)[k].source, id) : Of(id)[k] = OperationEntry(p)
<1>1. Of(id) \in Seq(Filed)
  BY DEF Of, FiledAsDeclared
<1>4. \A k \in DOMAIN Of(id) : \E p \in Declaring(Of(id)[k].source, id) : Of(id)[k] = OperationEntry(p)
  <2>1. CASE id \in DOMAIN index
    <3>1. ASSUME NEW k \in DOMAIN Of(id)
          PROVE  \E p \in Declaring(Of(id)[k].source, id) : Of(id)[k] = OperationEntry(p)
      <4>1. PICK p \in AllPositions : OperationAt(p).id = id /\ IsRoutable(p) /\ Of(id)[k] = OperationEntry(p)
        BY <2>1, <3>1 DEF Of, FiledAsDeclared
      <4>2. PICK m \in Openapi : p \in Positions(m)
        BY DEF AllPositions
      <4> QED BY <4>1, <4>2, PositionsOf, DeclaringIs DEF OperationEntry
    <3> QED BY <3>1
  <2>2. CASE id \notin DOMAIN index
    BY <2>2 DEF Of
  <2> QED BY <2>1, <2>2
<1> QED BY <1>1, FS_Interval, <1>4, FS_Subset DEF MatchedPlaces

\* The documents do not change, and what they declare is read from them alone.
LEMMA DeclaredIsKept ==
  ASSUME UNCHANGED sources
  PROVE  /\ Openapi' = Openapi /\ AllPositions' = AllPositions /\ Filed' = Filed
         /\ \A n, id : Declaring(n, id)' = Declaring(n, id)
  BY DEF Openapi, AllPositions, Filed, Declaring, Positions, Kept, OperationAt, OperationEntry, OperationServer

\* An operation without an id, or one that cannot be sent, is no definition of any id.
LEMMA PassingOver ==
  ASSUME OperationInv, NEW p \in pending, OperationAt(p).id = OperationNone \/ ~IsRoutable(p),
         pending' = pending \ {p}, UNCHANGED <<sources, index>>
  PROVE  Catalogued' /\ FiledAsDeclared' /\ NoneIsLost'
<1> USE DEF OperationInv
<1>3. NoneIsLost'
  <2>2. \A id, n : id # OperationNone => Indexed(n, id)' = Indexed(n, id) BY DeclaringIs, DeclaredIsKept DEF Indexed
  <2> QED BY <2>2, DeclaredIsKept DEF NoneIsLost, Of, MatchedPlaces, OperationEntry, OperationServer, OperationAt
<1> QED BY DeclaredIsKept, <1>3 DEF Catalogued, FiledAsDeclared

\* An operation that is filed is one entry more for its id, in its source.
LEMMA Filing ==
  ASSUME OperationInv, NEW p \in pending, NEW id, id = OperationAt(p).id, id # OperationNone, IsRoutable(p),
         pending' = pending \ {p}, UNCHANGED sources,
         index' = [i \in DOMAIN index \union {id} |-> IF i = id THEN Append(Of(id), OperationEntry(p)) ELSE index[i]]
  PROVE  Catalogued' /\ FiledAsDeclared' /\ NoneIsLost'
<1> DEFINE e == OperationEntry(p)
<1> USE DEF OperationInv
<1>2. PICK m \in Openapi : p \in Positions(m)
  BY DEF Catalogued, AllPositions
<1>3. p.source = m /\ p \in Declaring(m, id) /\ e \in Filed /\ e.source = m
  BY <1>2, PositionsOf, DeclaringIs DEF Filed, AllPositions, OperationEntry
<1>4. Of(id) \in Seq(Filed) /\ Of(id)' = Append(Of(id), e)
  BY PlacesAreFinite DEF Of
<1>5. /\ \A j : j # id => Of(j)' = Of(j)
      /\ \A k \in DOMAIN Of(id) : \E q \in AllPositions :
           OperationAt(q).id = id /\ IsRoutable(q) /\ Of(id)[k] = OperationEntry(q) BY DEF Of, FiledAsDeclared
<1>7. Len(Of(id)) \in Nat /\ DOMAIN Of(id) = 1 .. Len(Of(id)) /\ Append(Of(id), e) \in Seq(Filed)
      /\ DOMAIN Append(Of(id), e) = 1 .. Len(Of(id)) + 1 /\ Append(Of(id), e)[Len(Of(id)) + 1] = e
      /\ \A k \in 1 .. Len(Of(id)) : Append(Of(id), e)[k] = Of(id)[k]
  BY <1>3, <1>4, AppendProperties
<1> HIDE DEF e
<1>8. FiledAsDeclared'
  <2>1. ASSUME NEW j \in DOMAIN index'
        PROVE  /\ j # OperationNone /\ index'[j] # << >> /\ index'[j] \in Seq(Filed)
               /\ \A k \in DOMAIN index'[j] : \E q \in AllPositions :
                    OperationAt(q).id = j /\ IsRoutable(q) /\ index'[j][k] = OperationEntry(q)
    <3>1. CASE j # id
      <4>1. j \in DOMAIN index /\ index'[j] = index[j]
        BY <3>1
      <4>2. /\ j # OperationNone /\ index[j] # << >> /\ index[j] \in Seq(Filed)
            /\ \A k \in DOMAIN index[j] : \E q \in AllPositions :
                 OperationAt(q).id = j /\ IsRoutable(q) /\ index[j][k] = OperationEntry(q)
        BY <4>1 DEF FiledAsDeclared
      <4> HIDE DEF OperationInv
      <4> QED BY <4>1, <4>2
    <3>2. CASE j = id
      <4>2. ASSUME NEW k \in DOMAIN Append(Of(id), e)
            PROVE  \E q \in AllPositions :
                     OperationAt(q).id = id /\ IsRoutable(q) /\ Append(Of(id), e)[k] = OperationEntry(q)
        <5>1. CASE k = Len(Of(id)) + 1
          BY <5>1, <1>2, <1>7 DEF e, AllPositions
        <5>2. CASE k \in 1 .. Len(Of(id))
          BY <5>2, <1>5, <1>7
        <5> QED BY <5>1, <5>2, <1>7
      <4> QED BY <3>2, <4>2, <1>7 DEF e
    <3> QED BY <3>1, <3>2
  <2>2. Filed' = Filed /\ AllPositions' = AllPositions
    BY DeclaredIsKept
  <2>3. \A j \in DOMAIN index' :
          /\ j # OperationNone /\ index'[j] # << >> /\ index'[j] \in Seq(Filed')
          /\ \A k \in DOMAIN index'[j] : \E q \in AllPositions' :
               OperationAt(q).id = j /\ IsRoutable(q) /\ index'[j][k] = OperationEntry(q)
    <3> HIDE DEF OperationInv
    <3>1. \A j \in DOMAIN index' :
            /\ j # OperationNone /\ index'[j] # << >> /\ index'[j] \in Seq(Filed)
            /\ \A k \in DOMAIN index'[j] : \E q \in AllPositions :
                 OperationAt(q).id = j /\ IsRoutable(q) /\ index'[j][k] = OperationEntry(q)
      BY <2>1
    <3>2. ASSUME NEW j \in DOMAIN index', NEW k \in DOMAIN index'[j]
          PROVE  \E q \in AllPositions' : OperationAt(q).id = j /\ IsRoutable(q) /\ index'[j][k] = OperationEntry(q)
      <4>1. PICK q \in AllPositions : OperationAt(q).id = j /\ IsRoutable(q) /\ index'[j][k] = OperationEntry(q)
        BY <3>1
      <4> QED BY <4>1, <2>2
    <3> QED BY <3>1, <3>2, <2>2
  <2> HIDE DEF OperationInv
  <2> QED BY <2>3 DEF FiledAsDeclared
<1>10. \A n : {k \in DOMAIN Append(Of(id), e) : Append(Of(id), e)[k].source = n}
                = {k \in DOMAIN Of(id) : Of(id)[k].source = n} \union (IF e.source = n THEN {Len(Of(id)) + 1} ELSE {})
  BY <1>3, <1>4, OnePlaceMore
<1>9. NoneIsLost'
  <2>1. ASSUME NEW j, j # OperationNone, NEW n \in Openapi
        PROVE  /\ \A q \in Indexed(n, j)' : \E k \in DOMAIN Of(j)' : Of(j)'[k] = OperationEntry(q)
               /\ IsFiniteSet(Indexed(n, j)') /\ Cardinality(MatchedPlaces(j, n)') = Cardinality(Indexed(n, j)')
    <3>1. Indexed(n, j)' = Declaring(n, j) \ (pending \ {p})
      BY DeclaredIsKept DEF Indexed
    <3>2. MatchedPlaces(j, n)' = {k \in DOMAIN Of(j)' : Of(j)'[k].source = n}
      BY DEF MatchedPlaces
    <3>3. /\ \A q \in Indexed(n, j) : \E k \in DOMAIN Of(j) : Of(j)[k] = OperationEntry(q)
          /\ IsFiniteSet(Indexed(n, j)) /\ Cardinality(MatchedPlaces(j, n)) = Cardinality(Indexed(n, j))
      BY <2>1 DEF NoneIsLost
    <3>4. CASE j # id
      <4>2. Indexed(n, j)' = Indexed(n, j) BY <3>1, <3>4, DeclaringIs DEF Indexed
      <4>3. MatchedPlaces(j, n)' = MatchedPlaces(j, n)
        BY <3>2, <3>4, <1>5 DEF MatchedPlaces
      <4> QED BY <3>3, <3>4, <4>2, <4>3, <1>5
    <3>5. CASE j = id /\ n # m
      <4>2. Indexed(n, j)' = Indexed(n, j) BY <3>1, <3>5, <1>3, PositionsOf DEF Indexed, Declaring
      <4>3. MatchedPlaces(j, n)' = MatchedPlaces(j, n) BY <1>10, <3>2, <3>5, <1>3, <1>4 DEF MatchedPlaces
      <4> QED BY <3>3, <4>2, <4>3, <3>5, <1>4, <1>7
    <3>6. CASE j = id /\ n = m
      <4>1. p \in Declaring(n, j) /\ p \notin Indexed(n, j)
        BY <3>6, <1>3 DEF Indexed
      <4>2. Indexed(n, j)' = Indexed(n, j) \union {p}
        BY <3>1, <4>1 DEF Indexed
      <4>3. /\ MatchedPlaces(j, n)' = MatchedPlaces(j, n) \union {Len(Of(id)) + 1}
            /\ IsFiniteSet(MatchedPlaces(j, n)) /\ Len(Of(id)) + 1 \notin MatchedPlaces(j, n)
        <5>1. IsFiniteSet(MatchedPlaces(j, n))
          BY PlacesAreFinite
        <5>2. Len(Of(id)) + 1 \notin MatchedPlaces(j, n)
          BY <3>6, <1>7 DEF MatchedPlaces
        <5> QED BY <5>1, <5>2, <1>10, <3>2, <3>6, <1>3, <1>4 DEF MatchedPlaces
      <4>6. IsFiniteSet(Indexed(n, j) \union {p})
            /\ Cardinality(Indexed(n, j) \union {p}) = Cardinality(Indexed(n, j)) + 1
        BY <3>3, <4>1, FS_AddElement
      <4>7. Cardinality(MatchedPlaces(j, n) \union {Len(Of(id)) + 1}) = Cardinality(MatchedPlaces(j, n)) + 1
        BY <4>3, FS_AddElement
      <4>9. \A q \in Indexed(n, j)' : \E k \in DOMAIN Of(j)' : Of(j)'[k] = OperationEntry(q)
        BY <4>2, <3>3, <3>6, <1>4, <1>7 DEF e
      <4> QED BY <4>2, <4>6, <3>3, <4>3, <4>7, <4>9
    <3> QED BY <3>4, <3>5, <3>6
  <2> QED BY <2>1, DeclaredIsKept DEF NoneIsLost, OperationEntry, OperationServer, OperationAt
<1> QED BY DeclaredIsKept, <1>8, <1>9 DEF Catalogued

\* What is resolved once everything is indexed is resolved the same way ever after.
LEMMA OperationKeeps == OperationInv /\ [OperationNext]_operationVars => OperationInv'
<1> SUFFICES ASSUME OperationInv, [OperationNext]_operationVars
             PROVE  OperationInv'
  OBVIOUS
<1>1. CASE IndexOperation
  <2>1. PICK p \in pending :
          /\ pending' = pending \ {p}
          /\ index' = IF OperationAt(p).id = OperationNone \/ ~IsRoutable(p) THEN index
                      ELSE [i \in DOMAIN index \union {OperationAt(p).id} |->
                              IF i = OperationAt(p).id THEN Append(Of(OperationAt(p).id), OperationEntry(p)) ELSE index[i]]
          /\ UNCHANGED <<sources, answer>>
    BY <1>1 DEF IndexOperation
  <2>3. Catalogued' /\ FiledAsDeclared' /\ NoneIsLost'
    <3>1. CASE OperationAt(p).id = OperationNone \/ ~IsRoutable(p)
      BY <3>1, <2>1, PassingOver
    <3>2. CASE ~(OperationAt(p).id = OperationNone \/ ~IsRoutable(p))
      BY <3>2, <2>1, Filing
    <3> QED BY <3>1, <3>2
  <2> QED BY <2>1, <2>3 DEF OperationInv, Replied
<1>2. ASSUME UNCHANGED <<sources, pending, index>>
      PROVE  Catalogued' /\ FiledAsDeclared' /\ NoneIsLost' /\ \A t : Resolution(t)' = Resolution(t)
  <2>1. /\ AllPositions' = AllPositions /\ Filed' = Filed /\ Openapi' = Openapi
        /\ \A n, id : Declaring(n, id)' = Declaring(n, id)
    BY <1>2, DeclaredIsKept
  <2>2. \A n, id : Of(id)' = Of(id) /\ MatchedPlaces(id, n)' = MatchedPlaces(id, n)
    BY <1>2 DEF Of, MatchedPlaces
  <2>6. NoneIsLost' BY <2>1, <2>2, <1>2 DEF OperationInv, NoneIsLost, Indexed
  <2>7. \A e : Projected(e)' = Projected(e)
    BY <1>2 DEF Projected, Kept
  <2>8. \A name : Sourced(name)' = Sourced(name)
    BY <1>2 DEF Sourced
  <2>10. \A name, id : ResolveInSource(name, id)' = ResolveInSource(name, id)
    <3>1. ASSUME NEW name, NEW id
          PROVE  ResolveInSource(name, id)' = ResolveInSource(name, id)
      <4> DEFINE n == CHOOSE m \in Sourced(name) : TRUE
      <4> DEFINE e == Of(id)[CHOOSE k \in MatchedPlaces(id, n) : TRUE]
      <4> DEFINE reply ==
            IF Sourced(name) = {} THEN OperationError("SourceDescriptionNotFound")
            ELSE CASE sources[n].type # "openapi" -> OperationError("UnsupportedSourceDescriptionType")
                   [] sources[n].type = "openapi" /\ MatchedPlaces(id, n) = {} -> OperationError("OperationIdNotFound")
                   [] sources[n].type = "openapi" /\ Cardinality(MatchedPlaces(id, n)) = 1 -> Projected(e)
                   [] OTHER -> OperationError("OperationIdAmbiguous")
      <4>1. n' = n
        BY <2>8
      <4>2. ResolveInSource(name, id) = reply /\ ResolveInSource(name, id)' = reply'
        BY DEF ResolveInSource
      <4> HIDE DEF n
      <4>3. MatchedPlaces(id, n)' = MatchedPlaces(id, n) /\ Of(id)' = Of(id)
        BY <4>1, <2>2
      <4>4. e' = e
        BY <4>3
      <4> HIDE DEF e
      <4>6. reply' = reply BY <1>2, <2>8, <4>1, <4>3, <4>4, <2>7
      <4> HIDE DEF reply
      <4> QED BY <4>2, <4>6
    <3> QED BY <3>1
  <2>13. \A t : Resolution(t)' = Resolution(t)
    BY <2>10, <1>2, <2>7, <2>8 DEF Resolution, ResolveBare, ResolveOperationPath, Positions, Kept
  <2> QED BY <1>2, <2>1, <2>6, <2>13 DEF OperationInv, Catalogued, FiledAsDeclared
<1>3. CASE Resolve BY <1>2, <1>3 DEF OperationInv, Resolve, Replied
<1>4. CASE UNCHANGED operationVars BY <1>2, <1>4 DEF OperationInv, operationVars, Replied
<1> QED BY <1>1, <1>3, <1>4 DEF OperationNext

\* A source is the only one of its name.
LEMMA SourceIsOne ==
  ASSUME Catalogued, NEW name, NEW n \in Sourced(name)
  PROVE  Sourced(name) = {n} /\ (CHOOSE m \in Sourced(name) : TRUE) = n
  BY CatalogueAssumption DEF Sourced, Catalogued

\* What an entry is projected to.
LEMMA ProjectedIs ==
  ASSUME NEW e, NEW base, base = IF e.server \in Undeclared THEN Kept(e.source).servers ELSE e.server
  PROVE  Projected(e) = IF base \in Issues THEN OperationError("SourceDescriptionParse")
                        ELSE [error |-> OperationNone, method |-> e.method, path |-> e.path, base |-> base]
  BY DEF Projected

\* With everything indexed, an id has in a source as many entries as operations declare it.
LEMMA AllAreFiled ==
  ASSUME OperationInv, pending = {}, NEW id, id # OperationNone, NEW n \in Openapi
  PROVE  /\ IsFiniteSet(MatchedPlaces(id, n)) /\ IsFiniteSet(Declaring(n, id))
         /\ Cardinality(MatchedPlaces(id, n)) = Cardinality(Declaring(n, id))
         /\ \A k \in MatchedPlaces(id, n) : \E p \in Declaring(n, id) : Of(id)[k] = OperationEntry(p)
         /\ \A p \in Declaring(n, id) : \E k \in MatchedPlaces(id, n) : Of(id)[k] = OperationEntry(p)
<1>2. /\ \A p \in Declaring(n, id) : \E k \in DOMAIN Of(id) : Of(id)[k] = OperationEntry(p)
      /\ IsFiniteSet(Declaring(n, id)) /\ Cardinality(MatchedPlaces(id, n)) = Cardinality(Declaring(n, id))
  BY DEF OperationInv, NoneIsLost, Indexed
<1>3. FiledAsDeclared
  BY DEF OperationInv
<1>4. \A k \in MatchedPlaces(id, n) : \E p \in Declaring(n, id) : Of(id)[k] = OperationEntry(p)
  BY <1>3, PlacesAreFinite DEF MatchedPlaces
<1>5. ASSUME NEW p \in Declaring(n, id)
      PROVE  \E k \in MatchedPlaces(id, n) : Of(id)[k] = OperationEntry(p)
  <2>1. PICK k \in DOMAIN Of(id) : Of(id)[k] = OperationEntry(p)
    BY <1>2
  <2> QED BY <2>1, PositionsOf DEF MatchedPlaces, OperationEntry, Declaring
<1> QED BY <1>2, <1>4, <1>5, <1>3, PlacesAreFinite

\* The number of declaring operations decides, and one alone is what is sent.
LEMMA SourceDecides ==
  ASSUME OperationInv, pending = {}, NEW id, id # OperationNone, NEW name, NEW n \in Sourced(name),
         sources[n].type = "openapi"
  PROVE  /\ Declaring(n, id) = {} => ResolveInSource(name, id) = OperationError("OperationIdNotFound")
         /\ Cardinality(Declaring(n, id)) > 1 => ResolveInSource(name, id) = OperationError("OperationIdAmbiguous")
         /\ \A p : Declaring(n, id) = {p} => ResolveInSource(name, id) = Projected(OperationEntry(p))
         /\ Declaring(n, id) = {} \/ Cardinality(Declaring(n, id)) > 1 \/ \E p : Declaring(n, id) = {p}
         /\ \A p : Cardinality({p}) = 1
<1>1. n \in Openapi /\ Catalogued
  BY DEF Openapi, Sourced, OperationInv
<1> DEFINE places == MatchedPlaces(id, n)
<1>3. ResolveInSource(name, id) =
        CASE sources[n].type # "openapi" -> OperationError("UnsupportedSourceDescriptionType")
          [] sources[n].type = "openapi" /\ places = {} -> OperationError("OperationIdNotFound")
          [] sources[n].type = "openapi" /\ Cardinality(places) = 1 -> Projected(Of(id)[CHOOSE k \in places : TRUE])
          [] OTHER -> OperationError("OperationIdAmbiguous") BY <1>1, SourceIsOne DEF ResolveInSource
<1>4. /\ IsFiniteSet(places) /\ IsFiniteSet(Declaring(n, id)) /\ Cardinality(places) = Cardinality(Declaring(n, id))
      /\ \A k \in places : \E p \in Declaring(n, id) : Of(id)[k] = OperationEntry(p)
  BY <1>1, AllAreFiled
<1> HIDE DEF places
<1>5. /\ Cardinality(places) \in Nat /\ (Cardinality(places) = 0 <=> places = {})
      /\ (Cardinality(Declaring(n, id)) = 0 <=> Declaring(n, id) = {})
  BY <1>4, FS_CardinalityType, FS_EmptySet
<1>6. Cardinality(Declaring(n, id)) = 1 <=> \E p : Declaring(n, id) = {p}
  BY <1>4, FS_Singleton
<1>7. \A p : Cardinality({p}) = 1
  BY FS_Singleton
<1>8. CASE Declaring(n, id) = {}
  <2>2. ResolveInSource(name, id) = OperationError("OperationIdNotFound") BY <1>8, <1>4, <1>5, <1>3
  <2>3. ~(Cardinality(Declaring(n, id)) > 1)
    BY <1>8, <1>5
  <2> QED BY <1>8, <2>2, <2>3, <1>7
<1>9. ASSUME NEW p, Declaring(n, id) = {p}
      PROVE  ResolveInSource(name, id) = Projected(OperationEntry(p)) /\ Cardinality(Declaring(n, id)) = 1
  BY <1>9, <1>4, <1>5, <1>6, <1>3
<1>10. CASE Cardinality(Declaring(n, id)) > 1
  <2>1. Cardinality(places) # 1 /\ places # {} /\ Declaring(n, id) # {} /\ Cardinality(Declaring(n, id)) # 1
    BY <1>10, <1>4, <1>5
  <2> QED BY <1>10, <2>1, <1>3, <1>9, <1>7
<1>11. Declaring(n, id) = {} \/ Cardinality(Declaring(n, id)) > 1 \/ \E p : Declaring(n, id) = {p}
  BY <1>4, <1>5, <1>6
<1> QED BY <1>7, <1>8, <1>9, <1>10, <1>11

LEMMA AnswerErrors ==
  ASSUME NEW e
  PROVE  /\ Projected(e).error \in {OperationNone, "SourceDescriptionParse"}
         /\ OperationNone \notin OperationErrors
         /\ (\A kind : OperationError(kind).error = kind)
  BY CatalogueAssumption DEF Projected, OperationError

LEMMA ExactlyOne ==
  ASSUME OperationInv
  PROVE  ExactlyOneDecides
<1> SUFFICES ASSUME answer # OperationNone, answer.target.form = "qualified",
                    NEW n \in Sourced(answer.target.source), sources[n].type = "openapi"
             PROVE  /\ answer.to.error = "OperationIdAmbiguous" <=> Cardinality(Declaring(n, answer.target.id)) > 1
                    /\ answer.to.error = "OperationIdNotFound" <=> Declaring(n, answer.target.id) = {}
  BY DEF ExactlyOneDecides
<1> DEFINE id == answer.target.id
<1>1. pending = {} /\ answer.target \in OperationTargets /\ answer.to = Resolution(answer.target)
  BY DEF OperationInv, Replied
<1>2. answer.to = ResolveInSource(answer.target.source, id) /\ id # OperationNone
  BY <1>1, CatalogueAssumption DEF Resolution
<1>3. /\ Declaring(n, id) = {} => answer.to = OperationError("OperationIdNotFound")
      /\ Cardinality(Declaring(n, id)) > 1 => answer.to = OperationError("OperationIdAmbiguous")
      /\ \A p : Declaring(n, id) = {p} => answer.to = Projected(OperationEntry(p))
      /\ Declaring(n, id) = {} \/ Cardinality(Declaring(n, id)) > 1 \/ \E p : Declaring(n, id) = {p}
      /\ \A p : Cardinality({p}) = 1
  <2> DEFINE name == answer.target.source
  <2>1. n \in Sourced(name) /\ answer.to = ResolveInSource(name, id)
    BY <1>2
  <2> HIDE DEF name, id
  <2>2. /\ Declaring(n, id) = {} => ResolveInSource(name, id) = OperationError("OperationIdNotFound")
        /\ Cardinality(Declaring(n, id)) > 1 => ResolveInSource(name, id) = OperationError("OperationIdAmbiguous")
        /\ \A p : Declaring(n, id) = {p} => ResolveInSource(name, id) = Projected(OperationEntry(p))
        /\ Declaring(n, id) = {} \/ Cardinality(Declaring(n, id)) > 1 \/ \E p : Declaring(n, id) = {p}
        /\ \A p : Cardinality({p}) = 1
    BY <1>1, <1>2, <2>1, SourceDecides
  <2> QED BY <2>1, <2>2
<1> HIDE DEF id
<1>4. CASE Declaring(n, id) = {} BY <1>3, <1>4, FS_EmptySet, AnswerErrors DEF id
<1>5. CASE Cardinality(Declaring(n, id)) > 1 BY <1>3, <1>5, FS_EmptySet, AnswerErrors DEF id
<1>6. ASSUME NEW p, Declaring(n, id) = {p}
      PROVE  /\ answer.to.error = "OperationIdAmbiguous" <=> Cardinality(Declaring(n, id)) > 1
             /\ answer.to.error = "OperationIdNotFound" <=> Declaring(n, id) = {}
  BY <1>3, <1>6, AnswerErrors DEF OperationErrors
<1> QED BY <1>3, <1>4, <1>5, <1>6 DEF id

\* An entry that is projected to a request is sent where its operation, its item or its
\* document says.
LEMMA EntryIsSent ==
  ASSUME NEW n, NEW p \in Positions(n), Projected(OperationEntry(p)).error = OperationNone
  PROVE  LET to == Projected(OperationEntry(p)) IN
         /\ p.item.path = to.path /\ (p.additional => to.method = p.method)
         /\ \/ OperationAt(p).servers = to.base
            \/ OperationAt(p).servers \in Undeclared /\ p.item.servers = to.base
            \/ {OperationAt(p).servers, p.item.servers} \subseteq Undeclared /\ Kept(n).servers = to.base
<1> DEFINE e == OperationEntry(p)
<1> DEFINE base == IF e.server \in Undeclared THEN Kept(e.source).servers ELSE e.server
<1> HIDE DEF e
<1>4. Projected(e) = [error |-> OperationNone, method |-> e.method, path |-> e.path, base |-> base]
  BY AnswerErrors DEF OperationError, e, Projected, OperationErrors
<1> QED BY PositionsOf, <1>4 DEF e, OperationEntry, OperationServer

\* What is resolved in a source to a request is an operation of that source.
LEMMA FoundInSource ==
  ASSUME OperationInv, pending = {}, NEW id, id # OperationNone, NEW name,
         ResolveInSource(name, id).error = OperationNone
  PROVE  \E n \in Sourced(name) : \E p \in Positions(n) : ResolveInSource(name, id) = Projected(OperationEntry(p))
<1>1. OperationError("SourceDescriptionNotFound").error # OperationNone
      /\ OperationError("UnsupportedSourceDescriptionType").error # OperationNone
      /\ OperationError("OperationIdNotFound").error # OperationNone
      /\ OperationError("OperationIdAmbiguous").error # OperationNone
  BY AnswerErrors DEF OperationErrors
<1>2. Sourced(name) # {}
  BY <1>1 DEF ResolveInSource
<1>3. PICK n \in Sourced(name) : TRUE
  BY <1>2
<1>6. sources[n].type = "openapi" BY <1>2, <1>3, SourceIsOne, <1>1 DEF ResolveInSource, OperationInv
<1>7. PICK p : Declaring(n, id) = {p} /\ ResolveInSource(name, id) = Projected(OperationEntry(p))
  BY <1>1, <1>3, <1>6, SourceDecides
<1> QED BY <1>3, <1>7, DeclaringIs

Pointed(n, t) == {p \in Positions(n) : p.item.path = t.path /\ p.method = t.method /\ p.additional = t.additional}

\* A pointer selects one place at most, and the answer is that of the operation there.
LEMMA PointerSelects ==
  ASSUME OperationInv, NEW t, NEW n \in Sourced(t.source), sources[n].type = "openapi"
  PROVE  /\ \A p, q \in Pointed(n, t) : p = q
         /\ \A p \in Pointed(n, t) : IsRoutable(p) => ResolveOperationPath(t) = Projected(OperationEntry(p))
         /\ (\A p \in Pointed(n, t) : ~IsRoutable(p)) => ResolveOperationPath(t) = OperationError("SourceDescriptionParse")
<1>1. Catalogued /\ n \in Openapi
  BY DEF OperationInv, Openapi, Sourced
<1>2. ASSUME NEW p \in Pointed(n, t), NEW q \in Pointed(n, t)
      PROVE  p = q BY PositionsOf, <1>1, CatalogueAssumption DEF Pointed, Catalogued, Openapi, Kept
<1>4. ResolveOperationPath(t) =
        IF \E p \in Pointed(n, t) : IsRoutable(p)
        THEN Projected(OperationEntry(CHOOSE p \in Pointed(n, t) : IsRoutable(p)))
        ELSE OperationError("SourceDescriptionParse") BY <1>1, SourceIsOne DEF ResolveOperationPath, Pointed
<1>5. ASSUME NEW p \in Pointed(n, t), IsRoutable(p)
      PROVE  ResolveOperationPath(t) = Projected(OperationEntry(p)) BY <1>4, <1>5, <1>2
<1> QED BY <1>2, <1>4, <1>5

LEMMA Pointing ==
  ASSUME OperationInv, NEW t, ResolveOperationPath(t).error = OperationNone
  PROVE  \E n \in Sourced(t.source) : \E p \in Pointed(n, t) : ResolveOperationPath(t) = Projected(OperationEntry(p))
<1>1. OperationError("SourceDescriptionNotFound").error # OperationNone
      /\ OperationError("UnsupportedSourceDescriptionType").error # OperationNone
      /\ OperationError("SourceDescriptionParse").error # OperationNone
  BY AnswerErrors DEF OperationErrors
<1>2. Sourced(t.source) # {}
  BY <1>1 DEF ResolveOperationPath
<1>3. PICK n \in Sourced(t.source) : TRUE
  BY <1>2
<1>5. sources[n].type = "openapi" BY <1>2, <1>3, SourceIsOne, <1>1 DEF ResolveOperationPath, OperationInv
<1> QED BY <1>1, <1>3, <1>5, PointerSelects

LEMMA MeantFollows == OperationInv => OperationIsMeant
<1> SUFFICES ASSUME OperationInv
             PROVE  OperationIsMeant
  OBVIOUS
<1> DEFINE t == answer.target
<1>1. answer # OperationNone => pending = {} /\ t \in OperationTargets /\ answer.to = Resolution(t)
  BY DEF OperationInv, Replied
<1>3. \A x : /\ x.form = "bare" => Resolution(x) = ResolveBare(x.id)
             /\ x.form = "qualified" => Resolution(x) = ResolveInSource(x.source, x.id)
             /\ x.form = "pointer" => Resolution(x) = ResolveOperationPath(x)
  BY DEF Resolution
<1> HIDE DEF t
<1>6. OwnServer
  <2>1. SUFFICES ASSUME answer # OperationNone, answer.to.error = OperationNone, t.form \in {"qualified", "pointer"}
                 PROVE  \E n \in Sourced(t.source) : \E p \in Positions(n) :
                          /\ p.item.path = answer.to.path
                          /\ \/ OperationAt(p).servers = answer.to.base
                             \/ OperationAt(p).servers \in Undeclared /\ p.item.servers = answer.to.base
                             \/ {OperationAt(p).servers, p.item.servers} \subseteq Undeclared
                                /\ Kept(n).servers = answer.to.base
    BY DEF OwnServer, t
  <2>2. \E n \in Sourced(t.source) : \E p \in Positions(n) : answer.to = Projected(OperationEntry(p))
    <3>1. CASE t.form = "qualified"
      <4> DEFINE name == t.source
      <4> DEFINE id == t.id
      <4> HIDE DEF name, id
      <4> QED BY <2>1, <3>1, <1>1, CatalogueAssumption, <1>3, FoundInSource DEF name, id
    <3>2. CASE t.form = "pointer" BY <2>1, <3>2, <1>1, <1>3, Pointing DEF Pointed
    <3> QED BY <3>1, <3>2, <2>1
  <2>3. PICK n \in Sourced(t.source) : \E p \in Positions(n) : answer.to = Projected(OperationEntry(p))
    BY <2>2
  <2>4. PICK p \in Positions(n) : answer.to = Projected(OperationEntry(p))
    BY <2>3
  <2> QED BY <2>4, <2>1, EntryIsSent
<1>7. PathAgreesWithId
  <2>1. SUFFICES ASSUME answer # OperationNone, t.form = "pointer", NEW n \in Sourced(t.source),
                        sources[n].type = "openapi", NEW p \in Pointed(n, t), OperationAt(p).id # OperationNone
                 PROVE  LET byId == ResolveInSource(t.source, OperationAt(p).id) IN
                        \/ byId.error \in {"OperationIdAmbiguous", "OperationIdNotFound"} \/ byId = answer.to
                        \/ ~IsRoutable(p)
    BY DEF PathAgreesWithId, Pointed, t
  <2> DEFINE name == t.source
  <2> DEFINE id == OperationAt(p).id
  <2>2. CASE IsRoutable(p)
    <3>1. answer.to = Projected(OperationEntry(p)) BY <2>1, <2>2, PointerSelects, <1>1, <1>3
    <3>2. p \in Declaring(n, id)
      BY <2>2, DeclaringIs DEF Pointed
    <3>3. n \in Sourced(name) /\ id # OperationNone
      BY <2>1
    <3> HIDE DEF name, id
    <3>5. ResolveInSource(name, id) = OperationError("OperationIdAmbiguous")
          \/ ResolveInSource(name, id) = Projected(OperationEntry(p)) BY <3>2, <2>1, <3>3, <1>1, SourceDecides
    <3> QED BY <3>1, <3>5, AnswerErrors DEF name, id
  <2> QED BY <2>2
<1>8. BareNamesOnlySource
  <2>1. SUFFICES ASSUME answer # OperationNone, t.form = "bare", answer.to.error = OperationNone
                 PROVE  \E n \in DOMAIN sources : /\ answer.to = ResolveInSource(sources[n].name, t.id)
                                                  /\ \A m \in DOMAIN sources \ {n} : sources[m].type = "arazzo"
    BY DEF BareNamesOnlySource, t
  <2> DEFINE named == {n \in DOMAIN sources : sources[n].type # "arazzo"}
  <2>3. Cardinality(named) = 1 /\ named # {} /\ answer.to = ResolveInSource(sources[CHOOSE n \in named : TRUE].name, t.id)
    <3>2. ResolveBare(t.id) = IF named = {} THEN OperationError("OperationIdNotFound")
            ELSE IF Cardinality(named) = 1 THEN ResolveInSource(sources[CHOOSE n \in named : TRUE].name, t.id)
            ELSE OperationError("OperationIdAmbiguous")
      BY DEF ResolveBare
    <3> HIDE DEF named
    <3> QED BY <2>1, <1>1, <1>3, AnswerErrors, <3>2 DEF OperationErrors
  <2>4. IsFiniteSet(named)
    <3>1. Len(sources) \in Nat /\ named \subseteq 1 .. Len(sources)
      BY CatalogueAssumption DEF OperationInv, Catalogued
    <3>2. 1 \in Int /\ Len(sources) \in Int BY <3>1
    <3>3. IsFiniteSet(1 .. Len(sources)) BY ONLY <3>2, FS_Interval
    <3> QED BY <3>1, <3>3, FS_Subset
  <2>5. PICK n : named = {n}
    <3> HIDE DEF named
    <3> QED BY <2>3, <2>4, FS_Singleton
  <2>7. n \in DOMAIN sources /\ \A m \in DOMAIN sources \ {n} : sources[m].type = "arazzo"
    BY <2>5
  <2> HIDE DEF named
  <2> QED BY <2>3, <2>5, <2>7
<1>9. AdditionalAsWritten
  <2>1. SUFFICES ASSUME answer # OperationNone, answer.to.error = OperationNone, t.form = "pointer", t.additional
                 PROVE  answer.to.method = t.method
    BY DEF AdditionalAsWritten, t
  <2>2. answer.to = ResolveOperationPath(t)
    BY <2>1, <1>1, <1>3
  <2>3. PICK n \in Sourced(t.source) : \E p \in Pointed(n, t) : ResolveOperationPath(t) = Projected(OperationEntry(p))
    BY <2>1, <2>2, Pointing
  <2>4. PICK p \in Pointed(n, t) : ResolveOperationPath(t) = Projected(OperationEntry(p))
    BY <2>3
  <2> QED BY <2>1, <2>2, <2>4, EntryIsSent DEF Pointed
<1> QED
  BY <1>1, ExactlyOne, <1>6, <1>7, <1>8, <1>9 DEF OperationIsMeant, OperationResolutionTypeOK, OperationInv,
     FiledAsDeclared, t

\* What an operationId or an operationPath is resolved to is one operation of the source it
\* names, told from the documents alone, and its request goes to the server that the lowest
\* level declares; a bare id is resolved only where one source could have been meant
\* (OperationIndex::build, resolve_operation_id, resolve_operation_path).
THEOREM OperationsMeant == OperationSpec => []OperationIsMeant
<1>1. OperationSpec => []OperationInv
  BY OperationBegins, OperationKeeps, PTL DEF OperationSpec
<1> QED BY <1>1, MeantFollows, PTL

(***************************************************************************)
(* The target of a receive step.  Each rule leaves a piece behind that has *)
(* told the target something, and what it told is about that piece alone.  *)
(***************************************************************************)
Verdicts == {"ok", "config", "unsupported"}
Checks == {c \in BOOLEAN \X Verdicts : c[1] => c[2] # "ok"}

TellsServer(p, t) ==
  LET on == IF p.lists \in {TargetNone, << >>} THEN Servers ELSE ToSet(p.lists) IN
  /\ t.server \in on /\ p.of[t.server] \in {"kafka", "kafka-secure"}
  /\ \A other \in on \ {t.server} : p.of[other] \in {"kafka", "kafka-secure"} => p.selected = t.server
  /\ p.selected \in {TargetNone, t.server}

TellsHost(p) ==
  /\ \E k \in DOMAIN p.parts : HostText(p.parts[k]) # << >>
  /\ \A k \in DOMAIN p.parts :
       IF IsVariable(p.parts[k])
       THEN p.parts[k].default \in {"text", "empty"} /\ p.parts[k].choices # "without"
       ELSE p.parts[k].is = "text"

TellsMechanism(p, t) ==
  IF t.sasl = TargetNone THEN p = << >>
  ELSE \E k \in DOMAIN p : p[k].type = t.sasl /\ \A j \in 1 .. k - 1 : p[j].type \notin Mechanisms

TellsContent(p) ==
  \A m \in Messages :
    LET said == p.said
        Says(content) == ComesTo(said.own[m].content, ContentsFor(said, m), content) IN
    /\ \/ Says("json")
       \/ Says(TargetNone) /\ p.default \in {"json", TargetNone}
    /\ ~said.own[m].framed
    /\ \A k \in DOMAIN said.traits : said.traits[k].has.framed => said.traits[k].of # m

TellsLocation(p, t) == \A m \in Messages : ComesTo(p.own[m], LocationsFor(p, m), t.location)

\* What the piece p has told the target t when r is the rule that is next.
Told(r, p, t) ==
  /\ r = "channel" /\ t.form = "operationId" => p.listed \in {TargetNone, p.declared}
  /\ r = "host" => TellsServer(p, t)
  /\ r = "security" => TellsHost(p)
  /\ r = "messages" => TellsMechanism(p, t)
  /\ r \in {"locations", "plan"} /\ t.location = TargetNone => TellsContent(p)
  /\ r = "plan" /\ t.location # TargetNone => TellsLocation(p, t)
  /\ r = "planned" => (t.sasl # TargetNone <=> p.username) /\ (t.sasl # TargetNone <=> p.password) /\ (p.tls => t.tls)

IsTarget(t) ==
  /\ t = [form |-> t.form, server |-> t.server, tls |-> t.tls, sasl |-> t.sasl, filter |-> t.filter,
          location |-> t.location]
  /\ t.server \in {TargetNone} \union Servers /\ t.tls \in BOOLEAN /\ t.sasl \in {TargetNone} \union Mechanisms

OnServer == {"host", "security", "messages", "locations", "plan", "planned"}

\* The rules before which nothing has set a location.
BeforeLocation == {"step", "source", "operation", "channel", "servers", "host", "security", "messages", "locations"}

TargetInv ==
  /\ rule \in BeforeLocation => target.location = TargetNone
  /\ refusal \in {"none", "config", "unsupported"} /\ (rule = "refused" <=> refusal # "none")
  /\ IsTarget(target) /\ (rule \in OnServer => target.server # TargetNone)
  /\ (piece # TargetNone \/ rule = "planned" => Told(rule, piece, target))

\* Lemma: what a step tells is read off the state it leaves.
LEMMA ToldPrimed ==
  ASSUME NEW r, NEW p, NEW t, rule' = r, piece' = p, target' = t, Told(r, p, t)
  PROVE  Told(rule, piece, target)'
<1>1. (rule = "channel" /\ target.form = "operationId" => piece.listed \in {TargetNone, piece.declared})'
  BY DEF Told
<1>2. (rule = "host" => TellsServer(piece, target))'
  BY DEF Told, TellsServer
<1>3. (rule = "security" => TellsHost(piece))'
  BY DEF Told, TellsHost, HostText, IsVariable
<1>4. (rule = "messages" => TellsMechanism(piece, target))'
  BY DEF Told, TellsMechanism
<1>5. (rule \in {"locations", "plan"} /\ target.location = TargetNone => TellsContent(piece))'
  <2>1. rule' \in {"locations", "plan"} /\ target'.location = TargetNone => TellsContent(piece')
    BY DEF Told
  <2>2. TellsContent(piece') => TellsContent(piece)'
    BY ONLY Zenon DEF TellsContent, ComesTo, ContentsFor
  <2> QED BY ONLY <2>1, <2>2
<1>6. (rule = "plan" /\ target.location # TargetNone => TellsLocation(piece, target))'
  <2>1. rule' = "plan" /\ target'.location # TargetNone => TellsLocation(piece', target')
    BY DEF Told
  <2>2. TellsLocation(piece', target') => TellsLocation(piece, target)'
    BY ONLY Zenon DEF TellsLocation, ComesTo, LocationsFor
  <2> QED BY ONLY <2>1, <2>2
<1>7. (rule = "planned" => /\ target.sasl # TargetNone <=> piece.username
                           /\ target.sasl # TargetNone <=> piece.password
                           /\ piece.tls => target.tls)'
  BY DEF Told
<1> QED BY ONLY <1>1, <1>2, <1>3, <1>4, <1>5, <1>6, <1>7 DEF Told

LEMMA TargetBegins == TargetInit => TargetInv
  BY DEF TargetInit, TargetInv, IsTarget, OnServer, BeforeLocation

\* The two ways a piece can go.
LEMMA ReadKeeps ==
  ASSUME TargetInv, NEW p, NEW verdict \in Verdicts, NEW found, NEW next, Read(p, verdict, found, next),
         rule # "refused",
         verdict = "ok" => /\ IsTarget(found) /\ next # "refused" /\ (next \in OnServer => found.server # TargetNone)
                           /\ Told(next, p, found) /\ (next \in BeforeLocation => found.location = TargetNone)
  PROVE  TargetInv'
<1>2. CASE verdict = "ok"
  <2>1. target' = found /\ rule' = next /\ UNCHANGED refusal
    BY <1>2 DEF Read
  <2>2. /\ IsTarget(found) /\ next # "refused" /\ (next \in OnServer => found.server # TargetNone)
        /\ Told(next, p, found) /\ (next \in BeforeLocation => found.location = TargetNone)
    BY <1>2
  <2> QED BY <2>1, <2>2, ToldPrimed DEF TargetInv, OnServer, BeforeLocation, IsTarget, Read
<1>3. CASE verdict # "ok" BY <1>3 DEF TargetInv, OnServer, BeforeLocation, Verdicts, Told, IsTarget, Read
<1> QED BY <1>2, <1>3

\* Whatever is in a set of natural numbers, one of them is the least.
LEMMA LeastPlace ==
  ASSUME NEW S \in SUBSET Nat, S # {}
  PROVE  \E m \in S : \A k \in S : m <= k
<1> DEFINE initial == {1 .. m : m \in S}
<1>1. \A m \in Nat : 1 .. m \in FiniteSubsetsOf(Nat) BY FS_Interval DEF FiniteSubsetsOf
<1>2. initial \subseteq FiniteSubsetsOf(Nat) /\ initial # {}
  BY <1>1
<1>3. PICK x \in initial : \A y \in initial : <<y, x>> \notin StrictSubsetOrdering(Nat)
  <2> HIDE DEF initial
  <2> QED BY <1>2, FS_StrictSubsetOrderingWellFounded, WFMin, Zenon
<1>4. PICK m \in S : x = 1 .. m
  BY <1>3
<1>5. ASSUME NEW k \in S
      PROVE  m <= k
  <2>1. k \in Nat /\ m \in Nat
    OBVIOUS
  <2>2. SUFFICES ASSUME k < m
                 PROVE  FALSE
    BY <2>1
  <2>5. <<1 .. k, 1 .. m>> \in StrictSubsetOrdering(Nat) BY <2>1, <2>2 DEF StrictSubsetOrdering
  <2> QED BY <2>5, <1>3, <1>4
<1> QED BY <1>5

\* Lemma: what holds of nothing, and is refuted, is refuted somewhere for the first time.
LEMMA FirstRefuted ==
  ASSUME NEW bad \in SUBSET Nat, bad # {}, 0 \notin bad
  PROVE  \E m \in bad : m \in Nat \ {0} /\ m - 1 \in Nat /\ m - 1 \notin bad
<1>1. PICK m \in bad : \A k \in bad : m <= k
  BY LeastPlace
<1> QED BY <1>1

\* A list of checks passes if none of them holds, and is else decided by the first that does.
LEMMA FirstOfDecides ==
  ASSUME NEW checks \in Seq(Checks)
  PROVE  FirstOf(checks) \in Verdicts /\ (FirstOf(checks) = "ok" => \A k \in DOMAIN checks : ~checks[k][1])
<1> DEFINE hold == {k \in DOMAIN checks : checks[k][1]}
<1>1. CASE hold = {} BY <1>1 DEF Verdicts, FirstOf
<1>2. CASE hold # {}
  <2>1. hold \in SUBSET Nat
    OBVIOUS
  <2>2. PICK m \in hold : \A k \in hold : m <= k
    <3> HIDE DEF hold
    <3> QED BY <1>2, <2>1, LeastPlace
  <2>3. m \in DOMAIN checks /\ checks[m][1] /\ \A j \in 1 .. m - 1 : ~checks[j][1]
    <3>2. ASSUME NEW j \in 1 .. m - 1
          PROVE  ~checks[j][1] BY <2>2
    <3> QED BY <3>2
  <2> DEFINE n == CHOOSE k \in DOMAIN checks : checks[k][1] /\ \A j \in 1 .. k - 1 : ~checks[j][1]
  <2>4. n \in DOMAIN checks /\ checks[n][1]
    BY <2>3
  <2>5. FirstOf(checks) = checks[n][2]
    BY <2>4 DEF FirstOf
  <2> HIDE DEF n
  <2> QED BY <2>5, <2>4 DEF Checks
<1> QED BY <1>1, <1>2

\* Two lists of checks, one after the other.
LEMMA BothLists ==
  ASSUME NEW a \in Seq(Checks), NEW b \in Seq(Checks)
  PROVE  /\ FirstOf(a \o b) \in Verdicts
         /\ FirstOf(a \o b) = "ok" => (\A k \in DOMAIN a : ~a[k][1]) /\ \A k \in DOMAIN b : ~b[k][1]
<1> DEFINE both == a \o b
<1> HIDE DEF both
<1>4. FirstOf(both) \in Verdicts /\ (FirstOf(both) = "ok" => \A k \in DOMAIN both : ~both[k][1])
  BY ConcatProperties, FirstOfDecides DEF both
<1>5. \A k \in DOMAIN a : k \in DOMAIN both /\ both[k] = a[k] BY ConcatProperties DEF both
<1>6. \A k \in DOMAIN b : Len(a) + k \in DOMAIN both /\ both[Len(a) + k] = b[k] BY ConcatProperties DEF both
<1> QED BY <1>4, <1>5, <1>6 DEF both

\* One check as an element of a list.
LEMMA OneCheck ==
  ASSUME NEW b \in BOOLEAN, NEW v \in Verdicts, b => v # "ok"
  PROVE  << b, v >> \in Checks
  BY DEF Checks

LEMMA DerefIs == \A reach : Deref(reach) \in Verdicts
  BY DEF Deref, Verdicts

LEMMA StepRuleKeeps == TargetInv /\ StepRule => TargetInv'
<1> SUFFICES ASSUME TargetInv, StepRule
             PROVE  TargetInv'
  OBVIOUS
<1>0. target.location = TargetNone
  BY DEF StepRule, TargetInv, BeforeLocation
<1>1. PICK s \in StepForms :
        Read(s, FirstOf(<< <<s.action # "receive", "unsupported">>, <<s.body, "unsupported">>,
                           <<s.form \notin {"channelPath", "operationId"}, "config">> >>),
             [target EXCEPT !.form = s.form, !.filter = s.correlated], "source")
  BY DEF StepRule
<1> DEFINE checks == << <<s.action # "receive", "unsupported">>, <<s.body, "unsupported">>,
                        <<s.form \notin {"channelPath", "operationId"}, "config">> >>
<1> DEFINE found == [target EXCEPT !.form = s.form, !.filter = s.correlated]
<1>2. checks \in Seq(Checks)
  <2>2. <<s.action # "receive", "unsupported">> \in Checks /\ <<s.body, "unsupported">> \in Checks
        /\ <<s.form \notin {"channelPath", "operationId"}, "config">> \in Checks BY DEF Checks, Verdicts, StepForms
  <2> QED BY <2>2
<1>3. FirstOf(checks) \in Verdicts
  <2> HIDE DEF checks
  <2> QED BY <1>2, FirstOfDecides
<1>4. IsTarget(found) /\ Told("source", s, found) /\ found.location = TargetNone
  <2>1. IsTarget(target)
    BY DEF TargetInv
  <2>2. found = [form |-> s.form, server |-> target.server, tls |-> target.tls, sasl |-> target.sasl,
                 filter |-> s.correlated, location |-> target.location]
    <3> DEFINE named == [target EXCEPT !.form = s.form]
    <3>1. named = [form |-> s.form, server |-> target.server, tls |-> target.tls, sasl |-> target.sasl,
                   filter |-> target.filter, location |-> target.location]
      BY <2>1 DEF IsTarget
    <3>2. found = [named EXCEPT !.filter = s.correlated]
      OBVIOUS
    <3> HIDE DEF named, found
    <3> QED BY <3>1, <3>2
  <2> HIDE DEF found
  <2> QED BY <1>0, <2>1, <2>2 DEF IsTarget, Told
<1> HIDE DEF checks, found
<1> QED BY <1>0, <1>3, <1>4, <1>1, ReadKeeps DEF OnServer, StepRule, checks, found

LEMMA SourceRuleKeeps == TargetInv /\ SourceRule => TargetInv'
<1> SUFFICES ASSUME TargetInv, SourceRule
             PROVE  TargetInv'
  OBVIOUS
<1> DEFINE next == IF target.form = "operationId" THEN "operation" ELSE "channel"
<1>2. PICK s \in SourcePieces : Read(s, FirstOf(Naming(s) \o Loading(s)), target, next)
  BY DEF SourceRule
<1>3. Naming(s) \in Seq(Checks)
  <2>2. /\ <<s.text = "malformed", "config">> \in Checks /\ <<s.text = "other", "unsupported">> \in Checks
        /\ <<s.declared # 1 \/ ~s.async, "config">> \in Checks /\ <<s.text # "good" \/ s.declared = 0, "config">> \in Checks
        /\ <<~s.async, "unsupported">> \in Checks /\ <<s.declared # 1, "config">> \in Checks
    BY DEF Checks, Verdicts, SourcePieces
  <2> QED BY <2>2 DEF Naming
<1>4. Loading(s) \in Seq(Checks)
  <2>1. /\ <<s.file = "remote", "unsupported">> \in Checks /\ <<s.file = "unusable", "config">> \in Checks
        /\ <<s.version = "malformed", "config">> \in Checks /\ <<s.version = "older", "unsupported">> \in Checks
    BY DEF Checks, Verdicts
  <2> QED BY <2>1 DEF Loading
<1>6. IsTarget(target) /\ next # "refused" /\ next \notin OnServer /\ Told(next, s, target)
  BY DEF Told, OnServer, TargetInv
<1> HIDE DEF next
<1> QED BY <1>2, <1>3, <1>4, BothLists, <1>6, ReadKeeps DEF SourceRule, TargetInv, BeforeLocation

\* An operation that names its messages and is taken names all of the channel's.
LEMMA OperationRuleKeeps == TargetInv /\ OperationRule => TargetInv'
<1> SUFFICES ASSUME TargetInv, OperationRule
             PROVE  TargetInv'
  OBVIOUS
<1>2. PICK o \in OperationForms :
        Read(o, FirstOf(<< <<o.reach = "missing", "config">>, <<o.reach = "elsewhere", "unsupported">>,
                           <<o.action = TargetNone, "config">>, <<o.action # "receive", "unsupported">>,
                           <<o.extra, "unsupported">>, <<o.channel = "inline", "config">>,
                           <<Deref(o.channel) # "ok", Deref(o.channel)>> >> \o ListsAll(o)), target, "channel")
  BY DEF OperationRule
<1> DEFINE itself == << <<o.reach = "missing", "config">>, <<o.reach = "elsewhere", "unsupported">>,
                        <<o.action = TargetNone, "config">>, <<o.action # "receive", "unsupported">>,
                        <<o.extra, "unsupported">>, <<o.channel = "inline", "config">>,
                        <<Deref(o.channel) # "ok", Deref(o.channel)>> >>
<1>3. itself \in Seq(Checks)
  <2>2. /\ <<o.reach = "missing", "config">> \in Checks /\ <<o.reach = "elsewhere", "unsupported">> \in Checks
        /\ <<o.action = TargetNone, "config">> \in Checks /\ <<o.action # "receive", "unsupported">> \in Checks
        /\ <<o.extra, "unsupported">> \in Checks /\ <<o.channel = "inline", "config">> \in Checks
    BY DEF Checks, Verdicts, OperationForms
  <2>3. <<Deref(o.channel) # "ok", Deref(o.channel)>> \in Checks
    BY DerefIs DEF Checks, Verdicts
  <2> QED BY <2>2, <2>3
<1>4. ListsAll(o) \in Seq(Checks)
  <2>1. <<~(o.listed \subseteq o.declared), "config">> \in Checks /\ <<o.listed # o.declared, "unsupported">> \in Checks
    BY DEF Checks, Verdicts
  <2> QED BY <2>1 DEF ListsAll
<1> HIDE DEF itself
<1>5. FirstOf(itself \o ListsAll(o)) \in Verdicts
      /\ (FirstOf(itself \o ListsAll(o)) = "ok" => \A k \in DOMAIN ListsAll(o) : ~ListsAll(o)[k][1])
  BY <1>3, <1>4, BothLists
<1>6. ASSUME FirstOf(itself \o ListsAll(o)) = "ok"
      PROVE  IsTarget(target) /\ Told("channel", o, target)
  <2>1. o.listed \in {TargetNone, o.declared}
    <3>1. SUFFICES ASSUME o.listed # TargetNone
                   PROVE  o.listed = o.declared
      OBVIOUS
    <3>3. 2 \in DOMAIN ListsAll(o) /\ ListsAll(o)[2][1] = (o.listed # o.declared) BY <3>1 DEF ListsAll
    <3> QED BY <3>3, <1>5, <1>6
  <2> QED BY <2>1 DEF Told, TargetInv
<1> QED BY <1>5, <1>6, <1>2, ReadKeeps DEF OnServer, OperationRule, TargetInv, BeforeLocation, itself

LEMMA ChannelRuleKeeps == TargetInv /\ ChannelRule => TargetInv'
<1> SUFFICES ASSUME TargetInv, ChannelRule
             PROVE  TargetInv'
  OBVIOUS
<1>2. PICK c \in Channels :
        Read(c, FirstOf(<< <<c.reach = "missing", "config">>, <<c.reach = "elsewhere", "unsupported">>,
                           <<~c.fields \/ c.address = "notText", "config">>,
                           <<c.address # "topic" \/ c.parameters, "unsupported">>,
                           <<c.bindings \in {"elsewhere", "differ"}, "unsupported">> >>), target, "servers")
  BY DEF ChannelRule
<1> DEFINE checks == << <<c.reach = "missing", "config">>, <<c.reach = "elsewhere", "unsupported">>,
                        <<~c.fields \/ c.address = "notText", "config">>,
                        <<c.address # "topic" \/ c.parameters, "unsupported">>,
                        <<c.bindings \in {"elsewhere", "differ"}, "unsupported">> >>
<1>3. checks \in Seq(Checks)
  <2>2. /\ <<c.reach = "missing", "config">> \in Checks /\ <<c.reach = "elsewhere", "unsupported">> \in Checks
    BY DEF Checks, Verdicts
  <2>3. (~c.fields \/ c.address = "notText") \in BOOLEAN /\ (c.address # "topic" \/ c.parameters) \in BOOLEAN
        /\ (c.bindings \in {"elsewhere", "differ"}) \in BOOLEAN
    OBVIOUS
  <2>4. <<~c.fields \/ c.address = "notText", "config">> \in Checks
    BY <2>3, OneCheck DEF Verdicts
  <2>5. <<c.address # "topic" \/ c.parameters, "unsupported">> \in Checks
    BY <2>3, OneCheck DEF Verdicts
  <2>6. <<c.bindings \in {"elsewhere", "differ"}, "unsupported">> \in Checks
    BY <2>3, OneCheck DEF Verdicts
  <2> QED BY <2>2, <2>4, <2>5, <2>6
<1> HIDE DEF checks
<1>5. IsTarget(target) /\ Told("servers", c, target)
  BY DEF TargetInv, Told
<1>6. Read(c, FirstOf(checks), target, "servers")
  BY <1>2 DEF checks
<1> QED BY <1>3, FirstOfDecides, <1>5, <1>6, ReadKeeps DEF OnServer, ChannelRule, TargetInv, BeforeLocation

\* The server that is taken is one of Kafka, and the selected one or the only one.
LEMMA ServerRuleKeeps == TargetInv /\ ServerRule => TargetInv'
<1> SUFFICES ASSUME TargetInv, ServerRule
             PROVE  TargetInv'
  OBVIOUS
<1>0. target.location = TargetNone
  BY DEF ServerRule, TargetInv, BeforeLocation
<1>2. PICK p \in ServerPieces : \E verdict \in ServerVerdicts(p) :
        Read(p, verdict, LET k == CHOOSE k \in Chosen(p) : TRUE IN
                         [target EXCEPT !.server = k, !.tls = p.of[k] = "kafka-secure"], "host")
  BY DEF ServerRule
<1> DEFINE k == CHOOSE c \in Chosen(p) : TRUE
<1> DEFINE found == [target EXCEPT !.server = k, !.tls = p.of[k] = "kafka-secure"]
<1>3. PICK verdict \in ServerVerdicts(p) : Read(p, verdict, found, "host")
  BY <1>2
<1>6. ASSUME verdict = "ok"
      PROVE  k \in Chosen(p) BY <1>6 DEF ServerVerdicts
<1>7. found = [form |-> target.form, server |-> k, tls |-> (p.of[k] = "kafka-secure"), sasl |-> target.sasl,
               filter |-> target.filter, location |-> target.location]
  <2> HIDE DEF k
  <2> DEFINE on == [target EXCEPT !.server = k]
  <2>2. on = [form |-> target.form, server |-> k, tls |-> target.tls, sasl |-> target.sasl,
              filter |-> target.filter, location |-> target.location] BY DEF IsTarget, TargetInv
  <2>3. found = [on EXCEPT !.tls = p.of[k] = "kafka-secure"]
    OBVIOUS
  <2> HIDE DEF on, found
  <2> QED BY <2>2, <2>3
<1> HIDE DEF k, found
<1>8. ASSUME verdict = "ok"
      PROVE  IsTarget(found) /\ found.server # TargetNone /\ Told("host", p, found)
             /\ found.location = TargetNone
  <2>1. k \in Chosen(p)
    BY <1>6, <1>8
  <2>2. k \in Eligible(p)
    BY <2>1 DEF Chosen
  <2>3. k \in Candidates(p) /\ p.of[k] \in {"kafka", "kafka-secure"}
    BY <2>2 DEF Eligible
  <2> DEFINE on == IF p.lists \in {TargetNone, << >>} THEN Servers ELSE ToSet(p.lists)
  <2>4. on \subseteq Servers /\ k \in on BY <2>3 DEF Candidates, ServerPieces, ServerLists, SeqOf, ToSet
  <2>5. ASSUME NEW other \in on \ {k}, p.of[other] \in {"kafka", "kafka-secure"}
        PROVE  p.selected = k
    <3>2. CASE p.selected = TargetNone BY <2>4, <2>5, <3>2, <2>1, <2>2 DEF Chosen, Eligible, Candidates
    <3>3. CASE p.selected # TargetNone
      BY <3>3, <2>1 DEF Chosen
    <3> QED BY <3>2, <3>3
  <2>7. found.server = k /\ found.location = TargetNone
    BY <1>0, <1>7
  <2>8. TellsServer(p, found) BY <2>3, <2>4, <2>5, <2>1, <2>7 DEF TellsServer, Chosen
  <2> QED BY <2>4, <2>7, <2>8, <1>7, TargetAssumption DEF Told, TargetInv, IsTarget
<1> QED BY <1>0, <1>3, <1>8, ReadKeeps DEF OnServer, ServerRule, ServerVerdicts, Unreadable, Verdicts

LEMMA VariableIs ==
  \A v : VariableVerdict(v) \in Verdicts
         /\ (VariableVerdict(v) = "ok" => v.default # TargetNone /\ v.choices # "without")
<1> SUFFICES ASSUME NEW v
             PROVE  VariableVerdict(v) \in Verdicts
                    /\ (VariableVerdict(v) = "ok" => v.default # TargetNone /\ v.choices # "without")
  OBVIOUS
<1> DEFINE checks == << <<Deref(v.reach) # "ok", Deref(v.reach)>>, <<v.default = TargetNone, "config">>,
                        <<v.choices = "without", "config">> >>
<1>1. checks \in Seq(Checks)
  <2>1. <<Deref(v.reach) # "ok", Deref(v.reach)>> \in Checks
    BY DerefIs DEF Checks, Verdicts
  <2>2. <<v.default = TargetNone, "config">> \in Checks /\ <<v.choices = "without", "config">> \in Checks
    BY DEF Checks, Verdicts
  <2> QED BY <2>1, <2>2
<1>2. 2 \in DOMAIN checks /\ 3 \in DOMAIN checks /\ checks[2][1] = (v.default = TargetNone)
      /\ checks[3][1] = (v.choices = "without")
  OBVIOUS
<1>3. VariableVerdict(v) = FirstOf(checks)
  BY DEF VariableVerdict
<1> HIDE DEF checks
<1> QED BY <1>2, <1>3, <1>1, FirstOfDecides

\* A host that is taken is text once its variables are replaced.
LEMMA HostTold ==
  ASSUME NEW p \in HostPieces
  PROVE  HostVerdict(p) \in Verdicts /\ (HostVerdict(p) = "ok" => TellsHost(p))
<1> DEFINE bad == {k \in DOMAIN p.parts : IF IsVariable(p.parts[k]) THEN VariableVerdict(p.parts[k]) # "ok"
                                          ELSE p.parts[k].is = "open"}
<1> DEFINE culprit == p.parts[CHOOSE k \in bad : \A j \in bad : k <= j]
<1>1. HostVerdict(p) =
        IF p.path = "text" THEN "unsupported"
        ELSE IF bad # {} THEN IF IsVariable(culprit) THEN VariableVerdict(culprit) ELSE "config"
        ELSE IF HasBrace(p.parts) \/ \A k \in DOMAIN p.parts : HostText(p.parts[k]) = << >> THEN "config" ELSE "ok"
  BY DEF HostVerdict
<1>2. PICK m \in 0 .. MaxHostParts : p.parts \in [1 .. m -> HostParts]
  BY DEF HostPieces, SeqOf
<1>3. bad \in SUBSET Nat BY <1>2
<1>4. ASSUME bad # {}
      PROVE  IsVariable(culprit) => VariableVerdict(culprit) # "ok"
  <2> DEFINE c == CHOOSE k \in bad : \A j \in bad : k <= j
  <2>1. \E k \in bad : \A j \in bad : k <= j
    <3> HIDE DEF bad
    <3> QED BY <1>3, <1>4, LeastPlace
  <2>2. c \in bad
    <3> HIDE DEF bad
    <3> QED BY <2>1
  <2>3. culprit = p.parts[c]
    OBVIOUS
  <2> HIDE DEF c, culprit
  <2> QED BY <2>2, <2>3
<1> HIDE DEF culprit
<1>5. HostVerdict(p) \in Verdicts
  <2> HIDE DEF bad
  <2> QED BY <1>1, VariableIs DEF Verdicts
<1>6. ASSUME HostVerdict(p) = "ok"
      PROVE  TellsHost(p)
  <2>1. bad = {} /\ ~HasBrace(p.parts) /\ \E k \in DOMAIN p.parts : HostText(p.parts[k]) # << >>
    <3> HIDE DEF bad
    <3> QED BY <1>1, <1>4, <1>6
  <2>2. ASSUME NEW k \in DOMAIN p.parts
        PROVE  IF IsVariable(p.parts[k])
               THEN p.parts[k].default \in {"text", "empty"} /\ p.parts[k].choices # "without"
               ELSE p.parts[k].is = "text"
    <3>1. p.parts[k] \in HostParts
      BY <1>2
    <3>2. HostText(p.parts[k]) \in {<< >>, <<"text">>}
      BY <2>1 DEF HasBrace
    <3>3. IF IsVariable(p.parts[k]) THEN VariableVerdict(p.parts[k]) = "ok" ELSE p.parts[k].is # "open"
      BY <2>1
    <3> DEFINE part == p.parts[k]
    <3> HIDE DEF part
    <3>4. CASE IsVariable(part)
      <4>3. part.default # "brace"
        <5>1. SUFFICES ASSUME part.default = "brace"
                       PROVE  FALSE
          OBVIOUS
        <5> QED BY <3>2, <3>4, <5>1 DEF part, HostText
      <4> QED BY <3>4, <3>3, VariableIs, <3>1, <4>3 DEF part, Variables, HostParts, Authored, IsVariable
    <3>5. CASE ~IsVariable(part)
      <4>4. <<"close">> # << >> /\ <<"close">> # <<"text">>
        OBVIOUS
      <4>5. part.is = "text"
        BY <3>2, <3>1, <3>5, <3>3, <4>4 DEF part, HostText, HostParts, Authored, Variables, IsVariable
      <4> QED BY <3>5, <4>5 DEF part
    <3> QED BY <3>4, <3>5
  <2> QED BY <2>1, <2>2 DEF TellsHost
<1> QED BY <1>5, <1>6

LEMMA HostRuleKeeps == TargetInv /\ HostRule => TargetInv'
<1> SUFFICES ASSUME TargetInv, HostRule
             PROVE  TargetInv'
  OBVIOUS
<1>1. PICK p \in HostPieces : Read(p, HostVerdict(p), target, "security")
  BY DEF HostRule
<1>2. HostVerdict(p) \in Verdicts /\ (HostVerdict(p) = "ok" => TellsHost(p))
  BY HostTold
<1> QED BY <1>1, <1>2, ReadKeeps DEF HostRule, TargetInv, BeforeLocation, OnServer, Told

\* The scheme that decides is the first that the runtime can do, or that it cannot read.
LEMMA DecisiveIs ==
  ASSUME NEW list \in SeqOf(Schemes, MaxSchemes), Decisive(list) # 0
  PROVE  /\ Decisive(list) \in DOMAIN list
         /\ ~Readable(list[Decisive(list)]) \/ Supported(list[Decisive(list)])
         /\ \A j \in 1 .. Decisive(list) - 1 : j \in DOMAIN list /\ ~Supported(list[j])
<1> DEFINE stops == {k \in DOMAIN list : ~Readable(list[k]) \/ Supported(list[k])}
<1>1. PICK m \in 0 .. MaxSchemes : list \in [1 .. m -> Schemes]
  BY DEF SeqOf
<1>3. Decisive(list) = IF stops = {} THEN 0 ELSE CHOOSE k \in stops : \A j \in stops : k <= j
  BY DEF Decisive
<1>4. Decisive(list) \in stops /\ \A j \in stops : Decisive(list) <= j
  <2> HIDE DEF stops
  <2> QED BY <1>3, <1>1, LeastPlace
<1> DEFINE d == Decisive(list)
<1>5. d \in 1 .. m /\ d \in stops /\ \A j \in stops : d <= j
  BY <1>1, <1>4
<1> HIDE DEF d
<1>6. ASSUME NEW j \in 1 .. d - 1
      PROVE  j \in DOMAIN list /\ ~Supported(list[j]) BY <1>5, <1>1
<1> QED BY <1>5, <1>6 DEF d

LEMMA SecurityRuleKeeps == TargetInv /\ SecurityRule => TargetInv'
<1> SUFFICES ASSUME TargetInv, SecurityRule
             PROVE  TargetInv'
  OBVIOUS
<1>0. target.location = TargetNone
  BY DEF SecurityRule, TargetInv, BeforeLocation
<1>1. PICK list \in SeqOf(Schemes, MaxSchemes) :
        Read(list, SecurityVerdict(list),
             [target EXCEPT !.sasl = IF Decisive(list) = 0 THEN TargetNone ELSE list[Decisive(list)].type], "messages")
  BY DEF SecurityRule
<1> DEFINE d == Decisive(list)
<1> DEFINE sasl == IF d = 0 THEN TargetNone ELSE list[d].type
<1> DEFINE found == [target EXCEPT !.sasl = sasl]
<1>2. Read(list, SecurityVerdict(list), found, "messages")
  BY <1>1
<1>3. rule = "security" /\ IsTarget(target) /\ target.server # TargetNone
  BY DEF SecurityRule, TargetInv, OnServer
<1>4. found = [form |-> target.form, server |-> target.server, tls |-> target.tls, sasl |-> sasl,
               filter |-> target.filter, location |-> target.location]
  <2> HIDE DEF sasl
  <2> QED BY <1>3 DEF IsTarget
<1>6. SecurityVerdict(list) =
        IF list = << >> THEN "ok" ELSE IF d = 0 THEN "unsupported"
        ELSE IF Deref(list[d].reach) # "ok" THEN Deref(list[d].reach)
        ELSE IF list[d].type = TargetNone THEN "config" ELSE "ok"
  BY DEF SecurityVerdict
<1>7. d # 0 => /\ d \in DOMAIN list /\ (~Readable(list[d]) \/ Supported(list[d]))
               /\ \A j \in 1 .. d - 1 : ~Supported(list[j])
  BY DecisiveIs
<1> HIDE DEF d, found
<1>9. ASSUME SecurityVerdict(list) = "ok"
      PROVE  sasl \in {TargetNone} \union Mechanisms
             /\ IF sasl = TargetNone THEN list = << >>
                ELSE \E k \in DOMAIN list : list[k].type = sasl /\ \A j \in 1 .. k - 1 : list[j].type \notin Mechanisms
  <2>1. CASE d = 0
    BY <2>1, <1>6, <1>9
  <2>2. CASE d # 0
    <3>5. sasl = list[d].type /\ d \in DOMAIN list
      BY <2>2, <1>7
    <3> HIDE DEF sasl
    <3> QED BY <2>2, <1>7, <1>6, <1>9, <3>5 DEF Supported, Readable
  <2> QED BY <2>1, <2>2
<1> HIDE DEF sasl
<1>10. SecurityVerdict(list) = "ok" => IsTarget(found) /\ found.server # TargetNone /\ Told("messages", list, found)
                 /\ found.location = TargetNone
  <2>1. SUFFICES ASSUME SecurityVerdict(list) = "ok"
                 PROVE  IsTarget(found) /\ found.server # TargetNone /\ Told("messages", list, found)
                 /\ found.location = TargetNone
    OBVIOUS
  <2> QED BY <1>3, <1>0, <1>4, <1>9, <2>1 DEF Told, TellsMechanism, IsTarget
<1> QED BY <1>0, <1>2, <1>3, DerefIs, <1>10, ReadKeeps DEF SecurityVerdict, Verdicts

(***************************************************************************)
(* What the traits of a message come to.  The loop over them is a function *)
(* of how many were gone through.                                          *)
(***************************************************************************)
GoneThrough(values, k, upTo) ==
  upTo = [n \in 0 .. k |-> IF n = 0 THEN TargetNone ELSE IF values[n] # TargetNone THEN values[n] ELSE upTo[n - 1]]

\* Lemma: the loop over the traits has a value after each of them; a least number of traits
\* without one would be one more than a number with one.
LEMMA TraitsGiven ==
  ASSUME NEW values, Len(values) \in Nat
  PROVE  /\ FromTraits(values)[0] = TargetNone
         /\ \A n \in 1 .. Len(values) :
              FromTraits(values)[n] = IF values[n] # TargetNone THEN values[n] ELSE FromTraits(values)[n - 1]
<1> DEFINE bad == {k \in 0 .. Len(values) : ~ \E f : GoneThrough(values, k, f)}
<1>1. ASSUME bad # {}
      PROVE  FALSE
  <2>1. bad \in SUBSET Nat
    OBVIOUS
  <2>2. PICK k \in bad : \A j \in bad : k <= j
    <3> HIDE DEF bad
    <3> QED BY <1>1, <2>1, LeastPlace
  <2>3. CASE k = 0
    <3>1. GoneThrough(values, 0, [n \in 0 .. 0 |-> TargetNone])
      BY DEF GoneThrough
    <3> QED BY <2>2, <2>3, <3>1
  <2>4. CASE k # 0
    <3>1. k \in 1 .. Len(values) /\ k - 1 \in 0 .. Len(values) /\ k - 1 \notin bad
      BY <2>1, <2>2, <2>4
    <3>2. PICK f : GoneThrough(values, k - 1, f)
      BY <3>1
    <3> DEFINE last == IF values[k] # TargetNone THEN values[k] ELSE f[k - 1]
    <3> DEFINE g == [n \in 0 .. k |-> IF n = k THEN last ELSE f[n]]
    <3>3. ASSUME NEW n \in 0 .. k
          PROVE  g[n] = IF n = 0 THEN TargetNone ELSE IF values[n] # TargetNone THEN values[n] ELSE g[n - 1]
      <4>1. CASE n = k BY <4>1, <3>1
      <4>2. CASE n # k
        <5>1. n \in 0 .. k - 1
          BY <3>1, <4>2
        <5>2. f[n] = IF n = 0 THEN TargetNone ELSE IF values[n] # TargetNone THEN values[n] ELSE f[n - 1]
          BY <3>2, <5>1, Zenon DEF GoneThrough
        <5> QED BY <5>2, <4>2, <3>1, <5>1
      <4> QED BY <4>1, <4>2
    <3>4. GoneThrough(values, k, g)
      <4>1. g = [n \in 0 .. k |-> g[n]]
        OBVIOUS
      <4> QED BY <3>3, <4>1, Zenon DEF GoneThrough
    <3> QED BY <2>2, <3>4
  <2> QED BY <2>3, <2>4
<1>2. \E f : GoneThrough(values, Len(values), f)
  BY <1>1
<1>3. FromTraits(values) = CHOOSE f : GoneThrough(values, Len(values), f)
  BY DEF FromTraits, GoneThrough
<1>4. GoneThrough(values, Len(values), FromTraits(values))
  BY <1>2, <1>3, Zenon
<1> DEFINE f == FromTraits(values)
<1>5. f = [n \in 0 .. Len(values) |->
             IF n = 0 THEN TargetNone ELSE IF values[n] # TargetNone THEN values[n] ELSE f[n - 1]]
  BY <1>4, Zenon DEF GoneThrough
<1> HIDE DEF f
<1>6. ASSUME NEW n \in 0 .. Len(values)
      PROVE  f[n] = IF n = 0 THEN TargetNone ELSE IF values[n] # TargetNone THEN values[n] ELSE f[n - 1]
  BY <1>5, Zenon
<1> QED BY <1>6 DEF f

\* What n values come to when the last that is one overrides those before it.
LeftBy(values, n, value) ==
  IF \A k \in 1 .. n : values[k] = TargetNone THEN value = TargetNone
  ELSE \E k \in 1 .. n : /\ values[k] = value /\ value # TargetNone
                         /\ \A j \in k + 1 .. n : values[j] = TargetNone

\* Lemma: after n traits the loop has what those n come to.
LEMMA TraitsLeave ==
  ASSUME NEW values, Len(values) \in Nat
  PROVE  \A n \in 0 .. Len(values) : LeftBy(values, n, FromTraits(values)[n])
<1> DEFINE f == FromTraits(values)
<1>1. f[0] = TargetNone
      /\ \A n \in 1 .. Len(values) : f[n] = IF values[n] # TargetNone THEN values[n] ELSE f[n - 1]
  BY TraitsGiven
<1> HIDE DEF f
<1> DEFINE bad == {n \in 0 .. Len(values) : ~LeftBy(values, n, f[n])}
<1>2. SUFFICES ASSUME bad # {}
               PROVE  FALSE
  BY DEF f
<1>4. bad \in SUBSET Nat /\ 0 \notin bad BY <1>1 DEF LeftBy
<1>5. PICK m \in bad : m \in Nat \ {0} /\ m - 1 \in Nat /\ m - 1 \notin bad
  <2> HIDE DEF bad
  <2> QED BY <1>2, <1>4, FirstRefuted
<1>6. m \in 1 .. Len(values) /\ LeftBy(values, m - 1, f[m - 1])
  BY <1>5
<1>7. f[m] = IF values[m] # TargetNone THEN values[m] ELSE f[m - 1]
  BY <1>1, <1>6
<1>8. CASE values[m] # TargetNone BY <1>5, <1>8, <1>6, <1>7 DEF LeftBy
<1>9. CASE values[m] = TargetNone
  <2>1. f[m] = f[m - 1]
    BY <1>7, <1>9
  <2>3. CASE \A k \in 1 .. m - 1 : values[k] = TargetNone BY <1>5, <2>1, <1>6, <2>3, <1>9 DEF LeftBy
  <2>4. CASE ~ \A k \in 1 .. m - 1 : values[k] = TargetNone
    <3>1. PICK k \in 1 .. m - 1 : /\ values[k] = f[m - 1] /\ f[m - 1] # TargetNone
                                  /\ \A j \in k + 1 .. m - 1 : values[j] = TargetNone
      BY <1>6, <2>4 DEF LeftBy
    <3> QED BY <1>5, <2>1, <3>1, <1>6, <1>9 DEF LeftBy
  <2> QED BY <2>3, <2>4
<1> QED BY <1>8, <1>9

\* Lemma: the field that is taken is the one the message and its traits come to.
LEMMA EffectiveIs ==
  ASSUME NEW own, NEW values, Len(values) \in Nat, DOMAIN values = 1 .. Len(values)
  PROVE  ComesTo(own, values, EffectiveOf(own, values))
  BY TraitsLeave DEF LeftBy, ComesTo, EffectiveOf

\* Lemma: a list as long as the traits is gone through to its end.
LEMMA TraitsBounded ==
  ASSUME NEW forms, NEW traits \in SeqOf([of : Messages, has : forms], MaxTraits), NEW values, DOMAIN values = DOMAIN traits,
         values = [k \in DOMAIN values |-> values[k]]
  PROVE  Len(values) \in Nat /\ DOMAIN values = 1 .. Len(values)
<1>1. PICK n \in 0 .. MaxTraits : traits \in [1 .. n -> [of : Messages, has : forms]]
  BY DEF SeqOf
<1> QED BY <1>1, IsASeq, LenProperties

LEMMA ContentComesTo ==
  ASSUME NEW p \in ContentPieces, NEW m
  PROVE  ComesTo(p.said.own[m].content, ContentsFor(p.said, m), EffectiveOf(p.said.own[m].content, ContentsFor(p.said, m)))
<1> DEFINE values == ContentsFor(p.said, m)
<1> HIDE DEF values
<1> QED BY TraitsBounded, EffectiveIs DEF values, ContentPieces, WithTraits, ContentsFor

LEMMA LocationComesTo ==
  ASSUME NEW p \in LocationPieces, NEW m
  PROVE  ComesTo(p.own[m], LocationsFor(p, m), EffectiveOf(p.own[m], LocationsFor(p, m)))
<1> DEFINE values == LocationsFor(p, m)
<1> HIDE DEF values
<1> QED BY TraitsBounded, EffectiveIs DEF values, LocationPieces, WithTraits, LocationsFor

LEMMA MessageRuleKeeps == TargetInv /\ MessageRule => TargetInv'
<1> SUFFICES ASSUME TargetInv, MessageRule
             PROVE  TargetInv'
  OBVIOUS
<1>0. target.location = TargetNone
  BY DEF MessageRule, TargetInv, BeforeLocation
<1> DEFINE next == IF target.filter THEN "locations" ELSE "plan"
<1>1. PICK p \in ContentPieces : Read(p, MessagesVerdict(p), target, next)
  BY DEF MessageRule
<1>4. next # "refused" /\ next \in {"locations", "plan"}
  OBVIOUS
<1>5. MessagesVerdict(p) = "ok" => Told(next, p, target)
  <2>1. SUFFICES ASSUME MessagesVerdict(p) = "ok"
                 PROVE  TellsContent(p)
    BY <1>0, <1>4 DEF Told
  <2>2. SUFFICES ASSUME NEW m \in Messages
                 PROVE  /\ \/ ComesTo(p.said.own[m].content, ContentsFor(p.said, m), "json")
                           \/ /\ ComesTo(p.said.own[m].content, ContentsFor(p.said, m), TargetNone)
                              /\ p.default \in {"json", TargetNone}
                        /\ ~p.said.own[m].framed
                        /\ \A k \in DOMAIN p.said.traits : p.said.traits[k].has.framed => p.said.traits[k].of # m
    BY DEF TellsContent
  <2>3. ~Framed(p.said, m) /\ ContentOf(p, m) \in {"json", TargetNone}
    BY <2>1 DEF MessagesVerdict
  <2> DEFINE values == ContentsFor(p.said, m)
  <2> DEFINE own == p.said.own[m].content
  <2> DEFINE comes == EffectiveOf(own, values)
  <2> HIDE DEF values, own
  <2> HIDE DEF comes
  <2>7. \/ ComesTo(own, values, "json")
        \/ ComesTo(own, values, TargetNone) /\ p.default \in {"json", TargetNone}
    BY <2>3, ContentComesTo DEF own, values, comes, ContentOf
  <2> QED BY <2>7, <2>3 DEF own, values, Framed
<1> HIDE DEF next
<1> QED BY <1>0, <1>1, <1>4, <1>5, ReadKeeps DEF MessagesVerdict, Verdicts, MessageRule, TargetInv, OnServer

LEMMA LocationRuleKeeps == TargetInv /\ LocationRule => TargetInv'
<1> SUFFICES ASSUME TargetInv, LocationRule
             PROVE  TargetInv'
  OBVIOUS
<1>1. PICK p \in LocationPieces :
        Read(p, LocationVerdict(p), [target EXCEPT !.location = LocationOf(p, CHOOSE m \in Messages : TRUE)], "plan")
  BY DEF LocationRule
<1> DEFINE place == LocationOf(p, CHOOSE m \in Messages : TRUE)
<1> DEFINE found == [target EXCEPT !.location = place]
<1>2. Read(p, LocationVerdict(p), found, "plan")
  BY <1>1
<1>3. rule = "locations" /\ IsTarget(target) /\ target.server # TargetNone
  BY DEF LocationRule, TargetInv, OnServer
<1> HIDE DEF place
<1>4. found = [form |-> target.form, server |-> target.server, tls |-> target.tls, sasl |-> target.sasl,
               filter |-> target.filter, location |-> place]
  BY <1>3 DEF IsTarget
<1> HIDE DEF found
<1>5. LocationVerdict(p) \in Verdicts
      /\ (LocationVerdict(p) = "ok" =>
            \A m, n \in Messages : LocationOf(p, m) = LocationOf(p, n) /\ LocationOf(p, m) # TargetNone)
  <2> DEFINE places == {LocationOf(p, m) : m \in Messages}
  <2> DEFINE checks == << <<"malformed" \in places, "config">>, <<TargetNone \in places, "config">>,
                          <<\E l, other \in places : l # other, "unsupported">> >>
  <2>1. LocationVerdict(p) = FirstOf(checks)
    BY DEF LocationVerdict
  <2> HIDE DEF places
  <2>2. <<"malformed" \in places, "config">> \in Checks /\ <<TargetNone \in places, "config">> \in Checks
    <3>1. ("malformed" \in places) \in BOOLEAN /\ (TargetNone \in places) \in BOOLEAN
      OBVIOUS
    <3> QED BY <3>1, OneCheck DEF Verdicts
  <2>3. <<\E l, other \in places : l # other, "unsupported">> \in Checks
    <3> DEFINE several == \E l, other \in places : l # other
    <3> HIDE DEF several
    <3> QED BY OneCheck DEF several, Verdicts
  <2>4. checks \in Seq(Checks)
    BY <2>2, <2>3
  <2>5. /\ 2 \in DOMAIN checks /\ 3 \in DOMAIN checks /\ checks[2][1] = (TargetNone \in places)
        /\ checks[3][1] = \E l, other \in places : l # other
    OBVIOUS
  <2> HIDE DEF checks
  <2>6. LocationVerdict(p) \in Verdicts /\ (LocationVerdict(p) = "ok" => \A k \in DOMAIN checks : ~checks[k][1])
    BY <2>1, <2>4, FirstOfDecides
  <2> QED BY <2>6, <2>5 DEF places
<1>6. ASSUME LocationVerdict(p) = "ok"
      PROVE  IsTarget(found) /\ found.server # TargetNone /\ Told("plan", p, found)
  <2>2. ASSUME NEW m \in Messages
        PROVE  ComesTo(p.own[m], LocationsFor(p, m), place) /\ place # TargetNone
    BY <1>5, <1>6, LocationComesTo DEF LocationOf, place
  <2>5. Messages = {} => TellsContent(p)
    BY DEF TellsContent
  <2> QED BY <1>3, <1>4, <2>2, <2>5 DEF Told, TellsLocation, IsTarget
<1> QED BY <1>2, <1>3, <1>5, <1>6, ReadKeeps DEF BeforeLocation

\* A connection is planned only with the credentials the server asks for.
LEMMA PlanRuleKeeps == TargetInv /\ PlanRule => TargetInv'
<1> SUFFICES ASSUME TargetInv, PlanRule
             PROVE  TargetInv'
  OBVIOUS
<1>1. PICK o \in Options : Read(o, PlanVerdict(o), [target EXCEPT !.tls = @ \/ o.tls], "planned")
  BY DEF PlanRule
<1> DEFINE tls == target.tls \/ o.tls
<1> DEFINE found == [target EXCEPT !.tls = tls]
<1>2. Read(o, PlanVerdict(o), found, "planned")
  BY <1>1
<1>3. rule = "plan" /\ IsTarget(target) /\ target.server # TargetNone
  BY DEF PlanRule, TargetInv, OnServer
<1>4. o.username \in BOOLEAN /\ o.password \in BOOLEAN /\ tls \in BOOLEAN /\ (o.tls => tls)
  BY DEF Options
<1> HIDE DEF tls
<1>5. found = [form |-> target.form, server |-> target.server, tls |-> tls, sasl |-> target.sasl,
               filter |-> target.filter, location |-> target.location]
  BY <1>3 DEF IsTarget
<1> HIDE DEF found
<1> DEFINE checks == << <<o.username # o.password, "config">>,
                        <<(target.sasl # TargetNone) # o.username, "config">>, <<o.roots = "unusable", "config">> >>
<1>6. checks \in Seq(Checks)
  <2>1. (o.username # o.password) \in BOOLEAN /\ ((target.sasl # TargetNone) # o.username) \in BOOLEAN
        /\ (o.roots = "unusable") \in BOOLEAN
    OBVIOUS
  <2>2. <<o.username # o.password, "config">> \in Checks
    BY <2>1, OneCheck DEF Verdicts
  <2>3. <<(target.sasl # TargetNone) # o.username, "config">> \in Checks
    BY <2>1, OneCheck DEF Verdicts
  <2>4. <<o.roots = "unusable", "config">> \in Checks
    BY <2>1, OneCheck DEF Verdicts
  <2> QED BY <2>2, <2>3, <2>4
<1>7. PlanVerdict(o) = FirstOf(checks)
  BY DEF PlanVerdict
<1>8. 1 \in DOMAIN checks /\ 2 \in DOMAIN checks /\ checks[1][1] = (o.username # o.password)
      /\ checks[2][1] = ((target.sasl # TargetNone) # o.username)
  OBVIOUS
<1> HIDE DEF checks
<1>9. PlanVerdict(o) \in Verdicts /\ (PlanVerdict(o) = "ok" => \A k \in DOMAIN checks : ~checks[k][1])
  BY <1>6, <1>7, FirstOfDecides
<1>10. ASSUME PlanVerdict(o) = "ok"
       PROVE  IsTarget(found) /\ found.server # TargetNone /\ Told("planned", o, found)
  <2>2. o.username = o.password /\ (target.sasl # TargetNone) = o.username BY <1>8, <1>9, <1>10
  <2> QED BY <1>3, <1>5, <2>2, <1>4 DEF Told, IsTarget
<1> QED BY <1>2, <1>3, <1>9, <1>10, ReadKeeps DEF BeforeLocation

LEMMA TargetKeeps == TargetInv /\ [TargetNext]_targetVars => TargetInv'
<1> SUFFICES ASSUME TargetInv, [TargetNext]_targetVars
             PROVE  TargetInv'
  OBVIOUS
<1>1. CASE Proceed BY <1>1 DEF TargetInv, IsTarget, OnServer, BeforeLocation, Proceed
<1>2. CASE UNCHANGED targetVars BY <1>2, ToldPrimed DEF targetVars, TargetInv, IsTarget, OnServer, BeforeLocation
<1> QED BY <1>1, <1>2, StepRuleKeeps, SourceRuleKeeps, OperationRuleKeeps, ChannelRuleKeeps, ServerRuleKeeps, HostRuleKeeps,
           SecurityRuleKeeps, MessageRuleKeeps, LocationRuleKeeps, PlanRuleKeeps DEF TargetNext

LEMMA ToldFollows == TargetInv => TargetIsMeant
<1> SUFFICES ASSUME TargetInv
             PROVE  TargetIsMeant
  OBVIOUS
<1>1. piece # TargetNone \/ rule = "planned" => Told(rule, piece, target)
  BY DEF TargetInv
<1>2. TargetTypeOK
  BY DEF TargetInv, TargetTypeOK, IsTarget, OnServer
<1>3. ServerIsTheOnlyOne
  BY <1>1 DEF ServerIsTheOnlyOne, Told, TellsServer
<1>4. HostIsLiteral
  BY <1>1 DEF HostIsLiteral, Told, TellsHost
<1>5. MechanismIsFirst
  BY <1>1 DEF MechanismIsFirst, Told, TellsMechanism
<1>6. OperationHidesNoMessage
  BY <1>1 DEF OperationHidesNoMessage, Told
<1>7. AuthenticatesAsAsked
  BY <1>1 DEF AuthenticatesAsAsked, Told
<1>8. EveryMessageIsJSON
  BY <1>1 DEF EveryMessageIsJSON, Told, TellsContent
<1>9. OneLocationForAll
  BY <1>1 DEF OneLocationForAll, Told, TellsLocation
<1> QED BY <1>2, <1>3, <1>4, <1>5, <1>6, <1>7, <1>8, <1>9 DEF TargetIsMeant, TargetIsTold

\* A receive step that is planned connects to what its documents name: to a server of Kafka
\* that is selected or the only one, at an address without a variable left in it, with the
\* first mechanism the server lists that can be used, and with credentials if and only if it
\* asks for them; an operation that stands for some of its channel's messages is refused; and
\* every message of the channel, its traits included, is plain JSON and has its identifier at
\* the one place where the step looks for it (project_receive_target, select_server,
\* server_host, security_mechanism, admit_messages, correlation_location, plan).
THEOREM ReceiveIsMeant == TargetSpec => []TargetIsMeant
<1>1. TargetSpec => []TargetInv
  BY TargetBegins, TargetKeeps, PTL DEF TargetSpec
<1> QED BY <1>1, ToldFollows, PTL

(***************************************************************************)
(* Normal paths.  A path is normalized segment by segment; what comes of   *)
(* it has no dots, so that it is its own normal form, and a path behind    *)
(* another is normalized as behind the normal form of the other.           *)
(***************************************************************************)
Normalizes(path, k, upTo) ==
  upTo = [n \in 0 .. k |-> IF n = 0 THEN << >> ELSE Onto(upTo[n - 1], path[n])]

\* Lemma: the normal forms of the beginnings of a path exist; a least length without them
\* would be one more than a length with them.
LEMMA NormalizedGiven ==
  ASSUME NEW path, Len(path) \in Nat
  PROVE  /\ Normalized(path)[0] = << >>
         /\ \A n \in 1 .. Len(path) : Normalized(path)[n] = Onto(Normalized(path)[n - 1], path[n])
<1> DEFINE bad == {k \in 0 .. Len(path) : ~ \E f : Normalizes(path, k, f)}
<1>1. ASSUME bad # {}
      PROVE  FALSE
  <2>1. bad \in SUBSET Nat
    OBVIOUS
  <2>2. PICK k \in bad : \A j \in bad : k <= j
    <3> HIDE DEF bad
    <3> QED BY <1>1, <2>1, LeastPlace
  <2>3. CASE k = 0
    <3>1. Normalizes(path, 0, [n \in 0 .. 0 |-> << >>])
      BY DEF Normalizes
    <3> QED BY <2>2, <2>3, <3>1
  <2>4. CASE k # 0
    <3>1. k \in 1 .. Len(path) /\ k - 1 \in 0 .. Len(path) /\ k - 1 \notin bad
      BY <2>1, <2>2, <2>4
    <3>2. PICK f : Normalizes(path, k - 1, f)
      BY <3>1
    <3> DEFINE g == [n \in 0 .. k |-> IF n = k THEN Onto(f[k - 1], path[k]) ELSE f[n]]
    <3>3. ASSUME NEW n \in 0 .. k
          PROVE  g[n] = IF n = 0 THEN << >> ELSE Onto(g[n - 1], path[n])
      <4>1. CASE n = k BY <4>1, <3>1
      <4>2. CASE n # k
        <5>1. n \in 0 .. k - 1
          BY <3>1, <4>2
        <5>2. f[n] = IF n = 0 THEN << >> ELSE Onto(f[n - 1], path[n])
          BY <3>2, <5>1, Zenon DEF Normalizes
        <5> QED BY <5>2, <4>2, <3>1, <5>1
      <4> QED BY <4>1, <4>2
    <3>4. Normalizes(path, k, g)
      <4>1. g = [n \in 0 .. k |-> g[n]]
        OBVIOUS
      <4> QED BY <3>3, <4>1, Zenon DEF Normalizes
    <3> QED BY <2>2, <3>4
  <2> QED BY <2>3, <2>4
<1>2. \E f : Normalizes(path, Len(path), f)
  BY <1>1
<1>3. Normalized(path) = CHOOSE f : Normalizes(path, Len(path), f)
  BY DEF Normalized, Normalizes
<1>4. Normalizes(path, Len(path), Normalized(path))
  BY <1>2, <1>3, Zenon
<1> DEFINE f == Normalized(path)
<1>5. f = [n \in 0 .. Len(path) |-> IF n = 0 THEN << >> ELSE Onto(f[n - 1], path[n])]
  BY <1>4, Zenon DEF Normalizes
<1> HIDE DEF f
<1>6. ASSUME NEW n \in 0 .. Len(path)
      PROVE  f[n] = IF n = 0 THEN << >> ELSE Onto(f[n - 1], path[n])
  BY <1>5, Zenon
<1> QED BY <1>6 DEF f

\* Two paths go on in the same way from the same normal form.
GoOn(one, i, two, j, k) ==
  /\ Len(one) \in Nat /\ Len(two) \in Nat /\ i \in Nat /\ j \in Nat /\ k \in Nat
  /\ i + k <= Len(one) /\ j + k <= Len(two)
  /\ Normalized(one)[i] = Normalized(two)[j] /\ \A m \in 1 .. k : one[i + m] = two[j + m]

\* Lemma: so do their normal forms.
LEMMA NormalizedAlike ==
  ASSUME NEW one, NEW two, NEW i, NEW j, NEW k, GoOn(one, i, two, j, k)
  PROVE  Normalized(one)[i + k] = Normalized(two)[j + k]
<1> DEFINE f == Normalized(one)
<1> DEFINE g == Normalized(two)
<1> DEFINE bad == {m \in 0 .. k : f[i + m] # g[j + m]}
<1>0. /\ Len(one) \in Nat /\ Len(two) \in Nat /\ i \in Nat /\ j \in Nat /\ k \in Nat
      /\ i + k <= Len(one) /\ j + k <= Len(two) /\ \A m \in 1 .. k : one[i + m] = two[j + m]
  BY DEF GoOn
<1>1. /\ \A n \in 1 .. Len(one) : f[n] = Onto(f[n - 1], one[n])
      /\ \A n \in 1 .. Len(two) : g[n] = Onto(g[n - 1], two[n])
  BY <1>0, NormalizedGiven
<1>2. f[i] = g[j]
  BY DEF GoOn
<1> HIDE DEF f, g
<1>3. ASSUME bad # {}
      PROVE  FALSE
  <2>1. bad \in SUBSET Nat
    BY <1>0
  <2>2. 0 \notin bad
    BY <1>0, <1>2
  <2>3. PICK m \in bad : m \in Nat \ {0} /\ m - 1 \in Nat /\ m - 1 \notin bad
    <3> HIDE DEF bad
    <3> QED BY <1>3, <2>1, <2>2, FirstRefuted
  <2>4. m \in 1 .. k /\ m - 1 \in 0 .. k
    BY <1>0, <2>3
  <2>7. f[i + m] = Onto(f[i + (m - 1)], one[i + m]) /\ g[j + m] = Onto(g[j + (m - 1)], two[j + m])
    <3> DEFINE a == i + m
    <3> DEFINE b == j + m
    <3>1. a \in 1 .. Len(one) /\ b \in 1 .. Len(two) /\ a - 1 = i + (m - 1) /\ b - 1 = j + (m - 1)
      BY <1>0, <2>3, <2>4
    <3> HIDE DEF a, b
    <3>2. f[a] = Onto(f[a - 1], one[a]) /\ g[b] = Onto(g[b - 1], two[b])
      BY <1>1, <3>1
    <3>3. f[a] = Onto(f[i + (m - 1)], one[a]) /\ g[b] = Onto(g[j + (m - 1)], two[b])
      BY <3>1, <3>2, Zenon
    <3> QED BY <3>3 DEF a, b
  <2> QED BY <2>3, <1>0, <2>4, <2>7
<1>4. k \in 0 .. k /\ k \notin bad
  BY <1>0, <1>3
<1> QED BY <1>4 DEF f, g

\* Lemma: the normal form of a beginning is that of any path with this beginning.
LEMMA NormalizedBegins ==
  ASSUME NEW one, NEW two, Len(one) \in Nat, Len(two) \in Nat, NEW k \in Nat, k <= Len(one), k <= Len(two),
         \A m \in 1 .. k : one[m] = two[m]
  PROVE  Normalized(one)[k] = Normalized(two)[k]
<1> DEFINE none == 0
<1>1. none \in Nat /\ none + k = k /\ \A m \in 1 .. k : none + m = m
  OBVIOUS
<1> HIDE DEF none
<1>3. /\ none + k <= Len(one) /\ none + k <= Len(two)
      /\ \A m \in 1 .. k : one[none + m] = two[none + m]
  BY <1>1
<1>4. GoOn(one, none, two, none, k) BY <1>1, NormalizedGiven, <1>3 DEF GoOn
<1> QED BY <1>1, <1>4, NormalizedAlike

\* Lemma: the segments of one path behind another.
LEMMA PutBehind ==
  ASSUME NEW S, NEW above \in Seq(S), NEW below \in Seq(S)
  PROVE  /\ above \o below \in Seq(S) /\ Len(above \o below) = Len(above) + Len(below)
         /\ \A i \in 1 .. Len(above) : (above \o below)[i] = above[i]
         /\ \A i \in 1 .. Len(below) : (above \o below)[Len(above) + i] = below[i]
<1> DEFINE all == above \o below
<1> DEFINE n == Len(above)
<1> DEFINE k == Len(below)
<1>1. /\ all \in Seq(S) /\ Len(all) = n + k /\ n \in Nat /\ k \in Nat
      /\ \A i \in 1 .. n + k : all[i] = IF i <= n THEN above[i] ELSE below[i - n]
  BY ConcatProperties, LenProperties
<1> HIDE DEF all, n, k
<1>3. ASSUME NEW i \in 1 .. k
      PROVE  all[n + i] = below[i] BY <1>1
<1> QED BY <1>1, <1>3 DEF all, n, k

\* Lemma: what is above a path.
LEMMA FrontIs ==
  ASSUME NEW S, NEW q \in Seq(S), q # <<>>
  PROVE  /\ Len(q) \in Nat \ {0} /\ Front(q) \in Seq(S) /\ Len(Front(q)) = Len(q) - 1
         /\ \A i \in 1 .. Len(q) - 1 : Front(q)[i] = q[i]
<1>1. Len(q) \in Nat /\ Len(q) > 0
  BY LenProperties, EmptySeq
<1> DEFINE n == Len(q) - 1
           f == SubSeq(q, 1, n)
<1>2. n \in Nat /\ \A i \in 1 .. n : q[i] \in S
  BY <1>1, ElementOfSeq
<1> HIDE DEF n
<1>3. f \in Seq(S) /\ Len(f) = (IF 1 <= n THEN n - 1 + 1 ELSE 0) /\ \A i \in 1 .. n - 1 + 1 : f[i] = q[1 + i - 1]
  BY <1>2, SubSeqProperties
<1> HIDE DEF f
<1>5. Front(q) = f
  BY DEF Front, f, n
<1> QED BY <1>1, <1>3, <1>2, <1>5 DEF n

\* Lemma: a normal form is a path of the segments that are none of the dots.
LEMMA NormalizedPlain ==
  ASSUME NEW S, NEW path \in Seq(S)
  PROVE  RemoveDots(path) \in Seq(S \ {".", ".."})
<1> DEFINE plain == S \ {".", ".."}
<1> DEFINE f == Normalized(path)
<1> DEFINE bad == {n \in 0 .. Len(path) : f[n] \notin Seq(plain)}
<1>1. Len(path) \in Nat /\ \A n \in 1 .. Len(path) : path[n] \in S
  BY LenProperties, ElementOfSeq
<1>2. f[0] = << >> /\ \A n \in 1 .. Len(path) : f[n] = Onto(f[n - 1], path[n])
  BY <1>1, NormalizedGiven
<1> HIDE DEF f
<1>3. ASSUME bad # {}
      PROVE  FALSE
  <2>1. bad \in SUBSET Nat
    BY <1>1
  <2>2. << >> \in Seq(plain) /\ 0 \notin bad
    BY <1>2, EmptySeq
  <2>3. PICK n \in bad : n \in Nat \ {0} /\ n - 1 \in Nat /\ n - 1 \notin bad
    <3> HIDE DEF bad
    <3> QED BY <1>3, <2>1, <2>2, FirstRefuted
  <2>5. f[n - 1] \in Seq(plain) /\ f[n] = Onto(f[n - 1], path[n]) /\ path[n] \in S BY <1>1, <1>2, <2>3
  <2> DEFINE normal == f[n - 1]
  <2>6. normal # << >> => Front(normal) \in Seq(plain)
    <3> HIDE DEF normal, plain
    <3> QED BY <2>5, FrontIs DEF normal
  <2>7. path[n] \notin {".", ".."} => Append(normal, path[n]) \in Seq(plain)
    <3>1. path[n] \notin {".", ".."} => path[n] \in plain
      BY <2>5
    <3> HIDE DEF normal, plain
    <3> QED BY <2>5, <3>1, AppendProperties DEF normal
  <2>8. Onto(normal, path[n]) \in Seq(plain)
    <3> HIDE DEF plain
    <3> QED BY <2>2, <2>5, <2>6, <2>7 DEF Onto
  <2> QED BY <2>3, <2>5, <2>8
<1> QED BY <1>1, <1>3 DEF RemoveDots, f

\* Lemma: a path without dots is its own normal form.
LEMMA PlainStands ==
  ASSUME NEW S, NEW path \in Seq(S), "." \notin S, ".." \notin S
  PROVE  RemoveDots(path) = path
<1> DEFINE f == Normalized(path)
<1> DEFINE Fits(n) == f[n] \in Seq(S) /\ Len(f[n]) = n /\ \A m \in 1 .. n : f[n][m] = path[m]
<1> DEFINE bad == {n \in 0 .. Len(path) : ~Fits(n)}
<1>1. Len(path) \in Nat /\ \A n \in 1 .. Len(path) : path[n] \in S
  BY LenProperties, ElementOfSeq
<1>2. f[0] = << >> /\ \A n \in 1 .. Len(path) : f[n] = Onto(f[n - 1], path[n])
  BY <1>1, NormalizedGiven
<1> HIDE DEF f
<1>3. ASSUME bad # {}
      PROVE  FALSE
  <2>1. bad \in SUBSET Nat
    BY <1>1
  <2>2. Fits(0)
    BY <1>2, EmptySeq
  <2>3. PICK n \in bad : n \in Nat \ {0} /\ n - 1 \in Nat /\ n - 1 \notin bad
    <3>1. 0 \notin bad
      <4> HIDE DEF Fits
      <4> QED BY <2>2
    <3> HIDE DEF bad
    <3> QED BY <1>3, <2>1, <3>1, FirstRefuted
  <2>4. n \in 1 .. Len(path) /\ n - 1 \in 0 .. Len(path)
    <3> HIDE DEF Fits
    <3> QED BY <1>1, <2>3
  <2>5. Fits(n - 1)
    <3> HIDE DEF Fits
    <3> QED BY <2>3, <2>4
  <2>6. path[n] \in S /\ path[n] # "." /\ path[n] # ".." /\ f[n] = Onto(f[n - 1], path[n])
    BY <1>1, <1>2, <2>4
  <2>8. /\ f[n] \in Seq(S) /\ Len(f[n]) = Len(f[n - 1]) + 1 /\ f[n][Len(f[n - 1]) + 1] = path[n]
        /\ \A m \in 1 .. Len(f[n - 1]) : f[n][m] = f[n - 1][m] BY <2>5, <2>6, AppendProperties DEF Onto
  <2>9. Len(f[n - 1]) = n - 1 /\ n - 1 + 1 = n /\ \A m \in 1 .. n - 1 : f[n - 1][m] = path[m]
    BY <2>3, <2>5
  <2>10. \A m \in 1 .. n : m = n \/ m \in 1 .. n - 1
    BY <2>3
  <2>11. Fits(n)
    <3> HIDE DEF f
    <3> QED BY ONLY <2>8, <2>9, <2>10 DEF Fits
  <2> HIDE DEF Fits
  <2> QED BY <2>3, <2>11
<1>4. Len(path) \in 0 .. Len(path) /\ Len(path) \notin bad
  <2> HIDE DEF bad
  <2> QED BY <1>1, <1>3
<1>5. Fits(Len(path))
  <2> HIDE DEF Fits
  <2> QED BY <1>4
<1> QED BY <1>1, <1>5, SeqEqual DEF RemoveDots, f

\* Lemma: one path behind another.
LEMMA BehindNormal ==
  ASSUME NEW S, NEW above \in Seq(S), NEW below \in Seq(S)
  PROVE  RemoveDots(RemoveDots(above) \o below) = RemoveDots(above \o below)
<1> DEFINE normal == RemoveDots(above)
<1> DEFINE one == normal \o below
<1> DEFINE two == above \o below
<1>1. normal \in Seq(S \ {".", ".."}) /\ RemoveDots(normal) = normal
  <2>1. normal \in Seq(S \ {".", ".."})
    BY NormalizedPlain
  <2> HIDE DEF normal
  <2> DEFINE plain == S \ {".", ".."}
  <2> HIDE DEF plain
  <2> QED BY <2>1, PlainStands
<1>2. normal \in Seq(S) /\ Len(normal) \in Nat /\ Len(above) \in Nat /\ Len(below) \in Nat
  <2> HIDE DEF normal
  <2> QED BY <1>1, LenProperties
<1> HIDE DEF normal
<1>3. /\ one \in Seq(S) /\ Len(one) = Len(normal) + Len(below)
      /\ \A i \in 1 .. Len(normal) : one[i] = normal[i]
      /\ \A i \in 1 .. Len(below) : one[Len(normal) + i] = below[i]
  BY <1>2, PutBehind
<1>4. /\ two \in Seq(S) /\ Len(two) = Len(above) + Len(below)
      /\ \A i \in 1 .. Len(above) : two[i] = above[i]
      /\ \A i \in 1 .. Len(below) : two[Len(above) + i] = below[i]
  BY PutBehind
<1> HIDE DEF one, two
<1>5. /\ Len(one) \in Nat /\ Len(two) \in Nat /\ Len(normal) <= Len(one) /\ Len(above) <= Len(two)
      /\ Len(normal) <= Len(normal) /\ Len(above) <= Len(above)
      /\ Len(normal) + Len(below) <= Len(one) /\ Len(above) + Len(below) <= Len(two)
  BY <1>2, <1>3, <1>4
<1>6. Normalized(one)[Len(normal)] = normal BY <1>1, <1>2, <1>3, <1>5, NormalizedBegins DEF RemoveDots
<1>7. Normalized(two)[Len(above)] = normal
  <2>1. Normalized(two)[Len(above)] = Normalized(above)[Len(above)]
    BY <1>2, <1>4, <1>5, NormalizedBegins
  <2> QED BY <2>1 DEF RemoveDots, normal
<1>8. Normalized(one)[Len(normal) + Len(below)] = Normalized(two)[Len(above) + Len(below)]
  <2>2. GoOn(one, Len(normal), two, Len(above), Len(below)) BY <1>2, <1>5, <1>3, <1>4, <1>6, <1>7 DEF GoOn
  <2> QED BY <2>2, NormalizedAlike
<1> QED BY <1>3, <1>4, <1>8 DEF one, two, normal, RemoveDots

(***************************************************************************)
(* Binding.  The identities are those of the provided documents, in order; *)
(* of the sources passed so far exactly those of OpenAPI are kept, each is *)
(* bound to the first document of its name, and what was read for one is   *)
(* among the paths that could be listed.                                   *)
(***************************************************************************)
Sameness(n) == {m \in DOMAIN provided : BindingIdentity(provided[m]) = BindingResolved(Sources[n].ref)}

BindingTyped ==
  /\ description \in Descriptions /\ directory \in Directories /\ provided \in Collections
  /\ pc \in {"identify", "bind", "built"} \union BindingErrors /\ at \in 1 .. Len(Sources) + 1
  /\ Len(bound) = at - 1 /\ DOMAIN bound = 1 .. at - 1 /\ bound = [n \in 1 .. at - 1 |-> bound[n]]

Identities ==
  /\ Len(identities) \in 0 .. Len(provided) /\ DOMAIN identities = 1 .. Len(identities)
  /\ identities = [n \in 1 .. Len(identities) |-> BindingIdentity(provided[n])]
  /\ pc # "identify" => Len(identities) = Len(provided)

Keeping ==
  /\ kept = {n \in 1 .. at - 1 : Sources[n].type = "openapi"} /\ (pc = "built" => at = Len(Sources) + 1)
  /\ \A n \in 1 .. at - 1 : bound[n].by # "none" <=> Sources[n].type = "openapi"

BindingInv == BindingTyped /\ Identities /\ Keeping /\ IdentityComesFirst /\ reads \subseteq LocalSourcePaths

\* What the caller gave decides by itself what each source can be bound to.
LEMMA GivenDecides ==
  ASSUME UNCHANGED given
  PROVE  /\ Sources' = Sources /\ LocalSourcePaths' = LocalSourcePaths
         /\ \A ref : BindingResolved(ref)' = BindingResolved(ref)
         /\ UNCHANGED <<description, directory, provided, disk>>
  BY DEF LocalSourcePaths, Sources, BindingResolved, Base, given

LEMMA BindingBegins == BindingInit => BindingInv
<1> SUFFICES ASSUME BindingInit
             PROVE  BindingInv
  OBVIOUS
<1>1. description \in Descriptions /\ directory \in Directories /\ provided \in Collections
  BY DEF BindingInit
<1>3. pc = "identify" /\ identities = << >> /\ at = 1 /\ bound = << >> /\ reads = {} /\ kept = {}
  BY DEF BindingInit
<1>4. \A n \in 1 .. 0 : FALSE
  OBVIOUS
<1>5. DOMAIN << >> = 1 .. 0 /\ Len(<< >>) = 0 /\ << >> = [n \in 1 .. 0 |-> bound[n]]
      /\ << >> = [n \in 1 .. 0 |-> BindingIdentity(provided[n])]
  OBVIOUS
<1>8. Keeping
  BY <1>3, <1>4 DEF Keeping
<1>9. IdentityComesFirst
  BY <1>3, <1>4, <1>5 DEF IdentityComesFirst
<1> QED BY <1>3, <1>1, BindingAssumption, <1>5, <1>8, <1>9 DEF BindingInv, Identities, BindingTyped, Sources

\* A step that binds nothing.
LEMMA NothingIsBound ==
  ASSUME BindingInv, UNCHANGED <<given, at, bound, kept>>, reads' \subseteq LocalSourcePaths,
         pc' \in {"identify", "bind", "built"} \union BindingErrors, pc' = "built" => at = Len(Sources) + 1, Identities'
  PROVE  BindingInv'
<1> USE DEF BindingInv
<1>1. /\ Sources' = Sources /\ LocalSourcePaths' = LocalSourcePaths
      /\ \A ref : BindingResolved(ref)' = BindingResolved(ref)
      /\ UNCHANGED <<description, directory, provided, disk>>
  BY GivenDecides
<1> QED BY <1>1 DEF BindingTyped, Keeping, IdentityComesFirst, BindingIdentity

\* A sequence as a function, when its elements are not known to be of a kind.
LEMMA OneMoreElement ==
  ASSUME NEW S, NEW count \in Nat, NEW s \in [1 .. count -> S], Len(s) = count, NEW e
  PROVE  /\ DOMAIN Append(s, e) = 1 .. count + 1 /\ Len(Append(s, e)) = count + 1
         /\ Append(s, e)[count + 1] = e /\ (\A n \in 1 .. count : Append(s, e)[n] = s[n])
         /\ Append(s, e) = [n \in 1 .. count + 1 |-> Append(s, e)[n]]
<1> DEFINE T == S \union {e}
<1>1. s \in [1 .. count -> T] /\ e \in T
  OBVIOUS
<1> HIDE DEF T
<1>3. Append(s, e) \in Seq(T) /\ Len(Append(s, e)) = count + 1 /\ Append(s, e)[count + 1] = e
      /\ \A n \in 1 .. count : Append(s, e)[n] = s[n] BY <1>1, AppendProperties
<1> DEFINE q == Append(s, e)
<1>4. q \in Seq(T) /\ Len(q) = count + 1
  BY <1>3
<1> HIDE DEF q
<1> QED BY <1>3, <1>4, LenProperties DEF q

LEMMA OneMoreBound ==
  ASSUME NEW place, place \in Nat, place >= 1, DOMAIN bound = 1 .. place - 1, Len(bound) = place - 1,
         bound = [n \in 1 .. place - 1 |-> bound[n]], NEW label
  PROVE  /\ DOMAIN Append(bound, label) = 1 .. place /\ Len(Append(bound, label)) = place
         /\ Append(bound, label)[place] = label
         /\ (\A n \in 1 .. place - 1 : Append(bound, label)[n] = bound[n])
         /\ Append(bound, label) = [n \in 1 .. place |-> Append(bound, label)[n]]
<1> DEFINE S == {bound[n] : n \in 1 .. place - 1}
<1> DEFINE count == place - 1
<1>2. count + 1 = place /\ count = place - 1
  OBVIOUS
<1> HIDE DEF S, count
<1>4. count + 1 = place /\ 1 .. count = 1 .. place - 1
  BY <1>2
<1> QED BY OneMoreElement, <1>4

\* A step that binds the next source, to the first document of its name if there is one.
LEMMA OneIsBound ==
  ASSUME BindingInv, pc = "bind", at <= Len(Sources), UNCHANGED <<given, pc, identities>>, NEW label,
         bound' = Append(bound, label), at' = at + 1, reads' \subseteq LocalSourcePaths,
         label.by # "none" <=> Sources[at].type = "openapi",
         kept' = kept \union (IF Sources[at].type = "openapi" THEN {at} ELSE {}),
         Sources[at].type = "openapi" /\ Sameness(at) # {} =>
           label = [by |-> "provided", is |-> CHOOSE m \in Sameness(at) : \A k \in Sameness(at) : m <= k]
  PROVE  BindingInv'
<1> USE DEF BindingInv
<1>1. /\ Sources' = Sources /\ LocalSourcePaths' = LocalSourcePaths
      /\ \A ref : BindingResolved(ref)' = BindingResolved(ref)
      /\ UNCHANGED <<description, directory, provided, disk>>
  BY GivenDecides
<1>2. Len(Sources) \in Nat /\ at \in Nat /\ at >= 1
  BY BindingAssumption DEF BindingTyped, Sources
<1>3. /\ DOMAIN Append(bound, label) = 1 .. at /\ Len(Append(bound, label)) = at
      /\ Append(bound, label)[at] = label /\ (\A n \in 1 .. at - 1 : Append(bound, label)[n] = bound[n])
      /\ Append(bound, label) = [n \in 1 .. at |-> Append(bound, label)[n]]
  BY <1>2, OneMoreBound DEF BindingTyped
<1>4. \A n \in 1 .. at : n = at \/ n \in 1 .. at - 1
  BY <1>2
<1>7. Keeping'
  <2>3. at' - 1 = at
    BY <1>2
  <2> QED BY <1>1, <1>2, <1>4, <1>3, <2>3 DEF Keeping
<1>8. IdentityComesFirst'
  <2>1. ASSUME NEW n \in DOMAIN bound', Sources[n].type = "openapi", Sameness(n) # {}
        PROVE  bound'[n] = [by |-> "provided", is |-> CHOOSE m \in Sameness(n) : \A k \in Sameness(n) : m <= k]
    <3>2. CASE n = at
      BY <3>2, <2>1, <1>3
    <3>3. CASE n \in 1 .. at - 1 BY <3>3, <1>3, <2>1 DEF IdentityComesFirst, Sameness, BindingTyped
    <3> QED BY <1>3, <3>2, <3>3, <1>4
  <2>2. \A n : Sameness(n)' = Sameness(n)
    BY <1>1 DEF Sameness, BindingIdentity
  <2>3. ASSUME NEW n \in DOMAIN bound', Sources'[n].type = "openapi", Sameness(n)' # {}
        PROVE  bound'[n] = [by |-> "provided", is |-> CHOOSE m \in Sameness(n)' : \A k \in Sameness(n)' : m <= k]
    BY <1>1, <2>1, <2>2, <2>3
  <2> QED BY <2>3 DEF IdentityComesFirst, Sameness
<1> QED BY <1>1, <1>2, <1>3, <1>7, <1>8 DEF BindingTyped, Identities, BindingIdentity

\* What is found to be the path of a source is among those that are listed.
LEMMA PathIsListed ==
  ASSUME NEW n \in DOMAIN Sources, Sources[n].type \in {"openapi", "asyncapi"},
         BindingResolved(Sources[n].ref) # BindingNone, ToFilePath(BindingResolved(Sources[n].ref)) # BindingNone
  PROVE  ToFilePath(BindingResolved(Sources[n].ref)) \in LocalSourcePaths
  BY DEF LocalSourcePaths

LEMMA BindKeeps == BindingInv /\ BindingBind => BindingInv'
<1> SUFFICES ASSUME BindingInv, BindingBind
             PROVE  BindingInv'
  OBVIOUS
<1> USE DEF BindingInv
<1> DEFINE ref == Sources[at].ref
<1> DEFINE uri == BindingResolved(ref)
<1> DEFINE same == {n \in DOMAIN identities : identities[n] = uri}
<1> DEFINE n == CHOOSE k \in same : \A m \in same : k <= m
<1> DEFINE path == ToFilePath(uri)
<1>1. pc = "bind" /\ at <= Len(Sources) /\ Sources[at].type = "openapi" /\ at \in DOMAIN Sources
  BY BindingAssumption DEF BindingBind, BindingTyped, Sources
<1>2. same = Sameness(at) BY <1>1, BindingAssumption DEF Sameness, Identities, BindingTyped
<1>3. \/ /\ UNCHANGED reads
         /\ RefuseSource(IF IsRelative(ref) THEN "SourceDescriptionLoad" ELSE "SourceDescriptionNotFound")
      \/ same # {} /\ TakeDocument([by |-> "provided", is |-> n], provided[n].content) /\ UNCHANGED reads
      \/ RefuseSource("SourceDescriptionNotFound") /\ UNCHANGED reads
      \/ /\ same = {} /\ uri # BindingNone /\ path # BindingNone /\ reads' = reads \union {path}
         /\ RefuseSource("SourceDescriptionLoad") \/ TakeDocument([by |-> "file", is |-> path], disk[path])
  BY DEF BindingBind
<1>4. uri # BindingNone /\ path # BindingNone => path \in LocalSourcePaths
  BY <1>1, PathIsListed
<1> HIDE DEF same, n, path, uri
<1>5. ASSUME NEW why \in BindingErrors, RefuseSource(why), reads' \subseteq LocalSourcePaths
      PROVE  BindingInv'
  BY <1>5, <1>1, GivenDecides, NothingIsBound DEF Identities, BindingIdentity, RefuseSource, BindingErrors
<1>6. ASSUME NEW label, NEW content, TakeDocument(label, content), reads' \subseteq LocalSourcePaths,
             label.by # "none",
             same # {} => label = [by |-> "provided", is |-> n]
      PROVE  BindingInv'
  <2>1. CASE content = "usable"
    <3>2. Sameness(at) # {} =>
            label = [by |-> "provided", is |-> CHOOSE m \in Sameness(at) : \A k \in Sameness(at) : m <= k]
      BY <1>6, <1>2 DEF n
    <3> HIDE DEF BindingInv
    <3> QED BY <1>6, <2>1, <3>2, <1>1, OneIsBound DEF TakeDocument
  <2>2. CASE content # "usable" BY <1>6, <2>2, <1>5 DEF BindingErrors, TakeDocument
  <2> QED BY <2>1, <2>2
<1>7. CASE /\ UNCHANGED reads
           /\ RefuseSource(IF IsRelative(ref) THEN "SourceDescriptionLoad" ELSE "SourceDescriptionNotFound")
  <2> DEFINE why == IF IsRelative(ref) THEN "SourceDescriptionLoad" ELSE "SourceDescriptionNotFound"
  <2>1. why \in BindingErrors
    BY DEF BindingErrors
  <2>2. RefuseSource(why) /\ reads' \subseteq LocalSourcePaths
    BY <1>7
  <2> HIDE DEF why
  <2> QED BY <2>1, <2>2, <1>5
<1>8. CASE same # {} /\ TakeDocument([by |-> "provided", is |-> n], provided[n].content) /\ UNCHANGED reads
  <2> DEFINE label == [by |-> "provided", is |-> n]
  <2> HIDE DEF label
  <2> QED BY <1>8, <1>6
<1>9. CASE RefuseSource("SourceDescriptionNotFound") /\ UNCHANGED reads
  BY <1>9, <1>5 DEF BindingErrors
<1>10. CASE /\ same = {} /\ uri # BindingNone /\ path # BindingNone /\ reads' = reads \union {path}
            /\ RefuseSource("SourceDescriptionLoad") \/ TakeDocument([by |-> "file", is |-> path], disk[path])
  <2>1. reads' \subseteq LocalSourcePaths
    BY <1>10, <1>4
  <2>2. CASE RefuseSource("SourceDescriptionLoad")
    BY <2>1, <2>2, <1>5 DEF BindingErrors
  <2>3. CASE TakeDocument([by |-> "file", is |-> path], disk[path])
    <3> DEFINE label == [by |-> "file", is |-> path]
    <3> HIDE DEF label
    <3> QED BY <2>3, <2>1, <1>6, <1>10
  <2> QED BY <2>2, <2>3, <1>10
<1> QED BY <1>3, <1>7, <1>8, <1>9, <1>10

LEMMA BindingKeeps == BindingInv /\ [BindingNext]_bindingVars => BindingInv'
<1> SUFFICES ASSUME BindingInv, [BindingNext]_bindingVars
             PROVE  BindingInv'
  OBVIOUS
<1>1. CASE Identify
  <2>1. /\ pc = "identify" /\ Len(identities) < Len(provided)
        /\ identities' = Append(identities, BindingIdentity(provided[Len(identities) + 1]))
        /\ UNCHANGED <<given, pc, at, bound, reads, kept>>
    BY <1>1 DEF Identify
  <2>2. Identities'
    <3>1. Len(identities) \in Nat /\ Len(provided) \in Nat
      BY BindingAssumption DEF BindingInv, BindingTyped, Identities
    <3> DEFINE count == Len(identities)
    <3> DEFINE more == BindingIdentity(provided[count + 1])
    <3> DEFINE S == {BindingIdentity(provided[n]) : n \in 1 .. count}
    <3>2. identities = [n \in 1 .. count |-> BindingIdentity(provided[n])] /\ count \in Nat
      BY <3>1 DEF BindingInv, Identities
    <3>6. identities' = Append(identities, more) /\ provided' = provided /\ pc' = "identify"
      BY <2>1, GivenDecides
    <3> HIDE DEF S, more, count
    <3>5. /\ DOMAIN Append(identities, more) = 1 .. count + 1 /\ Len(Append(identities, more)) = count + 1
          /\ Append(identities, more)[count + 1] = more
          /\ (\A n \in 1 .. count : Append(identities, more)[n] = identities[n])
          /\ Append(identities, more) = [n \in 1 .. count + 1 |-> Append(identities, more)[n]]
      BY <3>2, OneMoreElement
    <3>8. \A n \in 1 .. count + 1 : identities'[n] = BindingIdentity(provided[n])
      <4>1. ASSUME NEW n \in 1 .. count + 1
            PROVE  identities'[n] = BindingIdentity(provided[n]) BY <3>2, <3>5, <3>6 DEF more
      <4> QED BY <4>1
    <3> QED BY <3>6, <3>5, <2>1, <3>1, <3>2, <3>8 DEF Identities, BindingIdentity, count
  <2> QED BY <2>1, <2>2, NothingIsBound DEF BindingInv, BindingTyped
<1>2. CASE Identified BY <1>2, GivenDecides, NothingIsBound DEF BindingInv, Identities, BindingIdentity, Identified
<1>3. CASE Leave
  <2> DEFINE label == [by |-> "none", is |-> BindingNone]
  <2>2. label.by = "none"
    OBVIOUS
  <2> HIDE DEF label
  <2> QED BY <1>3, <2>2, OneIsBound DEF BindingInv, Leave
<1>4. CASE BindingBind
  BY <1>4, BindKeeps
<1>5. CASE Built
  BY <1>5, GivenDecides, BindingAssumption, NothingIsBound DEF BindingInv, Identities, BindingIdentity,
     BindingTyped, Sources, Built
<1>6. CASE ReadToReceive
  <2>1. PICK n \in DOMAIN Sources :
          /\ Sources[n].type = "asyncapi" /\ BindingResolved(Sources[n].ref) # BindingNone
          /\ ToFilePath(BindingResolved(Sources[n].ref)) # BindingNone
          /\ reads' = reads \union {ToFilePath(BindingResolved(Sources[n].ref))}
    BY <1>6 DEF ReadToReceive
  <2> QED
    BY <1>6, <2>1, PathIsListed, GivenDecides, NothingIsBound DEF BindingInv, Keeping, Identities, BindingIdentity,
       ReadToReceive
<1>7. CASE UNCHANGED bindingVars
  BY <1>7, GivenDecides, NothingIsBound DEF BindingInv, Keeping, BindingTyped, Identities, BindingIdentity,
     bindingVars, given
<1> QED BY <1>1, <1>2, <1>3, <1>4, <1>5, <1>6, <1>7 DEF BindingNext

LEMMA BindingFollows == BindingInv => BindingIsTold
<1> SUFFICES ASSUME BindingInv
             PROVE  BindingIsTold
  OBVIOUS
<1>1. Len(Sources) \in Nat /\ DOMAIN Sources = 1 .. Len(Sources) /\ at \in 1 .. Len(Sources) + 1
      /\ DOMAIN bound = 1 .. at - 1
  BY BindingAssumption DEF BindingInv, BindingTyped, Sources
<1>5. EveryOpenApiBased
  BY <1>1 DEF EveryOpenApiBased, BindingInv, Keeping
<1>6. SelfDecides
  <2>1. SUFFICES ASSUME NEW n \in DOMAIN Sources, Sources[n].ref.form = "relative",
                        BindingResolved(Sources[n].ref) # BindingNone,
                        description.self # BindingNone, description.self.form = "absolute"
                 PROVE  /\ BindingResolved(Sources[n].ref).scheme = description.self.uri.scheme
                        /\ BindingResolved(Sources[n].ref).host = description.self.uri.host
    BY DEF SelfDecides
  <2> DEFINE base == description.self.uri
  <2> HIDE DEF base
  <2> DEFINE ref == Sources[n].ref
  <2> DEFINE joined == RemoveDots(Front(base.path) \o ref.path)
  <2> HIDE DEF joined
  <2>6. [base EXCEPT !.path = joined].scheme = base.scheme /\ [base EXCEPT !.path = joined].host = base.host
    BY <2>1, BindingAssumption DEF BindingInv, BindingTyped
  <2> QED BY <2>1, <2>6 DEF base, Join, BindingResolved, IsRelative, Base, BaseUri
<1> QED BY <1>1, <1>5, <1>6 DEF BindingIsTold, BindingTypeOK, BindingInv, BindingTyped, Keeping, EveryReadListed

\* Where the description was read, as the place that references start from: its normal form
\* before a last segment, which gives way.
LEMMA DirectoryOpens ==
  ASSUME NEW S, NEW dir \in Seq(S), dir # BindingNone
  PROVE  /\ DirectoryUri(dir) = [scheme |-> "file", host |-> DirectoryUri(dir).host, path |-> DirectoryUri(dir).path]
         /\ DirectoryUri(dir).host = FileUri(dir).host /\ Front(DirectoryUri(dir).path) = RemoveDots(dir)
<1> DEFINE normal == RemoveDots(dir)
<1>1. normal \in Seq(S \ {".", ".."})
  BY NormalizedPlain
<1> HIDE DEF normal
<1>2. PICK slash : slash \notin {".", ".."} /\ DirectoryUri(dir) = FileUri(Append(normal, slash))
  BY DEF DirectoryUri, normal
<1> DEFINE plain == (S \ {".", ".."}) \union {slash}
<1> DEFINE path == Append(normal, slash)
<1>3. normal \in Seq(plain) /\ "." \notin plain /\ ".." \notin plain /\ slash \in plain
  <2>1. \A x \in Seq(S \ {".", ".."}) : x \in Seq(plain)
    OBVIOUS
  <2> HIDE DEF plain
  <2> QED BY <1>2, <1>1, <2>1 DEF plain
<1> HIDE DEF plain
<1>4. /\ path \in Seq(plain) /\ Len(path) = Len(normal) + 1 /\ Len(normal) \in Nat
      /\ \A i \in 1 .. Len(normal) : path[i] = normal[i]
  BY <1>3, AppendProperties, LenProperties
<1> HIDE DEF path
<1>6. Front(path) = normal
  <2>1. path # << >>
    BY <1>4, EmptySeq
  <2> DEFINE front == Front(path)
  <2>2. front \in Seq(plain) /\ Len(front) = Len(path) - 1 /\ \A i \in 1 .. Len(path) - 1 : front[i] = path[i]
    BY <1>4, <2>1, FrontIs
  <2> HIDE DEF front
  <2> QED BY <1>3, <2>2, <1>4, SeqEqual DEF front
<1> DEFINE uri == DirectoryUri(dir)
<1> DEFINE host == FileUri(dir).host
<1>9. uri = [scheme |-> "file", host |-> host, path |-> path] BY <1>2, <1>3, <1>4, PlainStands DEF path, FileUri
<1> HIDE DEF uri, host
<1> QED BY <1>6, <1>9 DEF uri, host, normal

\* Without $self a reference leads to the file of its path, seen from the directory.
LEMMA DirectoryTells == BindingInv => DirectoryDecides
<1> SUFFICES ASSUME BindingInv, NEW n \in DOMAIN Sources, Sources[n].ref.form = "relative",
                    Sources[n].ref.path # << >>, BindingResolved(Sources[n].ref) # BindingNone,
                    description.self = BindingNone
             PROVE  BindingResolved(Sources[n].ref) = FileUri(directory \o Sources[n].ref.path)
  BY DEF DirectoryDecides
<1> DEFINE ref == Sources[n].ref
<1> DEFINE base == DirectoryUri(directory)
<1>1. BindingResolved(ref) = Join(base, ref)
  BY DEF BindingResolved, IsRelative, Base, BaseUri
<1>2. base # BindingNone /\ directory # BindingNone
  BY <1>1 DEF Join, DirectoryUri
<1> DEFINE S == ToSet(directory) \union ToSet(ref.path)
<1>4. directory \in Seq(S) /\ ref.path \in Seq(S)
  <2>1. ASSUME NEW A, NEW B, NEW x \in Seq(A)
        PROVE  x \in Seq(A \union B) /\ x \in Seq(B \union A)
    OBVIOUS
  <2> QED BY <1>2, BindingAssumption, <2>1 DEF IsPath, NamesDocument, Sources, BindingInv, BindingTyped
<1> HIDE DEF S, ref
<1>5. /\ base = [scheme |-> "file", host |-> base.host, path |-> base.path]
      /\ base.host = FileUri(directory).host /\ Front(base.path) = RemoveDots(directory)
  BY <1>2, <1>4, DirectoryOpens
<1> DEFINE path == RemoveDots(RemoveDots(directory) \o ref.path)
<1>6. Join(base, ref) = [base EXCEPT !.path = path]
  <2> HIDE DEF base
  <2> QED BY <1>2, <1>5 DEF Join, ref
<1>7. path = RemoveDots(directory \o ref.path)
  BY <1>4, BehindNormal
<1> HIDE DEF path, base
<1>9. FileUri(directory \o ref.path) = [scheme |-> "file", host |-> FileUri(directory).host, path |-> path]
  BY <1>7 DEF FileUri
<1> QED BY <1>1, <1>5, <1>6, <1>9 DEF ref

\* Whatever documents are provided, a source is bound to the first that has the identity
\* its reference resolves to, an engine that was built has a base for each OpenAPI source,
\* every file read was in the list the caller could check, and an absolute $self decides
\* where relative references lead, without $self the directory of the description
\* (SourceBindings::new, bind, local_source_paths, directory_uri, remove_dot_segments).
THEOREM BindingsAreMeant == BindingSpec => []BindingIsMeant
<1>1. BindingSpec => []BindingInv
  BY BindingBegins, BindingKeeps, PTL DEF BindingSpec
<1>2. BindingInv => BindingIsMeant
  BY BindingFollows, DirectoryTells DEF BindingIsMeant
<1> QED BY <1>1, <1>2, PTL

\* What a step names is what the engine uses, for any documents: the sources of a description
\* are bound, operations are looked up and receive steps are planned, each for itself and in
\* any order of their steps (SourceBindings::bind, OperationIndex, project_receive_target).
THEOREM StepsMeanWhatTheyName == BindingSpec /\ OperationSpec /\ TargetSpec => []TargetsAreMeant
<1>1. BindingIsMeant /\ OperationIsMeant /\ TargetIsMeant => TargetsAreMeant
  BY DEF TargetsAreMeant
<1> QED BY <1>1, BindingsAreMeant, OperationsMeant, ReceiveIsMeant, PTL

(***************************************************************************)
(* Payload replacements                                                    *)
(***************************************************************************)

\* Lemma: what follows a path is found again behind it.
LEMMA BehindPath ==
  ASSUME NEW S, NEW a \in Seq(S), NEW r \in Seq(S)
  PROVE  /\ a \o r \in Seq(S) /\ IsPrefix(a, a \o r) /\ SubSeq(a \o r, Len(a) + 1, Len(a \o r)) = r
         /\ r # <<>> => Front(a \o r) = a \o Front(r) /\ Last(a \o r) = Last(r) /\ Front(r) \in Seq(S) /\ a \o r # <<>>
<1> DEFINE q == a \o r
<1>1. /\ q \in Seq(S) /\ Len(q) = Len(a) + Len(r) /\ Len(a) \in Nat /\ Len(r) \in Nat
      /\ \A i \in 1 .. Len(q) : q[i] = IF i <= Len(a) THEN a[i] ELSE r[i - Len(a)]
  BY ConcatProperties, LenProperties
<1>4. ASSUME r # <<>> PROVE Front(q) = a \o Front(r) /\ Last(q) = Last(r) /\ Front(r) \in Seq(S) /\ q # <<>>
  <2>1. Len(r) > 0
    BY <1>1, <1>4, EmptySeq
  <2> DEFINE f == Front(r)
  <2>2. f \in Seq(S) /\ Len(f) = Len(r) - 1 /\ \A i \in 1 .. Len(r) - 1 : f[i] = r[i]
    BY <1>4, FrontIs
  <2> HIDE DEF f
  <2>3. Front(q) \in Seq(S) /\ Len(Front(q)) = Len(q) - 1 /\ \A i \in 1 .. Len(q) - 1 : Front(q)[i] = q[i]
    <3>1. q # <<>>
      BY <1>1, <2>1
    <3> QED BY <1>1, <3>1, FrontIs
  <2>4. a \o f \in Seq(S) /\ Len(a \o f) = Len(a) + Len(r) - 1
        /\ \A i \in 1 .. Len(a) + Len(r) - 1 : (a \o f)[i] = IF i <= Len(a) THEN a[i] ELSE f[i - Len(a)]
    <3>1. a \o f \in Seq(S) /\ Len(a \o f) = Len(a) + Len(f)
          /\ \A i \in 1 .. Len(a) + Len(f) : (a \o f)[i] = IF i <= Len(a) THEN a[i] ELSE f[i - Len(a)]
      BY <2>2, ConcatProperties
    <3> QED BY <3>1, <1>1, <2>2
  <2>5. Front(q) = a \o f
    <3> DEFINE g == Front(q)
               h == a \o f
    <3>1. g \in Seq(S) /\ h \in Seq(S) /\ Len(g) = Len(h)
      BY <1>1, <2>3, <2>4
    <3>2. \A i \in 1 .. Len(g) : g[i] = h[i]
      <4>0. Len(g) = Len(a) + Len(r) - 1
        BY <1>1, <2>3
      <4>1. SUFFICES ASSUME NEW i \in 1 .. Len(a) + Len(r) - 1 PROVE g[i] = h[i]
        BY <4>0
      <4>2. g[i] = IF i <= Len(a) THEN a[i] ELSE r[i - Len(a)]
        BY <1>1, <2>1, <2>3
      <4>4. i > Len(a) => i - Len(a) \in 1 .. Len(r) - 1
        BY <1>1, <2>1
      <4> QED BY <2>2, <4>2, <2>4, <4>4, <1>1
    <3> HIDE DEF g, h
    <3> QED BY <3>1, <3>2, SeqEqual DEF g, h
  <2> QED BY <2>2, <2>5, <1>1, <2>1 DEF f, Last
<1> QED BY <1>1, SubSeqProperties, <1>4 DEF IsPrefix

\* Lemma: a path behind another one continues it.
LEMMA ContinuesPath ==
  ASSUME NEW S, NEW a \in Seq(S), NEW q \in Seq(S), IsPrefix(a, q)
  PROVE  LET r == SubSeq(q, Len(a) + 1, Len(q)) IN r \in Seq(S) /\ q = a \o r
<1> DEFINE r == SubSeq(q, Len(a) + 1, Len(q))
<1>1. Len(a) \in Nat /\ Len(q) \in Nat /\ Len(a) <= Len(q) /\ \A i \in 1 .. Len(a) : a[i] = q[i]
  BY LenProperties, SubSeqProperties DEF IsPrefix
<1>2. r \in Seq(S) /\ Len(r) = Len(q) - Len(a) /\ \A i \in 1 .. Len(q) - Len(a) : r[i] = q[Len(a) + i]
  BY <1>1, SubSeqProperties
<1> HIDE DEF r
<1>3. /\ a \o r \in Seq(S) /\ Len(a \o r) = Len(q)
      /\ \A i \in 1 .. Len(q) : (a \o r)[i] = IF i <= Len(a) THEN a[i] ELSE r[i - Len(a)]
  BY <1>1, <1>2, ConcatProperties
<1> QED BY <1>2, <1>3, <1>1, SeqEqual DEF r

\* Lemma: what is above a path that another one does not lead to is not behind it either.
LEMMA AbovePath ==
  ASSUME NEW S, NEW a \in Seq(S), NEW q \in Seq(S), q # <<>>
  PROVE  /\ Front(q) \in Seq(S) /\ Len(Front(q)) = Len(q) - 1 /\ Len(q) \in Nat \ {0}
         /\ IsPrefix(a, Front(q)) => IsPrefix(a, q)
<1>1. Len(a) \in Nat /\ Len(q) \in Nat /\ Len(q) > 0
  BY LenProperties, FrontIs
<1>2. Front(q) \in Seq(S) /\ Len(Front(q)) = Len(q) - 1 /\ \A i \in 1 .. Len(q) - 1 : Front(q)[i] = q[i]
  BY FrontIs
<1>3. ASSUME IsPrefix(a, Front(q)) PROVE IsPrefix(a, q) BY <1>1, <1>2, <1>3 DEF IsPrefix
<1> QED BY <1>1, <1>2, <1>3

\* Lemma: what a written value has at its paths: below the place what was written, and
\* elsewhere what was there.
LEMMA WrittenIs ==
  ASSUME NEW v, IsTree(v), NEW new, IsTree(new), NEW place \in Seq(Segments)
  PROVE  LET u == Write(v, place, new) IN
         /\ DOMAIN u \subseteq Seq(Segments)
         /\ \A r \in DOMAIN new : place \o r \in DOMAIN u /\ u[place \o r] = new[r]
         /\ \A q \in DOMAIN v : ~IsPrefix(place, q) => q \in DOMAIN u /\ u[q] = v[q]
         /\ \A q \in DOMAIN u : (\E r \in DOMAIN new : q = place \o r) \/ (q \in DOMAIN v /\ ~IsPrefix(place, q))
<1> DEFINE D == {place \o r : r \in DOMAIN new} \cup {q \in DOMAIN v : ~IsPrefix(place, q)}
           has(q) == IF IsPrefix(place, q) THEN new[SubSeq(q, Len(place) + 1, Len(q))] ELSE v[q]
           u == [q \in D |-> has(q)]
<1>1. Write(v, place, new) = u
  BY DEF Write
<1>2. DOMAIN v \subseteq Seq(Segments) /\ DOMAIN new \subseteq Seq(Segments)
  BY DEF IsTree
<1>3. \A r \in DOMAIN new : place \o r \in Seq(Segments) /\ IsPrefix(place, place \o r)
                            /\ SubSeq(place \o r, Len(place) + 1, Len(place \o r)) = r
  BY <1>2, BehindPath
<1>4. \A r \in DOMAIN new : place \o r \in D /\ has(place \o r) = new[r]
  BY <1>3
<1>5. \A q \in DOMAIN v : ~IsPrefix(place, q) => q \in D /\ has(q) = v[q]
  OBVIOUS
<1>6. \A q \in D : (\E r \in DOMAIN new : q = place \o r) \/ (q \in DOMAIN v /\ ~IsPrefix(place, q))
  OBVIOUS
<1>7. D \subseteq Seq(Segments)
  <2>1. ASSUME NEW q \in D PROVE q \in Seq(Segments)
    BY <1>2, <1>3, <1>6
  <2> HIDE DEF D
  <2> QED BY <2>1
<1> HIDE DEF D, has
<1>9. DOMAIN u = D /\ \A q \in D : u[q] = has(q)
  OBVIOUS
<1> QED BY <1>1, <1>4, <1>5, <1>6, <1>7, <1>9

\* Lemma: a value that is written at a place of an object or an array makes a value.
LEMMA TreeWritten ==
  ASSUME NEW v, IsTree(v), NEW new, IsTree(new), NEW place \in Seq(Segments), place # <<>>,
         Front(place) \in DOMAIN v, Container(v[Front(place)]),
         v[Front(place)] = "array" => Last(place) \in ToSet(Position)
  PROVE  IsTree(Write(v, place, new))
<1> DEFINE u == Write(v, place, new)
           Sound(t, p) == /\ Front(p) \in DOMAIN t /\ Structured(t[Front(p)])
                          /\ t[Front(p)] = "array" => Last(p) \in ToSet(Position)
                          /\ t[Front(p)] = "xml" => ~Structured(t[p])
<1>1. /\ DOMAIN v \subseteq Seq(Segments) /\ Root \in DOMAIN v /\ \A p \in DOMAIN v \ {Root} : Sound(v, p)
      /\ DOMAIN new \subseteq Seq(Segments) /\ Root \in DOMAIN new /\ \A p \in DOMAIN new \ {Root} : Sound(new, p)
  BY DEF IsTree
<1>2. /\ DOMAIN u \subseteq Seq(Segments)
      /\ \A r \in DOMAIN new : place \o r \in DOMAIN u /\ u[place \o r] = new[r]
      /\ \A q \in DOMAIN v : ~IsPrefix(place, q) => q \in DOMAIN u /\ u[q] = v[q]
      /\ \A q \in DOMAIN u : (\E r \in DOMAIN new : q = place \o r) \/ (q \in DOMAIN v /\ ~IsPrefix(place, q))
  BY WrittenIs
<1>6. Root \in DOMAIN u /\ Front(place) \in DOMAIN u /\ u[Front(place)] = v[Front(place)]
  BY <1>1, <1>2, FrontIs DEF IsPrefix, Root
<1>20. u = [q \in DOMAIN u |-> u[q]]
  BY DEF Write
<1> HIDE DEF u
<1>7. ASSUME NEW p \in DOMAIN u \ {Root} PROVE Sound(u, p)
  <2>1. CASE \E r \in DOMAIN new : p = place \o r
    <3>1. PICK r \in DOMAIN new : p = place \o r
      BY <2>1
    <3>2. CASE r = Root BY <1>6, <3>1, <3>2, ConcatEmptySeq DEF Structured, Container, Root
    <3>3. CASE r # Root
      <4>1. r \in Seq(Segments) /\ r # <<>> /\ Sound(new, r)
        BY <1>1, <3>3 DEF Root
      <4>2. Front(p) = place \o Front(r) /\ Last(p) = Last(r)
        <5>1. Front(place \o r) = place \o Front(r) /\ Last(place \o r) = Last(r)
          BY <4>1, BehindPath
        <5> QED BY <3>1, <5>1
      <4> QED BY <4>1, <4>2, <1>2, <3>1
    <3> QED BY <3>2, <3>3
  <2>2. CASE p \in DOMAIN v /\ ~IsPrefix(place, p) BY <1>1, <2>2, <1>2, AbovePath DEF Root
  <2> QED BY <1>2, <2>1, <2>2
<1> QED BY <1>2, <1>6, <1>7, <1>20 DEF u, IsTree

\* Lemma: what was written at a place is what is there.
LEMMA WrittenThere ==
  ASSUME NEW v, IsTree(v), NEW new, IsTree(new), NEW place \in Seq(Segments)
  PROVE  PayloadAt(Write(v, place, new), place) = new
<1> DEFINE u == Write(v, place, new)
           P == {p \in DOMAIN u : IsPrefix(place, p)}
           after(p) == SubSeq(p, Len(place) + 1, Len(p))
           D == {after(p) : p \in P}
<1>1. /\ DOMAIN u \subseteq Seq(Segments)
      /\ \A r \in DOMAIN new : place \o r \in DOMAIN u /\ u[place \o r] = new[r]
      /\ \A q \in DOMAIN v : ~IsPrefix(place, q) => q \in DOMAIN u /\ u[q] = v[q]
      /\ \A q \in DOMAIN u : (\E r \in DOMAIN new : q = place \o r) \/ (q \in DOMAIN v /\ ~IsPrefix(place, q))
  <2> HIDE DEF P, D
  <2> QED BY WrittenIs
<1>2. DOMAIN new \subseteq Seq(Segments) /\ new = [p \in DOMAIN new |-> new[p]]
  BY DEF IsTree
<1>3. \A r \in DOMAIN new : IsPrefix(place, place \o r) /\ after(place \o r) = r
  BY <1>2, BehindPath
<1> HIDE DEF u
<1>4. DOMAIN new \subseteq D
  BY <1>1, <1>3
<1>5. D \subseteq DOMAIN new
  BY <1>1, <1>3
<1>6. PayloadAt(u, place) = [q \in D |-> u[place \o q]]
  BY DEF PayloadAt
<1> HIDE DEF D
<1> QED BY <1>6, <1>1, <1>2, <1>4, <1>5 DEF u

\* Lemma: a list of values is a value.
LEMMA ArrayIsTree ==
  ASSUME NEW values, DOMAIN values \subseteq DOMAIN Position, \A i \in DOMAIN values : IsTree(values[i])
  PROVE  IsTree(ArrayOf(values))
<1> DEFINE U == UNION {{<<Position[i]>> \o r : r \in DOMAIN values[i]} : i \in DOMAIN values}
           D == {Root} \cup U
           which(q) == CHOOSE i \in DOMAIN values : Position[i] = Head(q)
           has(q) == IF q = Root THEN "array" ELSE values[which(q)][Tail(q)]
           u == [q \in D |-> has(q)]
<1>2. /\ DOMAIN Position = 1 .. 3 /\ \A i \in 1 .. 3 : Position[i] \in Segments /\ Position[i] \in ToSet(Position)
      /\ \A i, j \in 1 .. 3 : Position[i] = Position[j] => i = j
  <2>1. DOMAIN Position = 1 .. 3 /\ Position[1] = "0" /\ Position[2] = "1" /\ Position[3] = "2"
    BY DEF Position
  <2>3. \A i, j \in {1, 2, 3} : Position[i] = Position[j] => i = j
    <3> HIDE DEF Position
    <3> QED BY <2>1
  <2> QED BY <2>1, <2>3, PayloadAssumption DEF ToSet
<1>3. \A i \in DOMAIN values : /\ DOMAIN values[i] \subseteq Seq(Segments) /\ Root \in DOMAIN values[i]
  BY DEF IsTree
<1>4. ASSUME NEW i \in DOMAIN values, NEW r \in DOMAIN values[i]
      PROVE  LET q == <<Position[i]>> \o r IN
             /\ q \in D /\ q \in Seq(Segments) /\ q # Root /\ Head(q) = Position[i] /\ Tail(q) = r
             /\ has(q) = values[i][r]
  <2> DEFINE q == <<Position[i]>> \o r
  <2>2. q \in Seq(Segments) /\ q # Root /\ Head(q) = Position[i] /\ Tail(q) = r BY <1>2, <1>3 DEF Root
  <2>3. q \in U
    OBVIOUS
  <2> HIDE DEF q
  <2> QED BY <2>2, <2>3, <1>2 DEF q
<1>5. \A q \in D : q = Root \/ \E i \in DOMAIN values : \E r \in DOMAIN values[i] : q = <<Position[i]>> \o r
  OBVIOUS
<1> HIDE DEF U, has, D
<1>51. \A i \in DOMAIN values : \A r \in DOMAIN values[i] :
         LET q == <<Position[i]>> \o r IN
         /\ q \in D /\ q \in Seq(Segments) /\ q # Root /\ Head(q) = Position[i] /\ Tail(q) = r
         /\ has(q) = values[i][r]
  BY <1>4
<1>52. has(Root) = "array" /\ Root \in D
  BY DEF has, D
<1>6. D \subseteq Seq(Segments)
  <2>2. ASSUME NEW q \in D PROVE q \in Seq(Segments)
    <3>1. CASE q = Root BY <3>1 DEF Root
    <3>2. CASE q # Root
      <4>1. PICK i \in DOMAIN values : \E r \in DOMAIN values[i] : q = <<Position[i]>> \o r
        BY <1>5, <3>2
      <4>2. PICK r \in DOMAIN values[i] : q = <<Position[i]>> \o r
        BY <4>1
      <4> QED BY <1>51, <4>2
    <3> QED BY <3>1, <3>2
  <2> QED BY <2>2
<1>8. DOMAIN u = D /\ \A q \in D : u[q] = has(q)
  OBVIOUS
<1>9. u = [q \in DOMAIN u |-> u[q]]
  BY <1>8
<1> HIDE DEF u
<1>10. ASSUME NEW p \in DOMAIN u \ {Root}
       PROVE  /\ Front(p) \in DOMAIN u /\ Structured(u[Front(p)])
              /\ u[Front(p)] = "array" => Last(p) \in ToSet(Position)
              /\ u[Front(p)] = "xml" => ~Structured(u[p])
  <2>1. PICK i \in DOMAIN values : \E r \in DOMAIN values[i] : p = <<Position[i]>> \o r
    BY <1>5, <1>8
  <2>2. PICK r \in DOMAIN values[i] : p = <<Position[i]>> \o r
    BY <2>1
  <2>3. r \in Seq(Segments) /\ <<Position[i]>> \in Seq(Segments) /\ u[p] = values[i][r]
    BY <1>2, <1>3, <1>51, <1>8, <2>2
  <2>4. CASE r = Root
    <3>2. Front(p) = Root /\ Last(p) = Position[i] BY <2>3, <2>2, <2>4, ConcatEmptySeq DEF Front, Last, Root
    <3> QED BY <1>2, <1>52, <1>8, <3>2 DEF Structured, Container
  <2>5. CASE r # Root
    <3>2. Front(p) = <<Position[i]>> \o Front(r) /\ Last(p) = Last(r)
      <4> DEFINE a == <<Position[i]>>
      <4>1. a \in Seq(Segments) /\ r \in Seq(Segments) /\ r # <<>>
        BY <2>3, <2>5 DEF Root
      <4> HIDE DEF a
      <4>2. Front(a \o r) = a \o Front(r) /\ Last(a \o r) = Last(r)
        BY <4>1, BehindPath
      <4> QED BY <2>2, <4>2 DEF a
    <3> QED BY <2>3, <2>5, <3>2, <1>51, <1>8 DEF IsTree
  <2> QED BY <2>4, <2>5
<1> QED BY <1>52, <1>6, <1>8, <1>9, <1>10 DEF u, D, U, has, which, ArrayOf, IsTree

\* Lemma: what a replacement is to write is a value.
LEMMA ValueIsTree ==
  ASSUME NEW r \in Replacements
  PROVE  IsTree(PayloadResolve(r.value).value)
<1>1. IsTree(NoValue) BY DEF IsTree, NoValue, Scalar, Root
<1>2. ASSUME NEW x, Given(x) PROVE IsTree(ResolveItem(x).value)
  <2>1. CASE x.source = "literal"
    BY <1>2, <2>1 DEF Given, ResolveItem, Resolved
  <2>2. CASE x.source = "expression"
    BY <1>1, <2>2 DEF ResolveItem, Resolved
  <2>3. CASE x.source = "selector"
    BY <1>1, <1>2, <2>3 DEF Given, ResolveItem, ResolveSelector, ResolveJsonPath, Resolved, ResolveOther
  <2> QED BY <1>2, <2>1, <2>2, <2>3 DEF Given
<1> DEFINE x == r.value
<1>3. CASE x.source # "list" BY <1>2, <1>3, PayloadAssumption DEF PayloadResolve
<1>4. CASE x.source = "list"
  <2> DEFINE items == [i \in DOMAIN x.items |-> ResolveItem(x.items[i])]
             values == [i \in DOMAIN items |-> items[i].value]
  <2>1. PayloadResolve(x).value = ArrayOf(values)
    BY <1>4 DEF PayloadResolve, Resolved
  <2>2. DOMAIN x.items \subseteq DOMAIN Position /\ \A i \in DOMAIN x.items : Given(x.items[i])
    BY <1>4, PayloadAssumption
  <2>3. DOMAIN values = DOMAIN x.items /\ \A i \in DOMAIN values : values[i] = ResolveItem(x.items[i]).value
    OBVIOUS
  <2> HIDE DEF items, values, x
  <2>4. DOMAIN values \subseteq DOMAIN Position /\ \A i \in DOMAIN values : IsTree(values[i])
    BY <1>2, <2>2, <2>3
  <2> QED BY <2>1, <2>4, ArrayIsTree DEF x
<1> QED BY <1>3, <1>4

\* Lemma: a selector that fails, wherever it stands in what is to be written, makes
\* the whole of it fail.
LEMMA FailingFails ==
  ASSUME NEW r \in Replacements, Failing(r.value)
  PROVE  PayloadResolve(r.value).failed
<1> DEFINE x == r.value
<1>1. ASSUME NEW y, FailingItem(y) PROVE ResolveItem(y).failed
  BY <1>1 DEF Resolved, FailingItem, ResolveItem, ResolveSelector, ResolveJsonPath
<1>2. CASE x.source # "list"
  BY <1>1, <1>2 DEF Failing, PayloadResolve
<1>3. CASE x.source = "list"
  <2>1. PICK i \in DOMAIN x.items : FailingItem(x.items[i])
    BY <1>3 DEF Failing
  <2> DEFINE items == [k \in DOMAIN x.items |-> ResolveItem(x.items[k])]
  <2> QED BY <1>1, <2>1, <1>3 DEF PayloadResolve, Resolved
<1> QED BY <1>2, <1>3

\* Lemma: the place a pointer leads to can be written.
LEMMA PlaceIsThere ==
  ASSUME NEW v, IsTree(v), NEW pointer \in Seq(Segments), pointer # <<>>, Places(v, pointer) # {}
  PROVE  LET place == Place(v, pointer) IN
         /\ Leads(v, pointer, place) /\ place \in Seq(Segments) /\ place # <<>>
         /\ Front(place) \in DOMAIN v /\ Container(v[Front(place)])
         /\ v[Front(place)] = "array" => Last(place) \in ToSet(Position)
<1> DEFINE place == Place(v, pointer)
<1>1. place \in Places(v, pointer)
  BY DEF Place
<1> HIDE DEF place
<1>2. Len(pointer) \in Nat \ {0} /\ Last(pointer) \in Segments /\ Index(Last(pointer)) \in Segments
  BY FrontIs, ElementOfSeq, PayloadAssumption DEF Index, Last, Position, ToSet
<1>3. Leads(v, pointer, place) /\ \E p \in DOMAIN v : \E token \in Segments : place = Append(p, token)
  BY <1>1, <1>2 DEF Places
<1>5. place \in Seq(Segments) BY <1>3 DEF IsTree
<1>6. Len(place) = Len(pointer) /\ place # <<>>
  BY <1>2, <1>3, <1>5, EmptySeq DEF Leads
<1> DEFINE n == Len(pointer)
           here == SubSeq(place, 1, n - 1)
<1>8. /\ here \in DOMAIN v /\ Container(v[here])
      /\ SubSeq(place, 1, n) \in DOMAIN v \/ (n = Len(pointer) /\ v[here] = "object")
  BY <1>3, <1>2, LenProperties DEF Leads
<1>9. here = Front(place) /\ SubSeq(place, 1, n) = place
  BY <1>5, <1>6, SubSeqFull DEF Front
<1> QED BY <1>3, <1>5, <1>6, <1>8, <1>9 DEF place, IsTree, Root

\* Lemma: what one occurrence of a query is found at.
LEMMA FoundIs ==
  ASSUME NEW v, NEW path, OnlyOne(Located(v, path))
  PROVE  LET p == PlaceOf(Located(v, path)) IN
         p = Root \/ (p = <<"a">> /\ p \in Members(v, Root)) \/ p \in Members(v, <<"items">>)
<1> DEFINE found == Located(v, path)
           p == PlaceOf(found)
           There(q) == q = Root \/ (q = <<"a">> /\ q \in Members(v, Root)) \/ q \in Members(v, <<"items">>)
<1>1. PICK m \in found : found = {m}
  BY DEF OnlyOne
<1>3. \A x \in found : There(x[2])
  BY DEF Located
<1> QED BY <1>1, <1>3 DEF PlaceOf

\* Lemma: a place that was found leads to itself.
LEMMA FoundLeads ==
  ASSUME NEW v, IsTree(v), NEW q, (q = <<"a">> /\ q \in Members(v, Root)) \/ q \in Members(v, <<"items">>),
         NEW place \in Seq(Segments), Leads(v, q, place)
  PROVE  place = q
<1>1. q \in DOMAIN v /\ q # Root /\ q \in Seq(Segments)
  BY DEF Members, IsTree
<1>2. Len(place) = Len(q) /\ Len(q) \in Nat /\ DOMAIN q = 1 .. Len(q)
  BY <1>1, LenProperties DEF Leads
<1>3. \A i \in 1 .. Len(q) : q[i] # "01" => place[i] = q[i]
  BY <1>2 DEF Leads, Index
<1>4. CASE q = <<"a">> BY <1>1, <1>2, <1>3, <1>4, SeqEqual
<1>5. CASE q \in Members(v, <<"items">>)
  <2>1. Front(q) = <<"items">>
    BY <1>5 DEF Members
  <2>2. Len(q) = 2 /\ q[1] = "items"
    <3>1. Len(Front(q)) = 1 /\ Front(q)[1] = "items"
      BY <2>1
    <3>3. Len(Front(q)) = Len(q) - 1 /\ \A i \in 1 .. Len(q) - 1 : Front(q)[i] = q[i] BY <1>1, FrontIs DEF Root
    <3>8. Len(q) - 1 = 1
      BY <3>1, <3>3
    <3>9. Len(q) \in Nat
      BY <1>2
    <3>10. ASSUME NEW k \in Nat, k - 1 = 1 PROVE k = 2 /\ 1 \in 1 .. k - 1
      BY <3>10
    <3>4. Len(q) = 2 /\ 1 \in 1 .. Len(q) - 1
      BY ONLY <3>8, <3>9, <3>10
    <3> QED BY <3>1, <3>3, <3>4
  <2>3. place[1] = "items"
    BY <1>3, <2>2
  <2>4. SubSeq(place, 1, 1) = <<"items">>
    <3> DEFINE t == SubSeq(place, 1, 1)
    <3>2. \A i \in 1 .. 1 : place[i] \in Segments BY <1>2, <2>2, LenProperties, ElementOfSeq
    <3>3. t \in Seq(Segments) /\ Len(t) = 1 /\ \A i \in 1 .. 1 : t[i] = place[1 + i - 1]
      BY <3>2, SubSeqProperties
    <3> HIDE DEF t
    <3> DEFINE one == <<"items">>
    <3>5. one \in Seq(Segments) /\ Len(one) = 1 /\ one[1] = "items"
      BY <2>3, <3>2
    <3> HIDE DEF one
    <3>6. \A i \in 1 .. Len(t) : t[i] = one[i] BY <3>3, <2>3, <3>5
    <3> QED BY <3>3, <3>5, <3>6, SeqEqual DEF t, one
  <2>5. place[2] = IF v[<<"items">>] = "array" THEN Index(q[2]) ELSE q[2]
    <3>1. 2 \in DOMAIN q /\ 2 - 1 = 1
      BY <1>2, <2>2
    <3> QED BY <2>4, <3>1 DEF Leads
  <2>6. v[<<"items">>] = "array" => q[2] \in ToSet(Position)
    BY <1>1, <2>1, <2>2 DEF IsTree, Last
  <2>8. place[2] = q[2] BY <2>5, <2>6 DEF Index, Position, ToSet
  <2> QED BY <1>1, <1>2, <2>2, <2>3, <2>8, SeqEqual
<1> QED BY <1>4, <1>5

Words == Refusals \cup {"value", "structure"}
PayloadInv ==
  /\ IsTree(payload) /\ rest \in Seq(Replacements) /\ done \in Seq(Replacements)
  /\ warnings \in Seq(Seq(Words)) /\ Len(warnings) = Len(done)

\* What a replacement does that applies, and one that does not.
Keeps == payload' = payload /\ Refused(Last(warnings'))
Lands(place) == payload' = Write(payload, place, Value.value)
AppliesPointer ==
  /\ Kind(Current) = "jsonpointer" /\ Places(payload, Current.target.pointer) # {} /\ Current.target.pointer # <<>>
  /\ Lands(Place(payload, Current.target.pointer))
AppliesQuery ==
  LET found == Located(payload, Current.target.query) IN
  /\ Kind(Current) = "jsonpath" /\ OnlyOne(found)
  /\ IF PlaceOf(found) = Root THEN payload' = Value.value
     ELSE Places(payload, PlaceOf(found)) # {} /\ Lands(Place(payload, PlaceOf(found)))
AppliesXPath ==
  /\ Kind(Current) = "xpath" /\ payload[Root] = "xml"
  /\ payload' = Rewritten(XmlNodes(payload, Current.target.xpath))
Applies ==
  /\ ~Refused(Last(warnings')) /\ ~Failing(Current.value) /\ ~Current.target.empty
  /\ AppliesPointer \/ AppliesQuery \/ AppliesXPath
GoesOn ==
  /\ Current \in Replacements
  /\ rest' \in Seq(Replacements) /\ done' \in Seq(Replacements) /\ Len(done') = Len(done) + 1
  /\ warnings' \in Seq(Seq(Words)) /\ Len(warnings') = Len(warnings) + 1

\* Lemma: a replacement that has been up leaves its warnings.
LEMMA Advanced ==
  ASSUME PayloadInv, rest # <<>>, NEW warned \in Seq(Words), Advance(warned)
  PROVE  GoesOn /\ Last(warnings') = warned
<1>1. /\ rest \in Seq(Replacements) /\ done \in Seq(Replacements) /\ warnings \in Seq(Seq(Words))
      /\ warnings' = Append(warnings, warned) /\ rest' = Tail(rest) /\ done' = Append(done, Current)
  BY DEF PayloadInv, Advance
<1>4. /\ warnings' \in Seq(Seq(Words)) /\ Len(warnings') = Len(warnings) + 1
      /\ warnings'[Len(warnings) + 1] = warned
  BY <1>1, AppendProperties
<1> QED BY <1>1, HeadTailProperties, AppendProperties, <1>4 DEF GoesOn, Current, Last

\* Lemma: what is warned of before the place is looked for refuses nothing.
LEMMA BeforeIs ==
  /\ Before \in Seq(Words) /\ ~Refused(Before)
  /\ \A why \in Refusals : Append(Before, why) \in Seq(Words) /\ Refused(Append(Before, why))
<1> DEFINE first1 == IF Value.warned THEN <<"value">> ELSE <<>>
           second == IF Kind(Current) = "xpath" /\ Current.version = "xpath-10" /\ payload[Root] \in {"xml", "text"}
                         /\ Container(Value.value[Root]) THEN <<"structure">> ELSE <<>>
           Mild == {"value", "structure"}
<1>1. first1 \in Seq(Mild) /\ second \in Seq(Mild)
  <2>1. <<"value">> \in Seq(Mild) /\ <<"structure">> \in Seq(Mild) /\ <<>> \in Seq(Mild)
    OBVIOUS
  <2> QED BY <2>1
<1>2. Before = first1 \o second
  BY DEF Before
<1> HIDE DEF first1, second
<1>3. Before \in Seq(Mild)
  BY <1>1, <1>2, ConcatProperties
<1>4. Before \in Seq(Words)
  BY <1>3, SeqMonotonic DEF Words
<1>6. ToSet(Before) \subseteq Mild BY <1>3 DEF ToSet
<1>9. ASSUME NEW why \in Refusals PROVE Append(Before, why) \in Seq(Words) /\ Refused(Append(Before, why))
  <2> DEFINE all == Append(Before, why)
  <2> HIDE DEF all
  <2> QED BY <1>4, AppendProperties, LenProperties DEF Refused, all, ToSet, Words
<1> QED BY <1>4, <1>6, <1>9 DEF Refused, Refusals

\* Lemma: a replacement that is declined keeps the payload, and it is said so.
LEMMA DeclineKeeps ==
  ASSUME PayloadInv, rest # <<>>, NEW why \in Refusals, Decline(why)
  PROVE  GoesOn /\ Keeps
  BY BeforeIs, Advanced DEF Keeps, Decline

\* Lemma: one that applies says nothing else.
LEMMA ApplyGoesOn ==
  ASSUME PayloadInv, rest # <<>>, NEW new, Apply(new)
  PROVE  GoesOn /\ payload' = new /\ ~Refused(Last(warnings'))
  BY BeforeIs, Advanced DEF Apply

\* Lemma: every step keeps the payload and says so, or applies.
LEMMA PayloadSteps ==
  ASSUME PayloadInv, PayloadNext
  PROVE  GoesOn /\ (Keeps \/ Applies)
<1>1. rest # <<>>
  BY DEF PayloadNext, EmptyTarget, Unresolved, UnsupportedType, ByPointer, ByQuery, ByXPath, Ready
<1>3. ASSUME ~Value.failed PROVE ~Failing(Current.value)
  BY <1>1, HeadTailProperties, <1>3, FailingFails DEF Value, PayloadInv, Current
<1>4. {"empty target", "value failed", "type", "version", "pointer", "query", "places", "no xml", "xpath"} \subseteq Refusals
  BY DEF Refusals
<1>5. CASE EmptyTarget
  <2> DEFINE warned1 == <<"empty target">>
  <2>1. warned1 \in Seq(Words) /\ "empty target" \in ToSet(warned1)
    <3>1. "empty target" \in Words
      BY <1>4 DEF Words
    <3>2. 1 \in DOMAIN warned1 /\ warned1[1] = "empty target"
      OBVIOUS
    <3>3. warned1 \in Seq(Words)
      <4>1. ASSUME NEW S, NEW x \in S PROVE <<x>> \in Seq(S)
        OBVIOUS
      <4> QED BY ONLY <3>1, <4>1
    <3> HIDE DEF warned1
    <3> QED BY <3>3, <3>2 DEF ToSet
  <2>3. Advance(warned1) /\ payload' = payload
    BY <1>5 DEF EmptyTarget
  <2> HIDE DEF warned1
  <2> QED BY <1>4, <2>1, <2>3, <1>1, Advanced DEF Keeps, Refused
<1>6. CASE Unresolved BY <1>1, <1>4, <1>6, DeclineKeeps DEF Unresolved
<1>7. CASE UnsupportedType BY <1>1, <1>4, <1>7, DeclineKeeps DEF UnsupportedType
<1>8. CASE ByPointer
  <2>3. CASE Decline("version") \/ Decline("pointer")
    BY <1>1, <1>4, <2>3, DeclineKeeps
  <2>4. CASE /\ Current.target.pointer # <<>> /\ Places(payload, Current.target.pointer) # {}
             /\ Apply(Write(payload, Place(payload, Current.target.pointer), Value.value))
    BY <1>3, <1>8, <2>4, <1>1, ApplyGoesOn DEF Applies, AppliesPointer, ByPointer, Ready, Lands
  <2> QED BY <1>8, <2>3, <2>4 DEF ByPointer, WriteAt
<1>9. CASE ByQuery
  <2> DEFINE found1 == Located(payload, Current.target.query)
             p == PlaceOf(found1)
  <2>1. ~Value.failed /\ Kind(Current) = "jsonpath" /\ ~Current.target.empty
    BY <1>9 DEF ByQuery, Ready
  <2>3. CASE Decline("version") \/ Decline("query") \/ Decline("places") \/ Decline("pointer")
    BY <1>1, <1>4, <2>3, DeclineKeeps
  <2>4. CASE OnlyOne(found1) /\ p = Root /\ Apply(Value.value)
    BY <1>3, <2>1, <2>4, <1>1, ApplyGoesOn DEF Applies, AppliesQuery
  <2>5. CASE OnlyOne(found1) /\ p # Root /\ Places(payload, p) # {} /\ Apply(Write(payload, Place(payload, p), Value.value))
    BY <1>3, <2>1, <2>5, <1>1, ApplyGoesOn DEF Applies, AppliesQuery, Lands
  <2> QED BY <1>9, <2>3, <2>4, <2>5 DEF ByQuery, WriteAt
<1>10. CASE ByXPath
  <2> DEFINE nodes == XmlNodes(payload, Current.target.xpath)
  <2>3. CASE Decline("version") \/ Decline("no xml") \/ Decline("xpath")
    BY <1>1, <1>4, <2>3, DeclineKeeps
  <2>4. CASE payload[Root] = "xml" /\ Apply(Rewritten(nodes))
    BY <1>3, <1>10, <2>4, <1>1, ApplyGoesOn DEF Applies, AppliesXPath, ByXPath, Ready
  <2> QED BY <1>10, <2>3, <2>4 DEF ByXPath
<1> QED BY <1>5, <1>6, <1>7, <1>8, <1>9, <1>10 DEF PayloadNext

\* Lemma: the text of a value has nothing below it.
LEMMA TextIsPlain ==
  ASSUME NEW value
  PROVE  ~Structured(AsText(value))
  BY DEF AsText, Structured, Container

\* Lemma: a document whose nodes were written is a value, and only they have changed.
LEMMA NodesWritten ==
  ASSUME PayloadInv, payload[Root] = "xml", NEW path
  PROVE  LET nodes == XmlNodes(payload, path)
             u == Rewritten(nodes)
         IN  /\ IsTree(u) /\ DOMAIN u = DOMAIN payload /\ nodes \subseteq DOMAIN payload
             /\ \A n \in nodes : u[n] = AsText(Value.value)
             /\ \A p \in DOMAIN payload \ nodes : u[p] = payload[p]
<1> DEFINE nodes == XmlNodes(payload, path)
           u == Rewritten(nodes)
<1>1. /\ IsTree(payload) /\ DOMAIN payload \subseteq Seq(Segments) /\ Root \in DOMAIN payload
      /\ \A p \in DOMAIN payload \ {Root} :
           /\ Front(p) \in DOMAIN payload /\ Structured(payload[Front(p)])
           /\ payload[Front(p)] = "array" => Last(p) \in ToSet(Position)
           /\ payload[Front(p)] = "xml" => ~Structured(payload[p])
  BY DEF PayloadInv, IsTree
<1>2. /\ nodes \subseteq DOMAIN payload
      /\ \A n \in nodes : n = <<"x">> \/ n = <<"y">> \/ n = <<"comment">>
  BY DEF XmlNodes
<1>3. /\ u = [p \in DOMAIN u |-> u[p]] /\ DOMAIN u = DOMAIN payload
      /\ \A p \in DOMAIN payload : u[p] = IF p \in nodes THEN AsText(Value.value) ELSE payload[p]
  BY DEF Rewritten
<1> HIDE DEF u, nodes
<1>4. \A n \in nodes : n # Root /\ Front(n) = Root
  <2>1. \A x : <<x>> # <<>> /\ Front(<<x>>) = <<>>
    BY DEF Front
  <2> QED BY <1>2, <2>1 DEF Root
<1>6. ASSUME NEW p \in DOMAIN u \ {Root}
      PROVE  /\ Front(p) \in DOMAIN u /\ Structured(u[Front(p)])
             /\ u[Front(p)] = "array" => Last(p) \in ToSet(Position)
             /\ u[Front(p)] = "xml" => ~Structured(u[p])
  <2>4. ~Structured(payload[p]) => ~Structured(u[p])
    BY <1>3, TextIsPlain
  <2> QED BY <1>3, <1>1, <1>2, <1>4, <2>4
<1> QED BY <1>2, <1>3, <1>6, <1>1 DEF u, nodes, IsTree

\* Lemma: the place that a replacement names is where it is written.
LEMMA WhereItLands ==
  ASSUME PayloadInv, Current \in Replacements, AppliesPointer \/ AppliesQuery
  PROVE  /\ Kind(Current) # "xpath" /\ IsTree(Value.value)
         /\ \E place \in Seq(Segments) :
              /\ PayloadNamed(Current) = {place}
              /\ \/ place = Root /\ payload' = Value.value
                 \/ /\ Lands(place) /\ place # <<>>
                    /\ Front(place) \in DOMAIN payload /\ Container(payload[Front(place)])
                    /\ payload[Front(place)] = "array" => Last(place) \in ToSet(Position)
<1>1. IsTree(payload) /\ IsTree(Value.value)
  BY ValueIsTree DEF PayloadInv, Value
<1>2. CASE AppliesPointer
  <2> DEFINE pointer1 == Current.target.pointer
             place == Place(payload, pointer1)
  <2>1. pointer1 \in Seq(Segments) /\ pointer1 # <<>> /\ Places(payload, pointer1) # {} /\ Lands(place)
        /\ Kind(Current) = "jsonpointer"
    BY <1>2, PayloadAssumption DEF AppliesPointer
  <2>2. PayloadNamed(Current) = {place}
    BY <2>1 DEF PayloadNamed
  <2> HIDE DEF pointer1
  <2>3. /\ place \in Seq(Segments) /\ place # <<>>
        /\ Front(place) \in DOMAIN payload /\ Container(payload[Front(place)])
        /\ payload[Front(place)] = "array" => Last(place) \in ToSet(Position)
    BY <1>1, <2>1, PlaceIsThere
  <2> HIDE DEF place
  <2> QED BY <1>1, <2>1, <2>2, <2>3
<1>3. CASE AppliesQuery
  <2> DEFINE found1 == Located(payload, Current.target.query)
             q == PlaceOf(found1)
             place == Place(payload, q)
  <2>1. /\ Kind(Current) = "jsonpath" /\ OnlyOne(found1)
        /\ IF q = Root THEN payload' = Value.value ELSE Places(payload, q) # {} /\ Lands(place)
    BY <1>3 DEF AppliesQuery
  <2>2. PayloadNamed(Current) = {q}
    BY <2>1 DEF PayloadNamed
  <2>3. q = Root \/ (q = <<"a">> /\ q \in Members(payload, Root)) \/ q \in Members(payload, <<"items">>)
    BY <2>1, FoundIs
  <2> HIDE DEF found1, q
  <2>4. CASE q = Root
    <3>1. Root \in Seq(Segments)
      BY DEF Root
    <3> QED BY <1>1, <2>1, <2>2, <2>4, <3>1
  <2>5. CASE q # Root
    <3>2. /\ Leads(payload, q, place) /\ place \in Seq(Segments) /\ place # <<>>
          /\ Front(place) \in DOMAIN payload /\ Container(payload[Front(place)])
          /\ payload[Front(place)] = "array" => Last(place) \in ToSet(Position)
      BY <1>1, <2>1, <2>5, <2>3, PlaceIsThere DEF Members, IsTree, Root
    <3> HIDE DEF place
    <3>3. place = q
      BY <1>1, <2>3, <2>5, <3>2, FoundLeads
    <3> QED BY <1>1, <2>1, <2>2, <2>5, <3>2, <3>3
  <2> QED BY <2>4, <2>5
<1> QED BY <1>2, <1>3

\* Lemma: the payload stays a value, and what is not named stays what it is.
LEMMA AppliedRight ==
  ASSUME PayloadInv, Current \in Replacements, Applies
  PROVE  LET named == PayloadNamed(Current) IN
         /\ IsTree(payload')
         /\ \A p \in DOMAIN payload \cup DOMAIN payload' :
              (\A n \in named : ~IsPrefix(n, p)) => p \in DOMAIN payload \cap DOMAIN payload' /\ payload[p] = payload'[p]
         /\ \A n \in named : IF Kind(Current) # "xpath" THEN PayloadAt(payload', n) = Value.value
                              ELSE payload'[n] = AsText(Value.value)
<1> DEFINE named == PayloadNamed(Current)
<1>1. IsTree(payload)
  BY DEF PayloadInv
<1>2. CASE AppliesPointer \/ AppliesQuery
  <2>1. PICK place \in Seq(Segments) :
          /\ named = {place}
          /\ \/ place = Root /\ payload' = Value.value
             \/ /\ Lands(place) /\ place # <<>>
                /\ Front(place) \in DOMAIN payload /\ Container(payload[Front(place)])
                /\ payload[Front(place)] = "array" => Last(place) \in ToSet(Position)
    BY <1>2, WhereItLands
  <2>2. Kind(Current) # "xpath" /\ IsTree(Value.value)
    BY <1>2, WhereItLands
  <2> HIDE DEF named
  <2>3. CASE place = Root /\ payload' = Value.value
    <3>1. DOMAIN payload \subseteq Seq(Segments) /\ DOMAIN Value.value \subseteq Seq(Segments)
          /\ Value.value = [q \in DOMAIN Value.value |-> Value.value[q]]
      BY <1>1, <2>2 DEF IsTree
    <3>2. ASSUME NEW q \in Seq(Segments) PROVE IsPrefix(Root, q) /\ Root \o q = q /\ SubSeq(q, Len(Root) + 1, Len(q)) = q
      <4>2. Root \in Seq(Segments)
        BY DEF Root
      <4>3. IsPrefix(Root, Root \o q) /\ SubSeq(Root \o q, Len(Root) + 1, Len(Root \o q)) = q
        BY <4>2, BehindPath
      <4> QED BY ConcatEmptySeq, <4>3 DEF Root
    <3> DEFINE value == Value.value
               D == {SubSeq(p, Len(Root) + 1, Len(p)) : p \in {p \in DOMAIN value : IsPrefix(Root, p)}}
    <3>3. PayloadAt(value, Root) = [q \in D |-> value[Root \o q]]
      BY DEF PayloadAt
    <3>4. D = DOMAIN value
      BY <3>1, <3>2
    <3> HIDE DEF D
    <3>6. PayloadAt(value, Root) = value BY <3>1, <3>3, <3>4, <3>2
    <3> QED BY <2>1, <2>2, <2>3, <3>6, <3>1, <3>2 DEF named
  <2>4. CASE /\ Lands(place) /\ place # <<>>
             /\ Front(place) \in DOMAIN payload /\ Container(payload[Front(place)])
             /\ payload[Front(place)] = "array" => Last(place) \in ToSet(Position)
    <3> DEFINE u == Write(payload, place, Value.value)
    <3>1. payload' = u
      BY <2>4 DEF Lands
    <3>2. IsTree(u)
      BY <1>1, <2>2, <2>4, TreeWritten
    <3>3. PayloadAt(u, place) = Value.value
      BY <1>1, <2>2, WrittenThere
    <3>4. /\ \A q \in DOMAIN payload : ~IsPrefix(place, q) => q \in DOMAIN u /\ u[q] = payload[q]
          /\ \A q \in DOMAIN u : (\E r \in DOMAIN Value.value : q = place \o r) \/ (q \in DOMAIN payload /\ ~IsPrefix(place, q))
      BY <1>1, <2>2, WrittenIs
    <3>5. \A r \in DOMAIN Value.value : IsPrefix(place, place \o r)
      BY <2>2, BehindPath DEF IsTree
    <3> HIDE DEF u
    <3>6. \A p \in DOMAIN payload \cup DOMAIN u : ~IsPrefix(place, p) => p \in DOMAIN payload \cap DOMAIN u /\ payload[p] = u[p]
      BY <3>4, <3>5
    <3> QED BY <2>1, <2>2, <3>1, <3>2, <3>3, <3>6 DEF named
  <2> QED BY <2>1, <2>3, <2>4
<1>3. CASE AppliesXPath
  <2> DEFINE u == Rewritten(named)
  <2>1. Kind(Current) = "xpath" /\ payload[Root] = "xml" /\ named = XmlNodes(payload, Current.target.xpath)
    BY <1>3 DEF AppliesXPath, PayloadNamed
  <2>2. payload' = u
    BY <1>3, <2>1 DEF AppliesXPath
  <2>3. /\ IsTree(u) /\ DOMAIN u = DOMAIN payload /\ named \subseteq DOMAIN payload
        /\ \A n \in named : u[n] = AsText(Value.value)
        /\ \A p \in DOMAIN payload \ named : u[p] = payload[p]
    BY <2>1, NodesWritten
  <2> HIDE DEF u, named
  <2> QED BY <2>1, <2>2, <2>3, <1>1, LenProperties DEF named, IsTree, IsPrefix
<1> QED BY <1>2, <1>3 DEF Applies

LEMMA PayloadBegins == PayloadInit => PayloadInv
<1> SUFFICES ASSUME PayloadInit PROVE PayloadInv
  OBVIOUS
<1>1. /\ payload \in Bodies /\ warnings = <<>> /\ done = <<>>
      /\ rest \in BoundedSeq(Replacements, MaxReplacements)
  BY DEF PayloadInit
<1>3. PICK m \in 0 .. MaxReplacements : rest \in [1 .. m -> Replacements]
  BY <1>1 DEF BoundedSeq, SeqOf
<1> QED BY <1>1, PayloadAssumption, <1>3, IsASeq DEF PayloadInv

\* Lemma: what every step keeps, and what it may do.
LEMMA PayloadKept ==
  ASSUME PayloadInv, [PayloadNext]_payloadVars
  PROVE  PayloadInv'
<1>1. CASE UNCHANGED payloadVars
  BY <1>1 DEF PayloadInv, payloadVars, IsTree
<1>2. CASE PayloadNext
  <2>1. GoesOn /\ (Keeps \/ Applies)
    BY <1>2, PayloadSteps
  <2>2. IsTree(payload')
    <3>1. CASE Keeps
      BY <3>1 DEF Keeps, PayloadInv
    <3>2. CASE Applies
      BY <2>1, <3>2, AppliedRight DEF GoesOn
    <3> QED BY <2>1, <3>1, <3>2
  <2> QED BY <2>1, <2>2 DEF PayloadInv, GoesOn, IsTree
<1> QED BY <1>1, <1>2

\* Theorem: for any bodies, and series of replacements of any length, a replacement writes
\* its value at the one place its target names, or is reported and leaves the body as
\* it was, and the body is a value throughout (apply_replacements).
THEOREM ReplacementsAtomic == PayloadSpec => ReplacementsAreAtomic
<1>1. PayloadSpec => []PayloadInv
  BY PayloadBegins, PayloadKept, PTL DEF PayloadSpec
<1>2. PayloadInv => BodyTypeOK
  BY DEF PayloadInv, BodyTypeOK
<1>3. ASSUME PayloadInv, [PayloadNext]_payloadVars, Went
      PROVE  GoesOn /\ (Keeps \/ Applies) BY <1>3, PayloadSteps DEF Went, payloadVars
<1>4. PayloadInv /\ [PayloadNext]_payloadVars => (Went /\ Refused(Last(warnings')) => payload' = payload)
  BY <1>3 DEF Keeps, Applies
<1>5. PayloadInv /\ [PayloadNext]_payloadVars =>
        (Applied =>
           LET named == PayloadNamed(Current)
           IN  /\ \A p \in DOMAIN payload \cup DOMAIN payload' :
                    (\A n \in named : ~IsPrefix(n, p)) => p \in DOMAIN payload \cap DOMAIN payload' /\ payload[p] = payload'[p]
               /\ \A n \in named : IF Kind(Current) # "xpath" THEN PayloadAt(payload', n) = Value.value
                                    ELSE payload'[n] = AsText(Value.value))
  BY <1>3, AppliedRight DEF Applied, Keeps, GoesOn
<1>6. PayloadInv /\ [PayloadNext]_payloadVars =>
        (Went /\ Failing(Current.value) => payload' = payload /\ Refused(Last(warnings')))
  BY <1>3 DEF Keeps, Applies
<1>7. PayloadInv /\ [PayloadNext]_payloadVars =>
        ((Went /\ ~Current.target.empty /\ Kind(Current) = "jsonpath" /\ ~OnlyOne(Located(payload, Current.target.query)))
           => payload' = payload /\ Refused(Last(warnings')))
  BY <1>3 DEF Keeps, Applies, AppliesPointer, AppliesQuery, AppliesXPath
<1> QED BY <1>1, <1>2, <1>4, <1>5, <1>6, <1>7, PTL
      DEF PayloadSpec, ReplacementsAreAtomic, FailureLeavesBody, OnlyTheTargetChanges, NoFailedValueWritten, OnePlaceOrNone
=============================================================================
