------------------------------ MODULE HttpExchange ------------------------------
(***************************************************************************)
(* One live request and the redirects it follows.  One deadline spans the  *)
(* whole chain and the body; every hop chooses its client by its own URL,  *)
(* and rewrites the method, the payload and the headers for the next one.  *)
(* Of the headers the model keeps what is told apart: the credentials, the *)
(* description of the payload, and the referer.                            *)
(***************************************************************************)
EXTENDS Naturals, Sequences, SequencesExt

CONSTANTS
  Hosts, Ports,     (* Ports has None: the one of the scheme               *)
  ExchangeEntries,  (* configured exceptions of verification, of Entry     *)
  InsecureAll,      (* no verification at all                              *)
  AllowDowngrade,   (* a redirect from https to http is followed           *)
  MaxRedirects,
  Timeout,          (* of the chain                                        *)
  MaxBytes,         (* of a body                                           *)
  ExchangeNone,
  MaxLate           (* bound: ticks a task waits for a thread              *)

Urls == [tls : BOOLEAN, host : Hosts, port : Ports]
Entry == [host : Hosts, port : Ports]     (* without a port: on any one     *)

Failures == {"cancelled", "timeout", "downgrade", "limit", "tooLarge", "transport"}

ASSUME ExchangeAssumption ==
  /\ ExchangeNone \notin Failures \union {"verified", "insecure"} \union Urls
  /\ ExchangeNone \in Ports /\ Ports \ {ExchangeNone} \subseteq Nat /\ ExchangeEntries \subseteq Entry
  /\ InsecureAll \in BOOLEAN /\ AllowDowngrade \in BOOLEAN
  /\ MaxRedirects \in Nat /\ Timeout \in Nat /\ MaxBytes \in Nat /\ MaxLate \in Nat

VARIABLES
  exchangePhase,
  first,                       (* the request as it was asked for                         *)
  url, method, body, headers,  (* the request of this hop                                 *)
  hops,                        (* the redirects followed: from which URL, by which status *)
  exchangeClock,
  hopEnds,                     (* when the transport gives this hop up                    *)
  client,                      (* which client sends this hop                             *)
  used,                        (* entries recorded as used                                *)
  exchangeReceived,            (* bytes of the body                                       *)
  exchangeCancelled, failure

exchangeVars == <<exchangePhase, first, url, method, body, headers, hops, exchangeClock, hopEnds, client, used,
          exchangeReceived, exchangeCancelled, failure>>

request == <<url, method, body, headers, hops>>

EffectivePort(u) == IF u.port # ExchangeNone THEN u.port ELSE IF u.tls THEN 443 ELSE 80

Methods == {"GET", "POST", "PUT", "HEAD"}

\* A body comes with headers that describe it.
ExchangeInit ==
  /\ \E u \in Urls, m \in Methods, b \in BOOLEAN :
       /\ first = [url |-> u, method |-> m, body |-> b]
       /\ url = u /\ method = m /\ body = b
       /\ headers = [credentials |-> TRUE, payload |-> b, referer |-> ExchangeNone]
  /\ exchangePhase = "ready" /\ hops = <<>> /\ exchangeClock = 0 /\ hopEnds = Timeout /\ client = ExchangeNone
  /\ used = {} /\ exchangeReceived = 0 /\ exchangeCancelled = FALSE /\ failure = ExchangeNone

ExchangeFail(kind) == exchangePhase' = "failed" /\ failure' = kind

\* ------------------------------------------------------------------ sending

Matching(u) == {e \in ExchangeEntries : e.host = u.host /\ e.port \in {ExchangeNone, EffectivePort(u)}}

\* The entry that is recorded is the first of the matching ones, and of a host with
\* and without a port the one without comes first.
Recorded(u) ==
  IF \E e \in Matching(u) : e.port = ExchangeNone THEN {e \in Matching(u) : e.port = ExchangeNone} ELSE Matching(u)

\* mutant: the client is chosen once, for the first hop
SelectOnce ==
  IF hops # <<>> THEN UNCHANGED <<client, used>>
  ELSE IF InsecureAll THEN client' = "insecure" /\ UNCHANGED used
  ELSE IF Matching(url) # {} THEN client' = "insecure" /\ used' = used \union Recorded(url)
  ELSE client' = "verified" /\ UNCHANGED used

SelectClient ==
  IF InsecureAll THEN client' = "insecure" /\ UNCHANGED used
  ELSE IF Matching(url) # {} THEN client' = "insecure" /\ used' = used \union Recorded(url)
  ELSE client' = "verified" /\ UNCHANGED used

\* What is left of the deadline is the timeout of this hop, its body included.
HopEnd == Timeout

Late == exchangeClock > Timeout

ExchangeSend ==
  /\ exchangePhase = "ready"
  /\ \/ /\ exchangeCancelled /\ ExchangeFail("cancelled") /\ UNCHANGED <<client, used, hopEnds>>
     \/ /\ ~exchangeCancelled /\ Late /\ ExchangeFail("timeout") /\ UNCHANGED <<client, used, hopEnds>>
     \/ /\ ~exchangeCancelled /\ ~Late /\ SelectClient /\ hopEnds' = HopEnd
        /\ exchangePhase' = "sending" /\ UNCHANGED failure
  /\ UNCHANGED <<first, request, exchangeClock, exchangeReceived, exchangeCancelled>>

\* --------------------------------------------------------------- redirection

SameOrigin(u, v) == u.host = v.host /\ EffectivePort(u) = EffectivePort(v)

CrossHost(u, v) == ~SameOrigin(u, v)

DropsPayload(status) == status = 303 \/ (status \in {301, 302} /\ method = "POST")

\* A hop to plain text is not given a referer; it keeps one it already has.
RewrittenHeaders(next, status) ==
  [credentials |-> headers.credentials /\ ~CrossHost(url, next),
   payload |-> headers.payload /\ ~DropsPayload(status),
   referer |-> IF url.tls /\ ~next.tls THEN headers.referer ELSE url]

Decide(next) ==
  IF url.tls /\ ~next.tls /\ ~AllowDowngrade THEN "downgrade"
  ELSE IF Len(hops) >= MaxRedirects THEN "limit" ELSE "follow"

Follow(next, status) ==
  /\ hops' = Append(hops, [from |-> url, status |-> status])
  /\ method' = IF method # "HEAD" /\ DropsPayload(status) THEN "GET" ELSE method
  /\ body' = (body /\ ~DropsPayload(status))
  /\ headers' = RewrittenHeaders(next, status)
  /\ url' = next
  /\ exchangePhase' = "ready" /\ UNCHANGED failure

\* The server redirects; between the answer and the next hop the task does not wait.
Redirected ==
  /\ exchangePhase = "sending" /\ ~exchangeCancelled
  /\ \E status \in {301, 302, 303, 307}, next \in Urls :
       \/ Decide(next) = "follow" /\ Follow(next, status)
       \/ Decide(next) # "follow" /\ ExchangeFail(Decide(next)) /\ UNCHANGED request
  /\ UNCHANGED <<first, exchangeClock, hopEnds, client, used, exchangeReceived, exchangeCancelled>>

\* --------------------------------------------------------------------- body

\* Any other answer, and a redirection that does not say where to; a length that is
\* declared too large is refused before it is read.
ExchangeAnswered ==
  /\ exchangePhase = "sending" /\ ~exchangeCancelled
  /\ \/ exchangePhase' = "reading" /\ UNCHANGED failure
     \/ ExchangeFail("tooLarge")
  /\ UNCHANGED <<first, request, exchangeClock, hopEnds, client, used, exchangeReceived, exchangeCancelled>>

TakeChunk(n) ==
  IF exchangeReceived + n > MaxBytes THEN ExchangeFail("tooLarge") /\ UNCHANGED exchangeReceived
  ELSE exchangeReceived' = exchangeReceived + n /\ UNCHANGED <<exchangePhase, failure>>

Chunk ==
  /\ exchangePhase = "reading" /\ ~exchangeCancelled
  /\ \E n \in 1 .. MaxBytes + 1 : TakeChunk(n)
  /\ UNCHANGED <<first, request, exchangeClock, hopEnds, client, used, exchangeCancelled>>

Complete ==
  /\ exchangePhase = "reading" /\ ~exchangeCancelled
  /\ exchangePhase' = "done"
  /\ UNCHANGED <<first, request, exchangeClock, hopEnds, client, used, exchangeReceived, exchangeCancelled, failure>>

\* ------------------------------------------------ failures, cancellation, time

\* The connection fails.
Broken ==
  /\ exchangePhase \in {"sending", "reading"} /\ ~exchangeCancelled
  /\ ExchangeFail("transport")
  /\ UNCHANGED <<first, request, exchangeClock, hopEnds, client, used, exchangeReceived, exchangeCancelled>>

\* The wait for an answer or a chunk ends at the hop's deadline or by cancellation.
GiveUp ==
  /\ exchangePhase \in {"sending", "reading"}
  /\ IF exchangeCancelled THEN ExchangeFail("cancelled") ELSE exchangeClock = hopEnds /\ ExchangeFail("timeout")
  /\ UNCHANGED <<first, request, exchangeClock, hopEnds, client, used, exchangeReceived, exchangeCancelled>>

ExchangeCancel ==
  /\ ~exchangeCancelled /\ exchangePhase \notin {"done", "failed"}
  /\ exchangeCancelled' = TRUE
  /\ UNCHANGED <<exchangePhase, first, request, exchangeClock, hopEnds, client, used, exchangeReceived, failure>>

ExchangeTick ==
  /\ \/ exchangePhase \in {"sending", "reading"} /\ exchangeClock < hopEnds
     \/ exchangePhase = "ready" /\ exchangeClock < Timeout + MaxLate
  /\ exchangeClock' = exchangeClock + 1
  /\ UNCHANGED <<exchangePhase, first, request, hopEnds, client, used, exchangeReceived, exchangeCancelled, failure>>

ExchangeNext ==
  \/ ExchangeSend \/ Redirected \/ ExchangeAnswered \/ Chunk \/ Complete \/ Broken \/ GiveUp \/ ExchangeCancel \/ ExchangeTick

ExchangeSpec == ExchangeInit /\ [][ExchangeNext]_exchangeVars

-----------------------------------------------------------------------------
\* The request that a hop sends.
Sends == exchangePhase = "sending"
Trail == [k \in 1 .. Len(hops) |-> hops[k].from] \o <<url>>

ExchangeTypeOK ==
  /\ exchangePhase \in {"ready", "sending", "reading", "done", "failed"}
  /\ url \in Urls /\ method \in Methods /\ body \in BOOLEAN /\ headers.payload \in BOOLEAN
  /\ Len(hops) <= MaxRedirects /\ client \in {ExchangeNone, "verified", "insecure"}
  /\ used \subseteq ExchangeEntries /\ exchangeReceived \in Nat
  /\ (failure # ExchangeNone <=> exchangePhase = "failed")

\* Credentials are sent to the host and port they were given for and to no other,
\* and a chain that has left it does not get them back when it returns.
CredentialsStayHome ==
  Sends /\ headers.credentials => \A u \in ToSet(Trail) : SameOrigin(u, first.url)

\* What has once been asked for over TLS is not asked for in plain text, unless
\* the caller allows it.
NeverDowngrades ==
  Sends /\ ~AllowDowngrade => \A k \in 1 .. Len(Trail) - 1 : Trail[k].tls => Trail[k + 1].tls

\* Whatever the statuses, a request that carries the payload is the one that was
\* asked for, it comes with the description of its payload, and a request without
\* comes without; one that only asks for headers never asks for more.
PayloadIsWhole ==
  Sends => /\ body => first.body /\ method = first.method
           /\ headers.payload = body
           /\ first.method = "HEAD" => method = "HEAD"

\* A certificate goes unchecked only where the URL of this very hop is excepted.
UnverifiedWhereExcepted ==
  exchangePhase \in {"sending", "reading"} /\ client = "insecure" => InsecureAll \/ Matching(url) # {}

\* Nothing waits for the network past the deadline of the chain, however many hops
\* it takes.
WithinDeadline == exchangePhase \in {"sending", "reading"} => exchangeClock <= Timeout

\* No body that is handed on is longer than the limit.
BodyWithinLimit == exchangePhase = "done" => exchangeReceived <= MaxBytes

\* Over a whole chain of redirects every hop sends what it may: the credentials
\* only home, nothing in plain text after TLS, the payload whole or not at all, a
\* certificate unchecked only where this hop's URL is excepted, all of it by one
\* deadline and within one limit (HttpClient::request).
EveryHopIsSafe ==
  /\ ExchangeTypeOK /\ CredentialsStayHome /\ NeverDowngrades /\ PayloadIsWhole
  /\ UnverifiedWhereExcepted /\ WithinDeadline /\ BodyWithinLimit
=============================================================================
