------------------------------ MODULE MCChannels ------------------------------
(***************************************************************************)
(* The channels of a run to the world outside, for TLC: a broker, the rate *)
(* limiter, an HTTP exchange, and the handle its caller holds.  A          *)
(* behaviour is one of these at work, the others stay as they start.       *)
(***************************************************************************)
EXTENDS KafkaReceive, RateLimiter, HttpExchange, EventStream

CONSTANTS r1, r2, r3, t1, t2, broker1

VARIABLE part      (* the channel at work                                  *)

channelVars == <<receiveVars, rateVars, exchangeVars, vars, part>>

(***************************************************************************)
(* A workflow with two receive steps side by side on one topic, entered    *)
(* again after one that shares a topic with it.                            *)
(***************************************************************************)
ReceiveSteps == {r1, r2, r3}
BothTopics == {t1, t2}
StepTopics == [s \in Steps |-> IF s = r3 THEN t2 ELSE t1]
OneBroker == [t \in Topics |-> broker1]
OnePartition == [t \in Topics |-> 1]
RecordsOfFirst == [t \in Topics |-> IF t = t1 THEN 2 ELSE 0]
StepExpects == [s \in Steps |-> IF s = r2 THEN "x" ELSE "any"]
EnteredTwice ==
  << [receivers |-> <<r1, r2>>, levels |-> <<{r1, r2}>>],
     [receivers |-> <<r3, r1>>, levels |-> <<{r1}, {r3}>>] >>
Kind(id, json, good) == [id |-> id, json |-> json, good |-> good]
RecordKinds == {Kind("x", TRUE, TRUE), Kind("y", TRUE, FALSE), Kind("x", FALSE, TRUE)}

(***************************************************************************)
(* For liveness: the two steps alone, on two partitions.                   *)
(***************************************************************************)
TwoSteps == {r1, r2}
TwoPartitions == [t \in Topics |-> 2]
OneRecord == [t \in Topics |-> 1]
AnyExpects == [s \in Steps |-> "any"]
Alongside == << [receivers |-> <<r1, r2>>, levels |-> <<{r1, r2}>>] >>
OneKind == {Kind("x", TRUE, TRUE)}

(***************************************************************************)
(* A port that is written out or not, and one excepted host and port.      *)
(***************************************************************************)
SomePorts == {ExchangeNone, 443}
OneEntry == {[host |-> h, port |-> 443] : h \in {CHOOSE h \in Hosts : TRUE}}

IdleReceive ==
  /\ log = [t \in Topics |-> [p \in Partitions(t) |-> <<>>]] /\ low = [t \in Topics |-> [p \in Partitions(t) |-> 0]]
  /\ mode = "live" /\ refused = {} /\ cancel = "no" /\ stage = "entering" /\ runResult = "none"
  /\ entry = 1 /\ level = 1 /\ pass = [at |-> 1, found |-> FALSE, read |-> <<>>, spent |-> FALSE]
  /\ clients = {} /\ cursor = [t \in Topics |-> <<>>] /\ turn = [t \in Topics |-> 1]
  /\ lockHolder = [t \in Topics |-> NoStep]
  /\ att = [s \in Steps |-> Attempt("idle")] /\ number = [s \in Steps |-> 0]
  /\ start = cursor /\ before = cursor /\ taken = [t \in Topics |-> [p \in Partitions(t) |-> <<>>]]

IdleExchange ==
  /\ url = [tls |-> TRUE, host |-> CHOOSE h \in Hosts : TRUE, port |-> ExchangeNone]
  /\ method = "GET" /\ body = FALSE /\ first = [url |-> url, method |-> method, body |-> body]
  /\ headers = [credentials |-> TRUE, payload |-> FALSE, referer |-> ExchangeNone]
  /\ exchangePhase = "ready" /\ hops = <<>> /\ exchangeClock = 0 /\ hopEnds = Timeout
  /\ client = ExchangeNone /\ used = {} /\ exchangeReceived = 0 /\ exchangeCancelled = FALSE
  /\ failure = ExchangeNone

ChannelsInit ==
  /\ RateInit /\ Init
  /\ \/ part = "receive" /\ ReceiveInit /\ IdleExchange
     \/ part = "exchange" /\ IdleReceive /\ ExchangeInit
     \/ part \in {"rate", "handle"} /\ IdleReceive /\ IdleExchange

OnlyReceive == part = "receive" /\ ReceiveNext /\ UNCHANGED <<rateVars, exchangeVars, vars, part>>
OnlyRate == part = "rate" /\ RateNext /\ UNCHANGED <<receiveVars, exchangeVars, vars, part>>
OnlyExchange == part = "exchange" /\ ExchangeNext /\ UNCHANGED <<receiveVars, rateVars, vars, part>>
OnlyHandle == part = "handle" /\ Next /\ UNCHANGED <<receiveVars, rateVars, exchangeVars, part>>

ChannelsSpec ==
  ChannelsInit /\ [][OnlyReceive \/ OnlyRate \/ OnlyExchange \/ OnlyHandle]_channelVars

\* For liveness nobody observes the bucket: observing changes nothing else.
RateAlone ==
  /\ part = "rate" /\ (Tick \/ \E c \in Callers : Step(c) \/ Cancel(c))
  /\ UNCHANGED <<receiveVars, exchangeVars, vars, part>>

\* Tasks that can go on are polled, and clocks run: a receive's deadline passes, a
\* broker answers a fetch within the wait it was asked for, a sleep ends, and the
\* engine gets on between two events, because its requests end.  Nobody need
\* collect, read the clock late, cancel, or publish a record.
Fairness ==
  /\ WF_receiveVars(part = "receive" /\ Arming) /\ WF_receiveVars(part = "receive" /\ Between)
  /\ \A s \in Steps : /\ WF_receiveVars(part = "receive" /\ StepDeadline(s))
                      /\ WF_receiveVars(part = "receive" /\ StepNext(s))
  /\ WF_rateVars(part = "rate" /\ Tick)
  /\ \A c \in Callers : WF_rateVars(part = "rate" /\ Step(c))
  /\ WF_vars(part = "handle" /\ EngineStep) /\ WF_vars(part = "handle" /\ HolderStep)

ChannelsEndInit == ChannelsInit /\ part # "exchange"

ChannelsEndSpec ==
  /\ ChannelsEndInit
  /\ [][OnlyReceive \/ RateAlone \/ OnlyHandle]_channelVars
  /\ Fairness
=============================================================================
