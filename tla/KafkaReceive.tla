----------------------------- MODULE KafkaReceive -----------------------------
(***************************************************************************)
(* The AsyncAPI receive steps of one invocation, on Kafka.                 *)
(*                                                                         *)
(* A workflow is entered by arming the topics of all its receive steps:    *)
(* the end offset of every partition is read once for each topic of the    *)
(* invocation, and is where the invocation's cursor on the partition       *)
(* starts.  Only then do steps run.  A step takes the lock of its topic,   *)
(* polls the partitions in turn until a record it can use arrives, and     *)
(* moves one cursor past every record it looks at.                         *)
(*                                                                         *)
(* A topic stands for the pair the cursors are keyed by, a connection and  *)
(* a topic name.  What the broker does is the environment: records are     *)
(* appended, old ones are trimmed, requests fail.                          *)
(***************************************************************************)
EXTENDS Naturals, Sequences

CONSTANTS
  Steps,            (* receive steps                                       *)
  Topics,           (* connection identity and topic name, together        *)
  NoStep,           (* no step                                             *)
  Entries,          (* the workflows the invocation enters, one after the  *)
                    (* other: their receive steps, in document order, and  *)
                    (* the levels these run in                             *)
  TopicOf,          (* the topic of a step                                 *)
  Connection,       (* the connection of a topic                           *)
  PartitionCount,   (* of a topic; 0: the broker has no such topic         *)
  Timed,            (* steps that declare a timeout                        *)
  MayBeRefused,     (* steps whose document the runtime may not support    *)
  Expects,          (* the correlation identifier a step asks for, "any"   *)
                    (* if it asks for none, or "object" if it is no scalar *)
  Kinds,            (* records: [id, json, good]; a good one meets the     *)
                    (* criteria of the step that gets it                   *)
  Modes,            (* of the engine: "live", "dry" and "replay"           *)
  MaxRecords,       (* bound: records a partition of a topic ever holds    *)
  MaxTrims,         (* bound: records retention removes of a partition     *)
  MaxAttempts       (* bound: attempts of a step                           *)

Partitions(t) == 1 .. PartitionCount[t]

ASSUME ReceiveAssumption ==
  /\ NoStep \notin Steps
  /\ TopicOf \in [Steps -> Topics]
  /\ PartitionCount \in [Topics -> Nat]
  /\ MaxAttempts \in Nat \ {0}

\* A workflow is armed for all the receive steps that its levels run.
ASSUME EntriesAssumption ==
  /\ Entries \in Seq([receivers : Seq(Steps), levels : Seq(SUBSET Steps)]) /\ Entries # <<>>
  /\ \A e \in DOMAIN Entries : \A l \in DOMAIN Entries[e].levels :
       Entries[e].levels[l] \subseteq {Entries[e].receivers[k] : k \in DOMAIN Entries[e].receivers}

VARIABLES
  log,              (* the records ever appended to a partition            *)
  low,              (* how many of them the broker no longer has           *)
  mode,
  refused,          (* the steps it does not support, of this document     *)
  cancel,           (* "no", or why the run's token has fired              *)
  stage,            (* "entering", "arming", "running" or "ended"          *)
  runResult,        (* how the run ended                                   *)
  entry, level,     (* the workflow it is in, and the level                *)
  pass,             (* arming: the receive step it has come to, whether it *)
                    (* has found the topic, the offsets read so far, and   *)
                    (* whether the preparation deadline has passed         *)
  clients,          (* connections that are open                           *)
  cursor,           (* next offset of each partition of an armed topic     *)
  turn,             (* the partition of a topic that is polled next        *)
  lockHolder,       (* the step that holds the lock of a topic             *)
  att,              (* the attempt of a step: where it is, whether its     *)
                    (* deadline has passed, the fetch it waits for         *)
  number,           (* attempts of a step in this level                    *)
  start,            (* history: the cursors as they were armed             *)
  before,           (* history: log ends when the first pass reached the   *)
                    (* topic                                               *)
  taken             (* history: offsets consumed of a partition, in order  *)

broker == <<log, low>>
passVars == <<pass, clients, start, before>>
cursorVars == <<cursor, turn, lockHolder, taken>>
stepVars == <<att, number>>
runVars == <<mode, refused, cancel, stage, runResult, entry, level>>
receiveVars == <<broker, runVars, passVars, cursorVars, stepVars>>

\* ------------------------------------------------------------ the invocation

Receivers == Entries[entry].receivers
Level == IF level \in DOMAIN Entries[entry].levels THEN Entries[entry].levels[level] ELSE {}

NoFetch == [part |-> 0, offset |-> 0]
Attempt(pc) == [pc |-> pc, expired |-> FALSE, fetch |-> NoFetch]

Errors == {"config", "unsupported", "internal", "receiveTimeout", "transport", "malformed",
           "criteria", "cancelled"}
Settled(s) == att[s].pc \in Errors \union {"received"}
Active(s) == att[s].pc \in {"locking", "holding", "fetching"}

Armed(t) == cursor[t] # <<>>

LogEnds(t) == [p \in Partitions(t) |-> Len(log[t][p])]

ReceiveInit ==
  /\ log = [t \in Topics |-> [p \in Partitions(t) |-> <<>>]]
  /\ low = [t \in Topics |-> [p \in Partitions(t) |-> 0]]
  /\ mode \in Modes /\ refused \in SUBSET MayBeRefused
  /\ cancel = "no" /\ stage = "entering" /\ runResult = "none" /\ entry = 1 /\ level = 1
  /\ pass = [at |-> 1, found |-> FALSE, read |-> <<>>, spent |-> FALSE]
  /\ clients = {}
  /\ cursor = [t \in Topics |-> <<>>] /\ turn = [t \in Topics |-> 1]
  /\ lockHolder = [t \in Topics |-> NoStep]
  /\ att = [s \in Steps |-> Attempt("idle")] /\ number = [s \in Steps |-> 0]
  /\ start = cursor /\ before = cursor
  /\ taken = [t \in Topics |-> [p \in Partitions(t) |-> <<>>]]

End(how) ==
  /\ stage' = "ended" /\ runResult' = how
  /\ UNCHANGED <<broker, mode, refused, cancel, entry, level, passVars, cursorVars, stepVars>>

\* ----------------------------------------------------------- the environment

Produce(t, p, kind) ==
  /\ stage # "ended" /\ Len(log[t][p]) < MaxRecords[t]
  /\ log' = [log EXCEPT ![t][p] = Append(@, kind)]
  /\ UNCHANGED <<low, runVars, passVars, cursorVars, stepVars>>

Trim(t, p) ==
  /\ stage # "ended" /\ low[t][p] < Len(log[t][p]) /\ low[t][p] < MaxTrims
  /\ low' = [low EXCEPT ![t][p] = @ + 1]
  /\ UNCHANGED <<log, runVars, passVars, cursorVars, stepVars>>

FireToken(why) ==
  /\ cancel = "no" /\ stage # "ended"
  /\ cancel' = why
  /\ UNCHANGED <<broker, mode, refused, stage, runResult, entry, level, passVars, cursorVars, stepVars>>

\* The deadline of a step runs from the moment it is entered.
StepDeadline(s) ==
  /\ s \in Timed /\ Active(s) /\ ~att[s].expired
  /\ att' = [att EXCEPT ![s].expired = TRUE]
  /\ UNCHANGED <<broker, runVars, passVars, cursorVars, number>>

PreparationDeadline ==
  /\ stage = "arming" /\ ~pass.spent
  /\ pass' = [pass EXCEPT !.spent = TRUE]
  /\ UNCHANGED <<broker, runVars, clients, start, before, cursorVars, stepVars>>

\* ------------------------------------------------------------------- arming

Admitted == \A k \in DOMAIN Receivers : Receivers[k] \notin refused

BeginPass(next) ==
  /\ stage' = next /\ level' = 1
  /\ pass' = [at |-> 1, found |-> FALSE, read |-> <<>>, spent |-> FALSE]
  /\ UNCHANGED <<broker, mode, refused, cancel, runResult, entry, clients, start, before, cursorVars,
                 stepVars>>

\* The mode and every step are looked at before anything is connected to.
EnterWorkflow ==
  /\ stage = "entering"
  /\ IF cancel # "no" THEN End(cancel)
     ELSE IF Receivers # <<>> /\ mode = "replay" THEN End("unsupported")
     ELSE IF ~Admitted THEN End("unsupported")
     ELSE BeginPass(IF mode = "live" THEN "arming" ELSE "running")

Coming == stage = "arming" /\ pass.at <= Len(Receivers)
Target == TopicOf[Receivers[pass.at]]

\* A topic some workflow of the invocation has armed keeps its cursors.
AlreadyArmed(t) == Armed(t)

SkipArmed ==
  /\ Coming /\ AlreadyArmed(Target)
  /\ pass' = [pass EXCEPT !.at = @ + 1, !.found = FALSE, !.read = <<>>]
  /\ UNCHANGED <<broker, runVars, clients, start, before, cursorVars, stepVars>>

Connect ==
  /\ Coming /\ ~AlreadyArmed(Target) /\ Connection[Target] \notin clients
  /\ \/ cancel # "no" /\ End(cancel)
     \/ cancel = "no" /\ End("transport")
     \/ /\ cancel = "no" /\ ~pass.spent
        /\ clients' = clients \union {Connection[Target]}
        /\ UNCHANGED <<broker, runVars, pass, start, before, cursorVars, stepVars>>

\* A request of the preparation fails, or is late, or loses to the token.
Unprepared ==
  /\ ~AlreadyArmed(Target) /\ Connection[Target] \in clients
  /\ \/ End("transport")
     \/ cancel # "no" /\ End(cancel)

ListTopics ==
  /\ Coming /\ ~pass.found
  /\ \/ Unprepared
     \/ /\ ~AlreadyArmed(Target) /\ Connection[Target] \in clients
        /\ cancel = "no" /\ ~pass.spent /\ PartitionCount[Target] # 0
        /\ pass' = [pass EXCEPT !.found = TRUE, !.read = <<>>]
        /\ before' = [before EXCEPT ![Target] = IF Armed(Target) THEN @ ELSE LogEnds(Target)]
        /\ UNCHANGED <<broker, runVars, clients, start, cursorVars, stepVars>>

\* The offset a cursor starts at: that of the next record to arrive.
StartOffset(t, p) == Len(log[t][p])

ReadOffset ==
  /\ Coming /\ pass.found /\ Len(pass.read) < PartitionCount[Target]
  /\ \/ Unprepared
     \/ /\ cancel = "no" /\ ~pass.spent
        /\ pass' = [pass EXCEPT !.read = Append(@, StartOffset(Target, Len(@) + 1))]
        /\ UNCHANGED <<broker, runVars, clients, start, before, cursorVars, stepVars>>

Arm ==
  /\ Coming /\ pass.found /\ Len(pass.read) = PartitionCount[Target]
  /\ cursor' = [cursor EXCEPT ![Target] = pass.read]
  /\ turn' = [turn EXCEPT ![Target] = 1]
  /\ start' = [start EXCEPT ![Target] = IF Armed(Target) THEN @ ELSE pass.read]
  /\ pass' = [pass EXCEPT !.at = @ + 1, !.found = FALSE, !.read = <<>>]
  /\ UNCHANGED <<broker, runVars, clients, before, lockHolder, taken, stepVars>>

ArmingDone ==
  /\ stage = "arming" /\ pass.at > Len(Receivers)
  /\ stage' = "running"
  /\ UNCHANGED <<broker, mode, refused, cancel, runResult, entry, level, passVars, cursorVars, stepVars>>

\* --------------------------------------------------------------- a step runs

Release(s) == [t \in Topics |-> IF lockHolder[t] = s THEN NoStep ELSE lockHolder[t]]

Fail(s, kind) ==
  /\ att' = [att EXCEPT ![s] = Attempt(kind)]
  /\ lockHolder' = Release(s)
  /\ UNCHANGED <<broker, runVars, passVars, cursor, turn, taken, number>>

Become(s, pc) ==
  /\ att' = [att EXCEPT ![s].pc = pc]
  /\ UNCHANGED <<broker, runVars, passVars, cursorVars, number>>

StepEntry(s) ==
  /\ stage = "running" /\ s \in Level /\ att[s].pc = "idle"
  /\ CASE cancel # "no" -> Fail(s, "cancelled")
       [] cancel = "no" /\ s \in refused -> Fail(s, "unsupported")
       [] cancel = "no" /\ s \notin refused /\ Expects[s] = "object" -> Fail(s, "config")
       [] cancel = "no" /\ s \notin refused /\ Expects[s] # "object" /\ mode # "live"
            -> Become(s, "received")
       [] OTHER -> IF Armed(TopicOf[s]) THEN Become(s, "locking") ELSE Fail(s, "internal")

\* mutant: the receive steps of a topic do not wait for each other
TakeNoLock(s) ==
  /\ att[s].pc = "locking" /\ cancel = "no"
  /\ lockHolder' = [lockHolder EXCEPT ![TopicOf[s]] = s]
  /\ att' = [att EXCEPT ![s].pc = "holding"]
  /\ UNCHANGED <<broker, runVars, passVars, cursor, turn, taken, number>>

\* The token is looked at first, then the lock, then the deadline.
TakeLock(s) ==
  /\ att[s].pc = "locking" /\ cancel = "no" /\ lockHolder[TopicOf[s]] = NoStep
  /\ lockHolder' = [lockHolder EXCEPT ![TopicOf[s]] = s]
  /\ att' = [att EXCEPT ![s].pc = "holding"]
  /\ UNCHANGED <<broker, runVars, passVars, cursor, turn, taken, number>>

\* mutant: the deadline does not cover the wait for the lock
GiveUpLockUntimed(s) == att[s].pc = "locking" /\ cancel # "no" /\ Fail(s, "cancelled")

GiveUpLock(s) ==
  /\ att[s].pc = "locking"
  /\ \/ cancel # "no" /\ Fail(s, "cancelled")
     \/ /\ cancel = "no" /\ att[s].expired /\ lockHolder[TopicOf[s]] # NoStep
        /\ Fail(s, "receiveTimeout")

NextTurn(t) == (turn[t] % PartitionCount[t]) + 1

Poll(s) ==
  LET t == TopicOf[s] IN
  /\ att[s].pc = "holding"
  /\ CASE cancel # "no" -> Fail(s, "cancelled")
       [] cancel = "no" /\ att[s].expired -> Fail(s, "receiveTimeout")
       [] OTHER ->
            /\ att' = [att EXCEPT ![s].pc = "fetching",
                         ![s].fetch = [part |-> turn[t], offset |-> cursor[t][turn[t]]]]
            /\ turn' = [turn EXCEPT ![t] = NextTurn(t)]
            /\ UNCHANGED <<broker, runVars, passVars, cursor, lockHolder, taken, number>>

\* A wait that ends without an answer leaves the cursors where they are.
StopFetch(s) ==
  /\ att[s].pc = "fetching"
  /\ \/ cancel # "no" /\ Fail(s, "cancelled")
     \/ cancel = "no" /\ att[s].expired /\ Fail(s, "receiveTimeout")
     \/ cancel = "no" /\ Fail(s, "transport")

Matches(s, kind) == Expects[s] = "any" \/ kind.id = Expects[s]

\* Where a record leads the step that gets it: a record is decoded before it is
\* compared, and a record of another identifier sends the step back to wait.
Verdict(s, kind) ==
  IF ~kind.json THEN "malformed"
  ELSE IF ~Matches(s, kind) THEN "holding"
  ELSE IF kind.good THEN "received" ELSE "criteria"

\* The records one answer may hold, from the offset that was asked for.
Batches(t, p, offset) == {offset .. last : last \in offset .. Len(log[t][p]) - 1}

Earliest(batch) == CHOOSE o \in batch : \A other \in batch : o <= other

Take(s, t, p, o) ==
  LET kind == log[t][p][o + 1]
      verdict == Verdict(s, kind) IN
  /\ cursor' = [cursor EXCEPT ![t][p] = o + 1]
  /\ taken' = [taken EXCEPT ![t][p] = Append(@, o)]
  /\ att' = [att EXCEPT ![s] = [pc |-> verdict, expired |-> @.expired, fetch |-> NoFetch]]
  /\ lockHolder' = IF verdict = "holding" THEN lockHolder ELSE Release(s)
  /\ UNCHANGED <<broker, runVars, passVars, turn, number>>

\* What the step does with the answer: an offset the broker no longer has is an
\* error, and no records send it on to the next partition.
Use(s, t, p, offset) ==
  CASE offset < low[t][p] -> Fail(s, "transport")
    [] offset >= low[t][p] /\ offset >= Len(log[t][p]) -> Become(s, "holding")
    [] OTHER -> \E batch \in Batches(t, p, offset) : Take(s, t, p, Earliest(batch))

Answer(s) ==
  /\ att[s].pc = "fetching" /\ cancel = "no"
  /\ Use(s, TopicOf[s], att[s].fetch.part, att[s].fetch.offset)

\* A step's own task makes a failed attempt again, whatever the other steps of the
\* level are at.
Retry(s) ==
  /\ stage = "running" /\ s \in Level /\ cancel = "no"
  /\ att[s].pc \in Errors /\ number[s] + 1 < MaxAttempts
  /\ att' = [att EXCEPT ![s] = Attempt("idle")]
  /\ number' = [number EXCEPT ![s] = @ + 1]
  /\ UNCHANGED <<broker, runVars, passVars, cursorVars>>

\* ------------------------------------------------------- between the levels

LevelSettled ==
  stage = "running" /\ level \in DOMAIN Entries[entry].levels /\ \A s \in Level : Settled(s)

FailRun(s) ==
  /\ LevelSettled /\ cancel = "no" /\ s \in Level
  /\ att[s].pc \in Errors /\ End(att[s].pc)

\* The level is over, or its failures were routed to a later step.
NextLevel ==
  /\ LevelSettled /\ cancel = "no"
  /\ level' = level + 1
  /\ att' = [s \in Steps |-> Attempt("idle")]
  /\ number' = [s \in Steps |-> 0]
  /\ UNCHANGED <<broker, mode, refused, cancel, stage, runResult, entry, passVars, cursorVars>>

CancelBetween == LevelSettled /\ cancel # "no" /\ End(cancel)

LeaveWorkflow ==
  /\ stage = "running" /\ level > Len(Entries[entry].levels)
  /\ IF cancel # "no" THEN End(cancel)
     ELSE IF entry = Len(Entries) THEN End("completed")
     ELSE /\ entry' = entry + 1 /\ level' = 1 /\ stage' = "entering"
          /\ UNCHANGED <<broker, mode, refused, cancel, runResult, passVars, cursorVars, stepVars>>

Environment ==
  \/ \E t \in Topics : \E p \in Partitions(t) : (\E k \in Kinds : Produce(t, p, k)) \/ Trim(t, p)
  \/ FireToken("cancelled") \/ FireToken("timeout")

Arming == EnterWorkflow \/ SkipArmed \/ Connect \/ ListTopics \/ ReadOffset \/ Arm \/ ArmingDone

StepNext(s) ==
  \/ StepEntry(s) \/ TakeLock(s) \/ GiveUpLock(s) \/ Poll(s) \/ StopFetch(s) \/ Answer(s)

Between == (\E s \in Steps : FailRun(s)) \/ NextLevel \/ CancelBetween \/ LeaveWorkflow

ReceiveNext ==
  \/ Environment \/ PreparationDeadline \/ Arming \/ Between
  \/ \E s \in Steps : StepDeadline(s) \/ StepNext(s) \/ Retry(s)

ReceiveSpec == ReceiveInit /\ [][ReceiveNext]_receiveVars

\* State is of its type: cursors and locks belong to topics that are armed, a
\* step that polls holds the lock of its topic.
ReceiveTypeOK ==
  /\ stage \in {"entering", "arming", "running", "ended"}
  /\ entry \in 1 .. Len(Entries) /\ level \in 1 .. Len(Entries[entry].levels) + 1
  /\ \A t \in Topics :
       /\ Armed(t) => Len(cursor[t]) = PartitionCount[t] /\ turn[t] \in Partitions(t)
       /\ lockHolder[t] # NoStep => TopicOf[lockHolder[t]] = t /\ Armed(t)
  /\ \A s \in Steps : att[s].pc \in {"holding", "fetching"} <=> lockHolder[TopicOf[s]] = s

\* The records between the place where the invocation's cursor on a partition
\* was armed and the place where it is now have all been looked at by a step, in
\* order, each by one attempt, and no others have: nothing is lost or given
\* twice between two receives, on entering a workflow again, between steps side
\* by side, or when a wait is given up.
EachRecordOnce ==
  \A t \in Topics : Armed(t) => \A p \in Partitions(t) :
    taken[t][p] = [k \in 1 .. cursor[t][p] - start[t][p] |-> start[t][p] + k - 1]

\* The invocation sees the records that arrive once its topic is armed, and
\* none that had arrived before it began to arm the topic.
StartsWhereArmed ==
  \A t \in Topics : Armed(t) => \A p \in Partitions(t) :
    before[t][p] <= start[t][p] /\ start[t][p] <= Len(log[t][p])

\* Every step that runs finds its topic armed.
NeverUnarmed == \A s \in Steps : att[s].pc # "internal"

\* A workflow with a step the runtime refuses is refused before a connection is
\* opened for it: no step of it fails for that reason once the run is under way.
RefusedBeforeConnecting == \A s \in Steps : att[s].pc # "unsupported"

\* In a dry run and in a replay no broker is ever connected to.
OnlyLiveConnects == mode # "live" => clients = {} /\ \A t \in Topics : ~Armed(t)

\* Once the token has fired no record is consumed any more.
CancelWins == [][cancel # "no" => UNCHANGED taken]_receiveVars

\* What a step of the run gets is the stream of its topic from the place where it
\* was armed, each record to one attempt, in order; nothing is armed, connected to
\* or consumed that the mode, the document or the token forbids
\* (arm_receivers, execute_message_step).
ReceivesAreExact ==
  /\ [](ReceiveTypeOK /\ EachRecordOnce /\ StartsWhereArmed /\ NeverUnarmed
        /\ RefusedBeforeConnecting /\ OnlyLiveConnects)
  /\ CancelWins

\* A step with a timeout ends, whoever holds the lock of its topic and whatever
\* the broker does.
TimedReceiveEnds == \A s \in Timed : Active(s) ~> (~Active(s))

\* A step that waits for any record and holds the lock of its topic does not
\* wait on past a record of any partition.
Waiting(s) ==
  /\ att[s].pc \in {"holding", "fetching"} /\ Expects[s] = "any"
  /\ \E p \in Partitions(TopicOf[s]) : cursor[TopicOf[s]][p] < Len(log[TopicOf[s]][p])
RecordReachesStep == \A s \in Steps : Waiting(s) ~> (~Active(s))

\* A run whose token has fired ends.
CancelEndsRun == cancel # "no" ~> stage = "ended"
\* No receive waits for what will not come: a timed one ends, one that holds the
\* lock takes a record that is there, and a cancelled run is over.
ReceivesEnd == TimedReceiveEnds /\ RecordReachesStep /\ CancelEndsRun
=============================================================================
