--------------------------------- MODULE Replay ---------------------------------
(***************************************************************************)
(* A level of steps runs live and is traced; the trace is written and read *)
(* back, and the level runs again, on answers taken from it.  A trace      *)
(* holds a record of every attempt, in step order; the engine puts those   *)
(* with a request into a queue per step.  Writing masks the secrets of a   *)
(* record and cuts long bodies.  The specification that is replayed may    *)
(* ask for something else, and retry otherwise.                            *)
(***************************************************************************)
EXTENDS Naturals, Sequences, SequencesExt, FiniteSets

CONSTANTS
  NumSteps,        (* steps of the level                                   *)
  ReplayRequests,  (* what a step can ask for                              *)
  AsWritten,       (* what the trace has of each request: the same, or     *)
                   (* what is left of it when its secrets are masked       *)
  MaxAttempts      (* bound: attempts of a step                            *)

ASSUME ReplayAssumption ==
  NumSteps \in Nat /\ MaxAttempts \in Nat /\ AsWritten \in [ReplayRequests -> ReplayRequests]

VARIABLES
  stage,          (* "live", "replay", or how the replay ended             *)
  asks,           (* what each step asks for                               *)
  limit,          (* attempts a step makes                                 *)
  tolerant,       (* a step that fails does not fail the workflow          *)
  done,           (* per step, how its attempts ended, live and then again *)
  buffers,        (* per step, the records of its live attempts            *)
  merged,         (* the steps whose records are in the trace              *)
  trace,          (* the records                                           *)
  loaded,         (* the records of the trace that are in the queues       *)
  queues,         (* per step, the records that are left                   *)
  held,           (* per step, the record it has taken                     *)
  live,           (* history: how the attempts ended live                  *)
  answered,       (* history: per step, its live attempts with a request   *)
  changed         (* history: another specification is replayed, or the    *)
                  (* one of the trace on inputs that the trace has masked  *)

replayVars == <<stage, asks, limit, tolerant, done, buffers, merged, trace, loaded, queues, held,
                live, answered, changed>>
specification == <<asks, limit, tolerant, changed>>

ReplaySteps == 1 .. NumSteps
Answers == {"ok", "bad"}                   (* criteria met and not met      *)
Failures == {"broken", "mismatch", "exhausted"}

\* An attempt that breaks off without an answer leaves no request in its record. A response
\* is kept if nothing of it is masked or cut and replay reads it as it was read live.
Record ==
  [step : ReplaySteps, attempt : Nat, request : ReplayRequests, answer : Answers \union {"broken"},
   kept : BOOLEAN]
HasRequest(r) == r.answer \in Answers

ReplayInit ==
  /\ stage = "live" /\ asks \in [ReplaySteps -> ReplayRequests] /\ limit \in 1 .. MaxAttempts
  /\ tolerant \in BOOLEAN /\ changed = FALSE
  /\ done = [s \in ReplaySteps |-> <<>>] /\ buffers = done /\ queues = done /\ held = done
  /\ live = done /\ answered = done
  /\ trace = <<>> /\ merged = 0 /\ loaded = 0

Settled(s) == done[s] # <<>> /\ (Last(done[s]) = "ok" \/ Len(done[s]) >= limit)
AllSettled == \A s \in ReplaySteps : Settled(s)

(***************************************************************************)
(* Live: each step has a buffer of its own, and the level empties them in  *)
(* the order of its steps.                                                 *)
(***************************************************************************)
\* The record as the trace will have it: each is written by itself.
RecordOf(s, result, kept) ==
  [step |-> s, attempt |-> Len(done[s]) + 1, request |-> AsWritten[asks[s]], answer |-> result, kept |-> kept]

\* A live attempt is answered, or breaks off without an answer.
ReplayAttempt(s) ==
  /\ stage = "live" /\ ~Settled(s)
  /\ \E result \in Answers \union {"broken"}, kept \in BOOLEAN :
       /\ done' = [done EXCEPT ![s] = Append(@, result)]
       /\ buffers' = [buffers EXCEPT ![s] = Append(@, RecordOf(s, result, kept))]
       /\ IF result \in Answers THEN answered' = [answered EXCEPT ![s] = Append(@, RecordOf(s, result, kept))]
          ELSE UNCHANGED answered
  /\ UNCHANGED <<stage, specification, merged, trace, loaded, queues, held, live>>

Merge ==
  /\ stage = "live" /\ AllSettled /\ merged < NumSteps
  /\ trace' = trace \o buffers[merged + 1] /\ merged' = merged + 1
  /\ UNCHANGED <<stage, specification, done, buffers, loaded, queues, held, live, answered>>

\* The trace is read with a specification, the one it is of or another. Inputs that were
\* masked are replayed as they are in the trace: the steps may ask for something else then.
Load ==
  /\ stage = "live" /\ AllSettled /\ merged = NumSteps
  /\ stage' = "replay" /\ live' = done /\ done' = [s \in ReplaySteps |-> <<>>]
  /\ \/ UNCHANGED specification
     \/ /\ changed' = TRUE /\ asks' \in [ReplaySteps -> ReplayRequests] /\ limit' \in 1 .. MaxAttempts
        /\ tolerant' \in BOOLEAN
  /\ UNCHANGED <<buffers, merged, trace, loaded, queues, held, answered>>

(***************************************************************************)
(* Replay                                                                  *)
(***************************************************************************)
\* mutant: the last record is the first to be taken
Stacked(records, r) == <<r>> \o records

Enqueued(records, r) == Append(records, r)

\* from_trace_steps: a record without a request is skipped.
Enqueue ==
  /\ stage = "replay" /\ loaded < Len(trace) /\ loaded' = loaded + 1
  /\ LET r == trace[loaded + 1] IN
     IF HasRequest(r) THEN queues' = [queues EXCEPT ![r.step] = Enqueued(@, r)] ELSE UNCHANGED queues
  /\ UNCHANGED <<stage, specification, done, buffers, merged, trace, held, live, answered>>

Replaying == stage = "replay" /\ loaded = Len(trace)

\* Under the lock an attempt takes the next record of its step, if there is one.
Take(s) ==
  /\ Replaying /\ ~Settled(s) /\ held[s] = <<>>
  /\ IF queues[s] = <<>>
     THEN done' = [done EXCEPT ![s] = Append(@, "exhausted")] /\ UNCHANGED <<queues, held>>
     ELSE /\ held' = [held EXCEPT ![s] = <<Head(queues[s])>>]
          /\ queues' = [queues EXCEPT ![s] = Tail(@)]
          /\ UNCHANGED done
  /\ UNCHANGED <<stage, specification, buffers, merged, trace, loaded, live, answered>>

\* What comes of a record for a step that asks for a request: the answer that is recorded,
\* or, if the response was not kept, what the criteria make of what is left of it.
Outcomes(record, request) ==
  IF record.request # request THEN {"mismatch"} ELSE IF record.kept THEN {record.answer} ELSE Answers

\* Without the lock it is compared, and its answer is the attempt's.
Judge(s) ==
  /\ stage = "replay" /\ held[s] # <<>>
  /\ \E result \in Outcomes(held[s][1], asks[s]) : done' = [done EXCEPT ![s] = Append(@, result)]
  /\ held' = [held EXCEPT ![s] = <<>>]
  /\ UNCHANGED <<stage, specification, buffers, merged, trace, loaded, queues, live, answered>>

\* The records that have a request, of the trace and of this run.
Recorded == {k \in DOMAIN trace : HasRequest(trace[k])}
Repeated == UNION {{s} \X {k \in DOMAIN done[s] : done[s][k] \in Answers} : s \in ReplaySteps}

Passed(results) == tolerant \/ \A s \in ReplaySteps : Last(results[s]) = "ok"

ReplayFinish ==
  /\ Replaying /\ \A s \in ReplaySteps : Settled(s) /\ held[s] = <<>>
  /\ stage' = IF ~Passed(done) THEN "failed"
              ELSE IF Cardinality(Repeated) # Cardinality(Recorded) THEN "drifted" ELSE "verified"
  /\ UNCHANGED <<specification, done, buffers, merged, trace, loaded, queues, held, live, answered>>

ReplayNext ==
  \/ Merge \/ Load \/ Enqueue \/ ReplayFinish
  \/ \E s \in ReplaySteps : ReplayAttempt(s) \/ Take(s) \/ Judge(s)

ReplaySpec == ReplayInit /\ [][ReplayNext]_replayVars

-----------------------------------------------------------------------------
Ended == {"failed", "drifted", "verified"}

ReplayTypeOK ==
  /\ stage \in {"live", "replay"} \union Ended
  /\ \A s \in ReplaySteps :
       /\ Len(done[s]) <= limit /\ Len(live[s]) <= MaxAttempts
       /\ \A k \in DOMAIN done[s] : done[s][k] \in Answers \union Failures
       /\ \A r \in ToSet(queues[s]) \union ToSet(held[s]) : r \in Record /\ r.step = s /\ HasRequest(r)
  /\ \A r \in ToSet(trace) : r \in Record

\* Whatever the tasks of a level do among each other, the k-th request of a step is
\* compared with the k-th one that was recorded of it, and answered with its response; it
\* finds none only when the step has recorded fewer. A request with a secret that the
\* trace has masked matches no record of it.
ReplaysInOrder ==
  stage # "live" => \A s \in ReplaySteps : \A k \in DOMAIN done[s] :
    IF k > Len(answered[s]) THEN done[s][k] = "exhausted"
    ELSE done[s][k] \in Outcomes(answered[s][k], asks[s])

\* A replay that says it has verified a trace has compared every record of it with
\* a request of the same step, and none of them had drifted from what is written.
VerifiedMeansCompared ==
  stage = "verified" =>
    /\ \A s \in ReplaySteps : queues[s] = <<>> /\ Len(done[s]) >= Len(answered[s])
    /\ \A k \in Recorded : asks[trace[k].step] = trace[k].request

\* Nothing that the replay of a step needs was lost in its live run or in writing the trace.
NothingLost(s) ==
  /\ "broken" \notin ToSet(live[s]) /\ AsWritten[asks[s]] = asks[s]
  /\ \A k \in DOMAIN answered[s] : answered[s][k].kept

\* A run whose every attempt was answered is replayed to the end it had, if the
\* specification and the inputs are those it was recorded with and writing the trace has
\* masked no request and left every response as it was.
FaithfulWhenAnswered ==
  stage \in Ended /\ ~changed /\ (\A s \in ReplaySteps : NothingLost(s)) =>
    done = live /\ stage = IF Passed(live) THEN "verified" ELSE "failed"

\* Replaying a trace is repeating it, as far as the trace has all of it: each request meets
\* the record of its own attempt, what is called verified has drifted nowhere, and a trace
\* that nothing was masked or cut in is repeated to the same end (redact_trace_file,
\* replay_request, validate_replay_request).
ReplayIsFaithful == ReplayTypeOK /\ ReplaysInOrder /\ VerifiedMeansCompared /\ FaithfulWhenAnswered
=============================================================================
