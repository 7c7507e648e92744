---------------------------- MODULE ParallelLevels ----------------------------
(***************************************************************************)
(* The parallel scheduler: one invocation of a workflow whose steps run in *)
(* dependency levels (Engine::execute_parallel).  The invocation announces *)
(* a level's steps, spawns a task for each, joins them, and replays what   *)
(* they did into the invocation's stream in step order.  A task runs its   *)
(* step's attempts, routes them and retries them on its own.               *)
(*                                                                         *)
(* Everything the tasks share is the cancellation token: they read a       *)
(* snapshot of the outputs of earlier levels.  A cancellation has one      *)
(* error here; WorkflowEngine tells it from a timeout.                     *)
(***************************************************************************)
EXTENDS StepRouting

CONSTANT Plans     (* workflows, with the ids their steps refer to         *)

\* 0 stands for an id that names no step; odd ones are those that STEP_REF_RE does
\* not match, like an id that begins with a digit.
Plan == [workflow : Workflow, refs : Seq(StepRefs), odd : SUBSET Nat]

ASSUME PlansAssumption ==
  \A p \in Plans :
    /\ p \in Plan /\ Regular(p.workflow)
    /\ Len(p.refs) = Len(p.workflow.steps)

VARIABLES
  plan,        (* the workflow; it never changes                           *)
  pc,          (* where the invocation is                                  *)
  levels,      (* dependency levels built so far                           *)
  level,       (* the level it is running, counted from 1                  *)
  cur,         (* the step of the level it announces or replays            *)
  task,        (* the level's tasks                                        *)
  attempts,    (* ExecutionContext.step_attempts: recorded attempts        *)
  outputs,     (* steps whose outputs vars holds                           *)
  terminal,    (* how a replayed step ended the workflow, if one did       *)
  cancelled,   (* the cancellation token                                   *)
  outcome      (* what execute_parallel returns; "none" until then         *)

vars == <<plan, pc, levels, level, cur, task, attempts, outputs, terminal,
          cancelled, outcome>>

Steps == DOMAIN plan.workflow.steps

-----------------------------------------------------------------------------
(***************************************************************************)
(* parallel_blocker: what keeps a workflow out of parallel levels.  Only a *)
(* retry of the failed step itself stays inside that step's task.          *)
(***************************************************************************)
IsPlainRetry(a) == a.type = "retry" /\ a.step = 0 /\ a.workflow = NoWorkflow

Blocks(successes, failures) ==
  successes # <<>> \/ \E j \in DOMAIN failures : ~IsPlainRetry(failures[j])

ParallelBlocker(wf) ==
  \/ \E i \in DOMAIN wf.steps : \/ wf.steps[i].target # NoWorkflow
                                \/ Blocks(wf.steps[i].onSuccess, wf.steps[i].onFailure)
  \/ Blocks(wf.onSuccess, wf.onFailure)

(***************************************************************************)
(* build_levels.                                                           *)
(***************************************************************************)
Routing == {"condition", "context", "inherited"}

\* What the texts of a step are scanned for.  Routing a failed attempt, the step finds
\* no outputs of its own.
Found(i) == Referred(plan.refs[i], {"run"}) \union (Referred(plan.refs[i], Routing) \ {i})

Deps(i) == Steps \cap (plan.refs[i]["dependsOn"] \union (Found(i) \ plan.odd))

Levelled == UNION {levels[k] : k \in DOMAIN levels}

\* mutant: a dependency of the level being built is taken for an earlier one
ReadyGreedy == {i \in Steps \ Levelled :
                  Deps(i) \subseteq Levelled \union {j \in Steps : j < i}}

\* The steps left whose indegree is zero.
Ready == {i \in Steps \ Levelled : Deps(i) \subseteq Levelled}

-----------------------------------------------------------------------------
(***************************************************************************)
(* Types.                                                                  *)
(***************************************************************************)
Task == [pc : {"idle", "request", "settled", "delay", "finished", "panicked"},
         counts : Counts, result : Results, decision : Decision, retries : Nat]

IdleTask == [pc |-> "idle", counts |-> [s \in Sites |-> 0], result |-> "none",
             decision |-> NoDecision, retries |-> 0]

Outcomes ==
  Results \union {"DependencyCycle", "ParallelThreadPanic", "InternalError"}

TypeOK ==
  /\ plan \in Plans
  /\ pc \in {"build", "level", "announce", "join", "record", "retry", "reannounce",
             "settle"}
  /\ levels \in Seq((SUBSET Steps) \ {{}}) /\ level \in Nat \ {0}
  /\ cur \in Steps \union {0}
  /\ task \in [Steps -> Task] /\ attempts \in [Steps -> Nat]
  /\ outputs \subseteq Steps
  /\ terminal \in Outcomes /\ outcome \in Outcomes
  /\ cancelled \in BOOLEAN

Init ==
  /\ plan \in {p \in Plans : ~ParallelBlocker(p.workflow)}
  /\ pc = "build" /\ levels = <<>> /\ level = 1 /\ cur = 0
  /\ task = [i \in Steps |-> IdleTask]
  /\ attempts = [i \in Steps |-> 0]
  /\ outputs = {} /\ terminal = "none" /\ cancelled = FALSE /\ outcome = "none"

At(location) == outcome = "none" /\ pc = location

Current == levels[level]

-----------------------------------------------------------------------------
(***************************************************************************)
(* execute_parallel: before a level runs.                                  *)
(***************************************************************************)
BuildLevel ==
  /\ At("build") /\ Levelled # Steps /\ Ready # {}
  /\ levels' = Append(levels, Ready)
  /\ UNCHANGED <<plan, pc, level, cur, task, attempts, outputs, terminal, cancelled,
                 outcome>>

FailCycle ==
  /\ At("build") /\ Levelled # Steps /\ Ready = {}
  /\ outcome' = "DependencyCycle"
  /\ UNCHANGED <<plan, pc, levels, level, cur, task, attempts, outputs, terminal,
                 cancelled>>

LevelsBuilt ==
  /\ At("build") /\ Levelled = Steps
  /\ pc' = "level"
  /\ UNCHANGED <<plan, levels, level, cur, task, attempts, outputs, terminal,
                 cancelled, outcome>>

StartLevel ==
  /\ At("level") /\ level \in DOMAIN levels /\ ~cancelled
  /\ pc' = "announce" /\ cur' \in First(Current)
  /\ UNCHANGED <<plan, levels, level, task, attempts, outputs, terminal, cancelled,
                 outcome>>

\* The steps of the level after cur, in step order.
After == {j \in Current : j > cur}

\* Every step is announced before the first task is spawned.
AnnounceStep ==
  /\ At("announce")
  /\ IF After # {}
     THEN cur' \in First(After) /\ UNCHANGED <<pc, task>>
     ELSE /\ cur' = 0 /\ pc' = "join"
          /\ task' = [i \in Steps |-> IF i \in Current
                                      THEN [IdleTask EXCEPT !.pc = "request"]
                                      ELSE task[i]]
  /\ UNCHANGED <<plan, levels, level, attempts, outputs, terminal, cancelled, outcome>>

-----------------------------------------------------------------------------
(***************************************************************************)
(* execute_parallel_step: the loop of one task.                            *)
(***************************************************************************)
Running(i, location) == outcome = "none" /\ task[i].pc = location

SetTask(i, t) ==
  /\ task' = [task EXCEPT ![i] = t]
  /\ UNCHANGED <<plan, pc, levels, level, cur, attempts, outputs, terminal, cancelled,
                 outcome>>

TaskReplied(i) ==
  /\ Running(i, "request") /\ ~cancelled
  /\ \E r \in {"ok", "SuccessCriteriaFailed", "HttpRequest"} :
       SetTask(i, [task[i] EXCEPT !.pc = "settled", !.result = r])

\* Every transport wait selects the token first.
TaskRequestCancelled(i) ==
  /\ Running(i, "request") /\ cancelled
  /\ SetTask(i, [task[i] EXCEPT !.pc = "settled", !.result = "ExecutionCancelled"])

\* A plain retry is counted and runs again in the task; any other decision
\* ends it.
Settle(t, dec) ==
  IF dec.kind = "retry" /\ dec.step = 0 /\ dec.workflow = NoWorkflow
  THEN [t EXCEPT !.pc = "request", !.counts = CountRetry(@, dec.site),
                 !.result = "none", !.decision = NoDecision, !.retries = @ + 1]
  ELSE [t EXCEPT !.pc = "finished", !.decision = dec]

TaskRouted(i) ==
  /\ Running(i, "settled") /\ ~cancelled
  /\ \E dec \in Routes(plan.workflow, i, task[i].counts, task[i].result,
                       task[i].result \in {"ok", "SuccessCriteriaFailed"}) :
       IF dec.waits
       THEN SetTask(i, [task[i] EXCEPT !.pc = "delay", !.decision = dec])
       ELSE SetTask(i, Settle(task[i], dec))

TaskDelayElapsed(i) ==
  /\ Running(i, "delay") /\ ~cancelled
  /\ SetTask(i, Settle(task[i], task[i].decision))

\* mutant: the delay is slept without an eye on the token
TaskRoutingCancelledLate(i) ==
  /\ Running(i, "settled") /\ cancelled
  /\ SetTask(i, Settle(task[i], Fail("ExecutionCancelled")))

\* A cancellation overrides whatever routing decided.
TaskRoutingCancelled(i) ==
  /\ Running(i, "settled") \/ Running(i, "delay")
  /\ cancelled
  /\ SetTask(i, Settle(task[i], Fail("ExecutionCancelled")))

TaskPanicked(i) ==
  /\ outcome = "none" /\ task[i].pc \in {"request", "settled", "delay"}
  /\ SetTask(i, [task[i] EXCEPT !.pc = "panicked"])

-----------------------------------------------------------------------------
(***************************************************************************)
(* execute_parallel: joining the tasks.  The first join error returns, and *)
(* dropping the set aborts the other tasks.                                *)
(***************************************************************************)
JoinPanicked ==
  /\ At("join") /\ \E i \in Current : task[i].pc = "panicked"
  /\ outcome' = "ParallelThreadPanic"
  /\ UNCHANGED <<plan, pc, levels, level, cur, task, attempts, outputs, terminal,
                 cancelled>>

\* mutant: what the tasks did is not sorted by step
JoinLevelUnsorted ==
  /\ At("join") /\ \A i \in Current : task[i].pc = "finished"
  /\ pc' = "record" /\ cur' \in Current
  /\ UNCHANGED <<plan, levels, level, task, attempts, outputs, terminal, cancelled,
                 outcome>>

JoinLevel ==
  /\ At("join") /\ \A i \in Current : task[i].pc = "finished"
  /\ pc' = "record" /\ cur' \in First(Current)
  /\ UNCHANGED <<plan, levels, level, task, attempts, outputs, terminal, cancelled,
                 outcome>>

(***************************************************************************)
(* Replaying them (replay_parallel_step), one recorded attempt at a time.  *)
(***************************************************************************)
Retried(i) == attempts[i] < task[i].retries

Number(i) == attempts' = [attempts EXCEPT ![i] = @ + 1]

\* An attempt that was retried: completed and traced, before its retry.
RecordRetried ==
  /\ At("record") /\ Retried(cur)
  /\ Number(cur)
  /\ pc' = "retry"
  /\ UNCHANGED <<plan, levels, level, cur, task, outputs, terminal, cancelled, outcome>>

EmitRetryScheduled ==
  /\ At("retry")
  /\ pc' = "reannounce"
  /\ UNCHANGED <<plan, levels, level, cur, task, attempts, outputs, terminal, cancelled,
                 outcome>>

Reannounce ==
  /\ At("reannounce")
  /\ pc' = "record"
  /\ UNCHANGED <<plan, levels, level, cur, task, attempts, outputs, terminal, cancelled,
                 outcome>>

\* How a decision ends the workflow, if it does.  One that would leave the
\* level fails loudly.
Ending(dec) ==
  CASE dec.kind = "next"  -> "none"
    [] dec.kind = "done"  -> "ok"
    [] dec.kind = "error" -> dec.error
    [] OTHER              -> "InternalError"

Publishes(dec) == dec.kind \in {"next", "done"}

\* mutant: the last step to end the workflow decides it
ConcludeLast(dec) ==
  /\ outputs' = IF Publishes(dec) THEN outputs \union {cur} ELSE outputs
  /\ terminal' = IF Ending(dec) = "none" THEN terminal ELSE Ending(dec)

\* The step at hand publishes its outputs, or ends the workflow, unless an
\* earlier step of the level has ended it.
Conclude(dec) ==
  IF terminal # "none" THEN UNCHANGED <<outputs, terminal>>
  ELSE /\ outputs' = IF Publishes(dec) THEN outputs \union {cur} ELSE outputs
       /\ terminal' = Ending(dec)

\* The attempt that settled the step, which the next step's first one follows.
RecordLast ==
  /\ At("record") /\ ~Retried(cur)
  /\ Number(cur)
  /\ Conclude(task[cur].decision)
  /\ IF After # {}
     THEN cur' \in First(After) /\ UNCHANGED pc
     ELSE cur' = 0 /\ pc' = "settle"
  /\ UNCHANGED <<plan, levels, level, task, cancelled, outcome>>

NextLevel ==
  /\ At("settle") /\ terminal = "none"
  /\ pc' = "level" /\ level' = level + 1
  /\ UNCHANGED <<plan, levels, cur, task, attempts, outputs, terminal, cancelled,
                 outcome>>

Return(result) ==
  /\ outcome' = result
  /\ UNCHANGED <<plan, pc, levels, level, cur, task, attempts, outputs, terminal,
                 cancelled>>

\* mutant: a level's outcome is returned whatever the token says
ReturnTerminalUnchecked == At("settle") /\ terminal # "none" /\ Return(terminal)

ReturnTerminal == At("settle") /\ terminal # "none" /\ ~cancelled /\ Return(terminal)

\* The outputs are built from vars once the last level is through.
ReturnOutputs == At("level") /\ level \notin DOMAIN levels /\ ~cancelled /\ Return("ok")

ReturnCancelled ==
  /\ At("level") \/ (At("settle") /\ terminal # "none")
  /\ cancelled
  /\ Return("ExecutionCancelled")

-----------------------------------------------------------------------------
Cancel ==
  /\ ~cancelled /\ cancelled' = TRUE
  /\ UNCHANGED <<plan, pc, levels, level, cur, task, attempts, outputs, terminal,
                 outcome>>

InvocationStep ==
  \/ BuildLevel \/ FailCycle \/ LevelsBuilt
  \/ StartLevel \/ AnnounceStep \/ JoinPanicked \/ JoinLevel
  \/ RecordRetried \/ EmitRetryScheduled \/ Reannounce \/ RecordLast
  \/ NextLevel \/ ReturnTerminal \/ ReturnOutputs \/ ReturnCancelled

TaskStep(i) ==
  TaskRequestCancelled(i) \/ TaskRouted(i) \/ TaskDelayElapsed(i)
    \/ TaskRoutingCancelled(i)

Next ==
  \/ InvocationStep \/ Cancel
  \/ \E i \in Steps : TaskStep(i) \/ TaskReplied(i) \/ TaskPanicked(i)

Spec == Init /\ [][Next]_vars

\* The runtime polls the invocation and each of its tasks; no request need be
\* answered.
FairSpec == Spec /\ WF_vars(InvocationStep)
                 /\ \A i \in 1 .. MaxSteps : WF_vars(i \in Steps /\ TaskStep(i))

Started(i) == task[i].pc # "idle"

(***************************************************************************)
(* Levels.                                                                 *)
(***************************************************************************)
\* What a step waits for or reads, until it has run and been routed.
Needs(i) == Steps \cap (Referred(plan.refs[i], {"dependsOn", "late"}) \union Found(i))

\* What a step reads and build_levels does not see: only a text that is read late says
\* so, or the id is none that STEP_REF_RE matches.
Overlooked(i, j) ==
  /\ j \notin plan.refs[i]["dependsOn"]
  /\ j \in plan.odd \/ j \notin Found(i)

\* No step runs before every step it needs has completed in an earlier level and
\* published its outputs: its requests and the criteria it is routed through, of either
\* field and from either list, see what a sequential run would have left.  What
\* the scan overlooks, and nothing else, it may miss (build_levels).
ReadsPublished ==
  \A i \in Steps : Started(i) => \A j \in Needs(i) : j \in outputs \/ Overlooked(i, j)

Cyclic == \E S \in (SUBSET Steps) \ {{}} : \A i \in S : Deps(i) \cap S # {}

\* A workflow with a dependency cycle, however long, sends no request at all,
\* and only such a workflow is refused (build_levels before the first level).
CycleBeforeRequests ==
  /\ Cyclic => outcome \in {"none", "DependencyCycle"} /\ \A i \in Steps : ~Started(i)
  /\ outcome = "DependencyCycle" => Cyclic

\* parallel_blocker admits no workflow whose routing could leave a level: the
\* InternalError of execute_parallel is unreachable.
NeverUnsupported == outcome # "InternalError"

(***************************************************************************)
(* Recording a level.                                                      *)
(***************************************************************************)
\* Every step of a level has sent its requests, so once the invocation
\* returns each attempt that ran is recorded and numbered, also after a step
\* that ended the workflow.  Only a panicked task leaves attempts unrecorded.
EveryAttemptRecorded ==
  outcome \notin {"none", "ParallelThreadPanic"} =>
    \A i \in Steps : Started(i) => attempts[i] = task[i].retries + 1

Failing == {i \in Steps : task[i].pc = "finished" /\ task[i].decision.kind = "error"}

\* However the tasks of a level interleave, the failing step of the lowest
\* index decides the workflow, and it succeeds only when every step did.
FirstFailureDecides ==
  /\ outcome \in Errors \ Cancellations =>
       \A i \in First(Failing) : task[i].decision.error = outcome
  /\ outcome = "ok" => Failing = {} /\ outputs = Steps

\* An invocation ends as its levels went: refused for a cycle and for nothing
\* else, recorded to the last attempt, and decided by the first step that fails.
OutcomeIsTheLevels ==
  CycleBeforeRequests /\ NeverUnsupported /\ EveryAttemptRecorded /\ FirstFailureDecides

(***************************************************************************)
(* Cancellation.                                                           *)
(***************************************************************************)
\* Once the token has fired no task retries its step, and the invocation
\* returns nothing but a cancellation, whatever its level's steps settled; a
\* cycle found or a task that panicked comes before the next look at it.
CancelOverrides ==
  [][cancelled =>
       /\ \A i \in Steps : task'[i].retries = task[i].retries
       /\ outcome' \in {outcome, "ExecutionCancelled", "DependencyCycle",
                        "ParallelThreadPanic"}]_vars

\* A fired token ends the invocation, although no request of the level it is
\* running is ever answered and whatever delay a retry waits out.
CancelSettles == cancelled ~> outcome # "none"

(***************************************************************************)
(* The stream.                                                             *)
(***************************************************************************)
Replaying == pc \in {"record", "retry", "reannounce"}

Stage(i) ==
  CASE Replaying /\ i = cur /\ attempts[i] > 0 ->
         (CASE pc = "record" -> "announced"
            [] pc = "retry" -> "completed"
            [] pc = "reannounce" -> "scheduled")
    [] ~(Replaying /\ i = cur) /\ attempts[i] > 0 -> "completed"
    [] OTHER ->
         IF \/ Started(i)
            \/ pc = "announce" /\ i \in Current /\ i < cur
         THEN "announced" ELSE "new"

\* What the invocation reports of its attempts is the stream of a run of one
\* step at a time, although the attempts of a level overlap.
AP == INSTANCE AttemptProtocol WITH
        Steps  <- 1 .. MaxSteps,
        stage  <- [i \in 1 .. MaxSteps |-> IF i \in Steps THEN Stage(i) ELSE "new"],
        number <- [i \in 1 .. MaxSteps |-> IF i \in Steps THEN attempts[i] ELSE 0]

\* Replay in step order, with each retry between its attempts, implements the
\* attempt protocol (replay_parallel_step).
StreamsInStepOrder == AP!StreamSpec
=============================================================================
