------------------------- MODULE ParallelLevelsProofs -------------------------
(***************************************************************************)
(* A workflow run in parallel levels, for every workflow: what its tasks   *)
(* may read, how it ends, what a cancellation stops, and the stream it     *)
(* reports.                                                                *)
(***************************************************************************)
EXTENDS ParallelLevels

-----------------------------------------------------------------------------
(***************************************************************************)
(* The invariant.  A step reads what is published because its level was    *)
(* built after the levels of its dependencies, because a level starts only *)
(* when every step of the earlier ones published its outputs, and because  *)
(* a step is started only with its level.                                  *)
(***************************************************************************)
\* A task routes only a settled attempt, and what it decides is complete.
Sound(t) ==
  /\ t \in Task
  /\ t.pc = "settled" => t.result # "none"
  /\ t.decision.kind = "retry" => t.decision.site \in Sites
  /\ NamesError(t.decision)

Located ==
  /\ pc \notin {"build", "level"} => level \in DOMAIN levels
  /\ pc \in {"announce", "record", "retry", "reannounce"} => cur \in Current
  /\ pc = "build" => level = 1 /\ \A i \in Steps : ~Started(i)

Typed == TypeOK /\ Located /\ \A i \in Steps : Sound(task[i])

Below(k) == {j \in Steps : \E m \in DOMAIN levels : m < k /\ j \in levels[m]}

Layered == \A k \in DOMAIN levels : \A i \in levels[k] : Deps(i) \subseteq Below(k)

Published ==
  /\ Below(level) \subseteq outputs
  /\ pc \in {"record", "retry", "reannounce"} /\ terminal = "none" =>
       \A i \in Current : i < cur => i \in outputs
  /\ pc = "settle" /\ terminal = "none" => Current \subseteq outputs

StartedByLevel ==
  \A i \in Steps : Started(i) =>
    \E k \in DOMAIN levels : k <= level /\ i \in levels[k]

Inv == Typed /\ Layered /\ Published /\ StartedByLevel

-----------------------------------------------------------------------------
LEMMA PlanTyped ==
  ASSUME plan \in Plans
  PROVE  Regular(plan.workflow) /\ Steps \subseteq Nat \ {0}
<1>1. Regular(plan.workflow)
  BY PlansAssumption
<1>2. plan.workflow.steps \in Seq(Step)
  BY <1>1 DEF Regular, Workflow
<1>3. QED
  BY <1>1, <1>2 DEF Steps

LEMMA IdleSound == Sound(IdleTask)
<1>1. [s \in Sites |-> 0] \in Counts
  BY DEF Counts
<1>2. QED
  BY <1>1, NoDecisionTyped
  DEF IdleTask, Sound, Task, NoDecision, NamesError, Results

LEMMA InvInit == Init => Inv
<1> SUFFICES ASSUME Init PROVE Inv
  OBVIOUS
<1>1. plan \in Plans /\ levels = <<>> /\ level = 1 /\ pc = "build" /\ cur = 0
      /\ task = [i \in Steps |-> IdleTask] /\ attempts = [i \in Steps |-> 0]
      /\ outputs = {} /\ terminal = "none" /\ cancelled = FALSE /\ outcome = "none"
  BY DEF Init
<1>2. DOMAIN levels = {} /\ levels \in Seq((SUBSET Steps) \ {{}})
  BY <1>1
<1>3. \A i \in Steps : Sound(task[i]) /\ task[i] \in Task /\ ~Started(i)
  BY <1>1, IdleSound DEF Sound, Started, IdleTask
<1>4. task \in [Steps -> Task]
  BY <1>1, <1>3
<1>5. TypeOK
  <2>1. attempts \in [Steps -> Nat] /\ "none" \in Outcomes
    BY <1>1 DEF Outcomes, Results
  <2>2. outputs \subseteq Steps /\ level \in Nat \ {0} /\ cur \in Steps \union {0}
    BY <1>1
  <2>3. QED
    BY <1>1, <1>2, <1>4, <2>1, <2>2 DEF TypeOK
<1>6. Typed
  BY <1>1, <1>3, <1>5 DEF Typed, Located
<1>7. Below(level) = {}
  BY <1>2 DEF Below
<1>8. QED
  BY <1>1, <1>2, <1>3, <1>6, <1>7 DEF Inv, Layered, Published, StartedByLevel

-----------------------------------------------------------------------------
(***************************************************************************)
(* Building levels.                                                        *)
(***************************************************************************)
\* A level is appended, and what is below it is what was levelled before.
LEMMA BuildFacts ==
  ASSUME Inv, BuildLevel
  PROVE  /\ UNCHANGED <<plan, pc, level, cur, task, attempts, outputs, terminal, cancelled,
                        outcome>>
         /\ pc = "build" /\ outcome = "none"
         /\ Steps' = Steps /\ \A i : Started(i)' = Started(i) /\ Deps(i)' = Deps(i)
         /\ \E n \in Nat :
              /\ n = Len(levels) /\ DOMAIN levels = 1 .. n
              /\ Len(levels') = n + 1 /\ DOMAIN levels' = 1 .. n + 1
              /\ levels' \in Seq((SUBSET Steps) \ {{}})
              /\ \A k \in 1 .. n : levels'[k] = levels[k] /\ Below(k)' = Below(k)
              /\ levels'[n + 1] = Ready /\ Below(n + 1)' = Levelled
<1>0. PICK n \in Nat : n = Len(levels)
  BY DEF Inv, Typed, TypeOK
<1>1. /\ levels' = Append(levels, Ready) /\ Ready # {} /\ pc = "build" /\ outcome = "none"
      /\ UNCHANGED <<plan, pc, level, cur, task, attempts, outputs, terminal,
                     cancelled, outcome>>
  BY DEF BuildLevel, At
<1>2. Steps' = Steps /\ \A i : Started(i)' = Started(i) /\ Deps(i)' = Deps(i)
  BY <1>1 DEF Steps, Started, Deps, Found
<1>3. levels \in Seq((SUBSET Steps) \ {{}}) /\ n \in Nat /\ DOMAIN levels = 1 .. n
  BY <1>0 DEF Inv, Typed, TypeOK
<1>4. Ready \in (SUBSET Steps) \ {{}}
  BY <1>1 DEF Ready
<1>5. /\ levels' \in Seq((SUBSET Steps) \ {{}})
      /\ DOMAIN levels' = 1 .. n + 1 /\ Len(levels') = n + 1
      /\ \A k \in 1 .. n : levels'[k] = levels[k]
      /\ levels'[n + 1] = Ready
  BY <1>0, <1>1, <1>3, <1>4
<1>6. \A k \in 1 .. n : Below(k)' = Below(k)
  BY <1>2, <1>3, <1>5 DEF Below
<1>7. Levelled = Below(n + 1)'
  <2>1. Levelled \subseteq Steps
    BY <1>3 DEF Levelled
  <2>2. \A j \in Steps : j \in Levelled <=> \E k \in 1 .. n : j \in levels[k]
    BY <1>3 DEF Levelled
  <2>3. \A k \in 1 .. n + 1 : k < n + 1 <=> k \in 1 .. n
    BY <1>3
  <2>4. \A j \in Steps :
          j \in Below(n + 1)' <=> \E k \in 1 .. n : j \in levels[k]
    BY <1>2, <1>3, <1>5, <2>3 DEF Below
  <2>5. Below(n + 1)' \subseteq Steps
    BY <1>2 DEF Below
  <2>6. QED
    BY <2>1, <2>2, <2>4, <2>5
<1>8. QED
  BY <1>0, <1>1, <1>2, <1>3, <1>5, <1>6, <1>7

LEMMA InvBuild == Inv /\ BuildLevel => Inv'
<1> SUFFICES ASSUME Inv, BuildLevel PROVE Inv'
  OBVIOUS
<1>1. /\ pc = "build"
      /\ UNCHANGED <<plan, pc, level, cur, task, attempts, outputs, terminal,
                     cancelled, outcome>>
  BY BuildFacts
<1>2. Steps' = Steps /\ \A i : Started(i)' = Started(i) /\ Deps(i)' = Deps(i)
  BY BuildFacts
<1>3. PICK n \in Nat :
        /\ DOMAIN levels = 1 .. n /\ levels' \in Seq((SUBSET Steps) \ {{}})
        /\ DOMAIN levels' = 1 .. n + 1
        /\ \A k \in 1 .. n : levels'[k] = levels[k] /\ Below(k)' = Below(k)
        /\ levels'[n + 1] = Ready /\ Below(n + 1)' = Levelled
  BY BuildFacts
<1>4. level = 1 /\ \A i \in Steps : ~Started(i)
  BY <1>1 DEF Inv, Typed, Located
<1>5. Typed'
  <2>1. TypeOK'
    BY <1>1, <1>2, <1>3 DEF Inv, Typed, TypeOK
  <2>2. Located'
    BY <1>1, <1>2, <1>4 DEF Located
  <2>3. \A i \in Steps' : Sound(task'[i])
    BY <1>1, <1>2 DEF Inv, Typed
  <2>4. QED
    BY <2>1, <2>2, <2>3 DEF Typed
<1>6. Layered'
  <2>1. \A k \in 1 .. n : \A i \in levels[k] : Deps(i) \subseteq Below(k)
    BY <1>3 DEF Inv, Layered
  <2>2. \A i \in Ready : Deps(i) \subseteq Below(n + 1)'
    BY <1>3 DEF Ready
  <2>3. \A k \in 1 .. n + 1 : \A i \in levels'[k] : Deps(i)' \subseteq Below(k)'
    <3> SUFFICES ASSUME NEW k \in 1 .. n + 1, NEW i \in levels'[k]
                 PROVE  Deps(i)' \subseteq Below(k)'
      OBVIOUS
    <3>1. CASE k \in 1 .. n
      BY <1>2, <1>3, <2>1, <3>1
    <3>2. CASE k = n + 1
      BY <1>2, <1>3, <2>2, <3>2
    <3>3. QED
      BY <1>3, <3>1, <3>2
  <2>4. QED
    BY <1>3, <2>3 DEF Layered
<1>7. Below(level)' = {}
  BY <1>1, <1>3, <1>4 DEF Below
<1>8. QED
  BY <1>1, <1>2, <1>4, <1>5, <1>6, <1>7 DEF Inv, Published, StartedByLevel

-----------------------------------------------------------------------------
(***************************************************************************)
(* Steps that leave the levels alone.                                      *)
(***************************************************************************)
LEMMA LevelsKept ==
  ASSUME UNCHANGED <<plan, levels>>
  PROVE  /\ Steps' = Steps /\ \A i : Deps(i)' = Deps(i) /\ \A k : Below(k)' = Below(k)
         /\ Layered => Layered'
<1>1. Steps' = Steps
  BY DEF Steps
<1>2. \A i : Deps(i)' = Deps(i)
  BY <1>1 DEF Deps, Found
<1>3. \A k : Below(k)' = Below(k)
  BY <1>1 DEF Below
<1>4. QED
  BY <1>1, <1>2, <1>3 DEF Layered

\* A task that was started goes on.
LEMMA TaskKeeps ==
  ASSUME Inv, NEW i \in Steps, Started(i), NEW t, Sound(t), t.pc # "idle",
         SetTask(i, t)
  PROVE  Inv'
<1>1. /\ task' = [task EXCEPT ![i] = t]
      /\ UNCHANGED <<plan, pc, levels, level, cur, attempts, outputs, terminal,
                     cancelled, outcome>>
  BY DEF SetTask
<1>2. Steps' = Steps /\ Below(level)' = Below(level) /\ Layered'
  BY <1>1, LevelsKept DEF Inv
<1>3. task \in [Steps -> Task] /\ \A j \in Steps : Sound(task[j])
  BY DEF Inv, Typed, TypeOK
<1>4. task' \in [Steps -> Task] /\ \A j \in Steps : Sound(task'[j])
  BY <1>1, <1>3 DEF Sound
<1>5. \A j \in Steps : Started(j)' = Started(j)
  BY <1>1, <1>3 DEF Started
<1>6. TypeOK'
  BY <1>1, <1>2, <1>4 DEF Inv, Typed, TypeOK
<1>7. Located'
  BY <1>1, <1>2, <1>5 DEF Inv, Typed, Located, Current
<1>8. Published'
  BY <1>1, <1>2 DEF Inv, Published, Current
<1>9. StartedByLevel'
  BY <1>1, <1>2, <1>5 DEF Inv, StartedByLevel
<1>10. QED
  BY <1>2, <1>4, <1>6, <1>7, <1>8, <1>9 DEF Inv, Typed

\* Settling a task on a decision keeps it sound.
LEMMA SettleSound ==
  ASSUME NEW t, Sound(t), NEW dec \in Decision, NamesError(dec),
         dec.kind = "retry" => dec.site \in Sites
  PROVE  Sound(Settle(t, dec)) /\ Settle(t, dec).pc # "idle"
<1>1. t \in Task
  BY DEF Sound
<1>2. CASE dec.kind = "retry" /\ dec.step = 0 /\ dec.workflow = NoWorkflow
  <2>1. CountRetry(t.counts, dec.site) \in Counts
    BY <1>1, <1>2 DEF Task, Counts, CountRetry
  <2>2. "none" \in Results /\ t.retries + 1 \in Nat
    BY <1>1 DEF Results, Task
  <2>3. Settle(t, dec) =
          [t EXCEPT !.pc = "request", !.counts = CountRetry(@, dec.site),
                    !.result = "none", !.decision = NoDecision, !.retries = @ + 1]
    BY <1>2 DEF Settle
  <2>4. NoDecision.kind = "none"
    BY DEF NoDecision
  <2>5. QED
    BY <1>1, <2>1, <2>2, <2>3, <2>4, NoDecisionTyped DEF Task, Sound, NamesError
<1>3. CASE ~(dec.kind = "retry" /\ dec.step = 0 /\ dec.workflow = NoWorkflow)
  BY <1>1, <1>3 DEF Settle, Task, Sound
<1>4. QED
  BY <1>2, <1>3

LEMMA InvTask == ASSUME Inv, NEW i \in Steps,
                        TaskStep(i) \/ TaskReplied(i) \/ TaskPanicked(i)
                 PROVE  Inv'
<1>1. Sound(task[i]) /\ task[i] \in Task
  BY DEF Inv, Typed, Sound
<1>2. /\ \A l : Running(i, l) /\ l # "idle" => Started(i)
      /\ task[i].pc # "idle" => Started(i)
  BY DEF Running, Started
<1>3. ASSUME NEW dec \in Decision, NamesError(dec), Started(i),
             dec.kind = "retry" => dec.site \in Sites,
             SetTask(i, Settle(task[i], dec))
      PROVE  Inv'
  BY <1>1, <1>3, SettleSound, TaskKeeps
<1>4. CASE TaskReplied(i)
  <2>1. PICK r \in {"ok", "SuccessCriteriaFailed", "HttpRequest"} :
          SetTask(i, [task[i] EXCEPT !.pc = "settled", !.result = r])
    BY <1>4 DEF TaskReplied
  <2> DEFINE t == [task[i] EXCEPT !.pc = "settled", !.result = r]
  <2>2. r \in Results /\ r # "none"
    BY DEF Results, Errors
  <2>3. Sound(t) /\ t.pc # "idle"
    BY <1>1, <2>2 DEF Sound, Task
  <2>4. Started(i)
    BY <1>2, <1>4 DEF TaskReplied
  <2>5. QED
    BY <2>1, <2>3, <2>4, TaskKeeps
<1>5. CASE TaskRequestCancelled(i)
  <2> DEFINE t == [task[i] EXCEPT !.pc = "settled", !.result = "ExecutionCancelled"]
  <2>1. "ExecutionCancelled" \in Results
    BY DEF Results, Errors, Cancellations
  <2>2. Sound(t) /\ t.pc # "idle"
    BY <1>1, <2>1 DEF Sound, Task
  <2>3. Started(i) /\ SetTask(i, t)
    BY <1>2, <1>5 DEF TaskRequestCancelled
  <2>4. QED
    BY <2>2, <2>3, TaskKeeps
<1>6. CASE TaskRouted(i)
  <2> DEFINE responded == task[i].result \in {"ok", "SuccessCriteriaFailed"}
  <2>1. PICK dec \in Routes(plan.workflow, i, task[i].counts, task[i].result,
                            responded) :
          IF dec.waits
          THEN SetTask(i, [task[i] EXCEPT !.pc = "delay", !.decision = dec])
          ELSE SetTask(i, Settle(task[i], dec))
    BY <1>6 DEF TaskRouted
  <2> HIDE DEF responded
  <2>2. task[i].pc = "settled" /\ task[i].result # "none"
    BY <1>1, <1>6 DEF TaskRouted, Running, Sound
  <2>3. Started(i)
    BY <2>2, <1>2
  <2>4. NamesError(dec)
    BY <2>1, <2>2, RoutesNamed
  <2>5. Regular(plan.workflow) /\ i \in DOMAIN plan.workflow.steps
    BY PlanTyped DEF Inv, Typed, TypeOK, Steps
  <2>6. task[i].counts \in Counts /\ task[i].result \in Results
    BY <1>1 DEF Task
  <2>7. dec \in Decision /\ RetryAllowed(plan.workflow, i, task[i].counts, dec)
    BY <2>1, <2>5, <2>6, RoutesSound
  <2>8. dec.kind = "retry" => dec.site \in Sites
    BY <2>5, <2>7, ListsTyped DEF RetryAllowed
  <2>9. CASE dec.waits
    <3> DEFINE t == [task[i] EXCEPT !.pc = "delay", !.decision = dec]
    <3>1. Sound(t) /\ t.pc # "idle"
      BY <1>1, <2>4, <2>7, <2>8 DEF Sound, Task
    <3>2. QED
      BY <2>1, <2>3, <2>9, <3>1, TaskKeeps
  <2>10. CASE ~dec.waits
    BY <1>3, <2>1, <2>3, <2>4, <2>7, <2>8, <2>10
  <2>11. QED
    BY <2>9, <2>10
<1>7. CASE TaskDelayElapsed(i)
  <2>1. /\ Started(i) /\ SetTask(i, Settle(task[i], task[i].decision))
    BY <1>2, <1>7 DEF TaskDelayElapsed
  <2>2. /\ task[i].decision \in Decision /\ NamesError(task[i].decision)
        /\ task[i].decision.kind = "retry" => task[i].decision.site \in Sites
    BY <1>1 DEF Sound, Task
  <2>3. QED
    BY <1>3, <2>1, <2>2
<1>8. CASE TaskRoutingCancelled(i)
  <2> DEFINE dec == Fail("ExecutionCancelled")
  <2>1. "ExecutionCancelled" \in Results
    BY DEF Results, Errors, Cancellations
  <2>2. dec \in Decision /\ dec.kind = "error" /\ NamesError(dec)
    BY <2>1, NoDecisionTyped DEF Fail, NoDecision, Decision, NamesError
  <2>3. Started(i) /\ SetTask(i, Settle(task[i], dec))
    BY <1>2, <1>8 DEF TaskRoutingCancelled
  <2> HIDE DEF dec
  <2>4. QED
    BY <1>3, <2>2, <2>3
<1>9. CASE TaskPanicked(i)
  <2> DEFINE t == [task[i] EXCEPT !.pc = "panicked"]
  <2>1. Sound(t) /\ t.pc # "idle"
    BY <1>1 DEF Sound, Task
  <2>2. Started(i) /\ SetTask(i, t)
    BY <1>2, <1>9 DEF TaskPanicked
  <2>3. QED
    BY <2>1, <2>2, TaskKeeps
<1>10. QED
  BY <1>4, <1>5, <1>6, <1>7, <1>8, <1>9 DEF TaskStep

-----------------------------------------------------------------------------
(***************************************************************************)
(* The invocation's other steps.                                           *)
(***************************************************************************)
LEMMA CurrentSteps ==
  ASSUME Inv, level \in DOMAIN levels
  PROVE  Current \subseteq Steps /\ Current \subseteq Nat
<1>1. levels \in Seq((SUBSET Steps) \ {{}}) /\ plan \in Plans
  BY DEF Inv, Typed, TypeOK
<1>2. QED
  BY <1>1, PlanTyped DEF Current

\* Nothing but the invocation's place changes, and what it published grows.
LEMMA MoveKeeps ==
  ASSUME Inv, TypeOK', UNCHANGED <<plan, levels, level, task>>,
         outputs \subseteq outputs', pc # "build" => pc' # "build", Located',
         pc' \in {"record", "retry", "reannounce"} /\ terminal' = "none" =>
           \A i \in Current : i < cur' => i \in outputs',
         pc' = "settle" /\ terminal' = "none" => Current \subseteq outputs'
  PROVE  Inv'
<1>1. /\ Steps' = Steps /\ Layered' /\ Below(level)' = Below(level)
      /\ \A i : Started(i)' = Started(i)
  BY LevelsKept DEF Inv, Started
<1>2. Typed'
  BY <1>1 DEF Inv, Typed
<1>3. Published'
  BY <1>1 DEF Inv, Published, Current
<1>4. StartedByLevel'
  BY <1>1 DEF Inv, StartedByLevel
<1>5. QED
  BY <1>1, <1>2, <1>3, <1>4 DEF Inv

LEMMA InvStart == ASSUME Inv, FailCycle \/ LevelsBuilt \/ StartLevel PROVE Inv'
<1>1. Steps' = Steps /\ UNCHANGED <<plan, levels, level, task, outputs>>
  BY DEF FailCycle, LevelsBuilt, StartLevel, Steps
<1>2. \A i : Started(i)' = Started(i)
  BY <1>1 DEF Started
<1>3. CASE FailCycle
  BY <1>1, <1>2, <1>3, MoveKeeps
  DEF FailCycle, At, Inv, Typed, TypeOK, Outcomes, Located, Current
<1>4. CASE LevelsBuilt
  BY <1>1, <1>2, <1>4, MoveKeeps
  DEF LevelsBuilt, At, Inv, Typed, TypeOK, Located, Current
<1>5. CASE StartLevel
  <2>1. /\ level \in DOMAIN levels /\ pc' = "announce" /\ cur' \in First(Current)
        /\ UNCHANGED <<attempts, terminal, cancelled, outcome>>
    BY <1>5 DEF StartLevel
  <2>2. cur' \in Current /\ cur' \in Steps
    BY <2>1, CurrentSteps DEF First
  <2>3. TypeOK'
    BY <1>1, <2>1, <2>2 DEF Inv, Typed, TypeOK
  <2>4. Located'
    BY <1>1, <2>1, <2>2 DEF Located, Current
  <2>5. QED
    BY <1>1, <2>1, <2>3, <2>4, MoveKeeps
<1>6. QED
  BY <1>3, <1>4, <1>5

\* Spawning the tasks starts the steps of the level at hand.
LEMMA InvAnnounce == ASSUME Inv, AnnounceStep PROVE Inv'
<1>1. /\ pc = "announce" /\ UNCHANGED <<plan, levels, level, attempts, outputs,
                                        terminal, cancelled, outcome>>
  BY DEF AnnounceStep, At
<1>2. level \in DOMAIN levels /\ Current \subseteq Steps
  BY <1>1, CurrentSteps DEF Inv, Typed, Located
<1>3. Steps' = Steps /\ Current' = Current
  BY <1>1 DEF Steps, Current
<1>4. CASE After # {}
  <2>1. cur' \in First(After) /\ UNCHANGED <<pc, task>>
    BY <1>4 DEF AnnounceStep
  <2>2. cur' \in Current /\ cur' \in Steps
    BY <1>2, <2>1 DEF First, After
  <2>3. TypeOK'
    BY <1>1, <1>3, <2>1, <2>2 DEF Inv, Typed, TypeOK
  <2>4. Located'
    BY <1>1, <1>2, <1>3, <2>1, <2>2 DEF Located
  <2>5. QED
    BY <1>1, <2>1, <2>3, <2>4, MoveKeeps
<1>5. CASE After = {}
  <2> DEFINE fresh == [IdleTask EXCEPT !.pc = "request"]
  <2>1. /\ cur' = 0 /\ pc' = "join"
        /\ task' = [i \in Steps |-> IF i \in Current THEN fresh ELSE task[i]]
    BY <1>5 DEF AnnounceStep
  <2>2. Sound(fresh) /\ fresh \in Task
    BY IdleSound DEF Sound, Task, IdleTask
  <2> HIDE DEF fresh
  <2>3. task \in [Steps -> Task] /\ \A i \in Steps : Sound(task[i])
    BY DEF Inv, Typed, TypeOK
  <2>4. task' \in [Steps -> Task] /\ \A i \in Steps : Sound(task'[i])
    BY <2>1, <2>2, <2>3
  <2>5. TypeOK'
    BY <1>1, <1>3, <2>1, <2>4 DEF Inv, Typed, TypeOK
  <2>6. Located'
    BY <1>1, <1>2, <2>1 DEF Located
  <2>7. Typed'
    BY <1>3, <2>4, <2>5, <2>6 DEF Typed
  <2>8. Layered' /\ Below(level)' = Below(level)
    BY <1>1, LevelsKept DEF Inv
  <2>9. Published'
    BY <1>1, <2>1, <2>8 DEF Inv, Published
  <2>10. \A i \in Steps : Started(i)' => Started(i) \/ i \in Current
    BY <2>1 DEF Started
  <2>11. StartedByLevel'
    <3>1. level <= level
      BY DEF Inv, Typed, TypeOK
    <3>2. \A i \in Current : i \in levels[level]
      BY DEF Current
    <3>3. QED
      BY <1>1, <1>2, <1>3, <2>10, <3>1, <3>2 DEF Inv, StartedByLevel
  <2>12. QED
    BY <2>7, <2>8, <2>9, <2>11 DEF Inv
<1>6. QED
  BY <1>4, <1>5

LEMMA InvReplay ==
  ASSUME Inv, JoinLevel \/ RecordRetried \/ EmitRetryScheduled \/ Reannounce
  PROVE  Inv'
<1>1. Steps' = Steps
      /\ UNCHANGED <<plan, levels, level, task, outputs, terminal, cancelled, outcome>>
  BY DEF JoinLevel, RecordRetried, EmitRetryScheduled, Reannounce, Steps
<1>2. Current' = Current
  BY <1>1 DEF Current
<1>3. pc \in {"join", "record", "retry", "reannounce"} /\ level \in DOMAIN levels
  BY DEF JoinLevel, RecordRetried, EmitRetryScheduled, Reannounce, At, Inv, Typed,
         Located
<1>4. Current \subseteq Steps /\ Current \subseteq Nat
  BY <1>3, CurrentSteps
<1>5. CASE JoinLevel
  <2>1. pc' = "record" /\ cur' \in First(Current) /\ attempts' = attempts
    BY <1>5 DEF JoinLevel
  <2>2. cur' \in Current /\ \A i \in Current : ~(i < cur')
    BY <1>4, <2>1 DEF First
  <2>3. TypeOK'
    BY <1>1, <1>4, <2>1, <2>2 DEF Inv, Typed, TypeOK
  <2>4. Located'
    BY <1>1, <1>2, <1>3, <2>1, <2>2 DEF Located
  <2>5. QED
    BY <1>1, <1>3, <2>1, <2>2, <2>3, <2>4, MoveKeeps
<1>6. CASE RecordRetried \/ EmitRetryScheduled \/ Reannounce
  <2>1. /\ pc \in {"record", "retry", "reannounce"} /\ cur' = cur
        /\ pc' \in {"record", "retry", "reannounce"}
        /\ attempts' = attempts \/ (attempts' = [attempts EXCEPT ![cur] = @ + 1])
    BY <1>6 DEF RecordRetried, EmitRetryScheduled, Reannounce, At, Number
  <2>2. cur \in Current
    BY <2>1 DEF Inv, Typed, Located
  <2>3. TypeOK'
    <3>1. attempts' \in [Steps -> Nat]
      BY <1>4, <2>1, <2>2 DEF Inv, Typed, TypeOK
    <3>2. QED
      BY <1>1, <2>1, <3>1 DEF Inv, Typed, TypeOK
  <2>4. Located'
    BY <1>1, <1>2, <1>3, <2>1, <2>2 DEF Located
  <2>5. terminal = "none" => \A i \in Current : i < cur => i \in outputs
    BY <2>1 DEF Inv, Published
  <2>6. QED
    BY <1>1, <2>1, <2>3, <2>4, <2>5, MoveKeeps
<1>7. QED
  BY <1>5, <1>6

\* A step that does not end the workflow published its outputs.
LEMMA InvRecordLast == ASSUME Inv, RecordLast PROVE Inv'
<1>1. /\ pc = "record" /\ Number(cur) /\ Conclude(task[cur].decision)
      /\ UNCHANGED <<plan, levels, level, task, cancelled, outcome>>
  BY DEF RecordLast, At
<1>2. level \in DOMAIN levels /\ cur \in Current
  BY <1>1 DEF Inv, Typed, Located
<1>3. Current \subseteq Steps /\ Current \subseteq Nat
  BY <1>2, CurrentSteps
<1>4. Steps' = Steps /\ Current' = Current
  BY <1>1 DEF Steps, Current
<1> DEFINE dec == task[cur].decision
<1>5. dec \in Decision /\ NamesError(dec)
  BY <1>2, <1>3 DEF Inv, Typed, Sound, Task
<1>6. Ending(dec) \in Outcomes /\ (Ending(dec) = "none" => Publishes(dec))
  BY <1>5 DEF Ending, Publishes, NamesError, Decision, Outcomes, Results
<1>7. /\ outputs \subseteq outputs' /\ outputs' \subseteq Steps
      /\ terminal' \in Outcomes
      /\ terminal' = "none" => terminal = "none" /\ cur \in outputs'
  <2>1. outputs \subseteq Steps /\ terminal \in Outcomes
    BY DEF Inv, Typed, TypeOK
  <2> HIDE DEF dec
  <2>2. Conclude(dec)
    BY <1>1 DEF dec
  <2>3. QED
    BY <1>2, <1>3, <1>6, <2>1, <2>2 DEF Conclude
<1>8. terminal' = "none" => \A i \in Current : i <= cur => i \in outputs'
  <2>1. terminal = "none" => \A i \in Current : i < cur => i \in outputs
    BY <1>1 DEF Inv, Published
  <2>2. \A i \in Current : i <= cur => i < cur \/ i = cur
    BY <1>2, <1>3
  <2>3. QED
    BY <1>7, <2>1, <2>2
<1>9. attempts' \in [Steps -> Nat]
  BY <1>1, <1>2, <1>3 DEF Number, Inv, Typed, TypeOK
<1>10. CASE After # {}
  <2>1. cur' \in First(After) /\ pc' = pc
    BY <1>10 DEF RecordLast
  <2>2. cur' \in Current /\ \A i \in Current : i < cur' => i <= cur
    BY <1>2, <1>3, <2>1 DEF First, After
  <2>3. TypeOK'
    BY <1>1, <1>3, <1>4, <1>7, <1>9, <2>1, <2>2 DEF Inv, Typed, TypeOK
  <2>4. Located'
    BY <1>1, <1>2, <1>4, <2>1, <2>2 DEF Located
  <2>5. terminal' = "none" => \A i \in Current : i < cur' => i \in outputs'
    BY <1>8, <2>2
  <2>6. QED
    BY <1>1, <1>7, <2>1, <2>3, <2>4, <2>5, MoveKeeps
<1>11. CASE After = {}
  <2>1. cur' = 0 /\ pc' = "settle"
    BY <1>11 DEF RecordLast
  <2>2. \A i \in Current : i <= cur
    BY <1>2, <1>3, <1>11 DEF After
  <2>3. TypeOK'
    BY <1>1, <1>4, <1>7, <1>9, <2>1 DEF Inv, Typed, TypeOK
  <2>4. Located'
    BY <1>1, <1>2, <2>1 DEF Located
  <2>5. terminal' = "none" => Current \subseteq outputs'
    BY <1>8, <2>2
  <2>6. QED
    BY <1>1, <1>7, <2>1, <2>3, <2>4, <2>5, MoveKeeps
<1>12. QED
  BY <1>10, <1>11

LEMMA InvNextLevel == ASSUME Inv, NextLevel PROVE Inv'
<1>1. /\ pc = "settle" /\ terminal = "none" /\ pc' = "level" /\ level' = level + 1
      /\ UNCHANGED <<plan, levels, cur, task, attempts, outputs, terminal, cancelled,
                     outcome>>
  BY DEF NextLevel, At
<1>2. level \in Nat \ {0} /\ levels \in Seq((SUBSET Steps) \ {{}})
  BY DEF Inv, Typed, TypeOK
<1>3. /\ Steps' = Steps /\ Layered' /\ \A k : Below(k)' = Below(k)
      /\ \A i : Started(i)' = Started(i)
  BY <1>1, LevelsKept DEF Inv, Started
<1>4. Below(level + 1) \subseteq Below(level) \union Current
  <2>1. \A m \in DOMAIN levels : m < level + 1 => m < level \/ m = level
    BY <1>2
  <2>2. QED
    BY <2>1 DEF Below, Current
<1>5. Below(level + 1) \subseteq outputs
  BY <1>1, <1>4 DEF Inv, Published
<1>6. Below(level)' = Below(level + 1)
  BY <1>1, <1>3 DEF Below
<1>7. Published'
  BY <1>1, <1>5, <1>6 DEF Published
<1>8. Typed'
  <2>1. TypeOK'
    BY <1>1, <1>2, <1>3 DEF Inv, Typed, TypeOK
  <2>2. QED
    BY <1>1, <1>3, <2>1 DEF Inv, Typed, Located
<1>9. StartedByLevel'
  <2>1. \A k \in DOMAIN levels : k <= level => k <= level + 1
    BY <1>2
  <2>2. QED
    BY <1>1, <1>3, <2>1 DEF Inv, StartedByLevel
<1>10. QED
  BY <1>3, <1>7, <1>8, <1>9 DEF Inv

LEMMA InvEnd ==
  ASSUME Inv, JoinPanicked \/ ReturnTerminal \/ ReturnOutputs \/ ReturnCancelled
                \/ Cancel \/ UNCHANGED vars
  PROVE  Inv'
<1>1. UNCHANGED <<plan, pc, levels, level, cur, task, attempts, outputs, terminal>>
  BY DEF JoinPanicked, ReturnTerminal, ReturnOutputs, ReturnCancelled, Return, Cancel,
         vars
<1>2. outcome' \in Outcomes /\ cancelled' \in BOOLEAN
  <2>1. {"ok", "ExecutionCancelled", "ParallelThreadPanic"} \subseteq Outcomes
    BY DEF Outcomes, Results, Errors, Cancellations
  <2>2. terminal \in Outcomes /\ outcome \in Outcomes /\ cancelled \in BOOLEAN
    BY DEF Inv, Typed, TypeOK
  <2>3. QED
    BY <2>1, <2>2 DEF JoinPanicked, ReturnTerminal, ReturnOutputs, ReturnCancelled,
                      Return, Cancel, vars
<1>3. Steps' = Steps /\ Current' = Current /\ \A i : Started(i)' = Started(i)
  BY <1>1 DEF Steps, Current, Started
<1>4. TypeOK'
  BY <1>1, <1>2, <1>3 DEF Inv, Typed, TypeOK
<1>5. Located'
  BY <1>1, <1>3 DEF Inv, Typed, Located
<1>6. QED
  BY <1>1, <1>4, <1>5, MoveKeeps DEF Inv, Published

LEMMA InvNext == ASSUME Inv, [Next]_vars PROVE Inv'
<1>1. CASE InvocationStep
  BY <1>1, InvBuild, InvStart, InvAnnounce, InvReplay, InvRecordLast, InvNextLevel,
     InvEnd DEF InvocationStep
<1>2. CASE Cancel \/ UNCHANGED vars
  BY <1>2, InvEnd
<1>3. CASE \E i \in Steps : TaskStep(i) \/ TaskReplied(i) \/ TaskPanicked(i)
  BY <1>3, InvTask
<1>4. QED
  BY <1>1, <1>2, <1>3 DEF Next

LEMMA InvHolds == Spec => []Inv
<1>1. Inv /\ [Next]_vars => Inv'
  BY InvNext
<1>2. QED
  BY <1>1, InvInit, PTL DEF Spec

-----------------------------------------------------------------------------
\* Every variable of the parallel scheduler keeps its type: no level is empty,
\* and every attempt counted belongs to a step of the workflow.
THEOREM LevelsTyped == Spec => []TypeOK
<1>1. Inv => TypeOK
  BY DEF Inv, Typed
<1>2. QED
  BY <1>1, InvHolds, PTL

\* Whatever the workflow's dependencies, a step whose task has started finds
\* the outputs of every step it waits for or reads in the snapshot its level
\* was given, but those that only texts refer to which build_levels does not
\* scan, or by an id it does not recognize (build_levels, execute_parallel).
THEOREM ReadsArePublished == Spec => []ReadsPublished
<1>1. Inv => ReadsPublished
  <2> SUFFICES ASSUME Inv, NEW i \in Steps, Started(i)
               PROVE  Deps(i) \subseteq outputs
    BY DEF ReadsPublished, Started, Needs, Overlooked, Deps
  <2>1. PICK k \in DOMAIN levels : k <= level /\ i \in levels[k]
    BY DEF Inv, StartedByLevel
  <2>2. Deps(i) \subseteq Below(k)
    BY <2>1 DEF Inv, Layered
  <2>3. k \in Nat /\ level \in Nat /\ \A m \in DOMAIN levels : m \in Nat
    BY DEF Inv, Typed, TypeOK
  <2>4. \A m \in DOMAIN levels : m < k => m < level
    BY <2>1, <2>3
  <2>5. Below(k) \subseteq Below(level)
    BY <2>4 DEF Below
  <2>6. QED
    BY <2>2, <2>5 DEF Inv, Published
<1>2. QED
  BY <1>1, InvHolds, PTL

-----------------------------------------------------------------------------
(***************************************************************************)
(* How an invocation ends.  For this the invariant must follow every step  *)
(* from its level to its last recorded attempt, and remember why the level *)
(* at hand ended the workflow, if it did.                                  *)
(***************************************************************************)
\* Every step is in at most one level, every step is in one once the levels
\* are built, and no step of a cycle ever is.
Partitioned ==
  /\ \A k \in DOMAIN levels : levels[k] \cap Below(k) = {}
  /\ level <= Len(levels) + 1
  /\ pc # "build" => Levelled = Steps
  /\ \A S \in SUBSET Steps : (\A i \in S : Deps(i) \cap S # {}) => S \cap Levelled = {}

\* A decision that stays in the task, and one that ends it.
PlainRetry(dec) == dec.kind = "retry" /\ dec.step = 0 /\ dec.workflow = NoWorkflow
Final(dec) == dec.kind = "next" \/ (dec.kind = "error" /\ dec.error \in Errors)

\* A task stays in its level: it retries its own step, or is through.
Confined(t) ==
  /\ t.pc = "delay" => PlainRetry(t.decision)
  /\ t.pc = "finished" => Final(t.decision)

Fresh(i) == task[i] = IdleTask /\ attempts[i] = 0
Recorded(i) == task[i].pc = "finished" /\ attempts[i] = task[i].retries + 1
Passed(i) == task[i].decision.kind = "next"

Ledger ==
  /\ \A i \in Below(level) : Recorded(i) /\ Passed(i)
  /\ \A i \in Steps \ Below(level + 1) : Fresh(i)
  /\ pc \in {"build", "level", "announce"} => \A i \in Steps \ Below(level) : Fresh(i)
  /\ pc = "join" => \A i \in Current : Started(i) /\ attempts[i] = 0
  /\ Replaying =>
       /\ \A i \in Current : /\ task[i].pc = "finished"
                             /\ i < cur => Recorded(i)
                             /\ i > cur => attempts[i] = 0
       /\ attempts[cur] <= task[cur].retries
  /\ pc \in {"retry", "reannounce"} => attempts[cur] > 0
  /\ pc = "settle" => \A i \in Current : Recorded(i)

\* The steps of the level that have been replayed, and the one among them that
\* ended the workflow.
Replayed == IF pc = "settle" THEN Current ELSE {i \in Current : i < cur}

EndedBy(f) ==
  /\ task[f].decision.kind = "error" /\ task[f].decision.error = terminal
  /\ \A i \in Replayed : i < f => Passed(i)

Decided ==
  /\ pc \in {"build", "level", "announce", "join"} => terminal = "none"
  /\ Replaying \/ pc = "settle" =>
       IF terminal = "none" THEN \A i \in Replayed : Passed(i)
       ELSE terminal \in Errors /\ \E f \in Replayed : EndedBy(f)

Returned ==
  /\ pc = "build" => outcome \in {"none", "DependencyCycle"}
  /\ outcome = "DependencyCycle" => pc = "build" /\ Cyclic
  /\ outcome = "ok" => pc = "level" /\ level \notin DOMAIN levels
  /\ outcome \in Cancellations => pc \in {"level", "settle"}
  /\ outcome \in Errors \ Cancellations => pc = "settle" /\ outcome = terminal
  /\ outcome # "InternalError"

Ends ==
  /\ Inv /\ ~ParallelBlocker(plan.workflow)
  /\ Partitioned /\ (\A i \in Steps : Confined(task[i])) /\ Ledger /\ Decided /\ Returned

LEMMA LevelFacts ==
  ASSUME Inv, Partitioned, level \in DOMAIN levels
  PROVE  /\ Below(level + 1) = Below(level) \union Current
         /\ Current \cap Below(level) = {}
         /\ Current \subseteq Steps /\ Current \subseteq Nat
<1>1. level \in Nat /\ DOMAIN levels \subseteq Nat
  BY DEF Inv, Typed, TypeOK
<1>2. \A m \in DOMAIN levels : m < level + 1 <=> m < level \/ m = level
  BY <1>1
<1>3. Current \subseteq Steps /\ Current \subseteq Nat
  BY CurrentSteps
<1>4. Below(level + 1) = Below(level) \union Current
  BY <1>2, <1>3 DEF Below, Current
<1>5. QED
  BY <1>3, <1>4 DEF Partitioned, Current

LEMMA Counters ==
  ASSUME Inv, NEW i \in Steps
  PROVE  /\ task[i] \in Task /\ attempts[i] \in Nat /\ task[i].retries \in Nat /\ Sound(task[i])
         /\ task \in [Steps -> Task] /\ attempts \in [Steps -> Nat]
BY DEF Inv, Typed, TypeOK, Task

\* Where the invocation is while it records or retries.
LEMMA AtCurrent ==
  ASSUME Inv, Replaying \/ pc \in {"announce", "join", "settle"}
  PROVE  level \in DOMAIN levels /\ (Replaying \/ pc = "announce" => cur \in Current)
BY DEF Inv, Typed, Located, Replaying

-----------------------------------------------------------------------------
(***************************************************************************)
(* Routing inside a level.                                                 *)
(***************************************************************************)
LEMMA RoutesConfined ==
  ASSUME NEW wf, Regular(wf), ~ParallelBlocker(wf), NEW i \in DOMAIN wf.steps, NEW counts,
         NEW result \in Results, result # "none", NEW responded,
         NEW dec \in Routes(wf, i, counts, result, responded)
  PROVE  PlainRetry(dec) \/ (Final(dec) /\ ~dec.waits)
<1> DEFINE list == FailureActions(wf, i)
<1>1. /\ wf.onSuccess = <<>> /\ wf.steps[i].onSuccess = <<>>
      /\ \A j \in DOMAIN list : IsPlainRetry(list[j])
  BY DEF ParallelBlocker, Blocks, FailureActions, ApplicableActions
<1>2. CASE result = "ok"
  <2>1. SuccessActions(wf, i) = <<>>
    BY <1>1 DEF SuccessActions, ApplicableActions
  <2>2. DOMAIN SuccessActions(wf, i) = {}
    BY <2>1
  <2>3. PICK m \in Matchings(SuccessActions(wf, i)) : dec \in SuccessRoutes(wf, i, m, responded)
    BY <1>2 DEF Routes
  <2>4. m = {}
    BY <2>2, <2>3 DEF Matchings
  <2>5. dec = GoOn(i + 1)
    BY <2>3, <2>4 DEF SuccessRoutes
  <2>6. QED
    BY <2>5 DEF GoOn, NoDecision, Final
<1>3. CASE result # "ok"
  <2>1. result \in Errors /\ "InputValidation" \in Errors /\ "RetryLimitExceeded" \in Errors
    BY <1>3 DEF Results, Errors
  <2>2. ASSUME NEW e \in Errors, dec = Fail(e) PROVE Final(dec) /\ ~dec.waits
    BY <2>2 DEF Fail, NoDecision, Final
  <2>3. PICK m \in Matchings(list) : dec \in FailureRoutes(wf, i, m, counts, result, responded)
    BY <1>3 DEF Routes
  <2>4. ASSUME NEW j \in DOMAIN list, dec \in Perform(wf, i, list, j, result, responded)
        PROVE  PlainRetry(dec) \/ (Final(dec) /\ ~dec.waits)
    <3>1. list[j].type = "retry" /\ list[j].step = 0 /\ list[j].workflow = NoWorkflow
      BY <1>1 DEF IsPlainRetry
    <3>2. PICK delay : dec = PerformRetry(list[j], <<i, j>>, delay)
      BY <2>4, <3>1 DEF Perform
    <3>3. CASE dec = Fail("InputValidation")
      BY <2>1, <2>2, <3>3
    <3>4. CASE dec = Retry(list[j], <<i, j>>, delay = "some")
      BY <3>1, <3>4 DEF Retry, NoDecision, PlainRetry
    <3>5. QED
      BY <3>2, <3>3, <3>4 DEF PerformRetry
  <2>5. \/ dec = Fail("RetryLimitExceeded") \/ dec = Fail(result)
        \/ \E j \in DOMAIN list : dec \in Perform(wf, i, list, j, result, responded)
    <3> DEFINE live == {j \in m : ~Exhausted(list[j], counts, <<i, j>>)}
    <3>1. m \subseteq DOMAIN list
      BY <2>3 DEF Matchings
    <3>2. dec \in CASE live # {} -> UNION {Perform(wf, i, list, j, result, responded) :
                                             j \in First(live)}
                    [] live = {} /\ m # {} -> {Fail("RetryLimitExceeded")}
                    [] OTHER -> {Fail(result)}
      BY <2>3 DEF FailureRoutes
    <3>3. First(live) \subseteq DOMAIN list
      BY <3>1 DEF First
    <3> HIDE DEF live, list
    <3>4. QED
      BY <3>2, <3>3
  <2>6. QED
    BY <2>1, <2>2, <2>4, <2>5
<1>4. QED
  BY <1>2, <1>3

-----------------------------------------------------------------------------
(***************************************************************************)
(* Tasks at work.                                                          *)
(***************************************************************************)
\* What the levels and the plan alone decide.
LEMMA PlanKept ==
  ASSUME UNCHANGED <<plan, levels, level>>
  PROVE  /\ Steps' = Steps /\ Levelled' = Levelled /\ Current' = Current /\ Cyclic' = Cyclic
         /\ ParallelBlocker(plan.workflow)' = ParallelBlocker(plan.workflow)
         /\ \A k : Below(k)' = Below(k)
         /\ Below(level)' = Below(level) /\ Below(level + 1)' = Below(level + 1)
         /\ (pc' # "build" => pc # "build" \/ Levelled = Steps) /\ Partitioned => Partitioned'
<1>1. Steps' = Steps /\ (\A i : Deps(i)' = Deps(i)) /\ (\A k : Below(k)' = Below(k))
  BY LevelsKept
<1>2. Levelled' = Levelled /\ Current' = Current /\ Cyclic' = Cyclic
  BY <1>1 DEF Levelled, Current, Cyclic
<1>3. ParallelBlocker(plan.workflow)' = ParallelBlocker(plan.workflow)
  BY DEF ParallelBlocker
<1>4. Below(level)' = Below(level) /\ Below(level + 1)' = Below(level + 1)
  BY DEF Below, Steps
<1>5. ASSUME pc' # "build" => pc # "build" \/ Levelled = Steps, Partitioned PROVE Partitioned'
  <2>1. pc' # "build" => Levelled = Steps
    BY <1>5 DEF Partitioned
  <2>2. QED
    BY <1>1, <1>2, <1>5, <2>1 DEF Partitioned
<1>6. QED
  BY <1>1, <1>2, <1>3, <1>4, <1>5

\* A task that runs belongs to the level at hand, which is being joined.
LEMMA RunningTask ==
  ASSUME Ends, NEW i \in Steps, Started(i), task[i].pc # "finished"
  PROVE  pc = "join" /\ i \in Current /\ i \notin Below(level) /\ attempts[i] = 0
<1>1. IdleTask.pc = "idle"
  BY DEF IdleTask
<1>2. ~Fresh(i) /\ ~Recorded(i)
  BY <1>1 DEF Fresh, Recorded, Started
<1>3. i \notin Below(level) /\ i \in Below(level + 1) /\ pc \notin {"build", "level", "announce"}
  BY <1>2 DEF Ends, Ledger
<1>4. pc \in {"join", "settle"} \/ Replaying
  BY <1>3 DEF Ends, Inv, Typed, TypeOK, Replaying
<1>5. level \in DOMAIN levels
  BY <1>4, AtCurrent DEF Ends
<1>6. i \in Current
  BY <1>3, <1>5, LevelFacts DEF Ends
<1>7. pc = "join"
  BY <1>2, <1>4, <1>6 DEF Ends, Ledger
<1>8. QED
  BY <1>3, <1>6, <1>7 DEF Ends, Ledger

LEMMA EndsTaskKeeps ==
  ASSUME Ends, Inv', NEW i \in Steps, Started(i), task[i].pc # "finished", outcome = "none",
         NEW t, t.pc # "idle", Confined(t), SetTask(i, t)
  PROVE  Ends'
<1>1. /\ task' = [task EXCEPT ![i] = t]
      /\ UNCHANGED <<plan, pc, levels, level, cur, attempts, outputs, terminal, cancelled,
                     outcome>>
  BY DEF SetTask
<1>2. /\ Steps' = Steps /\ Current' = Current
      /\ ParallelBlocker(plan.workflow)' = ParallelBlocker(plan.workflow)
      /\ Below(level)' = Below(level) /\ Below(level + 1)' = Below(level + 1) /\ Partitioned'
  BY <1>1, PlanKept DEF Ends
<1>3. task \in [Steps -> Task]
  BY DEF Ends, Inv, Typed, TypeOK
<1>4. task'[i] = t /\ \A j \in Steps : j # i => task'[j] = task[j]
  BY <1>1, <1>3
<1>5. pc = "join" /\ i \in Current /\ i \notin Below(level) /\ attempts[i] = 0 /\ ~Replaying
  BY RunningTask DEF Replaying
<1>6. Below(level) \subseteq Steps /\ Current \subseteq Steps /\ i \in Below(level + 1)
  BY <1>5, AtCurrent, LevelFacts DEF Ends, Below
<1>7. Ledger'
  <2>1. \A j \in Below(level) : (Recorded(j) /\ Passed(j))'
    BY <1>1, <1>4, <1>5, <1>6 DEF Ends, Ledger, Recorded, Passed
  <2>2. \A j \in Steps \ Below(level + 1) : Fresh(j)'
    BY <1>1, <1>4, <1>6 DEF Ends, Ledger, Fresh
  <2>3. \A j \in Current : Started(j)' /\ attempts'[j] = 0
    BY <1>1, <1>4, <1>5, <1>6 DEF Ends, Ledger, Started
  <2>4. pc' = "join" /\ ~Replaying'
    BY <1>1, <1>5 DEF Replaying
  <2>5. QED
    BY <1>2, <2>1, <2>2, <2>3, <2>4 DEF Ledger
<1>8. \A j \in Steps' : Confined(task'[j])
  BY <1>2, <1>4 DEF Ends
<1>9. Decided'
  BY <1>1, <1>5 DEF Ends, Decided, Replaying
<1>10. Returned'
  BY <1>1, <1>5 DEF Ends, Returned, Cancellations, Errors
<1>11. QED
  BY <1>2, <1>7, <1>8, <1>9, <1>10 DEF Ends

LEMMA SettleConfined ==
  ASSUME NEW t, t \in Task, NEW dec, PlainRetry(dec) \/ Final(dec)
  PROVE  Settle(t, dec).pc # "idle" /\ Confined(Settle(t, dec))
<1>1. CASE PlainRetry(dec)
  BY <1>1 DEF Settle, PlainRetry, Confined, Task
<1>2. CASE ~PlainRetry(dec)
  BY <1>2 DEF Settle, PlainRetry, Confined, Task
<1>3. QED
  BY <1>1, <1>2

LEMMA EndsTask ==
  ASSUME Ends, Inv', NEW i \in Steps, TaskStep(i) \/ TaskReplied(i) \/ TaskPanicked(i)
  PROVE  Ends'
<1>1. /\ task[i] \in Task /\ Sound(task[i]) /\ Confined(task[i])
      /\ Regular(plan.workflow) /\ i \in DOMAIN plan.workflow.steps
      /\ ~ParallelBlocker(plan.workflow)
  BY Counters, PlanTyped DEF Ends, Inv, Typed, TypeOK, Steps
<1>2. Started(i) /\ task[i].pc # "finished" /\ outcome = "none"
  BY DEF TaskStep, TaskReplied, TaskRequestCancelled, TaskRouted, TaskDelayElapsed,
         TaskRoutingCancelled, TaskPanicked, Running, Started
<1>3. ASSUME NEW dec, PlainRetry(dec) \/ Final(dec), SetTask(i, Settle(task[i], dec))
      PROVE  Ends'
  BY <1>1, <1>2, <1>3, SettleConfined, EndsTaskKeeps
<1>4. ASSUME NEW t, t.pc \notin {"idle", "delay", "finished"}, SetTask(i, t) PROVE Ends'
  <2>1. Confined(t)
    BY <1>4 DEF Confined
  <2>2. QED
    BY <1>2, <1>4, <2>1, EndsTaskKeeps
<1>5. CASE TaskReplied(i)
  <2>1. PICK r : SetTask(i, [task[i] EXCEPT !.pc = "settled", !.result = r])
    BY <1>5 DEF TaskReplied
  <2>2. [task[i] EXCEPT !.pc = "settled", !.result = r].pc = "settled"
    BY <1>1 DEF Task
  <2>3. QED
    BY <1>4, <2>1, <2>2
<1>6. CASE TaskRequestCancelled(i)
  <2>1. SetTask(i, [task[i] EXCEPT !.pc = "settled", !.result = "ExecutionCancelled"])
    BY <1>6 DEF TaskRequestCancelled
  <2>2. [task[i] EXCEPT !.pc = "settled", !.result = "ExecutionCancelled"].pc = "settled"
    BY <1>1 DEF Task
  <2>3. QED
    BY <1>4, <2>1, <2>2
<1>7. CASE TaskPanicked(i)
  <2>1. SetTask(i, [task[i] EXCEPT !.pc = "panicked"])
    BY <1>7 DEF TaskPanicked
  <2>2. [task[i] EXCEPT !.pc = "panicked"].pc = "panicked"
    BY <1>1 DEF Task
  <2>3. QED
    BY <1>4, <2>1, <2>2
<1>8. CASE TaskRouted(i)
  <2> DEFINE responded == task[i].result \in {"ok", "SuccessCriteriaFailed"}
  <2>1. PICK dec \in Routes(plan.workflow, i, task[i].counts, task[i].result, responded) :
          IF dec.waits
          THEN SetTask(i, [task[i] EXCEPT !.pc = "delay", !.decision = dec])
          ELSE SetTask(i, Settle(task[i], dec))
    BY <1>8 DEF TaskRouted
  <2> HIDE DEF responded
  <2>2. task[i].result # "none" /\ task[i].result \in Results
    BY <1>1, <1>8 DEF TaskRouted, Running, Sound, Task
  <2>3. PlainRetry(dec) \/ (Final(dec) /\ ~dec.waits)
    BY <1>1, <2>1, <2>2, RoutesConfined
  <2>4. CASE dec.waits
    <3> DEFINE t == [task[i] EXCEPT !.pc = "delay", !.decision = dec]
    <3>1. t.pc = "delay" /\ t.decision = dec
      BY <1>1 DEF Task
    <3>2. SetTask(i, t)
      BY <2>1, <2>4
    <3> HIDE DEF t
    <3>3. Confined(t)
      BY <2>3, <2>4, <3>1 DEF Confined
    <3>4. QED
      BY <1>2, <3>1, <3>2, <3>3, EndsTaskKeeps
  <2>5. CASE ~dec.waits
    BY <1>3, <2>1, <2>3, <2>5
  <2>6. QED
    BY <2>4, <2>5
<1>9. CASE TaskDelayElapsed(i)
  BY <1>1, <1>3, <1>9 DEF TaskDelayElapsed, Running, Confined
<1>10. CASE TaskRoutingCancelled(i)
  <2> DEFINE dec == Fail("ExecutionCancelled")
  <2>1. Final(dec)
    BY DEF Fail, NoDecision, Final, Errors, Cancellations
  <2>2. SetTask(i, Settle(task[i], dec))
    BY <1>10 DEF TaskRoutingCancelled
  <2> HIDE DEF dec
  <2>3. QED
    BY <1>3, <2>1, <2>2
<1>11. QED
  BY <1>5, <1>6, <1>7, <1>8, <1>9, <1>10 DEF TaskStep

-----------------------------------------------------------------------------
(***************************************************************************)
(* The invocation before a level runs.                                     *)
(***************************************************************************)
LEMMA EndsInit == Init => Ends
<1> SUFFICES ASSUME Init PROVE Ends
  OBVIOUS
<1>1. /\ plan \in Plans /\ ~ParallelBlocker(plan.workflow)
      /\ levels = <<>> /\ level = 1 /\ pc = "build" /\ cur = 0
      /\ task = [i \in Steps |-> IdleTask] /\ attempts = [i \in Steps |-> 0]
      /\ outputs = {} /\ terminal = "none" /\ cancelled = FALSE /\ outcome = "none"
  BY DEF Init
<1>2. DOMAIN levels = {} /\ Len(levels) = 0
  BY <1>1
<1>3. Levelled = {} /\ Below(level) = {}
  BY <1>2 DEF Levelled, Below
<1>4. Partitioned
  BY <1>1, <1>2, <1>3 DEF Partitioned
<1>5. \A i \in Steps : Fresh(i) /\ Confined(task[i])
  BY <1>1 DEF Fresh, Confined, IdleTask
<1>6. Ledger
  BY <1>1, <1>3, <1>5 DEF Ledger, Replaying
<1>7. Decided /\ Returned
  BY <1>1 DEF Decided, Returned, Replaying, Cancellations, Errors
<1>8. QED
  BY <1>1, <1>4, <1>5, <1>6, <1>7, InvInit DEF Ends

\* No step of a cycle is ready: it reads one that is not levelled.
LEMMA EndsBuild == ASSUME Ends, Inv', BuildLevel PROVE Ends'
<1>1. /\ UNCHANGED <<plan, pc, level, cur, task, attempts, outputs, terminal, cancelled,
                     outcome>>
      /\ pc = "build" /\ outcome = "none" /\ level = 1
  BY BuildFacts DEF Ends, Inv, Typed, Located
<1>2. Steps' = Steps /\ \A i : Deps(i)' = Deps(i)
  BY BuildFacts DEF Ends
<1>3. PICK n \in Nat :
        /\ n = Len(levels) /\ DOMAIN levels = 1 .. n
        /\ Len(levels') = n + 1 /\ DOMAIN levels' = 1 .. n + 1
        /\ \A k \in 1 .. n : levels'[k] = levels[k] /\ Below(k)' = Below(k)
        /\ levels'[n + 1] = Ready /\ Below(n + 1)' = Levelled
  BY BuildFacts DEF Ends
<1>4. Ready \cap Levelled = {} /\ \A i \in Ready : Deps(i) \subseteq Levelled
  BY DEF Ready
<1>5. Levelled' = Levelled \union Ready
  <2>1. \A j : j \in Levelled <=> \E k \in 1 .. n : j \in levels[k]
    BY <1>3 DEF Levelled
  <2>2. \A j : j \in Levelled' <=> \E k \in 1 .. n + 1 : j \in levels'[k]
    BY <1>3 DEF Levelled
  <2>3. \A k : k \in 1 .. n + 1 <=> k \in 1 .. n \/ k = n + 1
    BY <1>3
  <2>4. \A j : (\E k \in 1 .. n + 1 : j \in levels'[k])
                 <=> (\E k \in 1 .. n : j \in levels[k]) \/ j \in Ready
    BY <1>3, <2>3
  <2>5. QED
    BY <2>1, <2>2, <2>4
<1>6. Partitioned'
  <2>1. ASSUME NEW k \in 1 .. n + 1 PROVE levels'[k] \cap Below(k)' = {}
    <3>1. CASE k \in 1 .. n
      BY <1>3, <3>1 DEF Ends, Partitioned
    <3>2. CASE k = n + 1
      BY <1>3, <1>4, <3>2
    <3>3. QED
      BY <1>3, <3>1, <3>2
  <2>2. level' <= Len(levels') + 1
    BY <1>1, <1>3
  <2>3. ASSUME NEW S \in SUBSET Steps, \A i \in S : Deps(i) \cap S # {}
        PROVE  S \cap Levelled' = {}
    BY <1>4, <1>5, <2>3 DEF Ends, Partitioned
  <2>4. QED
    BY <1>1, <1>2, <1>3, <2>1, <2>2, <2>3 DEF Partitioned
<1>7. Below(level) = {} /\ Below(level)' = {}
  BY <1>1, <1>3 DEF Below
<1>8. \A i \in Steps : Fresh(i) /\ Fresh(i)'
  BY <1>1, <1>7 DEF Ends, Ledger, Fresh
<1>9. Ledger'
  BY <1>1, <1>2, <1>7, <1>8 DEF Ledger, Replaying
<1>10. \A i \in Steps' : Confined(task'[i])
  BY <1>1, <1>2 DEF Ends
<1>11. Decided' /\ Returned'
  BY <1>1 DEF Ends, Decided, Returned, Replaying, Cancellations, Errors
<1>12. ~ParallelBlocker(plan.workflow)'
  BY <1>1 DEF Ends, ParallelBlocker
<1>13. QED
  BY <1>6, <1>9, <1>10, <1>11, <1>12 DEF Ends

\* The steps that are left when none is ready read one another.
LEMMA EndsCycle == ASSUME Ends, Inv', FailCycle PROVE Ends'
<1>1. /\ pc = "build" /\ outcome = "none" /\ Levelled # Steps /\ Ready = {}
      /\ outcome' = "DependencyCycle"
      /\ UNCHANGED <<plan, pc, levels, level, cur, task, attempts, outputs, terminal,
                     cancelled>>
  BY DEF FailCycle, At
<1>2. Cyclic
  <2> DEFINE left == Steps \ Levelled
  <2>1. levels \in Seq((SUBSET Steps) \ {{}})
    BY DEF Ends, Inv, Typed, TypeOK
  <2>2. Levelled \subseteq Steps
    BY <2>1 DEF Levelled
  <2>3. left \in (SUBSET Steps) \ {{}}
    BY <1>1, <2>2
  <2>4. \A i \in left : Deps(i) \cap left # {}
    BY <1>1 DEF Ready, Deps
  <2>5. QED
    BY <2>3, <2>4 DEF Cyclic
<1>3. /\ Steps' = Steps /\ Cyclic' = Cyclic /\ Current' = Current /\ Partitioned'
      /\ Below(level)' = Below(level) /\ Below(level + 1)' = Below(level + 1)
      /\ ParallelBlocker(plan.workflow)' = ParallelBlocker(plan.workflow)
  BY <1>1, PlanKept DEF Ends
<1>4. Ledger'
  BY <1>1, <1>3 DEF Ends, Ledger, Fresh, Recorded, Passed, Replaying
<1>5. \A i \in Steps' : Confined(task'[i])
  BY <1>1, <1>3 DEF Ends
<1>6. Decided' /\ Returned'
  BY <1>1, <1>2, <1>3 DEF Ends, Decided, Returned, Replaying, Cancellations, Errors
<1>7. QED
  BY <1>3, <1>4, <1>5, <1>6 DEF Ends

LEMMA EndsStart == ASSUME Ends, Inv', LevelsBuilt \/ StartLevel PROVE Ends'
<1>1. /\ pc \in {"build", "level"} /\ pc' \in {"level", "announce"} /\ outcome = "none"
      /\ pc = "build" => Levelled = Steps
      /\ UNCHANGED <<plan, levels, level, task, attempts, outputs, terminal, cancelled,
                     outcome>>
  BY DEF LevelsBuilt, StartLevel, At
<1>2. /\ Steps' = Steps /\ Current' = Current /\ Partitioned'
      /\ Below(level)' = Below(level) /\ Below(level + 1)' = Below(level + 1)
      /\ ParallelBlocker(plan.workflow)' = ParallelBlocker(plan.workflow)
  BY <1>1, PlanKept DEF Ends, Partitioned
<1>3. Ledger'
  BY <1>1, <1>2 DEF Ends, Ledger, Fresh, Recorded, Passed, Replaying
<1>4. \A i \in Steps' : Confined(task'[i])
  BY <1>1, <1>2 DEF Ends
<1>5. Decided' /\ Returned'
  BY <1>1 DEF Ends, Decided, Returned, Replaying, Cancellations, Errors
<1>6. QED
  BY <1>2, <1>3, <1>4, <1>5 DEF Ends

LEMMA EndsAnnounce == ASSUME Ends, Inv', AnnounceStep PROVE Ends'
<1>1. /\ pc = "announce" /\ outcome = "none" /\ terminal = "none"
      /\ UNCHANGED <<plan, levels, level, attempts, outputs, terminal, cancelled, outcome>>
  BY DEF AnnounceStep, At, Ends, Decided
<1>2. /\ Steps' = Steps /\ Current' = Current /\ Partitioned'
      /\ Below(level)' = Below(level) /\ Below(level + 1)' = Below(level + 1)
      /\ ParallelBlocker(plan.workflow)' = ParallelBlocker(plan.workflow)
  BY <1>1, PlanKept DEF Ends, Partitioned
<1>3. /\ Below(level + 1) = Below(level) \union Current /\ Current \cap Below(level) = {}
      /\ Current \subseteq Steps /\ Below(level) \subseteq Steps
  BY <1>1, AtCurrent, LevelFacts DEF Ends, Below
<1>4. \A i \in Steps \ Below(level) : Fresh(i)
  BY <1>1 DEF Ends, Ledger
<1>5. CASE After # {}
  <2>1. UNCHANGED <<pc, task>>
    BY <1>5 DEF AnnounceStep
  <2>2. Ledger'
    BY <1>1, <1>2, <2>1 DEF Ends, Ledger, Fresh, Recorded, Passed, Replaying
  <2>3. \A i \in Steps' : Confined(task'[i])
    BY <1>2, <2>1 DEF Ends
  <2>4. Decided' /\ Returned'
    BY <1>1, <2>1 DEF Ends, Decided, Returned, Replaying, Cancellations, Errors
  <2>5. QED
    BY <1>2, <2>2, <2>3, <2>4 DEF Ends
<1>6. CASE After = {}
  <2> DEFINE started == [IdleTask EXCEPT !.pc = "request"]
  <2>1. /\ pc' = "join"
        /\ task' = [i \in Steps |-> IF i \in Current THEN started ELSE task[i]]
    BY <1>6 DEF AnnounceStep
  <2>2. started.pc = "request"
    BY DEF IdleTask
  <2> HIDE DEF started
  <2>3. \A i \in Below(level) : (Recorded(i) /\ Passed(i))'
    BY <1>1, <1>3, <2>1 DEF Ends, Ledger, Recorded, Passed
  <2>4. \A i \in Steps \ Below(level + 1) : Fresh(i)'
    BY <1>1, <1>3, <1>4, <2>1 DEF Fresh
  <2>5. \A i \in Current : Started(i)' /\ attempts'[i] = 0
    BY <1>1, <1>3, <1>4, <2>1, <2>2 DEF Started, Fresh
  <2>6. Ledger'
    BY <1>2, <2>1, <2>3, <2>4, <2>5 DEF Ledger, Replaying
  <2>7. \A i \in Steps' : Confined(task'[i])
    BY <1>2, <2>1, <2>2 DEF Ends, Confined
  <2>8. Decided' /\ Returned'
    BY <1>1, <2>1 DEF Ends, Decided, Returned, Replaying, Cancellations, Errors
  <2>9. QED
    BY <1>2, <2>6, <2>7, <2>8 DEF Ends
<1>7. QED
  BY <1>5, <1>6

-----------------------------------------------------------------------------
(***************************************************************************)
(* Joining and replaying a level.                                          *)
(***************************************************************************)
LEMMA FirstOf ==
  ASSUME NEW S \in SUBSET Nat, NEW j \in First(S)
  PROVE  j \in S /\ j \in Nat /\ \A i \in S : j <= i /\ ~(i < j)
<1>1. j \in S /\ j \in Nat /\ \A i \in S : j <= i
  BY DEF First
<1>2. \A i \in S : i \in Nat
  OBVIOUS
<1>3. QED
  BY <1>1, <1>2

\* Nothing of the level lies between a step and the first one after it.
LEMMA NextOf ==
  ASSUME NEW S \in SUBSET Nat, NEW c \in S, NEW n \in First({j \in S : j > c})
  PROVE  n \in S /\ n > c /\ \A i \in S : (i < n <=> i <= c) /\ (i > n => i > c)
<1> DEFINE later == {j \in S : j > c}
<1>1. n \in later /\ \A i \in later : n <= i
  BY DEF First
<1>2. n \in Nat /\ c \in Nat /\ n \in S /\ n > c
  BY <1>1
<1>3. ASSUME NEW i \in S PROVE (i < n <=> i <= c) /\ (i > n => i > c)
  <2>1. i \in Nat /\ (i > c => n <= i)
    BY <1>1
  <2> HIDE DEF later
  <2>2. QED
    BY <1>2, <2>1
<1>4. QED
  BY <1>2, <1>3

LEMMA EndsJoin == ASSUME Ends, Inv', JoinLevel PROVE Ends'
<1>1. /\ pc = "join" /\ outcome = "none" /\ terminal = "none" /\ pc' = "record"
      /\ \A i \in Current : task[i].pc = "finished" /\ attempts[i] = 0
      /\ cur' \in First(Current)
      /\ UNCHANGED <<plan, levels, level, task, attempts, outputs, terminal, cancelled,
                     outcome>>
  BY DEF JoinLevel, At, Ends, Decided, Ledger
<1>2. /\ Steps' = Steps /\ Current' = Current /\ Partitioned'
      /\ Below(level)' = Below(level) /\ Below(level + 1)' = Below(level + 1)
      /\ ParallelBlocker(plan.workflow)' = ParallelBlocker(plan.workflow)
  BY <1>1, PlanKept DEF Ends, Partitioned
<1>3. Current \subseteq Steps /\ Current \subseteq Nat
  BY <1>1, AtCurrent, LevelFacts DEF Ends
<1>4. cur' \in Current /\ \A i \in Current : ~(i < cur')
  BY <1>1, <1>3, FirstOf
<1>5. attempts[cur'] <= task[cur'].retries
  <2>1. task[cur'].retries \in Nat /\ attempts[cur'] = 0
    BY <1>1, <1>3, <1>4, Counters DEF Ends
  <2>2. QED
    BY <2>1
<1>6. Ledger'
  BY <1>1, <1>2, <1>4, <1>5 DEF Ends, Ledger, Fresh, Recorded, Passed, Replaying
<1>7. \A i \in Steps' : Confined(task'[i])
  BY <1>1, <1>2 DEF Ends
<1>8. Decided'
  BY <1>1, <1>2, <1>4 DEF Decided, Replayed, Replaying
<1>9. Returned'
  BY <1>1 DEF Ends, Returned, Cancellations, Errors
<1>10. QED
  BY <1>2, <1>6, <1>7, <1>8, <1>9 DEF Ends

LEMMA EndsRetried ==
  ASSUME Ends, Inv', RecordRetried \/ EmitRetryScheduled \/ Reannounce PROVE Ends'
<1>1. /\ Replaying /\ Replaying' /\ outcome = "none"
      /\ UNCHANGED <<plan, levels, level, cur, task, outputs, terminal, cancelled, outcome>>
  BY DEF RecordRetried, EmitRetryScheduled, Reannounce, At, Replaying
<1>2. /\ Steps' = Steps /\ Current' = Current /\ Partitioned'
      /\ Below(level)' = Below(level) /\ Below(level + 1)' = Below(level + 1)
      /\ ParallelBlocker(plan.workflow)' = ParallelBlocker(plan.workflow)
  BY <1>1, PlanKept DEF Ends, Partitioned, Replaying
<1>3. /\ cur \in Current /\ Current \subseteq Steps /\ Current \subseteq Nat
      /\ Current \cap Below(level) = {} /\ Below(level) \subseteq Steps
      /\ Below(level + 1) = Below(level) \union Current
  BY <1>1, AtCurrent, LevelFacts DEF Ends, Below
<1>4. attempts[cur] \in Nat /\ task[cur].retries \in Nat /\ attempts \in [Steps -> Nat]
  BY <1>3, Counters DEF Ends
<1>5. /\ attempts'[cur] <= task[cur].retries
      /\ pc' \in {"retry", "reannounce"} => attempts'[cur] > 0
      /\ \A i \in Steps : i # cur => attempts'[i] = attempts[i]
  <2>1. CASE RecordRetried
    <3>1. attempts'[cur] = attempts[cur] + 1 /\ attempts[cur] < task[cur].retries
      BY <1>3, <1>4, <2>1 DEF RecordRetried, Number, Retried
    <3>2. \A i \in Steps : i # cur => attempts'[i] = attempts[i]
      BY <1>3, <1>4, <2>1 DEF RecordRetried, Number
    <3>3. QED
      BY <1>4, <3>1, <3>2
  <2>2. CASE EmitRetryScheduled \/ Reannounce
    BY <1>1, <2>2 DEF EmitRetryScheduled, Reannounce, At, Ends, Ledger
  <2>3. QED
    BY <2>1, <2>2
<1>6. \A i \in Below(level) : (Recorded(i) /\ Passed(i))'
  BY <1>1, <1>3, <1>5 DEF Ends, Ledger, Recorded, Passed
<1>7. \A i \in Steps \ Below(level + 1) : Fresh(i)'
  BY <1>1, <1>3, <1>5 DEF Ends, Ledger, Fresh
<1>8. \A i \in Current : /\ task'[i].pc = "finished"
                         /\ i < cur' => Recorded(i)'
                         /\ i > cur' => attempts'[i] = 0
  <2>1. \A i \in Current : i < cur \/ i > cur => i # cur
    BY <1>3
  <2>2. QED
    BY <1>1, <1>3, <1>5, <2>1 DEF Ends, Ledger, Recorded
<1>9. Ledger'
  BY <1>1, <1>2, <1>5, <1>6, <1>7, <1>8 DEF Ledger, Replaying
<1>10. \A i \in Steps' : Confined(task'[i])
  BY <1>1, <1>2 DEF Ends
<1>11. Decided'
  BY <1>1, <1>2 DEF Ends, Decided, Replayed, EndedBy, Passed, Replaying
<1>12. Returned'
  BY <1>1 DEF Ends, Returned, Cancellations, Errors, Replaying
<1>13. QED
  BY <1>2, <1>9, <1>10, <1>11, <1>12 DEF Ends

\* The last attempt of a step is recorded, and the step passes or, when none
\* before it did, ends the workflow.
LEMMA EndsRecordLast == ASSUME Ends, Inv', RecordLast PROVE Ends'
<1>1. /\ pc = "record" /\ Replaying /\ outcome = "none"
      /\ Number(cur) /\ ~Retried(cur) /\ Conclude(task[cur].decision)
      /\ UNCHANGED <<plan, levels, level, task, cancelled, outcome>>
      /\ IF After # {} THEN cur' \in First(After) /\ UNCHANGED pc ELSE cur' = 0 /\ pc' = "settle"
  BY DEF RecordLast, At, Replaying
<1>2. /\ Steps' = Steps /\ Current' = Current /\ Partitioned'
      /\ Below(level)' = Below(level) /\ Below(level + 1)' = Below(level + 1)
      /\ ParallelBlocker(plan.workflow)' = ParallelBlocker(plan.workflow)
  BY <1>1, PlanKept DEF Ends, Partitioned
<1>3. /\ cur \in Current /\ Current \subseteq Steps /\ Current \subseteq Nat
      /\ Current \cap Below(level) = {} /\ Below(level) \subseteq Steps
      /\ Below(level + 1) = Below(level) \union Current
  BY <1>1, AtCurrent, LevelFacts DEF Ends, Below
<1>4. attempts[cur] \in Nat /\ task[cur].retries \in Nat /\ attempts \in [Steps -> Nat]
  BY <1>3, Counters DEF Ends
<1>5. task[cur].pc = "finished" /\ Final(task[cur].decision)
  BY <1>1, <1>3 DEF Ends, Ledger, Confined
<1>6. /\ attempts'[cur] = task[cur].retries + 1
      /\ \A i \in Steps : i # cur => attempts'[i] = attempts[i]
  <2>1. attempts[cur] = task[cur].retries
    BY <1>1, <1>4 DEF Ends, Ledger, Retried
  <2>2. QED
    BY <1>1, <1>3, <1>4, <2>1 DEF Number
<1>7. \A i \in Current : i <= cur => Recorded(i)'
  <2>1. \A i \in Current : i < cur => Recorded(i)
    BY <1>1 DEF Ends, Ledger
  <2>2. \A i \in Current : i <= cur => i = cur \/ (i < cur /\ i # cur)
    BY <1>3
  <2>3. QED
    BY <1>1, <1>3, <1>5, <1>6, <2>1, <2>2 DEF Recorded
<1>8. \A i \in Current : i > cur => task[i].pc = "finished" /\ attempts'[i] = 0
  <2>1. \A i \in Current : i > cur => i # cur
    BY <1>3
  <2>2. QED
    BY <1>1, <1>3, <1>6, <2>1 DEF Ends, Ledger
<1>9. \A i \in Current : task'[i].pc = "finished"
  BY <1>1 DEF Ends, Ledger
<1>10. \A i \in Below(level) : (Recorded(i) /\ Passed(i))'
  BY <1>1, <1>3, <1>6 DEF Ends, Ledger, Recorded, Passed
<1>11. \A i \in Steps \ Below(level + 1) : Fresh(i)'
  BY <1>1, <1>3, <1>6 DEF Ends, Ledger, Fresh
\* The steps replayed are now those up to cur.
<1>12. Replayed' = {i \in Current : i <= cur}
  <2>1. CASE After # {}
    <3>1. cur' \in Current /\ \A i \in Current : i < cur' <=> i <= cur
      BY <1>1, <1>3, <2>1, NextOf DEF After
    <3>2. QED
      BY <1>1, <1>2, <2>1, <3>1 DEF Replayed
  <2>2. CASE After = {}
    <3>1. \A i \in Current : i <= cur
      BY <1>3, <2>2 DEF After
    <3>2. QED
      BY <1>1, <1>2, <2>2, <3>1 DEF Replayed
  <2>3. QED
    BY <2>1, <2>2
<1>13. Ledger'
  <2>1. CASE After # {}
    <3>1. cur' \in Current /\ cur' > cur /\ pc' = "record"
      BY <1>1, <1>3, <2>1, NextOf DEF After
    <3>2. \A i \in Current : (i < cur' => i <= cur) /\ (i > cur' => i > cur)
      BY <1>1, <1>3, <2>1, NextOf DEF After
    <3>3. attempts'[cur'] <= task[cur'].retries
      <4>1. attempts'[cur'] = 0 /\ task[cur'].retries \in Nat
        BY <1>3, <1>8, <3>1, Counters DEF Ends
      <4>2. QED
        BY <4>1
    <3>4. QED
      BY <1>1, <1>2, <1>7, <1>8, <1>9, <1>10, <1>11, <3>1, <3>2, <3>3 DEF Ledger, Replaying
  <2>2. CASE After = {}
    <3>1. \A i \in Current : i <= cur
      BY <1>3, <2>2 DEF After
    <3>2. pc' = "settle"
      BY <1>1, <2>2
    <3>3. QED
      BY <1>1, <1>2, <1>7, <1>10, <1>11, <3>1, <3>2 DEF Ledger, Replaying
  <2>3. QED
    BY <2>1, <2>2
<1>14. \A i \in Steps' : Confined(task'[i])
  BY <1>1, <1>2 DEF Ends
<1>15. Decided'
  <2>1. /\ \A i \in Current : i <= cur => i < cur \/ i = cur
        /\ \A i \in Current : i < cur => i <= cur
        /\ cur <= cur
    BY <1>3
  <2>2. Replayed = {i \in Current : i < cur}
    BY <1>1 DEF Replayed
  <2>3. Replaying' \/ pc' = "settle"
    BY <1>1 DEF Replaying
  <2>4. pc' \notin {"build", "level", "announce", "join"}
    BY <1>1
  <2>5. CASE terminal # "none"
    <3>1. terminal' = terminal /\ terminal \in Errors
      BY <1>1, <2>5 DEF Conclude, Ends, Decided
    <3>2. PICK f \in Replayed : EndedBy(f)
      BY <1>1, <2>5 DEF Ends, Decided
    <3>3. f \in Replayed' /\ f < cur /\ f \in Current
      BY <1>12, <2>1, <2>2, <3>2
    <3>4. \A i \in Replayed' : i < f => i \in Replayed
      BY <1>3, <1>12, <2>2, <3>3
    <3>5. EndedBy(f)'
      BY <1>1, <3>1, <3>2, <3>4 DEF EndedBy, Passed
    <3>6. QED
      BY <2>4, <2>5, <3>1, <3>3, <3>5 DEF Decided
  <2>6. CASE terminal = "none" /\ Passed(cur)
    <3>1. terminal' = "none"
      BY <1>1, <2>6 DEF Conclude, Ending, Passed
    <3>2. \A i \in Replayed : Passed(i)
      BY <1>1, <2>6 DEF Ends, Decided
    <3>3. \A i \in Replayed' : Passed(i)'
      BY <1>1, <1>12, <2>1, <2>2, <2>6, <3>2 DEF Passed
    <3>4. QED
      BY <2>4, <3>1, <3>3 DEF Decided
  <2>7. CASE terminal = "none" /\ ~Passed(cur)
    <3>1. task[cur].decision.kind = "error" /\ task[cur].decision.error \in Errors
      BY <1>5, <2>7 DEF Final, Passed
    <3>2. terminal' = task[cur].decision.error
      BY <1>1, <2>7, <3>1 DEF Conclude, Ending
    <3>3. "none" \notin Errors
      BY DEF Errors, Cancellations
    <3>4. \A i \in Replayed : Passed(i)
      BY <1>1, <2>7 DEF Ends, Decided
    <3>5. cur \in Replayed' /\ \A i \in Replayed' : i < cur => i \in Replayed
      BY <1>3, <1>12, <2>1, <2>2
    <3>6. PICK c \in Current : c = cur
      BY <1>3
    <3>7. EndedBy(c)'
      <4>1. /\ task'[c].decision.kind = "error" /\ task'[c].decision.error = terminal'
            /\ \A i \in Replayed' : i < c => Passed(i)'
        BY <1>1, <3>1, <3>2, <3>4, <3>5, <3>6 DEF Passed
      <4>2. QED
        BY <4>1 DEF EndedBy
    <3>8. QED
      BY <2>4, <3>1, <3>2, <3>3, <3>5, <3>6, <3>7 DEF Decided
  <2>8. QED
    BY <2>5, <2>6, <2>7
<1>16. Returned'
  BY <1>1 DEF Ends, Returned, Cancellations, Errors
<1>17. QED
  BY <1>2, <1>13, <1>14, <1>15, <1>16 DEF Ends

-----------------------------------------------------------------------------
(***************************************************************************)
(* After a level.                                                          *)
(***************************************************************************)
LEMMA EndsNextLevel == ASSUME Ends, Inv', NextLevel PROVE Ends'
<1>1. /\ pc = "settle" /\ terminal = "none" /\ outcome = "none"
      /\ pc' = "level" /\ level' = level + 1
      /\ UNCHANGED <<plan, levels, cur, task, attempts, outputs, terminal, cancelled,
                     outcome>>
  BY DEF NextLevel, At
<1>2. /\ Steps' = Steps /\ (\A i : Deps(i)' = Deps(i)) /\ (\A k : Below(k)' = Below(k))
      /\ Levelled' = Levelled
      /\ ParallelBlocker(plan.workflow)' = ParallelBlocker(plan.workflow)
  BY <1>1, LevelsKept DEF Levelled, ParallelBlocker
<1>3. Below(level)' = Below(level + 1)
  BY <1>1, <1>2 DEF Below
<1>4. /\ Below(level + 1) = Below(level) \union Current
      /\ level \in DOMAIN levels /\ level \in Nat
  BY <1>1, AtCurrent, LevelFacts DEF Ends, Inv, Typed, TypeOK
<1>5. Partitioned'
  <2>1. Len(levels) \in Nat /\ level <= Len(levels)
    BY <1>4 DEF Ends, Inv, Typed, TypeOK
  <2>2. level' <= Len(levels') + 1
    BY <1>1, <1>4, <2>1
  <2>3. QED
    BY <1>1, <1>2, <2>2 DEF Ends, Partitioned
<1>6. Ledger'
  <2>1. Replayed = Current
    BY <1>1 DEF Replayed
  <2>2. \A i \in Current : Recorded(i) /\ Passed(i)
    BY <1>1, <2>1 DEF Ends, Ledger, Decided
  <2>3. \A i \in Below(level + 1) : (Recorded(i) /\ Passed(i))'
    BY <1>1, <1>4, <2>2 DEF Ends, Ledger, Recorded, Passed
  <2>4. \A i \in Steps \ Below(level + 1) : Fresh(i)'
    BY <1>1 DEF Ends, Ledger, Fresh
  <2>5. Below(level + 1) \subseteq Below(level + 1)'
    <3>1. \A m \in DOMAIN levels : m < level + 1 => m < level + 1 + 1
      BY <1>4 DEF Ends, Inv, Typed, TypeOK
    <3>2. QED
      BY <1>1, <1>2, <3>1 DEF Below
  <2>6. QED
    BY <1>1, <1>2, <1>3, <2>3, <2>4, <2>5 DEF Ledger, Replaying
<1>7. \A i \in Steps' : Confined(task'[i])
  BY <1>1, <1>2 DEF Ends
<1>8. Decided' /\ Returned'
  BY <1>1 DEF Ends, Decided, Returned, Replaying, Cancellations, Errors
<1>9. QED
  BY <1>2, <1>5, <1>6, <1>7, <1>8 DEF Ends

LEMMA EndsReturn ==
  ASSUME Ends, Inv', JoinPanicked \/ ReturnTerminal \/ ReturnOutputs \/ ReturnCancelled
                       \/ Cancel \/ UNCHANGED vars
  PROVE  Ends'
<1>1. UNCHANGED <<plan, pc, levels, level, cur, task, attempts, outputs, terminal>>
  BY DEF JoinPanicked, ReturnTerminal, ReturnOutputs, ReturnCancelled, Return, Cancel, vars
<1>2. /\ Steps' = Steps /\ Current' = Current /\ Cyclic' = Cyclic /\ Partitioned'
      /\ Below(level)' = Below(level) /\ Below(level + 1)' = Below(level + 1)
      /\ ParallelBlocker(plan.workflow)' = ParallelBlocker(plan.workflow)
  BY <1>1, PlanKept DEF Ends
<1>3. Ledger'
  BY <1>1, <1>2 DEF Ends, Ledger, Fresh, Recorded, Passed, Started, Replaying
<1>4. \A i \in Steps' : Confined(task'[i])
  BY <1>1, <1>2 DEF Ends
<1>5. Decided'
  BY <1>1, <1>2 DEF Ends, Decided, Replayed, EndedBy, Passed, Replaying
<1>6. Returned'
  <2>1. CASE UNCHANGED outcome
    BY <1>1, <1>2, <2>1 DEF Ends, Returned
  <2>2. CASE JoinPanicked
    BY <1>1, <2>2 DEF JoinPanicked, At, Returned, Cancellations, Errors
  <2>3. CASE ReturnTerminal
    <3>1. pc = "settle" /\ terminal # "none" /\ outcome' = terminal
      BY <2>3 DEF ReturnTerminal, At, Return
    <3>2. terminal \in Errors
      BY <3>1 DEF Ends, Decided
    <3>3. QED
      BY <1>1, <3>1, <3>2 DEF Returned, Errors, Cancellations
  <2>4. CASE ReturnOutputs
    BY <1>1, <2>4 DEF ReturnOutputs, At, Return, Returned, Errors, Cancellations
  <2>5. CASE ReturnCancelled
    BY <1>1, <2>5 DEF ReturnCancelled, At, Return, Returned, Errors, Cancellations
  <2>6. CASE Cancel \/ UNCHANGED vars
    BY <2>1, <2>6 DEF Cancel, vars
  <2>7. QED
    BY <2>2, <2>3, <2>4, <2>5, <2>6
<1>7. QED
  BY <1>2, <1>3, <1>4, <1>5, <1>6 DEF Ends

LEMMA EndsNext == ASSUME Ends, [Next]_vars PROVE Ends'
<1>1. Inv'
  BY InvNext DEF Ends
<1>2. CASE InvocationStep
  BY <1>1, <1>2, EndsBuild, EndsCycle, EndsStart, EndsAnnounce, EndsJoin, EndsRetried,
     EndsRecordLast, EndsNextLevel, EndsReturn DEF InvocationStep
<1>3. CASE Cancel \/ UNCHANGED vars
  BY <1>1, <1>3, EndsReturn
<1>4. CASE \E i \in Steps : TaskStep(i) \/ TaskReplied(i) \/ TaskPanicked(i)
  BY <1>1, <1>4, EndsTask
<1>5. QED
  BY <1>2, <1>3, <1>4 DEF Next

LEMMA EndsHolds == Spec => []Ends
<1>1. Ends /\ [Next]_vars => Ends'
  BY EndsNext
<1>2. QED
  BY <1>1, EndsInit, PTL DEF Spec

-----------------------------------------------------------------------------
(***************************************************************************)
(* What the invariant says of an outcome.                                  *)
(***************************************************************************)
LEMMA CyclesRefused == ASSUME Ends PROVE CycleBeforeRequests
<1>1. ASSUME Cyclic
      PROVE  outcome \in {"none", "DependencyCycle"} /\ \A i \in Steps : ~Started(i)
  <2>1. PICK S \in (SUBSET Steps) \ {{}} : \A i \in S : Deps(i) \cap S # {}
    BY <1>1 DEF Cyclic
  <2>2. S \cap Levelled = {} /\ S \subseteq Steps /\ S # {}
    BY <2>1 DEF Ends, Partitioned
  <2>3. pc = "build"
    BY <2>2 DEF Ends, Partitioned
  <2>4. QED
    BY <2>3 DEF Ends, Returned, Inv, Typed, Located
<1>2. outcome = "DependencyCycle" => Cyclic
  BY DEF Ends, Returned
<1>3. QED
  BY <1>1, <1>2 DEF CycleBeforeRequests

LEMMA AttemptsRecorded == ASSUME Ends PROVE EveryAttemptRecorded
<1> SUFFICES ASSUME outcome \notin {"none", "ParallelThreadPanic"}, NEW i \in Steps, Started(i)
             PROVE  attempts[i] = task[i].retries + 1
  BY DEF EveryAttemptRecorded, Started
<1>1. IdleTask.pc = "idle"
  BY DEF IdleTask
<1>2. ~Fresh(i)
  BY <1>1 DEF Fresh, Started
<1>3. outcome \in {"DependencyCycle", "ok"} \union Errors
  BY DEF Ends, Inv, Typed, TypeOK, Returned, Outcomes, Results
<1>4. pc \in {"level", "settle"}
  <2>1. pc # "build"
    BY <1>2 DEF Ends, Inv, Typed, Located, Started
  <2>2. QED
    BY <1>3, <2>1 DEF Ends, Returned
<1>5. CASE pc = "level"
  BY <1>2, <1>5 DEF Ends, Ledger, Recorded
<1>6. CASE pc = "settle"
  <2>1. i \in Below(level + 1) /\ level \in DOMAIN levels
    BY <1>2, <1>6, AtCurrent DEF Ends, Ledger
  <2>2. i \in Below(level) \union Current
    BY <2>1, LevelFacts DEF Ends
  <2>3. QED
    BY <1>6, <2>2 DEF Ends, Ledger, Recorded
<1>7. QED
  BY <1>4, <1>5, <1>6

LEMMA FirstFails == ASSUME Ends PROVE FirstFailureDecides
<1>1. IdleTask.pc = "idle"
  BY DEF IdleTask
<1>2. \A i \in Below(level) : i \notin Failing
  BY DEF Ends, Ledger, Passed, Failing
<1>3. \A i \in Steps : Fresh(i) => i \notin Failing
  BY <1>1 DEF Fresh, Failing
<1>4. ASSUME outcome \in Errors \ Cancellations, NEW j \in First(Failing)
      PROVE  task[j].decision.error = outcome
  <2>1. pc = "settle" /\ outcome = terminal
    BY <1>4 DEF Ends, Returned
  <2>2. terminal # "none" /\ Replayed = Current
    BY <1>4, <2>1 DEF Errors, Cancellations, Replayed
  <2>3. PICK f \in Current : EndedBy(f)
    BY <2>1, <2>2 DEF Ends, Decided
  <2>4. level \in DOMAIN levels /\ Current \subseteq Steps /\ Current \subseteq Nat
        /\ Below(level + 1) = Below(level) \union Current
    BY <2>1, AtCurrent, LevelFacts DEF Ends
  <2>5. f \in Failing
    BY <2>1, <2>3, <2>4 DEF Failing, EndedBy, Ends, Ledger, Recorded
  <2>6. Failing \subseteq Current
    <3>1. Failing \subseteq Steps
      BY DEF Failing
    <3>2. \A i \in Steps \ Below(level + 1) : Fresh(i)
      BY DEF Ends, Ledger
    <3>3. QED
      BY <1>2, <1>3, <2>4, <3>1, <3>2
  <2>7. j \in Failing /\ j \in Current /\ j <= f
    BY <2>5, <2>6 DEF First
  <2>8. task[j].decision.kind # "next"
    BY <2>7 DEF Failing
  <2>9. ~(j < f)
    BY <2>2, <2>3, <2>7, <2>8 DEF EndedBy, Passed
  <2>10. j = f
    BY <2>4, <2>7, <2>9
  <2>11. QED
    BY <2>1, <2>3, <2>10 DEF EndedBy
<1>5. ASSUME outcome = "ok" PROVE Failing = {} /\ outputs = Steps
  <2>1. pc = "level" /\ level \notin DOMAIN levels /\ Levelled = Steps
    BY <1>5 DEF Ends, Returned, Partitioned
  <2>2. Below(level) = Steps
    <3>1. /\ Len(levels) \in Nat /\ DOMAIN levels = 1 .. Len(levels) /\ level \in Nat \ {0}
          /\ level <= Len(levels) + 1
      BY DEF Ends, Inv, Typed, TypeOK, Partitioned
    <3>2. level = Len(levels) + 1
      BY <2>1, <3>1
    <3>3. \A m \in DOMAIN levels : m < level
      BY <3>1, <3>2
    <3>4. \A j \in Steps : \E m \in DOMAIN levels : j \in levels[m]
      BY <2>1 DEF Levelled
    <3>5. QED
      BY <3>3, <3>4 DEF Below
  <2>3. Failing = {}
    BY <1>2, <2>2 DEF Failing
  <2>4. outputs = Steps
    BY <2>2 DEF Ends, Inv, Published, Typed, TypeOK
  <2>5. QED
    BY <2>3, <2>4
<1>6. QED
  BY <1>4, <1>5 DEF FirstFailureDecides

\* An invocation ends as its levels went, for every workflow: refused for a
\* cycle and for nothing else, recorded to the last attempt, and decided by the
\* first step that fails, however the tasks interleaved (execute_parallel,
\* replay_parallel_step).
THEOREM LevelsDecide == Spec => []OutcomeIsTheLevels
<1>1. Ends => OutcomeIsTheLevels
  <2> SUFFICES ASSUME Ends PROVE OutcomeIsTheLevels
    OBVIOUS
  <2>1. NeverUnsupported
    BY DEF Ends, Returned, NeverUnsupported
  <2>2. QED
    BY <2>1, CyclesRefused, AttemptsRecorded, FirstFails DEF OutcomeIsTheLevels
<1>2. QED
  BY <1>1, EndsHolds, PTL

-----------------------------------------------------------------------------
(***************************************************************************)
(* Cancellation.                                                           *)
(***************************************************************************)
LEMMA CancelledTask ==
  ASSUME Ends, cancelled, NEW i \in Steps, TaskStep(i) \/ TaskReplied(i) \/ TaskPanicked(i)
  PROVE  outcome' = outcome /\ \A j \in Steps : task'[j].retries = task[j].retries
<1>1. task \in [Steps -> Task]
  BY DEF Ends, Inv, Typed, TypeOK
<1>2. ASSUME NEW t, t.retries = task[i].retries, SetTask(i, t)
      PROVE  outcome' = outcome /\ \A j \in Steps : task'[j].retries = task[j].retries
  BY <1>1, <1>2 DEF SetTask
<1>3. CASE TaskRequestCancelled(i)
  <2>1. SetTask(i, [task[i] EXCEPT !.pc = "settled", !.result = "ExecutionCancelled"])
    BY <1>3 DEF TaskRequestCancelled
  <2>2. [task[i] EXCEPT !.pc = "settled", !.result = "ExecutionCancelled"].retries
          = task[i].retries
    BY <1>1 DEF Task
  <2>3. QED
    BY <1>2, <2>1, <2>2
<1>4. CASE TaskRoutingCancelled(i)
  <2> DEFINE t == Settle(task[i], Fail("ExecutionCancelled"))
  <2>1. Fail("ExecutionCancelled").kind = "error"
    BY DEF Fail, NoDecision
  <2>2. t = [task[i] EXCEPT !.pc = "finished", !.decision = Fail("ExecutionCancelled")]
    BY <2>1 DEF Settle
  <2>3. t.retries = task[i].retries
    BY <1>1, <2>2, ZenonT(40) DEF Task
  <2>4. SetTask(i, t)
    BY <1>4 DEF TaskRoutingCancelled
  <2> HIDE DEF t
  <2>5. QED
    BY <1>2, <2>3, <2>4
<1>5. CASE TaskPanicked(i)
  <2>1. SetTask(i, [task[i] EXCEPT !.pc = "panicked"])
    BY <1>5 DEF TaskPanicked
  <2>2. [task[i] EXCEPT !.pc = "panicked"].retries = task[i].retries
    BY <1>1 DEF Task
  <2>3. QED
    BY <1>2, <2>1, <2>2
<1>6. QED
  BY <1>3, <1>4, <1>5 DEF TaskStep, TaskReplied, TaskRouted, TaskDelayElapsed

LEMMA CancelledInvocation ==
  ASSUME Ends, cancelled, InvocationStep
  PROVE  /\ \A j \in Steps : task'[j].retries = task[j].retries
         /\ outcome' \in {outcome, "ExecutionCancelled", "DependencyCycle",
                          "ParallelThreadPanic"}
<1>1. CASE AnnounceStep
  <2>1. pc = "announce" /\ outcome' = outcome
    BY <1>1 DEF AnnounceStep, At
  <2>2. \A j \in Current : j \in Steps /\ Fresh(j)
    BY <2>1, AtCurrent, LevelFacts DEF Ends, Ledger
  <2>3. IdleTask.retries = 0 /\ [IdleTask EXCEPT !.pc = "request"].retries = 0
    BY DEF IdleTask
  <2>4. CASE task' = task
    BY <2>1, <2>4
  <2>5. CASE task' = [i \in Steps |-> IF i \in Current THEN [IdleTask EXCEPT !.pc = "request"]
                                                     ELSE task[i]]
    BY <2>1, <2>2, <2>3, <2>5 DEF Fresh
  <2>6. QED
    BY <1>1, <2>4, <2>5 DEF AnnounceStep
<1>2. CASE ~AnnounceStep
  BY <1>2 DEF InvocationStep, BuildLevel, FailCycle, LevelsBuilt, StartLevel, JoinPanicked,
              JoinLevel, RecordRetried, EmitRetryScheduled, Reannounce, RecordLast, NextLevel,
              ReturnTerminal, ReturnOutputs, ReturnCancelled, Return
<1>3. QED
  BY <1>1, <1>2

\* Once the token has fired no task of any level retries, and the invocation
\* returns a cancellation, unless it finds a cycle or a panic before it looks.
THEOREM CancelPrevailsInLevels == Spec => CancelOverrides
<1>1. ASSUME Ends, [Next]_vars
      PROVE  [cancelled =>
               /\ \A i \in Steps : task'[i].retries = task[i].retries
               /\ outcome' \in {outcome, "ExecutionCancelled", "DependencyCycle",
                                "ParallelThreadPanic"}]_vars
  <2>1. CASE Cancel
    BY <2>1 DEF Cancel
  <2>2. QED
    BY <1>1, <2>1, CancelledTask, CancelledInvocation DEF Next
<1>2. QED
  BY <1>1, EndsHolds, PTL DEF Spec, CancelOverrides

-----------------------------------------------------------------------------
(***************************************************************************)
(* The stream.  What it shows of a step follows from the step's level and  *)
(* from where the invocation is in the level at hand.                      *)
(***************************************************************************)
\* Of a step of the level at hand.
Within(i) ==
  CASE pc \in {"build", "level"} -> "new"
    [] pc = "announce"           -> IF i < cur THEN "announced" ELSE "new"
    [] pc = "join"               -> "announced"
    [] pc = "settle"             -> "completed"
    [] Replaying                 ->
         IF i < cur THEN "completed"
         ELSE IF i > cur \/ pc = "record" THEN "announced"
         ELSE IF pc = "retry" THEN "completed" ELSE "scheduled"

Shown(i) ==
  IF i \in Below(level) THEN "completed"
  ELSE IF i \in Below(level + 1) THEN Within(i) ELSE "new"

StagesAreShown == \A i \in Steps : Stage(i) = Shown(i)

\* The invocation's place is one of these.
Places == {"build", "level", "announce", "join", "settle"}

LEMMA PlaceIs == ASSUME Ends PROVE pc \in Places \/ Replaying
BY DEF Ends, Inv, Typed, TypeOK, Places, Replaying

LEMMA RecordedCounts ==
  ASSUME Ends, NEW i \in Steps, Recorded(i)
  PROVE  attempts[i] > 0 /\ Started(i)
<1>1. attempts[i] \in Nat /\ task[i].retries \in Nat
  BY Counters DEF Ends
<1>2. QED
  BY <1>1 DEF Recorded, Started

LEMMA FreshShown ==
  ASSUME NEW i \in Steps, Fresh(i)
  PROVE  attempts[i] = 0 /\ ~Started(i)
BY DEF Fresh, Started, IdleTask

LEMMA StageShown == Ends => StagesAreShown
<1> SUFFICES ASSUME Ends, NEW i \in Steps PROVE Stage(i) = Shown(i)
  BY DEF StagesAreShown
<1>1. attempts[i] \in Nat
  BY Counters DEF Ends
<1>2. CASE i \in Below(level)
  <2>1. attempts[i] > 0
    BY <1>2, RecordedCounts DEF Ends, Ledger
  <2>2. ~(Replaying /\ i = cur)
    <3> SUFFICES ASSUME Replaying PROVE i # cur
      OBVIOUS
    <3>1. cur \in Current /\ Current \cap Below(level) = {}
      BY AtCurrent, LevelFacts DEF Ends
    <3>2. QED
      BY <1>2, <3>1
  <2>3. QED
    BY <1>2, <2>1, <2>2 DEF Stage, Shown
<1>3. CASE i \notin Below(level + 1) /\ i \notin Below(level)
  <2>1. attempts[i] = 0 /\ ~Started(i)
    BY <1>3, FreshShown DEF Ends, Ledger
  <2>2. ~(pc = "announce" /\ i \in Current)
    <3> SUFFICES ASSUME pc = "announce" PROVE i \notin Current
      OBVIOUS
    <3>1. QED
      BY <1>3, AtCurrent, LevelFacts DEF Ends
  <2>3. QED
    BY <1>3, <2>1, <2>2 DEF Stage, Shown
<1>4. CASE i \in Below(level + 1) /\ i \notin Below(level)
  <2>1. Shown(i) = Within(i)
    BY <1>4 DEF Shown
  <2>2. CASE pc \in {"build", "level"}
    <3>1. attempts[i] = 0 /\ ~Started(i)
      BY <1>4, <2>2, FreshShown DEF Ends, Ledger
    <3>2. QED
      BY <2>1, <2>2, <3>1 DEF Stage, Within, Replaying
  <2>3. CASE pc = "announce"
    <3>1. attempts[i] = 0 /\ ~Started(i)
      BY <1>4, <2>3, FreshShown DEF Ends, Ledger
    <3>2. i \in Current
      BY <1>4, <2>3, AtCurrent, LevelFacts DEF Ends
    <3>3. QED
      BY <2>1, <2>3, <3>1, <3>2 DEF Stage, Within, Replaying
  <2>4. CASE pc = "join"
    <3>1. i \in Current
      BY <1>4, <2>4, AtCurrent, LevelFacts DEF Ends
    <3>2. attempts[i] = 0 /\ Started(i)
      BY <2>4, <3>1 DEF Ends, Ledger
    <3>3. QED
      BY <2>1, <2>4, <3>2 DEF Stage, Within, Replaying
  <2>5. CASE pc = "settle"
    <3>1. i \in Current
      BY <1>4, <2>5, AtCurrent, LevelFacts DEF Ends
    <3>2. attempts[i] > 0
      BY <2>5, <3>1, RecordedCounts DEF Ends, Ledger
    <3>3. QED
      BY <2>1, <2>5, <3>2 DEF Stage, Within, Replaying
  <2>6. CASE Replaying
    <3>1. i \in Current /\ cur \in Current /\ i \in Nat /\ cur \in Nat
      BY <1>4, <2>6, AtCurrent, LevelFacts DEF Ends
    <3>2. Started(i) /\ pc \in {"record", "retry", "reannounce"}
      BY <2>6, <3>1 DEF Ends, Ledger, Started, Replaying
    <3>3. CASE i < cur
      <4>1. attempts[i] > 0 /\ i # cur
        BY <2>6, <3>1, <3>3, RecordedCounts DEF Ends, Ledger
      <4>2. QED
        BY <2>1, <2>6, <3>2, <3>3, <4>1 DEF Stage, Within
    <3>4. CASE i > cur
      <4>1. attempts[i] = 0 /\ i # cur /\ ~(i < cur)
        BY <2>6, <3>1, <3>4 DEF Ends, Ledger
      <4>2. QED
        BY <2>1, <2>6, <3>2, <3>4, <4>1 DEF Stage, Within
    <3>5. CASE i = cur
      <4>1. ~(i < cur) /\ ~(i > cur) /\ (pc # "record" => attempts[i] > 0)
        BY <3>1, <3>2, <3>5 DEF Ends, Ledger
      <4>2. CASE attempts[i] > 0
        BY <2>1, <2>6, <3>2, <3>5, <4>1, <4>2 DEF Stage, Within
      <4>3. CASE attempts[i] = 0
        BY <2>1, <2>6, <3>2, <3>5, <4>1, <4>3 DEF Stage, Within
      <4>4. QED
        BY <1>1, <4>2, <4>3
    <3>6. QED
      BY <3>1, <3>3, <3>4, <3>5
  <2>7. QED
    BY <2>2, <2>3, <2>4, <2>5, <2>6, PlaceIs DEF Places
<1>5. QED
  BY <1>2, <1>3, <1>4

-----------------------------------------------------------------------------
\* The abstract variables.
streamStage == [i \in 1 .. MaxSteps |-> IF i \in Steps THEN Stage(i) ELSE "new"]
streamNumber == [i \in 1 .. MaxSteps |-> IF i \in Steps THEN attempts[i] ELSE 0]

LEMMA StepsBounded == ASSUME Ends PROVE Steps \subseteq 1 .. MaxSteps
<1>1. Regular(plan.workflow)
  BY PlanTyped DEF Ends, Inv, Typed, TypeOK
<1>2. plan.workflow.steps \in Seq(Step) /\ Len(plan.workflow.steps) <= MaxSteps
  BY <1>1 DEF Regular, Workflow
<1>3. QED
  BY <1>2, BoundsAssumption DEF Steps

\* What is shown of no step but c changes.
LEMMA StageMoves ==
  ASSUME Ends, Steps' = Steps, StagesAreShown, StagesAreShown', NEW c \in Steps, NEW new,
         Shown(c)' = new, \A i \in Steps : i # c => Shown(i)' = Shown(i)
  PROVE  c \in 1 .. MaxSteps /\ streamStage' = [streamStage EXCEPT ![c] = new]
<1>1. \A i \in Steps : Stage(i) = Shown(i) /\ Stage(i)' = Shown(i)'
  BY DEF StagesAreShown
<1>2. \A i \in Steps : i # c => Stage(i)' = Stage(i)
  BY <1>1
<1>3. Stage(c)' = new
  BY <1>1
<1>4. streamStage' = [i \in 1 .. MaxSteps |-> IF i \in Steps THEN Stage(i)' ELSE "new"]
  BY DEF streamStage
<1>5. c \in 1 .. MaxSteps
  BY StepsBounded
<1>6. QED
  BY <1>2, <1>3, <1>4, <1>5 DEF streamStage

LEMMA StageStays ==
  ASSUME Steps' = Steps, StagesAreShown, StagesAreShown', \A i \in Steps : Shown(i)' = Shown(i)
  PROVE  streamStage' = streamStage
<1>1. \A i \in Steps : Stage(i)' = Stage(i)
  BY DEF StagesAreShown
<1>2. QED
  BY <1>1 DEF streamStage

LEMMA NumberMoves ==
  ASSUME Ends, Steps' = Steps, NEW c \in Steps, attempts' = [attempts EXCEPT ![c] = @ + 1]
  PROVE  streamNumber' = [streamNumber EXCEPT ![c] = @ + 1]
<1>1. attempts \in [Steps -> Nat] /\ c \in 1 .. MaxSteps
  BY Counters, StepsBounded DEF Ends
<1>2. QED
  BY <1>1 DEF streamNumber

\* Whatever the invocation announces or replays, it has finished with the steps
\* before it in the level and not begun with the ones after it.
LEMMA NothingElse ==
  ASSUME Ends, StagesAreShown, Replaying \/ pc = "announce"
  PROVE  /\ cur \in Steps /\ cur \in 1 .. MaxSteps
         /\ streamStage[cur] = Within(cur) /\ streamNumber[cur] = attempts[cur]
         /\ AP!NothingElseRetrying(cur)
         /\ Replaying => \A j \in 1 .. MaxSteps : j < cur => streamStage[j] # "announced"
<1>1. /\ cur \in Current /\ Current \subseteq Steps /\ Current \subseteq Nat
      /\ Current \cap Below(level) = {} /\ Below(level + 1) = Below(level) \union Current
  BY AtCurrent, LevelFacts DEF Ends
<1>2. cur \in Steps /\ cur \in 1 .. MaxSteps /\ cur \in Nat
  BY <1>1, StepsBounded
<1>3. \A j \in 1 .. MaxSteps :
        /\ streamStage[j] = IF j \in Steps THEN Shown(j) ELSE "new"
        /\ streamNumber[j] = IF j \in Steps THEN attempts[j] ELSE 0
  BY DEF streamStage, streamNumber, StagesAreShown
<1>4. Shown(cur) = Within(cur)
  BY <1>1 DEF Shown
<1>5. ASSUME NEW j \in Steps, j # cur
      PROVE  /\ Shown(j) # "scheduled" /\ (Shown(j) = "announced" => attempts[j] = 0)
             /\ Replaying /\ j < cur => Shown(j) # "announced"
  <2>1. CASE j \in Below(level) \/ j \notin Below(level + 1)
    BY <2>1 DEF Shown
  <2>2. CASE j \in Current
    <3>1. Shown(j) = Within(j) /\ j \in Nat
      BY <1>1, <2>2 DEF Shown
    <3>2. CASE pc = "announce"
      <4>1. attempts[j] = 0
        BY <1>1, <2>2, <3>2, FreshShown DEF Ends, Ledger
      <4>2. QED
        BY <3>1, <3>2, <4>1 DEF Within, Replaying
    <3>3. CASE Replaying
      <4>1. j < cur \/ j > cur
        BY <1>2, <1>5, <3>1
      <4>2. j > cur => attempts[j] = 0 /\ ~(j < cur)
        BY <1>2, <2>2, <3>1, <3>3 DEF Ends, Ledger
      <4>3. QED
        BY <3>1, <3>3, <4>1, <4>2 DEF Within, Replaying
    <3>4. QED
      BY <3>2, <3>3
  <2>3. QED
    BY <1>1, <2>1, <2>2
<1>6. AP!NothingElseRetrying(cur)
  <2>1. ASSUME NEW j \in (1 .. MaxSteps) \ {cur}
        PROVE  /\ streamStage[j] # "scheduled"
               /\ ~(streamStage[j] = "announced" /\ streamNumber[j] > 0)
    <3>1. CASE j \in Steps
      BY <1>3, <1>5, <3>1
    <3>2. CASE j \notin Steps
      BY <1>3, <3>2
    <3>3. QED
      BY <3>1, <3>2
  <2>2. QED
    BY <2>1 DEF AP!NothingElseRetrying, AP!Retrying, streamStage, streamNumber
<1>7. ASSUME Replaying, NEW j \in 1 .. MaxSteps, j < cur PROVE streamStage[j] # "announced"
  <2>1. j # cur
    BY <1>2, <1>7
  <2>2. QED
    BY <1>3, <1>5, <1>7, <2>1
<1>8. QED
  BY <1>2, <1>3, <1>4, <1>6, <1>7

-----------------------------------------------------------------------------
(***************************************************************************)
(* Steps the stream does not show.                                         *)
(***************************************************************************)
Silent == UNCHANGED <<streamStage, streamNumber>>

LEMMA SilentWithin ==
  ASSUME Ends, StagesAreShown, StagesAreShown', UNCHANGED <<plan, levels, level, attempts>>,
         \A i \in Below(level + 1) \ Below(level) : Within(i)' = Within(i)
  PROVE  Silent
<1>1. /\ Steps' = Steps
      /\ Below(level)' = Below(level) /\ Below(level + 1)' = Below(level + 1)
  BY PlanKept
<1>2. \A i \in Steps : Shown(i)' = Shown(i)
  BY <1>1 DEF Shown
<1>3. streamStage' = streamStage
  BY <1>1, <1>2, StageStays
<1>4. streamNumber' = streamNumber
  BY <1>1 DEF streamNumber
<1>5. QED
  BY <1>3, <1>4 DEF Silent

LEMMA SilentElsewhere ==
  ASSUME Ends, StagesAreShown, StagesAreShown',
         UNCHANGED <<plan, pc, levels, level, cur, attempts>>
  PROVE  Silent
<1>1. \A i : Within(i)' = Within(i)
  BY DEF Within, Replaying
<1>2. QED
  BY <1>1, SilentWithin

LEMMA SilentBuild ==
  ASSUME Ends, StagesAreShown, StagesAreShown', BuildLevel
  PROVE  Silent
<1>1. /\ UNCHANGED <<plan, pc, level, cur, attempts>> /\ pc = "build" /\ Steps' = Steps
      /\ level = 1
  BY BuildFacts DEF Ends, Inv, Typed, Located
<1>2. PICK n \in Nat : DOMAIN levels = 1 .. n /\ DOMAIN levels' = 1 .. n + 1
  BY BuildFacts DEF Ends
<1>3. Below(level) = {} /\ Below(level)' = {}
  BY <1>1, <1>2 DEF Below
<1>4. \A i \in Steps : Shown(i) = "new" /\ Shown(i)' = "new"
  BY <1>1, <1>3 DEF Shown, Within, Replaying
<1>5. streamStage' = streamStage
  BY <1>1, <1>4, StageStays
<1>6. streamNumber' = streamNumber
  BY <1>1 DEF streamNumber
<1>7. QED
  BY <1>5, <1>6 DEF Silent

LEMMA SilentStart ==
  ASSUME Ends, Ends', StagesAreShown, StagesAreShown', LevelsBuilt \/ StartLevel \/ JoinLevel
  PROVE  Silent
<1>1. UNCHANGED <<plan, levels, level, attempts>>
  BY DEF LevelsBuilt, StartLevel, JoinLevel
<1>2. CASE LevelsBuilt
  <2>1. pc = "build" /\ pc' = "level"
    BY <1>2 DEF LevelsBuilt, At
  <2>2. \A i : Within(i)' = Within(i)
    BY <2>1 DEF Within, Replaying
  <2>3. QED
    BY <1>1, <2>2, SilentWithin
<1>3. CASE StartLevel \/ JoinLevel
  <2>1. /\ level \in DOMAIN levels /\ cur' \in First(Current)
        /\ (pc = "level" /\ pc' = "announce") \/ (pc = "join" /\ pc' = "record")
    BY <1>3, AtCurrent DEF StartLevel, JoinLevel, At, Ends
  <2>2. Current \subseteq Nat /\ Below(level + 1) \ Below(level) \subseteq Current
    BY <2>1, LevelFacts DEF Ends
  <2>3. \A i \in Current : ~(i < cur')
    BY <2>1, <2>2, FirstOf
  <2>4. \A i \in Current : Within(i)' = Within(i)
    BY <2>1, <2>3 DEF Within, Replaying
  <2>5. QED
    BY <1>1, <2>2, <2>4, SilentWithin
<1>4. QED
  BY <1>2, <1>3

LEMMA SilentNextLevel ==
  ASSUME Ends, StagesAreShown, StagesAreShown', NextLevel
  PROVE  Silent
<1>1. /\ pc = "settle" /\ pc' = "level" /\ level' = level + 1
      /\ UNCHANGED <<plan, levels, attempts>>
  BY DEF NextLevel, At
<1>2. Steps' = Steps /\ \A k : Below(k)' = Below(k)
  BY <1>1, LevelsKept
<1>3. \A i \in Steps : Shown(i) = IF i \in Below(level + 1) THEN "completed" ELSE "new"
  <2>1. Below(level) \subseteq Below(level + 1)
    BY <1>1, AtCurrent, LevelFacts DEF Ends
  <2>2. QED
    BY <1>1, <2>1 DEF Shown, Within, Replaying
<1>4. Below(level)' = Below(level + 1)
  BY <1>1, <1>2 DEF Below
<1>5. \A i \in Steps : Shown(i)' = IF i \in Below(level + 1) THEN "completed" ELSE "new"
  BY <1>1, <1>4 DEF Shown, Within, Replaying
<1>6. streamStage' = streamStage
  BY <1>2, <1>3, <1>5, StageStays
<1>7. streamNumber' = streamNumber
  BY <1>1, <1>2 DEF streamNumber
<1>8. QED
  BY <1>6, <1>7 DEF Silent

-----------------------------------------------------------------------------
(***************************************************************************)
(* Steps the stream shows.                                                 *)
(***************************************************************************)
\* Within the level at hand only the step at hand moves.
LEMMA CurrentMoves ==
  ASSUME Ends, StagesAreShown, StagesAreShown', UNCHANGED <<plan, levels, level>>,
         level \in DOMAIN levels, NEW c \in Current, NEW new, Within(c)' = new,
         \A i \in Current : i # c => Within(i)' = Within(i)
  PROVE  c \in 1 .. MaxSteps /\ streamStage' = [streamStage EXCEPT ![c] = new]
<1>1. /\ Steps' = Steps
      /\ Below(level)' = Below(level) /\ Below(level + 1)' = Below(level + 1)
  BY PlanKept
<1>2. /\ Below(level + 1) = Below(level) \union Current /\ Current \cap Below(level) = {}
      /\ Current \subseteq Steps
  BY LevelFacts DEF Ends
<1>3. Shown(c)' = new
  BY <1>1, <1>2 DEF Shown
<1>4. \A i \in Steps : i # c => Shown(i)' = Shown(i)
  BY <1>1, <1>2 DEF Shown
<1>5. c \in Steps
  BY <1>2
<1>6. QED
  BY <1>1, <1>3, <1>4, <1>5, StageMoves

LEMMA StreamAnnounce ==
  ASSUME Ends, Ends', StagesAreShown, StagesAreShown', AnnounceStep
  PROVE  AP!StreamNext
<1>1. /\ pc = "announce" /\ UNCHANGED <<plan, levels, level, attempts>>
      /\ level \in DOMAIN levels /\ cur \in Current /\ Current \subseteq Nat
  BY AtCurrent, LevelFacts DEF AnnounceStep, At, Ends
<1>2. PICK c \in Current : c = cur
  BY <1>1
<1>3. /\ streamStage[c] = Within(c) /\ AP!NothingElseRetrying(c) /\ c \in Nat
  BY <1>1, <1>2, NothingElse
<1>4. Within(c) = "new"
  BY <1>1, <1>2, <1>3 DEF Within, Replaying
<1>5. Within(c)' = "announced" /\ \A i \in Current : i # c => Within(i)' = Within(i)
  <2>1. CASE After # {}
    <3>1. pc' = "announce" /\ cur' \in First({j \in Current : j > c})
      BY <1>1, <1>2, <2>1 DEF AnnounceStep, After
    <3>2. \A i \in Current : i < cur' <=> i <= c
      BY <1>1, <3>1, NextOf
    <3>3. \A i \in Current : i # c => (i <= c <=> i < c)
      BY <1>1, <1>3
    <3>4. QED
      BY <1>1, <1>2, <1>3, <3>1, <3>2, <3>3 DEF Within, Replaying
  <2>2. CASE After = {}
    <3>1. pc' = "join"
      BY <2>2 DEF AnnounceStep
    <3>2. \A i \in Current : i # c => i < c
      BY <1>1, <1>2, <1>3, <2>2 DEF After
    <3>3. QED
      BY <1>1, <1>2, <3>1, <3>2 DEF Within, Replaying
  <2>3. QED
    BY <2>1, <2>2
<1>6. c \in 1 .. MaxSteps /\ streamStage' = [streamStage EXCEPT ![c] = "announced"]
  BY <1>1, <1>5, CurrentMoves
<1>7. streamNumber' = streamNumber
  BY <1>1, PlanKept DEF streamNumber
<1>8. AP!Announce(c)
  BY <1>3, <1>4, <1>6, <1>7 DEF AP!Announce, streamStage, streamNumber
<1>9. QED
  BY <1>6, <1>8 DEF AP!StreamNext

LEMMA StreamRetry ==
  ASSUME Ends, Ends', StagesAreShown, StagesAreShown', EmitRetryScheduled \/ Reannounce
  PROVE  AP!StreamNext
<1>1. /\ Replaying /\ UNCHANGED <<plan, levels, level, cur, attempts>>
      /\ (pc = "retry" /\ pc' = "reannounce") \/ (pc = "reannounce" /\ pc' = "record")
  BY DEF EmitRetryScheduled, Reannounce, At, Replaying
<1>2. PICK c \in Current : c = cur
  BY <1>1, AtCurrent DEF Ends
<1>3. /\ streamStage[c] = Within(c) /\ AP!NothingElseRetrying(c)
      /\ level \in DOMAIN levels /\ Current \subseteq Nat
  BY <1>1, <1>2, NothingElse, AtCurrent, LevelFacts DEF Ends
<1>4. ~(c < c) /\ ~(c > c) /\ \A i \in Current : i # c => i < c \/ i > c
  BY <1>3
<1>5. \A i \in Current : i # c => Within(i)' = Within(i)
  BY <1>1, <1>2, <1>4 DEF Within, Replaying
<1>6. streamNumber' = streamNumber
  BY <1>1, PlanKept DEF streamNumber
<1>7. CASE pc = "retry"
  <2>1. Within(c) = "completed" /\ Within(c)' = "scheduled"
    BY <1>1, <1>2, <1>4, <1>7 DEF Within, Replaying
  <2>2. c \in 1 .. MaxSteps /\ streamStage' = [streamStage EXCEPT ![c] = "scheduled"]
    BY <1>1, <1>3, <1>5, <2>1, CurrentMoves
  <2>3. AP!ReportRetry(c)
    BY <1>3, <1>6, <2>1, <2>2 DEF AP!ReportRetry, streamStage, streamNumber
  <2>4. QED
    BY <2>2, <2>3 DEF AP!StreamNext
<1>8. CASE pc = "reannounce"
  <2>1. Within(c) = "scheduled" /\ Within(c)' = "announced"
    BY <1>1, <1>2, <1>4, <1>8 DEF Within, Replaying
  <2>2. c \in 1 .. MaxSteps /\ streamStage' = [streamStage EXCEPT ![c] = "announced"]
    BY <1>1, <1>3, <1>5, <2>1, CurrentMoves
  <2>3. AP!Announce(c)
    BY <1>3, <1>6, <2>1, <2>2 DEF AP!Announce, streamStage, streamNumber
  <2>4. QED
    BY <2>2, <2>3 DEF AP!StreamNext
<1>9. QED
  BY <1>1, <1>7, <1>8

LEMMA StreamRecord ==
  ASSUME Ends, Ends', StagesAreShown, StagesAreShown', RecordRetried \/ RecordLast
  PROVE  AP!StreamNext
<1>1. /\ Replaying /\ pc = "record" /\ UNCHANGED <<plan, levels, level>> /\ Number(cur)
  BY DEF RecordRetried, RecordLast, At, Replaying
<1>2. PICK c \in Current : c = cur
  BY <1>1, AtCurrent DEF Ends
<1>3. /\ streamStage[c] = Within(c) /\ AP!NothingElseRetrying(c)
      /\ \A j \in 1 .. MaxSteps : j < c => streamStage[j] # "announced"
      /\ level \in DOMAIN levels /\ Current \subseteq Nat /\ c \in Steps
  BY <1>1, <1>2, NothingElse, AtCurrent, LevelFacts DEF Ends
<1>4. ~(c < c) /\ ~(c > c) /\ \A i \in Current : i # c => i < c \/ i > c
  BY <1>3
<1>5. Within(c) = "announced"
  BY <1>1, <1>2, <1>4 DEF Within, Replaying
<1>6. Within(c)' = "completed" /\ \A i \in Current : i # c => Within(i)' = Within(i)
  <2>1. CASE RecordRetried
    <3>1. pc' = "retry" /\ cur' = c
      BY <1>2, <2>1 DEF RecordRetried
    <3>2. QED
      BY <1>1, <1>2, <1>4, <3>1 DEF Within, Replaying
  <2>2. CASE RecordLast /\ After # {}
    <3>1. pc' = "record" /\ cur' \in First({j \in Current : j > c})
      BY <1>1, <1>2, <2>2 DEF RecordLast, After
    <3>2. \A i \in Current : (i < cur' <=> i <= c) /\ (i > cur' => i > c)
      BY <1>3, <3>1, NextOf
    <3>3. c <= c /\ \A i \in Current : i # c => (i <= c <=> i < c) /\ (i < c => ~(i > c))
      BY <1>3
    <3>4. QED
      BY <1>1, <1>2, <1>4, <3>1, <3>2, <3>3 DEF Within, Replaying
  <2>3. CASE RecordLast /\ After = {}
    <3>1. pc' = "settle"
      BY <2>3 DEF RecordLast
    <3>2. \A i \in Current : i # c => i < c
      BY <1>2, <1>4, <2>3 DEF After
    <3>3. QED
      BY <1>1, <1>2, <3>1, <3>2 DEF Within, Replaying
  <2>4. QED
    BY <2>1, <2>2, <2>3
<1>7. c \in 1 .. MaxSteps /\ streamStage' = [streamStage EXCEPT ![c] = "completed"]
  BY <1>1, <1>3, <1>6, CurrentMoves
<1>8. attempts' = [attempts EXCEPT ![c] = @ + 1] /\ Steps' = Steps
  BY <1>1, <1>2, PlanKept DEF Number
<1>9. streamNumber' = [streamNumber EXCEPT ![c] = @ + 1]
  BY <1>3, <1>8, NumberMoves
<1>10. AP!Complete(c)
  BY <1>3, <1>5, <1>7, <1>9 DEF AP!Complete, streamStage, streamNumber
<1>11. QED
  BY <1>7, <1>10 DEF AP!StreamNext

LEMMA StreamStep ==
  ASSUME Ends, Ends', StagesAreShown, StagesAreShown', [Next]_vars
  PROVE  [AP!StreamNext]_(AP!streamVars)
<1>1. AP!StreamNext \/ Silent => [AP!StreamNext]_(AP!streamVars)
  BY DEF Silent, AP!streamVars, streamStage, streamNumber
<1>2. CASE AnnounceStep \/ EmitRetryScheduled \/ Reannounce \/ RecordRetried \/ RecordLast
  BY <1>1, <1>2, StreamAnnounce, StreamRetry, StreamRecord
<1>3. CASE BuildLevel \/ LevelsBuilt \/ StartLevel \/ JoinLevel \/ NextLevel
  BY <1>1, <1>3, SilentBuild, SilentStart, SilentNextLevel
<1>4. CASE FailCycle \/ JoinPanicked \/ ReturnTerminal \/ ReturnOutputs \/ ReturnCancelled
             \/ Cancel \/ UNCHANGED vars
  <2>1. UNCHANGED <<plan, pc, levels, level, cur, attempts>>
    BY <1>4 DEF FailCycle, JoinPanicked, ReturnTerminal, ReturnOutputs, ReturnCancelled, Return,
                Cancel, vars
  <2>2. QED
    BY <1>1, <2>1, SilentElsewhere
<1>5. CASE \E i \in Steps : TaskStep(i) \/ TaskReplied(i) \/ TaskPanicked(i)
  <2>1. UNCHANGED <<plan, pc, levels, level, cur, attempts>>
    BY <1>5 DEF TaskStep, TaskReplied, TaskPanicked, TaskRequestCancelled, TaskRouted,
                TaskDelayElapsed, TaskRoutingCancelled, SetTask
  <2>2. QED
    BY <1>1, <2>1, SilentElsewhere
<1>6. QED
  BY <1>2, <1>3, <1>4, <1>5 DEF Next, InvocationStep

\* However the tasks of a level overlap, what the invocation reports is a
\* stream of the attempt protocol: announced, completed and numbered in step
\* order, each retry between its step's attempts (replay_parallel_step).
THEOREM StreamImplemented == Spec => StreamsInStepOrder
<1>1. Init => AP!StreamInit
  <2> SUFFICES ASSUME Init PROVE AP!StreamInit
    OBVIOUS
  <2>1. pc = "build" /\ attempts = [i \in Steps |-> 0] /\ task = [i \in Steps |-> IdleTask]
    BY DEF Init
  <2>2. \A i \in Steps : attempts[i] = 0 /\ ~Started(i)
    BY <2>1 DEF Started, IdleTask
  <2>3. \A i \in Steps : Stage(i) = "new"
    BY <2>1, <2>2 DEF Stage, Replaying
  <2>4. QED
    BY <2>2, <2>3 DEF AP!StreamInit
<1>2. ASSUME Ends, StagesAreShown, StagesAreShown', [Next]_vars
      PROVE  [AP!StreamNext]_(AP!streamVars)
  BY <1>2, EndsNext, StreamStep
<1>3. QED
  BY <1>1, <1>2, EndsHolds, StageShown, PTL DEF Spec, StreamsInStepOrder, AP!StreamSpec
=============================================================================
