---------------------------- MODULE CommandProofs ----------------------------
(***************************************************************************)
(* Proofs about the ways into the engine, each for itself and for every    *)
(* input: single steps, whatever they read; the run command, wherever its  *)
(* artifacts go and whenever it dies; replay, however the attempts of a    *)
(* level fall among each other; the MCP server, however its input is cut   *)
(* and its calls race; and the test command, what it runs and reports.     *)
(***************************************************************************)
EXTENDS SingleStep, RunCommand, Replay, McpServer, TestRunner, SequenceTheorems, FiniteSetTheorems

(***************************************************************************)
(* The invariant.  What was found is read, and what is read by a step that *)
(* left the queue was found; the run is where its last attempt sent it,    *)
(* and, if nothing redirects it, all before its place has run.             *)
(***************************************************************************)
Chosen == IF noDeps THEN {target} ELSE {target} \union visited
Attempt == [step : SingleSteps, result : {"ok", "SuccessCriteriaFailed"}]

Kinds ==
  /\ plan \in Plans /\ target \in SingleSteps /\ noDeps \in BOOLEAN
  /\ SingleTypeOK /\ left \in Nat /\ queue \in Seq(SingleSteps) /\ ran \in Seq(Attempt)

Reached ==
  /\ visited \subseteq FoundReach \ {target} /\ ToSet(queue) \subseteq {target} \union visited
  /\ \A i \in ({target} \union visited) \ ToSet(queue) : Found(i) \subseteq {target} \union visited

Scoped ==
  /\ singlePc = "search" => scope = <<>>
  /\ singlePc \in {"search", "arm"} => ran = <<>> /\ cursor = 1
  /\ singlePc \in {"arm", "run"} => scope # <<>>
  /\ scope # <<>> =>
       /\ scope \in Ascending(Chosen) /\ Len(ran) + left >= 10 * Len(scope)
       /\ IF noDeps THEN Scanned(target) \subseteq {target} ELSE queue = <<>>
  /\ \A k \in DOMAIN ran : ran[k].step \in ToSet(scope)

Follows(last, next) ==
  \/ last.result # "ok" /\ Retries(last.step) /\ next = last.step
  \/ \E to \in Sends(last.step, last.result) :
       next >= to /\ \A k \in DOMAIN scope : scope[k] >= to => scope[k] >= next

Headed == singlePc = "run" /\ ran # <<>> => Follows(ran[Len(ran)], scope[cursor])

Progress ==
  /\ Undirected /\ singlePc = "run" => \A k \in 1 .. cursor - 1 : RanAfterFound(scope[k])
  /\ RunsInDependencyOrder

SingleInv == Kinds /\ Reached /\ Scoped /\ Headed /\ Progress

(***************************************************************************)
(* The operators the model is built from                                   *)
(***************************************************************************)
\* A workflow that is planned has finitely many steps, no more than the bound.
LEMMA StepsFinite ==
  ASSUME NEW p \in Plans
  PROVE  /\ Regular(p.workflow) /\ Len(p.workflow.steps) \in Nat /\ Len(p.workflow.steps) <= MaxSteps
         /\ DOMAIN p.workflow.steps = 1 .. Len(p.workflow.steps)
         /\ DOMAIN p.refs = DOMAIN p.workflow.steps
         /\ \A S \in SUBSET DOMAIN p.workflow.steps :
              S \subseteq Nat /\ IsFiniteSet(S) /\ Cardinality(S) \in Nat /\ Cardinality(S) <= MaxSteps
<1>1. Regular(p.workflow) /\ DOMAIN p.refs = DOMAIN p.workflow.steps BY SingleAssumption
<1>2. p.workflow.steps \in Seq(Step) /\ Len(p.workflow.steps) <= MaxSteps BY <1>1 DEF Regular, Workflow
<1>3. Len(p.workflow.steps) \in Nat /\ DOMAIN p.workflow.steps = 1 .. Len(p.workflow.steps) BY <1>2
<1>4. IsFiniteSet(1 .. Len(p.workflow.steps))
      /\ Cardinality(1 .. Len(p.workflow.steps)) <= MaxSteps
  <2>1. \A n \in Nat : IsFiniteSet(1 .. n) /\ Cardinality(1 .. n) = n
    <3> TAKE n \in Nat
    <3>1. 1 \in Int /\ n \in Int OBVIOUS
    <3>2. IsFiniteSet(1 .. n) /\ Cardinality(1 .. n) = (IF 1 > n THEN 0 ELSE n - 1 + 1) BY ONLY <3>1, FS_Interval
    <3> QED BY <3>2
  <2> QED BY <1>2, <1>3, <2>1
<1>5. ASSUME NEW S \in SUBSET DOMAIN p.workflow.steps
      PROVE  S \subseteq Nat /\ IsFiniteSet(S) /\ Cardinality(S) \in Nat /\ Cardinality(S) <= MaxSteps
  BY <1>3, <1>4, FS_Subset, FS_CardinalityType, BoundsAssumption
<1> QED BY <1>1, <1>2, <1>3, <1>5

\* A sequence of a set has each of its members in one place.
LEMMA SeqsOf ==
  ASSUME NEW S, IsFiniteSet(S), NEW s \in SetToSeqs(S)
  PROVE  /\ s \in Seq(S) /\ Len(s) = Cardinality(S) /\ Len(s) \in Nat /\ DOMAIN s = 1 .. Len(s)
         /\ ToSet(s) = S
<1>1. Cardinality(S) \in Nat BY FS_CardinalityType
<1>2. s \in [1 .. Cardinality(S) -> S] /\ \A i, j \in 1 .. Cardinality(S) : i # j => s[i] # s[j] BY DEF SetToSeqs
<1>5. Cardinality(1 .. Cardinality(S)) = Cardinality(S) BY <1>1, FS_Interval
<1>6. s \in Surjection(1 .. Cardinality(S), S) BY <1>2, <1>5, FS_Injection DEF Injection, IsInjective
<1> QED BY <1>1, <1>2, <1>6 DEF ToSet, Surjection

\* The iterations of a run are ten for every step at least.
LEMMA LimitSuffices ==
  ASSUME NEW p \in Plans, NEW S \in SUBSET DOMAIN p.workflow.steps
  PROVE  IterationLimit(p.workflow, S) \in Nat /\ IterationLimit(p.workflow, S) >= 10 * Cardinality(S)
<1>1. /\ Cardinality(S) \in Nat /\ Cardinality(S) <= MaxSteps /\ MaxU128 \in Nat /\ MaxSteps \in Nat
      /\ MaxU128 >= 10 * MaxSteps
  BY StepsFinite, SingleAssumption, BoundsAssumption
<1> DEFINE budget == Total(StepBudgets(p.workflow, S))
           floor == 10 * Cardinality(S)
           wanted == IF 2 * budget >= floor THEN 2 * budget ELSE floor
<1>3. wanted \in 0 .. MaxU128 => wanted >= floor
  <2> HIDE DEF budget
  <2> QED BY <1>1
<1> HIDE DEF wanted
<1> QED BY <1>1, <1>3 DEF Saturate, IterationLimit

\* Where performing an action leads.
Leads(list, j, result, d) ==
  /\ d.kind \in {"next", "done", "retry", "gotoWorkflow", "error"}
  /\ d.kind = "next" => list[j].type = "goto" /\ d.step = list[j].step
  /\ d.kind = "retry" => list[j].type = "retry"
  /\ d.kind = "done" => result = "ok"
  /\ d.kind = "gotoWorkflow" => list[j].type = "goto"
  /\ d.kind = "error" => d.error \notin {"ok", "none"}

LEMMA PerformLeads ==
  ASSUME NEW w, NEW i, NEW list \in Seq(Action), NEW j \in DOMAIN list,
         NEW result \in {"ok", "SuccessCriteriaFailed"}, NEW d \in Perform(w, i, list, j, result, FALSE)
  PROVE  Leads(list, j, result, d)
<1>1. list[j] \in Action OBVIOUS
<1>2. CASE list[j].type = "end"
  BY <1>2 DEF Perform, PerformEnd, Fail, Done, NoDecision, Leads
<1>3. CASE list[j].type = "goto"
  BY <1>3, <1>1 DEF GoOn, Leave, Fail, NoDecision, Leads, PerformGoto, Action, Perform
<1>4. CASE list[j].type = "retry"
  <2>1. PICK delay : d = PerformRetry(list[j], <<i, j>>, delay) BY <1>4 DEF Perform
  <2> QED BY <1>4, <2>1 DEF PerformRetry, Retry, Fail, NoDecision, Leads
<1> QED BY <1>1, <1>2, <1>3, <1>4 DEF Action

\* Where an attempt leads is where it is sent, or to itself by a retry; and where nothing
\* is redirected, a success leads to the next step and a failure nowhere else.
LEMMA RoutesLead ==
  ASSUME plan \in Plans, counts \in Counts, NEW i \in SingleSteps, NEW result \in {"ok", "SuccessCriteriaFailed"},
         NEW d \in Routes(wf, i, counts, result, FALSE)
  PROVE  /\ d.kind \in {"next", "done", "retry", "gotoWorkflow", "error"}
         /\ d.kind = "next" => d.step \in Sends(i, result) /\ d.step \in Nat
         /\ d.kind = "retry" => result # "ok" /\ Retries(i) /\ d.site \in Sites
         /\ d.kind = "error" => d.error \notin {"ok", "none"}
         /\ Undirected => IF result = "ok" THEN d.kind = "next" /\ d.step = i + 1 ELSE d.kind \in {"retry", "error"}
<1> DEFINE success == SuccessActions(wf, i)
           failure == FailureActions(wf, i)
<1>1. Regular(wf) /\ i \in Nat BY StepsFinite DEF SingleSteps, wf
<1>2. /\ success \in Seq(Action) /\ failure \in Seq(Action)
      /\ \A j \in DOMAIN success : success[j].type # "retry"
      /\ \A j \in DOMAIN failure : <<i, j>> \in Sites
  BY <1>1, ListsTyped DEF SingleSteps
<1>4. d \in Decision /\ RetryAllowed(wf, i, counts, d) BY <1>1, RoutesSound DEF SingleSteps, Results, Errors
<1>5. d.step \in Nat /\ d.site \in Sites \union {NoSite} BY <1>4 DEF Decision
<1> HIDE DEF success, failure
<1>6. CASE result = "ok"
  <2>1. PICK m \in Matchings(success) : d \in SuccessRoutes(wf, i, m, FALSE) BY <1>6 DEF Routes, success
  <2>2. Sends(i, result) = {i + 1} \union {success[j].step : j \in {j \in DOMAIN success : success[j].type = "goto"}}
    BY <1>6 DEF Sends, success
  <2>3. CASE m = {} BY <1>5, <1>6, <2>2, <2>1, <2>3 DEF GoOn, NoDecision, SuccessRoutes
  <2>4. CASE m # {}
    <3>1. PICK j \in First(m) : d \in Perform(wf, i, success, j, "ok", FALSE)
      BY <2>1, <2>4 DEF SuccessRoutes, success
    <3>2. j \in DOMAIN success BY <2>1, <3>1 DEF First, Matchings
    <3>3. /\ d.kind \in {"next", "done", "retry", "gotoWorkflow", "error"}
          /\ d.kind = "next" => success[j].type = "goto" /\ d.step = success[j].step
          /\ d.kind = "retry" => success[j].type = "retry"
          /\ d.kind = "error" => d.error \notin {"ok", "none"}
      <4>1. success \in Seq(Action) /\ "ok" \in {"ok", "SuccessCriteriaFailed"} BY <1>2
      <4>2. Leads(success, j, "ok", d) BY <3>1, <3>2, <4>1, PerformLeads, Zenon
      <4> QED BY <4>2 DEF Leads
    <3> QED BY <1>2, <1>5, <3>2, <3>3, <2>2 DEF Undirected, success
  <2> QED BY <2>3, <2>4
<1>7. CASE result # "ok"
  <2>1. PICK m \in Matchings(failure) : d \in FailureRoutes(wf, i, m, counts, result, FALSE) BY <1>7 DEF Routes, failure
  <2> DEFINE fresh == {j \in m : ~Exhausted(failure[j], counts, <<i, j>>)}
  <2>3. CASE d \in {Fail("RetryLimitExceeded"), Fail(result)} BY <1>7, <2>3 DEF Fail, NoDecision
  <2>4. CASE \E j \in First(fresh) : d \in Perform(wf, i, failure, j, result, FALSE)
    <3>1. PICK j \in First(fresh) : d \in Perform(wf, i, failure, j, result, FALSE) BY <2>4
    <3>2. j \in DOMAIN failure BY <2>1, <3>1 DEF First, Matchings
    <3>3. /\ d.kind \in {"next", "done", "retry", "gotoWorkflow", "error"}
          /\ d.kind = "next" => failure[j].type = "goto" /\ d.step = failure[j].step
          /\ d.kind = "retry" => failure[j].type = "retry"
          /\ d.kind = "done" => result = "ok"
          /\ d.kind = "gotoWorkflow" => failure[j].type = "goto"
          /\ d.kind = "error" => d.error \notin {"ok", "none"}
      <4>1. failure \in Seq(Action) BY <1>2
      <4>2. Leads(failure, j, result, d) BY <3>1, <3>2, <4>1, PerformLeads, Zenon
      <4> QED BY <4>2 DEF Leads
    <3> QED BY <1>5, <1>7, <3>3, <3>2, <1>2, <1>4 DEF Undirected, failure, Sends, Retries, RetryAllowed
  <2> QED BY <2>3, <2>4, <2>1 DEF FailureRoutes, failure
<1> QED BY <1>6, <1>7

\* The steps of a scope, in the order of the workflow.
LEMMA AscendingIs ==
  ASSUME NEW p \in Plans, NEW S \in SUBSET DOMAIN p.workflow.steps, NEW s \in Ascending(S)
  PROVE  /\ s \in Seq(S) /\ Len(s) = Cardinality(S) /\ Len(s) \in Nat /\ DOMAIN s = 1 .. Len(s) /\ ToSet(s) = S
         /\ \A j \in DOMAIN s : s[j] \in S /\ s[j] \in Nat
         /\ \A j, k \in DOMAIN s : s[j] < s[k] <=> j < k
<1>1. IsFiniteSet(S) /\ S \subseteq Nat BY StepsFinite
<1>2. s \in SetToSeqs(S) /\ \A j, k \in DOMAIN s : j < k => s[j] < s[k] BY DEF Ascending
<1>3. /\ s \in Seq(S) /\ Len(s) = Cardinality(S) /\ Len(s) \in Nat /\ DOMAIN s = 1 .. Len(s) /\ ToSet(s) = S
  BY <1>1, <1>2, SeqsOf
<1>4. \A j \in DOMAIN s : s[j] \in S /\ s[j] \in Nat BY <1>1, <1>3
<1>5. ASSUME NEW j \in DOMAIN s, NEW k \in DOMAIN s, s[j] < s[k] PROVE j < k BY <1>3, <1>4, <1>2, <1>5
<1> QED BY <1>2, <1>3, <1>4, <1>5

\* What is found to be referred to is held by every set that is closed, the least of them.
LEMMA ReachIs ==
  /\ FoundReach \subseteq SingleSteps
  /\ Found(target) \subseteq FoundReach
  /\ \A i \in FoundReach : Found(i) \subseteq FoundReach
  /\ \A closed \in SUBSET SingleSteps :
       Found(target) \subseteq closed /\ (\A i \in closed : Found(i) \subseteq closed) => FoundReach \subseteq closed
  BY DEF FoundReach, Found

\* What the queue holds after its head is replaced by what is new.
LEMMA QueueIs ==
  ASSUME NEW S, NEW s \in Seq(S), s # <<>>, NEW t \in Seq(S)
  PROVE  /\ Tail(s) \o t \in Seq(S) /\ Head(s) \in ToSet(s)
         /\ ToSet(Tail(s) \o t) \subseteq ToSet(s) \union ToSet(t)
         /\ ToSet(t) \subseteq ToSet(Tail(s) \o t)
         /\ ToSet(s) \subseteq {Head(s)} \union ToSet(Tail(s) \o t)
<1> DEFINE r == Tail(s)
           u == r \o t
<1>1. Len(s) \in Nat \ {0} /\ DOMAIN s = 1 .. Len(s) /\ Head(s) = s[1] OBVIOUS
<1>2. r \in Seq(S) /\ Len(r) = Len(s) - 1 /\ Len(r) \in Nat /\ \A k \in 1 .. Len(r) : r[k] = s[k + 1] BY <1>1
<1>3. Len(t) \in Nat /\ DOMAIN t = 1 .. Len(t) OBVIOUS
<1> HIDE DEF r
<1>4. /\ u \in Seq(S) /\ Len(u) = Len(r) + Len(t) /\ DOMAIN u = 1 .. Len(u)
      /\ \A k \in 1 .. Len(u) : u[k] = IF k <= Len(r) THEN r[k] ELSE t[k - Len(r)]
  <2>1. /\ u \in Seq(S) /\ Len(u) = Len(r) + Len(t)
        /\ \A k \in 1 .. Len(r) + Len(t) : u[k] = IF k <= Len(r) THEN r[k] ELSE t[k - Len(r)]
    BY <1>2, ConcatProperties
  <2> HIDE DEF u
  <2> QED BY <2>1
<1> HIDE DEF u
<1>5. ToSet(u) \subseteq ToSet(s) \union ToSet(t)
  <2>1. ASSUME NEW k \in 1 .. Len(u) PROVE u[k] \in ToSet(s) \union ToSet(t)
    <3>1. CASE k <= Len(r)
      <4>1. k \in 1 .. Len(r) BY <1>2, <1>3, <1>4, <3>1
      <4>2. u[k] = s[k + 1] /\ k + 1 \in 1 .. Len(s) BY <1>1, <1>2, <1>4, <3>1, <4>1
      <4> QED BY <1>1, <4>2 DEF ToSet
    <3>2. CASE ~(k <= Len(r))
      <4>1. u[k] = t[k - Len(r)] /\ k - Len(r) \in 1 .. Len(t) BY <1>1, <1>2, <1>3, <1>4, <3>2
      <4> QED BY <1>3, <4>1 DEF ToSet
    <3> QED BY <3>1, <3>2
  <2> QED BY <1>4, <2>1 DEF ToSet
<1>6. ToSet(t) \subseteq ToSet(u)
  <2>1. ASSUME NEW k \in 1 .. Len(t) PROVE t[k] \in ToSet(u)
    <3>1. Len(r) + k \in 1 .. Len(u) /\ ~(Len(r) + k <= Len(r)) /\ (Len(r) + k) - Len(r) = k BY <1>2, <1>3, <1>4
    <3> QED BY <1>4, <3>1 DEF ToSet
  <2> QED BY <1>3, <2>1 DEF ToSet
<1>7. ToSet(s) \subseteq {Head(s)} \union ToSet(u)
  <2>1. ASSUME NEW k \in 2 .. Len(s) PROVE s[k] \in ToSet(u)
    <3>1. k - 1 \in 1 .. Len(u) /\ u[k - 1] = s[k] BY <1>2, <1>4, <1>1, <1>3
    <3> QED BY <1>4, <3>1 DEF ToSet
  <2> QED BY <1>1, <2>1 DEF ToSet
<1>8. Head(s) \in ToSet(s) BY <1>1 DEF ToSet
<1> QED BY <1>4, <1>5, <1>6, <1>7, <1>8 DEF r, u

(***************************************************************************)
(* The steps                                                               *)
(***************************************************************************)
\* The selection never changes, nor does what depends on nothing else.
LEMMA SelectionStays ==
  ASSUME UNCHANGED selection
  PROVE  /\ plan' = plan /\ target' = target /\ noDeps' = noDeps
         /\ wf' = wf /\ SingleSteps' = SingleSteps /\ FoundReach' = FoundReach /\ Undirected' = Undirected
         /\ Attempt' = Attempt
         /\ \A step : Found(step)' = Found(step) /\ Scanned(step)' = Scanned(step)
         /\ \A step : Retries(step)' = Retries(step)
         /\ \A step, result : Sends(step, result)' = Sends(step, result)
<1>1. plan' = plan /\ target' = target /\ noDeps' = noDeps BY DEF selection
<1> QED BY <1>1 DEF FoundReach, Undirected, Attempt, Retries, Sends, Found, Scanned, wf, SingleSteps

\* What is known of a scope.
LEMMA ScopeIs ==
  ASSUME SingleInv, scope # <<>>
  PROVE  /\ Chosen \subseteq SingleSteps /\ scope \in Seq(Chosen) /\ Len(scope) = Cardinality(Chosen)
         /\ Len(scope) \in Nat /\ DOMAIN scope = 1 .. Len(scope) /\ ToSet(scope) = Chosen
         /\ \A k \in DOMAIN scope : scope[k] \in Chosen /\ scope[k] \in Nat
         /\ \A j, k \in DOMAIN scope : scope[j] < scope[k] <=> j < k
  BY AscendingIs DEF SingleSteps, wf, SingleInv, Kinds, SingleTypeOK, Scoped, Chosen

LEMMA SingleBegins == SingleInit => SingleInv
<1> SUFFICES ASSUME SingleInit PROVE SingleInv OBVIOUS
<1> USE DEF SingleInit
<1>1. target \in SingleSteps BY DEF SingleSteps, wf
<1>6. Scoped /\ Headed BY DEF Scoped, Headed
<1>7. Progress BY DEF Progress, RunsInDependencyOrder
<1> QED BY <1>1, <1>6, <1>7 DEF SingleInv, Reached, Kinds, SingleTypeOK, Counts, ToSet

\* The search goes on to what is read by what it has found.
LEMMA VisitKeeps == ASSUME SingleInv, Visit PROVE SingleInv'
<1> DEFINE new == Found(Head(queue)) \ (visited \union {target})
<1>1. /\ singlePc = "search" /\ queue # <<>> /\ visited' = visited \union new
      /\ \E found \in SetToSeqs(new) : queue' = Tail(queue) \o found
      /\ UNCHANGED <<selection, singlePc, scope, cursor, left, counts, ran, cancelled, outcome>>
  BY DEF Visit
<1>2. PICK found \in SetToSeqs(new) : queue' = Tail(queue) \o found BY <1>1
<1>3. plan \in Plans /\ queue \in Seq(SingleSteps) /\ target \in SingleSteps /\ visited \subseteq SingleSteps
  BY DEF SingleInv, Kinds, SingleTypeOK
<1>4. new \subseteq SingleSteps /\ new \subseteq Found(Head(queue)) /\ target \notin new BY DEF Found
<1>5. Found(Head(queue)) \subseteq new \union visited \union {target} OBVIOUS
<1> HIDE DEF new
<1>7. found \in Seq(SingleSteps) /\ ToSet(found) = new BY <1>4, <1>3, StepsFinite, SeqsOf DEF SingleSteps, wf
<1>8. /\ queue' \in Seq(SingleSteps) /\ Head(queue) \in ToSet(queue)
      /\ ToSet(queue)' \subseteq ToSet(queue) \union new /\ new \subseteq ToSet(queue)'
      /\ ToSet(queue) \subseteq {Head(queue)} \union ToSet(queue)'
  <2>1. ToSet(queue)' = ToSet(queue') BY DEF ToSet
  <2> QED BY <1>1, <1>2, <1>3, <1>7, <2>1, QueueIs
<1>9. UNCHANGED selection BY <1>1
<1>10. Kinds'
  BY <1>1, <1>3, <1>4, <1>8, <1>9, SelectionStays DEF SingleInv, Kinds, SingleTypeOK
<1>11. Reached'
  <2>1. /\ visited \subseteq FoundReach \ {target} /\ ToSet(queue) \subseteq {target} \union visited
        /\ \A i \in ({target} \union visited) \ ToSet(queue) : Found(i) \subseteq {target} \union visited
    BY DEF SingleInv, Reached
  <2>3. visited' \subseteq FoundReach \ {target} BY <1>1, <1>4, <2>1, <1>8, ReachIs
  <2>4. ToSet(queue)' \subseteq {target} \union visited' BY <1>1, <1>8, <2>1
  <2>5. ASSUME NEW i \in ({target} \union visited') \ ToSet(queue)' PROVE Found(i) \subseteq {target} \union visited'
    <3>2. CASE i = Head(queue) BY <1>1, <1>5, <3>2
    <3>3. CASE i # Head(queue) BY <1>1, <2>1, <1>8, <3>3
    <3> QED BY <3>2, <3>3
  <2> QED BY <1>9, <2>3, <2>4, <2>5, SelectionStays DEF Reached
<1> QED BY <1>10, <1>11, <1>1 DEF SingleInv, Scoped, Headed, Kinds, SingleTypeOK, Progress, RunsInDependencyOrder

\* The search ends: the scope is what was found, or what was not asked for is refused.
LEMMA SelectKeeps == ASSUME SingleInv, Select PROVE SingleInv'
<1>1. /\ singlePc = "search" /\ scope = <<>> /\ ran = <<>> /\ cursor = 1 /\ outcome = "none"
      /\ plan \in Plans /\ target \in SingleSteps /\ visited \subseteq SingleSteps
  BY DEF Select, SingleInv, Kinds, SingleTypeOK, Scoped
<1>2. UNCHANGED <<selection, cursor, counts, ran, cancelled, queue, visited>> BY DEF Select, Begin
<1>3. Chosen' = Chosen /\ Chosen \subseteq SingleSteps /\ target \in Chosen
  BY <1>1, <1>2, SelectionStays DEF Chosen
<1>4. Reached' BY <1>2, SelectionStays DEF SingleInv, Reached, ToSet
<1>5. CASE noDeps /\ Scanned(target) \ {target} # {}
  <2>1. singlePc' = "ended" /\ outcome' = "StepMissingDependency" /\ UNCHANGED <<scope, left>>
    BY <1>5 DEF Select, End
  <2> QED
    BY <1>4, <1>1, <1>2, <2>1, SelectionStays DEF SingleInv, Scoped, Headed, Kinds, SingleTypeOK, Progress,
       RunsInDependencyOrder
<1>6. CASE ~(noDeps /\ Scanned(target) \ {target} # {})
  <2>1. /\ scope' \in Ascending(Chosen) /\ left' = IterationLimit(wf, Chosen)
        /\ singlePc' = "arm" /\ outcome' = outcome BY <1>6 DEF Begin, Select, Chosen
  <2>2. /\ Len(scope') = Cardinality(Chosen) /\ ToSet(scope') = Chosen /\ DOMAIN scope' = 1 .. Len(scope')
        /\ Len(scope') \in Nat
    BY <1>1, <1>3, <2>1, AscendingIs DEF SingleSteps, wf
  <2>3. scope' # <<>> /\ Len(scope') \in Nat \ {0} BY <1>3, <2>2 DEF ToSet
  <2>4. left' \in Nat /\ left' >= 10 * Len(scope')
    BY <1>1, <1>3, <2>1, <2>2, LimitSuffices DEF SingleSteps, wf
  <2>5. Kinds' BY <1>1, <1>2, <2>1, <2>4, SelectionStays DEF SingleInv, Kinds, SingleTypeOK
  <2>6. IF noDeps THEN Scanned(target) \subseteq {target} ELSE queue = <<>> BY <1>6 DEF Select
  <2>7. scope' \in Ascending(Chosen)' BY <1>3, <2>1 DEF Ascending
  <2>8. Len(ran') + left' >= 10 * Len(scope') BY <1>1, <1>2, <2>3, <2>4
  <2>9. Scoped' BY <1>1, <1>2, <2>1, <2>3, <2>6, <2>7, <2>8, SelectionStays DEF Scoped
  <2> QED BY <1>4, <2>5, <2>9, <1>1, <2>1 DEF SingleInv, Headed, Progress, RunsInDependencyOrder
<1> QED BY <1>5, <1>6

\* What has run stays so.
LEMMA RanStays ==
  ASSUME SingleInv, UNCHANGED <<selection, ran>>
  PROVE  \A step : RanAfterFound(step)' = RanAfterFound(step)
  BY SelectionStays DEF RanAfterFound

LEMMA ArmKeeps == ASSUME SingleInv, Arm PROVE SingleInv'
<1>1. /\ singlePc = "arm" /\ ran = <<>> /\ cursor = 1 /\ outcome = "none" /\ scope # <<>>
      /\ UNCHANGED <<selection, queue, visited, scope, cursor, left, counts, ran, cancelled>>
  BY DEF Arm, SingleInv, Kinds, SingleTypeOK, Scoped
<1>2. \/ singlePc' = "run" /\ outcome' = "none"
      \/ singlePc' = "ended" /\ outcome' \in {"InputValidation", "MessageTransport"}
  BY <1>1 DEF Arm, End
<1>8. Headed' BY <1>1 DEF Headed
<1>9. Progress' BY <1>1, <1>2 DEF Progress, RunsInDependencyOrder
<1> QED
  BY <1>1, <1>2, ScopeIs, SelectionStays, <1>8, <1>9 DEF SingleInv, Reached, ToSet, Scoped, Ascending, Chosen,
     Kinds, SingleTypeOK

\* A run whose iterations are over is over with all its steps, or has taken ten for each.
LEMMA FinishKeeps == ASSUME SingleInv, SingleFinish PROVE SingleInv'
<1>1. /\ singlePc = "run" /\ (cancelled \/ left = 0 \/ cursor > Len(scope))
      /\ singlePc' = "ended" /\ outcome' = (IF cancelled THEN "ExecutionCancelled" ELSE "ok")
      /\ UNCHANGED <<selection, queue, visited, scope, cursor, left, counts, ran, cancelled>>
  BY DEF SingleFinish, End
<1>2. scope # <<>> /\ cursor \in DOMAIN scope BY <1>1 DEF SingleInv, Scoped, Kinds, SingleTypeOK
<1>8. Headed' BY <1>1 DEF Headed
<1>9. outcome' = "ok" => left' = 0 /\ Len(ran') >= 10 * Len(scope')
  <2> SUFFICES ASSUME outcome' = "ok" PROVE left' = 0 /\ Len(ran') >= 10 * Len(scope') OBVIOUS
  <2> QED BY <1>1, <1>2, ScopeIs DEF SingleInv, Scoped, Kinds
<1>10. Progress' BY <1>1, <1>9 DEF Progress, RunsInDependencyOrder
<1> QED
  BY <1>1, SelectionStays, <1>8, <1>10 DEF SingleInv, Kinds, SingleTypeOK, Reached, ToSet, Scoped, Ascending, Chosen

\* An attempt is added to those there were.
LEMMA RanGrows ==
  ASSUME SingleInv, UNCHANGED selection, NEW attempt \in Attempt, ran' = Append(ran, attempt)
  PROVE  /\ ran' \in Seq(Attempt) /\ Len(ran) \in Nat /\ Len(ran') = Len(ran) + 1
         /\ DOMAIN ran = 1 .. Len(ran) /\ DOMAIN ran' = 1 .. Len(ran')
         /\ ran'[Len(ran')] = attempt /\ \A k \in DOMAIN ran : ran'[k] = ran[k]
         /\ \A step : RanAfterFound(step) => RanAfterFound(step)'
<1>2. /\ ran' \in Seq(Attempt) /\ Len(ran) \in Nat /\ Len(ran') = Len(ran) + 1
      /\ DOMAIN ran = 1 .. Len(ran) /\ DOMAIN ran' = 1 .. Len(ran')
      /\ ran'[Len(ran')] = attempt /\ \A k \in DOMAIN ran : ran'[k] = ran[k] BY DEF SingleInv, Kinds
<1>3. ASSUME NEW step, RanAfterFound(step) PROVE RanAfterFound(step)'
  <2>1. PICK j \in DOMAIN ran :
          /\ ran[j].step = step /\ ran[j].result = "ok"
          /\ noDeps \/ \A d \in Found(step) : \E i \in 1 .. j - 1 : ran[i].step = d /\ ran[i].result = "ok"
    BY <1>3 DEF RanAfterFound
  <2> QED BY <2>1, <1>2, SelectionStays DEF RanAfterFound
<1> QED BY <1>2, <1>3

\* What a step of the scope refers to has its place before it, if all of that is earlier.
LEMMA ReadsBefore ==
  ASSUME SingleInv, singlePc = "run", Undirected, ~noDeps, NEW d \in Found(scope[cursor])
  PROVE  \E m \in 1 .. cursor - 1 : scope[m] = d
<1>1. scope # <<>> /\ cursor \in DOMAIN scope /\ queue = <<>> BY DEF SingleInv, Scoped, Kinds, SingleTypeOK
<1>2. /\ Chosen \subseteq SingleSteps /\ DOMAIN scope = 1 .. Len(scope) /\ Len(scope) \in Nat
      /\ ToSet(scope) = Chosen
      /\ \A k \in DOMAIN scope : scope[k] \in Chosen /\ scope[k] \in Nat
      /\ \A j, k \in DOMAIN scope : scope[j] < scope[k] <=> j < k
  BY <1>1, ScopeIs
<1>6. PICK m \in DOMAIN scope : scope[m] = d BY <1>2, <1>1 DEF ToSet, SingleInv, Reached, Chosen
<1> QED BY <1>6, <1>1, <1>2 DEF Undirected, Found

\* A step that succeeds has run after all that it refers to, when those before it have.
LEMMA SuccessIsOrdered ==
  ASSUME SingleInv, singlePc = "run", Undirected, UNCHANGED selection,
         NEW i, i = scope[cursor], NEW attempt \in Attempt, attempt.step = i, attempt.result = "ok",
         ran' = Append(ran, attempt)
  PROVE  RanAfterFound(i)'
<1>1. /\ Len(ran) \in Nat /\ Len(ran') = Len(ran) + 1 /\ DOMAIN ran = 1 .. Len(ran)
      /\ DOMAIN ran' = 1 .. Len(ran') /\ ran'[Len(ran')] = attempt /\ \A k \in DOMAIN ran : ran'[k] = ran[k]
  BY RanGrows
<1>2. ASSUME ~noDeps, NEW d \in Found(i)
      PROVE  \E j \in 1 .. Len(ran') - 1 : ran'[j].step = d /\ ran'[j].result = "ok"
  <2>1. PICK m \in 1 .. cursor - 1 : scope[m] = d BY <1>2, ReadsBefore
  <2>3. PICK j \in DOMAIN ran : ran[j].step = d /\ ran[j].result = "ok"
    BY <2>1 DEF RanAfterFound, SingleInv, Progress
  <2> QED BY <1>1, <2>3
<1> QED BY <1>1, <1>2, SelectionStays DEF RanAfterFound

\* Where nothing redirects the run, the place after a step is the next of the scope, and
\* there is none only at its end.
LEMMA NextPlace ==
  ASSUME SingleInv, singlePc = "run", NEW i, i = scope[cursor]
  PROVE  /\ CursorFor(i + 1) = {} => cursor = Len(scope)
         /\ \A c \in CursorFor(i + 1) : c = cursor + 1
<1> DEFINE last == Len(scope)
<1>1. scope # <<>> /\ cursor \in DOMAIN scope BY DEF SingleInv, Scoped, Kinds, SingleTypeOK
<1>2. /\ DOMAIN scope = 1 .. last /\ last \in Nat
      /\ \A k \in DOMAIN scope : scope[k] \in Nat
      /\ \A j, k \in DOMAIN scope : scope[j] < scope[k] <=> j < k
  BY <1>1, ScopeIs
<1> HIDE DEF last
<1>3. i \in Nat /\ cursor \in 1 .. last BY <1>1, <1>2
<1>4. \A k \in DOMAIN scope : scope[k] >= i + 1 <=> k > cursor
  <2> TAKE k \in DOMAIN scope
  <2> QED BY <1>3, <1>1, <1>2
<1>5. CursorFor(i + 1) = {} => cursor = last
  <2> SUFFICES ASSUME cursor # last PROVE cursor + 1 \in CursorFor(i + 1) OBVIOUS
  <2>3. \A j \in 1 .. cursor : scope[j] < i + 1
    <3> TAKE j \in 1 .. cursor
    <3> QED BY <1>3, <1>2, <1>4
  <2> QED BY <1>2, <1>3, <1>4, <2>3 DEF CursorFor
<1>6. ASSUME NEW c \in CursorFor(i + 1) PROVE c = cursor + 1
  <2>1. c \in DOMAIN scope /\ scope[c] >= i + 1 /\ \A j \in 1 .. c - 1 : scope[j] < i + 1 BY DEF CursorFor
  <2>2. c \in Nat /\ c > cursor BY <1>2, <1>4, <2>1
  <2>3. ASSUME c > cursor + 1 PROVE FALSE BY <1>2, <1>3, <2>1, <2>2, <2>3, <1>4
  <2> QED BY <1>3, <2>2, <2>3
<1> QED BY <1>5, <1>6 DEF last

\* An attempt goes where it sends the run.
LEMMA AttemptKeeps == ASSUME SingleInv, SingleAttempt PROVE SingleInv'
<1>1. /\ singlePc = "run" /\ left > 0 /\ left' = left - 1 /\ outcome = "none" /\ left \in Nat
      /\ scope # <<>> /\ cursor \in DOMAIN scope /\ counts \in Counts /\ plan \in Plans
      /\ UNCHANGED <<selection, queue, visited, scope, cancelled>>
  BY DEF SingleAttempt, SingleInv, Scoped, Kinds, SingleTypeOK
<1>2. PICK result \in {"ok", "SuccessCriteriaFailed"} :
        /\ ran' = Append(ran, [step |-> scope[cursor], result |-> result])
        /\ \E d \in Routes(wf, scope[cursor], counts, result, FALSE) : Follow(d)
  BY DEF SingleAttempt
<1>3. /\ Chosen \subseteq SingleSteps /\ DOMAIN scope = 1 .. Len(scope) /\ Len(scope) \in Nat
      /\ ToSet(scope) = Chosen
      /\ \A k \in DOMAIN scope : scope[k] \in Chosen /\ scope[k] \in Nat
      /\ \A j, k \in DOMAIN scope : scope[j] < scope[k] <=> j < k
  BY <1>1, ScopeIs
<1>4. PICK i \in SingleSteps : i \in Nat /\ i = scope[cursor] /\ i \in ToSet(scope) BY <1>1, <1>3
<1>5. PICK d \in Routes(wf, i, counts, result, FALSE) : Follow(d) BY <1>2, <1>4
<1>6. PICK attempt \in Attempt : attempt = [step |-> i, result |-> result] BY DEF Attempt
<1>7. attempt.step = i /\ attempt.result = result /\ ran' = Append(ran, attempt) BY <1>2, <1>4, <1>6
<1>8. /\ ran' \in Seq(Attempt) /\ Len(ran) \in Nat /\ Len(ran') = Len(ran) + 1
      /\ DOMAIN ran = 1 .. Len(ran) /\ DOMAIN ran' = 1 .. Len(ran')
      /\ ran'[Len(ran')] = attempt /\ \A k \in DOMAIN ran : ran'[k] = ran[k]
      /\ \A step : RanAfterFound(step) => RanAfterFound(step)'
  BY <1>1, <1>7, RanGrows
<1>9. /\ d.kind \in {"next", "done", "retry", "gotoWorkflow", "error"}
      /\ d.kind = "next" => d.step \in Sends(i, result) /\ d.step \in Nat
      /\ d.kind = "retry" => result # "ok" /\ Retries(i) /\ d.site \in Sites
      /\ d.kind = "error" => d.error \notin {"ok", "none"}
      /\ Undirected => IF result = "ok" THEN d.kind = "next" /\ d.step = i + 1 ELSE d.kind \in {"retry", "error"}
  BY <1>1, <1>4, <1>5, RoutesLead
<1> DEFINE Stops == singlePc' = "ended" /\ outcome' # "none" /\ UNCHANGED <<cursor, counts>>
                    /\ (outcome' = "ok" /\ Undirected =>
                          result = "ok" /\ cursor = Len(scope))
           GoesOn == singlePc' = "run" /\ d.kind = "next" /\ cursor' \in CursorFor(d.step)
                     /\ UNCHANGED <<outcome, counts>>
           Repeats == singlePc' = "run" /\ d.kind = "retry" /\ counts' = CountRetry(counts, d.site)
                      /\ UNCHANGED <<outcome, cursor>>
<1>11. Stops \/ GoesOn \/ Repeats
  <2>1. CASE d.kind = "done" BY <1>5, <2>1, <1>9 DEF End, Follow
  <2>2. CASE d.kind = "next"
    <3>1. GoOnTo(d.step) /\ UNCHANGED counts BY <1>5, <2>2 DEF Follow
    <3>2. CASE CursorFor(d.step) = {}
      <4>2. Undirected => result = "ok" /\ d.step = i + 1 BY <1>9, <2>2
      <4> QED BY <3>1, <3>2, <4>2, <1>1, <1>4, NextPlace DEF End, GoOnTo
    <3>3. CASE CursorFor(d.step) # {} BY <1>1, <2>2, <3>1, <3>3 DEF GoOnTo
    <3> QED BY <3>2, <3>3
  <2>3. CASE d.kind = "retry"
    <3>2. CASE counts' = CountRetry(counts, d.site) /\ UNCHANGED <<cursor, singlePc, outcome>>
      BY <1>1, <2>3, <3>2
    <3>3. CASE End("RetryReferenceFailed") /\ UNCHANGED <<counts, cursor>> BY <3>3 DEF End
    <3> QED BY <1>5, <2>3, <3>2, <3>3 DEF Again, Follow
  <2>4. CASE d.kind = "gotoWorkflow" BY <1>5, <2>4, <1>9 DEF End, Follow
  <2>5. CASE d.kind = "error" BY <1>5, <2>5, <1>9 DEF End, Follow
  <2> QED BY <1>9, <2>1, <2>2, <2>3, <2>4, <2>5
<1>12. GoesOn => /\ cursor' \in DOMAIN scope /\ scope[cursor'] >= d.step
                 /\ \A k \in DOMAIN scope : scope[k] >= d.step => scope[k] >= scope[cursor']
  <2> SUFFICES ASSUME GoesOn
               PROVE  /\ cursor' \in DOMAIN scope /\ scope[cursor'] >= d.step
                      /\ \A k \in DOMAIN scope : scope[k] >= d.step => scope[k] >= scope[cursor']
    OBVIOUS
  <2>1. /\ cursor' \in DOMAIN scope /\ scope[cursor'] >= d.step
        /\ \A j \in 1 .. cursor' - 1 : scope[j] < d.step
    BY DEF CursorFor
  <2>2. ASSUME NEW k \in DOMAIN scope, scope[k] >= d.step PROVE scope[k] >= scope[cursor']
    <3>1. k \in Nat /\ cursor' \in Nat /\ k >= 1 /\ scope[k] \in Nat /\ scope[cursor'] \in Nat /\ d.step \in Nat
      BY <1>3, <1>9, <2>1
    <3>3. ~(scope[k] < scope[cursor']) BY <1>3, <2>1, <2>2, <3>1
    <3> QED BY <3>1, <3>3
  <2> QED BY <2>1, <2>2
<1>13. Kinds'
  <2>2. SingleTypeOK'
    <3>3. visited' \subseteq SingleSteps' BY <1>1, SelectionStays DEF SingleInv, Kinds, SingleTypeOK
    <3>4. \A k \in DOMAIN ran' : ran'[k].step \in SingleSteps' BY <1>1, <1>8, SelectionStays DEF Attempt
    <3> QED BY <1>1, <1>9, <1>11, <1>12, <3>3, <3>4 DEF SingleTypeOK, CountRetry, Counts
  <2> QED BY <1>1, <1>8, <2>2, SelectionStays DEF SingleInv, Kinds
<1>15. Scoped'
  <2>3. /\ scope \in Ascending(Chosen) /\ Len(ran) + left >= 10 * Len(scope)
        /\ IF noDeps THEN Scanned(target) \subseteq {target} ELSE queue = <<>>
        /\ \A k \in DOMAIN ran : ran[k].step \in ToSet(scope)
    BY <1>1 DEF SingleInv, Scoped
  <2>4. Len(ran') + left' >= 10 * Len(scope') BY <1>1, <1>3, <1>8, <2>3
  <2>5. \A k \in DOMAIN ran' : ran'[k].step \in ToSet(scope)
    <3> TAKE k \in DOMAIN ran'
    <3>1. CASE k = Len(ran') BY <1>4, <1>7, <1>8, <3>1
    <3>2. CASE k # Len(ran') BY <1>8, <2>3, <3>2
    <3> QED BY <3>1, <3>2
  <2> QED BY <1>1, SelectionStays, <1>11, <2>3, <2>4, <2>5 DEF Scoped, Ascending, ToSet, Chosen
<1>16. Headed'
  <2> SUFFICES ASSUME singlePc' = "run" PROVE Follows(ran[Len(ran)], scope[cursor])' BY DEF Headed
  <2>1. ran'[Len(ran')] = attempt BY <1>8
  <2>2. CASE GoesOn
    <3>1. d.step \in Sends(i, result)' BY <1>1, <1>9, <2>2, SelectionStays
    <3> QED BY <1>1, <1>7, <1>12, <2>1, <2>2, <3>1 DEF Follows
  <2>3. CASE Repeats
    <3>1. Retries(i)' /\ result # "ok" BY <1>1, <1>9, <2>3, SelectionStays
    <3> QED BY <1>1, <1>4, <1>7, <2>1, <2>3, <3>1 DEF Follows
  <2> QED BY <1>11, <2>2, <2>3
<1>17. Progress'
  <2>1. Undirected' = Undirected BY <1>1, SelectionStays
  <2>2. Undirected => \A k \in 1 .. cursor - 1 : RanAfterFound(scope[k])'
    <3> SUFFICES ASSUME Undirected, NEW k \in 1 .. cursor - 1 PROVE RanAfterFound(scope[k])' OBVIOUS
    <3> QED BY <1>1, <1>8 DEF SingleInv, Progress
  <2>4. Undirected /\ result = "ok" => \A k \in 1 .. cursor : RanAfterFound(scope[k])'
    <3> SUFFICES ASSUME Undirected, result = "ok", NEW k \in 1 .. cursor PROVE RanAfterFound(scope[k])'
      OBVIOUS
    <3>1. CASE k = cursor BY <1>1, <1>4, <1>7, SuccessIsOrdered, <3>1
    <3>2. CASE k # cursor BY <2>2, <1>1, <1>3, <3>2
    <3> QED BY <3>1, <3>2
  <2>5. Undirected /\ GoesOn => result = "ok" /\ cursor' = cursor + 1
    <3> SUFFICES ASSUME Undirected, GoesOn PROVE result = "ok" /\ cursor' = cursor + 1 OBVIOUS
    <3> QED BY <1>1, <1>4, <1>9, NextPlace
  <2>6. Undirected' /\ singlePc' = "run" => \A k \in 1 .. cursor' - 1 : RanAfterFound(scope[k])'
    <3> SUFFICES ASSUME Undirected, singlePc' = "run", NEW k \in 1 .. cursor' - 1
                 PROVE  RanAfterFound(scope[k])'
      BY <2>1
    <3>1. CASE GoesOn BY <2>4, <1>1, <1>3, <2>5, <3>1
    <3>2. CASE Repeats BY <2>2, <3>2
    <3> QED BY <1>11, <3>1, <3>2
  <2>7. RunsInDependencyOrder'
    <3> SUFFICES ASSUME outcome' = "ok", Undirected
                 PROVE  \A k \in DOMAIN scope' : RanAfterFound(scope[k])'
      BY <2>1 DEF RunsInDependencyOrder
    <3> QED BY <2>4, <1>1, <1>3, <1>11
  <2> QED BY <2>6, <2>7 DEF Progress
<1> QED BY <1>13, <1>1, SelectionStays, <1>15, <1>16, <1>17 DEF SingleInv, Reached, ToSet

\* What the run is about stays when only the cancellation changes.
LEMMA SingleRests ==
  ASSUME SingleInv, UNCHANGED <<selection, singlePc, queue, visited, scope, cursor, left, counts, ran, outcome>>
  PROVE  SingleInv'
<1>5. Headed' BY SelectionStays DEF SingleInv, Headed, Follows
<1>6. Progress' BY SelectionStays, RanStays DEF SingleInv, Progress, RunsInDependencyOrder
<1> QED BY SelectionStays, <1>5, <1>6 DEF SingleInv, Kinds, SingleTypeOK, Reached, ToSet, Scoped, Ascending, Chosen

\* Every step keeps the invariant.
LEMMA SingleKeeps == SingleInv /\ [SingleNext]_singleVars => SingleInv'
<1> SUFFICES ASSUME SingleInv, [SingleNext]_singleVars PROVE SingleInv' OBVIOUS
<1>1. CASE Visit BY <1>1, VisitKeeps
<1>2. CASE Select BY <1>2, SelectKeeps
<1>3. CASE Arm BY <1>3, ArmKeeps
<1>4. CASE SingleAttempt BY <1>4, AttemptKeeps
<1>5. CASE SingleFinish BY <1>5, FinishKeeps
<1>6. CASE Cancel BY <1>6, SingleRests DEF Cancel
<1>7. CASE UNCHANGED singleVars BY <1>7, SingleRests DEF singleVars, selection
<1> QED BY <1>1, <1>2, <1>3, <1>4, <1>5, <1>6, <1>7 DEF SingleNext, Advance

(***************************************************************************)
(* What the invariant says of the scope and of the attempts                *)
(***************************************************************************)
\* When the search is over it has found exactly what the selected step is found to refer to.
LEMMA FoundIsReach ==
  ASSUME SingleInv, queue = <<>> PROVE visited \union {target} = {target} \union FoundReach
<1>2. \A i \in {target} \union visited : Found(i) \subseteq {target} \union visited BY DEF SingleInv, Reached, ToSet
<1>4. FoundReach \subseteq {target} \union visited BY <1>2, ReachIs DEF SingleInv, Kinds, SingleTypeOK
<1> QED BY <1>4 DEF SingleInv, Reached

\* The invariant decides what is asked of every state.
LEMMA InvariantDecides ==
  SingleInv => SingleTypeOK /\ ScopeIsClosure /\ ScopeHasNeeds /\ OnlyScopeRuns /\ RunsInDependencyOrder
<1> SUFFICES ASSUME SingleInv
             PROVE  SingleTypeOK /\ ScopeIsClosure /\ ScopeHasNeeds /\ OnlyScopeRuns /\ RunsInDependencyOrder
  OBVIOUS
<1>1. scope # <<>> => ToSet(scope) = {target} \union (IF noDeps THEN {} ELSE FoundReach)
  <2> SUFFICES ASSUME scope # <<>> PROVE ToSet(scope) = {target} \union (IF noDeps THEN {} ELSE FoundReach)
    OBVIOUS
  <2> QED BY ScopeIs, FoundIsReach DEF Chosen, SingleInv, Scoped
<1>3. OnlyScopeRuns
  <2> SUFFICES ASSUME ran # <<>>
               PROVE  /\ \A k \in DOMAIN ran : ran[k].step \in {target} \union FoundReach
                      /\ noDeps => Scanned(target) \subseteq {target} /\ \A k \in DOMAIN ran : ran[k].step = target
    BY DEF OnlyScopeRuns
  <2>1. \A k \in DOMAIN ran : ran[k].step \in ToSet(scope) BY DEF SingleInv, Scoped
  <2>2. scope # <<>> BY <2>1 DEF ToSet, SingleInv, Kinds
  <2> QED BY <1>1, <2>1, <2>2 DEF SingleInv, Scoped
<1>4. ScopeHasNeeds
  <2> SUFFICES ASSUME NEW k \in DOMAIN scope, NEW j \in Needs(scope[k]), j \notin ToSet(scope),
                      ~Overlooked(scope[k], j)
               PROVE  FALSE
    BY DEF ScopeHasNeeds
  <2>1. j \in Found(scope[k]) BY DEF Found, Scanned, Needs, Overlooked
  <2>2. scope[k] \in ToSet(scope) /\ scope # <<>> BY DEF ToSet, SingleInv, Kinds
  <2>3. CASE noDeps
    <3>1. scope[k] = target /\ ToSet(scope) = {target} BY <1>1, <2>2, <2>3
    <3>2. Scanned(target) \subseteq {target} BY <2>2, <2>3 DEF SingleInv, Scoped
    <3> QED BY <3>1, <3>2, <2>1 DEF Found
  <2>4. CASE ~noDeps
    <3>1. ToSet(scope) = {target} \union FoundReach BY <1>1, <2>2, <2>4
    <3> QED BY <3>1, <2>1, <2>2, ReachIs
  <2> QED BY <2>3, <2>4
<1> QED BY <1>1, <1>3, <1>4 DEF SingleInv, Kinds, Progress, Scoped, ScopeIsClosure

\* An attempt follows the last one where that sent the run.
LEMMA FollowsIsKept ==
  SingleInv /\ [SingleNext]_singleVars =>
    [\A i \in DOMAIN ran : i = Len(ran) /\ Len(ran') = i + 1 =>
       LET next == ran'[i + 1].step IN
       \/ ran[i].result # "ok" /\ Retries(ran[i].step) /\ next = ran[i].step
       \/ \E to \in Sends(ran[i].step, ran[i].result) :
            next >= to /\ \A k \in DOMAIN scope : scope[k] >= to => scope[k] >= next]_singleVars
<1> SUFFICES ASSUME SingleInv, [SingleNext]_singleVars,
                    NEW i \in DOMAIN ran, i = Len(ran), Len(ran') = i + 1
             PROVE  LET next == ran'[i + 1].step IN
                    \/ ran[i].result # "ok" /\ Retries(ran[i].step) /\ next = ran[i].step
                    \/ \E to \in Sends(ran[i].step, ran[i].result) :
                         next >= to /\ \A k \in DOMAIN scope : scope[k] >= to => scope[k] >= next
  OBVIOUS
<1>1. ran \in Seq(Attempt) /\ Len(ran) \in Nat /\ DOMAIN ran = 1 .. Len(ran) BY DEF SingleInv, Kinds
<1>3. SingleAttempt BY <1>1 DEF SingleNext, Advance, Visit, Select, Arm, SingleFinish, Cancel, singleVars
<1>4. PICK result : ran' = Append(ran, [step |-> scope[cursor], result |-> result]) BY <1>3 DEF SingleAttempt
<1> QED BY <1>1, <1>4, <1>3 DEF Follows, SingleAttempt, SingleInv, Headed

\* A single step runs with exactly what it is found to refer to, whatever that is and
\* whatever cycles it has, which is all it needs but what the search overlooks; what
\* succeeds undirected has run in the order of these; and one attempt follows another
\* only where it was sent (execute_step_inner, compute_transitive_deps).
THEOREM ScopeIsExact == SingleSpec => ScopeRunsExactly
<1>1. SingleInv => SingleTypeOK /\ ScopeIsClosure /\ ScopeHasNeeds /\ OnlyScopeRuns /\ RunsInDependencyOrder
  BY InvariantDecides
<1> QED BY <1>1, SingleBegins, SingleKeeps, FollowsIsKept, PTL
    DEF SingleSpec, ScopeRunsExactly, AttemptsFollow

-----------------------------------------------------------------------------
(***************************************************************************)
(* The run command.  Its stages go one way, and what a later stage reports *)
(* is still untouched in an earlier one; the destination of the export is  *)
(* known to be another file than the inputs and the trace before anything  *)
(* is written; and what was written is there until the command ends.       *)
(***************************************************************************)
Early == {"destination", "parse", "sources", "build", "run"}
Stages == Early \union {"trace", "export", "report", "exited", "crashed"}
RunErrors == {"none", "SuccessCriteriaFailed", "ExecutionTimeout"}
Refusals == {"RUN_EXPORT_PATH", "RUN_KAFKA_CREDENTIALS", "RUN_SPEC_VALIDATION", "RUN_INPUT_FORMAT",
             "RUN_OPENAPI_READ_FILE", "SourceDescriptionLoad"}

CommandTyped ==
  /\ line \in Lines /\ runPc \in Stages /\ diagnostics \in BOOLEAN
  /\ runError \in RunErrors /\ traceError \in {"none", "trace"} /\ exportError \in {"none", "export"}

\* Nothing has failed that has not been tried.
Untried ==
  /\ runPc \in Early => runError = "none"
  /\ runPc \in Early \union {"trace"} => traceError = "none"
  /\ runPc \in Early \union {"trace", "export"} => exportError = "none"
  /\ runPc # "exited" => code = "none" /\ causes = <<>> /\ shown = "nothing"
  /\ runPc \in Early \union {"trace", "report"} => temp["export"] = "none"
  /\ \A a \in Artifacts : temp[a] # "none" => Destination(a) # NoPath

Apart ==
  runPc \in {"build", "run", "trace", "export", "report"} =>
    ~Collides({line.spec, line.openapi, line.source})

\* What has been written without a failure.
Written(a) == Destination(a) # NoPath => disk[Named(Destination(a))] = a
Kept ==
  /\ runPc \in {"export", "report"} /\ traceError = "none" => Written("trace")
  /\ runPc = "report" /\ exportError = "none" => Written("export")

RunInv == CommandTyped /\ Untried /\ Apart /\ Kept /\ RunTellsTruth

\* Every name leads to a file that holds it.
LEMMA NamedIsFile ==
  ASSUME NEW n \in UNION RunFiles
  PROVE  Named(n) \in RunFiles
  BY DEF Named

LEMMA CommandNames ==
  ASSUME CommandTyped
  PROVE  /\ {line.spec, line.openapi, line.source} \subseteq UNION RunFiles
         /\ \A n \in {line.spec, line.openapi, line.source} : Named(n) \in RunFiles
         /\ \A a \in Artifacts : Destination(a) # NoPath => Named(Destination(a)) \in RunFiles
<1>1. {line.spec, line.openapi, line.source} \subseteq UNION RunFiles
      /\ {line.trace, line.export} \ {NoPath} \subseteq UNION RunFiles
  BY RunAssumption DEF CommandTyped
<1>3. ASSUME NEW a \in Artifacts, Destination(a) # NoPath
      PROVE  Named(Destination(a)) \in RunFiles BY <1>1, <1>3, NamedIsFile DEF Destination
<1> QED BY <1>1, NamedIsFile, <1>3

LEMMA RunBegins == RunInit => RunInv
<1> SUFFICES ASSUME RunInit PROVE RunInv
  OBVIOUS
<1>1. CommandTyped
  BY DEF RunInit, CommandTyped, Stages, Early, RunErrors
<1>4. disk \in [RunFiles -> {"input", "old", Absent}]
      /\ \A f \in RunFiles : disk[f] = "input" <=> f \in {Named(n) : n \in {line.spec, line.openapi, line.source}}
  BY DEF RunInit
<1>5. RunTypeOK
  BY <1>4 DEF RunInit, RunTypeOK, Holding, Artifacts
<1>6. NoTornArtifact
  BY <1>4 DEF NoTornArtifact
<1>7. InputsSurvive
  BY <1>1, <1>4, CommandNames DEF InputsSurvive
<1>8. TraceSurvives /\ SuccessIsWhole /\ NoFailureHidden /\ NoExportTempLeft
  BY DEF RunInit, TraceSurvives, SuccessIsWhole, NoFailureHidden, NoExportTempLeft
<1> QED BY <1>1, <1>5, <1>6, <1>7, <1>8 DEF RunInv, RunTellsTruth, RunInit, Untried, Early, Artifacts, Apart, Kept

\* As long as no line is changed its files are the same.
LEMMA SameFiles ==
  ASSUME line' = line
  PROVE  /\ \A a : Destination(a)' = Destination(a)
         /\ Collides({line.spec, line.openapi, line.source})' = Collides({line.spec, line.openapi, line.source})
  BY DEF Destination, Collides, Alias

\* A step that writes no file leaves the files as they should be.
LEMMA FilesAreKept ==
  ASSUME RunInv, UNCHANGED <<line, disk>>
  PROVE  NoTornArtifact' /\ InputsSurvive' /\ \A a : Written(a)' = Written(a)
  BY SameFiles DEF Written, RunInv, RunTellsTruth, NoTornArtifact, InputsSurvive, Alias

\* Before anything is written, the command is refused, which says so, or goes on.
LEMMA EarlyKeeps ==
  ASSUME RunInv, UNCHANGED <<line, failures, temp, disk>>, runPc \in Early,
         \/ \E error \in Refusals : \E why : why # <<>> /\ RunFail(error, why)
         \/ /\ runPc' \in Early /\ UNCHANGED ending
            /\ runPc' \in {"build", "run"} => ~Collides({line.spec, line.openapi, line.source})
  PROVE  RunInv'
<1> USE DEF failures, ending
<1>4. Kept'
  BY DEF Kept, RunFail, Early
<1>5. runError = "none" /\ traceError = "none" /\ exportError = "none" /\ temp["export"] = "none"
      /\ code = "none" /\ causes = <<>> /\ shown = "nothing"
  BY DEF RunInv, Untried, Early
<1>6. Untried'
  BY <1>5, SameFiles DEF RunInv, Untried, RunFail
<1>7. RunTypeOK'
  BY <1>5 DEF RunInv, RunTellsTruth, RunTypeOK, RunFail
<1>8. TraceSurvives' /\ SuccessIsWhole' /\ NoFailureHidden' /\ NoExportTempLeft'
  BY <1>5 DEF TraceSurvives, SuccessIsWhole, NoFailureHidden, NoExportTempLeft, RunFail, Early, Refusals
<1> QED
  BY FilesAreKept, SameFiles, <1>4, <1>6, <1>7, <1>8 DEF RunInv, RunTellsTruth, CommandTyped, Stages, Early,
     RunFail, Apart

\* While it runs, nothing that is said of its end has been decided.
LEMMA NotAtItsEnd ==
  ASSUME runPc \notin {"export", "report", "exited"}
  PROVE  TraceSurvives /\ SuccessIsWhole /\ NoFailureHidden /\ NoExportTempLeft
  BY DEF TraceSurvives, SuccessIsWhole, NoFailureHidden, NoExportTempLeft

LEMMA StagesKeep ==
  ASSUME RunInv, CheckDestination \/ RunParse \/ CheckSources \/ RunBuild
  PROVE  RunInv'
<1>1. CASE CheckDestination
  BY <1>1, EarlyKeeps DEF CheckDestination, Early, Refusals
<1>2. CASE RunParse BY <1>2, EarlyKeeps DEF RunParse, Early, Refusals
<1>3. CASE CheckSources
  BY <1>3, EarlyKeeps DEF CheckSources, Early, Refusals
<1>4. CASE RunBuild BY <1>4, EarlyKeeps DEF RunBuild, Early, RunInv, Apart, Refusals
<1> QED BY <1>1, <1>2, <1>3, <1>4

LEMMA RunKeepsFiles ==
  ASSUME RunInv, Run \/ Crash
  PROVE  RunInv'
<1> USE DEF failures, ending
<1>0. UNCHANGED <<line, disk, temp, shown, code, causes, traceError, exportError>>
      /\ runPc' \in {"trace", "crashed"} /\ runPc # "exited"
  BY DEF Run, Crash
<1>1. NoTornArtifact' /\ InputsSurvive'
  BY <1>0, FilesAreKept
<1>3. Apart' BY <1>0, SameFiles DEF RunInv, Apart, Run, Crash
<1>4. Kept'
  BY <1>0 DEF Kept
<1>5. Untried' BY <1>0, SameFiles DEF RunInv, Untried, Early, Run, Crash
<1>6. RunTypeOK'
  BY <1>0 DEF RunInv, RunTellsTruth, RunTypeOK, Untried
<1>7. TraceSurvives' /\ SuccessIsWhole' /\ NoFailureHidden' /\ NoExportTempLeft'
  BY <1>0 DEF TraceSurvives, SuccessIsWhole, NoFailureHidden, NoExportTempLeft
<1> QED
  BY <1>1, <1>3, <1>4, <1>5, <1>6, <1>7 DEF RunInv, RunTellsTruth, CommandTyped, Stages, Early, RunErrors, Run,
     Crash

\* What the writing of an artifact does, whichever part of it: a failure is noted when it
\* is given up, and its place is taken only when it is whole.
LEMMA ArtifactStep ==
  ASSUME RunInv, NEW a \in Artifacts, RunWrite(a)
  PROVE  /\ UNCHANGED <<line, shown, code, causes, runError, diagnostics>>
         /\ runPc = a /\ (runPc' = a \/ runPc' = After(a))
         /\ (a = "trace" => UNCHANGED exportError) /\ (a = "export" => UNCHANGED traceError)
         /\ traceError' \in {traceError, "trace"} /\ exportError' \in {exportError, "export"}
         /\ runPc' = a => UNCHANGED <<traceError, exportError, disk>>
         /\ \/ UNCHANGED disk
            \/ /\ Destination(a) # NoPath /\ disk' = [disk EXCEPT ![Named(Destination(a))] = a]
         /\ runPc' = After(a) /\ Destination(a) # NoPath =>
              \/ a = "trace" /\ traceError' = "trace"
              \/ a = "export" /\ exportError' = "export"
              \/ disk' = [disk EXCEPT ![Named(Destination(a))] = a]
<1> USE DEF failures, ending
<1>2. CASE Skip(a)
  BY <1>2 DEF Skip, Artifacts
<1>3. CASE Create(a)
  BY <1>3 DEF Create, Failed, Artifacts, After
<1>4. CASE WriteTemp(a)
  BY <1>4 DEF WriteTemp, Failed, Artifacts, After
<1>5. CASE Rename(a) BY <1>5 DEF Rename, Failed, Artifacts, After, RunInv, Untried
<1> QED BY <1>2, <1>3, <1>4, <1>5 DEF RunWrite

LEMMA ArtifactTemp ==
  ASSUME RunInv, NEW a \in Artifacts, RunWrite(a)
  PROVE  /\ temp' \in [Artifacts -> {"none", "partial", "whole"}]
         /\ \A b \in Artifacts : b # a => temp'[b] = temp[b]
         /\ temp'[a] # "none" => Destination(a) # NoPath
         /\ a = "export" /\ runPc' = "report" => temp'["export"] = "none"
<1>1. temp \in [Artifacts -> {"none", "partial", "whole"}]
  BY DEF RunInv, RunTellsTruth, RunTypeOK
<1>2. \A b \in Artifacts : temp[b] # "none" => Destination(b) # NoPath
  BY DEF RunInv, Untried
<1>3. CASE Skip(a)
  BY <1>1, <1>2, <1>3 DEF Skip
<1>4. CASE Create(a)
  BY <1>1, <1>4 DEF Create, Artifacts
<1>5. CASE WriteTemp(a)
  BY <1>1, <1>2, <1>5 DEF WriteTemp, Artifacts
<1>6. CASE Rename(a)
  BY <1>1, <1>6 DEF Rename, Artifacts
<1> QED BY <1>3, <1>4, <1>5, <1>6 DEF RunWrite

LEMMA ArtifactFiles ==
  ASSUME RunInv, NEW a \in Artifacts, RunWrite(a)
  PROVE  disk' \in [RunFiles -> Holding] /\ NoTornArtifact' /\ InputsSurvive'
<1>1. disk \in [RunFiles -> Holding] /\ NoTornArtifact /\ InputsSurvive /\ CommandTyped
  BY DEF RunInv, RunTellsTruth, RunTypeOK
<1>2. line' = line /\ runPc = a /\ \A b : Destination(b)' = Destination(b)
  BY ArtifactStep, SameFiles
<1>3. CASE UNCHANGED disk
  BY <1>1, <1>2, <1>3, FilesAreKept
<1>4. CASE Destination(a) # NoPath /\ disk' = [disk EXCEPT ![Named(Destination(a))] = a]
  <2>3. ASSUME NEW n \in {line.spec, line.openapi, line.source}
        PROVE  \/ disk'[Named(n)] = "input"
               \/ line.trace # NoPath /\ Alias(n, line.trace) /\ disk'[Named(n)] = "trace"
    <3>1. Named(n) \in RunFiles /\ n \in UNION RunFiles
      BY <1>1, CommandNames
    <3>2. \/ disk[Named(n)] = "input"
          \/ line.trace # NoPath /\ Alias(n, line.trace) /\ disk[Named(n)] = "trace"
      BY <1>1 DEF InputsSurvive
    <3>3. CASE a = "trace"
      BY <1>1, <1>4, <3>1, <3>2, <3>3 DEF Alias, Destination
    <3>4. CASE a = "export" BY <1>1, <1>4, <3>1, <3>2, <3>4, <1>2 DEF Destination, RunInv, Apart, Collides, Alias
    <3> QED BY <3>3, <3>4 DEF Artifacts
  <2> QED BY <1>1, <1>4, <1>2, <2>3 DEF Holding, Artifacts, NoTornArtifact, InputsSurvive, Alias
<1> QED BY <1>3, <1>4, ArtifactStep

\* What was written stays: the export goes to another file than the trace.
LEMMA ArtifactKept ==
  ASSUME RunInv, NEW a \in Artifacts, RunWrite(a)
  PROVE  Kept'
<1>1. disk \in [RunFiles -> Holding] /\ CommandTyped /\ Kept
  BY DEF RunInv, RunTellsTruth, RunTypeOK
<1>2. line' = line /\ runPc = a /\ (runPc' = a \/ runPc' = After(a)) /\ \A b : Destination(b)' = Destination(b)
  BY ArtifactStep, SameFiles
<1>3. \A b \in Artifacts : Destination(b) # NoPath => Named(Destination(b)) \in RunFiles
  BY <1>1, CommandNames
<1>4. CASE a = "trace"
  <2>2. ASSUME runPc' = "export", traceError' = "none", Destination("trace") # NoPath
        PROVE  disk'[Named(Destination("trace"))] = "trace"
    BY <1>1, <1>3, <1>4, <2>2, ArtifactStep DEF Artifacts, After
  <2> QED BY <1>2, <1>4, <2>2 DEF Kept, Written, After
<1>5. CASE a = "export"
  <2>1. ASSUME traceError' = "none", Destination("trace") # NoPath
        PROVE  disk'[Named(Destination("trace"))] = "trace"
    <3>1. disk[Named(Destination("trace"))] = "trace"
      BY <1>1, <1>2, <1>5, <2>1, ArtifactStep DEF Kept, Written
    <3>2. CASE UNCHANGED disk
      BY <3>1, <3>2
    <3>3. CASE Destination(a) # NoPath /\ disk' = [disk EXCEPT ![Named(Destination(a))] = a]
      <4>1. Named(Destination("trace")) # Named(Destination(a))
        BY <1>2, <1>5, <2>1, <3>3 DEF RunInv, Apart, Collides, Alias, Destination
      <4> QED BY <1>1, <1>3, <2>1, <3>1, <3>3, <4>1 DEF Artifacts
    <3> QED BY <3>2, <3>3, ArtifactStep
  <2>2. ASSUME runPc' = "report", exportError' = "none", Destination("export") # NoPath
        PROVE  disk'[Named(Destination("export"))] = "export"
    BY <1>1, <1>3, <1>5, <2>2, ArtifactStep DEF Artifacts, After
  <2> QED BY <1>2, <2>1, <2>2 DEF Kept, Written
<1> QED BY <1>4, <1>5 DEF Artifacts

LEMMA ArtifactKeeps ==
  ASSUME RunInv, NEW a \in Artifacts, RunWrite(a)
  PROVE  RunInv'
<1>1. /\ UNCHANGED <<line, shown, code, causes, runError, diagnostics>>
      /\ runPc = a /\ (runPc' = a \/ runPc' = After(a))
      /\ (a = "trace" => UNCHANGED exportError) /\ (a = "export" => UNCHANGED traceError)
      /\ traceError' \in {traceError, "trace"} /\ exportError' \in {exportError, "export"}
      /\ runPc' = a => UNCHANGED <<traceError, exportError, disk>>
  BY ArtifactStep
<1>2. disk' \in [RunFiles -> Holding] /\ NoTornArtifact' /\ InputsSurvive' /\ Kept'
  BY ArtifactFiles, ArtifactKept
<1>3. CommandTyped'
  BY <1>1 DEF RunInv, CommandTyped, Artifacts, After, Stages
<1>4. Apart'
  BY <1>1, SameFiles DEF RunInv, Apart, Artifacts
<1>5. code = "none" /\ causes = <<>> /\ shown = "nothing"
  BY <1>1 DEF RunInv, Untried, Artifacts
<1>6. Untried' BY <1>1, <1>5, ArtifactTemp, SameFiles DEF Untried, RunInv, Early, Artifacts, After
<1>7. RunTypeOK'
  BY <1>1, <1>2, <1>5, ArtifactTemp DEF RunTypeOK
<1>8. runPc' # "exited" /\ (runPc' = "export" \/ runPc' = "report" \/ runPc' = "trace")
  BY <1>1 DEF Artifacts, After
<1>9. TraceSurvives'
  <2>1. ASSUME runPc' \in {"export", "report"}, line'.trace # NoPath, traceError' = "none"
        PROVE  disk'[Named(line'.trace)] = "trace"
    BY <1>2, <2>1 DEF Kept, Written, Destination
  <2> QED BY <1>8, <2>1 DEF TraceSurvives
<1>10. SuccessIsWhole' /\ NoFailureHidden' /\ NoExportTempLeft'
  BY <1>8 DEF SuccessIsWhole, NoFailureHidden, NoExportTempLeft
<1> QED BY <1>2, <1>3, <1>4, <1>6, <1>7, <1>9, <1>10 DEF RunInv, RunTellsTruth

\* What failures say, put together in their order.
Says(s, x) == \E n \in DOMAIN s : s[n] = x

LEMMA BothAreHeld ==
  ASSUME NEW S, NEW s \in Seq(S), NEW t \in Seq(S)
  PROVE  s \o t \in Seq(S) /\ \A x : Says(s, x) \/ Says(t, x) => Says(s \o t, x)
<1>1. s \o t \in Seq(S) /\ Len(s \o t) = Len(s) + Len(t) /\ Len(s) \in Nat /\ Len(t) \in Nat
      /\ \A i \in 1 .. Len(s) + Len(t) : (s \o t)[i] = IF i <= Len(s) THEN s[i] ELSE t[i - Len(s)]
  OBVIOUS
<1>2. ASSUME NEW x, Says(s, x)
      PROVE  Says(s \o t, x)
  <2>1. PICK n \in 1 .. Len(s) : s[n] = x BY <1>2 DEF Says
  <2> QED BY <1>1, <2>1 DEF Says
<1>3. ASSUME NEW x, Says(t, x)
      PROVE  Says(s \o t, x)
  <2>1. PICK n \in 1 .. Len(t) : t[n] = x BY <1>3 DEF Says
  <2>2. Len(s) + n \in DOMAIN (s \o t) /\ (s \o t)[Len(s) + n] = x BY <1>1, <2>1
  <2> QED BY <1>1, <2>2 DEF Says
<1> QED BY <1>1, <1>2, <1>3

LEMMA SaidHolds ==
  ASSUME NEW S, NEW e \in S
  PROVE  Said(e) \in Seq(S) /\ (e # "none" => Says(Said(e), e))
  BY DEF Said, Says

LEMMA AllIsSaid ==
  ASSUME NEW e, NEW f, NEW g
  PROVE  /\ \A x \in {e, f} \ {"none"} : Says(Said(e) \o Said(f), x)
         /\ \A x \in {e, f, g} \ {"none"} : Says(Said(e) \o Said(f) \o Said(g), x)
<1> DEFINE S == {e, f, g}
<1> DEFINE a == Said(e)
<1> DEFINE b == Said(f)
<1> DEFINE c == Said(g)
<1>1. a \in Seq(S) /\ (e # "none" => Says(a, e)) BY SaidHolds
<1>2. b \in Seq(S) /\ (f # "none" => Says(b, f)) BY SaidHolds
<1>3. c \in Seq(S) /\ (g # "none" => Says(c, g)) BY SaidHolds
<1> HIDE DEF a, b, c, S
<1>4. a \o b \in Seq(S) /\ \A x : Says(a, x) \/ Says(b, x) => Says(a \o b, x)
  BY <1>1, <1>2, BothAreHeld
<1> DEFINE d == a \o b
<1>5. d \in Seq(S) BY <1>4
<1> HIDE DEF d
<1> QED BY <1>1, <1>2, <1>4, <1>3, <1>5, BothAreHeld DEF a, b, c, d

LEMMA SaysSomething ==
  ASSUME NEW s, NEW x, Says(s, x)
  PROVE  s # << >>
  BY DEF Says

(***************************************************************************)
(* The end.  What the command exits with names every failure, whichever of *)
(* them gives the code.                                                    *)
(***************************************************************************)
LEMMA ReportEnds ==
  ASSUME RunInv, Report
  PROVE  /\ runPc' = "exited" /\ UNCHANGED <<line, failures, temp, disk>>
         /\ shown' \in {"nothing", "outputs", "requests"}
         /\ code' # "none" => shown' = "nothing" /\ causes' # << >>
         /\ \A e \in {runError, traceError, exportError} \ {"none"} : Says(causes', e)
         /\ code' = "none" =>
              /\ runError = "none" /\ traceError = "none" /\ exportError = "none"
              /\ shown' # "nothing" /\ ~(diagnostics /\ line.strict)
<1>1. code = "none" /\ causes = << >> /\ shown = "nothing" /\ runPc = "report"
  BY DEF RunInv, Untried, Report
<1>3. UNCHANGED <<line, failures, temp, disk>>
  BY DEF Report
<1>4. CASE exportError # "none"
  <2>1. RunFail("RUN_EXPORT_WRITE", Said(runError) \o Said(traceError) \o Said(exportError))
    BY <1>4 DEF Report
  <2>2. \A e \in {runError, traceError, exportError} \ {"none"} : Says(causes', e)
    BY <2>1, AllIsSaid DEF RunFail
  <2>3. causes' # << >>
    BY <1>4, <2>2, SaysSomething
  <2> QED BY <1>1, <1>3, <2>1, <2>2, <2>3 DEF RunFail
<1>5. CASE exportError = "none" /\ traceError # "none"
  <2>1. RunFail("RUN_TRACE_WRITE", Said(runError) \o Said(traceError))
    BY <1>5 DEF Report
  <2>2. \A e \in {runError, traceError, exportError} \ {"none"} : Says(causes', e)
    BY <1>5, <2>1, AllIsSaid DEF RunFail
  <2>3. causes' # << >>
    BY <1>5, <2>2, SaysSomething
  <2> QED BY <1>1, <1>3, <2>1, <2>2, <2>3 DEF RunFail
<1>6. CASE exportError = "none" /\ traceError = "none" /\ runError # "none"
  BY <1>1, <1>3, <1>6 DEF RunFail, Says, Report
<1>7. CASE exportError = "none" /\ traceError = "none" /\ runError = "none"
  <2> USE DEF Says
  <2>1. CASE diagnostics /\ line.strict
    BY <1>1, <1>3, <1>7, <2>1 DEF Report, RunFail
  <2>2. CASE ~(diagnostics /\ line.strict)
    BY <1>1, <1>3, <1>7, <2>2 DEF Report, RunFail
  <2> QED BY <2>1, <2>2
<1> QED BY <1>4, <1>5, <1>6, <1>7

LEMMA ReportKeeps ==
  ASSUME RunInv, Report
  PROVE  RunInv'
<1> USE DEF failures
<1>1. runPc = "report" /\ runPc' = "exited" /\ UNCHANGED <<line, failures, temp, disk>>
  BY ReportEnds DEF Report
<1>2. NoTornArtifact' /\ InputsSurvive'
  BY <1>1, FilesAreKept
<1>3. CommandTyped'
  BY <1>1 DEF RunInv, CommandTyped, Stages
<1>4. Apart' /\ Kept'
  BY <1>1 DEF Apart, Kept
<1>5. Untried'
  BY <1>1, SameFiles DEF RunInv, Untried, Early
<1>6. RunTypeOK'
  BY <1>1, ReportEnds DEF RunInv, RunTellsTruth, RunTypeOK
<1>7. Kept /\ temp["export"] = "none"
  BY <1>1 DEF RunInv, Untried
<1>8. TraceSurvives' /\ NoExportTempLeft'
  BY <1>1, <1>7 DEF TraceSurvives, NoExportTempLeft, Kept, Written, Destination
<1>9. SuccessIsWhole'
  <2>1. ASSUME code' = "none", NEW a \in Artifacts, Destination(a) # NoPath
        PROVE  disk[Named(Destination(a))] = a
    BY <1>1, <1>7, <2>1, ReportEnds DEF Kept, Written, Artifacts
  <2> QED BY <1>1, <2>1, SameFiles, ReportEnds DEF SuccessIsWhole
<1>10. NoFailureHidden'
  BY <1>1, ReportEnds DEF NoFailureHidden, Says
<1> QED BY <1>2, <1>3, <1>4, <1>5, <1>6, <1>8, <1>9, <1>10 DEF RunInv, RunTellsTruth

LEMMA RunKeeps == RunInv /\ [RunNext]_runVars => RunInv'
<1> SUFFICES ASSUME RunInv, [RunNext]_runVars PROVE RunInv'
  OBVIOUS
<1>1. CASE UNCHANGED runVars
  <2> USE <1>1 DEF runVars
  <2>4. TraceSurvives' /\ NoFailureHidden' /\ NoExportTempLeft'
    BY DEF RunInv, RunTellsTruth, TraceSurvives, NoFailureHidden, NoExportTempLeft
  <2>5. SuccessIsWhole'
    BY SameFiles DEF RunInv, RunTellsTruth, SuccessIsWhole
  <2> QED
    BY SameFiles, FilesAreKept, <2>4, <2>5 DEF RunInv, RunTellsTruth, CommandTyped, RunTypeOK, Untried, Apart, Kept
<1>2. CASE CheckDestination \/ RunParse \/ CheckSources \/ RunBuild
  BY <1>2, StagesKeep
<1>3. CASE Run \/ Crash
  BY <1>3, RunKeepsFiles
<1>4. CASE Report
  BY <1>4, ReportKeeps
<1>5. CASE \E a \in Artifacts : RunWrite(a)
  BY <1>5, ArtifactKeeps
<1> QED BY <1>1, <1>2, <1>3, <1>4, <1>5 DEF RunNext

\* Whatever the run command is given and whenever it dies, its exit is the truth about the
\* run, no artifact is half written, and neither the inputs nor the trace are lost to the
\* export (run_workflow, write_atomic, validate_destination).
THEOREM RunIsTold == RunSpec => []RunTellsTruth
<1>1. RunInv => RunTellsTruth
  BY DEF RunInv
<1> QED BY <1>1, RunBegins, RunKeeps, PTL DEF RunSpec

-----------------------------------------------------------------------------
(***************************************************************************)
(* Replay.  Attempts with a request are a part of a step's buffer, in its  *)
(* order; the trace has all that is in the buffers it was merged from, in  *)
(* the order of each; so that what has been loaded of it are the first     *)
(* requests of each step.  What a step has taken, holds and will find are  *)
(* then its requests, one after the other.                                 *)
(***************************************************************************)
Ending == Answers \union Failures
Lived(s) == IF stage = "live" THEN done[s] ELSE live[s]
Taken(s) == Len(done[s]) + Len(held[s])

ReplayTyped ==
  /\ stage \in {"live", "replay"} \union Ended
  /\ asks \in [ReplaySteps -> ReplayRequests] /\ limit \in 1 .. MaxAttempts
  /\ tolerant \in BOOLEAN /\ changed \in BOOLEAN
  /\ done \in [ReplaySteps -> Seq(Ending)] /\ live \in [ReplaySteps -> Seq(Ending)]
  /\ buffers \in [ReplaySteps -> Seq(Record)] /\ answered \in [ReplaySteps -> Seq(Record)]
  /\ queues \in [ReplaySteps -> Seq(Record)]
  /\ held \in [ReplaySteps -> {h \in Seq(Record) : Len(h) <= 1}]
  /\ trace \in Seq(Record) /\ merged \in 0 .. NumSteps /\ loaded \in 0 .. Len(trace)

\* No step goes on when it has settled.
Attempted ==
  \A s \in ReplaySteps :
    /\ Len(done[s]) <= limit /\ \A k \in 1 .. Len(done[s]) - 1 : done[s][k] # "ok"
    /\ held[s] # << >> => stage = "replay" /\ ~Settled(s)
    /\ stage \in Ended => Settled(s)

Lasted ==
  /\ stage = "live" => \A s \in ReplaySteps : live[s] = << >>
  /\ stage # "live" =>
       \A s \in ReplaySteps :
         /\ live[s] # << >> /\ Len(live[s]) <= MaxAttempts
         /\ \A k \in 1 .. Len(live[s]) - 1 : live[s][k] # "ok"
         /\ ~changed => Len(live[s]) <= limit /\ (Last(live[s]) = "ok" \/ Len(live[s]) >= limit)

Buffered ==
  \A s \in ReplaySteps :
    /\ Len(buffers[s]) = Len(Lived(s))
    /\ \A k \in DOMAIN buffers[s] :
         /\ buffers[s][k].step = s /\ buffers[s][k].attempt = k /\ buffers[s][k].answer = Lived(s)[k]
         /\ ~changed => buffers[s][k].request = AsWritten[asks[s]]

\* The records a are those of b that have a request, in their order.
RequestsAre(a, b) ==
  /\ \A i \in DOMAIN a : HasRequest(a[i]) /\ a[i].attempt \in DOMAIN b /\ a[i] = b[a[i].attempt]
  /\ \A i, j \in DOMAIN a : i < j => a[i].attempt < a[j].attempt
  /\ \A k \in DOMAIN b : HasRequest(b[k]) => \E i \in DOMAIN a : a[i] = b[k]

Requested == \A s \in ReplaySteps : RequestsAre(answered[s], buffers[s])

Merged ==
  /\ stage = "live" /\ merged > 0 => AllSettled
  /\ stage # "live" => merged = NumSteps
  /\ \A k \in DOMAIN trace :
       /\ trace[k].step \in 1 .. merged /\ trace[k].attempt \in DOMAIN buffers[trace[k].step]
       /\ trace[k] = buffers[trace[k].step][trace[k].attempt]
  /\ \A i, j \in DOMAIN trace : i < j /\ trace[i].step = trace[j].step => trace[i].attempt < trace[j].attempt
  /\ \A s \in 1 .. merged : \A a \in DOMAIN buffers[s] : \E k \in DOMAIN trace : trace[k] = buffers[s][a]

\* The records q are those of a after the first n.
Following(q, n, a) == \A i \in DOMAIN q : n + i \in DOMAIN a /\ q[i] = a[n + i]
InTrace(r, n) == \E k \in 1 .. n : trace[k] = r

Loaded ==
  /\ stage = "live" => loaded = 0 /\ \A s \in ReplaySteps : queues[s] = << >> /\ held[s] = << >>
  /\ stage = "replay" /\ loaded < Len(trace) => \A s \in ReplaySteps : done[s] = << >> /\ held[s] = << >>
  /\ stage \in Ended => loaded = Len(trace)
  /\ stage # "live" => \A s \in ReplaySteps :
       /\ Following(queues[s], Taken(s), answered[s])
       /\ \A i \in DOMAIN answered[s] :
            i <= Taken(s) + Len(queues[s]) <=> InTrace(answered[s][i], loaded)
       /\ held[s] # << >> => Taken(s) \in DOMAIN answered[s] /\ held[s][1] = answered[s][Taken(s)]

ReplayInv ==
  /\ ReplayTyped /\ Attempted /\ Lasted /\ Buffered /\ Requested /\ Merged /\ Loaded
  /\ ReplaysInOrder /\ VerifiedMeansCompared /\ FaithfulWhenAnswered

LEMMA ReplayBegins == ReplayInit => ReplayInv
<1> SUFFICES ASSUME ReplayInit PROVE ReplayInv
  OBVIOUS
<1> USE DEF ReplayInit
<1>1. ReplayTyped
  <2> DEFINE none == [t \in ReplaySteps |-> << >>]
  <2>1. none \in [ReplaySteps -> Seq(Ending)] /\ none \in [ReplaySteps -> Seq(Record)]
        /\ none \in [ReplaySteps -> {h \in Seq(Record) : Len(h) <= 1}]
    OBVIOUS
  <2>2. done = none /\ live = none /\ buffers = none /\ answered = none /\ queues = none /\ held = none
    OBVIOUS
  <2> HIDE DEF none
  <2>3. trace \in Seq(Record) /\ merged \in 0 .. NumSteps /\ loaded \in 0 .. Len(trace)
    BY ReplayAssumption
  <2> QED BY <2>1, <2>2, <2>3 DEF ReplayTyped
<1>3. Buffered /\ Requested /\ Merged
  BY <1>1 DEF Buffered, Requested, RequestsAre, Merged, Lived, ReplayTyped
<1>5. ReplaysInOrder /\ VerifiedMeansCompared /\ FaithfulWhenAnswered
  BY DEF ReplaysInOrder, VerifiedMeansCompared, FaithfulWhenAnswered, Ended
<1> QED BY <1>1, <1>3, <1>5 DEF ReplayInv, Attempted, Lasted, Ended, ReplayTyped, Loaded

(***************************************************************************)
(* Live: a step that has not settled attempts again, and nothing of the    *)
(* level has been merged.                                                  *)
(***************************************************************************)
LEMMA UnmergedIsEmpty ==
  ASSUME ReplayTyped, Merged, merged = 0
  PROVE  trace = << >>
<1>1. trace \in Seq(Record) /\ Len(trace) \in Nat
  BY DEF ReplayTyped
<1> QED BY <1>1 DEF Merged

\* An attempt that is not the last one of its step can only be one that failed.
LEMMA GoesOn ==
  ASSUME ReplayTyped, Attempted, NEW s \in ReplaySteps, ~Settled(s), NEW result \in Ending
  PROVE  /\ Len(Append(done[s], result)) <= limit
         /\ \A k \in 1 .. Len(Append(done[s], result)) - 1 : Append(done[s], result)[k] # "ok"
<1>1. done[s] \in Seq(Ending) /\ limit \in Nat /\ limit >= 1 /\ Len(done[s]) \in Nat
  BY DEF ReplayTyped
<1>3. Len(Append(done[s], result)) = Len(done[s]) + 1
      /\ \A k \in 1 .. Len(done[s]) : Append(done[s], result)[k] = done[s][k]
  BY <1>1
<1>4. CASE done[s] = << >>
  BY <1>1, <1>3, <1>4
<1>5. CASE done[s] # << >> BY <1>1, <1>3, <1>5 DEF Attempted, Settled, Last
<1> QED BY <1>4, <1>5

LEMMA AppendRequest ==
  ASSUME NEW a \in Seq(Record), NEW b \in Seq(Record), NEW r \in Record, r.attempt = Len(b) + 1, RequestsAre(a, b)
  PROVE  RequestsAre(IF HasRequest(r) THEN Append(a, r) ELSE a, Append(b, r))
<1> DEFINE c == IF HasRequest(r) THEN Append(a, r) ELSE a
<1> DEFINE d == Append(b, r)
<1>1. Len(a) \in Nat /\ Len(b) \in Nat /\ DOMAIN a = 1 .. Len(a) /\ DOMAIN b = 1 .. Len(b)
  OBVIOUS
<1>2. DOMAIN d = 1 .. Len(b) + 1 /\ d[Len(b) + 1] = r /\ \A k \in 1 .. Len(b) : d[k] = b[k]
  OBVIOUS
<1>3. HasRequest(r) =>
        DOMAIN c = 1 .. Len(a) + 1 /\ c[Len(a) + 1] = r /\ \A i \in 1 .. Len(a) : c[i] = a[i]
  OBVIOUS
<1>4. ~HasRequest(r) => c = a
  OBVIOUS
<1> HIDE DEF c, d
<1>5. \A i \in 1 .. Len(a) : HasRequest(a[i]) /\ a[i].attempt \in 1 .. Len(b) /\ a[i] = b[a[i].attempt]
  BY <1>1 DEF RequestsAre
<1>8. ASSUME NEW i \in DOMAIN c
      PROVE  HasRequest(c[i]) /\ c[i].attempt \in DOMAIN d /\ c[i] = d[c[i].attempt]
  <2>1. CASE i \in 1 .. Len(a) /\ c[i] = a[i]
    BY <1>1, <1>2, <1>5, <2>1
  <2>2. CASE HasRequest(r) /\ c[i] = r
    BY <1>1, <1>2, <2>2
  <2> QED BY <2>1, <2>2, <1>1, <1>3, <1>4
<1>9. ASSUME NEW i \in DOMAIN c, NEW j \in DOMAIN c, i < j
      PROVE  c[i].attempt < c[j].attempt
  <2>1. i \in 1 .. Len(a) /\ c[i] = a[i] /\ a[i].attempt \in 1 .. Len(b)
    BY <1>1, <1>3, <1>4, <1>5, <1>9
  <2>2. CASE j \in 1 .. Len(a) /\ c[j] = a[j] BY <1>1, <1>9, <2>1, <2>2 DEF RequestsAre
  <2>3. CASE c[j] = r
    BY <1>1, <2>1, <2>3
  <2> QED BY <2>2, <2>3, <1>1, <1>3, <1>4
<1>10. ASSUME NEW k \in DOMAIN d, HasRequest(d[k])
       PROVE  \E i \in DOMAIN c : c[i] = d[k]
  <2>1. CASE k \in 1 .. Len(b)
    <3>1. PICK i \in 1 .. Len(a) : a[i] = b[k] BY <1>2, <1>1, <1>10, <2>1 DEF RequestsAre
    <3> QED BY <1>2, <2>1, <3>1, <1>1, <1>3, <1>4
  <2>2. CASE k = Len(b) + 1 BY <1>1, <1>2, <1>3, <1>10, <2>2
  <2> QED BY <1>1, <1>2, <2>1, <2>2
<1> QED BY <1>8, <1>9, <1>10 DEF c, d, RequestsAre

LEMMA RecordTyped ==
  ASSUME ReplayTyped, NEW s \in ReplaySteps, NEW result \in Answers \union {"broken"}, NEW kept \in BOOLEAN
  PROVE  RecordOf(s, result, kept) \in Record
<1>1. AsWritten[asks[s]] \in ReplayRequests BY ReplayAssumption DEF ReplayTyped
<1>2. Len(done[s]) + 1 \in Nat BY DEF ReplayTyped
<1> QED BY <1>1, <1>2 DEF RecordOf, Record

LEMMA LiveAttemptKeeps ==
  ASSUME ReplayInv, NEW s \in ReplaySteps, ReplayAttempt(s)
  PROVE  ReplayInv'
<1> USE DEF specification
<1>a. PICK result \in Answers \union {"broken"}, kept \in BOOLEAN :
           /\ done' = [done EXCEPT ![s] = Append(@, result)]
           /\ buffers' = [buffers EXCEPT ![s] = Append(@, RecordOf(s, result, kept))]
           /\ IF result \in Answers THEN answered' = [answered EXCEPT ![s] = Append(@, RecordOf(s, result, kept))]
              ELSE UNCHANGED answered
  BY DEF ReplayAttempt
<1> DEFINE r == RecordOf(s, result, kept)
<1>0. stage = "live" /\ ~Settled(s)
      /\ UNCHANGED <<stage, asks, limit, tolerant, changed, merged, trace, loaded, queues, held, live>>
  BY DEF ReplayAttempt
<1>1. ReplayTyped /\ Attempted /\ Buffered /\ Requested /\ Merged /\ Loaded
  BY DEF ReplayInv
<1>2. r \in Record /\ r.step = s /\ r.attempt = Len(done[s]) + 1 /\ r.request = AsWritten[asks[s]] /\ r.answer = result
      /\ result \in Ending
  BY <1>1, RecordTyped DEF RecordOf, Ending, Failures
<1> HIDE DEF r
<1>3. /\ done' = [done EXCEPT ![s] = Append(done[s], result)]
      /\ buffers' = [buffers EXCEPT ![s] = Append(buffers[s], r)]
      /\ answered' = IF result \in Answers THEN [answered EXCEPT ![s] = Append(answered[s], r)] ELSE answered
  BY <1>a DEF r
<1>4. merged = 0 /\ trace = << >>
  <2>1. merged = 0
    BY <1>0, <1>1 DEF Merged, AllSettled, ReplayTyped
  <2> QED BY <1>1, <2>1, UnmergedIsEmpty
<1>5. ReplayTyped'
  BY <1>0, <1>1, <1>2, <1>3 DEF ReplayTyped
<1>6. Attempted'
  <2>1. ASSUME NEW t \in ReplaySteps
        PROVE  Len(done'[t]) <= limit /\ \A k \in 1 .. Len(done'[t]) - 1 : done'[t][k] # "ok"
    <3>1. CASE t = s
      BY <1>0, <1>1, <1>2, <1>3, <3>1, GoesOn DEF ReplayTyped
    <3>2. CASE t # s
      BY <1>1, <1>3, <3>2 DEF ReplayTyped, Attempted
    <3> QED BY <3>1, <3>2
  <2>2. \A t \in ReplaySteps : held'[t] = << >>
    BY <1>0, <1>1 DEF Loaded
  <2> QED BY <1>0, <2>1, <2>2 DEF Attempted, Ended
<1>7. Buffered'
  <2> SUFFICES ASSUME NEW t \in ReplaySteps
               PROVE  /\ Len(buffers'[t]) = Len(done'[t])
                      /\ \A k \in DOMAIN buffers'[t] :
                           /\ buffers'[t][k].step = t /\ buffers'[t][k].attempt = k
                           /\ buffers'[t][k].answer = done'[t][k]
                           /\ ~changed => buffers'[t][k].request = AsWritten[asks[t]]
    BY <1>0 DEF Buffered, Lived
  <2>1. buffers[t] \in Seq(Record) /\ done[t] \in Seq(Ending)
    BY <1>1 DEF ReplayTyped
  <2>2. Len(buffers[t]) = Len(done[t])
        /\ \A k \in DOMAIN buffers[t] :
             /\ buffers[t][k].step = t /\ buffers[t][k].attempt = k /\ buffers[t][k].answer = done[t][k]
             /\ ~changed => buffers[t][k].request = AsWritten[asks[t]]
    BY <1>0, <1>1 DEF Buffered, Lived
  <2>3. CASE t = s
    <3>1. buffers'[t] = Append(buffers[t], r) /\ done'[t] = Append(done[t], result)
      BY <1>1, <1>3, <2>3 DEF ReplayTyped
    <3> QED BY <1>2, <2>1, <2>2, <2>3, <3>1
  <2>4. CASE t # s
    <3>1. buffers'[t] = buffers[t] /\ done'[t] = done[t]
      BY <1>1, <1>3, <2>4 DEF ReplayTyped
    <3> QED BY <2>2, <3>1
  <2> QED BY <2>3, <2>4
<1>8. Requested'
  <2> SUFFICES ASSUME NEW t \in ReplaySteps
               PROVE  RequestsAre(answered'[t], buffers'[t])
    BY DEF Requested, RequestsAre, HasRequest
  <2>1. buffers[t] \in Seq(Record) /\ answered[t] \in Seq(Record) /\ Len(buffers[t]) = Len(done[t])
        /\ RequestsAre(answered[t], buffers[t])
    BY <1>0, <1>1 DEF ReplayTyped, Buffered, Lived, Requested
  <2>2. CASE t # s
    <3>1. buffers'[t] = buffers[t] /\ answered'[t] = answered[t]
      BY <1>1, <1>3, <2>2 DEF ReplayTyped
    <3> QED BY <2>1, <3>1
  <2>3. CASE t = s
    <3>1. buffers'[t] = Append(buffers[t], r)
          /\ answered'[t] = IF HasRequest(r) THEN Append(answered[t], r) ELSE answered[t]
      BY <1>1, <1>2, <1>3, <2>3 DEF ReplayTyped, HasRequest
    <3> QED BY <1>2, <2>1, <2>3, <3>1, AppendRequest
  <2> QED BY <2>2, <2>3
<1>9. Merged'
  BY <1>0, <1>1, <1>4 DEF Merged, ReplayTyped
<1>10. Loaded'
  BY <1>0, <1>1 DEF Loaded, Ended
<1>11. Lasted' /\ ReplaysInOrder'
  <2>1. Lasted
    BY DEF ReplayInv
  <2> QED BY <1>0, <2>1 DEF Lasted, ReplaysInOrder
<1>12. VerifiedMeansCompared' /\ FaithfulWhenAnswered'
  BY <1>0 DEF VerifiedMeansCompared, FaithfulWhenAnswered, Ended
<1> QED BY <1>5, <1>6, <1>7, <1>8, <1>9, <1>10, <1>11, <1>12 DEF ReplayInv

(***************************************************************************)
(* Between the runs: a buffer is merged as it is, and a trace is read with *)
(* nothing taken yet.                                                      *)
(***************************************************************************)
LEMMA MergeKeeps ==
  ASSUME ReplayInv, Merge
  PROVE  ReplayInv'
<1> USE DEF specification
<1>1. ReplayTyped /\ Attempted /\ Buffered /\ Requested /\ Merged /\ Loaded
  BY DEF ReplayInv
<1>2. stage = "live" /\ AllSettled /\ merged < NumSteps /\ merged' = merged + 1
      /\ UNCHANGED <<stage, asks, limit, tolerant, changed, done, buffers, loaded, queues, held, live, answered>>
  BY DEF Merge
<1> DEFINE m == merged + 1
<1> DEFINE b == buffers[m]
<1> DEFINE n == Len(trace)
<1>3. m \in ReplaySteps /\ merged \in Nat /\ merged' = m
  BY <1>1, <1>2, ReplayAssumption DEF ReplayTyped, ReplaySteps
<1>4. b \in Seq(Record) /\ trace \in Seq(Record) /\ n \in Nat /\ Len(b) \in Nat
  BY <1>1, <1>3 DEF ReplayTyped
<1>5. trace' = trace \o b
  BY DEF Merge
<1>6. trace' \in Seq(Record) /\ Len(trace') = n + Len(b)
      /\ (\A k \in 1 .. n : trace'[k] = trace[k]) /\ \A k \in 1 .. Len(b) : trace'[n + k] = b[k]
  <2> HIDE DEF b
  <2> QED BY <1>4, <1>5
<1>7. \A k \in 1 .. Len(b) : b[k].step = m /\ b[k].attempt = k
  BY <1>1, <1>3, <1>4 DEF Buffered
<1> HIDE DEF n
<1>8. ReplayTyped'
  <2>1. loaded = 0 /\ merged' \in 0 .. NumSteps
    BY <1>1, <1>2, <1>3, ReplayAssumption DEF Loaded, ReplaySteps
  <2> QED BY <1>1, <1>2, <1>4, <1>6, <2>1 DEF ReplayTyped
<1>9. Attempted' /\ Buffered' /\ Requested' /\ Lasted' /\ ReplaysInOrder'
  <2>1. Attempted'
    BY <1>1, <1>2 DEF Attempted, Settled, Ended
  <2>2. Buffered'
    BY <1>1, <1>2 DEF Buffered, Lived
  <2>3. Requested'
    BY <1>1, <1>2 DEF Requested, RequestsAre, HasRequest
  <2>4. Lasted'
    <3>1. Lasted
      BY DEF ReplayInv
    <3> QED BY <1>2, <3>1 DEF Lasted
  <2>5. ReplaysInOrder'
    BY <1>2 DEF ReplaysInOrder
  <2> QED BY <2>1, <2>2, <2>3, <2>4, <2>5
<1>10. Merged'
  <2> HIDE DEF b
  <2>1. \A k \in 1 .. n : trace[k].step \in 1 .. merged /\ trace[k].attempt \in DOMAIN buffers[trace[k].step]
                          /\ trace[k] = buffers[trace[k].step][trace[k].attempt]
    BY <1>1, <1>4 DEF Merged, n
  <2>2. \A i, j \in 1 .. n : i < j /\ trace[i].step = trace[j].step => trace[i].attempt < trace[j].attempt
    BY <1>1, <1>4 DEF Merged, n
  <2>3. ASSUME NEW k \in DOMAIN trace'
        PROVE  /\ trace'[k].step \in 1 .. m /\ trace'[k].attempt \in DOMAIN buffers[trace'[k].step]
               /\ trace'[k] = buffers[trace'[k].step][trace'[k].attempt]
               /\ k \in 1 .. n \/ (k - n \in 1 .. Len(b) /\ trace'[k] = b[k - n])
    <3>1. k \in 1 .. n \/ (k - n \in 1 .. Len(b) /\ k = n + (k - n))
      BY <1>4, <1>6
    <3>2. CASE k \in 1 .. n
      BY <1>3, <1>6, <2>1, <3>2
    <3>3. CASE k - n \in 1 .. Len(b) /\ k = n + (k - n)
      <4>1. trace'[k] = b[k - n]
        BY <1>6, <3>3
      <4> QED BY <1>3, <1>4, <1>7, <3>3, <4>1 DEF b
    <3> QED BY <3>1, <3>2, <3>3
  <2>4. ASSUME NEW i \in DOMAIN trace', NEW j \in DOMAIN trace', i < j, trace'[i].step = trace'[j].step
        PROVE  trace'[i].attempt < trace'[j].attempt
    <3>1. i \in Nat /\ j \in Nat
      BY <1>4, <1>6
    <3>2. CASE j \in 1 .. n
      <4>1. i \in 1 .. n
        BY <1>4, <1>6, <2>4, <3>2
      <4> QED BY <1>6, <2>2, <2>4, <3>2, <4>1
    <3>3. CASE j - n \in 1 .. Len(b) /\ trace'[j] = b[j - n]
      <4>1. CASE i \in 1 .. n
        BY <1>3, <1>6, <1>7, <2>1, <2>4, <3>3, <4>1
      <4>2. CASE i - n \in 1 .. Len(b) /\ trace'[i] = b[i - n]
        BY <1>4, <1>7, <2>4, <3>1, <3>3, <4>2
      <4> QED BY <2>3, <4>1, <4>2
    <3> QED BY <2>3, <3>2, <3>3
  <2>5. ASSUME NEW s \in 1 .. m, NEW a \in DOMAIN buffers[s]
        PROVE  \E k \in DOMAIN trace' : trace'[k] = buffers[s][a]
    <3>1. CASE s \in 1 .. merged
      <4>1. PICK k \in DOMAIN trace : trace[k] = buffers[s][a]
        BY <1>1, <3>1 DEF Merged
      <4>2. k \in 1 .. n /\ k \in DOMAIN trace'
        BY <1>4, <1>6 DEF n
      <4> QED BY <1>6, <4>1, <4>2
    <3>2. CASE s = m
      <4>1. a \in 1 .. Len(b) /\ n + a \in DOMAIN trace' /\ trace'[n + a] = buffers[s][a]
        BY <1>4, <1>6, <3>2 DEF b
      <4> QED BY <4>1
    <3> QED BY <1>3, <3>1, <3>2
  <2>6. AllSettled'
    BY <1>2 DEF AllSettled, Settled
  <2> QED BY <1>2, <1>3, <2>3, <2>4, <2>5, <2>6 DEF Merged
<1>11. Loaded'
  BY <1>1, <1>2 DEF Loaded, Ended
<1>12. VerifiedMeansCompared' /\ FaithfulWhenAnswered'
  BY <1>2 DEF VerifiedMeansCompared, FaithfulWhenAnswered, Ended
<1> QED BY <1>8, <1>9, <1>10, <1>11, <1>12 DEF ReplayInv

LEMMA LoadKeeps ==
  ASSUME ReplayInv, Load
  PROVE  ReplayInv'
<1> USE DEF specification
<1>1. ReplayTyped /\ Attempted /\ Buffered /\ Requested /\ Merged /\ Loaded
  BY DEF ReplayInv
<1>2. stage = "live" /\ AllSettled /\ merged = NumSteps /\ stage' = "replay" /\ live' = done
      /\ done' = [s \in ReplaySteps |-> << >>]
      /\ UNCHANGED <<buffers, merged, trace, loaded, queues, held, answered>>
  BY DEF Load
<1>3. \/ UNCHANGED <<asks, limit, tolerant, changed>>
      \/ /\ changed' = TRUE /\ asks' \in [ReplaySteps -> ReplayRequests] /\ limit' \in 1 .. MaxAttempts
         /\ tolerant' \in BOOLEAN
  BY DEF Load
<1>4. ReplayTyped'
  <2>2. asks' \in [ReplaySteps -> ReplayRequests] /\ limit' \in 1 .. MaxAttempts /\ tolerant' \in BOOLEAN
        /\ changed' \in BOOLEAN
    BY <1>1, <1>3 DEF ReplayTyped
  <2> QED BY <1>1, <1>2, <2>2 DEF ReplayTyped
<1>5. \A s \in ReplaySteps : done'[s] = << >> /\ held'[s] = << >> /\ queues'[s] = << >> /\ loaded' = 0
  BY <1>1, <1>2 DEF Loaded
<1>6. Attempted'
  BY <1>2, <1>4, <1>5 DEF Attempted, Ended, ReplayTyped
<1>7. Lasted'
  <2> SUFFICES ASSUME NEW s \in ReplaySteps
               PROVE  /\ done[s] # << >> /\ Len(done[s]) <= MaxAttempts
                      /\ \A k \in 1 .. Len(done[s]) - 1 : done[s][k] # "ok"
                      /\ ~changed' => Len(done[s]) <= limit' /\ (Last(done[s]) = "ok" \/ Len(done[s]) >= limit')
    BY <1>2 DEF Lasted
  <2>1. done[s] # << >> /\ (Last(done[s]) = "ok" \/ Len(done[s]) >= limit)
    BY <1>2 DEF AllSettled, Settled
  <2>2. Len(done[s]) <= limit /\ \A k \in 1 .. Len(done[s]) - 1 : done[s][k] # "ok"
    BY <1>1 DEF Attempted
  <2>3. Len(done[s]) \in Nat /\ limit \in Nat /\ limit <= MaxAttempts
    BY <1>1, ReplayAssumption DEF ReplayTyped
  <2>4. ~changed' => limit' = limit
    BY <1>3
  <2> QED BY <2>1, <2>2, <2>3, <2>4, ReplayAssumption
<1>8. Buffered' BY <1>1, <1>2, <1>3 DEF Buffered, Lived
<1>9. Requested'
  BY <1>1, <1>2 DEF Requested, RequestsAre, HasRequest
<1>10. Merged'
  BY <1>1, <1>2 DEF Merged
<1>11. Loaded'
  <2> SUFFICES ASSUME NEW s \in ReplaySteps
               PROVE  /\ Following(queues'[s], Taken(s)', answered'[s])
                      /\ \A i \in DOMAIN answered'[s] :
                           i <= Taken(s)' + Len(queues'[s]) <=> InTrace(answered[s][i], loaded)'
    BY <1>2, <1>5 DEF Loaded, Ended, Following, InTrace
  <2>a. done'[s] = << >> /\ held'[s] = << >> /\ queues'[s] = << >> /\ loaded' = 0
    BY <1>5
  <2>1. Taken(s)' = 0 /\ Len(queues'[s]) = 0 /\ queues'[s] = << >> /\ loaded' = 0 BY <2>a DEF Taken
  <2> QED BY <2>1, <1>4 DEF Following, InTrace, ReplayTyped
<1>12. ReplaysInOrder'
  BY <1>2, <1>5 DEF ReplaysInOrder
<1>13. VerifiedMeansCompared' /\ FaithfulWhenAnswered'
  BY <1>2 DEF VerifiedMeansCompared, FaithfulWhenAnswered, Ended
<1> QED BY <1>4, <1>6, <1>7, <1>8, <1>9, <1>10, <1>11, <1>12, <1>13 DEF ReplayInv

(***************************************************************************)
(* Replay: the records are put into queues, in the order in which the      *)
(* steps have made them, and taken from them one after the other.          *)
(***************************************************************************)
LEMMA AnsweredOf ==
  ASSUME ReplayTyped, Buffered, Requested, NEW s \in ReplaySteps, NEW i \in DOMAIN answered[s]
  PROVE  /\ answered[s][i] \in Record /\ answered[s][i].step = s /\ HasRequest(answered[s][i])
         /\ answered[s][i].attempt \in DOMAIN buffers[s]
         /\ answered[s][i] = buffers[s][answered[s][i].attempt]
  BY DEF ReplayTyped, Buffered, Requested, RequestsAre

\* Different requests of a step are of different attempts.
LEMMA AnsweredApart ==
  ASSUME ReplayTyped, Buffered, Requested, NEW s \in ReplaySteps,
         NEW i \in DOMAIN answered[s], NEW j \in DOMAIN answered[s], answered[s][i] = answered[s][j]
  PROVE  i = j
<1>b. i \in Nat /\ j \in Nat
  BY DEF ReplayTyped
<1> QED BY AnsweredOf, <1>b DEF Requested, RequestsAre, Record

\* When all is loaded, every request of a step is taken, held or in its queue.
LEMMA AllIsLoaded ==
  ASSUME ReplayTyped, Buffered, Requested, Merged, Loaded, stage # "live", loaded = Len(trace), NEW s \in ReplaySteps
  PROVE  Len(answered[s]) <= Taken(s) + Len(queues[s])
<1>1. answered[s] \in Seq(Record) /\ Len(answered[s]) \in Nat /\ Taken(s) + Len(queues[s]) \in Nat
  BY DEF ReplayTyped, Taken
<1>2. CASE Len(answered[s]) = 0
  BY <1>1, <1>2
<1>3. CASE Len(answered[s]) > 0
  <2> DEFINE i == Len(answered[s])
  <2>1. i \in DOMAIN answered[s]
    BY <1>1, <1>3
  <2>3. PICK k \in DOMAIN trace : trace[k] = buffers[s][answered[s][i].attempt]
    BY <2>1, AnsweredOf DEF Merged, ReplaySteps
  <2> QED BY <2>1, <2>3, AnsweredOf DEF Loaded, InTrace, ReplayTyped
<1> QED BY <1>1, <1>2, <1>3

\* The next record of the trace with a request is the next request of its step.
LEMMA NextRequest ==
  ASSUME ReplayTyped, Buffered, Requested, Merged, Loaded, stage = "replay", loaded < Len(trace),
         HasRequest(trace[loaded + 1])
  PROVE  LET r == trace[loaded + 1] IN
         /\ r.step \in ReplaySteps
         /\ Len(queues[r.step]) + 1 \in DOMAIN answered[r.step]
         /\ answered[r.step][Len(queues[r.step]) + 1] = r
<1> DEFINE p == loaded + 1
<1> DEFINE r == trace[p]
<1> DEFINE s == r.step
<1> DEFINE n == Len(queues[s])
<1>1. loaded \in Nat /\ p \in DOMAIN trace /\ merged = NumSteps /\ trace \in Seq(Record)
  BY DEF ReplayTyped, Merged
<1>2. s \in ReplaySteps /\ r.attempt \in DOMAIN buffers[s] /\ r = buffers[s][r.attempt]
  BY <1>1 DEF Merged, ReplaySteps
<1>3. HasRequest(r)
  OBVIOUS
<1>4. PICK i \in DOMAIN answered[s] : answered[s][i] = r
  BY <1>2, <1>3 DEF Requested, RequestsAre
<1>5. answered[s] \in Seq(Record) /\ queues[s] \in Seq(Record) /\ n \in Nat /\ i \in Nat
      /\ i >= 1 /\ i <= Len(answered[s]) /\ Len(answered[s]) \in Nat /\ DOMAIN answered[s] = 1 .. Len(answered[s])
  <2>1. answered[s] \in Seq(Record) /\ queues[s] \in Seq(Record)
    <3>1. answered \in [ReplaySteps -> Seq(Record)] /\ queues \in [ReplaySteps -> Seq(Record)] BY DEF ReplayTyped
    <3> HIDE DEF s
    <3> QED BY <1>2, <3>1
  <2> HIDE DEF s
  <2> QED BY <2>1
<1>6. Taken(s) = 0
  <2>1. done[s] = << >> /\ held[s] = << >>
    BY <1>1, <1>2 DEF Loaded
  <2>2. Len(done[s]) = 0 /\ Len(held[s]) = 0
    BY <2>1
  <2> QED BY <2>2 DEF Taken
<1>7. \A j \in DOMAIN answered[s] : j <= n <=> InTrace(answered[s][j], loaded)
  <2>1. \A j \in DOMAIN answered[s] : j <= Taken(s) + n <=> InTrace(answered[s][j], loaded)
    BY <1>2 DEF Loaded
  <2>2. Taken(s) + n = n
    BY <1>5, <1>6
  <2> QED BY <2>1, <2>2
<1>8. r.attempt \in Nat /\ \A j \in DOMAIN answered[s] : answered[s][j].attempt \in Nat
  <2>1. r \in Record /\ \A j \in DOMAIN answered[s] : answered[s][j] \in Record
    BY <1>1, <1>2, AnsweredOf
  <2> HIDE DEF r
  <2> QED BY <2>1 DEF Record
<1>9. ~(i <= n)
  <2> SUFFICES ASSUME NEW k \in 1 .. loaded, trace[k] = r
               PROVE  FALSE
    BY <1>4, <1>7 DEF InTrace
  <2>1. k \in DOMAIN trace /\ k < p /\ trace[k].step = trace[p].step
    BY <1>1
  <2>2. trace[k].attempt < trace[p].attempt
    BY <1>1, <2>1 DEF Merged
  <2> QED BY <1>8, <2>2
<1>10. i <= n + 1
  <2>1. CASE i = 1
    BY <1>5, <2>1
  <2>2. CASE i > 1
    <3> DEFINE j == i - 1
    <3>1. j \in DOMAIN answered[s] /\ j < i
      BY <1>5, <2>2
    <3> HIDE DEF j
    <3>2. answered[s][j].attempt < r.attempt
      BY <1>2, <1>4, <3>1 DEF Requested, RequestsAre
    <3>3. PICK k \in DOMAIN trace : trace[k] = answered[s][j]
      BY <1>1, <1>2, <3>1, AnsweredOf DEF Merged, ReplaySteps
    <3>4. trace[k].step = trace[p].step /\ trace[k].attempt < trace[p].attempt /\ trace[k].attempt \in Nat
      BY <1>2, <1>8, <3>1, <3>2, <3>3, AnsweredOf
    <3>5. k \in Nat /\ p \in Nat /\ k >= 1
      BY <1>1
    <3>6. ~(p < k) /\ k # p
      BY <1>1, <1>8, <3>4 DEF Merged
    <3>7. k \in 1 .. loaded
      BY <1>1, <3>5, <3>6
    <3>8. j <= n
      BY <1>7, <3>1, <3>3, <3>7 DEF InTrace
    <3> QED BY <1>5, <3>8 DEF j
  <2> QED BY <1>5, <2>1, <2>2
<1>11. i = n + 1
  BY <1>5, <1>9, <1>10
<1> QED BY <1>2, <1>4, <1>11

LEMMA InTraceNext ==
  ASSUME NEW n \in Nat, NEW r
  PROVE  InTrace(r, n + 1) <=> InTrace(r, n) \/ trace[n + 1] = r
  BY DEF InTrace

\* What was recorded stays as it is while it is replayed.
LEMMA RecordsStay ==
  ASSUME ReplayInv, stage = "replay",
         UNCHANGED <<stage, asks, limit, tolerant, changed, buffers, merged, trace, live, answered>>
  PROVE  Lasted' /\ Buffered' /\ Requested' /\ Merged' /\ VerifiedMeansCompared' /\ FaithfulWhenAnswered'
<1>1. Lasted /\ Buffered /\ Requested /\ Merged
  BY DEF ReplayInv
<1>5. Merged'
  BY <1>1 DEF Merged
<1>6. VerifiedMeansCompared' /\ FaithfulWhenAnswered'
  BY DEF VerifiedMeansCompared, FaithfulWhenAnswered, Ended
<1> QED BY <1>1, <1>5, <1>6 DEF Lasted, Buffered, Lived, Requested, RequestsAre, HasRequest

LEMMA EnqueueKeeps ==
  ASSUME ReplayInv, Enqueue
  PROVE  ReplayInv'
<1> DEFINE p == loaded + 1
<1> DEFINE r == trace[p]
<1>1. ReplayTyped /\ Attempted /\ Buffered /\ Requested /\ Merged /\ Loaded /\ ReplaysInOrder
  BY DEF ReplayInv
<1>2. stage = "replay" /\ loaded < Len(trace) /\ loaded' = p
      /\ UNCHANGED <<stage, asks, limit, tolerant, changed, done, buffers, merged, trace, held, live, answered>>
  BY DEF Enqueue, specification
<1>3. IF HasRequest(r) THEN queues' = [queues EXCEPT ![r.step] = Append(queues[r.step], r)] ELSE queues' = queues
  BY DEF Enqueue, Enqueued
<1>4. loaded \in Nat /\ p \in DOMAIN trace /\ trace \in Seq(Record) /\ r \in Record
  BY <1>1, <1>2 DEF ReplayTyped
<1>5. HasRequest(r) => r.step \in ReplaySteps /\ Len(queues[r.step]) + 1 \in DOMAIN answered[r.step]
                       /\ answered[r.step][Len(queues[r.step]) + 1] = r
  BY <1>1, <1>2, NextRequest
<1> HIDE DEF r
<1>6. ReplayTyped'
  <2>1. queues \in [ReplaySteps -> Seq(Record)]
    BY <1>1 DEF ReplayTyped
  <2>2. queues' \in [ReplaySteps -> Seq(Record)]
    <3> DEFINE s == r.step
    <3> DEFINE q == Append(queues[s], r)
    <3>1. HasRequest(r) => s \in ReplaySteps /\ q \in Seq(Record) BY <1>4, <1>5, <2>1
    <3>2. IF HasRequest(r) THEN queues' = [queues EXCEPT ![s] = q] ELSE queues' = queues
      BY <1>3
    <3> HIDE DEF s, q
    <3> QED BY <2>1, <3>1, <3>2
  <2> QED BY <1>1, <1>2, <2>2, <1>4 DEF ReplayTyped
<1>8. Loaded'
  <2>1. ASSUME NEW t \in ReplaySteps
        PROVE  /\ Following(queues'[t], Taken(t), answered[t])
               /\ \A i \in DOMAIN answered[t] :
                    i <= Taken(t) + Len(queues'[t]) <=> InTrace(answered[t][i], p)
               /\ done[t] = << >> /\ held[t] = << >>
    <3> DEFINE n == Len(queues[t])
    <3>0. done[t] = << >> /\ held[t] = << >>
      BY <1>1, <1>2 DEF Loaded
    <3>1. Taken(t) = 0 BY <3>0 DEF Taken
    <3>2. queues[t] \in Seq(Record) /\ n \in Nat /\ answered[t] \in Seq(Record)
          /\ DOMAIN answered[t] = 1 .. Len(answered[t]) /\ Len(answered[t]) \in Nat
      BY <1>1 DEF ReplayTyped
    <3>5. \A i \in DOMAIN answered[t] : InTrace(answered[t][i], p) <=> i <= n \/ r = answered[t][i]
      BY <1>4, <1>1, <1>2, <3>1, <3>2, InTraceNext DEF r, Loaded
    <3>6. CASE HasRequest(r) /\ r.step = t
      <4>1. queues'[t] = Append(queues[t], r) /\ n + 1 \in DOMAIN answered[t] /\ answered[t][n + 1] = r
        BY <1>1, <1>3, <1>5, <3>6 DEF ReplayTyped
      <4>2. Len(queues'[t]) = n + 1 /\ DOMAIN queues'[t] = 1 .. n + 1 /\ queues'[t][n + 1] = r
            /\ \A i \in 1 .. n : queues'[t][i] = queues[t][i]
        BY <3>2, <4>1
      <4> HIDE DEF n
      <4>3. Following(queues'[t], Taken(t), answered[t]) BY <3>1, <1>1, <1>2, <3>2, <4>1, <4>2 DEF Following, Loaded
      <4>4. \A i \in DOMAIN answered[t] : r = answered[t][i] => i = n + 1
        BY <1>1, <4>1, AnsweredApart
      <4>5. \A i \in DOMAIN answered[t] : (i <= n \/ i = n + 1) <=> i <= 0 + (n + 1)
        BY <3>2
      <4> QED BY <3>0, <3>1, <3>5, <4>1, <4>2, <4>3, <4>4, <4>5
    <3>7. CASE ~(HasRequest(r) /\ r.step = t)
      <4>1. queues'[t] = queues[t]
        BY <1>1, <1>3, <1>5, <3>7 DEF ReplayTyped
      <4>2. \A i \in DOMAIN answered[t] : r # answered[t][i]
        BY <1>1, <3>7, AnsweredOf
      <4>3. Following(queues'[t], Taken(t), answered[t])
        BY <1>1, <1>2, <4>1 DEF Loaded
      <4>4. Taken(t) + Len(queues'[t]) = n
        BY <3>1, <3>2, <4>1
      <4> QED BY <3>0, <3>5, <4>2, <4>3, <4>4
    <3> QED BY <3>6, <3>7
  <2> QED BY <1>2, <2>1 DEF Loaded, Ended, InTrace, Taken
<1> QED BY <1>6, <1>1, <1>2, <1>8, RecordsStay DEF ReplayInv, Attempted, Settled, ReplaysInOrder

\* An attempt ends: the step had not settled, and holds nothing afterwards.
LEMMA AttemptEnds ==
  ASSUME ReplayInv, stage = "replay", stage' = stage, limit' = limit,
         NEW s \in ReplaySteps, ~Settled(s), NEW result \in Ending,
         done' = [done EXCEPT ![s] = Append(done[s], result)],
         \A t \in ReplaySteps : held'[t] = IF t = s THEN << >> ELSE held[t]
  PROVE  Attempted' /\ done' \in [ReplaySteps -> Seq(Ending)]
<1>1. ReplayTyped /\ Attempted
  BY DEF ReplayInv
<1>2. done \in [ReplaySteps -> Seq(Ending)] /\ Append(done[s], result) \in Seq(Ending)
  BY <1>1 DEF ReplayTyped
<1>3. \A t \in ReplaySteps : done'[t] = IF t = s THEN Append(done[s], result) ELSE done[t]
  BY <1>2
<1>4. Len(done'[s]) <= limit /\ \A k \in 1 .. Len(done'[s]) - 1 : done'[s][k] # "ok"
  <2> DEFINE e == Append(done[s], result)
  <2>1. Len(e) <= limit /\ \A k \in 1 .. Len(e) - 1 : e[k] # "ok"
    BY <1>1, GoesOn
  <2>2. done'[s] = e
    BY <1>3
  <2> HIDE DEF e
  <2> QED BY <2>1, <2>2
<1>5. ASSUME NEW t \in ReplaySteps
      PROVE  /\ Len(done'[t]) <= limit' /\ \A k \in 1 .. Len(done'[t]) - 1 : done'[t][k] # "ok"
             /\ held'[t] # << >> => ~Settled(t)'
  <2>1. CASE t = s
    BY <1>4, <2>1
  <2>2. CASE t # s
    BY <1>1, <1>3, <2>2 DEF Attempted, Settled
  <2> QED BY <2>1, <2>2
<1> QED BY <1>2, <1>5 DEF Attempted, Ended

LEMMA TakeKeeps ==
  ASSUME ReplayInv, NEW s \in ReplaySteps, Take(s)
  PROVE  ReplayInv'
<1>1. ReplayTyped /\ Attempted /\ Buffered /\ Requested /\ Merged /\ Loaded /\ ReplaysInOrder
  BY DEF ReplayInv
<1>2. stage = "replay" /\ loaded = Len(trace) /\ ~Settled(s) /\ held[s] = << >>
      /\ UNCHANGED <<stage, asks, limit, tolerant, changed, buffers, merged, trace, loaded, live, answered>>
  BY DEF Take, Replaying, specification
<1>3. Lasted' /\ Buffered' /\ Requested' /\ Merged' /\ VerifiedMeansCompared' /\ FaithfulWhenAnswered'
  BY <1>2, RecordsStay
<1>4. done \in [ReplaySteps -> Seq(Ending)] /\ queues \in [ReplaySteps -> Seq(Record)]
      /\ held \in [ReplaySteps -> {h \in Seq(Record) : Len(h) <= 1}]
      /\ answered \in [ReplaySteps -> Seq(Record)]
  BY <1>1 DEF ReplayTyped
<1>5. \A t \in ReplaySteps :
        /\ Following(queues[t], Taken(t), answered[t])
        /\ \A i \in DOMAIN answered[t] : i <= Taken(t) + Len(queues[t]) <=> InTrace(answered[t][i], loaded)
        /\ held[t] # << >> => Taken(t) \in DOMAIN answered[t] /\ held[t][1] = answered[t][Taken(t)]
  BY <1>1, <1>2 DEF Loaded
<1>6. Taken(s) = Len(done[s]) /\ Taken(s) \in Nat BY <1>2, <1>4 DEF Taken
<1>7. Len(answered[s]) <= Taken(s) + Len(queues[s])
  BY <1>1, <1>2, AllIsLoaded
<1>8. CASE queues[s] = << >>
  <2>1. done' = [done EXCEPT ![s] = Append(done[s], "exhausted")] /\ UNCHANGED <<queues, held>>
    BY <1>8 DEF Take
  <2>2. Attempted' /\ done' \in [ReplaySteps -> Seq(Ending)]
    BY <1>2, <2>1, AttemptEnds DEF Ending, Failures
  <2>3. ReplayTyped'
    BY <1>1, <1>2, <2>1, <2>2 DEF ReplayTyped
  <2>4. done'[s] = Append(done[s], "exhausted") /\ \A t \in ReplaySteps \ {s} : done'[t] = done[t]
    BY <1>4, <2>1
  <2>5. Len(done'[s]) = Len(done[s]) + 1 /\ DOMAIN done'[s] = 1 .. Len(done[s]) + 1
        /\ done'[s][Len(done[s]) + 1] = "exhausted" /\ \A k \in 1 .. Len(done[s]) : done'[s][k] = done[s][k]
        /\ DOMAIN done[s] = 1 .. Len(done[s]) /\ Len(done[s]) \in Nat
    BY <1>4, <2>4
  <2>6. Taken(s)' = Taken(s) + 1 /\ Len(queues[s]) = 0 /\ Len(answered[s]) <= Taken(s)
        /\ Len(answered[s]) \in Nat /\ DOMAIN answered[s] = 1 .. Len(answered[s])
    <3>2. Len(held'[s]) = 0 /\ Len(queues[s]) = 0
      BY <1>2, <1>8, <2>1
    <3> QED BY <1>4, <1>6, <1>7, <2>5, <3>2 DEF Taken
  <2>8. ASSUME NEW t \in ReplaySteps
        PROVE  /\ Following(queues'[t], Taken(t)', answered'[t])
               /\ \A i \in DOMAIN answered'[t] : i <= Taken(t)' + Len(queues'[t]) <=> InTrace(answered[t][i], loaded)
               /\ held'[t] # << >> => Taken(t)' \in DOMAIN answered'[t] /\ held'[t][1] = answered'[t][Taken(t)']
    <3>1. CASE t = s
      <4>1. \A i \in DOMAIN answered[s] : i <= Taken(s) + 0 /\ i <= Taken(s) + 1 + 0
        BY <1>6, <2>6
      <4>2. Following(<< >>, Taken(s)', answered[s])
        BY DEF Following
      <4> QED BY <1>2, <1>5, <1>8, <2>1, <2>6, <3>1, <4>1, <4>2
    <3>2. CASE t # s BY <1>2, <1>5, <2>1, <2>4, <3>2 DEF Taken
    <3> QED BY <3>1, <3>2
  <2>10. ReplaysInOrder'
    <3>1. ASSUME NEW t \in ReplaySteps, NEW k \in DOMAIN done'[t]
          PROVE  IF k > Len(answered[t]) THEN done'[t][k] = "exhausted"
                 ELSE done'[t][k] \in Outcomes(answered[t][k], asks[t])
      <4>1. CASE t = s /\ k = Len(done[s]) + 1
        BY <1>6, <2>5, <2>6, <4>1
      <4>2. CASE t # s \/ k # Len(done[s]) + 1
        <5>1. k \in DOMAIN done[t] /\ done'[t][k] = done[t][k]
          BY <2>4, <2>5, <4>2
        <5> QED BY <1>1, <1>2, <5>1 DEF ReplaysInOrder
      <4> QED BY <4>1, <4>2
    <3> QED BY <1>2, <3>1 DEF ReplaysInOrder
  <2>9. Loaded'
    BY <1>2, <2>8 DEF Loaded, Ended, InTrace
  <2> QED BY <1>3, <2>2, <2>3, <2>9, <2>10 DEF ReplayInv
<1>9. CASE queues[s] # << >>
  <2> DEFINE r == Head(queues[s])
  <2>1. held' = [held EXCEPT ![s] = << r >>] /\ queues' = [queues EXCEPT ![s] = Tail(queues[s])] /\ done' = done
    BY <1>9 DEF Take
  <2>2. r \in Record /\ Tail(queues[s]) \in Seq(Record) /\ r = queues[s][1]
        /\ Len(queues[s]) \in Nat /\ Len(queues[s]) >= 1 /\ Len(Tail(queues[s])) = Len(queues[s]) - 1
        /\ DOMAIN queues[s] = 1 .. Len(queues[s]) /\ DOMAIN Tail(queues[s]) = 1 .. Len(queues[s]) - 1
        /\ \A i \in 1 .. Len(queues[s]) - 1 : Tail(queues[s])[i] = queues[s][i + 1]
    BY <1>4, <1>9
  <2> HIDE DEF r
  <2>3. << r >> \in Seq(Record) /\ Len(<< r >>) = 1 /\ << r >>[1] = r /\ << r >> # << >>
    BY <2>2
  <2>4. held'[s] = << r >> /\ queues'[s] = Tail(queues[s])
        /\ \A t \in ReplaySteps \ {s} : held'[t] = held[t] /\ queues'[t] = queues[t]
    BY <1>4, <2>1
  <2>5. ReplayTyped'
    <3>2. held' \in [ReplaySteps -> {h \in Seq(Record) : Len(h) <= 1}]
      <4> DEFINE h == << r >>
      <4> HIDE DEF h
      <4> QED BY <1>4, <2>1, <2>3
    <3> QED BY <1>1, <1>2, <2>1, <1>4, <2>2, <3>2 DEF ReplayTyped
  <2>6. Attempted'
    BY <1>1, <1>2, <2>1, <2>4 DEF Attempted, Settled, Ended
  <2>7. Taken(s)' = Taken(s) + 1 BY <1>6, <2>1, <2>3, <2>4 DEF Taken
  <2>a. \A i \in 1 .. Len(queues[s]) - 1 : i + 1 \in 1 .. Len(queues[s]) /\ (Taken(s) + 1) + i = Taken(s) + (i + 1)
    <3> DEFINE n == Len(queues[s])
    <3> DEFINE m == Taken(s)
    <3>1. n \in Nat /\ n >= 1 /\ m \in Nat
      BY <1>6, <2>2
    <3> HIDE DEF n, m
    <3> QED BY <3>1 DEF n, m
  <2>b. (Taken(s) + 1) + Len(queues'[s]) = Taken(s) + Len(queues[s])
    <3> DEFINE n == Len(queues[s])
    <3> DEFINE m == Taken(s)
    <3> DEFINE l == Len(queues'[s])
    <3>1. n \in Nat /\ m \in Nat /\ l = n - 1
      BY <1>6, <2>2, <2>4
    <3> HIDE DEF n, m, l
    <3> QED BY <3>1 DEF n, m, l
  <2>9. ASSUME NEW t \in ReplaySteps
        PROVE  /\ Following(queues'[t], Taken(t)', answered'[t])
               /\ \A i \in DOMAIN answered'[t] : i <= Taken(t)' + Len(queues'[t]) <=> InTrace(answered[t][i], loaded)
               /\ held'[t] # << >> => Taken(t)' \in DOMAIN answered'[t] /\ held'[t][1] = answered'[t][Taken(t)']
    <3>1. CASE t = s
      <4>1. \A i \in 1 .. Len(queues[s]) : Taken(s) + i \in DOMAIN answered[s] /\ queues[s][i] = answered[s][Taken(s) + i]
        BY <1>5, <2>2 DEF Following
      <4>2. Following(queues'[s], Taken(s) + 1, answered[s])
        BY <2>2, <2>4, <2>a, <4>1 DEF Following
      <4>4. Taken(s) + 1 \in DOMAIN answered[s] /\ r = answered[s][Taken(s) + 1]
        BY <2>2, <4>1
      <4> QED BY <1>2, <1>5, <2>3, <2>4, <2>7, <2>b, <3>1, <4>2, <4>4
    <3>2. CASE t # s BY <1>2, <1>5, <2>4, <2>1, <3>2 DEF Taken
    <3> QED BY <3>1, <3>2
  <2>11. ReplaysInOrder'
    BY <1>1, <1>2, <2>1 DEF ReplaysInOrder
  <2> QED BY <1>3, <2>5, <2>6, <1>2, <2>9, <2>11 DEF ReplayInv, Loaded, Ended, InTrace
<1> QED BY <1>8, <1>9

LEMMA JudgeKeeps ==
  ASSUME ReplayInv, NEW s \in ReplaySteps, Judge(s)
  PROVE  ReplayInv'
<1> DEFINE r == held[s][1]
<1>1. ReplayTyped /\ Attempted /\ Buffered /\ Requested /\ Merged /\ Loaded /\ ReplaysInOrder
  BY DEF ReplayInv
<1>2. stage = "replay" /\ held[s] # << >>
      /\ UNCHANGED <<stage, asks, limit, tolerant, changed, buffers, merged, trace, loaded, queues, live, answered>>
  BY DEF Judge, specification
<1>a. PICK result \in Outcomes(r, asks[s]) : done' = [done EXCEPT ![s] = Append(@, result)]
  BY DEF Judge
<1>3. done' = [done EXCEPT ![s] = Append(done[s], result)] /\ held' = [held EXCEPT ![s] = << >>]
  BY <1>a DEF Judge
<1>4. done \in [ReplaySteps -> Seq(Ending)] /\ queues \in [ReplaySteps -> Seq(Record)]
      /\ held \in [ReplaySteps -> {h \in Seq(Record) : Len(h) <= 1}]
      /\ answered \in [ReplaySteps -> Seq(Record)]
  BY <1>1 DEF ReplayTyped
<1>5. held[s] \in Seq(Record) /\ Len(held[s]) = 1 /\ r \in Record
  <2> DEFINE h == held[s]
  <2>1. h \in Seq(Record) /\ Len(h) <= 1 /\ h # << >>
    BY <1>2, <1>4
  <2> HIDE DEF h
  <2>2. Len(h) = 1
    <3>1. Len(h) \in Nat /\ Len(h) # 0 /\ Len(h) <= 1 BY <2>1
    <3>2. \A n \in Nat : n # 0 /\ n <= 1 => n = 1 OBVIOUS
    <3> QED BY <3>1, <3>2, Zenon
  <2>3. h[1] \in Record
    BY <2>1, <2>2
  <2> QED BY <2>1, <2>2, <2>3 DEF h
<1>6. loaded = Len(trace)
  <2>1. ~(loaded < Len(trace))
    BY <1>1, <1>2 DEF Loaded
  <2> QED BY <1>1, <2>1 DEF ReplayTyped
<1>7. result \in Ending /\ result \in Outcomes(r, asks[s])
  BY <1>5 DEF Record, Outcomes, Ending, Failures, Answers
<1>8. \A t \in ReplaySteps :
        /\ Following(queues[t], Taken(t), answered[t])
        /\ \A i \in DOMAIN answered[t] : i <= Taken(t) + Len(queues[t]) <=> InTrace(answered[t][i], loaded)
        /\ held[t] # << >> => Taken(t) \in DOMAIN answered[t] /\ held[t][1] = answered[t][Taken(t)]
  BY <1>1, <1>2 DEF Loaded
<1>9. Taken(s) = Len(done[s]) + 1 /\ Taken(s) \in DOMAIN answered[s] /\ r = answered[s][Taken(s)]
  BY <1>2, <1>4, <1>5, <1>8 DEF Taken
<1> HIDE DEF r
<1>10. Lasted' /\ Buffered' /\ Requested' /\ Merged' /\ VerifiedMeansCompared' /\ FaithfulWhenAnswered'
  BY <1>2, RecordsStay
<1>11. \A t \in ReplaySteps : held'[t] = IF t = s THEN << >> ELSE held[t]
  BY <1>3, <1>4
<1>12. Attempted' /\ done' \in [ReplaySteps -> Seq(Ending)]
  <2>1. ~Settled(s)
    BY <1>1, <1>2 DEF Attempted
  <2> QED BY <1>2, <1>3, <1>7, <1>11, <2>1, AttemptEnds
<1>13. ReplayTyped'
  <2> DEFINE h == << >>
  <2>1. h \in {x \in Seq(Record) : Len(x) <= 1} /\ held' = [held EXCEPT ![s] = h]
    BY <1>3
  <2> HIDE DEF h
  <2>2. held' \in [ReplaySteps -> {x \in Seq(Record) : Len(x) <= 1}]
    BY <1>4, <2>1
  <2> QED BY <1>1, <1>2, <1>12, <2>2 DEF ReplayTyped
<1>14. done'[s] = Append(done[s], result) /\ \A t \in ReplaySteps \ {s} : done'[t] = done[t]
  BY <1>3, <1>4
<1>15. Len(done'[s]) = Len(done[s]) + 1 /\ DOMAIN done'[s] = 1 .. Len(done[s]) + 1
       /\ DOMAIN done[s] = 1 .. Len(done[s]) /\ Len(done[s]) \in Nat
       /\ done'[s][Len(done[s]) + 1] = result /\ \A k \in 1 .. Len(done[s]) : done'[s][k] = done[s][k]
  BY <1>4, <1>14
<1>16. \A t \in ReplaySteps : Taken(t)' = Taken(t)
  <2>1. Taken(s)' = Len(done'[s]) + Len(held'[s])
    BY DEF Taken
  <2>2. held'[s] = << >>
    BY <1>11
  <2>3. Len(held'[s]) = 0
    BY <2>2
  <2>4. Taken(s)' = Taken(s)
    BY <1>9, <1>15, <2>1, <2>3
  <2>5. \A t \in ReplaySteps \ {s} : Taken(t)' = Taken(t)
    BY <1>11, <1>14 DEF Taken
  <2> QED BY <2>4, <2>5
<1>17. Loaded'
  <2>1. ASSUME NEW t \in ReplaySteps
        PROVE  /\ Following(queues'[t], Taken(t)', answered'[t])
               /\ \A i \in DOMAIN answered'[t] : i <= Taken(t)' + Len(queues'[t]) <=> InTrace(answered[t][i], loaded)
               /\ held'[t] # << >> => Taken(t)' \in DOMAIN answered'[t] /\ held'[t][1] = answered'[t][Taken(t)']
    BY <1>2, <1>8, <1>11, <1>16
  <2> QED BY <1>2, <1>6, <2>1 DEF Loaded, Ended, InTrace
<1>18. ReplaysInOrder'
  <2>1. ASSUME NEW t \in ReplaySteps, NEW k \in DOMAIN done'[t]
        PROVE  IF k > Len(answered[t]) THEN done'[t][k] = "exhausted"
               ELSE done'[t][k] \in Outcomes(answered[t][k], asks[t])
    <3>1. CASE t = s /\ k = Len(done[s]) + 1
      <4>1. ~(k > Len(answered[s])) /\ answered[s][k] = r
        BY <1>4, <1>9, <3>1
      <4> QED BY <1>7, <1>15, <3>1, <4>1
    <3>2. CASE t # s \/ k # Len(done[s]) + 1
      <4>1. k \in DOMAIN done[t] /\ done'[t][k] = done[t][k]
        BY <1>14, <1>15, <3>2
      <4> QED BY <1>1, <1>2, <4>1 DEF ReplaysInOrder
    <3> QED BY <3>1, <3>2
  <2> QED BY <1>2, <2>1 DEF ReplaysInOrder
<1> QED BY <1>10, <1>12, <1>13, <1>17, <1>18 DEF ReplayInv

(***************************************************************************)
(* The end.  The requests of all steps are as many as the records of the   *)
(* trace that have one; those that were repeated are among them, and if    *)
(* they are as many too then each of them was.                             *)
(***************************************************************************)
Made == UNION {{s} \X DOMAIN answered[s] : s \in ReplaySteps}

LEMMA MadeIsRecorded ==
  ASSUME ReplayTyped, Buffered, Requested, Merged, stage # "live"
  PROVE  IsFiniteSet(Made) /\ Cardinality(Made) \in Nat /\ Cardinality(Made) = Cardinality(Recorded)
<1>1. \A s \in ReplaySteps : \A i \in DOMAIN answered[s] :
        /\ answered[s][i] \in Record /\ answered[s][i].step = s /\ HasRequest(answered[s][i])
        /\ answered[s][i].attempt \in DOMAIN buffers[s]
        /\ answered[s][i] = buffers[s][answered[s][i].attempt]
  BY AnsweredOf
<1>2. \A p \in Made : \E s \in ReplaySteps : \E i \in DOMAIN answered[s] : p = << s, i >>
  BY DEF Made
<1>3. IsFiniteSet(Recorded)
  <2>1. DOMAIN trace = 1 .. Len(trace) /\ Len(trace) \in Nat
    BY DEF ReplayTyped
  <2>2. IsFiniteSet(1 .. Len(trace))
    BY <2>1, FS_Interval
  <2> QED BY <2>2, <2>1, FS_Subset DEF Recorded
<1>4. \A p \in Made : \E k \in Recorded : trace[k] = answered[p[1]][p[2]]
  <2> SUFFICES ASSUME NEW s \in ReplaySteps, NEW i \in DOMAIN answered[s]
               PROVE  \E k \in Recorded : trace[k] = answered[s][i]
    BY <1>2
  <2>2. PICK k \in DOMAIN trace : trace[k] = buffers[s][answered[s][i].attempt] BY <1>1 DEF Merged, ReplaySteps
  <2> QED BY <1>1, <2>2 DEF Recorded
<1>5. \A p, q \in Made : answered[p[1]][p[2]] = answered[q[1]][q[2]] => p = q
  <2> SUFFICES ASSUME NEW s \in ReplaySteps, NEW i \in DOMAIN answered[s],
                      NEW t \in ReplaySteps, NEW j \in DOMAIN answered[t], answered[s][i] = answered[t][j]
               PROVE  s = t /\ i = j
    BY <1>2
  <2> QED BY <1>1, AnsweredApart
<1>6. \A k \in Recorded : \E p \in Made : answered[p[1]][p[2]] = trace[k]
  <2> SUFFICES ASSUME NEW k \in DOMAIN trace, HasRequest(trace[k])
               PROVE  \E p \in Made : answered[p[1]][p[2]] = trace[k]
    BY DEF Recorded
  <2> DEFINE s == trace[k].step
  <2>1. s \in ReplaySteps /\ trace[k].attempt \in DOMAIN buffers[s] /\ trace[k] = buffers[s][trace[k].attempt]
    BY DEF Merged, ReplaySteps
  <2>2. PICK i \in DOMAIN answered[s] : answered[s][i] = trace[k]
    BY <2>1 DEF Requested, RequestsAre
  <2> HIDE DEF s
  <2>3. << s, i >> \in Made
    BY <2>1, <2>2 DEF Made
  <2> QED BY <2>2, <2>3
<1>7. \A k, l \in Recorded : trace[k] = trace[l] => k = l
  <2> SUFFICES ASSUME NEW k \in DOMAIN trace, NEW l \in DOMAIN trace, trace[k] = trace[l], k < l
               PROVE  FALSE
    BY DEF Recorded, ReplayTyped
  <2>2. trace[k] \in Record
    BY DEF ReplayTyped
  <2> QED BY <2>2 DEF Merged, Record
<1>8. IsFiniteSet(Made) /\ Cardinality(Made) <= Cardinality(Recorded)
  <2> DEFINE f == [p \in Made |-> CHOOSE k \in Recorded : trace[k] = answered[p[1]][p[2]]]
  <2>1. \A p \in Made : f[p] \in Recorded /\ trace[f[p]] = answered[p[1]][p[2]]
    BY <1>4
  <2>2. f \in [Made -> Recorded]
    BY <2>1
  <2>3. \A p, q \in Made : f[p] = f[q] => p = q
    <3> HIDE DEF f
    <3> QED BY <1>5, <2>1
  <2>4. f \in Injection(Made, Recorded)
    <3> HIDE DEF f
    <3> QED BY <2>2, <2>3 DEF Injection, IsInjective
  <2> HIDE DEF f
  <2> QED BY <1>3, <2>4, FS_Injection
<1>9. Cardinality(Recorded) <= Cardinality(Made)
  <2> DEFINE g == [k \in Recorded |-> CHOOSE p \in Made : answered[p[1]][p[2]] = trace[k]]
  <2>1. \A k \in Recorded : g[k] \in Made /\ answered[g[k][1]][g[k][2]] = trace[k]
    BY <1>6
  <2>2. g \in [Recorded -> Made]
    BY <2>1
  <2>3. \A k, l \in Recorded : g[k] = g[l] => k = l
    <3> HIDE DEF g
    <3> QED BY <1>7, <2>1
  <2>4. g \in Injection(Recorded, Made)
    <3> HIDE DEF g
    <3> QED BY <2>2, <2>3 DEF Injection, IsInjective
  <2> HIDE DEF g
  <2> QED BY <1>8, <2>4, FS_Injection
<1> QED BY <1>8, <1>9, <1>3, FS_CardinalityType

LEMMA RepeatedIsMade ==
  ASSUME ReplayTyped, ReplaysInOrder, stage # "live"
  PROVE  Repeated \subseteq Made
<1> SUFFICES ASSUME NEW s \in ReplaySteps, NEW k \in DOMAIN done[s], done[s][k] \in Answers
             PROVE  << s, k >> \in Made
  BY DEF Repeated
<1> QED BY DEF Made, ReplayTyped, ReplaysInOrder, Answers

\* A set of numbers that is not empty has a least.
LEMMA LeastAttempt ==
  ASSUME NEW S \in SUBSET Nat, S # {}
  PROVE  \E m \in S : \A k \in S : m <= k
<1>1. PICK m \in S : \A k \in S : << k, m >> \notin OpToRel(<, Nat)
  BY NatLessThanWellFounded, WFMin, Zenon
<1>2. ASSUME NEW k \in S
      PROVE  m <= k
  <2>1. k \in Nat /\ m \in Nat /\ << k, m >> \in Nat \X Nat
    OBVIOUS
  <2>2. ~(<< k, m >>[1] < << k, m >>[2])
    BY <1>1, <2>1, Zenon DEF OpToRel
  <2> QED BY <2>1, <2>2
<1> QED BY <1>2

\* A count that never falls behind and misses nothing counts one after the other.
LEMMA AllRequests ==
  ASSUME NEW a \in Seq(Record), NEW b \in Seq(Record), RequestsAre(a, b),
         \A k \in DOMAIN b : b[k].attempt = k /\ HasRequest(b[k])
  PROVE  Len(a) = Len(b) /\ \A k \in DOMAIN a : a[k] = b[k]
<1>1. Len(a) \in Nat /\ Len(b) \in Nat /\ DOMAIN a = 1 .. Len(a) /\ DOMAIN b = 1 .. Len(b)
  OBVIOUS
<1>2. \A i \in 1 .. Len(a) : a[i].attempt \in 1 .. Len(b) /\ a[i] = b[a[i].attempt]
  BY <1>1 DEF RequestsAre
<1>3. \A i, j \in 1 .. Len(a) : i < j => a[i].attempt < a[j].attempt
  BY <1>1 DEF RequestsAre
<1>4. \A k \in 1 .. Len(b) : \E i \in 1 .. Len(a) : a[i].attempt = k
  <2> TAKE k \in 1 .. Len(b)
  <2>1. HasRequest(b[k]) /\ b[k].attempt = k
    BY <1>1
  <2>2. PICK i \in 1 .. Len(a) : a[i] = b[k]
    BY <1>1, <2>1 DEF RequestsAre
  <2> QED BY <2>1, <2>2
<1>5. \A i \in 1 .. Len(a) : a[i].attempt = i
  <2> DEFINE S == {i \in 1 .. Len(a) : a[i].attempt # i}
  <2> SUFFICES ASSUME S # {}
               PROVE  FALSE
    OBVIOUS
  <2>1. S \in SUBSET Nat
    OBVIOUS
  <2>2. PICK i \in S : \A k \in S : i <= k
    <3> HIDE DEF S
    <3> QED BY <2>1, LeastAttempt
  <2>3. i \in 1 .. Len(a) /\ a[i].attempt # i /\ a[i].attempt \in 1 .. Len(b) /\ i \in Nat /\ i >= 1
    BY <1>2, <2>2
  <2>4. \A j \in 1 .. Len(a) : j < i => a[j].attempt = j
    BY <2>2
  <2>5. a[i].attempt > i
    <3>1. CASE i = 1
      BY <2>3, <3>1
    <3>2. CASE i > 1 BY <2>3, <1>3, <2>4, <3>2
    <3> QED BY <2>3, <3>1, <3>2
  <2>7. PICK j \in 1 .. Len(a) : a[j].attempt = i BY <1>4, <1>1, <2>3, <2>5
  <2> QED BY <2>3, <2>5, <2>7, <1>3, <2>4
<1>6. Len(a) = Len(b)
  <2>1. Len(a) <= Len(b)
    <3>1. CASE Len(a) = 0
      BY <1>1, <3>1
    <3>2. CASE Len(a) > 0 BY <1>2, <1>5, <1>1, <3>2
    <3> QED BY <1>1, <3>1, <3>2
  <2>2. Len(b) <= Len(a)
    <3>1. CASE Len(b) = 0
      BY <1>1, <3>1
    <3>2. CASE Len(b) > 0
      <4>1. Len(b) \in 1 .. Len(b)
        BY <1>1, <3>2
      <4>2. PICK i \in 1 .. Len(a) : a[i].attempt = Len(b)
        BY <1>4, <4>1
      <4> QED BY <1>1, <1>5, <4>2
    <3> QED BY <1>1, <3>1, <3>2
  <2> DEFINE m == Len(a)
  <2> DEFINE n == Len(b)
  <2>3. m \in Nat /\ n \in Nat /\ m <= n /\ n <= m
    BY <1>1, <2>1, <2>2
  <2> HIDE DEF m, n
  <2> QED BY <2>3 DEF m, n
<1> QED BY <1>1, <1>2, <1>5, <1>6

\* Two runs of a step of which one goes as the other as far as both go are of the
\* same length, for neither goes on when it has settled.
LEMMA SettlesAlike ==
  ASSUME NEW d \in Seq(Ending), NEW l \in Seq(Ending), NEW most \in Nat,
         d # << >>, Len(d) <= most, \A k \in 1 .. Len(d) - 1 : d[k] # "ok", Last(d) = "ok" \/ Len(d) >= most,
         l # << >>, Len(l) <= most, \A k \in 1 .. Len(l) - 1 : l[k] # "ok", Last(l) = "ok" \/ Len(l) >= most,
         \A k \in DOMAIN d : k <= Len(l) => d[k] = l[k]
  PROVE  d = l
<1>1. Len(d) \in Nat /\ Len(l) \in Nat /\ Len(d) >= 1 /\ Len(l) >= 1
      /\ DOMAIN d = 1 .. Len(d) /\ DOMAIN l = 1 .. Len(l)
  OBVIOUS
<1>2. ~(Len(d) < Len(l))
  <2> SUFFICES ASSUME Len(d) < Len(l)
               PROVE  FALSE
    OBVIOUS
  <2> QED BY <1>1 DEF Last
<1>3. ~(Len(l) < Len(d))
  <2> SUFFICES ASSUME Len(l) < Len(d)
               PROVE  FALSE
    OBVIOUS
  <2> QED BY <1>1 DEF Last
<1>4. Len(d) = Len(l)
  <2> DEFINE m == Len(d)
  <2> DEFINE n == Len(l)
  <2>1. m \in Nat /\ n \in Nat /\ ~(m < n) /\ ~(n < m)
    BY <1>1, <1>2, <1>3
  <2> HIDE DEF m, n
  <2> QED BY <2>1 DEF m, n
<1> QED BY <1>4, <1>1, <1>3, SeqEqual

\* A replay with as many requests as the trace has records of has repeated them all.
LEMMA AllAreRepeated ==
  ASSUME ReplayInv, Replaying, \A s \in ReplaySteps : held[s] = << >>,
         Cardinality(Repeated) = Cardinality(Recorded)
  PROVE  /\ \A s \in ReplaySteps : queues[s] = << >> /\ Len(done[s]) >= Len(answered[s])
         /\ \A k \in Recorded : asks[trace[k].step] = trace[k].request
<1>1. ReplayTyped /\ Buffered /\ Requested /\ Merged /\ Loaded /\ ReplaysInOrder /\ stage = "replay"
  BY DEF ReplayInv, Replaying
<1>3. \A s \in ReplaySteps : \A i \in DOMAIN answered[s] : i \in DOMAIN done[s] /\ done[s][i] \in Answers
  <2> SUFFICES ASSUME NEW s \in ReplaySteps, NEW i \in DOMAIN answered[s]
               PROVE  i \in DOMAIN done[s] /\ done[s][i] \in Answers
    OBVIOUS
  <2>1. << s, i >> \in Repeated BY <1>1, RepeatedIsMade, MadeIsRecorded, FS_Subset DEF Made
  <2> QED BY <2>1 DEF Repeated
<1>4. \A s \in ReplaySteps : \A i \in DOMAIN answered[s] : answered[s][i].request = asks[s]
  <2> SUFFICES ASSUME NEW s \in ReplaySteps, NEW i \in DOMAIN answered[s]
               PROVE  answered[s][i].request = asks[s]
    OBVIOUS
  <2> QED BY <1>3, <1>1 DEF Answers, ReplaysInOrder, ReplayTyped, Outcomes
<1>5. ASSUME NEW s \in ReplaySteps
      PROVE  queues[s] = << >> /\ Len(done[s]) >= Len(answered[s])
  <2>1. done[s] \in Seq(Ending) /\ answered[s] \in Seq(Record) /\ queues[s] \in Seq(Record)
    BY <1>1 DEF ReplayTyped
  <2>2. Len(done[s]) \in Nat /\ Len(answered[s]) \in Nat /\ Len(queues[s]) \in Nat
        /\ DOMAIN done[s] = 1 .. Len(done[s]) /\ DOMAIN answered[s] = 1 .. Len(answered[s])
    BY <2>1
  <2>3. Len(answered[s]) <= Len(done[s])
    <3>1. CASE Len(answered[s]) = 0
      BY <2>2, <3>1
    <3>2. CASE Len(answered[s]) > 0
      <4>1. Len(answered[s]) \in DOMAIN answered[s]
        BY <2>2, <3>2
      <4>2. Len(answered[s]) \in DOMAIN done[s]
        BY <1>3, <4>1
      <4> QED BY <2>2, <4>2
    <3> QED BY <2>2, <3>1, <3>2
  <2>4. Taken(s) = Len(done[s])
    <3>2. Len(held[s]) = 0 OBVIOUS
    <3> QED BY <2>2, <3>2 DEF Taken
  <2>5. Len(queues[s]) = 0
    <3> SUFFICES ASSUME Len(queues[s]) # 0
                 PROVE  FALSE
      OBVIOUS
    <3> QED BY <2>2, <2>3, <2>4, <1>1, <2>1 DEF Loaded, Following
  <2> QED BY <2>2, <2>3, <2>1, <2>5
<1>6. ASSUME NEW k \in Recorded
      PROVE  asks[trace[k].step] = trace[k].request
  <2>1. k \in DOMAIN trace /\ HasRequest(trace[k])
    BY DEF Recorded
  <2>2. trace[k].step \in ReplaySteps /\ trace[k].attempt \in DOMAIN buffers[trace[k].step]
        /\ trace[k] = buffers[trace[k].step][trace[k].attempt]
    BY <1>1, <2>1 DEF Merged, ReplaySteps
  <2>3. PICK i \in DOMAIN answered[trace[k].step] : answered[trace[k].step][i] = trace[k]
    BY <1>1, <2>1, <2>2 DEF Requested, RequestsAre
  <2> QED BY <1>4, <2>2, <2>3
<1> QED BY <1>5, <1>6

\* A step whose every attempt was answered repeats them all, and then stops.
LEMMA AnsweredRepeats ==
  ASSUME ReplayInv, Replaying, ~changed, NEW s \in ReplaySteps, Settled(s), NothingLost(s)
  PROVE  /\ done[s] = live[s] /\ DOMAIN answered[s] = DOMAIN done[s]
         /\ \A k \in DOMAIN done[s] : done[s][k] \in Answers
<1>1. ReplayTyped /\ Attempted /\ Lasted /\ Buffered /\ Requested /\ ReplaysInOrder /\ stage = "replay"
  BY DEF ReplayInv, Replaying
<1>2. done[s] \in Seq(Ending) /\ live[s] \in Seq(Ending) /\ buffers[s] \in Seq(Record) /\ answered[s] \in Seq(Record)
      /\ limit \in Nat
  BY <1>1 DEF ReplayTyped
<1>3. Len(buffers[s]) = Len(live[s])
      /\ \A k \in DOMAIN buffers[s] : buffers[s][k].attempt = k /\ buffers[s][k].answer = live[s][k]
                                      /\ buffers[s][k].request = asks[s]
  BY <1>1 DEF Buffered, Lived, NothingLost
<1>4. DOMAIN buffers[s] = 1 .. Len(live[s]) /\ DOMAIN live[s] = 1 .. Len(live[s]) /\ Len(live[s]) \in Nat
  BY <1>2, <1>3
<1>5. \A k \in DOMAIN live[s] : live[s][k] \in Answers /\ HasRequest(buffers[s][k])
  <2> TAKE k \in DOMAIN live[s]
  <2>2. buffers[s][k] \in Record /\ buffers[s][k].answer = live[s][k]
    BY <1>2, <1>3, <1>4
  <2> QED BY <2>2 DEF HasRequest, ToSet, Record, NothingLost
<1>6. Len(answered[s]) = Len(buffers[s]) /\ \A k \in DOMAIN answered[s] : answered[s][k] = buffers[s][k]
  BY <1>2, <1>1, <1>3, <1>4, <1>5, AllRequests DEF Requested
<1>7. DOMAIN answered[s] = 1 .. Len(live[s]) /\ Len(answered[s]) = Len(live[s])
  BY <1>2, <1>3, <1>6
<1>8. \A k \in DOMAIN done[s] : k <= Len(live[s]) => done[s][k] = live[s][k]
  <2> SUFFICES ASSUME NEW k \in DOMAIN done[s], k <= Len(live[s])
               PROVE  done[s][k] = live[s][k]
    OBVIOUS
  <2>1. k \in 1 .. Len(live[s])
    BY <1>2, <1>4
  <2>2. k \in DOMAIN answered[s] /\ ~(k > Len(answered[s])) BY <1>4, <1>7, <2>1
  <2>3. done[s][k] \in Outcomes(answered[s][k], asks[s]) BY <1>1, <2>2 DEF ReplaysInOrder
  <2> QED BY <1>3, <1>4, <1>6, <2>1, <2>2, <2>3 DEF Outcomes, NothingLost
<1>11. done[s] = live[s] BY <1>2, <1>8, <1>1, SettlesAlike DEF Attempted, Settled, Lasted
<1> QED BY <1>4, <1>5, <1>7, <1>11

LEMMA ReplayEndKeeps ==
  ASSUME ReplayInv, ReplayFinish
  PROVE  ReplayInv'
<1>1. ReplayTyped /\ Attempted /\ Lasted /\ Buffered /\ Requested /\ Merged /\ Loaded /\ ReplaysInOrder
  BY DEF ReplayInv
<1>2. Replaying /\ stage = "replay" /\ loaded = Len(trace) /\ (\A s \in ReplaySteps : Settled(s) /\ held[s] = << >>)
      /\ UNCHANGED <<asks, limit, tolerant, changed, done, buffers, merged, trace, loaded, queues, held, live, answered>>
  BY DEF ReplayFinish, Replaying, specification
<1>3. stage' = IF ~Passed(done) THEN "failed"
               ELSE IF Cardinality(Repeated) # Cardinality(Recorded) THEN "drifted" ELSE "verified"
  BY DEF ReplayFinish
<1>4. stage' \in Ended
  BY <1>3 DEF Ended
<1>5. ReplayTyped'
  BY <1>1, <1>2, <1>4 DEF ReplayTyped, Ended
<1>6. Attempted'
  BY <1>1, <1>2, <1>4 DEF Attempted, Settled
<1>7. Lasted' /\ Buffered' /\ Requested' /\ Merged' /\ ReplaysInOrder'
  <2>4. Merged'
    BY <1>1, <1>2, <1>4 DEF Merged, Ended
  <2>5. ReplaysInOrder'
    BY <1>1, <1>2, <1>4 DEF ReplaysInOrder, Ended
  <2> QED BY <1>1, <1>2, <1>4, <2>4, <2>5 DEF Requested, RequestsAre, HasRequest, Lasted, Ended, Buffered, Lived
<1>8. Loaded' BY <1>2, <1>4, <1>1 DEF Loaded, Ended, InTrace, Taken
<1>9. VerifiedMeansCompared'
  <2> SUFFICES ASSUME stage' = "verified"
               PROVE  /\ \A s \in ReplaySteps : queues[s] = << >> /\ Len(done[s]) >= Len(answered[s])
                      /\ \A k \in Recorded : asks[trace[k].step] = trace[k].request
    BY <1>2 DEF VerifiedMeansCompared, Recorded, HasRequest
  <2> QED BY <1>2, <1>3, AllAreRepeated
<1>10. FaithfulWhenAnswered'
  <2> SUFFICES ASSUME ~changed, \A s \in ReplaySteps : NothingLost(s)
               PROVE  done = live /\ stage' = IF Passed(live) THEN "verified" ELSE "failed"
    BY <1>2 DEF FaithfulWhenAnswered, Passed, NothingLost
  <2>1. \A s \in ReplaySteps : /\ done[s] = live[s] /\ DOMAIN answered[s] = DOMAIN done[s]
                               /\ \A k \in DOMAIN done[s] : done[s][k] \in Answers
    BY <1>2, AnsweredRepeats
  <2>3. Repeated = Made
    BY <2>1 DEF Repeated, Made
  <2>2. done = live
    <3>1. done \in [ReplaySteps -> Seq(Ending)] /\ live \in [ReplaySteps -> Seq(Ending)] BY <1>1 DEF ReplayTyped
    <3> QED BY <2>1, <3>1
  <2>4. Cardinality(Made) = Cardinality(Recorded) BY <1>1, <1>2, MadeIsRecorded
  <2> QED BY <1>3, <2>2, <2>3, <2>4
<1> QED BY <1>5, <1>6, <1>7, <1>8, <1>9, <1>10 DEF ReplayInv

LEMMA ReplayKeeps == ReplayInv /\ [ReplayNext]_replayVars => ReplayInv'
<1> SUFFICES ASSUME ReplayInv, [ReplayNext]_replayVars
             PROVE  ReplayInv'
  OBVIOUS
<1>1. ASSUME NEW s \in ReplaySteps, ReplayAttempt(s)
      PROVE  ReplayInv'
  BY <1>1, LiveAttemptKeeps
<1>2. CASE Merge
  BY <1>2, MergeKeeps
<1>3. CASE Load
  BY <1>3, LoadKeeps
<1>4. CASE Enqueue
  BY <1>4, EnqueueKeeps
<1>5. ASSUME NEW s \in ReplaySteps, Take(s)
      PROVE  ReplayInv'
  BY <1>5, TakeKeeps
<1>6. ASSUME NEW s \in ReplaySteps, Judge(s)
      PROVE  ReplayInv'
  BY <1>6, JudgeKeeps
<1>7. CASE ReplayFinish
  BY <1>7, ReplayEndKeeps
<1>8. CASE UNCHANGED replayVars
  <2>2. Buffered' /\ Requested' /\ Merged'
    <3>1. Buffered /\ Requested /\ Merged
      BY DEF ReplayInv
    <3>4. Merged'
      BY <1>8, <3>1 DEF replayVars, Merged, AllSettled, Settled
    <3> QED BY <1>8, <3>1, <3>4 DEF replayVars, Buffered, Lived, Requested, RequestsAre, HasRequest
  <2>3. Loaded' BY <1>8 DEF replayVars, Loaded, InTrace, ReplayInv, Taken
  <2>4. VerifiedMeansCompared' /\ FaithfulWhenAnswered'
    BY <1>8 DEF ReplayInv, replayVars, VerifiedMeansCompared, FaithfulWhenAnswered, NothingLost, Passed, Recorded,
                HasRequest
  <2> QED
    BY <1>8, <2>2, <2>3, <2>4 DEF ReplayInv, replayVars, ReplayTyped, Attempted, Settled, Lasted, ReplaysInOrder
<1> QED BY <1>1, <1>2, <1>3, <1>4, <1>5, <1>6, <1>7, <1>8 DEF ReplayNext

LEMMA ReplayIsTyped == ReplayInv => ReplayTypeOK
<1> SUFFICES ASSUME ReplayInv
             PROVE  ReplayTypeOK
  OBVIOUS
<1>1. ReplayTyped /\ Attempted /\ Lasted /\ Buffered /\ Requested /\ Loaded
  BY DEF ReplayInv
<1>2. ASSUME NEW s \in ReplaySteps
      PROVE  /\ Len(done[s]) <= limit /\ Len(live[s]) <= MaxAttempts
             /\ \A k \in DOMAIN done[s] : done[s][k] \in Answers \union Failures
  <2>1. CASE stage = "live" BY <1>1, <2>1, ReplayAssumption DEF ReplayTyped, Attempted, Ending, Lasted
  <2>2. CASE stage # "live"
    BY <1>1, <2>2 DEF ReplayTyped, Attempted, Lasted, Ending
  <2> QED BY <2>1, <2>2
<1>3. ASSUME NEW s \in ReplaySteps, NEW r \in ToSet(queues[s]) \union ToSet(held[s])
      PROVE  r \in Record /\ r.step = s /\ HasRequest(r)
  <2>1. stage # "live"
    BY <1>1 DEF Loaded, ToSet
  <2>2. CASE r \in ToSet(queues[s])
    <3>1. PICK i \in DOMAIN queues[s] : r = queues[s][i]
      BY <2>2 DEF ToSet
    <3> QED BY <1>1, <2>1, <3>1, AnsweredOf DEF Loaded, Following
  <2>3. CASE r \in ToSet(held[s])
    <3>1. PICK i \in DOMAIN held[s] : r = held[s][i]
      BY <2>3 DEF ToSet
    <3> QED BY <1>1, <2>1, <3>1, AnsweredOf DEF Loaded, ReplayTyped
  <2> QED BY <2>2, <2>3
<1> QED BY <1>2, <1>3, <1>1 DEF ReplayTypeOK, ReplayTyped, ToSet

(***************************************************************************)
(* However the attempts of the steps fall among each other, live and       *)
(* again, a request meets the record of the same attempt of its step, a    *)
(* trace that is called verified has drifted nowhere, and one of a run     *)
(* whose every attempt was answered is repeated to its end (execute_http,  *)
(* from_trace_steps, validate_replay_request).                             *)
(***************************************************************************)
THEOREM ReplayRepeats == ReplaySpec => []ReplayIsFaithful
<1>1. ReplayInv => ReplayIsFaithful
  BY ReplayIsTyped DEF ReplayInv, ReplayIsFaithful
<1> QED BY <1>1, ReplayBegins, ReplayKeeps, PTL DEF ReplaySpec

-----------------------------------------------------------------------------
(***************************************************************************)
(* The calls of the MCP server.  Between the vetting of a call and its     *)
(* last read the loop holds to that call: what was vetted is what is       *)
(* opened.                                                                 *)
(***************************************************************************)
Vetted ==
  \/ Request.tool = "file" /\ IsAllowed(Request.path)
  \/ Request.tool = "run_workflow" /\ Matches(Request.workflow) # {} /\ \A p \in Sources : IsAllowed(p)

CallInv ==
  /\ McpTypeOK /\ OpenedAreAllowed /\ length \in BOOLEAN
  /\ serving = "open" => Vetted

\* The reader passes a blank line, reads a header, fails, hands on what is at a place, or is
\* at its end.
Skips ==
  /\ reading = "start" /\ ~AtEnd(readAt) /\ At(readAt).kind = "blank"
  /\ readAt' = Past(readAt) /\ UNCHANGED <<reading, length, channel>>
Heads ==
  /\ ~AtEnd(readAt) /\ At(readAt).kind \notin {"blank", "badLength"}
  /\ reading = "headers" \/ (reading = "start" /\ At(readAt).kind \notin {"object", "body"})
  /\ readAt' = Past(readAt) /\ reading' = "headers" /\ length' = (length \/ At(readAt).kind = "length")
  /\ UNCHANGED channel
Fails ==
  /\ ~AtEnd(readAt) /\ reading # "closed"
  /\ \/ At(readAt).kind = "badLength"
     \/ reading = "headers" /\ At(readAt).kind = "blank" /\ ~(length /\ ~AtEnd(Past(readAt)))
  /\ readAt' = Past(readAt) /\ Close([kind |-> "readError"])
HandsLine == reading = "start" /\ ~AtEnd(readAt) /\ At(readAt).kind \in {"object", "body"} /\ Deliver(readAt)
HandsBody ==
  /\ reading = "headers" /\ length /\ ~AtEnd(readAt) /\ At(readAt).kind = "blank" /\ ~AtEnd(Past(readAt))
  /\ Deliver(Past(readAt))
Ends == reading # "closed" /\ AtEnd(readAt) /\ Close([kind |-> "eof"]) /\ UNCHANGED readAt

LEMMA ReadSteps ==
  ASSUME CallInv, Read
  PROVE  UNCHANGED <<input, loop>> /\ (Skips \/ Heads \/ Fails \/ HandsLine \/ HandsBody \/ Ends)
<1>1. CASE Eof
  BY <1>1 DEF Eof, Ends
<1>2. CASE FirstLine BY <1>2 DEF Skips, Heads, Fails, HandsLine, FirstLine, CallInv, McpTypeOK
<1>3. CASE HeaderLine BY <1>3 DEF Heads, Fails, HandsBody, HeaderLine
<1> QED BY <1>1, <1>2, <1>3 DEF Read

\* The reader changes what it has read, and the channel.
LEMMA ReadingKeeps ==
  ASSUME CallInv, Read
  PROVE  CallInv'
<1>1. UNCHANGED loop /\ (Skips \/ Heads \/ Fails \/ HandsLine \/ HandsBody \/ Ends)
  BY ReadSteps
<1>2. length' \in BOOLEAN /\ reading' \in {"start", "headers", "closed"} /\ (length' => reading' # "start")
  <2>1. length \in BOOLEAN /\ reading \in {"start", "headers", "closed"} /\ (length => reading # "start")
    BY DEF CallInv, McpTypeOK
  <2>2. CASE Skips
    BY <2>1, <2>2 DEF Skips
  <2>3. CASE Heads
    BY <2>1, <2>3 DEF Heads
  <2>4. CASE Fails \/ Ends
    BY <2>1, <2>4 DEF Fails, Ends, Close
  <2>5. CASE HandsLine \/ HandsBody
    BY <2>1, <2>5 DEF HandsLine, HandsBody, Deliver
  <2> QED BY <1>1, <2>2, <2>3, <2>4, <2>5
<1> QED BY <1>1, <1>2 DEF CallInv, McpTypeOK, OpenedAreAllowed, Vetted, Request, Sources, Matches, IsAllowed, loop

\* What a vetted call opens is allowed, and belongs to a description that has its workflow.
LEMMA VettedOpens ==
  ASSUME CallInv, serving = "open", NEW path,
         IF Request.tool = "file" THEN path = Request.path ELSE path \in Sources
  PROVE  /\ IsAllowed(path)
         /\ Requests[current.id].tool = "run_workflow" =>
              \E s \in DOMAIN Specs : /\ path \in Specs[s].sources
                                      /\ \A p \in Specs[s].sources : IsAllowed(p)
                                      /\ Requests[current.id].workflow \in Range(Specs[s].workflows)
<1>1. Vetted
  BY DEF CallInv
<1>2. CASE Request.tool = "file" BY <1>1, <1>2 DEF Vetted, Request
<1>3. CASE Request.tool # "file"
  <2>1. path \in Sources /\ Request.tool = "run_workflow" /\ \A p \in Sources : IsAllowed(p)
    BY <1>1, <1>3 DEF Vetted
  <2>2. PICK m \in Matches(Request.workflow) : path \in Specs[m[1]].sources
    BY <2>1 DEF Sources
  <2> DEFINE s == m[1]
  <2>3. s \in DOMAIN Specs /\ m[2] \in DOMAIN Specs[s].workflows /\ Specs[s].workflows[m[2]] = Request.workflow
    <3>1. PICK t \in DOMAIN Specs :
            m \in {t} \X {n \in DOMAIN Specs[t].workflows : Specs[t].workflows[n] = Request.workflow}
      BY DEF Matches
    <3> QED BY <3>1
  <2> QED BY <2>1, <2>3, <2>2 DEF Request, Sources, Range
<1> QED BY <1>2, <1>3

\* Opening only what is vetted keeps what is said of the files.
LEMMA OpeningKeeps ==
  ASSUME CallInv, serving = "open", NEW paths, UNCHANGED <<input, reader, channel, current, sent, broken>>,
         opened' = opened \union {<<current.id, p>> : p \in paths},
         \A p \in paths : IF Request.tool = "file" THEN p = Request.path ELSE p \in Sources,
         \/ serving' = "run" /\ UNCHANGED answer
         \/ Reply("result")
         \/ Reply("toolError")
  PROVE  CallInv'
<1>2. ASSUME NEW o \in opened'
      PROVE  /\ IsAllowed(o[2])
             /\ Requests[o[1]].tool = "run_workflow" =>
                  \E s \in DOMAIN Specs : /\ o[2] \in Specs[s].sources
                                          /\ \A p \in Specs[s].sources : IsAllowed(p)
                                          /\ Requests[o[1]].workflow \in Range(Specs[s].workflows)
  <2>1. CASE o \in opened
    BY <2>1 DEF CallInv, OpenedAreAllowed
  <2>2. CASE o \notin opened
    <3>1. PICK p \in paths : o = <<current.id, p>>
      BY <2>2
    <3> QED BY <3>1, VettedOpens
  <2> QED BY <2>1, <2>2
<1> QED BY <1>2 DEF CallInv, McpTypeOK, Reply, reader, OpenedAreAllowed, IsAllowed

\* A step of the loop that opens nothing, and vets nothing.
LEMMA AnsweringKeeps ==
  ASSUME CallInv, UNCHANGED <<reader, opened>>, serving' \in {"idle", "vet", "run", "answer", "ended"},
         answer' \in {"none", "result", "toolError", "methodNotFound"},
         (answer' # "none") <=> (serving' = "answer")
  PROVE  CallInv'
  BY DEF CallInv, McpTypeOK, OpenedAreAllowed, IsAllowed, reader

LEMMA CallsKeep == CallInv /\ [McpNext]_mcpVars => CallInv'
<1> SUFFICES ASSUME CallInv, [McpNext]_mcpVars
             PROVE  CallInv'
  OBVIOUS
<1>1. CASE Read
  BY <1>1, ReadingKeeps
<1>2. CASE Receive BY <1>2, AnsweringKeeps DEF CallInv, McpTypeOK, Reply, Receive
<1>3. CASE Vet
  <2>1. serving = "vet" /\ UNCHANGED <<input, reader, channel, current, sent, opened, broken>>
    BY <1>3 DEF Vet
  <2>3. CASE serving' = "open" /\ UNCHANGED answer /\ Vetted
    <3>1. Vetted'
      BY <2>1, <2>3 DEF Vetted, Request, Sources, Matches, IsAllowed
    <3> QED BY <2>1, <2>3, <3>1 DEF CallInv, McpTypeOK, OpenedAreAllowed, IsAllowed, reader
  <2>4. CASE Reply("result") \/ Reply("toolError")
    BY <2>1, <2>4, AnsweringKeeps DEF Reply
  <2> QED BY <1>3, FS_EmptySet, <2>3, <2>4 DEF Vet, Vetted
<1>4. CASE Open
  <2>1. serving = "open" /\ UNCHANGED <<input, reader, channel, current, sent, broken>>
    BY <1>4 DEF Open
  <2>2. CASE Request.tool = "file"
    <3>1. opened' = opened \union {<<current.id, Request.path>>} /\ (Reply("result") \/ Reply("toolError"))
      BY <1>4, <2>2 DEF Open
    <3> DEFINE paths == {Request.path}
    <3>3. \A p \in paths : IF Request.tool = "file" THEN p = Request.path ELSE p \in Sources
      BY <2>2
    <3>4. opened' = opened \union {<<current.id, p>> : p \in paths} BY <3>1
    <3> HIDE DEF paths
    <3> QED BY <2>1, <3>1, <3>3, <3>4, OpeningKeeps
  <2>3. CASE Request.tool # "file"
    <3>1. PICK paths \in SUBSET Sources :
            /\ opened' = opened \union {<<current.id, p>> : p \in paths}
            /\ (serving' = "run" /\ UNCHANGED answer) \/ Reply("toolError")
      BY <1>4, <2>3 DEF Open
    <3> QED BY <2>1, <3>1, <2>3, OpeningKeeps
  <2> QED BY <2>2, <2>3
<1>5. CASE Ran
  BY <1>5, AnsweringKeeps DEF Ran, Reply
<1>6. CASE Write
  BY <1>6, AnsweringKeeps DEF Write
<1>7. CASE UNCHANGED mcpVars
  BY <1>7 DEF CallInv, McpTypeOK, OpenedAreAllowed, Vetted, Request, Sources, Matches, IsAllowed, mcpVars
<1> QED BY <1>1, <1>2, <1>3, <1>4, <1>5, <1>6, <1>7 DEF McpNext, Serve

\* Whatever a client writes and whichever files are there, what a call opens is in the
\* configured directories, and a run opens nothing unless all the sources of a description
\* that has its workflow are (check_path_allowed, dispatch).
THEOREM CallsVetted == McpSpec => []CallsAreVetted
<1>1. McpInit => CallInv
  BY DEF McpInit, CallInv, McpTypeOK, OpenedAreAllowed
<1>2. CallInv => CallsAreVetted
  BY DEF CallInv, CallsAreVetted
<1> QED BY <1>1, <1>2, CallsKeep, PTL DEF McpSpec

(***************************************************************************)
(* The order of the answers.  A message ends with the last line of its     *)
(* piece, so what has been handed on, in the channel, at the loop or       *)
(* answered, are pieces before the one that is read; of a client that      *)
(* writes whole messages they are all that ask for an answer.              *)
(***************************************************************************)
LEMMA PieceForms ==
  ASSUME NEW piece \in Seq(Line)
  PROVE  /\ Len(piece) \in Nat /\ DOMAIN piece = 1 .. Len(piece) /\ (piece # << >> => Len(piece) > 0)
         /\ ObjectPiece(piece) => /\ Len(piece) = 1 /\ piece[1].kind = "object" /\ Carried(piece) = {piece[1].id}
                                  /\ ~FramePiece(piece) /\ ~CutPiece(piece)
         /\ FramePiece(piece) => /\ Len(piece) > 2 /\ Carried(piece) = {piece[Len(piece)].id} /\ ~CutPiece(piece)
                                 /\ piece[Len(piece)].kind = "body" /\ piece[Len(piece) - 1].kind = "blank"
                                 /\ \A k \in 1 .. Len(piece) - 2 : piece[k].kind \in {"length", "text"}
                                 /\ \E k \in 1 .. Len(piece) - 2 : piece[k].kind = "length"
         /\ NoisePiece(piece) => /\ Len(piece) > 0 /\ Carried(piece) = {}
                                 /\ \A k \in 1 .. Len(piece) : piece[k].kind \in {"blank", "badLength", "text"}
         /\ CutPiece(piece) => /\ Len(piece) > 0 /\ Carried(piece) = {}
                               /\ piece[Len(piece)].kind \in {"length", "text", "blank"}
                               /\ \A k \in 1 .. Len(piece) - 1 : piece[k].kind \in {"length", "text"}
<1> DEFINE n == Len(piece)
<1>1. n \in Nat /\ DOMAIN piece = 1 .. n /\ (piece # << >> => n > 0)
  BY LenProperties, EmptySeq
<1> HIDE DEF n
<1>2. ASSUME NEW m, NEW S
      PROVE  LineKinds(piece, m) \subseteq S <=> \A k \in 1 .. m : piece[k].kind \in S
  BY DEF LineKinds
<1>3. \A id : id \in Carried(piece) <=> \E k \in 1 .. n : piece[k].kind \in {"object", "body"} /\ id = piece[k].id
  BY <1>1 DEF Carried
<1>4. ASSUME ObjectPiece(piece)
      PROVE  /\ n = 1 /\ piece[1].kind = "object" /\ Carried(piece) = {piece[1].id}
             /\ ~FramePiece(piece) /\ ~CutPiece(piece) BY <1>4, <1>3 DEF FramePiece, CutPiece, n, ObjectPiece
<1>5. ASSUME FramePiece(piece)
      PROVE  /\ n > 2 /\ Carried(piece) = {piece[n].id} /\ ~CutPiece(piece)
             /\ piece[n].kind = "body" /\ piece[n - 1].kind = "blank"
             /\ \A k \in 1 .. n - 2 : piece[k].kind \in {"length", "text"}
             /\ \E k \in 1 .. n - 2 : piece[k].kind = "length"
  <2>1. /\ n > 2 /\ piece[n].kind = "body" /\ piece[n - 1].kind = "blank"
        /\ LineKinds(piece, n - 2) \subseteq {"length", "text"} /\ "length" \in LineKinds(piece, n - 2)
    BY <1>5 DEF FramePiece, n
  <2>2. \A k \in 1 .. n - 2 : piece[k].kind \in {"length", "text"}
    BY <1>2, <2>1
  <2>3. \E k \in 1 .. n - 2 : piece[k].kind = "length"
    BY <2>1 DEF LineKinds
  <2>4. \A k \in 1 .. n : piece[k].kind \in {"object", "body"} <=> k = n
    <3>1. \A k \in 1 .. n : k = n \/ k = n - 1 \/ k \in 1 .. n - 2
      BY <1>1
    <3> QED BY <2>1, <2>2, <3>1
  <2>5. n \in 1 .. n
    BY <1>1, <2>1
  <2>6. Carried(piece) = {piece[n].id}
    BY <1>3, <2>4, <2>5
  <2>7. ~CutPiece(piece)
    BY <2>1 DEF CutPiece, n
  <2> QED BY <2>1, <2>2, <2>3, <2>6, <2>7
<1>6. ASSUME NoisePiece(piece)
      PROVE  n > 0 /\ Carried(piece) = {} /\ \A k \in 1 .. n : piece[k].kind \in {"blank", "badLength", "text"}
  BY <1>3, <1>1, <1>6, <1>2 DEF NoisePiece, n
<1>7. ASSUME CutPiece(piece)
      PROVE  /\ n > 0 /\ Carried(piece) = {} /\ piece[n].kind \in {"length", "text", "blank"}
             /\ \A k \in 1 .. n - 1 : piece[k].kind \in {"length", "text"}
  <2>1. /\ n > 0 /\ LineKinds(piece, n - 1) \subseteq {"length", "text"}
        /\ piece[n].kind \in {"length", "text", "blank"}
    BY <1>1, <1>7 DEF CutPiece, n
  <2>3. \A k \in 1 .. n : k = n \/ k \in 1 .. n - 1
    BY <1>1
  <2> QED BY <1>3, <2>1, <1>2, <2>3
<1> QED BY <1>1, <1>4, <1>5, <1>6, <1>7 DEF n

\* And of one of its lines.
LEMMA LineForms ==
  ASSUME NEW piece \in Seq(Line), NEW k \in 1 .. Len(piece)
  PROVE  /\ NoisePiece(piece) => piece[k].kind \in {"blank", "badLength", "text"}
         /\ CutPiece(piece) => /\ piece[k].kind \in {"blank", "length", "text"}
                               /\ piece[k].kind = "blank" => k = Len(piece)
         /\ ObjectPiece(piece) => k = Len(piece) /\ piece[k].kind = "object"
         /\ FramePiece(piece) /\ k < Len(piece) =>
              IF k = Len(piece) - 1 THEN k > 1 /\ piece[k].kind = "blank"
              ELSE k + 1 < Len(piece) /\ piece[k].kind \in {"length", "text"}
<1> DEFINE n == Len(piece)
<1>1. n \in Nat
  BY LenProperties
<1>3. CutPiece(piece) => /\ piece[n].kind \in {"length", "text", "blank"}
                         /\ \A j \in 1 .. n - 1 : piece[j].kind \in {"length", "text"}
  BY PieceForms
<1>4. ObjectPiece(piece) => n = 1 /\ piece[1].kind = "object"
  BY PieceForms
<1>5. FramePiece(piece) => /\ n > 2 /\ piece[n - 1].kind = "blank"
                           /\ \A j \in 1 .. n - 2 : piece[j].kind \in {"length", "text"}
  BY PieceForms
<1>6. k \in 1 .. n
  OBVIOUS
<1> HIDE DEF n
<1>7. k = n \/ k \in 1 .. n - 1
  BY <1>1, <1>6
<1>9. CutPiece(piece) => piece[k].kind \in {"blank", "length", "text"} /\ (piece[k].kind = "blank" => k = n)
  BY ONLY <1>3, <1>7
<1>10. ObjectPiece(piece) => k = n /\ piece[k].kind = "object"
  <2>1. n = 1 => k = 1
    BY <1>6
  <2> QED BY ONLY <1>4, <2>1
<1>11. ASSUME FramePiece(piece), k < n
       PROVE  IF k = n - 1 THEN k > 1 /\ piece[k].kind = "blank"
              ELSE k + 1 < n /\ piece[k].kind \in {"length", "text"}
  <2>1. CASE k = n - 1 BY <1>5, <1>11, <2>1, <1>1
  <2>2. CASE k # n - 1 BY <1>5, <1>11, <2>2, <1>1, <1>6
  <2> QED BY <2>1, <2>2
<1> QED BY PieceForms, <1>6, <1>9, <1>10, <1>11 DEF n

LEMMA InputForms ==
  ASSUME input \in Inputs
  PROVE  /\ Len(input) \in Nat /\ DOMAIN input = 1 .. Len(input)
         /\ \A n \in 1 .. Len(input) :
              /\ input[n] \in Seq(Line)
              /\ \/ ObjectPiece(input[n]) \/ FramePiece(input[n]) \/ NoisePiece(input[n])
                 \/ (n = Len(input) /\ CutPiece(input[n]))
  BY McpAssumption, LenProperties, ElementOfSeq

\* In what is left of a frame its length is still announced, unless it has been; a length
\* is known only within the frame that announces it, or at the end of an input that is cut.
WellRead ==
  /\ input \in Inputs
  /\ readAt = <<readAt[1], readAt[2]>> /\ readAt[1] \in 1 .. Len(input) + 1
  /\ ~AtEnd(readAt) => readAt[2] \in 1 .. Len(input[readAt[1]])
  /\ reading # "closed" /\ ~AtEnd(readAt) /\ FramePiece(input[readAt[1]]) =>
       /\ readAt[2] < Len(input[readAt[1]]) /\ (readAt[2] > 1 => reading = "headers")
       /\ length \/ \E k \in readAt[2] .. Len(input[readAt[1]]) - 2 : input[readAt[1]][k].kind = "length"
  /\ reading = "headers" /\ length =>
       \/ ~AtEnd(readAt) /\ FramePiece(input[readAt[1]])
       \/ Len(input) > 0 /\ CutPiece(input[Len(input)]) /\ readAt[1] >= Len(input)
  /\ Clean /\ reading = "headers" =>
       \/ AtEnd(readAt)
       \/ FramePiece(input[readAt[1]]) /\ readAt[2] > 1
       \/ readAt[1] = Len(input) /\ Carried(input[readAt[1]]) = {}

\* Where the reader is, and what comes after it.
LEMMA Standing ==
  ASSUME WellRead, ~AtEnd(readAt),
         NEW p, NEW k, NEW piece, p = readAt[1], k = readAt[2], piece = input[p]
  PROVE  /\ Len(input) \in Nat /\ p \in 1 .. Len(input) /\ p \in DOMAIN input /\ piece \in Seq(Line)
         /\ Len(piece) \in Nat \ {0} /\ k \in 1 .. Len(piece) /\ At(readAt) = piece[k]
         /\ \/ ObjectPiece(piece) \/ FramePiece(piece) \/ NoisePiece(piece) \/ (p = Len(input) /\ CutPiece(piece))
         /\ Past(readAt) = IF k < Len(piece) THEN <<p, k + 1>> ELSE <<p + 1, 1>>
         /\ Clean /\ p # Len(input) => Carried(piece) # {} \/ LineKinds(piece, Len(piece)) = {"blank"}
         /\ (p \in Asking => Carried(piece) # {}) /\ \A n \in Asking : n \in 1 .. Len(input)
<1>1. input \in Inputs /\ p \in 1 .. Len(input) + 1 /\ ~(p > Len(input)) /\ k \in 1 .. Len(piece)
  BY DEF WellRead, AtEnd
<1>2. Len(input) \in Nat /\ DOMAIN input = 1 .. Len(input)
  BY <1>1, InputForms
<1>3. p \in 1 .. Len(input)
  BY <1>1, <1>2
<1>4. /\ piece \in Seq(Line)
      /\ \/ ObjectPiece(piece) \/ FramePiece(piece) \/ NoisePiece(piece) \/ (p = Len(input) /\ CutPiece(piece))
  BY <1>1, <1>3, InputForms
<1>5. Len(piece) \in Nat \ {0}
  BY <1>1, <1>4, LenProperties
<1>6. Clean /\ p # Len(input) => Carried(piece) # {} \/ LineKinds(piece, Len(piece)) = {"blank"}
  <2>1. p # Len(input) => p \in 1 .. Len(input) - 1
    BY <1>2, <1>3
  <2> QED BY <2>1 DEF Clean
<1>7. (p \in Asking => Carried(piece) # {}) /\ \A n \in Asking : n \in 1 .. Len(input)
  BY <1>2 DEF Asking
<1>8. At(readAt) = piece[k] /\ Past(readAt) = IF k < Len(piece) THEN <<p, k + 1>> ELSE <<p + 1, 1>>
  BY DEF At, Past
<1> QED BY <1>1, <1>2, <1>3, <1>4, <1>5, <1>6, <1>7, <1>8

\* A message is handed on with the last line of its piece, and is all that the piece carries.
LEMMA HandedWhole ==
  ASSUME WellRead, NEW place, (HandsLine /\ place = readAt) \/ (HandsBody /\ place = Past(readAt))
  PROVE  /\ readAt[1] \in DOMAIN input /\ place[1] = readAt[1] /\ Past(place) = <<readAt[1] + 1, 1>>
         /\ Carried(input[readAt[1]]) = {At(place).id}
<1> DEFINE p == readAt[1]
<1> DEFINE k == readAt[2]
<1> DEFINE piece == input[p]
<1>1. ~AtEnd(readAt)
  BY DEF HandsLine, HandsBody
<1>2. /\ Len(input) \in Nat /\ p \in 1 .. Len(input) /\ p \in DOMAIN input /\ piece \in Seq(Line)
      /\ Len(piece) \in Nat \ {0} /\ k \in 1 .. Len(piece) /\ At(readAt) = piece[k]
      /\ \/ ObjectPiece(piece) \/ FramePiece(piece) \/ NoisePiece(piece) \/ (p = Len(input) /\ CutPiece(piece))
      /\ Past(readAt) = IF k < Len(piece) THEN <<p, k + 1>> ELSE <<p + 1, 1>>
  BY <1>1, Standing
<1>3. /\ FramePiece(piece) => k < Len(piece) /\ (k > 1 => reading = "headers")
      /\ reading = "headers" /\ length => FramePiece(piece) \/ (CutPiece(piece) /\ p = Len(input))
  <2>1. reading # "closed"
    BY DEF HandsLine, HandsBody
  <2>2. p >= Len(input) => p = Len(input)
    BY <1>2
  <2> QED BY <1>1, <2>1, <2>2 DEF WellRead
<1>4. AtEnd(<<p + 1, 1>>) <=> p = Len(input)
  BY <1>2 DEF AtEnd
<1>5. ASSUME NEW at1 \in {<<p, Len(piece)>>}
      PROVE  At(at1) = piece[Len(piece)] /\ Past(at1) = <<p + 1, 1>> /\ at1[1] = p
  <2>1. at1[1] = p /\ at1[2] = Len(piece) /\ ~(Len(piece) < Len(piece))
    BY <1>2
  <2> QED BY <2>1 DEF At, Past
<1>6. CASE HandsLine /\ place = readAt
  <2>1. reading = "start" /\ piece[k].kind \in {"object", "body"}
    BY <1>2, <1>6 DEF HandsLine
  <2>2. ~NoisePiece(piece) /\ ~CutPiece(piece)
    <3> HIDE DEF piece, k, p
    <3> QED BY <1>2, <2>1, LineForms
  <2>3. ~FramePiece(piece)
    <3>1. SUFFICES ASSUME FramePiece(piece)
                   PROVE  FALSE
      OBVIOUS
    <3>2. k = 1 /\ k < Len(piece)
      BY <1>2, <1>3, <2>1, <3>1
    <3> HIDE DEF piece, k, p
    <3> QED BY <1>2, <2>1, <3>1, <3>2, LineForms
  <2>4. Len(piece) = 1 /\ Carried(piece) = {piece[1].id}
    BY <1>2, <2>2, <2>3, PieceForms
  <2>5. k = Len(piece) /\ readAt = <<p, Len(piece)>>
    BY <1>2, <2>4 DEF WellRead
  <2> HIDE DEF p, k, piece
  <2> QED BY <1>2, <1>5, <1>6, <2>4, <2>5 DEF p, piece
<1>7. CASE HandsBody /\ place = Past(readAt)
  <2>1. reading = "headers" /\ length /\ piece[k].kind = "blank" /\ ~AtEnd(Past(readAt))
    BY <1>2, <1>7 DEF HandsBody
  <2>2. ~(CutPiece(piece) /\ p = Len(input))
    <3>1. SUFFICES ASSUME CutPiece(piece), p = Len(input)
                   PROVE  FALSE
      OBVIOUS
    <3>3. k = Len(piece)
      <4> HIDE DEF piece, k, p
      <4> QED BY <1>2, <2>1, <3>1, LineForms
    <3>4. Past(readAt) = <<p + 1, 1>>
      BY <1>2, <3>3
    <3> QED BY <1>4, <2>1, <3>1, <3>4
  <2>3. FramePiece(piece) /\ k < Len(piece)
    BY <1>3, <2>1, <2>2
  <2>4. Len(piece) > 2 /\ Carried(piece) = {piece[Len(piece)].id}
    BY <1>2, <2>3, PieceForms
  <2>5. k = Len(piece) - 1
    <3> HIDE DEF piece, k, p
    <3> QED BY <1>2, <2>1, <2>3, LineForms
  <2>6. place = <<p, Len(piece)>>
    BY <1>2, <1>7, <2>5
  <2> HIDE DEF p, k, piece
  <2> QED BY <1>2, <1>5, <2>4, <2>6 DEF p, piece
<1> QED BY <1>6, <1>7


\* Of a client that writes whole messages, what is not handed on is a frame that is not at its
\* end, a piece that carries nothing, or what it was cut off in.
LEMMA PassedBy ==
  ASSUME WellRead, Skips \/ Heads \/ Fails
  PROVE  /\ ~AtEnd(readAt) /\ reading # "closed" /\ readAt' = Past(readAt)
         /\ Skips => Carried(input[readAt[1]]) = {} /\ ~FramePiece(input[readAt[1]])
         /\ Clean => /\ Heads => \/ FramePiece(input[readAt[1]])
                                 \/ readAt[1] = Len(input) /\ Carried(input[readAt[1]]) = {}
                     /\ Fails => readAt[1] = Len(input) /\ Carried(input[readAt[1]]) = {}
<1> DEFINE p == readAt[1]
<1> DEFINE k == readAt[2]
<1> DEFINE piece == input[p]
<1> DEFINE kind == piece[k].kind
<1>1. ~AtEnd(readAt) /\ reading # "closed" /\ readAt' = Past(readAt)
  BY DEF Skips, Heads, Fails
<1>2. /\ Len(input) \in Nat /\ p \in 1 .. Len(input) /\ piece \in Seq(Line)
      /\ Len(piece) \in Nat \ {0} /\ k \in 1 .. Len(piece) /\ At(readAt) = piece[k]
      /\ \/ ObjectPiece(piece) \/ FramePiece(piece) \/ NoisePiece(piece) \/ (p = Len(input) /\ CutPiece(piece))
      /\ Past(readAt) = IF k < Len(piece) THEN <<p, k + 1>> ELSE <<p + 1, 1>>
      /\ Clean /\ p # Len(input) => Carried(piece) # {} \/ LineKinds(piece, Len(piece)) = {"blank"}
  BY <1>1, Standing
<1>3. /\ FramePiece(piece) => /\ k < Len(piece) /\ (k > 1 => reading = "headers")
                              /\ length \/ \E j \in k .. Len(piece) - 2 : piece[j].kind = "length"
      /\ Clean /\ reading = "headers" => FramePiece(piece) \/ (p = Len(input) /\ Carried(piece) = {})
  BY <1>1 DEF WellRead
<1>5. LineKinds(piece, Len(piece)) = {"blank"} => kind = "blank"
  BY <1>2 DEF LineKinds
<1>6. /\ Skips => reading = "start" /\ kind = "blank"
      /\ Heads => /\ kind \notin {"blank", "badLength"}
                  /\ reading = "headers" \/ (reading = "start" /\ kind \notin {"object", "body"})
      /\ Fails => \/ kind = "badLength"
                  \/ reading = "headers" /\ kind = "blank" /\ ~(length /\ ~AtEnd(Past(readAt)))
  BY <1>2 DEF Skips, Heads, Fails
<1>7. /\ NoisePiece(piece) \/ CutPiece(piece) => Carried(piece) = {}
      /\ NoisePiece(piece) => kind \in {"blank", "badLength", "text"}
      /\ CutPiece(piece) => kind \in {"blank", "length", "text"}
      /\ ObjectPiece(piece) => kind = "object"
      /\ FramePiece(piece) /\ k < Len(piece) =>
            IF k = Len(piece) - 1 THEN k > 1 /\ kind = "blank" ELSE kind \in {"length", "text"}
  <2> HIDE DEF p, k, piece
  <2> QED BY <1>2, PieceForms, LineForms
<1>8. FramePiece(piece) => ~Skips /\ ~Fails
  <2>1. SUFFICES ASSUME FramePiece(piece)
                 PROVE  ~Skips /\ ~Fails
    OBVIOUS
  <2> HIDE DEF p, k, piece, kind
  <2> QED BY <1>2, <1>6, <1>7, <2>1, <1>3 DEF AtEnd
<1> HIDE DEF p, k, piece, kind
<1>9. Skips => Carried(piece) = {}
  BY <1>2, <1>6, <1>7, <1>8
<1>10. ASSUME Clean, Heads
       PROVE  FramePiece(piece) \/ (p = Len(input) /\ Carried(piece) = {})
  BY <1>2, <1>3, <1>5, <1>6, <1>7, <1>10
<1>11. ASSUME Clean, Fails
       PROVE  p = Len(input) /\ Carried(piece) = {}
  BY <1>2, <1>3, <1>5, <1>6, <1>7, <1>8, <1>11
<1> QED BY <1>1, <1>8, <1>9, <1>10, <1>11 DEF p, piece

LEMMA PassesNone ==
  ASSUME WellRead, Clean, NEW n \in Asking
  PROVE  /\ (Skips \/ Heads) /\ n < readAt'[1] => n < readAt[1]
         /\ Fails => n < readAt[1] /\ n < readAt'[1]
         /\ AtEnd(readAt) => n < readAt[1]
<1> DEFINE p == readAt[1]
<1>1. p \in Int /\ n \in Int /\ Len(input) \in Nat /\ n \in 1 .. Len(input) BY InputForms DEF WellRead, Asking
<1>3. ASSUME Skips \/ Heads \/ Fails
      PROVE  ((Skips \/ Heads) /\ n < readAt'[1] => n < p) /\ (Fails => n < p /\ n < readAt'[1])
  <2>1. ~AtEnd(readAt) /\ reading # "closed" /\ readAt' = Past(readAt)
    BY <1>3, PassedBy
  <2>2. /\ Past(readAt) = IF readAt[2] < Len(input[p]) THEN <<p, readAt[2] + 1>> ELSE <<p + 1, 1>>
        /\ p \in Asking => Carried(input[p]) # {}
    BY <2>1, Standing
  <2>3. readAt'[1] = IF readAt[2] < Len(input[p]) THEN p ELSE p + 1
    BY <2>1, <2>2
  <2>5. CASE Carried(input[p]) = {} BY <1>1, <2>3, <2>2, <2>5, <1>3, PassedBy
  <2>6. CASE FramePiece(input[p]) /\ ~Fails BY <1>1, <2>3, <2>1, <2>6 DEF WellRead
  <2> QED BY <1>3, <2>5, <2>6, PassedBy
<1> QED BY <1>1, <1>3 DEF AtEnd

LEMMA PlaceKept ==
  ASSUME WellRead, ~AtEnd(readAt), input' = input, readAt' = Past(readAt) \/ readAt' = <<readAt[1] + 1, 1>>
  PROVE  /\ input' \in Inputs
         /\ readAt' = <<readAt'[1], readAt'[2]>> /\ readAt'[1] \in 1 .. Len(input') + 1
         /\ ~AtEnd(readAt)' => readAt'[2] \in 1 .. Len(input'[readAt'[1]])
         /\ \/ readAt'[1] = readAt[1] /\ readAt'[2] = readAt[2] + 1 /\ readAt[2] < Len(input[readAt[1]])
               /\ ~AtEnd(readAt)'
            \/ readAt'[1] = readAt[1] + 1 /\ readAt'[2] = 1 /\ (AtEnd(readAt)' <=> readAt[1] = Len(input))
<1> DEFINE p == readAt[1]
<1> DEFINE k == readAt[2]
<1>1. /\ Len(input) \in Nat /\ p \in 1 .. Len(input) /\ Len(input[p]) \in Nat \ {0} /\ k \in 1 .. Len(input[p])
      /\ Past(readAt) = IF k < Len(input[p]) THEN <<p, k + 1>> ELSE <<p + 1, 1>>
  BY Standing
<1>2. input \in Inputs
  BY DEF WellRead
<1>3. AtEnd(readAt)' <=> readAt'[1] > Len(input)
  BY DEF AtEnd
<1>4. CASE k < Len(input[p]) /\ readAt' = <<p, k + 1>>
  <2> HIDE DEF p, k
  <2> QED BY <1>2, <1>3, <1>4, <1>1 DEF p, k
<1>5. CASE readAt' = <<p + 1, 1>>
  <2>3. ASSUME ~(p + 1 > Len(input))
        PROVE  1 \in 1 .. Len(input[p + 1])
    <3>1. p + 1 \in 1 .. Len(input)
      BY <1>1, <2>3
    <3>2. Len(input[p + 1]) \in Nat /\ Len(input[p + 1]) > 0
      <4> DEFINE piece == input[p + 1]
      <4>1. /\ piece \in Seq(Line)
            /\ \/ ObjectPiece(piece) \/ FramePiece(piece) \/ NoisePiece(piece) \/ CutPiece(piece)
        BY <1>2, <3>1, InputForms
      <4> HIDE DEF piece
      <4> QED BY <4>1, PieceForms DEF piece
    <3> QED BY <3>2
  <2> HIDE DEF p, k
  <2> QED BY <1>2, <1>3, <1>5, <1>1, <2>3 DEF p, k
<1> QED BY <1>1, <1>4, <1>5


\* A frame that is begun announces its length.
LEMMA FrameBegins ==
  ASSUME input \in Inputs, NEW n \in 1 .. Len(input), FramePiece(input[n])
  PROVE  1 < Len(input[n]) /\ \E k \in 1 .. Len(input[n]) - 2 : input[n][k].kind = "length"
<1> DEFINE piece == input[n]
<1>1. piece \in Seq(Line) /\ FramePiece(piece)
  BY InputForms
<1> HIDE DEF piece
<1> QED BY <1>1, PieceForms DEF piece

LEMMA WellReadKeeps ==
  ASSUME CallInv, WellRead, Read
  PROVE  WellRead'
<1> DEFINE p == readAt[1]
<1> DEFINE k == readAt[2]
<1> DEFINE piece == input[p]
<1>1. input' = input /\ (Skips \/ Heads \/ Fails \/ HandsLine \/ HandsBody \/ Ends)
  BY ReadSteps
<1>2. Clean' = Clean /\ (AtEnd(readAt)' <=> readAt'[1] > Len(input))
  BY <1>1 DEF Clean, AtEnd
<1>3. length \in BOOLEAN /\ (reading = "start" => length = FALSE) /\ input \in Inputs
  BY DEF CallInv, McpTypeOK, WellRead
<1>4. CASE Ends BY <1>1, <1>2, <1>4 DEF WellRead, AtEnd, Ends, Close
<1>5. ASSUME ~AtEnd(readAt), readAt' = Past(readAt) \/ readAt' = <<p + 1, 1>>,
             reading' # "closed" /\ ~AtEnd(readAt)' /\ FramePiece(input[p]) /\ readAt'[1] = p =>
               /\ readAt'[2] < Len(input[p]) /\ (readAt'[2] > 1 => reading' = "headers")
               /\ length' \/ \E j \in readAt'[2] .. Len(input[p]) - 2 : input[p][j].kind = "length",
             reading' = "headers" /\ length' =>
                \/ ~AtEnd(readAt)' /\ FramePiece(input[readAt'[1]])
                \/ Len(input) > 0 /\ CutPiece(input[Len(input)]) /\ readAt'[1] >= Len(input),
             Clean /\ reading' = "headers" =>
                \/ AtEnd(readAt)'
                \/ FramePiece(input[readAt'[1]]) /\ readAt'[2] > 1
                \/ readAt'[1] = Len(input) /\ Carried(input[readAt'[1]]) = {}
      PROVE  WellRead'
  <2>1. /\ input' \in Inputs
        /\ readAt' = <<readAt'[1], readAt'[2]>> /\ readAt'[1] \in 1 .. Len(input') + 1
        /\ ~AtEnd(readAt)' => readAt'[2] \in 1 .. Len(input'[readAt'[1]])
        /\ readAt'[1] = p \/ (readAt'[1] = p + 1 /\ readAt'[2] = 1)
    BY <1>1, <1>5, PlaceKept
  <2>2. reading' # "closed" /\ ~AtEnd(readAt)' /\ FramePiece(input[readAt'[1]]) =>
          /\ readAt'[2] < Len(input[readAt'[1]]) /\ (readAt'[2] > 1 => reading' = "headers")
          /\ length' \/ \E j \in readAt'[2] .. Len(input[readAt'[1]]) - 2 : input[readAt'[1]][j].kind = "length"
    <3>1. CASE readAt'[1] = p
      BY <1>5, <3>1
    <3>2. CASE readAt'[1] = p + 1 /\ readAt'[2] = 1
      <4>1. SUFFICES ASSUME ~AtEnd(readAt)', FramePiece(input[p + 1])
                     PROVE  1 < Len(input[p + 1]) /\ \E j \in 1 .. Len(input[p + 1]) - 2 : input[p + 1][j].kind = "length"
        BY <3>2
      <4>2. p + 1 \in 1 .. Len(input) BY <1>2, <3>2, <4>1, <1>5, Standing
      <4> QED BY <1>3, <4>1, <4>2, FrameBegins
    <3> QED BY <2>1, <3>1, <3>2
  <2> QED BY <1>1, <1>2, <1>5, <2>1, <2>2 DEF WellRead
<1>6. CASE HandsLine \/ HandsBody
  <2>1. readAt' = <<p + 1, 1>> /\ reading' # "headers" /\ p \in DOMAIN input
    <3>1. PICK place : (HandsLine /\ place = readAt) \/ (HandsBody /\ place = Past(readAt))
      BY <1>6
    <3> QED BY <3>1, HandedWhole DEF Deliver, HandsLine, HandsBody
  <2> HIDE DEF p
  <2> QED BY <1>5, <2>1, <1>6, Standing DEF HandsLine, HandsBody
<1>7. CASE Skips \/ Heads \/ Fails
  <2>1. ~AtEnd(readAt) /\ reading # "closed" /\ readAt' = Past(readAt)
    BY <1>7, PassedBy
  <2>2. /\ Len(input) \in Nat /\ p \in 1 .. Len(input) /\ piece \in Seq(Line)
        /\ Len(piece) \in Nat \ {0} /\ k \in 1 .. Len(piece) /\ At(readAt) = piece[k]
        /\ \/ ObjectPiece(piece) \/ FramePiece(piece) \/ NoisePiece(piece) \/ (p = Len(input) /\ CutPiece(piece))
    BY <2>1, Standing
  <2>3. /\ \/ readAt'[1] = p /\ readAt'[2] = k + 1 /\ k < Len(piece) /\ ~AtEnd(readAt)'
           \/ readAt'[1] = p + 1 /\ readAt'[2] = 1 /\ (AtEnd(readAt)' <=> p = Len(input))
    BY <1>1, <2>1, PlaceKept
  <2>4. FramePiece(piece) => /\ k < Len(piece)
                             /\ length \/ \E j \in k .. Len(piece) - 2 : piece[j].kind = "length"
    BY <2>1 DEF WellRead
  <2>5. CASE Skips BY <1>5, <2>1, <1>3, <2>5, PassedBy DEF Skips
  <2>6. CASE Fails BY <1>5, <2>1, <2>6 DEF Fails, Close
  <2>7. CASE Heads
    <3>1. /\ piece[k].kind \notin {"blank", "badLength"} /\ reading' = "headers"
          /\ length' = (length \/ piece[k].kind = "length")
          /\ reading = "headers" \/ piece[k].kind \notin {"object", "body"}
      BY <2>2, <2>7 DEF Heads
    <3>2. FramePiece(piece) => k + 1 < Len(piece)
      <4> HIDE DEF p, k, piece
      <4> QED BY <2>2, <2>4, <3>1, LineForms
    <3>3. FramePiece(piece) /\ readAt'[1] = p =>
            length' \/ \E j \in readAt'[2] .. Len(piece) - 2 : piece[j].kind = "length"
      <4>1. SUFFICES ASSUME FramePiece(piece), readAt'[1] = p, ~length'
                     PROVE  \E j \in readAt'[2] .. Len(piece) - 2 : piece[j].kind = "length"
        OBVIOUS
      <4>3. PICK j \in k .. Len(piece) - 2 : piece[j].kind = "length"
        BY <1>3, <2>4, <3>1, <4>1
      <4>4. j # k
        BY <3>1, <4>1, <4>3
      <4>5. j \in k + 1 .. Len(piece) - 2
        BY <2>2, <4>3, <4>4
      <4> QED BY <2>2, <2>3, <4>1, <4>3, <4>5
    <3>4. FramePiece(piece) => readAt'[1] = p /\ readAt'[2] = k + 1 /\ k + 1 > 1 /\ ~AtEnd(readAt)'
      <4>1. SUFFICES ASSUME FramePiece(piece)
                     PROVE  readAt'[1] = p /\ readAt'[2] = k + 1 /\ k + 1 > 1 /\ ~AtEnd(readAt)'
        OBVIOUS
      <4> QED BY <1>2, <2>2, <2>1, <2>4, <4>1, Standing
    <3>5. length' => \/ FramePiece(piece)
                     \/ Len(input) > 0 /\ CutPiece(input[Len(input)]) /\ readAt'[1] >= Len(input)
      <4>1. SUFFICES ASSUME length', ~FramePiece(piece)
                     PROVE  Len(input) > 0 /\ CutPiece(input[Len(input)]) /\ readAt'[1] >= Len(input)
        OBVIOUS
      <4>3. CASE length = TRUE
        <5>2. Len(input) > 0 /\ CutPiece(input[Len(input)]) /\ p >= Len(input)
          BY <2>1, <4>1, <4>3, <1>3, <2>7 DEF WellRead, Heads
        <5> QED BY <2>2, <2>3, <5>2
      <4>4. CASE length = FALSE
        <5>2. ~ObjectPiece(piece) /\ ~NoisePiece(piece)
          <6> HIDE DEF p, k, piece
          <6> QED BY <2>2, <3>1, <4>1, <4>4, LineForms
        <5> QED BY <2>2, <2>3, <4>1, <5>2
      <4> QED BY <1>3, <4>3, <4>4
    <3>7. Clean => \/ AtEnd(readAt)'
                   \/ FramePiece(input[readAt'[1]]) /\ readAt'[2] > 1
                   \/ readAt'[1] = Len(input) /\ Carried(input[readAt'[1]]) = {} BY <2>3, <3>4, <2>7, PassedBy
    <3>8. FramePiece(piece) => ~AtEnd(readAt)' /\ FramePiece(input[readAt'[1]])
      BY <3>4
    <3>9. FramePiece(piece) /\ readAt'[1] = p => readAt'[2] < Len(piece)
      BY <3>2, <3>4
    <3> HIDE DEF k
    <3> QED BY <1>5, <2>1, <3>1, <3>3, <3>5, <3>7, <3>8, <3>9
  <2> QED BY <1>7, <2>5, <2>6, <2>7
<1> QED BY <1>1, <1>4, <1>6, <1>7


Busy == serving \in {"vet", "open", "run", "answer"}
Messages == [kind : {"request"}, id : UNION {Carried(input[n]) : n \in DOMAIN input}, from : DOMAIN input]
              \union [kind : {"eof", "readError"}]
AnswerSet == [id : UNION {Carried(input[n]) : n \in DOMAIN input}, kind : {"none", "result", "toolError", "methodNotFound"},
            from : DOMAIN input]

\* A message is what its piece carries, and that has been read.
HandedBy(m, before) ==
  /\ m \in Messages /\ m.kind = "request" /\ Carried(input[m.from]) = {m.id}
  /\ Requests[m.id].method # "malformed" /\ m.from < before
Handed(m) == HandedBy(m, readAt[1])

\* An end is told last.
Queue ==
  /\ channel \in Seq(Messages)
  /\ \A i \in 1 .. Len(channel) : channel[i].kind = "request" => Handed(channel[i])
  /\ \A i, j \in 1 .. Len(channel) : i < j =>
       channel[i].kind = "request" /\ (channel[j].kind = "request" => channel[i].from < channel[j].from)
  /\ reading # "closed" => \A i \in 1 .. Len(channel) : channel[i].kind = "request"

Answering ==
  /\ sent \in Seq(AnswerSet)
  /\ \A i, j \in 1 .. Len(sent) : i < j => sent[i].from < sent[j].from
  /\ \A k \in 1 .. Len(sent) : /\ sent[k].from \in Asking /\ sent[k].id \in Carried(input[sent[k].from])
                               /\ sent[k].from < readAt[1]
  /\ Busy => Handed(current) /\ current.from \in Asking /\ \A k \in 1 .. Len(sent) : sent[k].from < current.from
  /\ \A i \in 1 .. Len(channel) : channel[i].kind = "request" =>
       (\A k \in 1 .. Len(sent) : sent[k].from < channel[i].from) /\ (Busy => current.from < channel[i].from)
  /\ broken => serving = "ended"
  /\ serving = "ended" => broken \/ (reading = "closed" /\ channel = << >>)

Waiting(n) ==
  \/ n \in {sent[k].from : k \in 1 .. Len(sent)}
  \/ Busy /\ current.from = n
  \/ \E i \in 1 .. Len(channel) : channel[i].kind = "request" /\ channel[i].from = n

NonePassed ==
  Clean =>
    /\ reading = "closed" => broken \/ \A n \in Asking : n < readAt[1]
    /\ \A n \in Asking : n < readAt[1] => broken \/ Waiting(n)
    /\ \A n \in Asking, k \in 1 .. Len(sent) : n < sent[k].from => \E j \in 1 .. Len(sent) : sent[j].from = n

LaneInv == WellRead /\ Queue /\ Answering /\ NonePassed

LEMMA LanesEmpty == McpInit => LaneInv
<1> SUFFICES ASSUME McpInit
             PROVE  LaneInv
  OBVIOUS
<1>1. input \in Inputs /\ readAt = <<1, 1>> /\ reading = "start" /\ length = FALSE /\ channel = << >>
      /\ serving = "idle" /\ sent = << >> /\ broken = FALSE
  BY DEF McpInit
<1>2. Len(input) \in Nat /\ \A n \in 1 .. Len(input) : input[n] \in Seq(Line)
  BY <1>1, InputForms
<1>3. readAt = <<readAt[1], readAt[2]>> /\ readAt[1] = 1 /\ readAt[2] = 1 /\ readAt[1] \in 1 .. Len(input) + 1
  BY <1>1, <1>2
<1>5. ASSUME 1 \in 1 .. Len(input)
      PROVE  1 \in 1 .. Len(input[1])
  <2> DEFINE piece == input[1]
  <2>1. piece \in Seq(Line) /\ (ObjectPiece(piece) \/ FramePiece(piece) \/ NoisePiece(piece) \/ CutPiece(piece))
    BY <1>1, <1>5, InputForms
  <2> HIDE DEF piece
  <2> QED BY <2>1, PieceForms DEF piece
<1>6. ASSUME 1 \in 1 .. Len(input), FramePiece(input[1])
      PROVE  1 < Len(input[1]) /\ \E k \in 1 .. Len(input[1]) - 2 : input[1][k].kind = "length"
  BY <1>1, <1>6, FrameBegins
<1>7. WellRead BY <1>1, <1>3, <1>2, <1>5, <1>6 DEF WellRead, AtEnd
<1>8. channel \in Seq(Messages) /\ Len(channel) = 0 /\ sent \in Seq(AnswerSet) /\ Len(sent) = 0
  BY <1>1, EmptySeq
<1>10. NonePassed
  <2>1. \A n \in Asking : ~(n < readAt[1])
    <3>1. \A n \in Asking : n \in 1 .. Len(input)
      BY <1>1, InputForms DEF Asking
    <3> QED BY <1>2, <1>3, <3>1
  <2> QED BY <1>1, <1>8, <2>1 DEF NonePassed
<1> QED BY <1>7, <1>1, <1>8, <1>10 DEF LaneInv, Queue, Answering, Busy

\* One more message.
LEMMA MessageJoins ==
  ASSUME channel \in Seq(Messages), NEW m \in Messages, channel' = Append(channel, m)
  PROVE  /\ Len(channel) \in Nat /\ channel' \in Seq(Messages) /\ Len(channel') = Len(channel) + 1
         /\ \A i \in 1 .. Len(channel) : channel'[i] = channel[i]
         /\ channel'[Len(channel) + 1] = m
         /\ \A i \in 1 .. Len(channel') : i \in 1 .. Len(channel) \/ i = Len(channel) + 1
  BY LenProperties, AppendProperties

\* The reader joins one message at the most, behind what is there, and is further than before.
LEMMA QueueGrows ==
  ASSUME WellRead, Queue, Answering, UNCHANGED <<input, serving, current, sent, broken>>,
         readAt'[1] \in Int, readAt'[1] >= readAt[1], reading # "closed",
         \/ UNCHANGED channel /\ (serving = "ended" => reading' = "closed" \/ broken)
         \/ /\ serving # "ended"
            /\ \E m \in Messages : /\ channel' = Append(channel, m)
                                   /\ m.kind # "request" => reading' = "closed"
                                   /\ m.kind = "request" => HandedBy(m, readAt'[1]) /\ m.from >= readAt[1]
  PROVE  Queue' /\ Answering'
<1>1. Messages' = Messages /\ AnswerSet' = AnswerSet /\ Asking' = Asking /\ Busy' = Busy
  BY DEF Messages, AnswerSet, Asking, Busy
<1>2. readAt[1] \in Int /\ \A n \in DOMAIN input : n \in Int
  BY InputForms DEF WellRead
<1>3. \A m : Handed(m) => HandedBy(m, readAt'[1]) /\ m.from \in Int /\ m.from < readAt[1]
  BY <1>1, <1>2 DEF Handed, HandedBy, Messages
<1>4. /\ sent \in Seq(AnswerSet) /\ \A k \in 1 .. Len(sent) : sent[k].from < readAt[1] /\ sent[k].from \in Int
  <2>1. \A k \in 1 .. Len(sent) : sent[k] \in AnswerSet
    BY ElementOfSeq DEF Answering
  <2> QED BY <1>2, <2>1 DEF Answering, AnswerSet
<1>5. serving # "ended" \/ broken
  BY DEF Answering
<1>6. CASE UNCHANGED channel
  <2>4. \A k \in 1 .. Len(sent) : sent[k].from < readAt'[1]
    BY <1>2, <1>4
  <2> QED BY <1>1, <1>6, <1>3, <1>5, <2>4 DEF Queue, Handed, HandedBy, Answering
<1>7. CASE serving # "ended" /\ ~UNCHANGED channel
  <2>1. PICK m \in Messages : /\ channel' = Append(channel, m)
                              /\ m.kind # "request" => reading' = "closed"
                              /\ m.kind = "request" => HandedBy(m, readAt'[1]) /\ m.from >= readAt[1]
    BY <1>7
  <2> DEFINE n == Len(channel)
  <2>2. /\ n \in Nat /\ channel' \in Seq(Messages) /\ Len(channel') = n + 1
        /\ \A i \in 1 .. n : channel'[i] = channel[i]
        /\ channel'[n + 1] = m
        /\ \A i \in 1 .. n + 1 : i \in 1 .. n \/ i = n + 1
    BY <2>1, MessageJoins DEF Queue
  <2>3. \A i \in 1 .. n : Handed(channel[i]) /\ channel[i].kind = "request"
    BY DEF Queue
  <2>4. m.kind = "request" => m.from \in Int /\ m.from >= readAt[1]
    BY <1>2, <2>1 DEF Messages
  <2> HIDE DEF n
  <2>5. \A i \in 1 .. n + 1 : channel'[i].kind = "request" => HandedBy(channel'[i], readAt'[1])
    BY <1>3, <2>1, <2>2, <2>3
  <2>6. \A i, j \in 1 .. n + 1 : i < j =>
          channel'[i].kind = "request" /\ (channel'[j].kind = "request" => channel'[i].from < channel'[j].from)
    <3>1. SUFFICES ASSUME NEW i \in 1 .. n + 1, NEW j \in 1 .. n + 1, i < j
                   PROVE  channel'[i].kind = "request" /\ (channel'[j].kind = "request" => channel'[i].from < channel'[j].from)
      OBVIOUS
    <3>2. i \in 1 .. n /\ channel'[i] = channel[i] /\ channel[i].kind = "request"
          /\ channel[i].from \in Int /\ channel[i].from < readAt[1]
      BY <1>3, <2>2, <2>3, <3>1
    <3>3. CASE j \in 1 .. n
      BY <2>2, <3>1, <3>2, <3>3 DEF Queue, n
    <3>4. CASE j = n + 1
      BY <1>2, <2>2, <2>4, <3>2, <3>4
    <3> QED BY <2>2, <3>3, <3>4
  <2>7. reading' # "closed" => \A i \in 1 .. n + 1 : channel'[i].kind = "request"
    BY <2>1, <2>2, <2>3
  <2>8. Queue'
    BY <1>1, <2>2, <2>5, <2>6, <2>7 DEF Queue, Handed, HandedBy
  <2>9. \A i \in 1 .. n + 1 : channel'[i].kind = "request" =>
          (\A k \in 1 .. Len(sent) : sent[k].from < channel'[i].from) /\ (Busy => current.from < channel'[i].from)
    <3>1. SUFFICES ASSUME NEW i \in 1 .. n + 1, channel'[i].kind = "request"
                   PROVE  (\A k \in 1 .. Len(sent) : sent[k].from < channel'[i].from)
                          /\ (Busy => current.from < channel'[i].from)
      OBVIOUS
    <3>2. CASE i \in 1 .. n
      BY <2>2, <2>3, <3>2 DEF Answering, n
    <3>3. CASE i = n + 1
      <4>1. channel'[i] = m /\ m.from \in Int /\ m.from >= readAt[1]
        BY <2>2, <2>4, <3>1, <3>3
      <4> QED BY <1>2, <1>4, <4>1, <1>3 DEF Answering
    <3> QED BY <2>2, <3>2, <3>3
  <2>10. Busy => HandedBy(current, readAt'[1])
    BY <1>3 DEF Answering
  <2>11. \A k \in 1 .. Len(sent) : sent[k].from < readAt'[1]
    BY <1>2, <1>4
  <2> QED BY <1>1, <1>5, <1>7, <2>2, <2>8, <2>9, <2>10, <2>11 DEF Answering, Handed, HandedBy
<1> QED BY <1>5, <1>6, <1>7

\* Of a client that writes whole messages, what the reader leaves behind is told or asks nothing.
LEMMA NonePassedGrows ==
  ASSUME NonePassed, UNCHANGED <<input, serving, current, sent, broken>>,
         \A i \in 1 .. Len(channel) : i \in 1 .. Len(channel') /\ channel'[i] = channel[i],
         Clean /\ reading' = "closed" => broken \/ \A n \in Asking : n < readAt'[1],
         Clean => \A n \in Asking : n < readAt'[1] =>
                    \/ n < readAt[1]
                    \/ broken
                    \/ \E i \in 1 .. Len(channel') : channel'[i].kind = "request" /\ channel'[i].from = n
  PROVE  NonePassed'
<1>1. Asking' = Asking /\ Clean' = Clean /\ Busy' = Busy
  BY DEF Asking, Clean, Busy
<1>2. ASSUME Clean, NEW n \in Asking, n < readAt'[1]
      PROVE  \/ broken
             \/ n \in {sent[k].from : k \in 1 .. Len(sent)}
             \/ Busy /\ current.from = n
             \/ \E i \in 1 .. Len(channel') : channel'[i].kind = "request" /\ channel'[i].from = n
  <2>1. CASE n < readAt[1]
    <3>2. CASE \E i \in 1 .. Len(channel) : channel[i].kind = "request" /\ channel[i].from = n
      BY <3>2
    <3> QED BY <1>2, <2>1, <3>2 DEF Waiting, NonePassed
  <2> QED BY <1>2, <2>1
<1> QED BY <1>1, <1>2 DEF NonePassed, Waiting

\* What the reader hands on is a message of the piece that it has read.
LEMMA HandingMoves ==
  ASSUME LaneInv, UNCHANGED <<input, loop>>, HandsLine \/ HandsBody
  PROVE  Queue' /\ Answering' /\ NonePassed'
<1> DEFINE p == readAt[1]
<1>1. PICK place : (HandsLine /\ place = readAt) \/ (HandsBody /\ place = Past(readAt))
  OBVIOUS
<1> DEFINE id == At(place).id
<1>2. /\ p \in DOMAIN input /\ place[1] = p /\ Past(place) = <<p + 1, 1>> /\ Carried(input[p]) = {id}
  BY <1>1, HandedWhole DEF LaneInv
<1>3. Deliver(place) /\ ~AtEnd(readAt) /\ reading # "closed"
  BY <1>1 DEF HandsLine, HandsBody
<1>4. /\ readAt' = <<p + 1, 1>>
      /\ reading' = IF Requests[id].method # "malformed" /\ serving = "ended" THEN "closed" ELSE "start"
      /\ IF Requests[id].method = "malformed" THEN UNCHANGED channel ELSE Send(Message(id, p))
  BY <1>2, <1>3 DEF Deliver
<1>5. p \in Int /\ readAt'[1] = p + 1 BY <1>2, <1>4, InputForms DEF LaneInv, WellRead
<1>6. UNCHANGED <<input, serving, current, sent, broken>>
  BY DEF loop
<1>7. channel \in Seq(Messages) /\ Len(channel) \in Nat
  BY LenProperties DEF LaneInv, Queue
<1>9. serving = "ended" => broken
  BY <1>3 DEF LaneInv, Answering
<1> HIDE DEF id, p
<1>10. \A n \in Asking : n < readAt'[1] => n < p \/ n = p BY <1>5, InputForms DEF LaneInv, WellRead, Asking
<1>11. CASE Requests[id].method = "malformed"
  <2>1. UNCHANGED channel /\ reading' = "start"
    BY <1>4, <1>11
  <2>3. Queue' /\ Answering'
    BY <1>3, <1>5, <1>6, <1>9, <2>1, QueueGrows DEF LaneInv, p
  <2>4. NonePassed' BY <1>6, <1>10, <2>1, <1>2, <1>11, NonePassedGrows DEF LaneInv, p, Asking, AnsweredId
  <2> QED BY <2>3, <2>4
<1>12. CASE Requests[id].method # "malformed" /\ serving = "ended"
  <2>1. UNCHANGED channel /\ reading' = "closed" /\ broken
    BY <1>4, <1>9, <1>12 DEF Send
  <2> QED BY <1>3, <1>5, <1>6, <2>1, QueueGrows, NonePassedGrows DEF LaneInv, p
<1>13. CASE Requests[id].method # "malformed" /\ serving # "ended"
  <2> DEFINE m == Message(id, p)
  <2>1. channel' = Append(channel, m) /\ reading' = "start"
    BY <1>4, <1>13 DEF Send
  <2>2. m.kind = "request" /\ m.id = id /\ m.from = p
    BY DEF Message
  <2>3. m \in Messages
    BY <1>2 DEF Message, Messages
  <2>4. HandedBy(m, readAt'[1]) /\ m.from >= p
    BY <1>2, <1>5, <1>13, <2>2, <2>3 DEF HandedBy
  <2> HIDE DEF m
  <2>5. Queue' /\ Answering'
    BY <1>3, <1>5, <1>6, <1>13, <2>1, <2>2, <2>3, <2>4, QueueGrows DEF LaneInv, p
  <2>6. /\ Len(channel') = Len(channel) + 1 /\ channel'[Len(channel) + 1] = m
        /\ \A i \in 1 .. Len(channel) : channel'[i] = channel[i]
    BY <1>7, <2>1, <2>3, MessageJoins
  <2>7. /\ \A i \in 1 .. Len(channel) : i \in 1 .. Len(channel') /\ channel'[i] = channel[i]
        /\ Len(channel) + 1 \in 1 .. Len(channel')
    BY <1>7, <2>6
  <2>8. NonePassed'
    BY <1>6, <1>10, <2>1, <2>2, <2>6, <2>7, NonePassedGrows DEF LaneInv, p
  <2> QED BY <2>5, <2>8
<1> QED BY <1>11, <1>12, <1>13

\* And otherwise it passes over nothing that is asked, or tells that it is at the end.
LEMMA PassingMoves ==
  ASSUME LaneInv, UNCHANGED <<input, loop>>, Skips \/ Heads \/ Fails \/ Ends
  PROVE  Queue' /\ Answering' /\ NonePassed'
<1> DEFINE p == readAt[1]
<1>1. UNCHANGED <<input, serving, current, sent, broken>> /\ WellRead
  BY DEF loop, LaneInv
<1>2. p \in Int
  BY InputForms DEF LaneInv, WellRead
<1>3. reading # "closed" /\ (Ends => readAt' = readAt /\ AtEnd(readAt))
  BY DEF Skips, Heads, Fails, Ends
<1>4. readAt'[1] \in Int /\ readAt'[1] >= p
  <2>1. CASE Ends
    BY <1>2, <1>3, <2>1
  <2>2. CASE Skips \/ Heads \/ Fails BY <1>2, <1>1, <2>2, PassedBy, PlaceKept
  <2> QED BY <2>1, <2>2
<1>5. serving = "ended" => broken
  BY <1>3 DEF LaneInv, Answering
<1>7. ASSUME Clean, NEW n \in Asking
      PROVE  /\ n < readAt'[1] => n < readAt[1]
             /\ Fails \/ Ends => n < readAt'[1]
  BY <1>1, <1>3, <1>7, PassesNone
<1> HIDE DEF p
<1>8. CASE Skips \/ Heads
  <2>1. UNCHANGED channel /\ reading' # "closed"
    BY <1>8 DEF Skips, Heads
  <2>2. Queue' /\ Answering'
    BY <1>1, <1>3, <1>4, <1>5, <2>1, QueueGrows DEF LaneInv, p
  <2> QED BY <2>2, <1>1, <1>7, <2>1, NonePassedGrows DEF LaneInv
<1>9. CASE Fails \/ Ends
  <2>1. PICK m : m \in {[kind |-> "eof"], [kind |-> "readError"]} /\ Close(m)
    BY <1>9 DEF Fails, Ends
  <2>2. m \in Messages /\ m.kind # "request"
    BY <2>1 DEF Messages
  <2>3. reading' = "closed" /\ channel' = IF serving = "ended" THEN channel ELSE Append(channel, m)
    BY <2>1 DEF Close, Send
  <2>4. Queue' /\ Answering'
    BY <1>1, <1>3, <1>4, <1>5, <2>2, <2>3, QueueGrows DEF LaneInv, p
  <2>5. \A i \in 1 .. Len(channel) : i \in 1 .. Len(channel') /\ channel'[i] = channel[i]
    <3>1. CASE serving = "ended"
      BY <2>3, <3>1
    <3>2. CASE serving # "ended" BY LenProperties, <2>2, <2>3, <3>2, MessageJoins DEF LaneInv, Queue
    <3> QED BY <3>1, <3>2
  <2> QED BY <2>4, <1>1, <1>7, <1>9, <2>5, NonePassedGrows DEF LaneInv
<1> QED BY <1>8, <1>9

\* The loop leaves the reader alone.
LEMMA ReaderStands ==
  ASSUME UNCHANGED <<input, reader>>
  PROVE  /\ (WellRead => WellRead') /\ Messages' = Messages /\ AnswerSet' = AnswerSet /\ Asking' = Asking
         /\ Clean' = Clean /\ (HandedBy(current', readAt[1]) => Handed(current)')
<1>1. input' = input /\ readAt' = readAt /\ reading' = reading /\ length' = length
  BY DEF reader
<1> QED BY <1>1 DEF Handed, HandedBy, WellRead, AtEnd, Messages, AnswerSet, Asking, Clean

\* The loop takes the message that has waited longest.
LEMMA ReceivingMoves ==
  ASSUME LaneInv, Receive
  PROVE  Queue' /\ Answering' /\ NonePassed'
<1> DEFINE n == Len(channel)
<1> DEFINE m == channel[1]
<1>1. /\ serving = "idle" /\ channel # << >> /\ channel' = Tail(channel)
      /\ UNCHANGED <<input, reader, sent, opened, broken>> /\ ~Busy /\ ~broken
  BY DEF Receive, Busy, LaneInv, Answering
<1>2. /\ n \in Nat /\ n > 0 /\ channel' \in Seq(Messages) /\ Len(channel') = n - 1 /\ m \in Messages
      /\ \A i \in 1 .. n - 1 : channel'[i] = channel[i + 1] /\ i + 1 \in 1 .. n
      /\ 1 \in 1 .. n /\ Head(channel) = m
  <2>1. channel \in Seq(Messages)
    BY DEF LaneInv, Queue
  <2>2. n \in Nat /\ n > 0
    BY <1>1, <2>1, LenProperties, EmptySeq
  <2>3. /\ Tail(channel) \in Seq(Messages) /\ Len(Tail(channel)) = n - 1 /\ Head(channel) \in Messages
        /\ \A i \in 1 .. Len(Tail(channel)) : Tail(channel)[i] = channel[i + 1]
    BY <1>1, <2>1, HeadTailProperties
  <2>4. Head(channel) = m
    BY <1>1, <2>1, <2>2
  <2> QED BY <1>1, <2>2, <2>3, <2>4
<1>3. /\ WellRead' /\ Messages' = Messages /\ AnswerSet' = AnswerSet /\ Asking' = Asking /\ Clean' = Clean
      /\ (HandedBy(current', readAt[1]) => Handed(current)')
      /\ reading' = reading /\ readAt' = readAt
  BY <1>1, ReaderStands DEF LaneInv, reader
<1>4. /\ \A i \in 1 .. n : channel[i].kind = "request" => HandedBy(channel[i], readAt[1])
      /\ \A i, j \in 1 .. n : i < j =>
           channel[i].kind = "request" /\ (channel[j].kind = "request" => channel[i].from < channel[j].from)
      /\ reading # "closed" => \A i \in 1 .. n : channel[i].kind = "request"
  BY DEF LaneInv, Queue, Handed
<1> HIDE DEF n, m
<1>5. Queue'
  <2>1. \A i \in 1 .. n - 1 : channel'[i].kind = "request" => HandedBy(channel'[i], readAt[1])
    BY <1>2, <1>4
  <2>2. \A i, j \in 1 .. n - 1 : i < j =>
          channel'[i].kind = "request" /\ (channel'[j].kind = "request" => channel'[i].from < channel'[j].from)
    <3>1. \A i, j \in 1 .. n - 1 : i < j => i + 1 < j + 1
      BY <1>2
    <3> QED BY <1>2, <1>4, <3>1
  <2>3. reading # "closed" => \A i \in 1 .. n - 1 : channel'[i].kind = "request"
    BY <1>2, <1>4
  <2> QED BY <1>1, <1>2, <1>3, <2>1, <2>2, <2>3 DEF Queue, Handed, HandedBy
<1>6. \A i \in 1 .. n - 1 : channel'[i].kind = "request" => \A k \in 1 .. Len(sent) : sent[k].from < channel'[i].from
  BY <1>2 DEF LaneInv, Answering, n
<1>7. ASSUME Clean
      PROVE  /\ reading = "closed" => \A a \in Asking : a < readAt[1]
             /\ \A a \in Asking : a < readAt[1] =>
                  \/ a \in {sent[k].from : k \in 1 .. Len(sent)}
                  \/ m.kind = "request" /\ m.from = a
                  \/ \E i \in 1 .. n - 1 : channel'[i].kind = "request" /\ channel'[i].from = a
             /\ \A a \in Asking, k \in 1 .. Len(sent) : a < sent[k].from => \E j \in 1 .. Len(sent) : sent[j].from = a
  <2>1. ASSUME NEW i \in 1 .. n
        PROVE  channel[i] = m \/ \E j \in 1 .. n - 1 : channel'[j] = channel[i]
    <3>1. CASE i = 1
      BY <3>1 DEF m
    <3>2. CASE i # 1
      <4>1. i - 1 \in 1 .. n - 1 /\ (i - 1) + 1 = i
        BY <1>2, <2>1, <3>2
      <4> QED BY <1>2, <4>1
    <3> QED BY <3>1, <3>2
  <2>2. \A a \in Asking : a < readAt[1] => Waiting(a)
    BY <1>1, <1>7 DEF LaneInv, NonePassed
  <2>3. \A a \in Asking : a < readAt[1] =>
                  \/ a \in {sent[k].from : k \in 1 .. Len(sent)}
                  \/ m.kind = "request" /\ m.from = a
                  \/ \E i \in 1 .. n - 1 : channel'[i].kind = "request" /\ channel'[i].from = a
    BY <1>1, <2>1, <2>2 DEF Waiting, n
  <2> QED BY <1>1, <1>7, <2>3 DEF LaneInv, NonePassed
<1>8. ASSUME NEW next \in {"idle", "vet", "answer", "ended"}, serving' = next,
             IF m.kind # "request" THEN next = "ended"
             ELSE current' = m /\ (m.from \in Asking <=> next \in {"vet", "answer"}) /\ next # "ended"
      PROVE  Answering' /\ NonePassed'
  <2>1. Busy' <=> m.kind = "request" /\ m.from \in Asking
    BY <1>8 DEF Busy
  <2>2. m.kind # "request" => reading = "closed" /\ n = 1
    <3>1. SUFFICES ASSUME m.kind # "request"
                   PROVE  reading = "closed" /\ n = 1
      OBVIOUS
    <3>2. reading = "closed"
      BY <1>2, <1>4, <3>1 DEF m
    <3>3. n > 1 => 2 \in 1 .. n /\ 1 < 2
      BY <1>2
    <3> QED BY <1>2, <1>4, <3>1, <3>2, <3>3 DEF m
  <2>3. m.kind = "request" => /\ HandedBy(m, readAt[1])
                              /\ \A k \in 1 .. Len(sent) : sent[k].from < m.from
                              /\ \A i \in 1 .. n - 1 : channel'[i].kind = "request" => m.from < channel'[i].from
    <3>1. \A i \in 1 .. n - 1 : 1 < i + 1
      BY <1>2
    <3> QED BY <1>2, <1>4, <3>1 DEF LaneInv, Answering, n, m
  <2>4. n = 1 => channel' = << >>
    BY <1>2, EmptySeq
  <2>5. Answering'
    <3>1. Busy' => Handed(current)'
      BY <1>3, <1>8, <2>1, <2>3
    <3>2. next = "ended" => reading' = "closed" /\ channel' = << >>
      BY <1>3, <1>8, <2>2, <2>4
    <3>3. /\ sent' = sent /\ sent \in Seq(AnswerSet) /\ broken' = FALSE
          /\ \A i, j \in 1 .. Len(sent) : i < j => sent[i].from < sent[j].from
          /\ \A k \in 1 .. Len(sent) : /\ sent[k].from \in Asking /\ sent[k].id \in Carried(input[sent[k].from])
                                       /\ sent[k].from < readAt[1]
      BY <1>1 DEF LaneInv, Answering
    <3>4. input' = input /\ \A x : Carried(x)' = Carried(x)
      BY <1>1 DEF Carried
    <3>5. Busy' => /\ current'.from \in Asking /\ \A k \in 1 .. Len(sent) : sent[k].from < current'.from
                   /\ \A i \in 1 .. n - 1 : channel'[i].kind = "request" => current'.from < channel'[i].from
      BY <1>8, <2>1, <2>3
    <3> QED BY <1>2, <1>3, <1>6, <1>8, <3>1, <3>2, <3>3, <3>4, <3>5 DEF Answering, Handed
  <2>6. NonePassed'
    <3>1. \A a : Waiting(a)' <=> \/ a \in {sent[k].from : k \in 1 .. Len(sent)}
                                 \/ Busy' /\ current'.from = a
                                 \/ \E i \in 1 .. n - 1 : channel'[i].kind = "request" /\ channel'[i].from = a
      BY <1>1, <1>2 DEF Waiting
    <3>2. Clean => \A a \in Asking : a < readAt[1] => Waiting(a)'
      BY <1>7, <1>8, <2>1, <3>1
    <3> QED BY <1>1, <1>3, <1>7, <3>2 DEF NonePassed
  <2> QED BY <2>5, <2>6
<1>9. CASE m.kind # "request"
  <2>1. serving' = "ended"
    BY <1>2, <1>9 DEF Receive
  <2> QED BY <1>5, <1>8, <1>9, <2>1
<1>10. CASE m.kind = "request"
  <2>1. HandedBy(m, readAt[1])
    BY <1>2, <1>4, <1>10 DEF m
  <2>2. m.from \in DOMAIN input
    BY <1>10, <2>1 DEF HandedBy, Messages
  <2>3. m.from \in Asking <=> Requests[m.id].answered
    BY <2>1, <2>2 DEF HandedBy, Asking, AnsweredId
  <2>4. current' = m /\ serving' \in {"idle", "vet", "answer"} /\ (Requests[m.id].answered <=> serving' # "idle")
    BY <1>1, <1>2, <1>10 DEF Receive, Reply
  <2> QED BY <1>5, <1>8, <1>10, <2>3, <2>4
<1> QED BY <1>9, <1>10

\* While it works on a call, nothing of this changes.
LEMMA WorkingMoves ==
  ASSUME LaneInv, UNCHANGED <<input, reader, channel, current, sent, broken>>, Busy' <=> Busy,
         serving' = "ended" <=> serving = "ended"
  PROVE  LaneInv'
<1>1. /\ WellRead' /\ Messages' = Messages /\ AnswerSet' = AnswerSet /\ Asking' = Asking /\ Clean' = Clean
      /\ readAt' = readAt /\ reading' = reading /\ input' = input
  BY ReaderStands DEF LaneInv, reader
<1>3. Answering' BY <1>1, ReaderStands DEF LaneInv, Answering, Handed
<1>5. NonePassed' BY <1>1 DEF LaneInv, NonePassed, Waiting
<1> QED BY <1>1, <1>3, <1>5 DEF LaneInv, Queue, Handed, HandedBy

\* It answers the call that it has taken, or stops.
LEMMA WritingMoves ==
  ASSUME CallInv, LaneInv, Write
  PROVE  LaneInv'
<1> DEFINE n == Len(sent)
<1> DEFINE last == [id |-> current.id, kind |-> answer, from |-> current.from]
<1>1. /\ serving = "answer" /\ UNCHANGED <<input, reader, channel, current, opened>> /\ Busy /\ ~Busy'
      /\ \/ sent' = Append(sent, last) /\ serving' = "idle" /\ UNCHANGED broken
         \/ broken' = TRUE /\ serving' = "ended" /\ UNCHANGED sent
  BY DEF Write, Busy
<1>2. /\ WellRead' /\ Messages' = Messages /\ AnswerSet' = AnswerSet /\ Asking' = Asking /\ Clean' = Clean
      /\ readAt' = readAt /\ reading' = reading /\ input' = input /\ channel' = channel /\ current' = current
  BY <1>1, ReaderStands DEF LaneInv, reader
<1>3. Queue'
  BY <1>2 DEF LaneInv, Queue, Handed, HandedBy
<1>4. /\ Handed(current) /\ current.from \in Asking /\ \A k \in 1 .. n : sent[k].from < current.from
      /\ sent \in Seq(AnswerSet) /\ ~broken
      /\ \A i, j \in 1 .. n : i < j => sent[i].from < sent[j].from
      /\ \A k \in 1 .. n : /\ sent[k].from \in Asking /\ sent[k].id \in Carried(input[sent[k].from])
                           /\ sent[k].from < readAt[1]
      /\ \A i \in 1 .. Len(channel) : channel[i].kind = "request" =>
           (\A k \in 1 .. n : sent[k].from < channel[i].from) /\ current.from < channel[i].from
  BY <1>1 DEF LaneInv, Answering
<1>5. n \in Nat
  BY <1>4, LenProperties
<1>6. current.id \in Carried(input[current.from]) /\ current.from < readAt[1] /\ last \in AnswerSet
  <2>1. /\ current \in Messages /\ current.kind = "request" /\ Carried(input[current.from]) = {current.id}
        /\ current.from < readAt[1]
    BY <1>4 DEF Handed, HandedBy
  <2>2. answer \in {"none", "result", "toolError", "methodNotFound"}
    BY DEF CallInv, McpTypeOK
  <2> QED BY <2>1, <2>2 DEF Messages, AnswerSet
<1>7. Clean => /\ reading = "closed" => \A a \in Asking : a < readAt[1]
               /\ \A a \in Asking : a < readAt[1] => Waiting(a)
               /\ \A a \in Asking, k \in 1 .. n : a < sent[k].from => \E j \in 1 .. n : sent[j].from = a
  BY <1>4 DEF LaneInv, NonePassed
<1>8. \A a \in DOMAIN input : a \in Int
  BY InputForms DEF LaneInv, WellRead
<1>9. \A a \in Asking : a \in DOMAIN input
  BY DEF Asking
<1>10. CASE broken' = TRUE /\ serving' = "ended" /\ UNCHANGED sent
  <2>1. Answering'
    BY <1>1, <1>2, <1>4, <1>10 DEF Answering, Carried
  <2>2. NonePassed'
    BY <1>2, <1>7, <1>10 DEF NonePassed
  <2> QED BY <1>2, <1>3, <2>1, <2>2 DEF LaneInv
<1>11. CASE sent' = Append(sent, last) /\ serving' = "idle" /\ UNCHANGED broken
  <2> HIDE DEF n
  <2>1. /\ sent' \in Seq(AnswerSet) /\ Len(sent') = n + 1 /\ sent'[n + 1] = last
        /\ \A k \in 1 .. n : sent'[k] = sent[k]
    <3>1. /\ Append(sent, last) \in Seq(AnswerSet) /\ Len(Append(sent, last)) = Len(sent) + 1
          /\ Append(sent, last)[Len(sent) + 1] = last
          /\ \A k \in 1 .. Len(sent) : Append(sent, last)[k] = sent[k]
      <4> HIDE DEF last
      <4> QED BY <1>4, <1>6, AppendProperties
    <3> QED BY <1>11, <3>1 DEF n
  <2>2. \A k \in 1 .. n + 1 : k \in 1 .. n \/ k = n + 1
    BY <1>5
  <2>3. last.id = current.id /\ last.from = current.from
    OBVIOUS
  <2> HIDE DEF last
  <2>4. \A i, j \in 1 .. n + 1 : i < j => sent'[i].from < sent'[j].from
    <3>1. SUFFICES ASSUME NEW i \in 1 .. n + 1, NEW j \in 1 .. n + 1, i < j
                   PROVE  sent'[i].from < sent'[j].from
      OBVIOUS
    <3>2. i \in 1 .. n
      BY <1>5, <3>1
    <3> QED BY <1>4, <2>1, <2>2, <2>3, <3>1, <3>2
  <2>5. \A k \in 1 .. n + 1 : /\ sent'[k].from \in Asking /\ sent'[k].id \in Carried(input[sent'[k].from])
                             /\ sent'[k].from < readAt[1]
    BY <1>4, <1>6, <2>1, <2>2, <2>3
  <2>6. \A i \in 1 .. Len(channel) : channel[i].kind = "request" =>
          \A k \in 1 .. n + 1 : sent'[k].from < channel[i].from
    BY <1>4, <2>1, <2>2, <2>3
  <2>7. Answering'
    BY <1>1, <1>2, <1>4, <1>11, <2>1, <2>4, <2>5, <2>6 DEF Answering, Carried
  <2>8. ASSUME Clean, NEW a \in Asking, a < readAt[1]
        PROVE  Waiting(a)'
    <3>1. CASE \E k \in 1 .. n : sent[k].from = a
      <4>1. PICK k \in 1 .. n : sent[k].from = a
        BY <3>1
      <4>2. k \in 1 .. Len(sent') /\ sent'[k].from = a
        BY <1>5, <2>1, <4>1
      <4> QED BY <4>2 DEF Waiting
    <3>2. CASE current.from = a
      <4>1. n + 1 \in 1 .. Len(sent') /\ sent'[n + 1].from = a
        BY <1>5, <2>1, <2>3, <3>2
      <4> QED BY <4>1 DEF Waiting
    <3>3. CASE \E i \in 1 .. Len(channel) : channel[i].kind = "request" /\ channel[i].from = a
      BY <1>2, <3>3 DEF Waiting
    <3> QED BY <1>7, <2>8, <3>1, <3>2, <3>3 DEF Waiting, n
  <2>9. ASSUME Clean, NEW a \in Asking, NEW k \in 1 .. n + 1, a < sent'[k].from
        PROVE  \E j \in 1 .. n + 1 : sent'[j].from = a
    <3>1. \A j \in 1 .. n : j \in 1 .. n + 1
      BY <1>5
    <3>2. CASE k \in 1 .. n
      <4>1. PICK j \in 1 .. n : sent[j].from = a
        BY <1>7, <2>1, <2>9, <3>2
      <4> QED BY <2>1, <3>1, <4>1
    <3>3. CASE k = n + 1
      <4>1. a < current.from /\ a \in Int /\ current.from \in Int /\ readAt[1] \in Int
        BY <1>4, <1>8, <1>9, <2>1, <2>3, <2>9, <3>3, InputForms DEF LaneInv, WellRead
      <4>2. a < readAt[1] /\ ~(current.from = a)
        BY <1>6, <4>1
      <4>3. \A i \in 1 .. Len(channel) : channel[i].kind = "request" => ~(channel[i].from = a)
        <5>1. SUFFICES ASSUME NEW i \in 1 .. Len(channel), channel[i].kind = "request", channel[i].from = a
                       PROVE  FALSE
          OBVIOUS
        <5>2. current.from < a
          BY <1>4, <5>1
        <5> QED BY <4>1, <5>2
      <4>4. PICK j \in 1 .. n : sent[j].from = a
        BY <1>7, <2>9, <4>2, <4>3 DEF Waiting, n
      <4> QED BY <2>1, <3>1, <4>4
    <3> QED BY <2>2, <3>2, <3>3
  <2>10. NonePassed'
    BY <1>2, <1>4, <1>7, <1>11, <2>1, <2>8, <2>9 DEF NonePassed
  <2> QED BY <1>2, <1>3, <2>7, <2>10 DEF LaneInv
<1> QED BY <1>1, <1>10, <1>11

LEMMA LanesKeep == CallInv /\ LaneInv /\ [McpNext]_mcpVars => LaneInv'
<1> SUFFICES ASSUME CallInv, LaneInv, [McpNext]_mcpVars
             PROVE  LaneInv'
  OBVIOUS
<1>1. CASE Read BY <1>1, ReadSteps, WellReadKeeps, HandingMoves, PassingMoves DEF LaneInv
<1>2. CASE Receive BY <1>2, ReaderStands, ReceivingMoves DEF LaneInv, Receive
<1>3. CASE Vet \/ Open \/ Ran BY <1>3, WorkingMoves DEF Busy, Vet, Open, Ran, Reply
<1>4. CASE Write
  BY <1>4, WritingMoves
<1>5. CASE UNCHANGED mcpVars
  BY <1>5, WorkingMoves DEF mcpVars, Busy, reader
<1> QED BY <1>1, <1>2, <1>3, <1>4, <1>5 DEF McpNext, Serve

\* What has been answered, and that nothing is left when the loop has ended.
LEMMA LanesTell == LaneInv => AnsweredInOrder /\ NoRequestLost
<1> SUFFICES ASSUME LaneInv
             PROVE  AnsweredInOrder /\ NoRequestLost
  OBVIOUS
<1>1. DOMAIN sent = 1 .. Len(sent)
  BY LenProperties DEF LaneInv, Answering
<1>2. AnsweredPieces = {sent[k].from : k \in 1 .. Len(sent)}
  BY <1>1 DEF AnsweredPieces
<1>3. /\ \A i, j \in 1 .. Len(sent) : i < j => sent[i].from < sent[j].from
      /\ \A k \in 1 .. Len(sent) : sent[k].from \in Asking /\ sent[k].id \in Carried(input[sent[k].from])
      /\ Clean => \A n \in Asking, k \in 1 .. Len(sent) : n < sent[k].from => \E j \in 1 .. Len(sent) : sent[j].from = n
  BY DEF LaneInv, Answering, NonePassed
<1>5. ASSUME serving = "ended", ~broken, Clean
      PROVE  AnsweredPieces = Asking
  <2>5. \A n \in Asking : n \in AnsweredPieces
    BY <1>2, <1>5, EmptySeq DEF Waiting, Busy, LaneInv, NonePassed, Answering
  <2> QED BY <2>5, <1>2, <1>3
<1> QED BY <1>1, <1>2, <1>3, <1>5 DEF NoRequestLost, AnsweredInOrder

(***************************************************************************)
(* Every request is answered once and in order, whatever stands around it  *)
(* and in whichever framing it came; of a client that writes whole         *)
(* messages none is passed over, and none is left when its input has       *)
(* ended; and what a call opens has been vetted (read_message, serve,      *)
(* dispatch, check_path_allowed).                                          *)
(***************************************************************************)
THEOREM AnswersAreGiven == McpSpec => []AnswersAreExact
<1>1. McpInit => CallInv /\ LaneInv
  BY LanesEmpty DEF McpInit, CallInv, McpTypeOK, OpenedAreAllowed
<1>2. McpSpec => [](CallInv /\ LaneInv)
  BY <1>1, CallsKeep, LanesKeep, PTL DEF McpSpec
<1>3. CallInv /\ LaneInv => AnswersAreExact
  BY LanesTell DEF AnswersAreExact, CallsAreVetted, CallInv
<1> QED BY <1>2, <1>3, PTL

-----------------------------------------------------------------------------
(***************************************************************************)
(* The test command.  While a file is planned what is placed and what      *)
(* remains part what was selected, and no knot of dependencies has a       *)
(* member that was placed; while it is run its results tell which          *)
(* workflows have completed; and the command stops for no other reason     *)
(* than a failure that the summary counts.                                 *)
(***************************************************************************)
SuiteErrors == {"none", "parse", "dependency", "cycle", "build"}
CaseResults == {"ok", "okWithDiagnostics", "SuccessCriteriaFailed", "RuntimeError", "ExecutionTimeout",
                "WorkflowDependencyUnsatisfied"}
CaseResult == [workflow : Nat, result : CaseResults]
SuiteResult == [error : SuiteErrors, results : Seq(CaseResult)]
Totals == [tests : Nat, pass : Nat, fail : Nat, error : Nat, suites : Nat]
Note == [kind : {"cleartext", "unused"}, hosts : SUBSET Hosts]

RunnerTyped ==
  /\ files \in Runs /\ failFast \in BOOLEAN /\ at \in 1 .. Len(files)
  /\ testsPc \in {"parse", "plan", "build", "case", "settle", "done"}
  /\ bail \in BOOLEAN /\ used \subseteq Excepted /\ warned \subseteq Hosts
  /\ cases \in Seq(SuiteResult) /\ order \in Seq(Nat) /\ position \in Nat \ {0} /\ summary \in Totals
  /\ Len(cases) = IF testsPc \in {"parse", "plan", "build"} THEN at - 1 ELSE at

\* The place k of a plan is the first workflow whose dependencies are at the places before.
PlacedRight(k) ==
  LET placed == {order[i] : i \in 1 .. k - 1} IN
  /\ Deps(order[k]) \subseteq placed
  /\ \A w \in File.selected \ placed : Deps(w) \subseteq placed => order[k] <= w

Planning ==
  /\ testsPc \in {"plan", "build", "case"} =>
       /\ File.parses
       /\ ToSet(order) \subseteq File.selected
       /\ \A i, j \in DOMAIN order : order[i] = order[j] => i = j
       /\ \A k \in DOMAIN order : PlacedRight(k)
       /\ \A knot \in SUBSET File.selected :
            (\A w \in knot : Deps(w) \intersect knot # {}) => knot \intersect ToSet(order) = {}
       /\ order # << >> \/ testsPc # "plan" => ~Broken(File)
  /\ testsPc = "plan" => remaining = File.selected \ ToSet(order)
  /\ testsPc \in {"build", "case"} => ToSet(order) = File.selected

CompletedIn(results, n) ==
  {results[i].workflow : i \in {j \in 1 .. n : results[j].result \notin {"ExecutionTimeout"}}}

\* A suite is right about what it refused, and about each of its cases.
SuiteRight(f, suite) ==
  /\ suite.error = "dependency" <=> f.parses /\ Broken(f)
  /\ suite.error = "cycle" <=> f.parses /\ ~Broken(f) /\ Cyclic(f)
  /\ suite.error # "none" => suite.results = << >>
  /\ \A k \in DOMAIN suite.results :
       suite.results[k].result = "WorkflowDependencyUnsatisfied" <=>
         ~(f.deps[suite.results[k].workflow] \subseteq CompletedIn(suite.results, k - 1))

Accounting ==
  /\ \A s \in DOMAIN cases : SuiteRight(files[s], cases[s])
  /\ testsPc = "case" =>
       /\ cases[at].error = "none" /\ completed = CompletedIn(cases[at].results, Len(cases[at].results))
       /\ completed \subseteq ToSet(order)

PassedUpTo(suite, n) == suite.error = "none" /\ \A k \in 1 .. n : Status(suite.results[k].result) = "pass"
PassedWhole(suite) == PassedUpTo(suite, Len(suite.results))
AllRun(f, suite) == suite.error = "none" => Len(suite.results) = Cardinality(f.selected)

Stopping ==
  /\ bail => failFast /\ HasFailures /\ testsPc \in {"case", "settle", "done"}
  /\ testsPc = "case" =>
       IF bail THEN position = Len(order) + 1
       ELSE position <= Len(order) + 1 /\ Len(cases[at].results) = position - 1
  /\ failFast => \A s \in DOMAIN cases : IF bail /\ s = Len(cases)
                                         THEN \/ cases[s].error # "none"
                                              \/ PassedUpTo(cases[s], Len(cases[s].results) - 1)
                                         ELSE PassedWhole(cases[s])
  /\ ~bail => \A s \in DOMAIN cases : (testsPc = "case" /\ s = at) \/ AllRun(files[s], cases[s])
  /\ testsPc \in {"settle", "done"} /\ ~bail => at = Len(files)

Noting ==
  /\ notes \in Seq(Note) /\ WarnedOnce
  /\ \A i \in DOMAIN notes : IF notes[i].kind = "cleartext" THEN \E h \in warned : notes[i] = Warning(h)
                             ELSE testsPc = "done"

TestsInv == RunnerTyped /\ Planning /\ Accounting /\ Stopping /\ Noting

\* What the command was given.
LEMMA FilesGiven ==
  ASSUME RunnerTyped
  PROVE  /\ Len(files) \in Nat \ {0} /\ DOMAIN files = 1 .. Len(files) /\ at \in DOMAIN files
         /\ \A s \in DOMAIN files : /\ files[s].selected \subseteq Nat /\ IsFiniteSet(files[s].selected)
                                    /\ files[s].selected \subseteq DOMAIN files[s].deps
         /\ File.selected \subseteq Nat
<1>2. ASSUME NEW s \in DOMAIN files
      PROVE  /\ files[s].selected \subseteq Nat /\ IsFiniteSet(files[s].selected)
             /\ files[s].selected \subseteq DOMAIN files[s].deps
  <2> DEFINE n == Len(files[s].deps)
  <2>1. n \in Nat /\ DOMAIN files[s].deps = 1 .. n /\ files[s].selected \subseteq 1 .. n
    BY TestAssumption DEF RunnerTyped
  <2> HIDE DEF n
  <2>3. IsFiniteSet(files[s].selected) BY <2>1, FS_Interval, FS_Subset
  <2> QED BY <2>1, <2>3
<1> QED BY TestAssumption, <1>2 DEF File, RunnerTyped

LEMMA TestsBegin == TestsInit => TestsInv
<1> SUFFICES ASSUME TestsInit
             PROVE  TestsInv
  OBVIOUS
<1>1. files \in Runs /\ failFast \in BOOLEAN /\ at = 1 /\ testsPc = "parse" /\ order = << >> /\ position = 1
      /\ cases = << >> /\ completed = {} /\ bail = FALSE /\ warned = {} /\ used = {} /\ notes = << >>
  BY DEF TestsInit
<1>2. summary \in Totals
  BY DEF TestsInit, Totals
<1>4. RunnerTyped
  <2>1. cases \in Seq(SuiteResult) /\ order \in Seq(Nat) /\ Len(cases) = 0
    BY <1>1, EmptySeq
  <2>2. at \in 1 .. Len(files) /\ position \in Nat \ {0} /\ Len(cases) = at - 1 BY <1>1, TestAssumption, <2>1
  <2>3. used \subseteq Excepted /\ warned \subseteq Hosts
    BY <1>1
  <2>4. files \in Runs /\ failFast \in BOOLEAN /\ bail \in BOOLEAN /\ testsPc = "parse"
    BY <1>1
  <2> QED BY ONLY <1>2, <2>1, <2>2, <2>3, <2>4 DEF RunnerTyped
<1> QED BY <1>4, <1>1 DEF TestsInv, Planning, Accounting, Noting, WarnedOnce, Stopping

\* One more suite.
LEMMA OneMoreSuite ==
  ASSUME RunnerTyped, NEW suite \in SuiteResult, cases' = Append(cases, suite)
  PROVE  /\ DOMAIN cases = 1 .. Len(cases) /\ Len(cases) \in Nat
         /\ cases' \in Seq(SuiteResult) /\ Len(cases') = Len(cases) + 1 /\ DOMAIN cases' = 1 .. Len(cases) + 1
         /\ cases'[Len(cases) + 1] = suite /\ \A s \in DOMAIN cases : cases'[s] = cases[s]
  BY AppendProperties, LenProperties DEF RunnerTyped

\* A file that cannot be run is one more suite, and the next file is begun or the command ends.
LEMMA SuiteErrorKeeps ==
  ASSUME TestsInv, testsPc \in {"parse", "plan", "build"}, NEW error \in SuiteErrors \ {"none"}, SuiteError(error),
         error = "dependency" <=> File.parses /\ Broken(File),
         error = "cycle" <=> File.parses /\ ~Broken(File) /\ Cyclic(File)
  PROVE  TestsInv'
<1> DEFINE suite == [error |-> error, results |-> << >>]
<1>1. /\ summary' = [summary EXCEPT !.suites = @ + 1]
      /\ cases' = Append(cases, suite) /\ bail' = failFast /\ NextFile(failFast)
      /\ UNCHANGED <<files, failFast, strict, order, position, warned, used, notes>>
  BY DEF SuiteError, options, transport
<1>2. /\ Len(files) \in Nat \ {0} /\ at \in 1 .. Len(files) /\ Len(cases) = at - 1 /\ RunnerTyped
      /\ failFast \in BOOLEAN
  BY FilesGiven DEF TestsInv, RunnerTyped
<1>3. IF failFast \/ at = Len(files) THEN testsPc' = "settle" /\ at' = at ELSE testsPc' = "parse" /\ at' = at + 1
  BY <1>1 DEF NextFile
<1>4. suite \in SuiteResult /\ suite.error = error /\ suite.results = << >> /\ Len(suite.results) = 0
  BY DEF SuiteResult
<1> HIDE DEF suite
<1>5. /\ DOMAIN cases = 1 .. Len(cases) /\ cases' \in Seq(SuiteResult) /\ Len(cases') = at
      /\ DOMAIN cases' = 1 .. at /\ cases'[at] = suite /\ \A s \in DOMAIN cases : cases'[s] = cases[s]
  BY <1>1, <1>2, <1>4, OneMoreSuite
<1>6. \A s \in DOMAIN cases' : s = at \/ s \in DOMAIN cases
  BY <1>2, <1>5
<1>7. summary' \in Totals /\ HasFailures'
  <2>1. summary \in Totals
    BY <1>2 DEF RunnerTyped
  <2>2. summary' \in Totals /\ summary'.suites > 0
    BY <1>1, <2>1 DEF Totals
  <2> QED BY <2>2 DEF HasFailures
<1>8. RunnerTyped'
  BY <1>1, <1>2, <1>3, <1>5, <1>7 DEF RunnerTyped
<1>9. Planning'
  BY <1>3 DEF Planning
<1>10. Accounting'
  <2>1. SuiteRight(files[at], suite)
    BY <1>4 DEF SuiteRight, File
  <2>2. \A s \in DOMAIN cases' : SuiteRight(files'[s], cases'[s])
    BY <1>1, <1>5, <1>6, <2>1 DEF TestsInv, Accounting
  <2> QED BY <1>3, <2>2 DEF Accounting, SuiteRight, Broken, Cyclic, CompletedIn
<1>11. Stopping'
  <2>1. bail = FALSE
    BY DEF TestsInv, Stopping, RunnerTyped
  <2>2. failFast' => \A s \in DOMAIN cases' : IF bail' /\ s = Len(cases')
                                       THEN \/ cases'[s].error # "none"
                                            \/ PassedUpTo(cases'[s], Len(cases'[s].results) - 1)
                                       ELSE PassedWhole(cases'[s])
    BY <1>1, <1>2, <1>4, <1>5, <1>6, <2>1 DEF TestsInv, Stopping
  <2>3. \A s \in DOMAIN cases : failFast = FALSE => AllRun(files[s], cases[s])
    BY <2>1 DEF TestsInv, Stopping
  <2>4. ~bail' => \A s \in DOMAIN cases' : (testsPc' = "case" /\ s = at') \/ AllRun(files'[s], cases'[s])
    BY <1>1, <1>2, <1>4, <1>5, <1>6, <2>3 DEF AllRun
  <2>5. bail' => failFast' /\ HasFailures' /\ testsPc' \in {"case", "settle", "done"}
    BY <1>1, <1>3, <1>7
  <2>6. testsPc' # "case" /\ (testsPc' \in {"settle", "done"} /\ ~bail' => at' = Len(files'))
    BY <1>1, <1>2, <1>3
  <2> QED BY <1>1, <2>2, <2>4, <2>5, <2>6 DEF Stopping, PassedWhole, PassedUpTo, AllRun, Status
<1>12. Noting'
  BY <1>1, <1>3 DEF TestsInv, Noting, WarnedOnce, Warning
<1> QED BY <1>8, <1>9, <1>10, <1>11, <1>12 DEF TestsInv

\* A plan that is complete has no knot, and as many places as were selected.
LEMMA PlanIsComplete ==
  ASSUME TestsInv, testsPc \in {"build", "case"}
  PROVE  ~Broken(File) /\ ~Cyclic(File) /\ File.parses /\ Len(order) = Cardinality(File.selected)
<1>1. /\ File.parses /\ ToSet(order) = File.selected /\ ~Broken(File)
      /\ \A i, j \in DOMAIN order : order[i] = order[j] => i = j
      /\ \A knot \in SUBSET File.selected :
           (\A w \in knot : Deps(w) \intersect knot # {}) => knot \intersect ToSet(order) = {}
  BY DEF TestsInv, Planning
<1>3. Len(order) = Cardinality(File.selected)
  <2>2. Len(order) \in Nat /\ DOMAIN order = 1 .. Len(order) /\ order \in [1 .. Len(order) -> Nat]
    BY LenProperties DEF TestsInv, RunnerTyped
  <2> DEFINE n == Len(order)
  <2> QED
    BY <1>1, <2>2, FS_CountingElements DEF ExistsBijection, Bijection, Injection, Surjection, IsInjective, ToSet
<1> QED BY <1>1, <1>3 DEF Cyclic, Deps

LEMMA RefusalsKeep ==
  ASSUME TestsInv, ParseError \/ PlanError \/ BuildError
  PROVE  TestsInv'
<1>1. CASE ParseError BY <1>1, SuiteErrorKeeps DEF SuiteErrors, ParseError
<1>2. CASE BuildError BY <1>2, PlanIsComplete, SuiteErrorKeeps DEF SuiteErrors, BuildError
<1>3. CASE PlanError
  <2>1. testsPc = "plan" /\ File.parses /\ remaining \subseteq File.selected
    BY <1>3 DEF PlanError, TestsInv, Planning
  <2>3. CASE Broken(File) /\ SuiteError("dependency")
    BY <2>1, <2>3, SuiteErrorKeeps DEF SuiteErrors
  <2>4. CASE ~Broken(File) /\ remaining # {} /\ Ready = {} /\ SuiteError("cycle")
    BY <2>1, <2>4, SuiteErrorKeeps DEF SuiteErrors, Cyclic, Ready, Deps
  <2> QED BY <1>3, <2>3, <2>4 DEF PlanError, Required, Broken, Deps
<1> QED BY <1>1, <1>2, <1>3

\* What is not about the file that is planned is kept by all that leaves it alone.
LEMMA SuitesAreKept ==
  ASSUME TestsInv, UNCHANGED <<files, failFast, strict, at, cases, bail, summary, warned, used, notes>>,
         testsPc \in {"parse", "plan"}, testsPc' \in {"plan", "build"},
         order' \in Seq(Nat), position' = position
  PROVE  RunnerTyped' /\ Accounting' /\ Stopping' /\ Noting'
<1>2. Accounting'
  BY DEF TestsInv, Accounting, SuiteRight, Broken, Cyclic, CompletedIn
<1>4. Stopping' BY DEF Stopping, PassedWhole, PassedUpTo, AllRun, Status, TestsInv, RunnerTyped
<1> QED BY <1>2, <1>4 DEF TestsInv, RunnerTyped, Noting, WarnedOnce, Warning

LEMMA TestsParseKeeps ==
  ASSUME TestsInv, TestsParse
  PROVE  TestsInv'
<1>1. /\ testsPc = "parse" /\ File.parses /\ testsPc' = "plan" /\ remaining' = File.selected /\ order' = << >>
      /\ UNCHANGED <<files, failFast, strict, at, position, summary, cases, completed, bail, warned, used, notes>>
  BY DEF TestsParse, options, transport
<1> QED BY <1>1, EmptySeq, SuitesAreKept DEF TestsInv, Planning, File, ToSet

LEMMA PlannedKeeps ==
  ASSUME TestsInv, Planned
  PROVE  TestsInv'
<1>1. /\ testsPc = "plan" /\ (\A w \in File.selected : Required(w)) /\ remaining = {} /\ testsPc' = "build"
      /\ UNCHANGED <<files, failFast, strict, at, remaining, order, position, summary, cases, completed, bail,
                     warned, used, notes>>
  BY DEF Planned, options, transport
<1>5. Planning' BY <1>1 DEF TestsInv, Planning, Broken, File, ToSet, Deps, PlacedRight, Required
<1> QED BY <1>1, <1>5, SuitesAreKept DEF TestsInv, RunnerTyped

\* One more place of a plan.
LEMMA OneMorePlaced ==
  ASSUME NEW o \in Seq(Nat), NEW m \in Nat
  PROVE  /\ Len(o) \in Nat /\ DOMAIN o = 1 .. Len(o)
         /\ Append(o, m) \in Seq(Nat) /\ Append(o, m) # << >> /\ DOMAIN Append(o, m) = 1 .. Len(o) + 1
         /\ Append(o, m)[Len(o) + 1] = m /\ (\A k \in 1 .. Len(o) : Append(o, m)[k] = o[k])
         /\ \A k \in 1 .. Len(o) + 1 : {Append(o, m)[i] : i \in 1 .. k - 1} = {o[i] : i \in 1 .. k - 1}
         /\ ToSet(Append(o, m)) = ToSet(o) \union {m} /\ ToSet(o) = {o[i] : i \in 1 .. Len(o)}
<1> DEFINE p == Append(o, m)
<1>1. p \in Seq(Nat) /\ p # << >> /\ Len(p) = Len(o) + 1 /\ p[Len(o) + 1] = m
      /\ \A k \in 1 .. Len(o) : p[k] = o[k]
  BY AppendProperties
<1> HIDE DEF p
<1>2. Len(o) \in Nat /\ DOMAIN o = 1 .. Len(o) /\ DOMAIN p = 1 .. Len(o) + 1
  BY <1>1, LenProperties
<1>3. ASSUME NEW k \in 1 .. Len(o) + 1
      PROVE  {p[i] : i \in 1 .. k - 1} = {o[i] : i \in 1 .. k - 1}
  <2>1. \A i \in 1 .. k - 1 : i \in 1 .. Len(o)
    BY <1>2
  <2> QED BY <1>1, <2>1
<1>4. ToSet(o) = {o[i] : i \in 1 .. Len(o)} /\ ToSet(p) = {p[i] : i \in 1 .. Len(o) + 1}
  BY <1>2 DEF ToSet
<1>6. Len(o) + 1 \in 1 .. Len(o) + 1 /\ \A i \in 1 .. Len(o) : i \in 1 .. Len(o) + 1
  BY <1>2
<1> QED BY <1>1, <1>2, <1>3, <1>4, <1>6 DEF p

LEMMA PlaceKeeps ==
  ASSUME TestsInv, Place
  PROVE  TestsInv'
<1> DEFINE m == Min(Ready)
<1>1. /\ testsPc = "plan" /\ (\A w \in File.selected : Required(w)) /\ Ready # {}
      /\ remaining' = remaining \ {m} /\ order' = Append(order, m)
      /\ UNCHANGED <<files, failFast, strict, at, testsPc, position, summary, cases, completed, bail,
                     warned, used, notes>>
  BY DEF Place, options, transport
<1>2. order \in Seq(Nat) /\ File.selected \subseteq Nat /\ remaining = File.selected \ ToSet(order)
      /\ ToSet(order) \subseteq File.selected /\ File.parses
  BY <1>1, FilesGiven DEF TestsInv, RunnerTyped, Planning
<1>3. m \in Ready /\ \A w \in Ready : m <= w BY <1>1, <1>2, LeastAttempt DEF Min, Ready
<1>4. m \in remaining /\ m \in Nat /\ m \notin ToSet(order) /\ m \in File.selected
      /\ Deps(m) \intersect remaining = {}
  BY <1>2, <1>3 DEF Ready
<1> HIDE DEF m
<1>5. /\ Len(order) \in Nat /\ DOMAIN order = 1 .. Len(order)
      /\ order' \in Seq(Nat) /\ order' # << >> /\ DOMAIN order' = 1 .. Len(order) + 1
      /\ order'[Len(order) + 1] = m /\ (\A k \in 1 .. Len(order) : order'[k] = order[k])
      /\ \A k \in 1 .. Len(order) + 1 : {order'[i] : i \in 1 .. k - 1} = {order[i] : i \in 1 .. k - 1}
      /\ ToSet(order') = ToSet(order) \union {m} /\ ToSet(order) = {order[i] : i \in 1 .. Len(order)}
  BY <1>1, <1>2, <1>4, OneMorePlaced
<1>6. \A k \in DOMAIN order' : k = Len(order) + 1 \/ k \in DOMAIN order
  BY <1>5
<1>7. File' = File /\ (\A w : Deps(w)' = Deps(w)) /\ ToSet(order)' = ToSet(order')
  BY <1>1 DEF File, Deps, ToSet
<1>8. ASSUME NEW k \in DOMAIN order'
      PROVE  PlacedRight(k)'
  <2>1. CASE k \in DOMAIN order BY <1>7, <1>1, <2>1, <1>5 DEF PlacedRight, TestsInv, Planning
  <2>2. CASE k = Len(order) + 1
    <3>2. Deps(m) \subseteq ToSet(order)
      BY <1>1, <1>2, <1>4 DEF Required
    <3>3. ASSUME NEW w \in File.selected \ ToSet(order), Deps(w) \subseteq ToSet(order)
          PROVE  m <= w BY <1>2, <3>3, <1>3 DEF Ready
    <3> QED BY <1>7, <1>5, <2>2, <3>2, <3>3 DEF PlacedRight
  <2> QED BY <1>6, <2>1, <2>2
<1>10. ASSUME NEW knot \in SUBSET File.selected, \A w \in knot : Deps(w) \intersect knot # {}
       PROVE  knot \intersect ToSet(order') = {}
  <2>1. knot \intersect ToSet(order) = {}
    BY <1>1, <1>10 DEF TestsInv, Planning
  <2> QED BY <1>5, <2>1, <1>4, <1>10, <1>2
<1>11. ~Broken(File)
  BY <1>1 DEF Required, Broken, Deps
<1>12. remaining' = File.selected \ ToSet(order') /\ ToSet(order') \subseteq File.selected
  BY <1>1, <1>2, <1>4, <1>5
<1>13. Planning'
  <2>1. Broken(File)' = Broken(File)
    BY <1>7 DEF Broken
  <2>2. \A i, j \in DOMAIN order' : order'[i] = order'[j] => i = j BY <1>5, <1>6, <1>1, <1>4 DEF TestsInv, Planning
  <2>3. \A knot \in SUBSET File'.selected :
          (\A w \in knot : Deps(w)' \intersect knot # {}) => knot \intersect ToSet(order)' = {}
    BY <1>7, <1>10
  <2> QED BY <1>1, <1>2, <1>7, <1>8, <1>11, <1>12, <2>1, <2>2, <2>3 DEF Planning
<1> QED BY <1>1, <1>5, <1>13, SuitesAreKept DEF TestsInv

LEMMA TestsBuildKeeps ==
  ASSUME TestsInv, TestsBuild
  PROVE  TestsInv'
<1> DEFINE suite == [error |-> "none", results |-> << >>]
<1>1. /\ testsPc = "build" /\ testsPc' = "case" /\ position' = 1 /\ completed' = {}
      /\ cases' = Append(cases, suite)
      /\ UNCHANGED <<files, failFast, strict, at, remaining, order, summary, bail, warned, used, notes>>
  BY DEF TestsBuild, options, transport
<1>2. RunnerTyped /\ Len(cases) = at - 1 /\ at \in Nat /\ bail = FALSE /\ at \in 1 .. Len(files)
  BY <1>1, FilesGiven DEF TestsInv, RunnerTyped, Stopping
<1>3. suite \in SuiteResult /\ suite.error = "none" /\ suite.results = << >> /\ Len(suite.results) = 0
  BY DEF SuiteResult, SuiteErrors
<1> HIDE DEF suite
<1>4. /\ DOMAIN cases = 1 .. Len(cases) /\ cases' \in Seq(SuiteResult) /\ Len(cases') = at
      /\ DOMAIN cases' = 1 .. at /\ cases'[at] = suite /\ \A s \in DOMAIN cases : cases'[s] = cases[s]
  BY <1>1, <1>2, <1>3, OneMoreSuite
<1>5. \A s \in DOMAIN cases' : s = at \/ s \in DOMAIN cases
  BY <1>2, <1>4
<1>8. Planning' BY <1>1 DEF TestsInv, Planning, Broken, File, ToSet, Deps, PlacedRight
<1>9. Accounting'
  <2>1. SuiteRight(files[at], suite) BY <1>3, <1>1, PlanIsComplete DEF SuiteRight, File
  <2>2. \A s \in DOMAIN cases' : SuiteRight(files'[s], cases'[s])
    BY <1>1, <1>4, <1>5, <2>1 DEF TestsInv, Accounting
  <2>5. CompletedIn(cases[at].results, Len(cases[at].results))' = {} BY <1>3, <1>1, <1>4 DEF CompletedIn
  <2> QED BY <1>1, <2>2, <2>5, <1>3, <1>4 DEF Accounting, SuiteRight, Broken, Cyclic, CompletedIn
<1>10. Stopping'
  <2>5. position' <= Len(order') + 1 /\ Len(cases'[at'].results) = position' - 1
    BY <1>1, <1>3, <1>4, <1>2, LenProperties DEF RunnerTyped
  <2> QED BY <1>1, <1>2, <1>4, <1>5, <1>3, <2>5 DEF Stopping, PassedWhole, PassedUpTo, AllRun, Status, TestsInv
<1> QED BY <1>1, <1>2, <1>4, <1>8, <1>9, <1>10 DEF TestsInv, Noting, WarnedOnce, Warning, RunnerTyped

\* One more result of a suite, and who has completed then.
LEMMA OneMoreResult ==
  ASSUME NEW r \in Seq(CaseResult), NEW x \in CaseResult
  PROVE  /\ Len(r) \in Nat /\ DOMAIN r = 1 .. Len(r)
         /\ Append(r, x) \in Seq(CaseResult) /\ Len(Append(r, x)) = Len(r) + 1
         /\ DOMAIN Append(r, x) = 1 .. Len(r) + 1
         /\ Append(r, x)[Len(r) + 1] = x /\ (\A k \in 1 .. Len(r) : Append(r, x)[k] = r[k])
         /\ \A n \in 0 .. Len(r) : CompletedIn(Append(r, x), n) = CompletedIn(r, n)
         /\ CompletedIn(Append(r, x), Len(r) + 1) =
              CompletedIn(r, Len(r)) \union (IF x.result = "ExecutionTimeout" THEN {} ELSE {x.workflow})
<1> DEFINE q == Append(r, x)
<1>1. q \in Seq(CaseResult) /\ Len(q) = Len(r) + 1 /\ q[Len(r) + 1] = x /\ \A k \in 1 .. Len(r) : q[k] = r[k]
  BY AppendProperties
<1> HIDE DEF q
<1>2. Len(r) \in Nat /\ DOMAIN r = 1 .. Len(r) /\ DOMAIN q = 1 .. Len(r) + 1
  BY <1>1, LenProperties
<1>3. ASSUME NEW n \in 0 .. Len(r)
      PROVE  CompletedIn(q, n) = CompletedIn(r, n) BY <1>1, <1>2 DEF CompletedIn
<1>4. CompletedIn(q, Len(r) + 1) =
        CompletedIn(r, Len(r)) \union (IF x.result = "ExecutionTimeout" THEN {} ELSE {x.workflow})
  <2> DEFINE n == Len(r)
  <2> DEFINE now == {j \in 1 .. n + 1 : q[j].result \notin {"ExecutionTimeout"}}
  <2> DEFINE then == {j \in 1 .. n : r[j].result \notin {"ExecutionTimeout"}}
  <2>2. now = then \union (IF x.result = "ExecutionTimeout" THEN {} ELSE {n + 1}) BY <1>1, <1>2
  <2>3. CompletedIn(q, n + 1) = {q[i].workflow : i \in now} /\ CompletedIn(r, n) = {r[i].workflow : i \in then}
    BY DEF CompletedIn
  <2>4. (\A i \in then : q[i] = r[i]) /\ q[n + 1] = x
    BY <1>1
  <2> HIDE DEF now, then, n
  <2> QED BY <2>3, <2>2, <2>4 DEF n
<1> QED BY <1>1, <1>2, <1>3, <1>4 DEF q

\* The summary counts whatever does not pass as a failure of the command.
LEMMA Counting ==
  ASSUME summary \in Totals, NEW status \in {"pass", "fail", "error"}, Count(status)
  PROVE  summary' \in Totals /\ (status # "pass" => HasFailures')
<1> DEFINE once == [summary EXCEPT !.tests = @ + 1]
<1>1. once \in Totals
  BY DEF Totals
<1>2. summary' = [once EXCEPT ![status] = @ + 1]
  BY DEF Count
<1> HIDE DEF once
<1>3. CASE status = "pass"
  BY <1>1, <1>2, <1>3 DEF Totals
<1>4. CASE status = "fail" BY <1>1, <1>2, <1>4 DEF HasFailures, Totals
<1>5. CASE status = "error" BY <1>1, <1>2, <1>5 DEF HasFailures, Totals
<1> QED BY <1>3, <1>4, <1>5

\* A set as a sequence has each of its elements once.
LEMMA SetAsSequence ==
  ASSUME NEW S, IsFiniteSet(S)
  PROVE  SetToSeq(S) \in Seq(S) /\ \A i, j \in DOMAIN SetToSeq(S) : SetToSeq(S)[i] = SetToSeq(S)[j] => i = j
<1>1. Cardinality(S) \in Nat /\ ExistsBijection(1 .. Cardinality(S), S)
  BY FS_CardinalityType
<1> HIDE DEF SetToSeq
<1> QED BY <1>1 DEF IsInjective, SetToSeq, ExistsBijection, Bijection, Injection

LEMMA CaseWarns ==
  ASSUME TestsInv, testsPc = "case", testsPc' = "case", NEW requests \in SUBSET Hosts,
         warned' = warned \union requests,
         notes' = notes \o SetToSeq({Warning(h) : h \in requests \ warned})
  PROVE  Noting'
<1> DEFINE fresh == {Warning(h) : h \in requests \ warned}
<1> DEFINE more == SetToSeq(fresh)
<1>1. IsFiniteSet(fresh) /\ fresh \subseteq Note
  <2>2. [h \in requests \ warned |-> Warning(h)] \in Surjection(requests \ warned, fresh)
    BY DEF Surjection
  <2>3. IsFiniteSet(fresh)
    <3> HIDE DEF fresh
    <3> QED BY TestAssumption, FS_Subset, <2>2, FS_Surjection DEF ExistsSurjection
  <2> QED BY <2>3 DEF Note, Warning
<1>2. more \in Seq(fresh) /\ \A i, j \in DOMAIN more : more[i] = more[j] => i = j
  <2> HIDE DEF fresh
  <2> QED BY <1>1, SetAsSequence
<1>3. notes \in Seq(Note) /\ (\A i, j \in DOMAIN notes : notes[i] = notes[j] => i = j)
      /\ \A i \in DOMAIN notes : \E h \in warned : notes[i] = Warning(h)
  BY DEF TestsInv, Noting, WarnedOnce
<1>4. \A i \in DOMAIN more : \E h \in requests \ warned : more[i] = Warning(h)
  <2>1. \A i \in DOMAIN more : more[i] \in fresh
    <3> HIDE DEF fresh, more
    <3> QED BY <1>2, LenProperties, ElementOfSeq
  <2> QED BY <2>1
<1>5. notes' = notes \o more
  OBVIOUS
<1> HIDE DEF more, fresh
<1>6. more \in Seq(Note)
  BY <1>1, <1>2, SeqMonotonic
<1> DEFINE n == Len(notes)
<1>7. /\ n \in Nat /\ Len(more) \in Nat /\ DOMAIN notes = 1 .. n /\ DOMAIN more = 1 .. Len(more)
      /\ notes' \in Seq(Note) /\ DOMAIN notes' = 1 .. n + Len(more)
      /\ \A i \in 1 .. n + Len(more) : notes'[i] = IF i <= n THEN notes[i] ELSE more[i - n]
  <2> DEFINE all == notes \o more
  <2>1. all \in Seq(Note) /\ Len(all) = n + Len(more)
        /\ \A i \in 1 .. n + Len(more) : all[i] = IF i <= n THEN notes[i] ELSE more[i - n]
    BY ONLY <1>3, <1>6, ConcatProperties
  <2>2. notes' = all
    BY <1>5
  <2> HIDE DEF all
  <2> QED BY <1>3, <1>6, <2>1, <2>2, LenProperties
<1> HIDE DEF n
<1>8. \A i \in DOMAIN notes' : \/ i \in DOMAIN notes /\ notes'[i] = notes[i]
                               \/ i - n \in DOMAIN more /\ notes'[i] = more[i - n]
  <2>1. ASSUME NEW i \in DOMAIN notes'
        PROVE  \/ i \in DOMAIN notes /\ notes'[i] = notes[i]
               \/ i - n \in DOMAIN more /\ notes'[i] = more[i - n]
    <3>1. i \in 1 .. n + Len(more) /\ i \in Nat
      BY <1>7
    <3>2. CASE i <= n
      BY <1>7, <3>1, <3>2
    <3>3. CASE ~(i <= n) BY <1>7, <3>1, <3>3
    <3> QED BY <3>2, <3>3
  <2> QED BY <2>1
<1>9. \A g, h : Warning(g) = Warning(h) => g = h
  BY DEF Warning
<1>0. warned \subseteq warned' /\ requests \subseteq warned' /\ \A h : Warning(h).kind = "cleartext"
  BY DEF Warning
<1>10. ASSUME NEW i \in DOMAIN notes', NEW j \in DOMAIN notes', notes'[i] = notes'[j]
       PROVE  i = j
  <2>1. CASE i \in DOMAIN notes /\ j \in DOMAIN notes /\ notes'[i] = notes[i] /\ notes'[j] = notes[j]
    BY <1>3, <1>10, <2>1
  <2>2. CASE i - n \in DOMAIN more /\ j - n \in DOMAIN more /\ notes'[i] = more[i - n] /\ notes'[j] = more[j - n]
    BY <1>7, <1>2, <1>10, <2>2
  <2>3. CASE i \in DOMAIN notes /\ notes'[i] = notes[i] /\ j - n \in DOMAIN more /\ notes'[j] = more[j - n]
    <3>1. PICK g \in warned : notes[i] = Warning(g)
      BY <1>3, <2>3
    <3>2. PICK h \in requests \ warned : more[j - n] = Warning(h)
      BY <1>4, <2>3
    <3> QED BY <1>9, <1>10, <2>3, <3>1, <3>2
  <2>4. CASE j \in DOMAIN notes /\ notes'[j] = notes[j] /\ i - n \in DOMAIN more /\ notes'[i] = more[i - n]
    <3>1. PICK g \in warned : notes[j] = Warning(g)
      BY <1>3, <2>4
    <3>2. PICK h \in requests \ warned : more[i - n] = Warning(h)
      BY <1>4, <2>4
    <3> QED BY <1>9, <1>10, <2>4, <3>1, <3>2
  <2> QED BY <1>8, <2>1, <2>2, <2>3, <2>4
<1>11. ASSUME NEW i \in DOMAIN notes'
       PROVE  notes'[i].kind = "cleartext" /\ \E h \in warned' : notes'[i] = Warning(h)
  <2>1. CASE i \in DOMAIN notes /\ notes'[i] = notes[i]
    <3>1. PICK h \in warned : notes[i] = Warning(h)
      BY <1>3, <2>1
    <3> QED BY <1>0, <2>1, <3>1
  <2>2. CASE i - n \in DOMAIN more /\ notes'[i] = more[i - n]
    <3>1. PICK h \in requests \ warned : more[i - n] = Warning(h)
      BY <1>4, <2>2
    <3> QED BY <1>0, <2>2, <3>1
  <2> QED BY <1>8, <2>1, <2>2
<1> QED BY <1>7, <1>11, <1>10 DEF Noting, Warning, WarnedOnce

\* The result of a case is one more of the suite at hand; the other suites stay.
LEMMA CaseKeeps ==
  ASSUME TestsInv, Case
  PROVE  TestsInv'
<1> DEFINE w == order[position]
<1> DEFINE r == cases[at].results
<1>1. testsPc = "case" /\ position <= Len(order)
      /\ UNCHANGED <<files, failFast, strict, at, testsPc, remaining, order>>
  BY DEF Case, options
<1>2. PICK result \in TestsResults(w) :
        /\ cases' = [cases EXCEPT ![at].results = Append(@, [workflow |-> w, result |-> result])]
        /\ Count(Status(result))
        /\ completed' = IF result = "ExecutionTimeout" THEN completed ELSE completed \union {w}
        /\ bail' = (failFast /\ Status(result) # "pass")
        /\ position' = IF bail' THEN Len(order) + 1 ELSE position + 1
  BY DEF Case
<1>3. PICK requests \in SUBSET Hosts :
        /\ used' = used \union (requests \intersect Excepted)
        /\ warned' = warned \union requests
        /\ notes' = notes \o SetToSeq({Warning(h) : h \in requests \ warned})
  BY DEF Case
<1>4. /\ RunnerTyped /\ Planning /\ Accounting /\ Stopping
      /\ at \in 1 .. Len(files) /\ at \in Nat /\ Len(cases) = at /\ failFast \in BOOLEAN /\ bail \in BOOLEAN
      /\ cases \in Seq(SuiteResult) /\ order \in Seq(Nat) /\ position \in Nat \ {0} /\ summary \in Totals
  BY <1>1, FilesGiven DEF TestsInv, RunnerTyped
<1>5. Len(order) \in Nat /\ DOMAIN order = 1 .. Len(order) /\ DOMAIN cases = 1 .. at /\ at \in DOMAIN cases
      /\ \A s \in DOMAIN cases : cases[s] \in SuiteResult BY <1>4, LenProperties, ElementOfSeq
<1>6. position \in DOMAIN order /\ w \in Nat /\ w \in ToSet(order) BY <1>4, <1>5, <1>1, ElementOfSeq DEF ToSet
<1>7. bail = FALSE /\ Len(r) = position - 1 BY <1>1, <1>4, <1>5 DEF Stopping
<1>8. r \in Seq(CaseResult) /\ cases[at].error = "none" /\ completed = CompletedIn(r, Len(r))
      /\ completed \subseteq ToSet(order)
  BY <1>1, <1>4, <1>5 DEF SuiteResult, Accounting
<1>9. result \in CaseResults /\ (result = "WorkflowDependencyUnsatisfied" <=> ~(Deps(w) \subseteq completed))
      /\ Status(result) \in {"pass", "fail", "error"}
  BY DEF TestsResults, CaseResults, Status
<1> DEFINE x == [workflow |-> w, result |-> result]
<1>10. x \in CaseResult /\ x.workflow = w /\ x.result = result
  BY <1>6, <1>9 DEF CaseResult
<1> DEFINE q == Append(r, x)
<1>11. cases' = [cases EXCEPT ![at] = [cases[at] EXCEPT !.results = q]]
  BY <1>2
<1> DEFINE suite == [cases[at] EXCEPT !.results = q]
<1> HIDE DEF x
<1>12. /\ Len(r) \in Nat /\ DOMAIN r = 1 .. Len(r)
       /\ q \in Seq(CaseResult) /\ Len(q) = Len(r) + 1 /\ DOMAIN q = 1 .. Len(r) + 1
       /\ q[Len(r) + 1] = x /\ (\A k \in 1 .. Len(r) : q[k] = r[k])
       /\ \A n \in 0 .. Len(r) : CompletedIn(q, n) = CompletedIn(r, n)
       /\ CompletedIn(q, Len(r) + 1) =
            CompletedIn(r, Len(r)) \union (IF x.result = "ExecutionTimeout" THEN {} ELSE {x.workflow})
  <2> HIDE DEF r
  <2> QED BY <1>8, <1>10, OneMoreResult
<1> HIDE DEF q
<1>13. suite \in SuiteResult /\ suite.error = "none" /\ suite.results = q BY <1>12, <1>5, <1>8 DEF SuiteResult
<1> HIDE DEF suite
<1>14. /\ cases' \in Seq(SuiteResult) /\ Len(cases') = at /\ DOMAIN cases' = DOMAIN cases
       /\ cases'[at] = suite /\ \A s \in DOMAIN cases : s # at => cases'[s] = cases[s]
  BY <1>4, <1>5, <1>13, <1>11, ExceptSeq DEF suite
<1> HIDE DEF r, w
<1>15. summary' \in Totals /\ (Status(result) # "pass" => HasFailures')
  BY <1>2, <1>4, <1>9, Counting
<1>16. bail' \in BOOLEAN /\ position' \in Nat \ {0}
  BY <1>2, <1>4, <1>5
<1>17. RunnerTyped' BY <1>1, <1>4, <1>14, <1>15, <1>16, <1>3 DEF RunnerTyped
<1>18. Planning'
  <2>1. File' = File /\ ToSet(order)' = ToSet(order) /\ (\A v : Deps(v)' = Deps(v))
        /\ \A k : PlacedRight(k)' = PlacedRight(k)
    BY <1>1 DEF File, ToSet, Deps, PlacedRight
  <2> QED BY <1>1, <1>4, <2>1 DEF Planning, Broken
<1>19. completed' = CompletedIn(q, Len(q)) /\ completed' \subseteq ToSet(order)
  BY <1>2, <1>6, <1>8, <1>10, <1>12
<1>20. SuiteRight(files[at], suite)
  <2>1. SuiteRight(files[at], cases[at]) /\ cases[at].results = r
    BY <1>4, <1>5 DEF Accounting, r
  <2>2. ASSUME NEW k \in DOMAIN q
        PROVE  q[k].result = "WorkflowDependencyUnsatisfied" <=>
                 ~(files[at].deps[q[k].workflow] \subseteq CompletedIn(q, k - 1))
    <3>1. k - 1 \in 0 .. Len(r) /\ (k = Len(r) + 1 \/ k \in DOMAIN r)
      BY <1>12
    <3>2. CompletedIn(q, k - 1) = CompletedIn(r, k - 1)
      BY <1>12, <3>1
    <3>3. CASE k = Len(r) + 1 BY <1>9, <1>10, <1>12, <3>3, <1>8, <3>2 DEF Deps, File
    <3>4. CASE k \in DOMAIN r BY <2>1, <3>2, <3>4, <1>12 DEF SuiteRight
    <3> QED BY <3>1, <3>3, <3>4
  <2> QED BY <1>8, <1>13, <2>1, <2>2 DEF SuiteRight
<1>21. Accounting'
  <2>1. \A s \in DOMAIN cases' : SuiteRight(files'[s], cases'[s])
    BY <1>1, <1>4, <1>14, <1>20 DEF Accounting
  <2>2. (\A s \in DOMAIN cases : SuiteRight(files[s], cases[s]))'
    BY <2>1 DEF SuiteRight, Broken, Cyclic, CompletedIn
  <2>3. (completed = CompletedIn(cases[at].results, Len(cases[at].results)))'
    BY <1>13, <1>19, <1>1, <1>14 DEF CompletedIn
  <2> QED BY <2>2, <2>3, <1>1, <1>13, <1>14, <1>19 DEF Accounting, ToSet
<1>22. Stopping'
  <2>1. (bail => failFast /\ HasFailures /\ testsPc \in {"case", "settle", "done"})'
    BY <1>1, <1>2, <1>15
  <2>2. (IF bail THEN position = Len(order) + 1
         ELSE position <= Len(order) + 1 /\ Len(cases[at].results) = position - 1)'
    <3>1. cases'[at'].results = q /\ Len(q) = position
      BY <1>1, <1>4, <1>7, <1>12, <1>13, <1>14
    <3> QED BY <1>1, <1>2, <1>4, <1>5, <3>1
  <2>3. failFast => \A s \in DOMAIN cases : PassedWhole(cases[s])
    BY <1>4, <1>7 DEF Stopping
  <2>4. failFast => PassedUpTo(suite, Len(q) - 1) /\ (Status(result) = "pass" => PassedWhole(suite))
    <3>1. SUFFICES ASSUME failFast
                   PROVE  PassedUpTo(suite, Len(q) - 1) /\ (Status(result) = "pass" => PassedWhole(suite))
      OBVIOUS
    <3>3. \A k \in 1 .. Len(r) : Status(q[k].result) = "pass"
      BY <1>12, <1>5, <2>3, <3>1 DEF PassedWhole, PassedUpTo, r
    <3> QED BY <1>13, <3>3, <1>12, <1>10 DEF PassedUpTo, PassedWhole
  <2>5. failFast' => \A s \in DOMAIN cases' : IF bail' /\ s = Len(cases')
                                       THEN \/ cases'[s].error # "none"
                                            \/ PassedUpTo(cases'[s], Len(cases'[s].results) - 1)
                                       ELSE PassedWhole(cases'[s])
    BY <1>1, <1>2, <1>4, <1>13, <1>14, <2>3, <2>4
  <2>6. \A s \in DOMAIN cases' : s = at' \/ AllRun(files'[s], cases'[s])
    BY <1>1, <1>4, <1>7, <1>14 DEF Stopping
  <2>7. testsPc' = "case"
    BY <1>1
  <2>8. strict' = strict
    BY <1>1
  <2> QED BY ONLY <2>1, <2>2, <2>5, <2>6, <2>7, <2>8 DEF Stopping, PassedWhole, PassedUpTo, AllRun, Status
<1>23. Noting'
  BY <1>1, <1>3, CaseWarns
<1> QED BY <1>17, <1>18, <1>21, <1>22, <1>23 DEF TestsInv

LEMMA SuiteEndKeeps ==
  ASSUME TestsInv, SuiteEnd
  PROVE  TestsInv'
<1>1. /\ testsPc = "case" /\ position > Len(order) /\ NextFile(bail)
      /\ UNCHANGED <<files, failFast, strict, order, position, summary, cases, completed, bail, warned, used, notes>>
  BY DEF SuiteEnd, options, transport
<1>2. IF bail \/ at = Len(files) THEN testsPc' = "settle" /\ at' = at ELSE testsPc' = "parse" /\ at' = at + 1
  BY <1>1 DEF NextFile
<1>3. /\ RunnerTyped /\ Planning /\ Accounting /\ Stopping /\ Noting
      /\ Len(files) \in Nat \ {0} /\ at \in 1 .. Len(files) /\ Len(cases) = at /\ bail \in BOOLEAN
  BY <1>1, FilesGiven DEF TestsInv, RunnerTyped
<1>6. Accounting' BY <1>1, <1>3, <1>2 DEF Accounting, SuiteRight, Broken, Cyclic, CompletedIn
<1>7. ~bail => AllRun(files[at], cases[at])
  BY <1>1, PlanIsComplete, <1>3, LenProperties DEF AllRun, File, Stopping, RunnerTyped
<1>8. Stopping'
  <2>1. failFast' => \A s \in DOMAIN cases' : IF bail' /\ s = Len(cases')
                                       THEN \/ cases'[s].error # "none"
                                            \/ PassedUpTo(cases'[s], Len(cases'[s].results) - 1)
                                       ELSE PassedWhole(cases'[s])
    BY <1>1, <1>3 DEF Stopping
  <2>2. ~bail' => \A s \in DOMAIN cases' : AllRun(files'[s], cases'[s])
    BY <1>1, <1>3, <1>7 DEF Stopping
  <2>3. bail' => failFast' /\ HasFailures' /\ testsPc' \in {"case", "settle", "done"}
    BY <1>1, <1>2, <1>3 DEF Stopping, HasFailures
  <2>4. testsPc' # "case" /\ (testsPc' \in {"settle", "done"} /\ ~bail' => at' = Len(files'))
    BY <1>1, <1>2, <1>3
  <2>5. strict' = strict
    BY <1>1
  <2> QED BY ONLY <2>1, <2>2, <2>3, <2>4, <2>5 DEF Stopping, PassedWhole, PassedUpTo, AllRun, Status
<1>9. Noting'
  BY <1>1, <1>2, <1>3 DEF Noting, WarnedOnce, Warning
<1> QED BY <1>1, <1>2, <1>3, <1>6, <1>8, <1>9 DEF TestsInv, Planning, RunnerTyped

LEMMA SettleKeeps ==
  ASSUME TestsInv, Settle
  PROVE  TestsInv'
<1> DEFINE last == [kind |-> "unused", hosts |-> Unused]
<1>1. /\ testsPc = "settle" /\ testsPc' = "done"
      /\ notes' = notes \/ notes' = Append(notes, last)
      /\ UNCHANGED <<files, failFast, strict, at, order, position, summary, cases, completed, bail, warned, used>>
  BY DEF Settle, options
<1>3. Accounting'
  BY <1>1 DEF TestsInv, Accounting, SuiteRight, Broken, Cyclic, CompletedIn
<1>4. Stopping'
  BY <1>1 DEF TestsInv, Stopping, PassedWhole, PassedUpTo, AllRun, Status, HasFailures
<1>5. Noting'
  <2>1. notes \in Seq(Note) /\ (\A i, j \in DOMAIN notes : notes[i] = notes[j] => i = j)
        /\ \A i \in DOMAIN notes : notes[i].kind = "cleartext" /\ \E h \in warned : notes[i] = Warning(h)
    BY <1>1 DEF TestsInv, Noting, WarnedOnce
  <2>2. CASE notes' = notes
    BY <1>1, <2>1, <2>2 DEF Noting, WarnedOnce, Warning
  <2>3. CASE notes' = Append(notes, last)
    <3>1. last \in Note /\ last.kind = "unused" /\ last.hosts \intersect used' = {}
      BY <1>1, TestAssumption DEF Note, Unused
    <3> HIDE DEF last
    <3>2. /\ notes' \in Seq(Note) /\ Len(notes') = Len(notes) + 1 /\ notes'[Len(notes) + 1] = last
          /\ \A i \in 1 .. Len(notes) : notes'[i] = notes[i]
      BY <2>1, <2>3, <3>1, AppendProperties
    <3>4. \A i \in DOMAIN notes' : \/ i \in DOMAIN notes /\ notes'[i] = notes[i]
                                   \/ i = Len(notes) + 1 /\ notes'[i] = last BY <3>2, <2>1, LenProperties
    <3> QED BY <1>1, <3>2, <2>1, <3>1, <3>4 DEF Noting, Warning, WarnedOnce
  <2> QED BY <1>1, <2>2, <2>3
<1> QED BY <1>1, <1>3, <1>4, <1>5 DEF TestsInv, RunnerTyped, Planning

LEMMA TestsKeep == TestsInv /\ [TestsNext]_testsVars => TestsInv'
<1> SUFFICES ASSUME TestsInv, [TestsNext]_testsVars
             PROVE  TestsInv'
  OBVIOUS
<1>1. CASE ParseError \/ PlanError \/ BuildError
  BY <1>1, RefusalsKeep
<1>2. CASE TestsParse
  BY <1>2, TestsParseKeeps
<1>3. CASE Place
  BY <1>3, PlaceKeeps
<1>4. CASE Planned
  BY <1>4, PlannedKeeps
<1>5. CASE TestsBuild
  BY <1>5, TestsBuildKeeps
<1>6. CASE Case
  BY <1>6, CaseKeeps
<1>7. CASE SuiteEnd
  BY <1>7, SuiteEndKeeps
<1>8. CASE Settle
  BY <1>8, SettleKeeps
<1>9. CASE UNCHANGED testsVars
  <2>1. UNCHANGED <<files, failFast, strict, at, testsPc, remaining, order, position, summary, cases, completed,
                    bail, warned, used, notes>>
    BY <1>9 DEF testsVars
  <2>3. Planning' BY <2>1 DEF TestsInv, Planning, Broken, File, ToSet, Deps, PlacedRight
  <2>4. Accounting'
    BY <2>1 DEF TestsInv, Accounting, SuiteRight, Broken, Cyclic, CompletedIn, ToSet
  <2>5. Stopping'
    BY <2>1 DEF TestsInv, Stopping, PassedWhole, PassedUpTo, AllRun, Status, HasFailures
  <2>6. Noting'
    BY <2>1 DEF TestsInv, Noting, WarnedOnce, Warning
  <2> QED BY <2>1, <2>3, <2>4, <2>5, <2>6 DEF TestsInv, RunnerTyped
<1> QED BY <1>1, <1>2, <1>3, <1>4, <1>5, <1>6, <1>7, <1>8, <1>9 DEF TestsNext

LEMMA SuitesFollow == TestsInv => SuitesGoAsPlanned
<1> SUFFICES ASSUME TestsInv
             PROVE  SuitesGoAsPlanned
  OBVIOUS
<1>1. /\ RunnerTyped /\ Planning /\ Accounting /\ Stopping /\ WarnedOnce
      /\ Len(files) \in Nat \ {0} /\ at \in DOMAIN files /\ at \in Nat /\ DOMAIN cases = 1 .. Len(cases)
  BY FilesGiven, LenProperties DEF TestsInv, RunnerTyped, Noting
<1>4. RefusedOnlyIfNeeded
  BY <1>1 DEF RefusedOnlyIfNeeded, Accounting, SuiteRight
<1>5. DependenciesCompleted
  BY <1>1 DEF DependenciesCompleted, Accounting, SuiteRight, CompletedIn
<1>6. FailFastExactly
  <2>1. SUFFICES ASSUME testsPc = "done"
                 PROVE  FailFastExactly
    BY DEF FailFastExactly
  <2>2. Len(cases) = at /\ Len(cases) \in Nat
    BY <1>1, <2>1 DEF RunnerTyped
  <2>3. \A s \in 1 .. Len(cases) : Len(cases[s].results) \in Nat /\ DOMAIN cases[s].results = 1 .. Len(cases[s].results)
    BY <1>1, ElementOfSeq, LenProperties DEF SuiteResult, RunnerTyped
  <2>4. ASSUME failFast
        PROVE  LET last == cases[Len(cases)] IN
               /\ \A s \in 1 .. Len(cases) - 1 : cases[s].error = "none"
                     /\ \A k \in DOMAIN cases[s].results : Status(cases[s].results[k].result) = "pass"
               /\ last.error = "none" =>
                    \A k \in 1 .. Len(last.results) - 1 : Status(last.results[k].result) = "pass"
    <3>1. ASSUME NEW s \in 1 .. Len(cases) - 1
          PROVE  cases[s].error = "none" /\ \A k \in DOMAIN cases[s].results : Status(cases[s].results[k].result) = "pass"
      <4>1. s \in 1 .. Len(cases) /\ s # Len(cases)
        BY <2>2
      <4> QED BY <2>3, <4>1, <1>1, <2>4 DEF PassedWhole, PassedUpTo, Stopping
    <3> DEFINE last == cases[Len(cases)]
    <3>2. ASSUME last.error = "none", NEW k \in 1 .. Len(last.results) - 1
          PROVE  Status(last.results[k].result) = "pass"
      <4>1. Len(cases) \in 1 .. Len(cases)
        BY <1>1, <2>2
      <4> QED BY <1>1, <2>4, <3>2, <4>1, <2>3 DEF PassedWhole, PassedUpTo, Stopping
    <3> QED BY <3>1, <3>2
  <2>5. ASSUME ~(HasFailures /\ failFast)
        PROVE  /\ Len(cases) = Len(files)
               /\ \A s \in DOMAIN cases : cases[s].error = "none" =>
                    Len(cases[s].results) = Cardinality(files[s].selected)
    BY <1>1, <2>1, <2>2, <2>5 DEF Stopping, AllRun
  <2> QED BY <2>4, <2>5 DEF FailFastExactly
<1> QED
  BY <1>1, PlanIsComplete, <1>4, <1>5, <1>6 DEF SuitesGoAsPlanned, TestTypeOK, RunnerTyped, Planning, Accounting,
     PlanInOrder, PlacedRight

\* Whatever files, selections, dependencies, results and hosts there are: plans are in the
\* order of the dependencies, only what cannot be planned is refused, a case runs after what
\* it depends on has completed, the command stops at a failure only if it is to, and a host
\* is warned about once (run_test_suite, plan_workflow_ids).
THEOREM SuitesAreTold == TestsSpec => []SuitesGoAsPlanned
<1>1. TestsSpec => []TestsInv
  BY TestsBegin, TestsKeep, PTL DEF TestsSpec
<1> QED BY <1>1, SuitesFollow, PTL

-----------------------------------------------------------------------------
(***************************************************************************)
(* The reports.  As many lines are written as cases are counted and suites *)
(* are refused, and as many of them of each status as are counted of it.   *)
(***************************************************************************)
Statuses == {"pass", "fail", "error"}
RefusedSuites == {s \in DOMAIN cases : cases[s].error # "none"}

Counted(S, n) == IsFiniteSet(S) /\ Cardinality(S) = n
CountInv ==
  /\ Counted(TapLines, summary.tests + summary.suites)
  /\ \A status \in Statuses : Counted(Cases(status), summary[status])
  /\ Counted(RefusedSuites, summary.suites)
  /\ summary.tests = summary.pass + summary.fail + summary.error

LEMMA CountOne ==
  ASSUME NEW S, NEW n \in Nat, Counted(S, n), NEW x, x \notin S
  PROVE  Counted(S \union {x}, n + 1)
  BY FS_AddElement DEF Counted

\* The lines of one suite, and its cases of a status.
SuiteLines(suite) == IF suite.error # "none" THEN {0} ELSE DOMAIN suite.results
CasesOf(suite, status) == {k \in DOMAIN suite.results : Status(suite.results[k].result) = status}

\* A line is of a suite.
LEMMA PlacesOf ==
  ASSUME NEW D, NEW F
  PROVE  \A l : l \in UNION {{s} \X F[s] : s \in D} <=> \E s \in D : \E k \in F[s] : l = <<s, k>>
<1>1. \A l : l \in UNION {{s} \X F[s] : s \in D} <=> \E s \in D : l \in {s} \X F[s]
  <2> DEFINE G(s) == {s} \X F[s]
  <2> HIDE DEF G
  <2> QED BY DEF G
<1>2. \A s, l : l \in {s} \X F[s] <=> \E k \in F[s] : l = <<s, k>>
  OBVIOUS
<1> QED BY ONLY <1>1, <1>2

LEMMA ByPlaces ==
  /\ \A l : l \in TapLines <=> \E s \in DOMAIN cases : \E k \in SuiteLines(cases[s]) : l = <<s, k>>
  /\ \A status, l : l \in Cases(status) <=> \E s \in DOMAIN cases : \E k \in CasesOf(cases[s], status) : l = <<s, k>>
<1>1. \A l : l \in TapLines <=> \E s \in DOMAIN cases : \E k \in SuiteLines(cases[s]) : l = <<s, k>>
  <2> DEFINE D == DOMAIN cases
  <2> DEFINE F == [s \in D |-> SuiteLines(cases[s])]
  <2>1. TapLines = UNION {{s} \X SuiteLines(cases[s]) : s \in D}
    BY DEF TapLines, SuiteLines
  <2>2. \A s \in D : F[s] = SuiteLines(cases[s])
    OBVIOUS
  <2> HIDE DEF F, D
  <2> QED BY <2>2, <2>1, PlacesOf DEF D
<1>2. ASSUME NEW status, NEW l
      PROVE  l \in Cases(status) <=> \E s \in DOMAIN cases : \E k \in CasesOf(cases[s], status) : l = <<s, k>>
  <2> DEFINE D == DOMAIN cases
  <2> DEFINE F == [s \in D |-> CasesOf(cases[s], status)]
  <2>2. \A s \in D : F[s] = CasesOf(cases[s], status)
    OBVIOUS
  <2> HIDE DEF F, D
  <2> QED BY <2>2, PlacesOf DEF D, Cases, CasesOf
<1> QED BY <1>1, <1>2

LEMMA ByPlacesPrimed ==
  ASSUME strict' = strict
  PROVE  /\ \A l : l \in TapLines' <=> \E s \in DOMAIN cases' : \E k \in SuiteLines(cases'[s]) : l = <<s, k>>
         /\ \A status, l : l \in Cases(status)' <=>
                             \E s \in DOMAIN cases' : \E k \in CasesOf(cases'[s], status) : l = <<s, k>>
<1>1. (/\ \A l : l \in TapLines <=> \E s \in DOMAIN cases : \E k \in SuiteLines(cases[s]) : l = <<s, k>>
       /\ \A status, l : l \in Cases(status) <=>
                           \E s \in DOMAIN cases : \E k \in CasesOf(cases[s], status) : l = <<s, k>>)'
  BY ByPlaces, PTL
<1> QED BY <1>1 DEF SuiteLines, CasesOf, Status

LEMMA CountingStarts == TestsInit => CountInv
<1> SUFFICES ASSUME TestsInit
             PROVE  CountInv
  OBVIOUS
<1>1. cases = << >> /\ summary = [tests |-> 0, pass |-> 0, fail |-> 0, error |-> 0, suites |-> 0]
  BY DEF TestsInit
<1>3. TapLines = {} /\ RefusedSuites = {} /\ \A status \in Statuses : Cases(status) = {}
  BY <1>1 DEF TapLines, RefusedSuites, Cases
<1>5. /\ summary.tests + summary.suites = 0 /\ summary.suites = 0
      /\ summary.tests = summary.pass + summary.fail + summary.error
      /\ \A status \in Statuses : summary[status] = 0
  BY <1>1 DEF Statuses
<1> QED BY <1>3, FS_EmptySet, <1>5 DEF CountInv, Counted

\* A suite that is refused is one line more, and no case.
LEMMA RefusalCounts ==
  ASSUME TestsInv, CountInv, testsPc \in {"parse", "plan", "build"}, NEW error \in SuiteErrors \ {"none"},
         SuiteError(error)
  PROVE  CountInv'
<1> DEFINE suite == [error |-> error, results |-> << >>]
<1> DEFINE n == Len(cases) + 1
<1>1. summary' = [summary EXCEPT !.suites = @ + 1] /\ cases' = Append(cases, suite) /\ strict' = strict
  BY DEF SuiteError, options
<1>2. RunnerTyped /\ summary \in Totals
  BY DEF TestsInv, RunnerTyped
<1>3. /\ suite \in SuiteResult /\ SuiteLines(suite) = {0} /\ suite.error # "none"
      /\ \A status : CasesOf(suite, status) = {}
  BY DEF SuiteResult, SuiteLines, CasesOf
<1> HIDE DEF suite
<1>4. /\ DOMAIN cases = 1 .. Len(cases) /\ Len(cases) \in Nat /\ DOMAIN cases' = 1 .. n
      /\ cases'[n] = suite /\ \A s \in DOMAIN cases : cases'[s] = cases[s]
  BY <1>1, <1>2, <1>3, OneMoreSuite
<1>5. n \notin DOMAIN cases /\ \A s : s \in DOMAIN cases' <=> s \in DOMAIN cases \/ s = n
  BY <1>4
<1> HIDE DEF n
<1>6. /\ \A l : l \in TapLines' <=> \E s \in DOMAIN cases' : \E k \in SuiteLines(cases'[s]) : l = <<s, k>>
      /\ \A status, l : l \in Cases(status)' <=>
                          \E s \in DOMAIN cases' : \E k \in CasesOf(cases'[s], status) : l = <<s, k>>
  BY <1>1, ByPlacesPrimed
<1>7. TapLines' = TapLines \union {<<n, 0>>} /\ <<n, 0>> \notin TapLines
  BY <1>3, <1>4, <1>5, <1>6, ByPlaces
<1>8. ASSUME NEW status \in Statuses
      PROVE  Cases(status)' = Cases(status)
  <2>1. \A l : l \in Cases(status)' <=> l \in Cases(status)
    BY <1>3, <1>4, <1>5, <1>6, ByPlaces
  <2> QED BY <2>1
<1>9. RefusedSuites' = RefusedSuites \union {n} /\ n \notin RefusedSuites
  BY <1>3, <1>4, <1>5 DEF RefusedSuites
<1>10. /\ summary.tests \in Nat /\ summary.suites \in Nat
       /\ summary'.suites = summary.suites + 1 /\ summary'.tests = summary.tests
       /\ summary'.pass = summary.pass /\ summary'.fail = summary.fail /\ summary'.error = summary.error
       /\ \A status \in Statuses : summary'[status] = summary[status]
  BY <1>1, <1>2 DEF Totals, Statuses
<1>14. summary'.tests = summary'.pass + summary'.fail + summary'.error
  BY <1>10 DEF CountInv
<1> QED BY <1>7, <1>10, CountOne, <1>9, <1>8, <1>14 DEF CountInv, Counted

\* A suite that is begun has no line yet.
LEMMA BuildCounts ==
  ASSUME TestsInv, CountInv, TestsBuild
  PROVE  CountInv'
<1> DEFINE suite == [error |-> "none", results |-> << >>]
<1> DEFINE n == Len(cases) + 1
<1>1. summary' = summary /\ cases' = Append(cases, suite) /\ strict' = strict
  BY DEF TestsBuild, options
<1>3. /\ suite \in SuiteResult /\ SuiteLines(suite) = {} /\ suite.error = "none"
      /\ \A status : CasesOf(suite, status) = {}
  BY DEF SuiteResult, SuiteLines, CasesOf, SuiteErrors
<1> HIDE DEF suite
<1>4. /\ DOMAIN cases' = 1 .. n /\ DOMAIN cases = 1 .. Len(cases) /\ Len(cases) \in Nat
      /\ cases'[n] = suite /\ \A s \in DOMAIN cases : cases'[s] = cases[s] BY <1>1, <1>3, OneMoreSuite DEF TestsInv
<1>5. n \notin DOMAIN cases /\ \A s : s \in DOMAIN cases' <=> s \in DOMAIN cases \/ s = n
  BY <1>4
<1> HIDE DEF n
<1>6. /\ \A l : l \in TapLines' <=> \E s \in DOMAIN cases' : \E k \in SuiteLines(cases'[s]) : l = <<s, k>>
      /\ \A status, l : l \in Cases(status)' <=>
                          \E s \in DOMAIN cases' : \E k \in CasesOf(cases'[s], status) : l = <<s, k>>
  BY <1>1, ByPlacesPrimed
<1>7. TapLines' = TapLines
  <2>1. \A l : l \in TapLines' <=> l \in TapLines
    BY <1>3, <1>4, <1>5, <1>6, ByPlaces
  <2> QED BY <2>1
<1>8. ASSUME NEW status \in Statuses
      PROVE  Cases(status)' = Cases(status)
  <2>1. \A l : l \in Cases(status)' <=> l \in Cases(status)
    BY <1>3, <1>4, <1>5, <1>6, ByPlaces
  <2> QED BY <2>1
<1> QED BY <1>1, <1>7, <1>8, <1>3, <1>4, <1>5 DEF CountInv, Counted, RefusedSuites

\* A case is a line more, and a case more of the status it has.
LEMMA CaseCounts ==
  ASSUME TestsInv, CountInv, Case
  PROVE  CountInv'
<1> DEFINE r == cases[at].results
<1>1. testsPc = "case" /\ UNCHANGED <<files, failFast, strict, at, testsPc, remaining, order>>
  BY DEF Case, options
<1>2. PICK result \in TestsResults(order[position]) :
        /\ cases' = [cases EXCEPT ![at].results = Append(@, [workflow |-> order[position], result |-> result])]
        /\ Count(Status(result))
  BY DEF Case
<1> DEFINE x == [workflow |-> order[position], result |-> result]
<1> DEFINE q == Append(r, x)
<1> DEFINE suite == [cases[at] EXCEPT !.results = q]
<1>3. /\ cases \in Seq(SuiteResult) /\ summary \in Totals /\ at \in Nat /\ Len(cases) = at /\ at \in 1 .. Len(files)
      /\ cases[at].error = "none"
  BY <1>1, FilesGiven DEF TestsInv, RunnerTyped, Accounting
<1>4. DOMAIN cases = 1 .. at /\ at \in DOMAIN cases /\ cases[at] \in SuiteResult
  BY <1>3, LenProperties, ElementOfSeq
<1>5. cases' = [cases EXCEPT ![at] = suite]
  BY <1>2
<1>6. x \in CaseResult /\ x.result = result /\ Status(result) \in Statuses /\ Status(result)' = Status(result)
  BY LenProperties, ElementOfSeq, <1>1 DEF CaseResult, TestsResults, CaseResults, Case, TestsInv, RunnerTyped,
     Status, Statuses
<1> HIDE DEF x
<1> DEFINE n == Len(r) + 1
<1>7. /\ r \in Seq(CaseResult) /\ Len(r) \in Nat /\ DOMAIN r = 1 .. Len(r) /\ DOMAIN q = 1 .. n
      /\ q[n] = x /\ \A k \in DOMAIN r : q[k] = r[k]
  <2>1. r \in Seq(CaseResult)
    BY <1>4 DEF SuiteResult
  <2> HIDE DEF r
  <2> QED BY <1>6, <2>1, OneMoreResult
<1> HIDE DEF q
<1>8. n \notin DOMAIN r /\ \A k : k \in DOMAIN q <=> k \in DOMAIN r \/ k = n
  BY <1>7
<1>9. suite.error = "none" /\ suite.results = q
  BY <1>3, <1>4 DEF SuiteResult
<1> HIDE DEF suite, n
<1>10. DOMAIN cases' = DOMAIN cases /\ cases'[at] = suite /\ \A s \in DOMAIN cases : s # at => cases'[s] = cases[s]
  BY <1>3, <1>4, <1>5
<1>11. SuiteLines(cases[at]) = DOMAIN r /\ SuiteLines(suite) = DOMAIN r \union {n}
  BY <1>3, <1>8, <1>9 DEF SuiteLines
<1>12. ASSUME NEW status
       PROVE  CasesOf(suite, status) = CasesOf(cases[at], status) \union (IF Status(result) = status THEN {n} ELSE {})
  <2>1. CasesOf(cases[at], status) = {k \in DOMAIN r : Status(r[k].result) = status}
        /\ CasesOf(suite, status) = {k \in DOMAIN q : Status(q[k].result) = status}
    BY <1>9 DEF CasesOf
  <2> HIDE DEF r
  <2> QED BY <1>6, <1>7, <1>8, <2>1
<1> HIDE DEF r
<1>13. /\ \A l : l \in TapLines' <=> \E s \in DOMAIN cases' : \E k \in SuiteLines(cases'[s]) : l = <<s, k>>
       /\ \A status, l : l \in Cases(status)' <=>
                           \E s \in DOMAIN cases' : \E k \in CasesOf(cases'[s], status) : l = <<s, k>>
  BY <1>1, ByPlacesPrimed
<1>14. TapLines' = TapLines \union {<<at, n>>} /\ <<at, n>> \notin TapLines
  BY <1>4, <1>10, <1>11, <1>13, ByPlaces, <1>8
<1>15. ASSUME NEW status \in Statuses
       PROVE  Cases(status)' = Cases(status) \union (IF Status(result) = status THEN {<<at, n>>} ELSE {})
  BY <1>4, <1>10, <1>12, <1>13, ByPlaces
<1>16. ASSUME NEW status
       PROVE  <<at, n>> \notin Cases(status) BY <1>8, ByPlaces DEF CasesOf, r
<1>17. RefusedSuites' = RefusedSuites BY <1>10, <1>3, <1>9 DEF RefusedSuites
<1>18. /\ summary.tests \in Nat /\ summary.suites \in Nat /\ summary'.suites = summary.suites
       /\ summary'.tests = summary.tests + 1
       /\ \A status \in Statuses : summary[status] \in Nat
            /\ summary'[status] = summary[status] + (IF Status(result) = status THEN 1 ELSE 0)
  <2> DEFINE once == [summary EXCEPT !.tests = @ + 1]
  <2>1. once \in Totals /\ once.tests = summary.tests + 1
        /\ once.suites = summary.suites /\ once.pass = summary.pass /\ once.fail = summary.fail
        /\ once.error = summary.error
    BY <1>3 DEF Totals
  <2>2. summary' = [once EXCEPT ![Status(result)] = @ + 1]
    BY <1>2, <1>3, <1>6 DEF Count, Statuses, Totals
  <2> HIDE DEF once
  <2> QED BY <1>3, <1>6, <2>1, <2>2 DEF Totals, Statuses
<1>20. ASSUME NEW status \in Statuses
       PROVE  Counted(Cases(status)', summary'[status])
  <2>1. Counted(Cases(status), summary[status]) /\ summary[status] \in Nat
    BY <1>18 DEF CountInv
  <2>2. CASE Status(result) = status BY <1>16, <2>1, <1>15, <1>18, <2>2, CountOne
  <2>3. CASE Status(result) # status
    <3>3. Cases(status)' = Cases(status) /\ summary'[status] = summary[status] BY <2>1, <1>15, <2>3, <1>18
    <3> QED BY <2>1, <3>3
  <2> QED BY <2>2, <2>3
<1>21. summary'.tests = summary'.pass + summary'.fail + summary'.error BY <1>18, <1>6 DEF CountInv, Statuses
<1> QED BY <1>14, <1>18, CountOne, <1>20, <1>21, <1>17 DEF CountInv, Counted

LEMMA CountsKeep == TestsInv /\ CountInv /\ [TestsNext]_testsVars => CountInv'
<1> SUFFICES ASSUME TestsInv, CountInv, [TestsNext]_testsVars
             PROVE  CountInv'
  OBVIOUS
<1>1. ASSUME testsPc \in {"parse", "plan", "build"}, NEW error \in {"parse", "dependency", "cycle", "build"},
             SuiteError(error)
      PROVE  CountInv'
  BY <1>1, RefusalCounts DEF SuiteErrors
<1>2. CASE ParseError \/ PlanError \/ BuildError
  BY <1>1, <1>2 DEF ParseError, PlanError, BuildError
<1>3. CASE TestsBuild
  BY <1>3, BuildCounts
<1>4. CASE Case
  BY <1>4, CaseCounts
<1>5. CASE UNCHANGED <<cases, summary, strict>>
  BY <1>5 DEF CountInv, Counted, TapLines, RefusedSuites, Cases, Status
<1> QED BY <1>2, <1>3, <1>4, <1>5 DEF TestsNext, TestsParse, Place, Planned, SuiteEnd, Settle, testsVars, options

\* What is counted is not nothing exactly if there is one.
LEMMA CountedSome ==
  ASSUME NEW S, NEW n \in Nat, Counted(S, n)
  PROVE  n > 0 <=> \E x : x \in S
  BY FS_EmptySet DEF Counted

LEMMA ReportsFollow == TestsInv /\ CountInv => ReportsAgree
<1> SUFFICES ASSUME TestsInv, CountInv
             PROVE  ReportsAgree
  OBVIOUS
<1>1. /\ DOMAIN Tap = TapLines /\ Cardinality(TapLines) = TapPlan
      /\ Cardinality(Cases("fail")) = summary.fail /\ Cardinality(Cases("error")) = summary.error
      /\ summary.tests = summary.pass + summary.fail + summary.error
  BY DEF Tap, TapPlan, CountInv, Counted, Statuses
<1>2. ASSUME NEW s \in DOMAIN cases, NEW k \in SuiteLines(cases[s])
      PROVE  /\ <<s, k>> \in TapLines
             /\ Tap[<<s, k>>] = "not ok" <=> ~(cases[s].error = "none" /\ Status(cases[s].results[k].result) = "pass")
  BY ByPlaces DEF Tap
<1>3. /\ summary.fail > 0 <=> \E l : l \in Cases("fail")
      /\ summary.error > 0 <=> \E l : l \in Cases("error")
      /\ summary.suites > 0 <=> \E s : s \in RefusedSuites
  BY CountedSome DEF TestsInv, RunnerTyped, Totals, CountInv, Statuses
<1>5. ASSUME NEW status \in {"fail", "error"}, NEW l \in Cases(status)
      PROVE  \E m \in DOMAIN Tap : Tap[m] = "not ok"
  <2>1. PICK s \in DOMAIN cases : \E k \in CasesOf(cases[s], status) : l = <<s, k>>
    BY ByPlaces
  <2>2. PICK k \in DOMAIN cases[s].results : Status(cases[s].results[k].result) = status
    BY <2>1 DEF CasesOf
  <2>3. cases[s].error = "none" /\ k \in SuiteLines(cases[s])
    BY <2>2 DEF SuiteLines, TestsInv, Accounting, SuiteRight
  <2> QED BY <1>1, <1>2, <2>2, <2>3
<1>6. ASSUME NEW s \in RefusedSuites
      PROVE  \E m \in DOMAIN Tap : Tap[m] = "not ok" BY <1>1, <1>2 DEF RefusedSuites, SuiteLines
<1>7. ASSUME NEW l \in TapLines, Tap[l] = "not ok"
      PROVE  HasFailures
  <2>1. PICK s \in DOMAIN cases : \E k \in SuiteLines(cases[s]) : l = <<s, k>>
    BY ByPlaces
  <2>2. PICK k \in SuiteLines(cases[s]) : l = <<s, k>>
    BY <2>1
  <2>3. CASE cases[s].error # "none"
    BY <1>3, <2>3 DEF RefusedSuites, HasFailures
  <2>4. CASE cases[s].error = "none"
    <3>1. k \in DOMAIN cases[s].results /\ Status(cases[s].results[k].result) # "pass"
      BY <1>2, <1>7, <2>2, <2>4 DEF SuiteLines
    <3>2. PICK status \in {"fail", "error"} : Status(cases[s].results[k].result) = status
      BY <3>1 DEF Status
    <3>3. <<s, k>> \in Cases(status)
      BY <3>1, <3>2, ByPlaces DEF CasesOf
    <3> QED BY <1>3, <3>2, <3>3 DEF HasFailures
  <2> QED BY <2>3, <2>4
<1> QED BY <1>1, <1>3, <1>5, <1>6, <1>7 DEF ReportsAgree, HasFailures, JunitTotals

\* Whatever the test command was given: what SuitesAreTold says, and both reports have the
\* summary's counts and the exit status says whether one of their lines is not ok
\* (format_tap, format_junit, TestSummary).
THEOREM TestsAreTold == TestsSpec => []TestsTellTruth
<1>1. TestsInit => TestsInv /\ CountInv
  BY TestsBegin, CountingStarts
<1>2. TestsSpec => [](TestsInv /\ CountInv)
  BY <1>1, TestsKeep, CountsKeep, PTL DEF TestsSpec
<1>3. TestsInv /\ CountInv => TestsTellTruth
  BY SuitesFollow, ReportsFollow DEF TestsTellTruth
<1> QED BY <1>2, <1>3, PTL

\* The two commands share nothing: beside each other, each tells the truth about its own
\* suites and its own run (run_test_suite, run_workflow).
THEOREM ReportsAreTold == TestsSpec /\ RunSpec => []ReportsTellTruth
<1>1. TestsTellTruth /\ RunTellsTruth => ReportsTellTruth
  BY DEF ReportsTellTruth
<1> QED BY <1>1, TestsAreTold, RunIsTold, PTL
=============================================================================
