------------------------- MODULE WorkflowEngineProofs -------------------------
(***************************************************************************)
(* Proofs about the sequential scheduler, for every document, call depth   *)
(* and set of completion evidence.                                         *)
(***************************************************************************)
EXTENDS WorkflowEngine, FiniteSetTheorems, WellFoundedInduction

\* Every workflow of a document the engine is built from is regular.
LEMMA DocumentsRegular ==
  \A d \in Documents : \A w \in Workflows : Regular(d[w])
BY DocumentsAssumption DEF WellFormed

-----------------------------------------------------------------------------
(***************************************************************************)
(* Type correctness.  TypeOK is not inductive: a frame must also be where  *)
(* its location says.  Past admission its workflow is in the document and  *)
(* the call depth leaves room for a call; during an attempt its step is    *)
(* one of that workflow's.                                                 *)
(***************************************************************************)
Outside == {"idle", "enter", "return"}
Attempting == Locations \ (Outside \union {"loop", "finish"})

Placed(d, f) ==
  /\ f \in Frame
  /\ f.pc \notin Outside => d < MaxCallDepth /\ f.wf \in Workflows
  /\ f.pc \in Attempting => f.step \in DOMAIN doc[f.wf].steps

Typed == TypeOK /\ \A d \in Depths : Placed(d, frame[d])

LEMMA TopPlaced ==
  ASSUME Typed
  PROVE  /\ depth \in Depths /\ top \in Frame /\ Placed(depth, top)
         /\ top.pc \notin Outside => Regular(workflow)
<1>1. depth \in Depths /\ frame[depth] \in Frame /\ Placed(depth, frame[depth])
  BY DEF Typed, TypeOK
<1>2. doc \in Documents
  BY DEF Typed, TypeOK
<1>3. QED
  BY <1>1, <1>2, DocumentsRegular DEF top, workflow, Placed

\* The three ways a step changes the stack keep every frame in its place.
LEMMA LocalKeeps ==
  ASSUME Typed, NEW f, Placed(depth, f), Set(f), Local,
         completed' \subseteq Workflows
  PROVE  Typed'
<1>1. /\ doc' = doc /\ provided' = provided /\ depth' = depth
      /\ UNCHANGED signals /\ outcome' = outcome
  BY DEF Local, context
<1>2. f \in Frame /\ depth \in Depths /\ frame \in [Depths -> Frame]
  BY DEF Typed, TypeOK, Placed
<1>3. frame' \in [Depths -> Frame]
  BY <1>2 DEF Set
<1>4. TypeOK'
  BY <1>1, <1>3 DEF Typed, TypeOK, signals
<1>5. ASSUME NEW d \in Depths PROVE Placed(d, frame[d])'
  <2>1. frame'[d] = IF d = depth THEN f ELSE frame[d]
    BY <1>2 DEF Set
  <2>2. Placed(d, frame'[d])
    BY <2>1 DEF Typed
  <2>3. QED
    BY <1>1, <2>2 DEF Placed
<1>6. QED
  BY <1>4, <1>5 DEF Typed

LEMMA CallKeeps ==
  ASSUME Typed, top.pc \in Attempting,
         NEW w \in Targets, NEW location \in Attempting, Call(w, location)
  PROVE  Typed'
<1>1. /\ doc' = doc /\ provided' = provided /\ depth' = depth + 1
      /\ UNCHANGED signals /\ outcome' = outcome /\ completed' = completed
  BY DEF Call, context
<1>2. /\ depth \in Depths /\ frame \in [Depths -> Frame]
      /\ depth < MaxCallDepth /\ MaxCallDepth \in Nat
      /\ top = frame[depth] /\ Placed(depth, top)
  BY TopPlaced, MaxCallDepthAssumption DEF Typed, TypeOK, Placed, Attempting, top
<1>3. depth + 1 \in Depths /\ depth + 1 # depth
  BY <1>2 DEF Depths
<1>4. Placed(depth + 1, Activation(w))
  BY DEF Placed, Activation, Idle, Frame, Targets, Locations, Counts, Results,
         NoDecision, Decision, NoSite, Outside, Attempting
<1>5. Placed(depth, [top EXCEPT !.pc = location])
  BY <1>2 DEF Placed, Frame, Attempting
<1>6. ASSUME NEW d \in Depths
      PROVE  frame'[d] = IF d = depth THEN [top EXCEPT !.pc = location]
                         ELSE IF d = depth + 1 THEN Activation(w) ELSE frame[d]
  BY <1>2, <1>3 DEF Call
<1>7. ASSUME NEW d \in Depths PROVE Placed(d, frame'[d])
  BY <1>4, <1>5, <1>6 DEF Typed
<1>8. frame' \in [Depths -> Frame]
  <2>1. DOMAIN frame' = Depths /\ frame' = [d \in Depths |-> frame'[d]]
    BY <1>2 DEF Call
  <2>2. QED
    BY <2>1, <1>7 DEF Placed
<1>9. TypeOK'
  BY <1>1, <1>3, <1>8 DEF Typed, TypeOK, signals
<1>10. QED
  BY <1>1, <1>7, <1>9 DEF Typed, Placed

LEMMA ResumeKeeps ==
  ASSUME Typed, depth > 0, NEW f, Placed(depth - 1, f), ResumeWith(f),
         completed' \subseteq Workflows
  PROVE  Typed'
<1>1. /\ doc' = doc /\ provided' = provided /\ depth' = depth - 1
      /\ UNCHANGED signals /\ outcome' = outcome
  BY DEF ResumeWith, context
<1>2. /\ depth \in Depths /\ frame \in [Depths -> Frame]
      /\ MaxCallDepth \in Nat
  BY MaxCallDepthAssumption DEF Typed, TypeOK
<1>3. depth - 1 \in Depths /\ depth - 1 # depth
  BY <1>2 DEF Depths
<1>4. Placed(depth, Idle)
  BY DEF Placed, Idle, Frame, Targets, Locations, Counts, Results,
         NoDecision, Decision, NoSite, Outside, Attempting
<1>5. ASSUME NEW d \in Depths
      PROVE  frame'[d] = IF d = depth - 1 THEN f
                         ELSE IF d = depth THEN Idle ELSE frame[d]
  BY <1>2, <1>3 DEF ResumeWith
<1>6. ASSUME NEW d \in Depths PROVE Placed(d, frame'[d])
  BY <1>4, <1>5 DEF Typed
<1>7. frame' \in [Depths -> Frame]
  <2>1. DOMAIN frame' = Depths /\ frame' = [d \in Depths |-> frame'[d]]
    BY <1>2 DEF ResumeWith
  <2>2. QED
    BY <2>1, <1>6 DEF Placed
<1>8. TypeOK'
  BY <1>1, <1>3, <1>7 DEF Typed, TypeOK, signals
<1>9. QED
  BY <1>1, <1>6, <1>8 DEF Typed, Placed

\* What the steps of the engine put on the stack is in its place.
LEMMA MovePlaced ==
  ASSUME Typed, top.pc \in Attempting, NEW l \in Locations \ {"idle", "enter"}
  PROVE  Placed(depth, [top EXCEPT !.pc = l])
BY TopPlaced DEF Placed, Frame, Outside, Attempting

LEMMA EndedPlaced ==
  ASSUME NEW d, NEW f, Placed(d, f), NEW e \in Results
  PROVE  Placed(d, Ended(f, e)) /\ Placed(d, Reported(f, e))
BY DEF Placed, Frame, Ended, Reported, Outside, Attempting, Locations

LEMMA ScheduledPlaced ==
  ASSUME NEW d, NEW f, Placed(d, f), f.pc \in Attempting
  PROVE  Placed(d, Scheduled(f))
<1>1. ASSUME NEW counts \in Counts, NEW site PROVE CountRetry(counts, site) \in Counts
  <2>1. CASE site \in Sites
    BY <2>1 DEF Counts, CountRetry
  <2>2. CASE site \notin Sites
    <3>1. CountRetry(counts, site) = [s \in Sites |-> counts[s]]
      BY <2>2, Zenon DEF Counts, CountRetry
    <3>2. QED
      BY <3>1 DEF Counts
  <2>3. QED
    BY <2>1, <2>2
<1>2. QED
  BY <1>1 DEF Placed, Frame, Scheduled, Outside, Attempting, Locations

\* What recording a workflow adds is in the document.
LEMMA RecordTyped ==
  ASSUME Typed
  PROVE  /\ completed \subseteq Workflows
         /\ top.pc \notin Outside => completed \union {top.wf} \subseteq Workflows
BY TopPlaced DEF Typed, TypeOK, Placed

LEMMA ErrorsTyped == CancelError \in Results
BY DEF CancelError, Results, Errors, Cancellations

LEMMA TypedEntry ==
  ASSUME Typed, Refuse \/ FailEntry \/ Enter
  PROVE  Typed'
<1>1. /\ depth \in Depths /\ Placed(depth, top) /\ top \in Frame
      /\ completed' \subseteq Workflows /\ Local
  BY TopPlaced, RecordTyped DEF Refuse, FailEntry, Enter
<1>2. CASE Refuse
  <2>1. PICK e \in Refusal : Set(Ended(top, e))
    BY <1>2 DEF Refuse
  <2>2. e \in Results
    BY <2>1 DEF Refusal, Results, Errors
  <2>3. QED
    BY <1>1, <2>1, <2>2, EndedPlaced, LocalKeeps
<1>3. CASE FailEntry
  <2>1. PICK e \in EntryFailures : Set(Ended(Admit(top), e))
    BY <1>3 DEF FailEntry
  <2>2. e \in Results
    BY <2>1 DEF EntryFailures, Results, Errors
  <2>3. Placed(depth, Admit(top))
    BY <1>1, <1>3 DEF Placed, Frame, Admit, FailEntry, At
  <2>4. QED
    BY <1>1, <2>1, <2>2, <2>3, EndedPlaced, LocalKeeps
<1>4. CASE Enter
  <2> DEFINE f == [Admit(top) EXCEPT !.pc = "loop", !.left = MaxIterations(workflow)]
  <2>1. depth < MaxCallDepth /\ top.wf \in Workflows
    <3>1. depth \in Int /\ MaxCallDepth \in Int
      BY <1>1, MaxCallDepthAssumption DEF Depths
    <3>2. QED
      BY <1>4, <3>1 DEF Enter, Refusal
  <2>2. Placed(depth, f)
    BY <1>1, <2>1, LimitTyped
    DEF Placed, Frame, Admit, Outside, Attempting, Locations
  <2>3. Set(f)
    BY <1>4 DEF Enter
  <2>4. QED
    BY <1>1, <2>2, <2>3, LocalKeeps
<1>5. QED
  BY <1>2, <1>3, <1>4

LEMMA TypedLoop ==
  ASSUME Typed, RunOutOfIterations \/ PastLastStep \/ BeginAttempt
  PROVE  Typed'
<1>1. /\ Placed(depth, top) /\ top \in Frame /\ Local
      /\ top.pc = "loop"
  BY TopPlaced DEF RunOutOfIterations, PastLastStep, BeginAttempt, At
<1>2. completed' \subseteq Workflows
  BY <1>1, RecordTyped
  DEF RunOutOfIterations, PastLastStep, BeginAttempt, Record, Outside
<1>3. CASE RunOutOfIterations
  <2>1. "IterationLimitExceeded" \in Results
    BY DEF Results, Errors
  <2>2. QED
    BY <1>1, <1>2, <1>3, <2>1, EndedPlaced, LocalKeeps DEF RunOutOfIterations
<1>4. CASE PastLastStep
  <2>1. top.left - 1 \in Nat
    BY <1>1, <1>4 DEF PastLastStep, Frame
  <2>2. Placed(depth, [top EXCEPT !.pc = "finish", !.left = @ - 1])
    BY <1>1, <2>1 DEF Placed, Frame, Outside, Attempting, Locations
  <2>3. QED
    BY <1>1, <1>2, <1>4, <2>2, LocalKeeps DEF PastLastStep
<1>5. CASE BeginAttempt
  <2> DEFINE f == [top EXCEPT !.pc = "begun", !.left = @ - 1,
                              !.result = "none", !.decision = NoDecision]
  <2>1. top.step \in DOMAIN doc[top.wf].steps
    BY <1>5 DEF BeginAttempt, workflow
  <2>2. "none" \in Results /\ top.left - 1 \in Nat
    BY <1>1, <1>5 DEF BeginAttempt, Frame, Results
  <2>3. Placed(depth, f)
    BY <1>1, <2>1, <2>2, NoDecisionTyped
    DEF Placed, Frame, Outside, Attempting, Locations
  <2>4. QED
    BY <1>1, <1>2, <1>5, <2>3, LocalKeeps DEF BeginAttempt
<1>6. QED
  BY <1>3, <1>4, <1>5

LEMMA TypedAttempt ==
  ASSUME Typed,
         \/ StartRequest \/ StartSubWorkflow \/ Replied \/ RequestCancelled
         \/ Route \/ DelayElapsed \/ RoutingCancelled
  PROVE  Typed'
<1>1. /\ Placed(depth, top) /\ top \in Frame /\ top.pc \in Attempting
      /\ Regular(workflow) /\ top.step \in DOMAIN workflow.steps
  <2>1. top.pc \in {"begun", "request", "settled", "delay"}
    BY DEF StartRequest, StartSubWorkflow, Replied, Judged, RequestCancelled, Route,
           DelayElapsed, RoutingCancelled, At
  <2>2. QED
    BY <2>1, TopPlaced DEF Placed, Outside, Attempting, Locations, workflow
<1>2. completed \subseteq Workflows
  BY RecordTyped
<1>3. CASE StartRequest
  <2>1. "request" \in Locations \ {"idle", "enter"}
    BY DEF Locations
  <2>2. QED
    BY <1>1, <1>2, <1>3, <2>1, MovePlaced, LocalKeeps DEF StartRequest
<1>4. CASE StartSubWorkflow
  <2>1. workflow.steps[top.step].target \in Targets
    BY <1>1, ListsTyped DEF Step
  <2>2. "subcall" \in Attempting
    BY DEF Attempting, Locations, Outside
  <2>3. QED
    BY <1>1, <1>4, <2>1, <2>2, CallKeeps DEF StartSubWorkflow
<1>5. ASSUME NEW r \in Results
      PROVE  Placed(depth, [top EXCEPT !.pc = "settled", !.result = r])
  BY <1>1 DEF Placed, Frame, Outside, Attempting, Locations
<1>6. CASE Replied
  <2>1. {"ok", "SuccessCriteriaFailed", "HttpRequest"} \subseteq Results
    BY DEF Results, Errors
  <2>2. PICK r \in Results : Set([top EXCEPT !.pc = "settled", !.result = r])
    BY <1>6, <2>1 DEF Replied, Judged
  <2>3. QED
    BY <1>2, <1>5, <1>6, <2>2, LocalKeeps DEF Replied, Judged
<1>7. CASE RequestCancelled
  BY <1>2, <1>5, <1>7, ErrorsTyped, LocalKeeps DEF RequestCancelled
<1>8. ASSUME NEW dec \in Decision, NEW l \in {"delay", "act"}
      PROVE  Placed(depth, [top EXCEPT !.decision = dec, !.pc = l])
  BY <1>1 DEF Placed, Frame, Outside, Attempting, Locations
<1>9. CASE Route
  <2>1. PICK dec \in Routes(workflow, top.step, top.counts, top.result, Responded) :
          Set([top EXCEPT !.decision = dec,
                          !.pc = IF dec.waits THEN "delay" ELSE "act"])
    BY <1>9 DEF Route
  <2>2. top.counts \in Counts /\ top.result \in Results
    BY <1>1 DEF Frame
  <2>3. dec \in Decision
    BY <1>1, <2>1, <2>2, RoutesSound
  <2>4. (IF dec.waits THEN "delay" ELSE "act") \in {"delay", "act"}
    OBVIOUS
  <2>5. QED
    BY <1>2, <1>8, <1>9, <2>1, <2>3, <2>4, LocalKeeps DEF Route
<1>10. CASE DelayElapsed
  <2>1. "act" \in Locations \ {"idle", "enter"}
    BY DEF Locations
  <2>2. QED
    BY <1>1, <1>2, <1>10, <2>1, MovePlaced, LocalKeeps DEF DelayElapsed
<1>11. CASE RoutingCancelled
  <2>1. Fail(CancelError) \in Decision
    BY ErrorsTyped, NoDecisionTyped DEF Fail, Decision
  <2>2. QED
    BY <1>2, <1>8, <1>11, <2>1, LocalKeeps DEF RoutingCancelled
<1>12. QED
  BY <1>3, <1>4, <1>6, <1>7, <1>9, <1>10, <1>11

LEMMA TypedAct ==
  ASSUME Typed,
         \/ ActDone \/ ActNext \/ ActError \/ ActGotoWorkflow \/ ActPlainRetry
  PROVE  Typed'
<1>1. /\ Placed(depth, top) /\ top \in Frame /\ top.pc = "act"
      /\ top.pc \in Attempting /\ top.decision \in Decision
  <2>1. top.pc = "act"
    BY DEF ActDone, ActNext, ActError, ActGotoWorkflow, ActPlainRetry, Decided, At
  <2>2. QED
    BY <2>1, TopPlaced DEF Frame, Outside, Attempting, Locations
<1>2. /\ completed \subseteq Workflows
      /\ completed \union {top.wf} \subseteq Workflows
  BY <1>1, RecordTyped DEF Outside
<1>3. CASE ActDone
  <2>1. "finish" \in Locations \ {"idle", "enter"}
    BY DEF Locations
  <2>2. QED
    BY <1>1, <1>2, <1>3, <2>1, MovePlaced, LocalKeeps DEF ActDone
<1>4. CASE ActNext
  <2>1. top.decision.step \in Nat
    BY <1>1 DEF Decision
  <2>2. Placed(depth, [top EXCEPT !.pc = "loop", !.step = top.decision.step])
    BY <1>1, <2>1 DEF Placed, Frame, Outside, Attempting, Locations
  <2>3. QED
    BY <1>2, <1>4, <2>2, LocalKeeps DEF ActNext
<1>5. CASE ActError
  <2>1. top.decision.error \in Results
    BY <1>1 DEF Decision
  <2>2. QED
    BY <1>1, <1>2, <1>5, <2>1, EndedPlaced, LocalKeeps DEF ActError, Record
<1>6. CASE ActGotoWorkflow
  <2>1. top.decision.workflow \in Targets /\ "gotocall" \in Attempting
    BY <1>1 DEF Decision, Attempting, Locations, Outside
  <2>2. QED
    BY <1>1, <1>6, <2>1, CallKeeps DEF ActGotoWorkflow
<1>7. CASE ActPlainRetry
  BY <1>1, <1>2, <1>7, ScheduledPlaced, LocalKeeps DEF ActPlainRetry
<1>8. QED
  BY <1>3, <1>4, <1>5, <1>6, <1>7

LEMMA TypedReference ==
  ASSUME Typed,
         \/ ActReferenceWorkflow \/ ActReferenceMissing \/ ActReferenceStep
         \/ ActReferenceSubWorkflow \/ ReferenceReplied
  PROVE  Typed'
<1>1. /\ Placed(depth, top) /\ top \in Frame /\ top.pc \in Attempting
      /\ Regular(workflow) /\ top.decision \in Decision
  <2>1. top.pc \in {"act", "refrequest"}
    BY DEF ActReferenceWorkflow, ActReferenceMissing, ActReferenceStep,
           ActReferenceSubWorkflow, ReferenceReplied, Decided, At
  <2>2. QED
    BY <2>1, TopPlaced DEF Frame, Outside, Attempting, Locations
<1>2. /\ completed \subseteq Workflows
      /\ completed \union {top.wf} \subseteq Workflows
  BY <1>1, RecordTyped DEF Attempting
<1>3. {"refcall", "refsubcall", "refrequest"} \subseteq Attempting
  BY DEF Attempting, Locations, Outside
<1>4. ASSUME FailReference("RetryReferenceFailed")
      PROVE  Typed'
  <2>1. "RetryReferenceFailed" \in Results
    BY DEF Results, Errors
  <2>2. QED
    BY <1>1, <1>2, <1>4, <2>1, EndedPlaced, LocalKeeps DEF FailReference, Record
<1>5. CASE ActReferenceWorkflow
  <2>1. top.decision.workflow \in Targets
    BY <1>1 DEF Decision
  <2>2. QED
    BY <1>1, <1>3, <1>5, <2>1, CallKeeps DEF ActReferenceWorkflow
<1>6. CASE ActReferenceMissing
  BY <1>4, <1>6 DEF ActReferenceMissing
<1>7. CASE ActReferenceStep
  <2>1. "refrequest" \in Locations \ {"idle", "enter"}
    BY DEF Locations
  <2>2. QED
    BY <1>1, <1>2, <1>7, <2>1, MovePlaced, LocalKeeps DEF ActReferenceStep
<1>8. CASE ActReferenceSubWorkflow
  <2>1. workflow.steps[top.decision.step] \in Step
    BY <1>1, <1>8, ListsTyped DEF ActReferenceSubWorkflow
  <2>2. ReferenceTarget \in Targets
    BY <2>1 DEF ReferenceTarget, Step
  <2>3. QED
    BY <1>1, <1>3, <1>8, <2>2, CallKeeps DEF ActReferenceSubWorkflow
<1>9. CASE ReferenceReplied
  <2>1. CASE Set(Scheduled(top)) /\ Local /\ UNCHANGED completed
    BY <1>1, <1>2, <2>1, ScheduledPlaced, LocalKeeps
  <2>2. QED
    BY <1>4, <1>9, <2>1 DEF ReferenceReplied
<1>10. QED
  BY <1>5, <1>6, <1>7, <1>8, <1>9

LEMMA TypedEnd ==
  ASSUME Typed, RetryStep \/ Finish \/ ObserveCancel
  PROVE  Typed'
<1>1. /\ Placed(depth, top) /\ top \in Frame /\ completed \subseteq Workflows
  BY TopPlaced, RecordTyped
<1>2. CASE RetryStep
  <2>1. top.pc \in Attempting /\ "loop" \in Locations \ {"idle", "enter"}
    BY <1>2 DEF RetryStep, At, Attempting, Locations, Outside
  <2>2. QED
    BY <1>1, <1>2, <2>1, MovePlaced, LocalKeeps DEF RetryStep
<1>3. CASE Finish
  <2>1. completed' \subseteq Workflows
    BY <1>3, RecordTyped DEF Finish, At, Outside, Record
  <2>2. "ok" \in Results
    BY DEF Results
  <2>3. QED
    BY <1>1, <1>3, <2>1, <2>2, EndedPlaced, LocalKeeps DEF Finish
<1>4. CASE ObserveCancel
  BY <1>1, <1>4, ErrorsTyped, EndedPlaced, LocalKeeps DEF ObserveCancel
<1>5. QED
  BY <1>2, <1>3, <1>4

\* The frame a call returns to.
LEMMA CallerPlaced ==
  ASSUME Typed, NEW l \in Attempting, Returning(l)
  PROVE  /\ depth > 0 /\ Placed(depth - 1, Caller) /\ Caller \in Frame
         /\ Caller.pc = l /\ completed \union {Caller.wf} \subseteq Workflows
         /\ top.result \in Results
<1>1. depth > 0 /\ Caller.pc = l
  BY DEF Returning
<1>2. depth - 1 \in Depths
  BY <1>1, MaxCallDepthAssumption DEF Typed, TypeOK, Depths
<1>3. Placed(depth - 1, Caller)
  BY <1>2 DEF Typed, Caller
<1>4. Caller \in Frame /\ Caller.wf \in Workflows
  BY <1>1, <1>3 DEF Placed, Attempting
<1>5. completed \subseteq Workflows /\ top.result \in Results
  BY RecordTyped, TopPlaced DEF Frame
<1>6. QED
  BY <1>1, <1>3, <1>4, <1>5

LEMMA TypedReturn ==
  ASSUME Typed, SubWorkflowReturned \/ GotoReturned \/ ReferenceReturned
  PROVE  Typed'
<1>1. {"subcall", "gotocall", "refcall", "refsubcall"} \subseteq Attempting
  BY DEF Attempting, Locations, Outside
<1>2. CASE SubWorkflowReturned
  <2>1. PICK r \in SubWorkflowResults(top.result) :
          ResumeWith([Caller EXCEPT !.pc = "settled", !.result = r])
    BY <1>2 DEF SubWorkflowReturned
  <2>2. /\ depth > 0 /\ Placed(depth - 1, Caller) /\ Caller \in Frame
        /\ Caller.pc \in Attempting
        /\ top.result \in Results /\ completed' \subseteq Workflows
    BY <1>1, <1>2, CallerPlaced DEF SubWorkflowReturned
  <2>3. r \in Results
    BY <2>1, <2>2, ErrorsTyped DEF SubWorkflowResults, Wrapped, Results, Errors
  <2>4. Placed(depth - 1, [Caller EXCEPT !.pc = "settled", !.result = r])
    BY <2>2, <2>3 DEF Placed, Frame, Outside, Attempting, Locations
  <2>5. QED
    BY <2>1, <2>2, <2>4, ResumeKeeps
<1>3. CASE GotoReturned
  <2>1. /\ depth > 0 /\ Placed(depth - 1, Caller)
        /\ top.result \in Results /\ completed' \subseteq Workflows
    BY <1>1, <1>3, CallerPlaced DEF GotoReturned
  <2>2. Placed(depth - 1, Ended(Caller, top.result))
    BY <2>1, EndedPlaced
  <2>3. QED
    BY <1>3, <2>1, <2>2, ResumeKeeps DEF GotoReturned
<1>4. CASE ReferenceReturned
  <2>1. /\ depth > 0 /\ Placed(depth - 1, Caller) /\ Caller.pc \in Attempting
        /\ top.result \in Results /\ completed' \subseteq Workflows
    BY <1>1, <1>4, CallerPlaced DEF ReferenceReturned
  <2>2. PICK r \in Results : \/ ResumeWith(Ended(Caller, r))
                             \/ ResumeWith(Reported(Caller, r))
                             \/ ResumeWith(Scheduled(Caller))
    <3>1. ASSUME NEW r \in ReferenceResults(top.result)
          PROVE  r \in Results
      BY <2>1, <3>1 DEF ReferenceResults, Wrapped, Results, Errors
    <3>2. QED
      BY <1>4, <2>1, <3>1, ErrorsTyped DEF ReferenceReturned
  <2>3. QED
    BY <2>1, <2>2, EndedPlaced, ScheduledPlaced, ResumeKeeps
<1>5. QED
  BY <1>2, <1>3, <1>4

\* Sending the result and the other tasks leave the stack alone.
LEMMA TypedOthers ==
  ASSUME Typed,
         \/ SendResult \/ CancelHandle \/ WatchdogFlags \/ WatchdogCancels
         \/ UNCHANGED vars
  PROVE  Typed'
<1>1. /\ doc' = doc /\ provided' = provided /\ frame' = frame
      /\ depth' = depth /\ completed' = completed
  BY DEF SendResult, CancelHandle, WatchdogFlags, WatchdogCancels, vars, context
<1>2. /\ cancelled' \in BOOLEAN /\ timedOut' \in BOOLEAN
      /\ cancelRequested' \in BOOLEAN
      /\ watchdog' \in {"armed", "flagged", "fired"}
  BY DEF Typed, TypeOK, SendResult, CancelHandle, WatchdogFlags,
         WatchdogCancels, vars, signals
<1>3. outcome' \in Results
  <2>1. CASE SendResult
    BY <2>1, TopPlaced DEF SendResult, Frame
  <2>2. CASE ~SendResult
    BY <2>2 DEF Typed, TypeOK, CancelHandle, WatchdogFlags, WatchdogCancels, vars
  <2>3. QED
    BY <2>1, <2>2
<1>4. TypeOK'
  BY <1>1, <1>2, <1>3 DEF Typed, TypeOK
<1>5. QED
  BY <1>1, <1>4 DEF Typed, Placed

LEMMA TypedInit == ASSUME Init PROVE Typed
<1>1. 0 \in Depths
  BY MaxCallDepthAssumption DEF Depths
<1>2. ASSUME NEW w \in Targets PROVE Activation(w) \in Frame
  BY DEF Activation, Idle, Frame, Targets, Locations, Counts, Results,
         NoDecision, Decision, NoSite
<1>3. Root \in Targets
  BY CallerAssumption DEF Targets
<1>4. Idle \in Frame
  BY DEF Idle, Frame, Targets, Locations, Counts, Results,
         NoDecision, Decision, NoSite
<1>5. ASSUME NEW d \in Depths
      PROVE  /\ frame[d] \in Frame
             /\ frame[d].pc \in {"idle", "enter"}
  BY <1>2, <1>3, <1>4 DEF Init, Activation, Idle
<1>6. frame \in [Depths -> Frame]
  BY <1>5 DEF Init
<1>7. completed \subseteq Workflows /\ "none" \in Results
  BY CallerAssumption DEF Init, Results
<1>8. TypeOK
  BY <1>1, <1>6, <1>7 DEF Init, TypeOK
<1>9. QED
  BY <1>5, <1>8 DEF Typed, Placed, Outside, Attempting

LEMMA TypedNext == ASSUME Typed, [Next]_vars PROVE Typed'
BY TypedEntry, TypedLoop, TypedAttempt, TypedAct, TypedReference, TypedEnd,
   TypedReturn, TypedOthers
DEF Next, EngineStep, ReplyStep

\* Every variable has its type in every reachable state, for every document,
\* call depth and set of completion evidence.
THEOREM TypeCorrect == Spec => []TypeOK
<1>1. Init => Typed
  BY TypedInit
<1>2. Typed /\ [Next]_vars => Typed'
  BY TypedNext
<1>3. Typed => TypeOK
  BY DEF Typed
<1>4. QED
  BY <1>1, <1>2, <1>3, PTL DEF Spec

-----------------------------------------------------------------------------
(***************************************************************************)
(* Completion evidence.  Every step of the engine past admission changes   *)
(* one activation g that was running, into one that either goes on, or     *)
(* returns and is recorded, or returns a cancellation.                     *)
(***************************************************************************)
Advances(f, g) ==
  /\ f.pc \notin Outside /\ g.pc \notin {"idle", "enter"}
  /\ g.wf = f.wf /\ g.admitted = f.admitted

Closes(g) ==
  \/ completed' = completed /\ (g.pc = "return" => g.result \in Cancellations)
  \/ completed' = completed \union {g.wf} /\ g.pc = "return"

LocalStep == \E g : Set(g) /\ Local /\ Advances(top, g) /\ Closes(g)
CallStep == top.pc \notin Outside /\ \E w, l : l \notin Outside /\ Call(w, l)
ReturnStep ==
  depth > 0 /\ \E g : ResumeWith(g) /\ Advances(Caller, g) /\ Closes(g)

LEMMA LocalShape ==
  ASSUME NEW g, Set(g), Local, Advances(top, g), Closes(g) PROVE LocalStep
BY DEF LocalStep

LEMMA ShapeLoop ==
  ASSUME Typed,
         \/ RunOutOfIterations \/ PastLastStep \/ BeginAttempt
         \/ StartRequest \/ Replied \/ RequestCancelled
         \/ Route \/ DelayElapsed \/ RoutingCancelled
         \/ ActDone \/ ActNext \/ ActError \/ ActPlainRetry
  PROVE  LocalStep
<1>1. top \in Frame
  BY TopPlaced
<1>2. CASE RunOutOfIterations
  BY <1>1, LocalShape, <1>2 DEF RunOutOfIterations, At, Record, Ended, Frame, Outside,
     Advances, Closes
<1>3. CASE PastLastStep
  BY <1>1, LocalShape, <1>3 DEF PastLastStep, At, Frame, Outside, Advances, Closes
<1>4. CASE BeginAttempt
  BY <1>1, LocalShape, <1>4 DEF BeginAttempt, At, Frame, Outside, Advances, Closes
<1>5. CASE StartRequest
  BY <1>1, LocalShape, <1>5 DEF StartRequest, At, Frame, Outside, Advances, Closes
<1>6. CASE Replied
  BY <1>1, LocalShape, <1>6 DEF Replied, Judged, At, Frame, Outside, Advances, Closes
<1>7. CASE RequestCancelled
  BY <1>1, LocalShape, <1>7 DEF RequestCancelled, At, Frame, Outside, Advances, Closes
<1>8. CASE Route
  <2>1. ASSUME NEW dec, NEW l \in {"delay", "act"},
               Set([top EXCEPT !.decision = dec, !.pc = l])
        PROVE  LocalStep
    BY <1>1, LocalShape, <1>8, <2>1
    DEF Route, At, Frame, Outside, Advances, Closes
  <2>2. PICK dec \in Routes(workflow, top.step, top.counts, top.result, Responded) :
          Set([top EXCEPT !.decision = dec,
                          !.pc = IF dec.waits THEN "delay" ELSE "act"])
    BY <1>8 DEF Route
  <2>3. (IF dec.waits THEN "delay" ELSE "act") \in {"delay", "act"}
    OBVIOUS
  <2>4. QED
    BY <2>1, <2>2, <2>3
<1>9. CASE DelayElapsed
  BY <1>1, LocalShape, <1>9 DEF DelayElapsed, At, Frame, Outside, Advances, Closes
<1>10. CASE RoutingCancelled
  BY <1>1, LocalShape, <1>10 DEF RoutingCancelled, Frame, Outside, Advances, Closes
<1>11. CASE ActDone
  BY <1>1, LocalShape, <1>11
  DEF ActDone, Decided, At, Frame, Outside, Advances, Closes
<1>12. CASE ActNext
  BY <1>1, LocalShape, <1>12
  DEF ActNext, Decided, At, Frame, Outside, Advances, Closes
<1>13. CASE ActError
  BY <1>1, LocalShape, <1>13 DEF ActError, Decided, At, Record, Reported, Ended, Frame, Outside,
     Advances, Closes
<1>14. CASE ActPlainRetry
  BY <1>1, LocalShape, <1>14 DEF ActPlainRetry, Decided, At, Scheduled, Frame, Outside, Advances,
     Closes
<1>15. QED
  BY <1>2, <1>3, <1>4, <1>5, <1>6, <1>7, <1>8, <1>9, <1>10, <1>11, <1>12,
     <1>13, <1>14

LEMMA ShapeReference ==
  ASSUME Typed,
         \/ ActReferenceMissing \/ ActReferenceStep \/ ReferenceReplied
         \/ RetryStep \/ Finish
         \/ (ObserveCancel /\ top.pc # "enter")
  PROVE  LocalStep
<1>1. top \in Frame
  BY TopPlaced
<1>2. ASSUME FailReference("RetryReferenceFailed"), top.pc \notin Outside
      PROVE  LocalStep
  BY <1>1, LocalShape, <1>2 DEF FailReference, Record, Reported, Ended, Frame, Advances, Closes
<1>3. CASE ActReferenceMissing
  BY <1>2, <1>3 DEF ActReferenceMissing, Decided, At, Outside
<1>4. CASE ActReferenceStep
  BY <1>1, LocalShape, <1>4
  DEF ActReferenceStep, Decided, At, Frame, Outside, Advances, Closes
<1>5. CASE ReferenceReplied
  <2>1. top.pc \notin Outside
    BY <1>5 DEF ReferenceReplied, At, Outside
  <2>2. CASE Set(Scheduled(top)) /\ Local /\ UNCHANGED completed
    BY <1>1, LocalShape, <2>1, <2>2 DEF Scheduled, Frame, Advances, Closes
  <2>3. QED
    BY <1>2, <1>5, <2>1, <2>2 DEF ReferenceReplied
<1>6. CASE RetryStep
  BY <1>1, LocalShape, <1>6 DEF RetryStep, At, Frame, Outside, Advances, Closes
<1>7. CASE Finish
  BY <1>1, LocalShape, <1>7 DEF Finish, At, Record, Reported, Ended, Frame, Outside, Advances,
     Closes
<1>8. CASE ObserveCancel /\ top.pc # "enter"
  <2>1. CancelError \in Cancellations
    BY DEF CancelError, Cancellations
  <2>2. QED
    BY <1>1, LocalShape, <1>8, <2>1 DEF ObserveCancel, Checkpoints, Ended, Frame, Outside,
       Advances, Closes
<1>9. QED
  BY <1>3, <1>4, <1>5, <1>6, <1>7, <1>8

LEMMA ShapeCall ==
  ASSUME Typed,
         \/ StartSubWorkflow \/ ActGotoWorkflow \/ ActReferenceWorkflow
         \/ ActReferenceSubWorkflow
  PROVE  CallStep
<1>1. top.pc \notin Outside
  BY DEF StartSubWorkflow, ActGotoWorkflow, ActReferenceWorkflow,
         ActReferenceSubWorkflow, Decided, At, Outside
<1>2. \E w : \E l \in {"subcall", "gotocall", "refcall", "refsubcall"} : Call(w, l)
  BY DEF StartSubWorkflow, ActGotoWorkflow, ActReferenceWorkflow,
         ActReferenceSubWorkflow
<1>3. QED
  BY <1>1, <1>2 DEF CallStep, Outside

LEMMA ShapeReturn ==
  ASSUME Typed, SubWorkflowReturned \/ GotoReturned \/ ReferenceReturned
  PROVE  ReturnStep
<1>1. /\ depth > 0 /\ Caller \in Frame /\ Caller.pc \notin Outside
  <2>1. {"subcall", "gotocall", "refcall", "refsubcall"} \subseteq Attempting
    BY DEF Attempting, Locations, Outside
  <2>2. depth > 0 /\ Caller \in Frame /\ Caller.pc \in Attempting
    BY <2>1, CallerPlaced
    DEF SubWorkflowReturned, GotoReturned, ReferenceReturned
  <2>3. QED
    BY <2>2 DEF Attempting
<1>2. ASSUME NEW g, ResumeWith(g), Advances(Caller, g), Closes(g)
      PROVE  ReturnStep
  BY <1>1, <1>2 DEF ReturnStep
<1>3. CASE SubWorkflowReturned
  <2>1. PICK r \in SubWorkflowResults(top.result) :
          ResumeWith([Caller EXCEPT !.pc = "settled", !.result = r])
    BY <1>3 DEF SubWorkflowReturned
  <2>2. QED
    BY <1>1, <1>2, <1>3, <2>1 DEF SubWorkflowReturned, Frame, Advances, Closes
<1>4. CASE GotoReturned
  BY <1>1, <1>2, <1>4 DEF GotoReturned, Ended, Frame, Advances, Closes
<1>5. CASE ReferenceReturned
  <2>1. CASE ResumeWith(Ended(Caller, CancelError)) /\ UNCHANGED completed
    <3>1. CancelError \in Cancellations
      BY DEF CancelError, Cancellations
    <3>2. QED
      BY <1>1, <1>2, <2>1, <3>1 DEF Ended, Frame, Advances, Closes
  <2>2. CASE ResumeWith(Scheduled(Caller)) /\ UNCHANGED completed
    BY <1>1, <1>2, <2>2 DEF Scheduled, Frame, Advances, Closes
  <2>3. CASE \E r : /\ ResumeWith(Reported(Caller, r))
                    /\ completed' = completed \union {Caller.wf}
    BY <1>1, <1>2, <2>3 DEF Reported, Ended, Frame, Advances, Closes
  <2>4. QED
    BY <1>5, <2>1, <2>2, <2>3 DEF ReferenceReturned
<1>6. QED
  BY <1>3, <1>4, <1>5

-----------------------------------------------------------------------------
(***************************************************************************)
(* Neither of the two properties of the completion evidence is inductive.  *)
(* What makes them so: an activation is admitted exactly when it passes    *)
(* its entry, and an admitted one keeps its dependencies, as evidence only *)
(* grows.                                                                  *)
(***************************************************************************)
EntryErrors == {"InputValidation", "MessageTransport"}

Vouched(f, done) ==
  /\ f.pc = "enter" => ~f.admitted
  /\ f.pc \notin Outside => f.admitted
  /\ f.admitted => doc[f.wf].dependsOn \subseteq done
  /\ f.pc = "return" /\ f.admitted /\ f.result \notin Cancellations \union EntryErrors
       => f.wf \in done

Evident ==
  /\ Typed
  /\ DependenciesFirst
  /\ \A d \in Depths : Vouched(frame[d], completed)

\* A step that leaves one activation g vouched for, and every other one as it
\* is or fresh, keeps the evidence in order.
LEMMA EvidenceKeeps ==
  ASSUME Evident, Typed', NEW g, Vouched(g, completed'),
         doc' = doc, provided' = provided,
         \/ completed' = completed
         \/ completed' = completed \union {g.wf} /\ g.admitted,
         \A d \in Depths : \/ frame'[d] \in {g, frame[d], Idle}
                           \/ \E w : frame'[d] = Activation(w)
  PROVE  Evident'
<1>1. completed \subseteq completed'
  OBVIOUS
<1>2. ASSUME NEW d \in Depths PROVE Vouched(frame'[d], completed')
  <2>1. CASE frame'[d] = frame[d]
    <3>1. Vouched(frame[d], completed)
      BY DEF Evident
    <3>2. Vouched(frame[d], completed')
      BY <1>1, <3>1 DEF Vouched
    <3>3. QED
      BY <2>1, <3>2
  <2>2. CASE frame'[d] = g
    BY <2>2
  <2>3. CASE frame'[d] = Idle \/ \E w : frame'[d] = Activation(w)
    <3>1. Idle.pc = "idle" /\ ~Idle.admitted
      BY DEF Idle
    <3>2. ASSUME NEW w PROVE Activation(w).pc = "enter" /\ ~Activation(w).admitted
      BY DEF Idle, Activation
    <3>3. QED
      BY <2>3, <3>1, <3>2 DEF Vouched, Outside
  <2>4. QED
    BY <2>1, <2>2, <2>3
<1>3. DependenciesFirst'
  BY <1>1 DEF Evident, DependenciesFirst, Vouched
<1>4. QED
  BY <1>2, <1>3 DEF Evident, Vouched

LEMMA AdvanceVouched ==
  ASSUME NEW f, Vouched(f, completed), NEW g, Advances(f, g), Closes(g)
  PROVE  Vouched(g, completed') /\ g.admitted
BY DEF Vouched, Advances, Closes, Outside

LEMMA EvidentLocal == ASSUME Evident, LocalStep, Typed' PROVE Evident'
<1>1. PICK g : Set(g) /\ Local /\ Advances(top, g) /\ Closes(g)
  BY DEF LocalStep
<1>2. depth \in Depths /\ Vouched(top, completed) /\ frame \in [Depths -> Frame]
  BY DEF Evident, Typed, TypeOK, top
<1>3. Vouched(g, completed') /\ g.admitted
  BY <1>1, <1>2, AdvanceVouched
<1>4. \A d \in Depths : frame'[d] \in {g, frame[d]}
  BY <1>1, <1>2 DEF Set
<1>5. QED
  BY <1>1, <1>3, <1>4, EvidenceKeeps DEF Local, context, Closes

LEMMA EvidentCall == ASSUME Evident, CallStep, Typed' PROVE Evident'
<1>1. PICK w, l : l \notin Outside /\ Call(w, l)
  BY DEF CallStep
<1>2. depth \in Depths /\ Vouched(top, completed) /\ frame \in [Depths -> Frame]
  BY DEF Evident, Typed, TypeOK, top
<1>3. /\ completed' = completed /\ doc' = doc /\ provided' = provided
      /\ top.pc \notin Outside
  BY <1>1 DEF Call, context, CallStep
<1> DEFINE g == [top EXCEPT !.pc = l]
<1>4. top \in Frame
  BY TopPlaced DEF Evident
<1>5. Vouched(g, completed)
  BY <1>1, <1>2, <1>3, <1>4 DEF Vouched, Frame, Outside
<1>6. ASSUME NEW d \in Depths PROVE frame'[d] \in {g, frame[d], Activation(w)}
  BY <1>1, <1>2 DEF Call, top
<1>7. QED
  BY <1>3, <1>5, <1>6, EvidenceKeeps

LEMMA EvidentReturn == ASSUME Evident, ReturnStep, Typed' PROVE Evident'
<1>1. PICK g : ResumeWith(g) /\ Advances(Caller, g) /\ Closes(g)
  BY DEF ReturnStep
<1>2. depth \in Depths /\ depth - 1 \in Depths /\ frame \in [Depths -> Frame]
  BY MaxCallDepthAssumption DEF ReturnStep, Evident, Typed, TypeOK, Depths
<1>3. Vouched(g, completed') /\ g.admitted
  BY <1>1, <1>2, AdvanceVouched DEF Evident, Caller
<1>4. \A d \in Depths : frame'[d] \in {g, frame[d], Idle}
  BY <1>1, <1>2 DEF ResumeWith
<1>5. QED
  BY <1>1, <1>3, <1>4, EvidenceKeeps DEF ResumeWith, context, Closes

LEMMA EvidentEntry ==
  ASSUME Evident, Typed',
         Refuse \/ FailEntry \/ Enter \/ (ObserveCancel /\ top.pc = "enter")
  PROVE  Evident'
<1>1. /\ top \in Frame /\ depth \in Depths /\ frame \in [Depths -> Frame]
      /\ ~top.admitted /\ MaxCallDepth \in Nat
  <2>1. top.pc = "enter"
    BY DEF Refuse, FailEntry, Enter, At
  <2>2. QED
    BY <2>1, TopPlaced, MaxCallDepthAssumption
    DEF Evident, Vouched, Typed, TypeOK, top
<1>2. Local /\ completed' = completed
  BY DEF Refuse, FailEntry, Enter, ObserveCancel
<1>3. ASSUME NEW g, Set(g), Vouched(g, completed) PROVE Evident'
  <2>1. \A d \in Depths : frame'[d] \in {g, frame[d]}
    BY <1>1, <1>3 DEF Set
  <2>2. QED
    BY <1>2, <1>3, <2>1, EvidenceKeeps DEF Local, context
<1>4. ASSUME NEW e PROVE Vouched(Ended(top, e), completed)
  BY <1>1 DEF Vouched, Ended, Frame, Outside
<1>5. CASE Refuse
  BY <1>3, <1>4, <1>5 DEF Refuse
<1>6. CASE ObserveCancel
  BY <1>3, <1>4, <1>6 DEF ObserveCancel
<1>7. Refusal = {} => doc[top.wf].dependsOn \subseteq completed
  <2>1. depth \in Int /\ MaxCallDepth \in Int
    BY <1>1 DEF Depths
  <2>2. QED
    BY <2>1 DEF Refusal, Admissible
<1>8. CASE FailEntry
  <2>1. PICK e \in EntryFailures : Set(Ended(Admit(top), e))
    BY <1>8 DEF FailEntry
  <2>2. e \in EntryErrors
    BY <2>1 DEF EntryFailures, EntryErrors
  <2>3. Vouched(Ended(Admit(top), e), completed)
    BY <1>1, <1>7, <1>8, <2>2 DEF FailEntry, Vouched, Ended, Admit, Frame, Outside
  <2>4. QED
    BY <1>3, <2>1, <2>3
<1>9. CASE Enter
  <2> DEFINE g == [Admit(top) EXCEPT !.pc = "loop", !.left = MaxIterations(workflow)]
  <2>1. Vouched(g, completed)
    BY <1>1, <1>7, <1>9 DEF Enter, Vouched, Admit, Frame, Outside
  <2>2. Set(g)
    BY <1>9 DEF Enter
  <2>3. QED
    BY <1>3, <2>1, <2>2
<1>10. QED
  BY <1>5, <1>6, <1>8, <1>9

LEMMA EvidentInit == ASSUME Init PROVE Evident
<1>1. ASSUME NEW d \in Depths PROVE Vouched(frame[d], completed)
  BY DEF Init, Activation, Idle, Vouched, Outside
<1>2. QED
  BY <1>1, TypedInit DEF Evident, Init, DependenciesFirst

LEMMA EvidentNext == ASSUME Evident, [Next]_vars PROVE Evident'
<1>1. Typed /\ Typed'
  BY TypedNext DEF Evident
<1>2. CASE LocalStep \/ CallStep \/ ReturnStep
  BY <1>1, <1>2, EvidentLocal, EvidentCall, EvidentReturn
<1>3. CASE Refuse \/ FailEntry \/ Enter \/ (ObserveCancel /\ top.pc = "enter")
  BY <1>1, <1>3, EvidentEntry
<1>4. CASE SendResult \/ CancelHandle \/ WatchdogFlags \/ WatchdogCancels
           \/ UNCHANGED vars
  <2>1. UNCHANGED <<context, frame, completed>>
    BY <1>4 DEF SendResult, CancelHandle, WatchdogFlags, WatchdogCancels, vars, context
  <2>2. QED
    BY <1>1, <2>1 DEF Evident, Vouched, DependenciesFirst, context
<1>5. QED
  BY <1>1, <1>2, <1>3, <1>4, ShapeLoop, ShapeReference, ShapeCall, ShapeReturn
  DEF Next, EngineStep, ReplyStep

\* A workflow recorded by the run had every workflow it depends on recorded
\* before it, for every document, whatever evidence the caller provided and
\* however retries, gotos and sub-workflow calls interleave.
THEOREM DependenciesHold == Spec => []DependenciesFirst
<1>1. Evident => DependenciesFirst
  BY DEF Evident
<1>2. Init => Evident
  BY EvidentInit
<1>3. Evident /\ [Next]_vars => Evident'
  BY EvidentNext
<1>4. QED
  BY <1>1, <1>2, <1>3, PTL DEF Spec

\* An activation that got past its entry and did not end in a cancellation is
\* completion evidence by the time it returns.
THEOREM EndingRecorded == Spec => []EndedIsRecorded
<1>1. Evident => EndedIsRecorded
  BY DEF Evident, Vouched, EndedIsRecorded, EntryErrors
<1>2. Init => Evident
  BY EvidentInit
<1>3. Evident /\ [Next]_vars => Evident'
  BY EvidentNext
<1>4. QED
  BY <1>1, <1>2, <1>3, PTL DEF Spec

\* Completion evidence is what dependencies and callers take it for: what a
\* recorded workflow depends on was recorded, and what ended is.
THEOREM EvidenceSound == Spec => []CompletionEvidence
<1>1. DependenciesFirst /\ EndedIsRecorded => CompletionEvidence
  BY DEF CompletionEvidence
<1>2. QED
  BY <1>1, DependenciesHold, EndingRecorded, PTL

-----------------------------------------------------------------------------
(***************************************************************************)
(* Retry budgets.                                                          *)
(***************************************************************************)

(***************************************************************************)
(* The property is not inductive: between the routing that chose a retry   *)
(* and the moment it is counted lie a delay, a recovery call and its       *)
(* return.  Over that stretch the retry chosen must stay affordable.       *)
(***************************************************************************)
Spent(f) ==
  \A i \in 1 .. MaxSteps : \A j \in 1 .. MaxActions :
    f.counts[<<i, j>>] > 0 =>
      /\ i \in DOMAIN doc[f.wf].steps
      /\ LET list == FailureActions(doc[f.wf], i) IN
           /\ j \in DOMAIN list /\ list[j].type = "retry"
           /\ f.counts[<<i, j>>] <= EffectiveLimit(list[j])

Recovering == {"refrequest", "refcall", "refsubcall"}
Choosing == Recovering \union {"delay", "act"}

Affordable(f) ==
  /\ f.pc \in Choosing => RetryAllowed(doc[f.wf], f.step, f.counts, f.decision)
  /\ f.pc \in Recovering => f.decision.kind = "retry"

WithinBudget(f) == Spent(f) /\ Affordable(f)

Thrifty == Typed /\ \A d \in Depths : WithinBudget(frame[d])

\* The activation keeps its counts and is not about to retry.
KeepsCounts(f, g) == g.wf = f.wf /\ g.counts = f.counts /\ g.pc \notin Choosing

LEMMA CountsKept ==
  ASSUME NEW f, WithinBudget(f), NEW g, KeepsCounts(f, g) PROVE WithinBudget(g)
BY DEF WithinBudget, Spent, Affordable, KeepsCounts, Choosing

\* Counting the retry that was chosen stays within its budget.
LEMMA RetryCounted ==
  ASSUME Typed, NEW d, NEW f, Placed(d, f), WithinBudget(f), f.pc \in Choosing,
         f.decision.kind = "retry"
  PROVE  WithinBudget(Scheduled(f))
<1> DEFINE wf == doc[f.wf]
           list == FailureActions(wf, f.step)
           g == Scheduled(f)
<1>1. f.pc \in Attempting /\ f.pc \notin Outside
  BY DEF Choosing, Recovering, Attempting, Locations, Outside
<1>2. /\ f \in Frame /\ f.wf \in Workflows /\ f.step \in DOMAIN wf.steps
      /\ Regular(wf) /\ f.counts \in Counts
  BY <1>1, DocumentsRegular DEF Placed, Typed, TypeOK, Frame
<1>3. PICK k \in DOMAIN list :
        /\ f.decision.site = <<f.step, k>>
        /\ list[k].type = "retry"
        /\ f.counts[<<f.step, k>>] < EffectiveLimit(list[k])
  BY DEF WithinBudget, Affordable, RetryAllowed
<1>4. /\ <<f.step, k>> \in Sites /\ list \in Seq(Action)
      /\ list[k] \in Action
  BY <1>2, ListsTyped
<1>5. EffectiveLimit(list[k]) \in Nat
  BY <1>4 DEF EffectiveLimit, Action, Unset
<1>6. /\ g.wf = f.wf /\ g.pc = "scheduled"
      /\ g.counts = [f.counts EXCEPT ![<<f.step, k>>] = @ + 1]
  BY <1>2, <1>3 DEF Scheduled, Frame, CountRetry
<1>7. ASSUME NEW i \in 1 .. MaxSteps, NEW j \in 1 .. MaxActions,
             g.counts[<<i, j>>] > 0
      PROVE  /\ i \in DOMAIN wf.steps
             /\ j \in DOMAIN FailureActions(wf, i)
             /\ FailureActions(wf, i)[j].type = "retry"
             /\ g.counts[<<i, j>>] <= EffectiveLimit(FailureActions(wf, i)[j])
  <2>1. <<i, j>> \in Sites
    BY DEF Sites
  <2>2. CASE i = f.step /\ j = k
    <3>1. g.counts[<<i, j>>] = f.counts[<<i, j>>] + 1
      BY <1>2, <1>6, <2>1, <2>2 DEF Counts
    <3>2. f.counts[<<i, j>>] \in Nat
      BY <1>2, <2>1 DEF Counts
    <3>3. QED
      BY <1>2, <1>3, <1>5, <2>2, <3>1, <3>2
  <2>3. CASE ~(i = f.step /\ j = k)
    <3>1. g.counts[<<i, j>>] = f.counts[<<i, j>>]
      BY <1>2, <1>4, <1>6, <2>1, <2>3 DEF Counts
    <3>2. QED
      BY <1>7, <3>1 DEF WithinBudget, Spent
  <2>4. QED
    BY <2>2, <2>3
<1>8. Spent(g)
  BY <1>6, <1>7 DEF Spent
<1>9. QED
  BY <1>6, <1>8 DEF WithinBudget, Affordable, Choosing, Recovering

-----------------------------------------------------------------------------
(***************************************************************************)
(* The steps of the engine.                                                *)
(***************************************************************************)
ThriftyLocal == \E g : Set(g) /\ Local /\ WithinBudget(g)
ThriftyCall == \E w, l : Call(w, l) /\ WithinBudget([top EXCEPT !.pc = l])
ThriftyReturn == depth > 0 /\ \E g : ResumeWith(g) /\ WithinBudget(g)

LEMMA ThriftyLocalShape ==
  ASSUME NEW g, Set(g), Local, WithinBudget(g) PROVE ThriftyLocal
BY DEF ThriftyLocal

LEMMA TopThrifty ==
  ASSUME Thrifty
  PROVE  /\ Typed /\ top \in Frame /\ Placed(depth, top) /\ WithinBudget(top)
         /\ depth \in Depths /\ frame \in [Depths -> Frame]
BY TopPlaced DEF Thrifty, Typed, TypeOK, top

LEMMA ThriftyPlain ==
  ASSUME Thrifty,
         \/ Refuse \/ FailEntry \/ Enter
         \/ RunOutOfIterations \/ PastLastStep \/ BeginAttempt
         \/ StartRequest \/ Replied \/ RequestCancelled
         \/ ActDone \/ ActNext \/ ActError \/ ActReferenceMissing
         \/ RetryStep \/ Finish \/ ObserveCancel
  PROVE  ThriftyLocal
<1>1. top \in Frame /\ WithinBudget(top)
  BY TopThrifty
<1>2. ASSUME NEW g, Set(g), Local, KeepsCounts(top, g) PROVE ThriftyLocal
  BY <1>1, <1>2, CountsKept, ThriftyLocalShape
<1>3. ASSUME NEW e PROVE KeepsCounts(top, Ended(top, e))
  BY <1>1 DEF KeepsCounts, Ended, Frame, Choosing, Recovering
<1>4. ASSUME NEW e PROVE KeepsCounts(top, Ended(Admit(top), e))
  BY <1>1 DEF KeepsCounts, Ended, Admit, Frame, Choosing, Recovering
<1>5. ASSUME NEW e PROVE KeepsCounts(top, Reported(top, e))
  BY <1>1 DEF KeepsCounts, Reported, Ended, Frame, Choosing, Recovering
<1>6. CASE Refuse
  BY <1>2, <1>3, <1>6 DEF Refuse
<1>7. CASE FailEntry
  BY <1>2, <1>4, <1>7 DEF FailEntry
<1>8. CASE Enter
  <2> DEFINE g == [Admit(top) EXCEPT !.pc = "loop", !.left = MaxIterations(workflow)]
  <2>1. KeepsCounts(top, g)
    BY <1>1 DEF KeepsCounts, Admit, Frame, Choosing, Recovering
  <2>2. Set(g) /\ Local
    BY <1>8 DEF Enter
  <2>3. QED
    BY <1>2, <2>1, <2>2
<1>9. CASE RunOutOfIterations
  BY <1>2, <1>3, <1>9 DEF RunOutOfIterations
<1>10. CASE PastLastStep
  BY <1>1, <1>2, <1>10
  DEF PastLastStep, KeepsCounts, Frame, Choosing, Recovering
<1>11. CASE BeginAttempt
  BY <1>1, <1>2, <1>11
  DEF BeginAttempt, KeepsCounts, Frame, Choosing, Recovering
<1>12. CASE StartRequest
  BY <1>1, <1>2, <1>12
  DEF StartRequest, KeepsCounts, Frame, Choosing, Recovering
<1>13. ASSUME NEW r
       PROVE  KeepsCounts(top, [top EXCEPT !.pc = "settled", !.result = r])
  BY <1>1 DEF KeepsCounts, Frame, Choosing, Recovering
<1>14. CASE Replied \/ RequestCancelled
  BY <1>2, <1>13, <1>14 DEF Replied, Judged, RequestCancelled
<1>15. CASE ActDone
  BY <1>1, <1>2, <1>15 DEF ActDone, KeepsCounts, Frame, Choosing, Recovering
<1>16. CASE ActNext
  BY <1>1, <1>2, <1>16 DEF ActNext, KeepsCounts, Frame, Choosing, Recovering
<1>17. CASE ActError
  BY <1>2, <1>5, <1>17 DEF ActError
<1>18. CASE ActReferenceMissing
  BY <1>2, <1>5, <1>18 DEF ActReferenceMissing, FailReference
<1>19. CASE RetryStep
  BY <1>1, <1>2, <1>19 DEF RetryStep, KeepsCounts, Frame, Choosing, Recovering
<1>20. CASE Finish
  BY <1>2, <1>5, <1>20 DEF Finish
<1>21. CASE ObserveCancel
  BY <1>2, <1>3, <1>21 DEF ObserveCancel
<1>22. QED
  BY <1>6, <1>7, <1>8, <1>9, <1>10, <1>11, <1>12, <1>14, <1>15, <1>16, <1>17,
     <1>18, <1>19, <1>20, <1>21

LEMMA ThriftyRetry ==
  ASSUME Thrifty,
         \/ Route \/ DelayElapsed \/ RoutingCancelled
         \/ ActPlainRetry \/ ActReferenceStep \/ ReferenceReplied
  PROVE  ThriftyLocal
<1>1. Typed /\ top \in Frame /\ Placed(depth, top) /\ WithinBudget(top)
  BY TopThrifty
<1>2. ASSUME NEW dec, NEW l \in {"delay", "act"}, Local,
             RetryAllowed(doc[top.wf], top.step, top.counts, dec),
             Set([top EXCEPT !.decision = dec, !.pc = l])
      PROVE  ThriftyLocal
  <2> DEFINE g == [top EXCEPT !.decision = dec, !.pc = l]
  <2>1. /\ g.wf = top.wf /\ g.counts = top.counts /\ g.step = top.step
        /\ g.decision = dec /\ g.pc = l
    BY <1>1 DEF Frame
  <2> HIDE DEF g
  <2>2. Spent(g)
    BY <1>1, <2>1 DEF WithinBudget, Spent
  <2>3. Affordable(g)
    BY <1>2, <2>1 DEF Affordable, Recovering
  <2>4. QED
    BY <1>2, <2>2, <2>3, ThriftyLocalShape DEF WithinBudget, g
<1>3. CASE Route
  <2>1. PICK dec \in Routes(workflow, top.step, top.counts, top.result, Responded) :
          Set([top EXCEPT !.decision = dec,
                          !.pc = IF dec.waits THEN "delay" ELSE "act"])
    BY <1>3 DEF Route
  <2>2. /\ top.counts \in Counts /\ top.result \in Results
        /\ Regular(workflow) /\ top.step \in DOMAIN workflow.steps
    <3>1. top.pc \in Attempting /\ top.pc \notin Outside
      BY <1>3 DEF Route, At, Attempting, Locations, Outside
    <3>2. QED
      BY <1>1, <3>1, TopPlaced DEF Frame, Placed, workflow
  <2>3. RetryAllowed(workflow, top.step, top.counts, dec)
    BY <2>1, <2>2, RoutesSound
  <2>4. (IF dec.waits THEN "delay" ELSE "act") \in {"delay", "act"}
    OBVIOUS
  <2>5. QED
    BY <1>2, <1>3, <2>1, <2>3, <2>4 DEF Route, workflow
<1>4. CASE RoutingCancelled
  <2>1. RetryAllowed(doc[top.wf], top.step, top.counts, Fail(CancelError))
    BY DEF RetryAllowed, Fail, NoDecision
  <2>2. QED
    BY <1>2, <1>4, <2>1 DEF RoutingCancelled
<1>5. ASSUME NEW l, Set([top EXCEPT !.pc = l]), Local, top.pc \in Choosing,
             l \in Recovering => top.decision.kind = "retry"
      PROVE  ThriftyLocal
  <2> DEFINE g == [top EXCEPT !.pc = l]
  <2>1. /\ g.wf = top.wf /\ g.counts = top.counts /\ g.step = top.step
        /\ g.decision = top.decision /\ g.pc = l
    BY <1>1 DEF Frame
  <2> HIDE DEF g
  <2>2. Spent(g)
    BY <1>1, <2>1 DEF WithinBudget, Spent
  <2>3. Affordable(g)
    BY <1>1, <1>5, <2>1 DEF WithinBudget, Affordable
  <2>4. QED
    BY <1>5, <2>2, <2>3, ThriftyLocalShape DEF WithinBudget, g
<1>6. CASE DelayElapsed
  BY <1>5, <1>6 DEF DelayElapsed, At, Choosing, Recovering
<1>7. CASE ActReferenceStep
  BY <1>5, <1>7 DEF ActReferenceStep, Decided, At, Choosing
<1>8. CASE ActPlainRetry
  BY <1>1, <1>8, RetryCounted, ThriftyLocalShape
  DEF ActPlainRetry, Decided, At, Choosing
<1>9. CASE ReferenceReplied
  <2>1. top.pc \in Choosing /\ top.decision.kind = "retry"
    BY <1>1, <1>9
    DEF ReferenceReplied, At, Choosing, Recovering, WithinBudget, Affordable
  <2>2. CASE Set(Scheduled(top)) /\ Local
    BY <1>1, <2>1, <2>2, RetryCounted, ThriftyLocalShape
  <2>3. CASE FailReference("RetryReferenceFailed")
    <3>1. KeepsCounts(top, Reported(top, "RetryReferenceFailed"))
      BY <1>1 DEF KeepsCounts, Reported, Ended, Frame, Choosing, Recovering
    <3>2. QED
      BY <1>1, <2>3, <3>1, CountsKept, ThriftyLocalShape DEF FailReference
  <2>4. QED
    BY <1>9, <2>2, <2>3 DEF ReferenceReplied
<1>10. QED
  BY <1>3, <1>4, <1>6, <1>7, <1>8, <1>9

LEMMA ThriftyCalls ==
  ASSUME Thrifty,
         \/ StartSubWorkflow \/ ActGotoWorkflow \/ ActReferenceWorkflow
         \/ ActReferenceSubWorkflow
  PROVE  ThriftyCall
<1>1. top \in Frame /\ WithinBudget(top)
  BY TopThrifty
<1>2. PICK w, l :
        /\ Call(w, l)
        /\ \/ l \in {"subcall", "gotocall"}
           \/ top.pc = "act" /\ top.decision.kind = "retry"
  BY DEF StartSubWorkflow, ActGotoWorkflow, ActReferenceWorkflow,
         ActReferenceSubWorkflow, Decided, At
<1> DEFINE g == [top EXCEPT !.pc = l]
<1>3. /\ g.wf = top.wf /\ g.counts = top.counts /\ g.step = top.step
      /\ g.decision = top.decision /\ g.pc = l
  BY <1>1 DEF Frame
<1> HIDE DEF g
<1>4. Spent(g)
  BY <1>1, <1>3 DEF WithinBudget, Spent
<1>5. Affordable(g)
  BY <1>1, <1>2, <1>3 DEF WithinBudget, Affordable, Choosing, Recovering
<1>6. QED
  BY <1>2, <1>4, <1>5 DEF ThriftyCall, WithinBudget, g

LEMMA ThriftyReturns ==
  ASSUME Thrifty, SubWorkflowReturned \/ GotoReturned \/ ReferenceReturned
  PROVE  ThriftyReturn
<1>1. /\ depth > 0 /\ Caller \in Frame /\ Placed(depth - 1, Caller)
      /\ WithinBudget(Caller) /\ Typed
  <2>1. {"subcall", "gotocall", "refcall", "refsubcall"} \subseteq Attempting
    BY DEF Attempting, Locations, Outside
  <2>2. Typed /\ depth > 0 /\ Caller \in Frame /\ Placed(depth - 1, Caller)
    BY <2>1, CallerPlaced
    DEF SubWorkflowReturned, GotoReturned, ReferenceReturned, Thrifty
  <2>3. depth - 1 \in Depths
    BY <2>2, MaxCallDepthAssumption DEF Typed, TypeOK, Depths
  <2>4. QED
    BY <2>2, <2>3 DEF Thrifty, Caller
<1>2. ASSUME NEW g, ResumeWith(g), WithinBudget(g) PROVE ThriftyReturn
  BY <1>1, <1>2 DEF ThriftyReturn
<1>3. ASSUME NEW g, ResumeWith(g), KeepsCounts(Caller, g) PROVE ThriftyReturn
  BY <1>1, <1>2, <1>3, CountsKept
<1>4. CASE SubWorkflowReturned
  <2>1. PICK r \in SubWorkflowResults(top.result) :
          ResumeWith([Caller EXCEPT !.pc = "settled", !.result = r])
    BY <1>4 DEF SubWorkflowReturned
  <2>2. QED
    BY <1>1, <1>3, <2>1 DEF KeepsCounts, Frame, Choosing, Recovering
<1>5. ASSUME NEW e
      PROVE  /\ KeepsCounts(Caller, Ended(Caller, e))
             /\ KeepsCounts(Caller, Reported(Caller, e))
  BY <1>1 DEF KeepsCounts, Ended, Reported, Frame, Choosing, Recovering
<1>6. CASE GotoReturned
  BY <1>3, <1>5, <1>6 DEF GotoReturned
<1>7. CASE ReferenceReturned
  <2>1. Caller.pc \in Choosing /\ Caller.decision.kind = "retry"
    BY <1>1, <1>7
    DEF ReferenceReturned, Returning, Choosing, Recovering, WithinBudget, Affordable
  <2>2. WithinBudget(Scheduled(Caller))
    BY <1>1, <2>1, RetryCounted
  <2>3. QED
    BY <1>2, <1>3, <1>5, <1>7, <2>2 DEF ReferenceReturned
<1>8. QED
  BY <1>4, <1>6, <1>7

-----------------------------------------------------------------------------
(***************************************************************************)
(* The invariant.                                                          *)
(***************************************************************************)
LEMMA FreshWithinBudget ==
  WithinBudget(Idle) /\ \A w : WithinBudget(Activation(w))
<1>1. \A i \in 1 .. MaxSteps, j \in 1 .. MaxActions : <<i, j>> \in Sites
  BY DEF Sites
<1>2. /\ Idle.pc = "idle"
      /\ \A i \in 1 .. MaxSteps, j \in 1 .. MaxActions : Idle.counts[<<i, j>>] = 0
  BY <1>1 DEF Idle
<1>3. ASSUME NEW w
      PROVE  Activation(w).pc = "enter" /\ Activation(w).counts = Idle.counts
  BY DEF Activation, Idle
<1>4. QED
  BY <1>2, <1>3 DEF WithinBudget, Spent, Affordable, Choosing, Recovering

LEMMA ThriftyInit == ASSUME Init PROVE Thrifty
<1>1. \A d \in Depths : frame[d] \in {Idle, Activation(Root)}
  BY DEF Init
<1>2. QED
  BY <1>1, TypedInit, FreshWithinBudget DEF Thrifty

LEMMA ThriftyNext == ASSUME Thrifty, [Next]_vars PROVE Thrifty'
<1>1. /\ Typed' /\ depth \in Depths /\ frame \in [Depths -> Frame]
  BY TypedNext, TopThrifty
<1>2. ASSUME doc' = doc, \A d \in Depths : WithinBudget(frame'[d])
      PROVE  Thrifty'
  BY <1>1, <1>2 DEF Thrifty, WithinBudget, Spent, Affordable
<1>3. CASE ThriftyLocal
  <2>1. PICK g : Set(g) /\ Local /\ WithinBudget(g)
    BY <1>3 DEF ThriftyLocal
  <2>2. \A d \in Depths : WithinBudget(frame'[d])
    BY <1>1, <2>1 DEF Set, Thrifty
  <2>3. QED
    BY <1>2, <2>1, <2>2 DEF Local, context
<1>4. CASE ThriftyCall
  <2>1. PICK w, l : Call(w, l) /\ WithinBudget([top EXCEPT !.pc = l])
    BY <1>4 DEF ThriftyCall
  <2>2. \A d \in Depths :
          frame'[d] \in {[top EXCEPT !.pc = l], Activation(w), frame[d]}
    BY <1>1, <2>1 DEF Call, top
  <2>3. \A d \in Depths : WithinBudget(frame'[d])
    BY <2>1, <2>2, FreshWithinBudget DEF Thrifty
  <2>4. QED
    BY <1>2, <2>1, <2>3 DEF Call, context
<1>5. CASE ThriftyReturn
  <2>1. PICK g : ResumeWith(g) /\ WithinBudget(g)
    BY <1>5 DEF ThriftyReturn
  <2>2. \A d \in Depths : frame'[d] \in {g, Idle, frame[d]}
    BY <1>1, <2>1 DEF ResumeWith
  <2>3. \A d \in Depths : WithinBudget(frame'[d])
    BY <2>1, <2>2, FreshWithinBudget DEF Thrifty
  <2>4. QED
    BY <1>2, <2>1, <2>3 DEF ResumeWith, context
<1>6. CASE SendResult \/ CancelHandle \/ WatchdogFlags \/ WatchdogCancels
           \/ UNCHANGED vars
  BY <1>2, <1>6 DEF SendResult, CancelHandle, WatchdogFlags, WatchdogCancels,
     vars, context, Thrifty
<1>7. QED
  BY <1>3, <1>4, <1>5, <1>6, ThriftyPlain, ThriftyRetry, ThriftyCalls,
     ThriftyReturns
  DEF Next, EngineStep, ReplyStep

\* No failure action is retried more often than its effective limit within
\* one activation, for every document, however its gotos, recovery steps and
\* recovery workflows lead back to the step.
THEOREM RetriesBounded == Spec => []RetriesWithinLimit
<1>1. Thrifty => RetriesWithinLimit
  <2>1. SUFFICES ASSUME Thrifty, NEW d \in 0 .. depth PROVE Spent(frame[d])
    BY DEF RetriesWithinLimit, Spent
  <2>2. d \in Depths
    BY <2>1, MaxCallDepthAssumption DEF Thrifty, Typed, TypeOK, Depths
  <2>3. QED
    BY <2>1, <2>2 DEF Thrifty, WithinBudget
<1>2. Init => Thrifty
  BY ThriftyInit
<1>3. Thrifty /\ [Next]_vars => Thrifty'
  BY ThriftyNext
<1>4. QED
  BY <1>1, <1>2, <1>3, PTL DEF Spec

-----------------------------------------------------------------------------
(***************************************************************************)
(* The iteration limit.  The budgets of the steps are added up by a        *)
(* function that is recursive on the number of them; that it is what its   *)
(* definition says is shown by the least number for which it is not.       *)
(***************************************************************************)

\* A set of natural numbers that is not empty has a least member.
LEMMA LeastRefuted ==
  ASSUME NEW S \in SUBSET Nat, S # {}
  PROVE  \E m \in S : \A k \in S : m <= k
<1>1. PICK m \in S : \A k \in S : <<k, m>> \notin OpToRel(<, Nat)
  BY NatLessThanWellFounded, WFMin, Zenon
<1>2. ASSUME NEW k \in S PROVE m <= k
  <2>1. k \in Nat /\ m \in Nat /\ <<k, m>> \in Nat \X Nat
    OBVIOUS
  <2>2. ~(<<k, m>>[1] < <<k, m>>[2])
    BY <1>1, <2>1, Zenon DEF OpToRel
  <2>3. QED
    BY <2>1, <2>2
<1>3. QED
  BY <1>2

\* The sums of the first numbers, up to k of them.
Upto(numbers, k, upTo) ==
  upTo = [n \in 0 .. k |-> IF n = 0 THEN 0 ELSE upTo[n - 1] + numbers[n]]

\* The recursive function Sums exists: a least length for which there were no
\* such function would be one more than a length for which there is one.
LEMMA SumsDefined ==
  ASSUME NEW numbers \in Seq(Nat)
  PROVE  Upto(numbers, Len(numbers), Sums(numbers))
<1> DEFINE bad == {k \in 0 .. Len(numbers) : ~ \E f : Upto(numbers, k, f)}
<1>1. Len(numbers) \in Nat
  OBVIOUS
<1>2. ASSUME bad # {} PROVE FALSE
  <2>1. bad \in SUBSET Nat
    BY <1>1
  <2>2. PICK k \in bad : \A j \in bad : k <= j
    <3> HIDE DEF bad
    <3>1. QED
      BY <1>2, <2>1, LeastRefuted
  <2>3. CASE k = 0
    <3>1. Upto(numbers, 0, [n \in 0 .. 0 |-> 0])
      BY DEF Upto
    <3>2. QED
      BY <2>2, <2>3, <3>1
  <2>4. CASE k # 0
    <3>1. k \in 1 .. Len(numbers) /\ k - 1 \in 0 .. Len(numbers) /\ k - 1 \notin bad
      BY <1>1, <2>1, <2>2, <2>4
    <3>2. PICK f : Upto(numbers, k - 1, f)
      BY <3>1
    <3> DEFINE g == [n \in 0 .. k |-> IF n = k THEN f[k - 1] + numbers[k] ELSE f[n]]
    <3>3. ASSUME NEW n \in 0 .. k
          PROVE  g[n] = IF n = 0 THEN 0 ELSE g[n - 1] + numbers[n]
      <4>1. CASE n = k
        BY <3>1, <4>1
      <4>2. CASE n # k
        <5>1. n \in 0 .. k - 1
          BY <3>1, <4>2
        <5>2. f[n] = IF n = 0 THEN 0 ELSE f[n - 1] + numbers[n]
          BY <3>2, <5>1, Zenon DEF Upto
        <5>3. n # 0 => n - 1 \in 0 .. k /\ n - 1 # k
          BY <3>1, <5>1
        <5>4. QED
          BY <4>2, <5>2, <5>3
      <4>3. QED
        BY <4>1, <4>2
    <3>4. Upto(numbers, k, g)
      <4>1. g = [n \in 0 .. k |-> g[n]]
        OBVIOUS
      <4>2. QED
        BY <3>3, <4>1, Zenon DEF Upto
    <3>5. QED
      BY <2>2, <3>4
  <2>5. QED
    BY <2>3, <2>4
<1>3. \E f : Upto(numbers, Len(numbers), f)
  BY <1>1, <1>2
<1>4. Sums(numbers) = CHOOSE f : Upto(numbers, Len(numbers), f)
  BY DEF Sums, Upto
<1>5. QED
  BY <1>3, <1>4, Zenon

\* What its definition says, and that the sums are natural numbers.
LEMMA SumsGiven ==
  ASSUME NEW numbers \in Seq(Nat)
  PROVE  /\ Sums(numbers) \in [0 .. Len(numbers) -> Nat]
         /\ Sums(numbers)[0] = 0
         /\ \A n \in 1 .. Len(numbers) :
              Sums(numbers)[n] = Sums(numbers)[n - 1] + numbers[n]
<1> DEFINE f == Sums(numbers)
           bad == {n \in 0 .. Len(numbers) : f[n] \notin Nat}
<1>1. /\ Len(numbers) \in Nat
      /\ \A n \in 1 .. Len(numbers) : numbers[n] \in Nat
  OBVIOUS
<1>2. f = [n \in 0 .. Len(numbers) |-> IF n = 0 THEN 0 ELSE f[n - 1] + numbers[n]]
  BY SumsDefined, Zenon DEF Upto
<1> HIDE DEF f
<1>3. DOMAIN f = 0 .. Len(numbers)
  BY <1>2, Zenon
<1>4. \A n \in 0 .. Len(numbers) : f[n] = IF n = 0 THEN 0 ELSE f[n - 1] + numbers[n]
  BY <1>2, Zenon
<1>5. /\ f[0] = 0
      /\ \A n \in 1 .. Len(numbers) : f[n] = f[n - 1] + numbers[n]
  BY <1>1, <1>4
<1>6. ASSUME bad # {} PROVE FALSE
  <2>1. bad \in SUBSET Nat
    BY <1>1
  <2>2. PICK n \in bad : \A m \in bad : n <= m
    <3> HIDE DEF bad
    <3>1. QED
      BY <1>6, <2>1, LeastRefuted
  <2>3. n \in 0 .. Len(numbers) /\ n # 0
    BY <1>5, <2>2
  <2>4. f[n - 1] \in Nat /\ f[n] = f[n - 1] + numbers[n] /\ numbers[n] \in Nat
    BY <1>1, <1>5, <2>2, <2>3
  <2>5. QED
    BY <2>2, <2>4
<1>7. f \in [0 .. Len(numbers) -> Nat]
  <2>1. \A n \in 0 .. Len(numbers) : f[n] \in Nat
    BY <1>6
  <2>2. QED
    BY <1>2, <2>1, Zenon
<1>8. QED
  BY <1>5, <1>7 DEF f

\* The sums grow.
LEMMA SumsGrow ==
  ASSUME NEW numbers \in Seq(Nat), NEW m \in 0 .. Len(numbers),
         NEW n \in m .. Len(numbers)
  PROVE  Sums(numbers)[m] <= Sums(numbers)[n]
<1> DEFINE f == Sums(numbers)
           bad == {k \in m .. Len(numbers) : ~ f[m] <= f[k]}
<1>0. /\ \A k \in 0 .. Len(numbers) : f[k] \in Nat
      /\ \A k \in 1 .. Len(numbers) : f[k] = f[k - 1] + numbers[k]
  BY SumsGiven
<1> HIDE DEF f
<1>1. /\ Len(numbers) \in Nat /\ m \in Nat
      /\ \A k \in 1 .. Len(numbers) : numbers[k] \in Nat
      /\ \A k \in 0 .. Len(numbers) : f[k] \in Nat
      /\ \A k \in 1 .. Len(numbers) : f[k] = f[k - 1] + numbers[k]
  BY <1>0
<1>2. ASSUME bad # {} PROVE FALSE
  <2>1. bad \in SUBSET Nat
    BY <1>1
  <2>2. PICK k \in bad : \A j \in bad : k <= j
    <3> HIDE DEF bad
    <3>1. QED
      BY <1>2, <2>1, LeastRefuted
  <2>3. k # m /\ k \in 1 .. Len(numbers) /\ k - 1 \in m .. Len(numbers) /\ k - 1 \notin bad
    <3>1. k \in m .. Len(numbers) /\ k # m
      BY <1>1, <2>2
    <3>2. k \in 1 .. Len(numbers) /\ k - 1 \in m .. Len(numbers) /\ ~ k <= k - 1
      BY <1>1, <3>1
    <3>3. k - 1 \notin bad
      <4> HIDE DEF bad
      <4>1. QED
        BY <2>2, <3>2
    <3>4. QED
      BY <3>1, <3>2, <3>3
  <2>4. f[m] <= f[k - 1] /\ f[k] = f[k - 1] + numbers[k] /\ numbers[k] \in Nat
        /\ f[k - 1] \in Nat /\ f[m] \in Nat
    BY <1>1, <2>3
  <2>5. QED
    BY <2>2, <2>4
<1>3. QED
  BY <1>2 DEF f

\* Numbers that are each at most those of another sequence have no larger sum.
LEMMA SumsBelow ==
  ASSUME NEW small \in Seq(Nat), NEW large \in Seq(Nat), Len(small) = Len(large),
         \A n \in 1 .. Len(small) : small[n] <= large[n]
  PROVE  Total(small) <= Total(large)
<1> DEFINE f == Sums(small)
           g == Sums(large)
           bad == {k \in 0 .. Len(small) : ~ f[k] <= g[k]}
<1>a. /\ \A k \in 0 .. Len(small) : f[k] \in Nat
      /\ \A k \in 1 .. Len(small) : f[k] = f[k - 1] + small[k]
      /\ f[0] = 0
  BY SumsGiven
<1>b. /\ \A k \in 0 .. Len(large) : g[k] \in Nat
      /\ \A k \in 1 .. Len(large) : g[k] = g[k - 1] + large[k]
      /\ g[0] = 0
  BY SumsGiven
<1> HIDE DEF f, g
<1>1. /\ Len(small) \in Nat
      /\ \A k \in 1 .. Len(small) : small[k] \in Nat /\ large[k] \in Nat
      /\ \A k \in 0 .. Len(small) : f[k] \in Nat /\ g[k] \in Nat
      /\ \A k \in 1 .. Len(small) :
           f[k] = f[k - 1] + small[k] /\ g[k] = g[k - 1] + large[k]
      /\ f[0] = 0 /\ g[0] = 0
  BY <1>a, <1>b
<1>2. ASSUME bad # {} PROVE FALSE
  <2>1. bad \in SUBSET Nat
    BY <1>1
  <2>2. PICK k \in bad : \A j \in bad : k <= j
    <3> HIDE DEF bad
    <3>1. QED
      BY <1>2, <2>1, LeastRefuted
  <2>3. k # 0 /\ k \in 1 .. Len(small) /\ k - 1 \in 0 .. Len(small) /\ k - 1 \notin bad
    BY <1>1, <2>1, <2>2
  <2>4. /\ f[k - 1] <= g[k - 1] /\ small[k] <= large[k]
        /\ f[k] = f[k - 1] + small[k] /\ g[k] = g[k - 1] + large[k]
        /\ f[k - 1] \in Nat /\ g[k - 1] \in Nat /\ small[k] \in Nat /\ large[k] \in Nat
    BY <1>1, <2>3
  <2>5. QED
    BY <2>2, <2>4
<1>3. QED
  BY <1>1, <1>2 DEF Total, f, g

\* One more in one place is one more in the sum.
LEMMA SumsBump ==
  ASSUME NEW before \in Seq(Nat), NEW after \in Seq(Nat), Len(before) = Len(after),
         NEW j \in 1 .. Len(before), after[j] = before[j] + 1,
         \A n \in 1 .. Len(before) : n # j => after[n] = before[n]
  PROVE  Total(after) = Total(before) + 1
<1> DEFINE f == Sums(before)
           g == Sums(after)
           less == {k \in 0 .. Len(before) : k < j /\ g[k] # f[k]}
           more == {k \in 0 .. Len(before) : k >= j /\ g[k] # f[k] + 1}
<1>1. /\ Len(before) \in Nat /\ j \in Nat /\ j \in 1 .. Len(before)
      /\ \A k \in 1 .. Len(before) : before[k] \in Nat /\ after[k] \in Nat
  <2> HIDE DEF f, g, less, more
  <2>1. /\ Len(before) \in Nat /\ before \in [1 .. Len(before) -> Nat]
        /\ after \in [1 .. Len(after) -> Nat]
    OBVIOUS
  <2>2. j \in Nat
    BY <2>1
  <2>3. QED
    BY <2>1, <2>2
<1>2. /\ \A k \in 0 .. Len(before) : f[k] \in Nat
      /\ \A k \in 1 .. Len(before) : f[k] = f[k - 1] + before[k]
      /\ f[0] = 0
  BY SumsGiven
<1>3. /\ \A k \in 0 .. Len(before) : g[k] \in Nat
      /\ \A k \in 1 .. Len(before) : g[k] = g[k - 1] + after[k]
      /\ g[0] = 0
  <2>1. /\ \A k \in 0 .. Len(after) : g[k] \in Nat
        /\ \A k \in 1 .. Len(after) : g[k] = g[k - 1] + after[k]
        /\ g[0] = 0
    BY SumsGiven
  <2> HIDE DEF f, g, less, more
  <2>2. QED
    BY <2>1
<1> HIDE DEF f, g
<1>4. ASSUME less # {} PROVE FALSE
  <2>1. less \in SUBSET Nat
    BY <1>1
  <2>2. PICK k \in less : \A m \in less : k <= m
    <3> HIDE DEF less
    <3>1. QED
      BY <1>4, <2>1, LeastRefuted
  <2>3. /\ k \in 1 .. Len(before) /\ k - 1 \in 0 .. Len(before)
        /\ k - 1 \notin less /\ k < j
    <3>1. k \in 0 .. Len(before) /\ k < j /\ k # 0
      BY <1>2, <1>3, <2>2
    <3>2. k \in 1 .. Len(before) /\ k - 1 \in 0 .. Len(before) /\ ~ k <= k - 1
      BY <1>1, <3>1
    <3>3. k - 1 \notin less
      <4> HIDE DEF less
      <4>1. QED
        BY <2>2, <3>2
    <3>4. QED
      BY <3>1, <3>2, <3>3
  <2>4. g[k - 1] = f[k - 1]
    BY <1>1, <2>3
  <2>5. after[k] = before[k]
    <3>1. k # j
      BY <1>1, <2>3
    <3>2. QED
      BY <2>3, <3>1
  <2>6. g[k] = f[k]
    BY <1>2, <1>3, <2>3, <2>4, <2>5
  <2>7. QED
    BY <2>2, <2>6
<1>5. ASSUME more # {} PROVE FALSE
  <2>1. more \in SUBSET Nat
    BY <1>1
  <2>2. PICK k \in more : \A m \in more : k <= m
    <3> HIDE DEF more
    <3>1. QED
      BY <1>5, <2>1, LeastRefuted
  <2>3. /\ k \in 1 .. Len(before) /\ k - 1 \in 0 .. Len(before)
        /\ k - 1 \notin more /\ k >= j /\ k - 1 \notin less
    <3>1. k \in 0 .. Len(before) /\ k >= j
      BY <2>2
    <3>2. k \in 1 .. Len(before) /\ k - 1 \in 0 .. Len(before) /\ ~ k <= k - 1
      BY <1>1, <3>1
    <3>3. k - 1 \notin more
      <4> HIDE DEF more
      <4>1. QED
        BY <2>2, <3>2
    <3>4. QED
      BY <1>4, <3>1, <3>2, <3>3
  <2>4. f[k] = f[k - 1] + before[k] /\ g[k] = g[k - 1] + after[k]
    BY <1>2, <1>3, <2>3
  <2>5. /\ f[k - 1] \in Nat /\ before[k] \in Nat /\ g[k - 1] \in Nat
    BY <1>1, <1>2, <1>3, <2>3
  <2>6. CASE k = j
    <3>1. g[k - 1] = f[k - 1]
      BY <1>1, <2>3, <2>6
    <3>2. after[k] = before[k] + 1
      BY <2>6
    <3> HIDE DEF more, less
    <3>3. g[k] = f[k] + 1
      BY <2>4, <2>5, <3>1, <3>2
    <3> USE DEF more, less
    <3>4. QED
      BY <2>2, <3>3
  <2>7. CASE k # j
    <3>1. g[k - 1] = f[k - 1] + 1
      BY <1>1, <2>3, <2>7
    <3>2. after[k] = before[k]
      BY <2>3, <2>7
    <3>3. g[k] = f[k] + 1
      BY <2>4, <2>5, <3>1, <3>2
    <3>4. QED
      BY <2>2, <3>3
  <2>8. QED
    BY <2>6, <2>7
<1>6. Len(before) \in 0 .. Len(before) /\ Len(before) >= j
  BY <1>1
<1>7. g[Len(before)] = f[Len(before)] + 1
  BY <1>5, <1>6
<1>8. QED
  BY <1>7 DEF Total, f, g

\* The budgets of the steps of a workflow; the retries its step i is allowed
\* and those counted for it; what the steps before step i are allowed.
Budgets(wf) == StepBudgets(wf, DOMAIN wf.steps)
Allowed(wf, i) == RetryBudget(FailureActions(wf, i))
Tried(wf, counts, i) == [j \in DOMAIN FailureActions(wf, i) |-> counts[<<i, j>>]]
Retried(wf, counts, i) ==
  IF i \in DOMAIN wf.steps THEN Total(Tried(wf, counts, i)) ELSE 0
Before(wf, i) == Sums(Budgets(wf))[i - 1]

\* A total is a natural number.
LEMMA TotalTyped == ASSUME NEW numbers \in Seq(Nat) PROVE Total(numbers) \in Nat
<1>1. Len(numbers) \in 0 .. Len(numbers)
  OBVIOUS
<1>2. QED
  BY <1>1, SumsGiven DEF Total

\* So are the retries a step is allowed.
LEMMA LimitsAreNumbers ==
  ASSUME NEW wf, Regular(wf), NEW i \in DOMAIN wf.steps
  PROVE  /\ RetryLimits(FailureActions(wf, i)) \in Seq(Nat)
         /\ Len(RetryLimits(FailureActions(wf, i))) = Len(FailureActions(wf, i))
         /\ Allowed(wf, i) \in Nat
<1> DEFINE list == FailureActions(wf, i)
<1>1. list \in Seq(Action)
  BY ListsTyped
<1> HIDE DEF list
<1>2. ASSUME NEW j \in DOMAIN list PROVE EffectiveLimit(list[j]) \in Nat
  <2>1. list[j] \in Action
    BY <1>1
  <2>2. QED
    BY <2>1 DEF EffectiveLimit, Action, Unset
<1>3. RetryLimits(list) \in Seq(Nat) /\ Len(RetryLimits(list)) = Len(list)
  BY <1>1, <1>2 DEF RetryLimits
<1>4. QED
  BY <1>3, TotalTyped DEF list, Allowed, RetryBudget

\* The budget of a step is an attempt and the retries it is allowed.
LEMMA BudgetsAreNumbers ==
  ASSUME NEW wf, Regular(wf)
  PROVE  /\ Budgets(wf) \in Seq(Nat) /\ Len(Budgets(wf)) = Len(wf.steps)
         /\ DOMAIN wf.steps = 1 .. Len(wf.steps) /\ Len(wf.steps) \in Nat
         /\ \A i \in DOMAIN wf.steps : Budgets(wf)[i] = 1 + Allowed(wf, i)
<1>1. wf.steps \in Seq(Step)
  BY DEF Regular, Workflow
<1>2. \A i \in DOMAIN wf.steps : Allowed(wf, i) \in Nat
  BY LimitsAreNumbers
<1>3. Budgets(wf) = [i \in DOMAIN wf.steps |-> 1 + Allowed(wf, i)]
  BY DEF Budgets, StepBudgets, Allowed
<1>4. QED
  BY <1>1, <1>2, <1>3

\* What comes before a step is a natural number.
LEMMA BeforeTyped ==
  ASSUME NEW wf, Regular(wf), NEW i \in 1 .. Len(wf.steps) + 1
  PROVE  Before(wf, i) \in Nat
<1>1. i - 1 \in 0 .. Len(Budgets(wf)) /\ Budgets(wf) \in Seq(Nat)
  BY BudgetsAreNumbers
<1>2. QED
  BY <1>1, SumsGiven DEF Before

\* What comes before a later step covers the attempts at this one.
LEMMA StepCovered ==
  ASSUME NEW wf, Regular(wf), NEW i \in DOMAIN wf.steps,
         NEW k \in i + 1 .. Len(wf.steps) + 1
  PROVE  Before(wf, i) + 1 + Allowed(wf, i) <= Before(wf, k)
<1> DEFINE b == Budgets(wf)
<1>1. /\ b \in Seq(Nat) /\ Len(b) = Len(wf.steps) /\ Len(wf.steps) \in Nat
      /\ i \in 1 .. Len(b) /\ b[i] = 1 + Allowed(wf, i)
  BY BudgetsAreNumbers
<1> HIDE DEF b
<1>2. Sums(b)[i] = Sums(b)[i - 1] + b[i]
  BY <1>1, SumsGiven
<1>3. i \in 0 .. Len(b) /\ k - 1 \in i .. Len(b)
  BY <1>1
<1>4. Sums(b)[i] <= Sums(b)[k - 1]
  BY <1>1, <1>3, SumsGrow
<1>5. Sums(b)[i - 1] \in Nat /\ Allowed(wf, i) \in Nat
  <2>1. i - 1 \in 0 .. Len(b)
    BY <1>1
  <2>2. QED
    BY <1>1, <2>1, SumsGiven, LimitsAreNumbers
<1>6. Sums(b)[i - 1] + 1 + Allowed(wf, i) <= Sums(b)[k - 1]
  <2>1. b[i] = 1 + Allowed(wf, i)
    BY <1>1
  <2>2. Sums(b)[i - 1] + b[i] <= Sums(b)[k - 1]
    BY <1>2, <1>4
  <2>3. \A m, n \in Nat : m + (1 + n) = m + 1 + n
    OBVIOUS
  <2>4. QED
    BY <1>5, <2>1, <2>2, <2>3
<1>7. QED
  BY <1>6 DEF Before, b

\* The retries counted at a step are numbers, one for each failure action.
LEMMA TriedTyped ==
  ASSUME NEW wf, Regular(wf), NEW counts \in Counts, NEW i \in DOMAIN wf.steps
  PROVE  /\ Tried(wf, counts, i) \in Seq(Nat)
         /\ Len(Tried(wf, counts, i)) = Len(FailureActions(wf, i))
         /\ FailureActions(wf, i) \in Seq(Action)
         /\ DOMAIN FailureActions(wf, i) = 1 .. Len(FailureActions(wf, i))
<1>1. /\ FailureActions(wf, i) \in Seq(Action)
      /\ \A j \in DOMAIN FailureActions(wf, i) : <<i, j>> \in Sites
  BY ListsTyped
<1>2. \A j \in DOMAIN FailureActions(wf, i) : counts[<<i, j>>] \in Nat
  BY <1>1 DEF Counts
<1> DEFINE list == FailureActions(wf, i)
           tried == Tried(wf, counts, i)
<1>3. /\ list \in Seq(Action) /\ tried = [j \in DOMAIN list |-> counts[<<i, j>>]]
      /\ \A j \in DOMAIN list : counts[<<i, j>>] \in Nat
  BY <1>1, <1>2 DEF Tried
<1> HIDE DEF list, tried
<1>4. DOMAIN list = 1 .. Len(list) /\ Len(list) \in Nat
  BY <1>3
<1>5. tried \in [1 .. Len(list) -> Nat]
  BY <1>3, <1>4
<1>6. tried \in Seq(Nat) /\ Len(tried) = Len(list)
  BY <1>4, <1>5
<1>7. QED
  BY <1>3, <1>4, <1>6 DEF list, tried

\* So is their sum.
LEMMA RetriedTyped ==
  ASSUME NEW wf, Regular(wf), NEW counts \in Counts, NEW i
  PROVE  Retried(wf, counts, i) \in Nat
BY TriedTyped, TotalTyped DEF Retried

\* The retries counted at a step are within what is allowed for it.
LEMMA RetriedWithin ==
  ASSUME NEW f, Regular(doc[f.wf]), f.counts \in Counts, Spent(f),
         NEW i \in DOMAIN doc[f.wf].steps
  PROVE  Retried(doc[f.wf], f.counts, i) <= Allowed(doc[f.wf], i)
<1> DEFINE wf == doc[f.wf]
           list == FailureActions(wf, i)
           tried == Tried(wf, f.counts, i)
           limits == RetryLimits(list)
<1>1. /\ tried \in Seq(Nat) /\ Len(tried) = Len(list) /\ list \in Seq(Action)
  BY TriedTyped
<1>2. limits \in Seq(Nat) /\ Len(limits) = Len(list)
  BY LimitsAreNumbers
<1>3. ASSUME NEW j \in 1 .. Len(list) PROVE tried[j] <= limits[j]
  <2>1. j \in DOMAIN list /\ <<i, j>> \in Sites
    BY <1>1, ListsTyped
  <2>2. i \in 1 .. MaxSteps /\ j \in 1 .. MaxActions
    BY <2>1 DEF Sites
  <2>3. tried[j] = f.counts[<<i, j>>] /\ f.counts[<<i, j>>] \in Nat
    BY <2>1 DEF Tried, Counts
  <2>4. CASE f.counts[<<i, j>>] = 0
    <3>1. limits[j] \in Nat
      BY <1>2
    <3>2. QED
      BY <2>3, <2>4, <3>1
  <2>5. CASE f.counts[<<i, j>>] # 0
    <3>1. f.counts[<<i, j>>] > 0
      BY <2>3, <2>5
    <3>2. list[j].type = "retry" /\ f.counts[<<i, j>>] <= EffectiveLimit(list[j])
      BY <2>2, <3>1 DEF Spent
    <3>3. QED
      BY <2>1, <2>3, <3>2 DEF RetryLimits
  <2>6. QED
    BY <2>4, <2>5
<1>4. Total(tried) <= Total(limits)
  <2> HIDE DEF tried, limits
  <2>1. QED
    BY <1>1, <1>2, <1>3, SumsBelow
<1>5. QED
  BY <1>4 DEF Retried, Allowed, RetryBudget

\* Counting a retry of a step adds one to them.
LEMMA RetriedOnce ==
  ASSUME NEW wf, Regular(wf), NEW counts \in Counts, NEW i \in DOMAIN wf.steps,
         NEW k \in DOMAIN FailureActions(wf, i)
  PROVE  Retried(wf, CountRetry(counts, <<i, k>>), i) = Retried(wf, counts, i) + 1
<1> DEFINE list == FailureActions(wf, i)
           after == CountRetry(counts, <<i, k>>)
           old == Tried(wf, counts, i)
           new == Tried(wf, after, i)
<1>1. <<i, k>> \in Sites /\ \A j \in DOMAIN list : <<i, j>> \in Sites
  BY ListsTyped
<1>2. after \in Counts
  BY <1>1 DEF CountRetry, Counts
<1>3. /\ old \in Seq(Nat) /\ new \in Seq(Nat) /\ Len(old) = Len(new)
      /\ DOMAIN list = 1 .. Len(old)
  <2> HIDE DEF after
  <2>1. QED
    BY <1>2, TriedTyped
<1>4. new[k] = old[k] + 1
  BY <1>1 DEF Tried, CountRetry, Counts
<1>5. \A j \in 1 .. Len(old) : j # k => new[j] = old[j]
  BY <1>1, <1>3 DEF Tried, CountRetry, Counts
<1>6. Total(new) = Total(old) + 1
  <2> HIDE DEF old, new, list
  <2>1. QED
    BY <1>3, <1>4, <1>5, SumsBump DEF list
<1>7. QED
  BY <1>6 DEF Retried

\* All there is to do at the steps before, and the retries of this one, is less
\* than the limit of a workflow that has steps.
LEMMA LimitCovers ==
  ASSUME NEW wf, Regular(wf), MaxIterations(wf) < MaxU128, wf.steps # <<>>,
         NEW i \in 1 .. Len(wf.steps) + 1, NEW n \in Nat,
         n <= IF i \in DOMAIN wf.steps THEN Allowed(wf, i) ELSE 0
  PROVE  Before(wf, i) + n < MaxIterations(wf)
<1> DEFINE budget == Total(Budgets(wf))
           last == Len(wf.steps) + 1
<1>1. /\ Len(wf.steps) \in Nat \ {0} /\ DOMAIN wf.steps = 1 .. Len(wf.steps)
      /\ Budgets(wf) \in Seq(Nat) /\ Len(Budgets(wf)) = Len(wf.steps)
  <2>1. wf.steps \in Seq(Step)
    BY DEF Regular, Workflow
  <2>2. QED
    BY <2>1, BudgetsAreNumbers
<1>2. Before(wf, last) = budget /\ budget \in Nat
  <2>1. last - 1 = Len(Budgets(wf))
    BY <1>1
  <2>2. Before(wf, last) = budget
    BY <2>1 DEF Before, Total
  <2>3. QED
    BY <1>1, <2>2, TotalTyped
<1>3. 1 <= budget
  <2>1. 1 \in DOMAIN wf.steps /\ last \in 1 + 1 .. Len(wf.steps) + 1
    BY <1>1
  <2>2. Before(wf, 1) + 1 + Allowed(wf, 1) <= budget
    BY <1>2, <2>1, StepCovered
  <2>3. Before(wf, 1) \in Nat /\ Allowed(wf, 1) \in Nat
    <3>1. 1 \in 1 .. Len(wf.steps) + 1
      BY <1>1
    <3>2. QED
      BY <2>1, <3>1, BeforeTyped, LimitsAreNumbers
  <2>4. QED
    BY <1>2, <2>2, <2>3
<1>4. Before(wf, i) + n <= budget
  <2>1. CASE i \in DOMAIN wf.steps
    <3>1. last \in i + 1 .. Len(wf.steps) + 1
      BY <1>1, <2>1
    <3>2. Before(wf, i) + 1 + Allowed(wf, i) <= budget
      BY <1>2, <2>1, <3>1, StepCovered
    <3>3. Before(wf, i) \in Nat /\ Allowed(wf, i) \in Nat
      BY <2>1, BeforeTyped, LimitsAreNumbers
    <3>4. QED
      BY <1>2, <2>1, <3>2, <3>3
  <2>2. CASE i \notin DOMAIN wf.steps
    <3>1. i = last /\ n = 0
      BY <1>1, <2>2
    <3>2. QED
      BY <1>2, <3>1
  <2>3. QED
    BY <2>1, <2>2
<1>5. budget < MaxIterations(wf)
  <2> DEFINE floor == 10 * Cardinality(DOMAIN wf.steps)
             wanted == IF 2 * budget >= floor THEN 2 * budget ELSE floor
  <2>1. MaxIterations(wf) = Saturate(wanted)
    BY DEF MaxIterations, IterationLimit, Budgets
  <2>2. Saturate(wanted) < MaxU128
    BY <2>1
  <2> HIDE DEF wanted
  <2>3. wanted \in 0 .. MaxU128 /\ Saturate(wanted) = wanted
    BY <2>2, BoundsAssumption DEF Saturate
  <2>4. floor \in Nat
    <3>1. Cardinality(DOMAIN wf.steps) = Len(wf.steps)
      BY <1>1, FS_Interval
    <3>2. QED
      BY <1>1, <3>1
  <2> HIDE DEF floor, budget
  <2>5. wanted >= 2 * budget
    BY <1>2, <2>4 DEF wanted
  <2>6. QED
    BY <1>2, <1>3, <2>1, <2>3, <2>5
<1>6. Before(wf, i) \in Nat /\ MaxIterations(wf) \in Nat
  BY BeforeTyped, LimitTyped
<1>7. QED
  BY <1>2, <1>4, <1>5, <1>6

-----------------------------------------------------------------------------
(***************************************************************************)
(* The invariant.  An activation of a workflow whose gotos go forward has, *)
(* of the limit it started from, spent no more than the budgets of the     *)
(* steps before its own, the retries counted at its own, and the attempt   *)
(* under way, which is counted again once its retry is scheduled.  A       *)
(* decision to go on names a later step.                                   *)
(***************************************************************************)
Trying == Attempting \ {"scheduled"}

Spends(f) ==
  Before(doc[f.wf], f.step) + Retried(doc[f.wf], f.counts, f.step)
    + (IF f.pc \in Trying THEN 1 ELSE 0)

Covered(f) ==
  /\ f.step \in 1 .. Len(doc[f.wf].steps) + 1
  /\ MaxIterations(doc[f.wf]) <= f.left + Spends(f)

Onward(f) ==
  f.pc \in {"delay", "act"} /\ f.decision.kind = "next" =>
    f.decision.step \in f.step + 1 .. Len(doc[f.wf].steps) + 1

Paid(f) ==
  /\ f.pc = "enter" => f.step = 1
  /\ f.pc \in Attempting \union {"loop"} /\ GoesForward(doc[f.wf]) =>
       Covered(f) /\ Onward(f)

Solvent == Thrifty /\ \A d \in Depths : Paid(frame[d])

\* The first matching action, if it goes on, goes forward.
LEMMA PerformForward ==
  ASSUME NEW wf, NEW i \in Nat, NEW list, NEW j,
         wf.steps \in Seq(Step),
         list[j].type = "goto" /\ list[j].step # 0 => list[j].step > i,
         NEW result, NEW responded, NEW dec \in Perform(wf, i, list, j, result, responded),
         dec.kind = "next"
  PROVE  dec.step \in i + 1 .. Len(wf.steps) + 1
<1>1. list[j].type = "goto"
  <2>1. CASE list[j].type = "end"
    BY <2>1 DEF Perform, PerformEnd, Fail, Done, NoDecision
  <2>2. CASE list[j].type \notin {"end", "goto"}
    BY <2>2 DEF Perform, PerformRetry, Retry, Fail, NoDecision
  <2>3. QED
    BY <2>1, <2>2
<1>2. dec = PerformGoto(list[j], wf)
  BY <1>1 DEF Perform
<1>3. list[j].step \in DOMAIN wf.steps /\ dec = GoOn(list[j].step)
  BY <1>2 DEF PerformGoto, GoOn, Leave, Fail, NoDecision
<1>4. dec.step = list[j].step
  BY <1>3 DEF GoOn, NoDecision
<1>5. list[j].step \in 1 .. Len(wf.steps) /\ Len(wf.steps) \in Nat
  BY <1>3
<1>6. list[j].step > i
  BY <1>1, <1>5
<1>7. QED
  BY <1>4, <1>5, <1>6

\* In a workflow whose gotos go forward, so does routing.
LEMMA RoutesForward ==
  ASSUME NEW wf, Regular(wf), GoesForward(wf), NEW i \in DOMAIN wf.steps,
         NEW counts, NEW result, NEW responded,
         NEW dec \in Routes(wf, i, counts, result, responded), dec.kind = "next"
  PROVE  dec.step \in i + 1 .. Len(wf.steps) + 1
<1> DEFINE success == SuccessActions(wf, i)
           failure == FailureActions(wf, i)
<1>1. wf.steps \in Seq(Step) /\ i \in Nat /\ i \in 1 .. Len(wf.steps) /\ Len(wf.steps) \in Nat
  BY DEF Regular, Workflow
<1>2. /\ \A j \in DOMAIN success :
           success[j].type = "goto" /\ success[j].step # 0 => success[j].step > i
      /\ \A j \in DOMAIN failure :
           failure[j].type = "goto" /\ failure[j].step # 0 => failure[j].step > i
  BY DEF GoesForward
<1> HIDE DEF success, failure
<1>3. CASE result = "ok"
  <2>1. PICK m \in Matchings(success) : dec \in SuccessRoutes(wf, i, m, responded)
    BY <1>3 DEF Routes, success
  <2>2. CASE dec = GoOn(i + 1)
    BY <1>1, <2>2 DEF GoOn, NoDecision
  <2>3. CASE \E j \in First(m) : dec \in Perform(wf, i, success, j, "ok", responded)
    <3>1. PICK j \in First(m) : dec \in Perform(wf, i, success, j, "ok", responded)
      BY <2>3
    <3>2. j \in DOMAIN success
      BY <2>1, <3>1 DEF First, Matchings
    <3>3. success[j].type = "goto" /\ success[j].step # 0 => success[j].step > i
      BY <1>2, <3>2
    <3>4. QED
      BY <1>1, <3>1, <3>3, PerformForward, Zenon
  <2>4. QED
    BY <2>1, <2>2, <2>3 DEF SuccessRoutes, success
<1>4. CASE result # "ok"
  <2>1. PICK m \in Matchings(failure) :
          dec \in FailureRoutes(wf, i, m, counts, result, responded)
    BY <1>4 DEF Routes, failure
  <2> DEFINE live == {j \in m : ~Exhausted(failure[j], counts, <<i, j>>)}
  <2>2. dec \notin {Fail("RetryLimitExceeded"), Fail(result)}
    BY DEF Fail, NoDecision
  <2>3. \E j \in First(live) : dec \in Perform(wf, i, failure, j, result, responded)
    BY <2>1, <2>2 DEF FailureRoutes, failure
  <2>4. PICK j \in First(live) : dec \in Perform(wf, i, failure, j, result, responded)
    BY <2>3
  <2>5. j \in DOMAIN failure
    BY <2>1, <2>4 DEF First, Matchings
  <2>6. failure[j].type = "goto" /\ failure[j].step # 0 => failure[j].step > i
    BY <1>2, <2>5
  <2>7. QED
    BY <1>1, <2>4, <2>6, PerformForward, Zenon
<1>5. QED
  BY <1>3, <1>4

-----------------------------------------------------------------------------
\* An activation that is not between its entry and its end owes nothing.
LEMMA PaidOutside ==
  ASSUME NEW f, f.pc \in {"idle", "finish", "return"} PROVE Paid(f)
BY DEF Paid, Attempting, Outside

\* The same attempt goes on.
Continues(f, g) ==
  /\ f.pc \in Trying /\ g.pc \in Trying
  /\ g.wf = f.wf /\ g.step = f.step /\ g.left = f.left /\ g.counts = f.counts

\* Such an attempt stays paid for.
LEMMA PaidContinues ==
  ASSUME NEW f, Paid(f), NEW g, Continues(f, g), GoesForward(doc[f.wf]) => Onward(g)
  PROVE  Paid(g)
<1>1. Trying \subseteq Attempting /\ "enter" \notin Trying
  BY DEF Trying, Attempting, Outside
<1>2. g.pc # "enter" /\ f.pc \in Attempting
  BY <1>1 DEF Continues
<1>3. Spends(g) = Spends(f)
  BY DEF Spends, Continues
<1>4. ASSUME GoesForward(doc[g.wf]) PROVE Covered(g) /\ Onward(g)
  <2>1. Covered(f)
    BY <1>2, <1>4 DEF Paid, Continues
  <2>2. QED
    BY <1>3, <1>4, <2>1 DEF Covered, Continues
<1>5. QED
  BY <1>2, <1>4 DEF Paid

\* What an activation that is placed has to go by.
LEMMA SpendsTyped ==
  ASSUME Typed, NEW f \in Frame, f.wf \in Workflows,
         f.step \in 1 .. Len(doc[f.wf].steps) + 1
  PROVE  /\ Regular(doc[f.wf]) /\ f.counts \in Counts /\ f.left \in Nat
         /\ Before(doc[f.wf], f.step) \in Nat
         /\ Retried(doc[f.wf], f.counts, f.step) \in Nat
         /\ MaxIterations(doc[f.wf]) \in Nat
<1>1. Regular(doc[f.wf]) /\ f.counts \in Counts /\ f.left \in Nat
  BY DocumentsRegular DEF Typed, TypeOK, Frame
<1>2. QED
  BY <1>1, BeforeTyped, RetriedTyped, LimitTyped

\* The loop is entered with the limit unspent.
LEMMA PaidEnter ==
  ASSUME Typed, NEW f \in Frame, f.wf \in Workflows, f.step = 1, f.pc = "loop",
         f.left = MaxIterations(doc[f.wf])
  PROVE  Paid(f)
<1>1. f.step \in 1 .. Len(doc[f.wf].steps) + 1
  <2>1. Regular(doc[f.wf])
    BY DocumentsRegular DEF Typed, TypeOK
  <2>2. Len(doc[f.wf].steps) \in Nat
    BY <2>1, BudgetsAreNumbers
  <2>3. QED
    BY <2>2
<1>2. /\ Before(doc[f.wf], f.step) \in Nat /\ MaxIterations(doc[f.wf]) \in Nat
      /\ Retried(doc[f.wf], f.counts, f.step) \in Nat
  BY <1>1, SpendsTyped
<1>3. Spends(f) = Before(doc[f.wf], f.step) + Retried(doc[f.wf], f.counts, f.step) + 0
  BY DEF Spends, Trying, Attempting, Outside
<1>4. Covered(f)
  BY <1>1, <1>2, <1>3 DEF Covered
<1>5. QED
  BY <1>4 DEF Paid, Onward

\* The iteration taken is the attempt begun.
LEMMA PaidBegin ==
  ASSUME Typed, NEW f \in Frame, f.wf \in Workflows, Paid(f), f.pc = "loop",
         f.left > 0, NEW g, g.pc = "begun", g.left = f.left - 1,
         g.wf = f.wf /\ g.step = f.step /\ g.counts = f.counts
  PROVE  Paid(g)
<1>1. "begun" \in Trying /\ "loop" \notin Trying
  BY DEF Trying, Attempting, Locations, Outside
<1>2. ASSUME GoesForward(doc[g.wf]) PROVE Covered(g)
  <2>1. Covered(f)
    BY <1>2 DEF Paid
  <2> DEFINE paid == Before(doc[f.wf], f.step)
             again == Retried(doc[f.wf], f.counts, f.step)
             limit == MaxIterations(doc[f.wf])
  <2>2. paid \in Nat /\ again \in Nat /\ limit \in Nat /\ f.left \in Nat
    BY <2>1, SpendsTyped DEF Covered
  <2>3. Spends(f) = paid + again + 0 /\ Spends(g) = paid + again + 1
    BY <1>1 DEF Spends
  <2>4. limit <= f.left + Spends(f)
    BY <2>1 DEF Covered
  <2> HIDE DEF paid, again, limit
  <2>5. limit <= g.left + Spends(g)
    BY <2>2, <2>3, <2>4
  <2>6. QED
    BY <2>1, <2>5 DEF Covered, limit
<1>3. QED
  BY <1>2 DEF Paid, Onward

\* Going on to a later step: the attempt and the retries at this one are within
\* the budget of this step, which the steps before the later one include.
LEMMA PaidNext ==
  ASSUME Typed, NEW f \in Frame, f.wf \in Workflows, Paid(f), Spent(f), f.pc = "act",
         f.step \in DOMAIN doc[f.wf].steps, f.decision.kind = "next",
         NEW g, g.pc = "loop", g.step = f.decision.step,
         g.wf = f.wf /\ g.left = f.left /\ g.counts = f.counts
  PROVE  Paid(g)
<1>1. "act" \in Trying /\ "act" \in Attempting /\ "loop" \notin Trying
  BY DEF Trying, Attempting, Locations, Outside
<1>2. ASSUME GoesForward(doc[g.wf]) PROVE Covered(g)
  <2>1. Covered(f) /\ Onward(f)
    BY <1>1, <1>2 DEF Paid
  <2>2. g.step \in f.step + 1 .. Len(doc[f.wf].steps) + 1
    BY <2>1 DEF Onward
  <2> DEFINE paid == Before(doc[f.wf], f.step)
             again == Retried(doc[f.wf], f.counts, f.step)
             allowed == Allowed(doc[f.wf], f.step)
             limit == MaxIterations(doc[f.wf])
             next == Before(doc[f.wf], g.step)
             other == Retried(doc[f.wf], f.counts, g.step)
  <2>3. /\ paid \in Nat /\ again \in Nat /\ limit \in Nat /\ f.left \in Nat
        /\ Regular(doc[f.wf]) /\ f.counts \in Counts
    BY <2>1, SpendsTyped DEF Covered
  <2>4. g.step \in 1 .. Len(doc[f.wf].steps) + 1
    <3>1. f.step \in Nat /\ Len(doc[f.wf].steps) \in Nat
      BY <2>3, BudgetsAreNumbers DEF Frame
    <3>2. QED
      BY <2>2, <3>1
  <2>5. next \in Nat /\ other \in Nat /\ allowed \in Nat
    BY <2>3, <2>4, BeforeTyped, RetriedTyped, LimitsAreNumbers
  <2>6. again <= allowed
    BY <2>3, RetriedWithin
  <2>7. paid + 1 + allowed <= next
    BY <2>2, <2>3, StepCovered
  <2>8. Spends(f) = paid + again + 1 /\ Spends(g) = next + other + 0
    BY <1>1 DEF Spends
  <2>9. limit <= f.left + Spends(f)
    BY <2>1 DEF Covered
  <2> HIDE DEF paid, again, allowed, limit, next, other
  <2>10. limit <= g.left + Spends(g)
    BY <2>3, <2>5, <2>6, <2>7, <2>8, <2>9
  <2>11. QED
    BY <2>4, <2>10 DEF Covered, limit
<1>3. QED
  BY <1>2 DEF Paid, Onward

\* The attempt under way becomes the retry counted.
LEMMA PaidRetry ==
  ASSUME Typed, NEW f \in Frame, f.wf \in Workflows, Paid(f), WithinBudget(f),
         f.pc \in Choosing, f.decision.kind = "retry",
         f.step \in DOMAIN doc[f.wf].steps
  PROVE  Paid(Scheduled(f))
<1> DEFINE wf == doc[f.wf]
           g == Scheduled(f)
<1>1. Choosing \subseteq Trying /\ Trying \subseteq Attempting /\ "scheduled" \notin Trying
  BY DEF Choosing, Recovering, Trying, Attempting, Locations, Outside
<1>2. PICK k \in DOMAIN FailureActions(wf, f.step) : f.decision.site = <<f.step, k>>
  BY DEF WithinBudget, Affordable, RetryAllowed
<1>3. /\ g.wf = f.wf /\ g.pc = "scheduled" /\ g.step = f.step /\ g.left = f.left
      /\ g.counts = CountRetry(f.counts, <<f.step, k>>)
  BY <1>2 DEF Scheduled, Frame
<1> HIDE DEF g
<1>4. ASSUME GoesForward(wf) PROVE Covered(g)
  <2>1. Covered(f)
    BY <1>1, <1>4 DEF Paid
  <2> DEFINE paid == Before(wf, f.step)
             again == Retried(wf, f.counts, f.step)
             limit == MaxIterations(wf)
  <2>2. /\ paid \in Nat /\ again \in Nat /\ limit \in Nat /\ f.left \in Nat
        /\ Regular(wf) /\ f.counts \in Counts
    BY <2>1, SpendsTyped DEF Covered
  <2>3. Retried(wf, g.counts, f.step) = again + 1
    BY <1>2, <1>3, <2>2, RetriedOnce
  <2>4. Spends(f) = paid + again + 1
    BY <1>1 DEF Spends
  <2>5. Spends(g) = paid + (again + 1) + 0
    BY <1>1, <1>3, <2>3 DEF Spends
  <2>6. limit <= f.left + Spends(f)
    BY <2>1 DEF Covered
  <2> HIDE DEF paid, again, limit
  <2>7. limit <= g.left + Spends(g)
    BY <1>3, <2>2, <2>4, <2>5, <2>6
  <2>8. QED
    BY <1>3, <2>1, <2>7 DEF Covered, limit
<1>5. QED
  BY <1>3, <1>4 DEF Paid, Onward, g

\* The retried attempt is at the same step.
LEMMA PaidAgain ==
  ASSUME NEW f, Paid(f), f.pc = "scheduled", NEW g, g.pc = "loop",
         g.wf = f.wf /\ g.step = f.step /\ g.left = f.left /\ g.counts = f.counts
  PROVE  Paid(g)
<1>1. "scheduled" \in Attempting /\ "scheduled" \notin Trying /\ "loop" \notin Trying
  BY DEF Trying, Attempting, Locations, Outside
<1>2. Spends(g) = Spends(f)
  BY <1>1 DEF Spends
<1>3. QED
  BY <1>1, <1>2 DEF Paid, Covered, Onward

-----------------------------------------------------------------------------
\* What a step of the engine does to the activation it changes.
PaidLocal == \E g : Set(g) /\ Local /\ Paid(g)
PaidCall == \E w, l : Call(w, l) /\ Paid([top EXCEPT !.pc = l])
PaidReturn == depth > 0 /\ \E g : ResumeWith(g) /\ Paid(g)

\* It is enough to say of the activation that it is paid for.
LEMMA PaidLocalShape ==
  ASSUME NEW g, Set(g), Local, Paid(g) PROVE PaidLocal
BY DEF PaidLocal

\* What the invariant says of the innermost activation.
LEMMA TopSolvent ==
  ASSUME Solvent
  PROVE  /\ Thrifty /\ Typed /\ top \in Frame /\ WithinBudget(top) /\ Paid(top)
         /\ depth \in Depths /\ frame \in [Depths -> Frame]
         /\ top.pc \notin Outside => top.wf \in Workflows /\ Regular(workflow)
         /\ top.pc \in Attempting => top.step \in DOMAIN workflow.steps
<1>1. Thrifty
  BY DEF Solvent
<1>2. /\ Typed /\ top \in Frame /\ Placed(depth, top) /\ WithinBudget(top)
      /\ depth \in Depths /\ frame \in [Depths -> Frame]
  BY <1>1, TopThrifty
<1>3. Paid(top)
  BY <1>2 DEF Solvent, top
<1>4. QED
  BY <1>1, <1>2, <1>3, TopPlaced DEF Placed, workflow

\* An activation that ends, or is past its last step.
LEMMA PaidEnds ==
  ASSUME Solvent,
         \/ Refuse \/ FailEntry \/ RunOutOfIterations \/ PastLastStep
         \/ ActDone \/ ActError \/ ActReferenceMissing \/ Finish \/ ObserveCancel
         \/ FailReference("RetryReferenceFailed")
  PROVE  PaidLocal
<1>1. top \in Frame
  BY TopSolvent
<1>2. ASSUME NEW g, Set(g), Local, g.pc \in {"idle", "finish", "return"}
      PROVE  PaidLocal
  BY <1>2, PaidOutside, PaidLocalShape
<1>3. ASSUME NEW e
      PROVE  /\ Ended(top, e).pc = "return" /\ Reported(top, e).pc = "return"
             /\ Ended(Admit(top), e).pc = "return"
  BY <1>1 DEF Ended, Reported, Admit, Frame
<1>4. CASE Refuse
  BY <1>2, <1>3, <1>4 DEF Refuse
<1>5. CASE FailEntry
  BY <1>2, <1>3, <1>5 DEF FailEntry
<1>6. CASE RunOutOfIterations
  BY <1>2, <1>3, <1>6 DEF RunOutOfIterations
<1>7. CASE PastLastStep
  BY <1>1, <1>2, <1>7 DEF PastLastStep, Frame
<1>8. CASE ActDone
  BY <1>1, <1>2, <1>8 DEF ActDone, Frame
<1>9. CASE ActError
  BY <1>2, <1>3, <1>9 DEF ActError
<1>10. CASE ActReferenceMissing \/ FailReference("RetryReferenceFailed")
  BY <1>2, <1>3, <1>10 DEF ActReferenceMissing, FailReference
<1>11. CASE Finish
  BY <1>2, <1>3, <1>11 DEF Finish
<1>12. CASE ObserveCancel
  BY <1>2, <1>3, <1>12 DEF ObserveCancel
<1>13. QED
  BY <1>4, <1>5, <1>6, <1>7, <1>8, <1>9, <1>10, <1>11, <1>12

\* The loop: an iteration is taken, or a decision sends it on.
LEMMA PaidLoop ==
  ASSUME Solvent, Enter \/ BeginAttempt \/ ActNext \/ RetryStep PROVE PaidLocal
<1>1. /\ Typed /\ top \in Frame /\ WithinBudget(top) /\ Paid(top)
      /\ top.pc \notin Outside => top.wf \in Workflows /\ Regular(workflow)
      /\ top.pc \in Attempting => top.step \in DOMAIN workflow.steps
  BY TopSolvent
<1>2. CASE Enter
  <2> DEFINE g == [Admit(top) EXCEPT !.pc = "loop", !.left = MaxIterations(workflow)]
  <2>1. Set(g) /\ Local /\ top.pc = "enter" /\ top.wf \in Workflows
    <3>1. Set(g) /\ Local /\ top.pc = "enter" /\ Refusal = {}
      BY <1>2 DEF Enter, At
    <3>2. depth \in Int /\ MaxCallDepth \in Int
      BY <1>1, TopPlaced, MaxCallDepthAssumption DEF Depths
    <3>3. top.wf \in Workflows
      BY <3>1, <3>2 DEF Refusal
    <3>4. QED
      BY <3>1, <3>3
  <2>2. g \in Frame
    <3>1. "loop" \in Locations /\ MaxIterations(workflow) \in Nat
      BY LimitTyped DEF Locations
    <3>2. QED
      BY <1>1, <3>1 DEF Frame, Admit
  <2>3. /\ g.wf = top.wf /\ g.step = top.step /\ g.pc = "loop"
        /\ g.left = MaxIterations(workflow) /\ top.step = 1
    BY <1>1, <2>1 DEF Frame, Admit, Paid
  <2>4. Paid(g)
    <3> HIDE DEF g
    <3>1. QED
      BY <1>1, <2>1, <2>2, <2>3, PaidEnter DEF workflow
  <2>5. QED
    BY <2>1, <2>4, PaidLocalShape
<1>3. CASE BeginAttempt
  <2> DEFINE g == [top EXCEPT !.pc = "begun", !.left = top.left - 1, !.result = "none",
                              !.decision = NoDecision]
  <2>1. Set(g) /\ Local /\ top.pc = "loop" /\ top.left > 0
    BY <1>1, <1>3 DEF BeginAttempt, At, Frame
  <2>2. top.wf \in Workflows
    BY <1>1, <2>1 DEF Outside
  <2>3. /\ g.wf = top.wf /\ g.step = top.step /\ g.counts = top.counts
        /\ g.pc = "begun" /\ g.left = top.left - 1
    BY <1>1 DEF Frame
  <2>4. Paid(g)
    <3> HIDE DEF g
    <3>1. QED
      BY <1>1, <2>1, <2>2, <2>3, PaidBegin
  <2>5. QED
    BY <2>1, <2>4, PaidLocalShape
<1>4. CASE ActNext
  <2> DEFINE g == [top EXCEPT !.pc = "loop", !.step = top.decision.step]
  <2>1. Set(g) /\ Local /\ top.pc = "act" /\ top.decision.kind = "next"
    BY <1>4 DEF ActNext, Decided, At
  <2>2. top.wf \in Workflows /\ top.step \in DOMAIN doc[top.wf].steps
    BY <1>1, <2>1 DEF Outside, Attempting, Locations, workflow
  <2>3. /\ g.wf = top.wf /\ g.step = top.decision.step /\ g.counts = top.counts
        /\ g.pc = "loop" /\ g.left = top.left
    BY <1>1 DEF Frame
  <2>4. Paid(g)
    <3> HIDE DEF g
    <3>1. QED
      BY <1>1, <2>1, <2>2, <2>3, PaidNext DEF WithinBudget
  <2>5. QED
    BY <2>1, <2>4, PaidLocalShape
<1>5. CASE RetryStep
  <2> DEFINE g == [top EXCEPT !.pc = "loop"]
  <2>1. Set(g) /\ Local /\ top.pc = "scheduled"
    BY <1>5 DEF RetryStep, At
  <2>2. /\ g.wf = top.wf /\ g.step = top.step /\ g.counts = top.counts
        /\ g.pc = "loop" /\ g.left = top.left
    BY <1>1 DEF Frame
  <2>3. Paid(g)
    <3> HIDE DEF g
    <3>1. QED
      BY <1>1, <2>1, <2>2, PaidAgain
  <2>4. QED
    BY <2>1, <2>3, PaidLocalShape
<1>6. QED
  BY <1>2, <1>3, <1>4, <1>5

\* An attempt goes on, and is routed.
LEMMA PaidAttempt ==
  ASSUME Solvent,
         \/ StartRequest \/ Replied \/ RequestCancelled \/ Route \/ DelayElapsed
         \/ RoutingCancelled \/ ActReferenceStep
  PROVE  PaidLocal
<1>1. /\ Typed /\ top \in Frame /\ Paid(top)
      /\ top.pc \notin Outside => top.wf \in Workflows /\ Regular(workflow)
      /\ top.pc \in Attempting => top.step \in DOMAIN workflow.steps
  BY TopSolvent
<1>2. /\ {"begun", "request", "settled", "delay", "act", "refrequest"} \subseteq Trying
      /\ Trying \subseteq Attempting
  BY DEF Trying, Attempting, Locations, Outside
<1>3. ASSUME NEW l \in {"request", "refrequest"}, Set([top EXCEPT !.pc = l]), Local,
             top.pc \in Trying
      PROVE  PaidLocal
  <2> DEFINE g == [top EXCEPT !.pc = l]
  <2>1. Continues(top, g) /\ g.pc = l
    BY <1>1, <1>2, <1>3 DEF Continues, Frame
  <2>2. Onward(g)
    BY <2>1 DEF Onward
  <2> HIDE DEF g
  <2>3. QED
    BY <1>1, <1>3, <2>1, <2>2, PaidContinues, PaidLocalShape DEF g
<1>4. ASSUME NEW r, Set([top EXCEPT !.pc = "settled", !.result = r]), Local,
             top.pc \in Trying
      PROVE  PaidLocal
  <2> DEFINE g == [top EXCEPT !.pc = "settled", !.result = r]
  <2>1. Continues(top, g) /\ g.pc = "settled"
    BY <1>1, <1>2, <1>4 DEF Continues, Frame
  <2>2. Onward(g)
    BY <2>1 DEF Onward
  <2> HIDE DEF g
  <2>3. QED
    BY <1>1, <1>4, <2>1, <2>2, PaidContinues, PaidLocalShape DEF g
<1>5. ASSUME NEW dec, NEW l \in {"delay", "act"}, Local, top.pc \in Trying,
             Set([top EXCEPT !.decision = dec, !.pc = l]),
             GoesForward(workflow) /\ dec.kind = "next" =>
               dec.step \in top.step + 1 .. Len(workflow.steps) + 1
      PROVE  PaidLocal
  <2> DEFINE g == [top EXCEPT !.decision = dec, !.pc = l]
  <2>1. /\ Continues(top, g) /\ g.pc = l /\ g.decision = dec /\ g.step = top.step
        /\ g.wf = top.wf
    BY <1>1, <1>2, <1>5 DEF Continues, Frame
  <2> HIDE DEF g
  <2>2. GoesForward(doc[top.wf]) => Onward(g)
    BY <1>5, <2>1 DEF Onward, workflow
  <2>3. QED
    BY <1>1, <1>5, <2>1, <2>2, PaidContinues, PaidLocalShape DEF g
<1>6. CASE StartRequest
  BY <1>2, <1>3, <1>6 DEF StartRequest, At
<1>7. CASE Replied \/ RequestCancelled
  BY <1>2, <1>4, <1>7 DEF Replied, RequestCancelled, At
<1>8. CASE Route
  <2>1. top.pc = "settled" /\ Local
    BY <1>8 DEF Route, At
  <2>2. PICK dec \in Routes(workflow, top.step, top.counts, top.result, Responded) :
          Set([top EXCEPT !.decision = dec,
                          !.pc = IF dec.waits THEN "delay" ELSE "act"])
    BY <1>8 DEF Route
  <2>3. Regular(workflow) /\ top.step \in DOMAIN workflow.steps /\ top.pc \in Trying
    BY <1>1, <1>2, <2>1 DEF Outside
  <2>4. GoesForward(workflow) /\ dec.kind = "next" =>
          dec.step \in top.step + 1 .. Len(workflow.steps) + 1
    BY <2>2, <2>3, RoutesForward
  <2>5. (IF dec.waits THEN "delay" ELSE "act") \in {"delay", "act"}
    OBVIOUS
  <2>6. QED
    BY <1>5, <2>1, <2>2, <2>3, <2>4, <2>5
<1>9. CASE RoutingCancelled
  <2>1. /\ Set([top EXCEPT !.decision = Fail(CancelError), !.pc = "act"]) /\ Local
        /\ top.pc \in Trying
    BY <1>2, <1>9 DEF RoutingCancelled
  <2>2. Fail(CancelError).kind # "next"
    BY DEF Fail, NoDecision
  <2>3. QED
    BY <1>5, <2>1, <2>2
<1>10. CASE DelayElapsed
  <2> DEFINE g == [top EXCEPT !.pc = "act"]
  <2>1. Set(g) /\ Local /\ top.pc = "delay"
    BY <1>10 DEF DelayElapsed, At
  <2>2. /\ Continues(top, g) /\ g.pc = "act" /\ g.decision = top.decision
        /\ g.step = top.step /\ g.wf = top.wf
    BY <1>1, <1>2, <2>1 DEF Continues, Frame
  <2> HIDE DEF g
  <2>3. GoesForward(doc[top.wf]) => Onward(top)
    BY <1>1, <1>2, <2>1 DEF Paid
  <2>4. GoesForward(doc[top.wf]) => Onward(g)
    BY <2>1, <2>2, <2>3 DEF Onward
  <2>5. QED
    BY <1>1, <2>1, <2>2, <2>4, PaidContinues, PaidLocalShape
<1>11. CASE ActReferenceStep
  BY <1>2, <1>3, <1>11 DEF ActReferenceStep, Decided, At
<1>12. QED
  BY <1>6, <1>7, <1>8, <1>9, <1>10, <1>11

\* A retry is counted.
LEMMA PaidScheduled ==
  ASSUME Solvent, ActPlainRetry \/ ReferenceReplied PROVE PaidLocal
<1>1. /\ Typed /\ top \in Frame /\ WithinBudget(top) /\ Paid(top)
      /\ top.pc \notin Outside => top.wf \in Workflows /\ Regular(workflow)
      /\ top.pc \in Attempting => top.step \in DOMAIN workflow.steps
  BY TopSolvent
<1>2. ASSUME Set(Scheduled(top)), Local, top.pc \in Choosing,
             top.decision.kind = "retry"
      PROVE  PaidLocal
  <2>1. top.pc \notin Outside /\ top.pc \in Attempting
    BY <1>2 DEF Choosing, Recovering, Attempting, Locations, Outside
  <2>2. Paid(Scheduled(top))
    BY <1>1, <1>2, <2>1, PaidRetry DEF workflow
  <2>3. QED
    BY <1>2, <2>2, PaidLocalShape
<1>3. CASE ActPlainRetry
  BY <1>2, <1>3 DEF ActPlainRetry, Decided, At, Choosing
<1>4. CASE ReferenceReplied
  <2>1. top.pc \in Choosing /\ top.decision.kind = "retry"
    BY <1>1, <1>4
    DEF ReferenceReplied, At, Choosing, Recovering, WithinBudget, Affordable
  <2>2. CASE Set(Scheduled(top)) /\ Local
    BY <1>2, <2>1, <2>2
  <2>3. CASE FailReference("RetryReferenceFailed")
    BY <2>3, PaidEnds
  <2>4. QED
    BY <1>4, <2>2, <2>3 DEF ReferenceReplied
<1>5. QED
  BY <1>3, <1>4

\* A call leaves the caller within its attempt.
LEMMA PaidCalls ==
  ASSUME Solvent,
         \/ StartSubWorkflow \/ ActGotoWorkflow \/ ActReferenceWorkflow
         \/ ActReferenceSubWorkflow
  PROVE  PaidCall
<1>1. top \in Frame /\ Paid(top)
  BY TopSolvent
<1>2. PICK w, l :
        /\ Call(w, l) /\ l \in {"subcall", "gotocall", "refcall", "refsubcall"}
        /\ top.pc \in {"begun", "act"}
  BY DEF StartSubWorkflow, ActGotoWorkflow, ActReferenceWorkflow,
         ActReferenceSubWorkflow, Decided, At
<1> DEFINE g == [top EXCEPT !.pc = l]
<1>3. Continues(top, g) /\ g.pc = l
  <2>1. {"begun", "act", "subcall", "gotocall", "refcall", "refsubcall"} \subseteq Trying
    BY DEF Trying, Attempting, Locations, Outside
  <2>2. QED
    BY <1>1, <1>2, <2>1 DEF Continues, Frame
<1> HIDE DEF g
<1>4. Onward(g)
  BY <1>2, <1>3 DEF Onward
<1>5. Paid(g)
  BY <1>1, <1>3, <1>4, PaidContinues
<1>6. QED
  BY <1>2, <1>5 DEF PaidCall, g

\* A return settles the attempt, ends the caller or counts its retry.
LEMMA PaidReturns ==
  ASSUME Solvent, SubWorkflowReturned \/ GotoReturned \/ ReferenceReturned
  PROVE  PaidReturn
<1>1. /\ depth > 0 /\ Caller \in Frame /\ Typed /\ WithinBudget(Caller) /\ Paid(Caller)
      /\ Caller.wf \in Workflows /\ Caller.step \in DOMAIN doc[Caller.wf].steps
      /\ Caller.pc \in {"subcall", "gotocall", "refcall", "refsubcall"}
  <2>1. /\ {"subcall", "gotocall", "refcall", "refsubcall"} \subseteq Attempting
        /\ Attempting \cap Outside = {}
    BY DEF Attempting, Locations, Outside
  <2>2. Caller.pc \in {"subcall", "gotocall", "refcall", "refsubcall"}
    BY DEF SubWorkflowReturned, GotoReturned, ReferenceReturned, Returning
  <2>3. Typed /\ depth > 0 /\ Caller \in Frame /\ Placed(depth - 1, Caller)
    BY <2>1, CallerPlaced
    DEF SubWorkflowReturned, GotoReturned, ReferenceReturned, Solvent, Thrifty
  <2>4. depth - 1 \in Depths
    BY <2>3, MaxCallDepthAssumption DEF Typed, TypeOK, Depths
  <2>5. WithinBudget(Caller) /\ Paid(Caller)
    BY <2>4 DEF Solvent, Thrifty, Caller
  <2>6. QED
    BY <2>1, <2>2, <2>3, <2>5 DEF Placed
<1>2. ASSUME NEW g, ResumeWith(g), Paid(g) PROVE PaidReturn
  BY <1>1, <1>2 DEF PaidReturn
<1>3. CASE SubWorkflowReturned
  <2>1. PICK r : ResumeWith([Caller EXCEPT !.pc = "settled", !.result = r])
    BY <1>3 DEF SubWorkflowReturned
  <2> DEFINE g == [Caller EXCEPT !.pc = "settled", !.result = r]
  <2>2. Continues(Caller, g) /\ g.pc = "settled"
    <3>1. {"settled", "subcall", "gotocall", "refcall", "refsubcall"} \subseteq Trying
      BY DEF Trying, Attempting, Locations, Outside
    <3>2. QED
      BY <1>1, <3>1 DEF Continues, Frame
  <2> HIDE DEF g
  <2>3. Onward(g)
    BY <2>2 DEF Onward
  <2>4. QED
    BY <1>1, <1>2, <2>1, <2>2, <2>3, PaidContinues DEF g
<1>4. ASSUME NEW e PROVE Paid(Ended(Caller, e)) /\ Paid(Reported(Caller, e))
  <2>1. Ended(Caller, e).pc = "return" /\ Reported(Caller, e).pc = "return"
    BY <1>1 DEF Ended, Reported, Frame
  <2>2. QED
    BY <2>1, PaidOutside
<1>5. CASE GotoReturned
  BY <1>2, <1>4, <1>5 DEF GotoReturned
<1>6. CASE ReferenceReturned
  <2>1. Caller.pc \in Choosing /\ Caller.decision.kind = "retry"
    BY <1>1, <1>6
    DEF ReferenceReturned, Returning, Choosing, Recovering, WithinBudget, Affordable
  <2>2. Paid(Scheduled(Caller))
    BY <1>1, <2>1, PaidRetry
  <2>3. QED
    BY <1>2, <1>4, <1>6, <2>2 DEF ReferenceReturned
<1>7. QED
  BY <1>3, <1>5, <1>6

\* An activation that has not entered the loop owes nothing.
LEMMA FreshPaid == Paid(Idle) /\ \A w : Paid(Activation(w))
<1>1. Paid(Idle)
  BY PaidOutside DEF Idle
<1>2. ASSUME NEW w PROVE Paid(Activation(w))
  <2>1. Activation(w).pc = "enter" /\ Activation(w).step = 1
    BY DEF Activation, Idle
  <2>2. QED
    BY <2>1 DEF Paid, Attempting, Outside
<1>3. QED
  BY <1>1, <1>2

\* The invariant holds in every initial state.
LEMMA SolventInit == ASSUME Init PROVE Solvent
<1>1. \A d \in Depths : frame[d] \in {Idle, Activation(Root)}
  BY DEF Init
<1>2. QED
  BY <1>1, ThriftyInit, FreshPaid DEF Solvent

\* Every step of the engine and of its surroundings keeps it.
LEMMA SolventNext == ASSUME Solvent, [Next]_vars PROVE Solvent'
<1>1. /\ Thrifty' /\ depth \in Depths /\ frame \in [Depths -> Frame]
  BY ThriftyNext, TopSolvent
<1>2. ASSUME doc' = doc, \A d \in Depths : Paid(frame'[d])
      PROVE  Solvent'
  BY <1>1, <1>2 DEF Solvent, Paid, Covered, Onward, Spends
<1>3. CASE PaidLocal
  <2>1. PICK g : Set(g) /\ Local /\ Paid(g)
    BY <1>3 DEF PaidLocal
  <2>2. \A d \in Depths : Paid(frame'[d])
    BY <1>1, <2>1 DEF Set, Solvent
  <2>3. QED
    BY <1>2, <2>1, <2>2 DEF Local, context
<1>4. CASE PaidCall
  <2>1. PICK w, l : Call(w, l) /\ Paid([top EXCEPT !.pc = l])
    BY <1>4 DEF PaidCall
  <2>2. \A d \in Depths :
          frame'[d] \in {[top EXCEPT !.pc = l], Activation(w), frame[d]}
    BY <1>1, <2>1 DEF Call, top
  <2>3. \A d \in Depths : Paid(frame'[d])
    BY <2>1, <2>2, FreshPaid DEF Solvent
  <2>4. QED
    BY <1>2, <2>1, <2>3 DEF Call, context
<1>5. CASE PaidReturn
  <2>1. PICK g : ResumeWith(g) /\ Paid(g)
    BY <1>5 DEF PaidReturn
  <2>2. \A d \in Depths : frame'[d] \in {g, Idle, frame[d]}
    BY <1>1, <2>1 DEF ResumeWith
  <2>3. \A d \in Depths : Paid(frame'[d])
    BY <2>1, <2>2, FreshPaid DEF Solvent
  <2>4. QED
    BY <1>2, <2>1, <2>3 DEF ResumeWith, context
<1>6. CASE SendResult \/ CancelHandle \/ WatchdogFlags \/ WatchdogCancels
           \/ UNCHANGED vars
  BY <1>2, <1>6 DEF SendResult, CancelHandle, WatchdogFlags, WatchdogCancels,
     vars, context, Solvent
<1>7. QED
  BY <1>3, <1>4, <1>5, <1>6, PaidEnds, PaidLoop, PaidAttempt, PaidScheduled,
     PaidCalls, PaidReturns
  DEF Next, EngineStep, ReplyStep

\* The iteration limit never stops a workflow with steps whose gotos only go
\* forward, whatever its retries and recoveries, for every document whose
\* budgets fit the width they are added in.
THEOREM LimitIsForLoops == Spec => []LimitOnlyStopsLoops
<1>1. Solvent => LimitOnlyStopsLoops
  <2>1. SUFFICES ASSUME Solvent, NEW d \in 0 .. depth, OutOfIterations(frame[d]),
                        doc[frame[d].wf].steps # <<>>, GoesForward(doc[frame[d].wf])
                 PROVE  FALSE
    BY DEF LimitOnlyStopsLoops
  <2> DEFINE f == frame[d]
             wf == doc[f.wf]
             paid == Before(wf, f.step)
             again == Retried(wf, f.counts, f.step)
             limit == MaxIterations(wf)
  <2>2. /\ Typed /\ f \in Frame /\ f.wf \in Workflows /\ WithinBudget(f) /\ Paid(f)
        /\ f.pc = "loop" /\ f.left = 0
    <3>1. d \in Depths
      BY <2>1, MaxCallDepthAssumption DEF Solvent, Thrifty, Typed, TypeOK, Depths
    <3>2. QED
      BY <2>1, <3>1 DEF Solvent, Thrifty, Typed, Placed, OutOfIterations, Outside
  <2> HIDE DEF f
  <2>3. Covered(f)
    BY <2>1, <2>2 DEF Paid, f
  <2>4. /\ Regular(wf) /\ f.counts \in Counts /\ paid \in Nat /\ again \in Nat
        /\ limit \in Nat
    BY <2>2, <2>3, SpendsTyped DEF Covered
  <2>5. again <= IF f.step \in DOMAIN wf.steps THEN Allowed(wf, f.step) ELSE 0
    <3>1. CASE f.step \in DOMAIN wf.steps
      BY <2>2, <2>4, <3>1, RetriedWithin DEF WithinBudget
    <3>2. CASE f.step \notin DOMAIN wf.steps
      BY <3>2 DEF Retried
    <3>3. QED
      BY <3>1, <3>2
  <2>6. MaxIterations(wf) < MaxU128
    BY <2>2, WidthAssumption DEF Typed, TypeOK
  <2>7. paid + again < limit
    <3>1. wf.steps # <<>> /\ f.step \in 1 .. Len(wf.steps) + 1
      BY <2>1, <2>3 DEF f, Covered
    <3> HIDE DEF wf, again
    <3>2. QED
      BY <2>4, <2>5, <2>6, <3>1, LimitCovers
  <2>8. Spends(f) = paid + again + 0
    BY <2>2 DEF Spends, Trying, Attempting, Outside
  <2>9. limit <= f.left + Spends(f)
    BY <2>3 DEF Covered
  <2> HIDE DEF wf, paid, again, limit
  <2>10. QED
    BY <2>2, <2>4, <2>7, <2>8, <2>9
<1>2. Init => Solvent
  BY SolventInit
<1>3. Solvent /\ [Next]_vars => Solvent'
  BY SolventNext
<1>4. QED
  BY <1>1, <1>2, <1>3, PTL DEF Spec

-----------------------------------------------------------------------------
(***************************************************************************)
(* Cancellation and timeout.                                               *)
(***************************************************************************)

(***************************************************************************)
(* A cancellation error is earned: it is held by the stack only once the   *)
(* token has fired, and says "cancelled" only if the caller did cancel.    *)
(***************************************************************************)
Earned(e) ==
  /\ e \in Cancellations => cancelled
  /\ e = "ExecutionCancelled" => cancelRequested

EarnedBy(f) == Earned(f.result) /\ Earned(f.decision.error)

Truthful ==
  /\ Evident
  /\ watchdog # "armed" => timedOut
  /\ cancelled => timedOut \/ cancelRequested
  /\ \A d \in Depths : EarnedBy(frame[d])
  /\ Earned(outcome)

LEMMA PlainEarned == \A e : e \notin Cancellations => Earned(e)
BY DEF Earned, Cancellations

LEMMA CancelErrorEarned == ASSUME Truthful, cancelled PROVE Earned(CancelError)
BY DEF Truthful, Earned, CancelError, Cancellations

LEMMA TopEarned ==
  ASSUME Truthful
  PROVE  /\ top \in Frame /\ EarnedBy(top) /\ depth \in Depths
         /\ frame \in [Depths -> Frame] /\ top.decision \in Decision
         /\ top.pc \notin Outside => top.admitted
         /\ ~cancelled =>
              top.result \notin Cancellations /\ top.decision.error \notin Cancellations
<1>1. /\ depth \in Depths /\ frame \in [Depths -> Frame] /\ top = frame[depth]
  BY DEF Truthful, Evident, Typed, TypeOK, top
<1>2. EarnedBy(top) /\ Vouched(top, completed)
  BY <1>1 DEF Truthful, Evident
<1>3. top \in Frame /\ top.decision \in Decision
  BY <1>1 DEF Frame
<1>4. QED
  BY <1>1, <1>2, <1>3 DEF Vouched, EarnedBy, Earned

\* Routing adds no cancellation of its own to a result that is none.
LEMMA RoutesPlain ==
  ASSUME NEW wf, NEW i, NEW counts, NEW result, result \notin Cancellations,
         NEW responded, NEW dec \in Routes(wf, i, counts, result, responded)
  PROVE  dec.error \notin Cancellations
<1>1. \A e \in {"none", "GotoTargetNotFound", "GotoTargetMissing",
                "InputValidation", "RetryLimitExceeded"} : e \notin Cancellations
  BY DEF Cancellations
<1>2. ASSUME NEW e, e \notin Cancellations PROVE Fail(e).error \notin Cancellations
  BY <1>2 DEF Fail, NoDecision
<1>3. ASSUME NEW list, NEW j, NEW r, r \notin Cancellations,
             NEW other \in Perform(wf, i, list, j, r, responded)
      PROVE  other.error \notin Cancellations
  <2>1. CASE list[j].type = "end"
    <3>1. other \in {Fail(r), Done}
      BY <1>3, <2>1 DEF Perform, PerformEnd
    <3>2. QED
      BY <1>1, <1>2, <1>3, <3>1 DEF Done, NoDecision
  <2>2. CASE list[j].type = "goto"
    <3>1. other = PerformGoto(list[j], wf)
      BY <1>3, <2>2 DEF Perform
    <3>2. \/ other = GoOn(list[j].step) \/ other = Leave(list[j].workflow)
          \/ other = Fail("GotoTargetNotFound") \/ other = Fail("GotoTargetMissing")
      BY <3>1 DEF PerformGoto
    <3>3. QED
      BY <1>1, <1>2, <3>2 DEF GoOn, Leave, NoDecision
  <2>3. CASE list[j].type \notin {"end", "goto"}
    <3>1. PICK delay : other = PerformRetry(list[j], <<i, j>>, delay)
      BY <1>3, <2>3 DEF Perform
    <3>2. QED
      BY <1>1, <1>2, <3>1 DEF PerformRetry, Retry, NoDecision
  <2>4. QED
    BY <2>1, <2>2, <2>3
<1>4. CASE result = "ok"
  <2>1. PICK m : dec \in SuccessRoutes(wf, i, m, responded)
    BY <1>4 DEF Routes
  <2>2. CASE dec = GoOn(i + 1)
    BY <1>1, <2>2 DEF GoOn, NoDecision
  <2>3. "ok" \notin Cancellations
    BY DEF Cancellations
  <2>4. QED
    BY <1>3, <2>1, <2>2, <2>3 DEF SuccessRoutes
<1>5. CASE result # "ok"
  <2>1. PICK m : dec \in FailureRoutes(wf, i, m, counts, result, responded)
    BY <1>5 DEF Routes
  <2>2. \/ dec \in {Fail("RetryLimitExceeded"), Fail(result)}
        \/ \E j : dec \in Perform(wf, i, FailureActions(wf, i), j, result, responded)
    BY <2>1 DEF FailureRoutes
  <2>3. QED
    BY <1>1, <1>2, <1>3, <2>2
<1>6. QED
  BY <1>4, <1>5

-----------------------------------------------------------------------------
(***************************************************************************)
(* Every step of the engine leaves the activation g it changes with earned *)
(* errors, and records its workflow only if g does not return one.         *)
(***************************************************************************)
Recorded(g) ==
  \/ completed' = completed
  \/ /\ completed' = completed \union {g.wf}
     /\ g.pc = "return" /\ g.admitted /\ g.result \notin Cancellations

EarnedLocal == \E g : Set(g) /\ Local /\ EarnedBy(g) /\ Recorded(g)
EarnedCall == \E w, l : Call(w, l)
EarnedReturn == depth > 0 /\ \E g : ResumeWith(g) /\ EarnedBy(g) /\ Recorded(g)

LEMMA EarnedLocalShape ==
  ASSUME NEW g, Set(g), Local, EarnedBy(g), Recorded(g) PROVE EarnedLocal
BY DEF EarnedLocal

LEMMA EarnedEntry ==
  ASSUME Truthful, Refuse \/ FailEntry \/ Enter
  PROVE  EarnedLocal
<1>1. top \in Frame /\ EarnedBy(top)
  BY TopEarned
<1>2. Refusal \union EntryFailures \subseteq Results \ Cancellations
  BY DEF Refusal, EntryFailures, Results, Errors, Cancellations
<1>3. CASE Refuse
  <2>1. PICK e \in Refusal : Set(Ended(top, e))
    BY <1>3 DEF Refuse
  <2>2. EarnedBy(Ended(top, e))
    BY <1>1, <1>2, PlainEarned DEF Ended, Frame, EarnedBy
  <2>3. QED
    BY <1>3, <2>1, <2>2, EarnedLocalShape DEF Refuse, Recorded
<1>4. CASE FailEntry
  <2>1. PICK e \in EntryFailures : Set(Ended(Admit(top), e))
    BY <1>4 DEF FailEntry
  <2>2. EarnedBy(Ended(Admit(top), e))
    BY <1>1, <1>2, PlainEarned DEF Ended, Admit, Frame, EarnedBy
  <2>3. QED
    BY <1>4, <2>1, <2>2, EarnedLocalShape DEF FailEntry, Recorded
<1>5. CASE Enter
  <2> DEFINE g == [Admit(top) EXCEPT !.pc = "loop", !.left = MaxIterations(workflow)]
  <2>1. EarnedBy(g)
    BY <1>1 DEF Admit, Frame, EarnedBy
  <2>2. Set(g) /\ Local /\ Recorded(g)
    BY <1>5 DEF Enter, Recorded
  <2>3. QED
    BY <2>1, <2>2, EarnedLocalShape
<1>6. QED
  BY <1>3, <1>4, <1>5

LEMMA EarnedAttempt ==
  ASSUME Truthful,
         \/ RunOutOfIterations \/ PastLastStep \/ BeginAttempt
         \/ StartRequest \/ Replied \/ RequestCancelled
         \/ Route \/ DelayElapsed \/ RoutingCancelled
  PROVE  EarnedLocal
<1>1. /\ top \in Frame /\ EarnedBy(top) /\ top.decision \in Decision
      /\ top.pc \notin Outside => top.admitted
  BY TopEarned
<1>2. CASE RunOutOfIterations
  <2>1. "IterationLimitExceeded" \notin Cancellations
    BY DEF Cancellations
  <2>2. top.admitted
    BY <1>1, <1>2 DEF RunOutOfIterations, At, Outside
  <2>3. QED
    BY <1>1, <1>2, <2>1, <2>2, PlainEarned, EarnedLocalShape
    DEF RunOutOfIterations, Record, Ended, Frame, EarnedBy, Recorded
<1>3. CASE PastLastStep
  BY <1>1, <1>3, EarnedLocalShape DEF PastLastStep, Frame, EarnedBy, Recorded
<1>4. CASE BeginAttempt
  <2>1. Earned("none") /\ Earned(NoDecision.error)
    BY DEF Earned, NoDecision, Cancellations
  <2>2. QED
    BY <1>1, <1>4, <2>1, EarnedLocalShape DEF BeginAttempt, Frame, EarnedBy, Recorded
<1>5. CASE StartRequest
  BY <1>1, <1>5, EarnedLocalShape DEF StartRequest, Frame, EarnedBy, Recorded
<1>6. CASE DelayElapsed
  BY <1>1, <1>6, EarnedLocalShape DEF DelayElapsed, Frame, EarnedBy, Recorded
<1>7. ASSUME NEW r, Earned(r), Set([top EXCEPT !.pc = "settled", !.result = r]),
             Local, completed' = completed
      PROVE  EarnedLocal
  BY <1>1, <1>7, EarnedLocalShape DEF Frame, EarnedBy, Recorded
<1>8. CASE Replied
  <2>1. PICK r \in {"ok", "SuccessCriteriaFailed", "HttpRequest"} :
          Set([top EXCEPT !.pc = "settled", !.result = r])
    BY <1>8 DEF Replied, Judged
  <2>2. Earned(r)
    BY PlainEarned DEF Cancellations
  <2>3. QED
    BY <1>7, <1>8, <2>1, <2>2 DEF Replied, Judged
<1>9. CASE RequestCancelled
  BY <1>7, <1>9, CancelErrorEarned DEF RequestCancelled
<1>10. ASSUME NEW dec, Earned(dec.error), NEW l,
              l # "return", Set([top EXCEPT !.decision = dec, !.pc = l]),
              Local, completed' = completed
       PROVE  EarnedLocal
  BY <1>1, <1>10, EarnedLocalShape DEF Frame, EarnedBy, Recorded
<1>11. CASE Route
  <2>1. PICK dec \in Routes(workflow, top.step, top.counts, top.result, Responded) :
          Set([top EXCEPT !.decision = dec,
                          !.pc = IF dec.waits THEN "delay" ELSE "act"])
    BY <1>11 DEF Route
  <2>2. top.result \notin Cancellations
    BY <1>11, TopEarned DEF Route
  <2>3. Earned(dec.error)
    BY <2>2, RoutesPlain, PlainEarned
  <2>4. (IF dec.waits THEN "delay" ELSE "act") # "return"
    OBVIOUS
  <2>5. QED
    BY <1>10, <1>11, <2>1, <2>3, <2>4 DEF Route
<1>12. CASE RoutingCancelled
  <2>1. Set([top EXCEPT !.decision = Fail(CancelError), !.pc = "act"])
    BY <1>12 DEF RoutingCancelled
  <2>2. Earned(Fail(CancelError).error)
    BY <1>12, CancelErrorEarned DEF RoutingCancelled, Fail, NoDecision
  <2>3. Local /\ completed' = completed
    BY <1>12 DEF RoutingCancelled
  <2>4. QED
    BY <1>10, <2>1, <2>2, <2>3
<1>13. QED
  BY <1>2, <1>3, <1>4, <1>5, <1>6, <1>8, <1>9, <1>11, <1>12

LEMMA EarnedAct ==
  ASSUME Truthful,
         \/ ActDone \/ ActNext \/ ActError \/ ActPlainRetry
         \/ ActReferenceMissing \/ ActReferenceStep \/ ReferenceReplied
         \/ RetryStep \/ Finish \/ ObserveCancel
  PROVE  EarnedLocal
<1>1. /\ top \in Frame /\ EarnedBy(top)
      /\ top.pc \notin Outside => top.admitted
      /\ ~cancelled => top.decision.error \notin Cancellations
  BY TopEarned
<1>2. CASE ActDone
  BY <1>1, <1>2, EarnedLocalShape DEF ActDone, Frame, EarnedBy, Recorded
<1>3. CASE ActNext
  BY <1>1, <1>3, EarnedLocalShape DEF ActNext, Frame, EarnedBy, Recorded
<1>4. CASE ActReferenceStep
  BY <1>1, <1>4, EarnedLocalShape DEF ActReferenceStep, Frame, EarnedBy, Recorded
<1>5. CASE RetryStep
  BY <1>1, <1>5, EarnedLocalShape DEF RetryStep, Frame, EarnedBy, Recorded
<1>6. ASSUME Set(Scheduled(top)), Local, completed' = completed
      PROVE  EarnedLocal
  BY <1>1, <1>6, EarnedLocalShape DEF Scheduled, Frame, EarnedBy, Recorded
<1>7. ASSUME NEW e, e \notin Cancellations, top.pc \notin Outside,
             Set(Reported(top, e)), Record, Local
      PROVE  EarnedLocal
  BY <1>1, <1>7, PlainEarned, EarnedLocalShape
  DEF Record, Reported, Ended, Frame, EarnedBy, Recorded
<1>8. "RetryReferenceFailed" \notin Cancellations /\ "ok" \notin Cancellations
  BY DEF Cancellations
<1>9. CASE ActError
  <2>1. top.pc \notin Outside /\ top.decision.error \notin Cancellations
    BY <1>1, <1>9 DEF ActError, Decided, At, Outside
  <2>2. QED
    BY <1>7, <1>9, <2>1 DEF ActError
<1>10. CASE ActPlainRetry
  BY <1>6, <1>10 DEF ActPlainRetry
<1>11. CASE ActReferenceMissing
  <2>1. top.pc \notin Outside
    BY <1>11 DEF ActReferenceMissing, Decided, At, Outside
  <2>2. QED
    BY <1>7, <1>8, <1>11, <2>1 DEF ActReferenceMissing, FailReference
<1>12. CASE ReferenceReplied
  <2>1. top.pc \notin Outside
    BY <1>12 DEF ReferenceReplied, At, Outside
  <2>2. QED
    BY <1>6, <1>7, <1>8, <1>12, <2>1 DEF ReferenceReplied, FailReference
<1>13. CASE Finish
  <2>1. top.pc \notin Outside
    BY <1>13 DEF Finish, At, Outside
  <2>2. QED
    BY <1>7, <1>8, <1>13, <2>1 DEF Finish
<1>14. CASE ObserveCancel
  <2>1. Earned(CancelError)
    BY <1>14, CancelErrorEarned DEF ObserveCancel
  <2>2. QED
    BY <1>1, <1>14, <2>1, EarnedLocalShape
    DEF ObserveCancel, Ended, Frame, EarnedBy, Recorded
<1>15. QED
  BY <1>2, <1>3, <1>4, <1>5, <1>9, <1>10, <1>11, <1>12, <1>13, <1>14

LEMMA EarnedReturns ==
  ASSUME Truthful, SubWorkflowReturned \/ GotoReturned \/ ReferenceReturned
  PROVE  EarnedReturn
<1>1. /\ depth > 0 /\ Caller \in Frame /\ EarnedBy(Caller) /\ Caller.admitted
      /\ Earned(top.result) /\ Caller.pc \in Attempting
  <2>1. {"subcall", "gotocall", "refcall", "refsubcall"} \subseteq Attempting
    BY DEF Attempting, Locations, Outside
  <2>2. depth > 0 /\ Caller \in Frame /\ Caller.pc \in Attempting
    BY <2>1, CallerPlaced
    DEF SubWorkflowReturned, GotoReturned, ReferenceReturned, Truthful, Evident
  <2>3. depth - 1 \in Depths
    BY <2>2, MaxCallDepthAssumption DEF Truthful, Evident, Typed, TypeOK, Depths
  <2>4. EarnedBy(Caller) /\ Vouched(Caller, completed)
    BY <2>3 DEF Truthful, Evident, Caller
  <2>5. Earned(top.result)
    BY TopEarned DEF EarnedBy
  <2>6. Caller.admitted
    BY <2>2, <2>4 DEF Vouched, Attempting
  <2>7. QED
    BY <2>2, <2>4, <2>5, <2>6
<1>2. ASSUME NEW g, ResumeWith(g), EarnedBy(g), Recorded(g) PROVE EarnedReturn
  BY <1>1, <1>2 DEF EarnedReturn
<1>3. \A e \in {"ok", "SuccessCriteriaFailed", "SubWorkflowFailed",
                "RetryReferenceFailed", "WorkflowDependencyUnsatisfied"} :
        e \notin Cancellations
  BY DEF Cancellations
<1>4. ASSUME NEW e, NEW kind, kind \notin Cancellations
      PROVE  Wrapped(e, kind) \notin Cancellations
  BY <1>3, <1>4 DEF Wrapped
<1>5. CASE SubWorkflowReturned
  <2>1. PICK r \in SubWorkflowResults(top.result) :
          ResumeWith([Caller EXCEPT !.pc = "settled", !.result = r])
    BY <1>5 DEF SubWorkflowReturned
  <2>2. Earned(r)
    <3>1. CASE cancelled
      BY <2>1, <3>1, CancelErrorEarned DEF SubWorkflowResults
    <3>2. CASE ~cancelled
      BY <1>3, <1>4, <2>1, <3>2, PlainEarned DEF SubWorkflowResults
    <3>3. QED
      BY <3>1, <3>2
  <2>3. QED
    BY <1>1, <1>2, <1>5, <2>1, <2>2
    DEF SubWorkflowReturned, Frame, EarnedBy, Recorded
<1>6. CASE GotoReturned
  BY <1>1, <1>2, <1>6 DEF GotoReturned, Ended, Frame, EarnedBy, Recorded
<1>7. CASE ReferenceReturned
  <2>1. CASE cancelled
    <3>1. ResumeWith(Ended(Caller, CancelError)) /\ completed' = completed
      BY <1>7, <2>1 DEF ReferenceReturned
    <3>2. QED
      BY <1>1, <1>2, <2>1, <3>1, CancelErrorEarned
      DEF Ended, Frame, EarnedBy, Recorded
  <2>2. CASE ResumeWith(Scheduled(Caller)) /\ completed' = completed
    BY <1>1, <1>2, <2>2 DEF Scheduled, Frame, EarnedBy, Recorded
  <2>3. ASSUME NEW r \in ReferenceResults(top.result), r # "ok",
               ResumeWith(Reported(Caller, r)),
               completed' = completed \union {Caller.wf}
        PROVE  EarnedReturn
    <3>1. r \notin Cancellations
      BY <1>3, <1>4, <2>3 DEF ReferenceResults
    <3>2. QED
      BY <1>1, <1>2, <2>3, <3>1, PlainEarned
      DEF Reported, Ended, Frame, EarnedBy, Recorded
  <2>4. QED
    BY <1>7, <2>1, <2>2, <2>3 DEF ReferenceReturned
<1>8. QED
  BY <1>5, <1>6, <1>7

LEMMA EarnedShape ==
  ASSUME Truthful, Next
  PROVE  \/ EarnedLocal \/ EarnedCall \/ EarnedReturn
         \/ SendResult \/ CancelHandle \/ WatchdogFlags \/ WatchdogCancels
<1>1. StartSubWorkflow \/ ActGotoWorkflow \/ ActReferenceWorkflow
        \/ ActReferenceSubWorkflow => EarnedCall
  BY DEF StartSubWorkflow, ActGotoWorkflow, ActReferenceWorkflow,
         ActReferenceSubWorkflow, EarnedCall
<1>2. QED
  BY <1>1, EarnedEntry, EarnedAttempt, EarnedAct, EarnedReturns
  DEF Next, EngineStep, ReplyStep

-----------------------------------------------------------------------------
(***************************************************************************)
(* What a cancelled run is reported as.                                    *)
(***************************************************************************)
LEMMA FreshEarned ==
  EarnedBy(Idle) /\ \A w : EarnedBy(Activation(w))
<1>1. Earned("none")
  BY DEF Earned, Cancellations
<1>2. NoDecision.error = "none"
  BY DEF NoDecision
<1>3. QED
  BY <1>1, <1>2 DEF Idle, Activation, EarnedBy

LEMMA TruthfulStack ==
  ASSUME Truthful, Evident', UNCHANGED signals, UNCHANGED outcome,
         \A d \in Depths : EarnedBy(frame'[d])
  PROVE  Truthful'
BY DEF Truthful, EarnedBy, Earned, signals

LEMMA TruthfulInit == ASSUME Init PROVE Truthful
<1>1. EarnedBy(Idle) /\ EarnedBy(Activation(Root)) /\ Earned("none")
  BY FreshEarned DEF EarnedBy, Earned, Cancellations
<1>2. \A d \in Depths : EarnedBy(frame[d])
  BY <1>1 DEF Init
<1>3. QED
  BY <1>1, <1>2, EvidentInit DEF Truthful, Init

LEMMA TruthfulNext == ASSUME Truthful, [Next]_vars PROVE Truthful'
<1>1. Evident' /\ depth \in Depths /\ frame \in [Depths -> Frame] /\ top \in Frame
  BY EvidentNext, TopEarned DEF Truthful
<1>2. CASE EarnedLocal
  <2>1. PICK g : Set(g) /\ Local /\ EarnedBy(g)
    BY <1>2 DEF EarnedLocal
  <2>2. \A d \in Depths : EarnedBy(frame'[d])
    BY <1>1, <2>1 DEF Set, Truthful
  <2>3. QED
    BY <1>1, <2>1, <2>2, TruthfulStack DEF Local
<1>3. CASE EarnedCall
  <2>1. PICK w, l : Call(w, l)
    BY <1>3 DEF EarnedCall
  <2>2. EarnedBy([top EXCEPT !.pc = l])
    BY <1>1, TopEarned DEF Frame, EarnedBy
  <2>3. \A d \in Depths :
          frame'[d] \in {[top EXCEPT !.pc = l], Activation(w), frame[d]}
    BY <1>1, <2>1 DEF Call, top
  <2>4. \A d \in Depths : EarnedBy(frame'[d])
    BY <2>2, <2>3, FreshEarned DEF Truthful
  <2>5. QED
    BY <1>1, <2>1, <2>4, TruthfulStack DEF Call
<1>4. CASE EarnedReturn
  <2>1. PICK g : ResumeWith(g) /\ EarnedBy(g)
    BY <1>4 DEF EarnedReturn
  <2>2. \A d \in Depths : frame'[d] \in {g, Idle, frame[d]}
    BY <1>1, <2>1 DEF ResumeWith
  <2>3. \A d \in Depths : EarnedBy(frame'[d])
    BY <2>1, <2>2, FreshEarned DEF Truthful
  <2>4. QED
    BY <1>1, <2>1, <2>3, TruthfulStack DEF ResumeWith
<1>5. CASE SendResult
  <2>1. Earned(outcome')
    BY <1>5, TopEarned DEF SendResult, EarnedBy
  <2>2. UNCHANGED <<frame, signals>>
    BY <1>5 DEF SendResult
  <2>3. QED
    BY <1>1, <2>1, <2>2 DEF Truthful, EarnedBy, Earned, signals
<1>6. CASE CancelHandle \/ WatchdogFlags \/ WatchdogCancels \/ UNCHANGED vars
  <2>1. /\ UNCHANGED <<frame, outcome>>
        /\ cancelled => cancelled'
        /\ cancelRequested => cancelRequested'
        /\ watchdog' # "armed" => timedOut'
        /\ cancelled' => timedOut' \/ cancelRequested'
    BY <1>6 DEF CancelHandle, WatchdogFlags, WatchdogCancels, vars, Truthful
  <2>2. \A e : Earned(e) => Earned(e)'
    BY <2>1 DEF Earned
  <2>3. QED
    BY <1>1, <2>1, <2>2 DEF Truthful, EarnedBy
<1>7. QED
  BY <1>2, <1>3, <1>4, <1>5, <1>6, EarnedShape

\* The watchdog sets its flag before it fires the token, so a run that ends
\* as "cancelled" is one whose caller asked for it.
THEOREM TimeoutToldApart == Spec => []TimeoutNotCalledCancel
<1>1. Truthful => TimeoutNotCalledCancel
  BY DEF Truthful, Earned, TimeoutNotCalledCancel
<1>2. Init => Truthful
  BY TruthfulInit
<1>3. Truthful /\ [Next]_vars => Truthful'
  BY TruthfulNext
<1>4. QED
  BY <1>1, <1>2, <1>3, PTL DEF Spec

\* A step records a workflow only with the activation that ends in that step,
\* and never when it ends in a cancellation.
THEOREM CancelledUnrecorded == Spec => CancelledNotRecorded
<1> DEFINE Honest(w) ==
       \E d \in Depths : /\ frame'[d].wf = w /\ frame'[d].pc = "return"
                         /\ frame'[d].admitted
                         /\ frame'[d].result \notin Cancellations
<1>1. ASSUME Truthful, [Next]_vars
      PROVE  [\A w \in completed' \ completed : Honest(w)]_vars
  <2>1. SUFFICES ASSUME NEW w \in completed' \ completed PROVE Honest(w)
    OBVIOUS
  <2>2. depth \in Depths /\ frame \in [Depths -> Frame] /\ completed' # completed
    BY <1>1, <2>1, TopEarned
  <2>3. CASE EarnedLocal
    <3>1. PICK g : Set(g) /\ Recorded(g)
      BY <2>3 DEF EarnedLocal
    <3>2. frame'[depth] = g
      BY <2>2, <3>1 DEF Set
    <3>3. QED
      BY <2>1, <2>2, <3>1, <3>2 DEF Recorded
  <2>4. CASE EarnedReturn
    <3>1. PICK g : ResumeWith(g) /\ Recorded(g)
      BY <2>4 DEF EarnedReturn
    <3>2. depth - 1 \in Depths /\ depth - 1 # depth
      BY <1>1, <2>4, MaxCallDepthAssumption
      DEF EarnedReturn, Truthful, Evident, Typed, TypeOK, Depths
    <3>3. frame'[depth - 1] = g
      BY <2>2, <3>1, <3>2 DEF ResumeWith
    <3>4. QED
      BY <2>1, <2>2, <3>1, <3>2, <3>3 DEF Recorded
  <2>5. EarnedLocal \/ EarnedReturn
    <3>1. ~EarnedCall
      BY <2>2 DEF EarnedCall, Call
    <3>2. QED
      BY <1>1, <2>2, <3>1, EarnedShape
      DEF vars, SendResult, CancelHandle, WatchdogFlags, WatchdogCancels
  <2>6. QED
    BY <2>3, <2>4, <2>5
<1>2. Init => Truthful
  BY TruthfulInit
<1>3. Truthful /\ [Next]_vars => Truthful'
  BY TruthfulNext
<1>4. QED
  BY <1>1, <1>2, <1>3, PTL DEF Spec, CancelledNotRecorded

-----------------------------------------------------------------------------
(***************************************************************************)
(* What a step may do once the token has fired: it changes at most one     *)
(* activation into some g, which settles an attempt, overrides a decision, *)
(* or returns.                                                             *)
(***************************************************************************)
StopsAt(d, g) ==
  \/ g.pc \in {"settled", "act"}
  \/ /\ g.pc = "return"
     /\ \/ g.result \in Cancellations
        \/ frame[d].pc = "loop" /\ frame[d].left = 0
        \/ d < depth /\ g.result = frame[d + 1].result

Stopping ==
  \E at \in Depths : \E g :
    StopsAt(at, g) /\ \A d \in Depths : \/ frame'[d] \in {frame[d], Idle}
                                        \/ (d = at /\ frame'[d] = g)

LEMMA StopsHere ==
  ASSUME Typed, NEW g, StopsAt(depth, g), Set(g)
  PROVE  Stopping
<1>1. depth \in Depths /\ frame \in [Depths -> Frame]
  BY DEF Typed, TypeOK
<1>2. \A d \in Depths : frame'[d] = frame[d] \/ (d = depth /\ frame'[d] = g)
  BY <1>1 DEF Set
<1>3. QED
  BY <1>1, <1>2 DEF Stopping

LEMMA StopsBelow ==
  ASSUME Typed, depth > 0, NEW g, StopsAt(depth - 1, g), ResumeWith(g)
  PROVE  Stopping
<1>1. depth \in Depths /\ depth - 1 \in Depths /\ frame \in [Depths -> Frame]
  BY MaxCallDepthAssumption DEF Typed, TypeOK, Depths
<1>2. \A d \in Depths : \/ frame'[d] \in {frame[d], Idle}
                        \/ (d = depth - 1 /\ frame'[d] = g)
  BY <1>1 DEF ResumeWith
<1>3. QED
  BY <1>1, <1>2 DEF Stopping

LEMMA CancelledSteps ==
  ASSUME Typed, cancelled, [Next]_vars
  PROVE  \/ frame' = frame
         \/ RequestCancelled \/ RoutingCancelled \/ ObserveCancel
         \/ RunOutOfIterations
         \/ SubWorkflowReturned \/ GotoReturned \/ ReferenceReturned
<1>1. CASE SendResult \/ CancelHandle \/ WatchdogFlags \/ WatchdogCancels
           \/ UNCHANGED vars
  BY <1>1 DEF SendResult, CancelHandle, WatchdogFlags, WatchdogCancels, vars
<1>2. ~(\/ Refuse \/ FailEntry \/ Enter \/ PastLastStep \/ BeginAttempt
        \/ StartRequest \/ StartSubWorkflow \/ Route \/ DelayElapsed
        \/ Replied \/ ReferenceReplied \/ RetryStep \/ Finish)
  BY DEF Refuse, FailEntry, Enter, PastLastStep, BeginAttempt, StartRequest,
         StartSubWorkflow, Route, DelayElapsed, Replied, Judged, ReferenceReplied,
         RetryStep, Finish
<1>3. ~(\/ ActDone \/ ActNext \/ ActError \/ ActGotoWorkflow \/ ActPlainRetry
        \/ ActReferenceWorkflow \/ ActReferenceMissing \/ ActReferenceStep
        \/ ActReferenceSubWorkflow)
  BY DEF ActDone, ActNext, ActError, ActGotoWorkflow, ActPlainRetry,
         ActReferenceWorkflow, ActReferenceMissing, ActReferenceStep,
         ActReferenceSubWorkflow, Decided
<1>4. QED
  BY <1>1, <1>2, <1>3 DEF Next, EngineStep, ReplyStep

LEMMA CancelledStops ==
  ASSUME Typed, cancelled, [Next]_vars
  PROVE  frame' = frame \/ Stopping
<1>1. top \in Frame /\ top = frame[depth] /\ depth \in Depths
  BY TopPlaced DEF top
<1>2. CancelError \in Cancellations
  BY DEF CancelError, Cancellations
<1>3. CASE RequestCancelled
  BY <1>1, <1>3, StopsHere DEF RequestCancelled, Frame, StopsAt
<1>4. CASE RoutingCancelled
  BY <1>1, <1>4, StopsHere DEF RoutingCancelled, Frame, StopsAt
<1>5. CASE ObserveCancel
  BY <1>1, <1>2, <1>5, StopsHere DEF ObserveCancel, Ended, Frame, StopsAt
<1>6. CASE RunOutOfIterations
  BY <1>1, <1>6, StopsHere DEF RunOutOfIterations, At, Ended, Frame, StopsAt
<1>7. ASSUME SubWorkflowReturned \/ GotoReturned \/ ReferenceReturned
      PROVE  /\ depth > 0 /\ Caller \in Frame
             /\ depth - 1 < depth /\ frame[(depth - 1) + 1] = top
  <2>1. {"subcall", "gotocall", "refcall", "refsubcall"} \subseteq Attempting
    BY DEF Attempting, Locations, Outside
  <2>2. depth > 0 /\ Caller \in Frame
    BY <1>7, <2>1, CallerPlaced
    DEF SubWorkflowReturned, GotoReturned, ReferenceReturned
  <2>3. depth \in Int
    BY <1>1, MaxCallDepthAssumption DEF Depths
  <2>4. QED
    BY <1>1, <2>2, <2>3
<1>8. CASE SubWorkflowReturned
  <2>1. PICK r \in SubWorkflowResults(top.result) :
          ResumeWith([Caller EXCEPT !.pc = "settled", !.result = r])
    BY <1>8 DEF SubWorkflowReturned
  <2>2. StopsAt(depth - 1, [Caller EXCEPT !.pc = "settled", !.result = r])
    BY <1>7, <1>8 DEF Frame, StopsAt
  <2>3. QED
    BY <1>7, <1>8, <2>1, <2>2, StopsBelow
<1>9. CASE GotoReturned
  <2>1. StopsAt(depth - 1, Ended(Caller, top.result))
    BY <1>7, <1>9 DEF Ended, Frame, StopsAt
  <2>2. QED
    BY <1>7, <1>9, <2>1, StopsBelow DEF GotoReturned
<1>10. CASE ReferenceReturned
  <2>1. StopsAt(depth - 1, Ended(Caller, CancelError))
    BY <1>2, <1>7, <1>10 DEF Ended, Frame, StopsAt
  <2>2. QED
    BY <1>7, <1>10, <2>1, StopsBelow DEF ReferenceReturned
<1>11. QED
  BY <1>3, <1>4, <1>5, <1>6, <1>8, <1>9, <1>10, CancelledSteps

\* Once the token has fired, no step is begun, no request sent and no retry
\* reported, at any depth of the stack.
THEOREM CancelStopsWork == Spec => NoWorkAfterCancel
<1>1. ASSUME Typed, [Next]_vars
      PROVE  [cancelled => \A d \in Depths :
                frame'[d].pc \in Working \union {"begun"}
                  => frame'[d].pc = frame[d].pc]_vars
  <2>1. CASE cancelled
    <3>1. frame' = frame \/ Stopping
      BY <1>1, <2>1, CancelledStops
    <3>2. Idle.pc = "idle"
      BY DEF Idle
    <3>3. QED
      BY <3>1, <3>2 DEF Stopping, StopsAt, Working
  <2>2. QED
    BY <2>1
<1>2. Init => Typed
  BY TypedInit
<1>3. Typed /\ [Next]_vars => Typed'
  BY TypedNext
<1>4. QED
  BY <1>1, <1>2, <1>3, PTL DEF Spec, NoWorkAfterCancel

\* Once the token has fired, whatever returns in a later step returns a
\* cancellation, what the activation it called had returned before, or an
\* exhausted iteration budget.
THEOREM CancelPrevails == Spec => CancelledStaysCancelled
<1>1. ASSUME Typed, [Next]_vars
      PROVE  [cancelled => \A d \in Depths :
                (frame'[d].pc = "return" /\ frame[d].pc # "return") =>
                   \/ frame'[d].result \in Cancellations
                   \/ frame[d].pc = "loop" /\ frame[d].left = 0
                   \/ d < depth /\ frame'[d].result = frame[d + 1].result]_vars
  <2>1. CASE cancelled
    <3>1. frame' = frame \/ Stopping
      BY <1>1, <2>1, CancelledStops
    <3>2. Idle.pc = "idle"
      BY DEF Idle
    <3>3. QED
      BY <3>1, <3>2 DEF Stopping, StopsAt
  <2>2. QED
    BY <2>1
<1>2. Init => Typed
  BY TypedInit
<1>3. Typed /\ [Next]_vars => Typed'
  BY TypedNext
<1>4. QED
  BY <1>1, <1>2, <1>3, PTL DEF Spec, CancelledStaysCancelled

\* A fired token stops the work, decides the outcome and keeps what it cut
\* short out of the record, at every depth of the stack.
THEOREM TokenDecides == Spec => TokenPrevails
BY CancelledUnrecorded, CancelStopsWork, CancelPrevails DEF TokenPrevails
=============================================================================
