----------------------------- MODULE DebugProofs -----------------------------
(***************************************************************************)
(* Proofs that the gate shows the client the engine's call chain, moves    *)
(* the engine only as it was told to, and implements the abstract protocol *)
(* of a pausable run; and, in the second half, that a session tells the    *)
(* client all of a run, in order, and its end once.                        *)
(***************************************************************************)
EXTENDS DapSession, SequenceTheorems, FiniteSetTheorems, TLAPS

(***************************************************************************)
(* The inductive invariant.  A wait is a paused engine, and a permit is    *)
(* given to a wait, at the stop it waits at.                               *)
(***************************************************************************)
AtGate == engine \in {"deciding", "paused"}

GateConsistent ==
  /\ engine = "deciding" => nextSeq < MaxStops
  /\ AtGate => Top \in Places
  /\ waiting <=> engine = "paused"
  /\ permit => waiting /\ answered = nextSeq
  /\ poisoned => engine = "ended"

\* While the engine waits, the last stop not yet taken is the one it waits at.
LastStopIsCurrent ==
  waiting /\ stops # <<>> => Last(stops).seq = nextSeq /\ Last(stops).depth = Depth

\* The mode the gate runs in is the one that what was last granted arms.
ModeIsGranted ==
  /\ runMode.kind = asked.kind
  /\ asked.kind # "Continue" => runMode = ArmedMode(asked.kind, asked) /\ asked.seq <= nextSeq

\* A caller has passed its own checkpoint, and a record of the activations
\* agrees with every activation that has passed one; it may hold more, until
\* the next gate cuts it.
CallersPassed == \A i \in 1 .. Depth : chain[i] # NoPlace
Mirrors(record) ==
  \A i \in DOMAIN chain : chain[i] # NoPlace => i \in DOMAIN record /\ record[i] = chain[i]

RecordsFollow ==
  entry = "execute" =>
    /\ CallersPassed /\ Mirrors(stack) /\ Mirrors(frames)
    /\ AtGate => stack = chain /\ frames = chain

GateInv == DebugTypeOK /\ GateConsistent /\ LastStopIsCurrent /\ ModeIsGranted /\ RecordsFollow

-----------------------------------------------------------------------------
(***************************************************************************)
(* The sequences of the gate.                                              *)
(***************************************************************************)
Marks == Places \union {NoPlace}

LEMMA ChainFacts ==
  ASSUME DebugTypeOK
  PROVE  /\ chain \in Seq(Marks) /\ Len(chain) \in Nat /\ Len(chain) = Depth + 1
         /\ Depth \in Nat /\ Depth <= MaxDepth /\ MaxDepth \in Nat
         /\ DOMAIN chain = 1 .. Depth + 1 /\ Top \in Marks /\ chain # <<>>
<1>1. chain \in Seq(Marks) /\ Len(chain) \in 1 .. MaxDepth + 1
  BY DEF DebugTypeOK, Marks
<1>2. Len(chain) \in Nat /\ DOMAIN chain = 1 .. Len(chain)
  BY <1>1, LenProperties
<1>3. MaxDepth \in Nat
  BY DebugBoundsAssumption
<1>4. Depth \in Nat /\ Len(chain) = Depth + 1 /\ Depth <= MaxDepth
  BY <1>1, <1>2, <1>3 DEF Depth
<1>5. Top \in Marks
  BY <1>1, <1>2, <1>3, ElementOfSeq DEF Top
<1>6. chain # <<>>
  BY <1>1, <1>2, <1>3, EmptySeq
<1>7. QED
  BY <1>1, <1>2, <1>3, <1>4, <1>5, <1>6

\* upsert_stack_frame leaves depth + 1 entries, the place on top, and keeps
\* the callers' entries.
LEMMA UpsertFacts ==
  ASSUME NEW stk \in Seq(Marks), NEW place \in Places, NEW depth \in Nat
  PROVE  LET new == Upsert(stk, place, depth) IN
           /\ new \in Seq(Marks) /\ Len(new) = depth + 1 /\ DOMAIN new = 1 .. depth + 1
           /\ new[depth + 1] = place
           /\ \A i \in 1 .. depth : i \in DOMAIN stk => new[i] = stk[i]
<1> DEFINE new == Upsert(stk, place, depth)
<1>1. Len(stk) \in Nat /\ DOMAIN stk = 1 .. Len(stk)
  BY LenProperties
<1>2. new = [i \in 1 .. depth + 1 |->
               IF i = depth + 1 THEN place ELSE IF i <= Len(stk) THEN stk[i] ELSE NoPlace]
  BY DEF Upsert
<1>3. ASSUME NEW i \in 1 .. depth + 1 PROVE new[i] \in Marks
  <2>1. i <= Len(stk) => stk[i] \in Marks
    BY <1>1, ElementOfSeq
  <2>2. QED
    BY <1>2, <2>1 DEF Marks
<1> HIDE DEF new
<1>4. depth + 1 \in Nat /\ new \in [1 .. depth + 1 -> Marks]
  BY <1>2, <1>3
<1>5. new \in Seq(Marks)
  BY <1>4
<1>6. Len(new) = depth + 1
  BY <1>4, <1>5, LenProperties
<1>7. new[depth + 1] = place
  BY <1>2
<1>8. \A i \in 1 .. depth : i \in DOMAIN stk => new[i] = stk[i]
  BY <1>1, <1>2
<1>9. QED
  BY <1>4, <1>5, <1>6, <1>7, <1>8 DEF new

\* Pushing a frame keeps the callers' frames, and when there is one for each
\* caller leaves depth + 1.
LEMMA PushFacts ==
  ASSUME NEW frs \in Seq(Places), NEW place \in Places, NEW depth \in Nat
  PROVE  LET new == PushFrame(frs, place, depth) IN
           /\ new \in Seq(Places)
           /\ Len(frs) >= depth =>
                /\ Len(new) = depth + 1 /\ DOMAIN new = 1 .. depth + 1
                /\ new[depth + 1] = place /\ \A i \in 1 .. depth : new[i] = frs[i]
<1> DEFINE kept == IF Len(frs) > depth THEN SubSeq(frs, 1, depth) ELSE frs
           new == PushFrame(frs, place, depth)
<1>1. Len(frs) \in Nat
  BY LenProperties
<1>2. /\ kept \in Seq(Places)
      /\ Len(frs) >= depth => Len(kept) = depth /\ \A i \in 1 .. depth : kept[i] = frs[i]
  <2>1. CASE Len(frs) > depth
    <3>1. kept = SubSeq(frs, 1, depth)
      BY <2>1
    <3> HIDE DEF kept
    <3>2. \A i \in 1 .. depth : frs[i] \in Places
      BY <1>1, <2>1, ElementOfSeq
    <3>3. 1 \in Int /\ depth \in Int /\ (depth = 0 \/ 1 <= depth)
      BY <1>1, <2>1
    <3>4. /\ SubSeq(frs, 1, depth) \in Seq(Places)
          /\ Len(SubSeq(frs, 1, depth)) = depth
          /\ \A i \in 1 .. depth : SubSeq(frs, 1, depth)[i] = frs[i]
      BY <1>1, <2>1, <3>2, <3>3, SubSeqProperties
    <3>5. QED
      BY <2>1, <3>1, <3>4
  <2>2. CASE Len(frs) <= depth
    <3>1. kept = frs /\ (Len(frs) >= depth => Len(frs) = depth)
      BY <1>1, <2>2
    <3> HIDE DEF kept
    <3>2. frs \in Seq(Places)
      OBVIOUS
    <3>3. QED
      BY <3>1, <3>2
  <2>3. QED
    BY <1>1, <2>1, <2>2
<1>3. new = Append(kept, place)
  BY DEF PushFrame
<1> HIDE DEF kept, new
<1>4. /\ new \in Seq(Places) /\ Len(new) = Len(kept) + 1 /\ Len(kept) \in Nat
      /\ \A i \in 1 .. Len(kept) : new[i] = kept[i]
      /\ new[Len(kept) + 1] = place
  BY <1>2, <1>3, AppendProperties, LenProperties
<1>5. ASSUME Len(frs) >= depth
      PROVE  /\ Len(new) = depth + 1 /\ DOMAIN new = 1 .. depth + 1
             /\ new[depth + 1] = place /\ \A i \in 1 .. depth : new[i] = frs[i]
  BY <1>2, <1>4, <1>5, LenProperties
<1>6. QED
  BY <1>4, <1>5 DEF new

-----------------------------------------------------------------------------
(***************************************************************************)
(* The actions by what they leave alone.                                   *)
(***************************************************************************)
\* The engine moves between gates: nothing of the gate changes.
Moves == Call \/ Return \/ BeginUngated

\* The gate is left without a stop.
Leaves == PassGate \/ FailGate \/ GatePanics \/ EngineEnds

\* Neither the engine nor the records of its activations change.
Aside ==
  \/ ReportWorkflowOutput \/ Cancel \/ RequestPause \/ TakeStopEvents \/ TakeDiagnostics
  \/ \E bps \in BreakpointLists : SetBreakpoints(bps)

Resumes == ContinueExecution \/ \E kind \in StepKinds : StepCommand(kind)

LEMMA DebugSteps ==
  DebugNext <=> \/ Moves \/ Leaves \/ Aside \/ Resumes
                \/ (\E p \in Places : EnterGate(p)) \/ StopAtGate \/ LeaveGate
BY DEF DebugNext, EngineStep, ClientStep, Moves, Leaves, Aside, Resumes

\* What the engine does between gates needs no gate.
LEMMA MovesKeep ==
  ASSUME Moves
  PROVE  /\ engine = "running" /\ UNCHANGED <<entry, engine, cancelled, ctlVars, askVars>>
BY DEF Moves, Call, Return, BeginUngated

LEMMA LeavesKeep ==
  ASSUME Leaves
  PROVE  /\ engine \in {"running", "deciding"} /\ engine' \in {"running", "ended"}
         /\ poisoned' = poisoned \/ (poisoned' = TRUE /\ engine' = "ended")
         /\ UNCHANGED <<entry, chain, cancelled, breakpoints, pauseRequested, runMode, waiting,
                        permit, stops, nextSeq, stack, frames, diagnostics, askVars>>
<1>1. CASE PassGate
  BY <1>1 DEF PassGate, ctlVars
<1>2. CASE FailGate
  BY <1>2 DEF FailGate, ctlVars
<1>3. CASE GatePanics
  BY <1>3 DEF GatePanics
<1>4. CASE EngineEnds
  BY <1>4 DEF EngineEnds, ctlVars
<1>5. QED
  BY <1>1, <1>2, <1>3, <1>4 DEF Leaves

LEMMA AsideKeeps ==
  ASSUME Aside
  PROVE  /\ UNCHANGED <<entry, engine, chain, runMode, waiting, permit, nextSeq, stack, frames,
                        poisoned, askVars>>
         /\ stops' = stops \/ stops' = <<>>
BY DEF Aside, ReportWorkflowOutput, Cancel, RequestPause, TakeStopEvents, TakeDiagnostics,
       SetBreakpoints, engineVars, ctlVars

LEMMA ResumesArm ==
  ASSUME Resumes
  PROVE  /\ Unlocked /\ waiting /\ permit' = TRUE /\ answered' = nextSeq
         /\ UNCHANGED <<engineVars, breakpoints, waiting, stops, nextSeq, stack, frames,
                        diagnostics, poisoned>>
         /\ pauseRequested' = FALSE
         /\ \/ runMode' = Continue /\ asked' = Continue
            \/ \E kind \in {"StepIn", "StepOver", "StepOut"} :
                 /\ stops # <<>>
                 /\ runMode' = ArmedMode(kind, Last(stops))
                 /\ asked' = [kind |-> kind, seq |-> nextSeq, depth |-> Depth]
BY EntriesAssumption DEF Resumes, ContinueExecution, StepCommand, Arm

-----------------------------------------------------------------------------
(***************************************************************************)
(* The steps keep the types.                                               *)
(***************************************************************************)
LEMMA ArmedModeTyped ==
  ASSUME NEW kind \in {"StepIn", "StepOver", "StepOut"}, NEW stop,
         stop.seq \in Nat, stop.depth \in Nat
  PROVE  ArmedMode(kind, stop) \in Mode
<1> DEFINE depth == CASE kind = "StepIn"   -> 0
                      [] kind = "StepOver" -> stop.depth
                      [] kind = "StepOut"  -> IF stop.depth = 0 THEN 0 ELSE stop.depth - 1
<1>1. depth \in Nat
  OBVIOUS
<1>2. ArmedMode(kind, stop) = [kind |-> kind, seq |-> stop.seq, depth |-> depth]
  BY DEF ArmedMode
<1> HIDE DEF depth
<1>3. QED
  BY <1>1, <1>2 DEF Mode

LEMMA ContinueTyped == Continue \in Mode
BY DEF Continue, Mode

Stop == [seq : Nat, depth : Nat, place : Places, reason : {"Breakpoint", "Pause", "Step"}]

LEMMA LastStopTyped ==
  ASSUME DebugTypeOK, stops # <<>>
  PROVE  Last(stops) \in Stop
<1>1. stops \in Seq(Stop)
  BY DEF DebugTypeOK, Stop
<1>2. Len(stops) \in Nat \ {0}
  BY <1>1, EmptySeq
<1>3. Len(stops) \in 1 .. Len(stops)
  BY <1>2
<1>4. QED
  BY <1>1, <1>3, ElementOfSeq DEF Last

LEMMA MovesTyped ==
  ASSUME DebugTypeOK, Moves PROVE DebugTypeOK'
<1>1. chain' \in Seq(Marks) /\ Len(chain') \in 1 .. MaxDepth + 1
  <2>1. CASE Call
    <3>1. chain' = Append(chain, NoPlace) /\ Depth < MaxDepth
      BY <2>1 DEF Call
    <3>2. NoPlace \in Marks
      BY DEF Marks
    <3>3. chain' \in Seq(Marks) /\ Len(chain') = Len(chain) + 1
      BY <3>1, <3>2, ChainFacts, AppendProperties
    <3>4. QED
      BY <3>1, <3>3, ChainFacts
  <2>2. CASE Return
    <3>1. chain' = SubSeq(chain, 1, Depth) /\ Depth > 0
      BY <2>2, ChainFacts DEF Return, Front, Depth
    <3>2. \A i \in 1 .. Depth : i \in 1 .. Len(chain)
      BY ChainFacts
    <3>3. \A i \in 1 .. Depth : chain[i] \in Marks
      BY <3>2, ChainFacts, ElementOfSeq
    <3>4. 1 \in Int /\ Depth \in Int /\ 1 <= Depth
      BY <3>1, ChainFacts
    <3>5. chain' \in Seq(Marks) /\ Len(chain') = Depth - 1 + 1
      BY <3>1, <3>3, <3>4, SubSeqProperties
    <3>6. QED
      BY <3>1, <3>5, ChainFacts
  <2>3. CASE BeginUngated
    <3>1. chain' = <<NoPlace>> /\ MaxDepth \in Nat
      BY <2>3, ChainFacts DEF BeginUngated
    <3>2. QED
      BY <3>1 DEF Marks
  <2>4. QED
    BY <2>1, <2>2, <2>3 DEF Moves
<1>2. UNCHANGED <<entry, engine, cancelled, ctlVars, askVars>>
  BY MovesKeep
<1>3. QED
  BY <1>1, <1>2 DEF DebugTypeOK, ctlVars, askVars, Marks

LEMMA EnterTyped ==
  ASSUME DebugTypeOK, NEW p \in Places, EnterGate(p) PROVE DebugTypeOK'
<1>1. chain' \in Seq(Marks) /\ Len(chain') = Len(chain)
  <2>1. p \in Marks /\ Len(chain) \in 1 .. Len(chain)
    BY ChainFacts DEF Marks
  <2>2. chain' = [chain EXCEPT ![Len(chain)] = p]
    BY DEF EnterGate
  <2>3. QED
    BY <2>1, <2>2, ChainFacts, ExceptSeq
<1>2. stack' \in Seq(Marks)
  BY ChainFacts, UpsertFacts DEF EnterGate, DebugTypeOK, Marks
<1>3. frames' \in Seq(Places)
  BY ChainFacts, PushFacts DEF EnterGate, DebugTypeOK
<1>4. diagnostics' \in 0 .. MaxDiagnostics
  <2>1. PICK unresolved \in {0, 1} :
          diagnostics + unresolved <= MaxDiagnostics /\ diagnostics' = diagnostics + unresolved
    BY DEF EnterGate
  <2>2. QED
    BY <2>1, DebugBoundsAssumption DEF DebugTypeOK
<1>5. /\ engine' = "deciding"
      /\ UNCHANGED <<entry, cancelled, breakpoints, pauseRequested, runMode, waiting, permit,
                     stops, nextSeq, poisoned, askVars>>
  BY DEF EnterGate
<1>6. QED
  BY <1>1, <1>2, <1>3, <1>4, <1>5 DEF DebugTypeOK, askVars, Marks

LEMMA StopTyped ==
  ASSUME DebugTypeOK, GateConsistent, StopAtGate PROVE DebugTypeOK'
<1>1. PICK v \in Verdicts \ {"error"} :
        /\ Reason(v) # "none"
        /\ stops' = Append(stops, [seq |-> nextSeq + 1, depth |-> Depth, place |-> Top,
                                   reason |-> Reason(v)])
  BY DEF StopAtGate
<1>2. Reason(v) \in {"Breakpoint", "Pause", "Step"}
  BY <1>1 DEF Reason
<1>3. nextSeq \in Nat /\ nextSeq + 1 \in 0 .. MaxStops
  BY DebugBoundsAssumption DEF DebugTypeOK, GateConsistent, StopAtGate
<1>4. [seq |-> nextSeq + 1, depth |-> Depth, place |-> Top, reason |-> Reason(v)] \in Stop
  BY <1>2, <1>3, ChainFacts DEF Stop, GateConsistent, AtGate, StopAtGate
<1>5. stops' \in Seq(Stop)
  BY <1>1, <1>4, AppendProperties DEF DebugTypeOK, Stop
<1>6. /\ engine' = "paused" /\ nextSeq' = nextSeq + 1 /\ pauseRequested' = FALSE
      /\ waiting' = TRUE /\ runMode' = Continue /\ asked' = Continue
      /\ UNCHANGED <<entry, chain, cancelled, breakpoints, permit, stack, frames, diagnostics,
                     poisoned, answered>>
  BY DEF StopAtGate
<1>7. QED
  BY <1>3, <1>5, <1>6, ContinueTyped DEF DebugTypeOK, Stop

LEMMA AsideTyped ==
  ASSUME DebugTypeOK, Aside PROVE DebugTypeOK'
<1>1. UNCHANGED <<entry, engine, chain, runMode, waiting, permit, nextSeq, stack, frames,
                  poisoned, asked, answered>>
  BY AsideKeeps DEF askVars
<1>2. breakpoints' \in Seq(Breakpoint)
  BY BreakpointListsAssumption
     DEF DebugTypeOK, Aside, ReportWorkflowOutput, Cancel, RequestPause, TakeStopEvents,
         TakeDiagnostics, SetBreakpoints, ctlVars
<1>3. cancelled' \in BOOLEAN /\ pauseRequested' \in BOOLEAN
  BY DEF DebugTypeOK, Aside, ReportWorkflowOutput, Cancel, RequestPause, TakeStopEvents,
         TakeDiagnostics, SetBreakpoints, engineVars, ctlVars
<1>4. diagnostics' \in {diagnostics, diagnostics + 1, 0}
      /\ (diagnostics' = diagnostics + 1 => diagnostics < MaxDiagnostics)
  BY DebugBoundsAssumption
     DEF DebugTypeOK, Aside, ReportWorkflowOutput, Cancel, RequestPause, TakeStopEvents,
         TakeDiagnostics, SetBreakpoints, ctlVars
<1>5. diagnostics' \in 0 .. MaxDiagnostics
  BY <1>4, DebugBoundsAssumption DEF DebugTypeOK
<1>6. stops' \in Seq([seq : Nat, depth : Nat, place : Places,
                      reason : {"Breakpoint", "Pause", "Step"}])
  BY AsideKeeps, EmptySeq DEF DebugTypeOK
<1>7. QED
  BY <1>1, <1>2, <1>3, <1>5, <1>6 DEF DebugTypeOK

LEMMA ResumesTyped ==
  ASSUME DebugTypeOK, Resumes PROVE DebugTypeOK'
<1>1. nextSeq \in Nat
  BY DebugBoundsAssumption DEF DebugTypeOK
<1>2. runMode' \in Mode /\ asked' \in Mode
  <2>1. CASE runMode' = Continue /\ asked' = Continue
    BY <2>1, ContinueTyped
  <2>2. ASSUME NEW kind \in {"StepIn", "StepOver", "StepOut"}, stops # <<>>,
               runMode' = ArmedMode(kind, Last(stops)),
               asked' = [kind |-> kind, seq |-> nextSeq, depth |-> Depth]
        PROVE  runMode' \in Mode /\ asked' \in Mode
    <3>1. Last(stops).seq \in Nat /\ Last(stops).depth \in Nat
      BY <2>2, LastStopTyped DEF Stop
    <3>2. runMode' \in Mode
      BY <2>2, <3>1, ArmedModeTyped
    <3>3. asked' \in Mode
      BY <1>1, <2>2, ChainFacts DEF Mode
    <3>4. QED
      BY <3>2, <3>3
  <2>3. QED
    BY <2>1, <2>2, ResumesArm
<1>3. QED
  BY <1>2, ResumesArm DEF DebugTypeOK, engineVars

LEMMA LeaveGateTyped == ASSUME DebugTypeOK, LeaveGate PROVE DebugTypeOK'
BY DEF LeaveGate, DebugTypeOK, askVars

LEMMA LeavesTyped == ASSUME DebugTypeOK, Leaves PROVE DebugTypeOK'
<1>1. poisoned' \in BOOLEAN
  BY LeavesKeep DEF DebugTypeOK
<1>2. QED
  BY <1>1, LeavesKeep DEF DebugTypeOK, askVars

\* The gate writes the top of the chain, and nothing below it.
LEMMA EnterChain ==
  ASSUME DebugTypeOK, NEW p \in Places, EnterGate(p)
  PROVE  /\ chain' \in Seq(Marks) /\ Len(chain') = Depth + 1 /\ DOMAIN chain' = 1 .. Depth + 1
         /\ Depth' = Depth /\ Top' = p /\ chain'[Depth + 1] = p
         /\ \A i \in 1 .. Depth : chain'[i] = chain[i]
<1>1. chain' = [chain EXCEPT ![Len(chain)] = p]
  BY DEF EnterGate
<1>2. p \in Marks /\ Len(chain) \in 1 .. Len(chain)
  BY ChainFacts DEF Marks
<1>3. /\ chain' \in Seq(Marks) /\ Len(chain') = Len(chain)
      /\ \A i \in 1 .. Len(chain) : chain'[i] = IF i = Len(chain) THEN p ELSE chain[i]
  BY <1>1, <1>2, ChainFacts, ExceptSeq
<1>4. DOMAIN chain' = 1 .. Depth + 1
  BY <1>3, ChainFacts, LenProperties
<1>5. Depth' = Depth /\ Top' = p /\ chain'[Depth + 1] = p
  BY <1>2, <1>3, ChainFacts DEF Depth, Top
<1>6. ASSUME NEW i \in 1 .. Depth PROVE chain'[i] = chain[i]
  BY <1>3, ChainFacts
<1>7. QED
  BY <1>3, <1>4, <1>5, <1>6, ChainFacts

LEMMA ConsistentNext ==
  ASSUME DebugTypeOK, GateConsistent, DebugNext PROVE GateConsistent'
<1>1. CASE Moves
  BY <1>1, MovesKeep DEF GateConsistent, AtGate, ctlVars, askVars
<1>2. CASE Leaves
  <2>1. waiting = FALSE /\ permit = FALSE /\ poisoned = FALSE
    BY <1>2, LeavesKeep DEF GateConsistent, DebugTypeOK
  <2>2. /\ waiting' = FALSE /\ permit' = FALSE /\ engine' \in {"running", "ended"}
        /\ poisoned' = FALSE \/ engine' = "ended"
    BY <1>2, <2>1, LeavesKeep
  <2>3. QED
    BY <2>2 DEF GateConsistent, AtGate
<1>3. CASE Aside
  BY <1>3, AsideKeeps DEF GateConsistent, AtGate, Top, askVars
<1>4. CASE Resumes
  BY <1>4, ResumesArm DEF GateConsistent, AtGate, Top, engineVars
<1>5. ASSUME NEW p \in Places, EnterGate(p) PROVE GateConsistent'
  BY <1>5, EnterChain DEF GateConsistent, AtGate, EnterGate, askVars, Unlocked
<1>6. CASE StopAtGate
  BY <1>6 DEF GateConsistent, AtGate, StopAtGate, Top
<1>7. CASE LeaveGate
  BY <1>7 DEF GateConsistent, AtGate, LeaveGate, askVars
<1>8. QED
  BY <1>1, <1>2, <1>3, <1>4, <1>5, <1>6, <1>7, DebugSteps

LEMMA LastStopNext ==
  ASSUME DebugTypeOK, GateConsistent, LastStopIsCurrent, DebugNext PROVE LastStopIsCurrent'
<1>1. CASE Moves
  BY <1>1, MovesKeep DEF GateConsistent, LastStopIsCurrent, ctlVars
<1>2. CASE Leaves
  BY <1>2, LeavesKeep DEF GateConsistent, LastStopIsCurrent
<1>3. CASE Aside
  BY <1>3, AsideKeeps DEF LastStopIsCurrent, Depth
<1>4. CASE Resumes
  BY <1>4, ResumesArm DEF LastStopIsCurrent, Depth, engineVars
<1>5. ASSUME NEW p \in Places, EnterGate(p) PROVE LastStopIsCurrent'
  BY <1>5 DEF GateConsistent, LastStopIsCurrent, EnterGate
<1>6. CASE StopAtGate
  <2>1. PICK v \in Verdicts \ {"error"} :
          stops' = Append(stops, [seq |-> nextSeq + 1, depth |-> Depth, place |-> Top,
                                  reason |-> Reason(v)])
    BY <1>6 DEF StopAtGate
  <2>2. Last(stops') = [seq |-> nextSeq + 1, depth |-> Depth, place |-> Top,
                        reason |-> Reason(v)]
    BY <2>1, AppendProperties DEF DebugTypeOK, Last
  <2>3. nextSeq' = nextSeq + 1 /\ Depth' = Depth
    BY <1>6 DEF StopAtGate, Depth
  <2>4. QED
    BY <2>2, <2>3 DEF LastStopIsCurrent
<1>7. CASE LeaveGate
  BY <1>7 DEF LastStopIsCurrent, LeaveGate
<1>8. QED
  BY <1>1, <1>2, <1>3, <1>4, <1>5, <1>6, <1>7, DebugSteps

LEMMA ModeNext ==
  ASSUME DebugTypeOK, GateConsistent, LastStopIsCurrent, ModeIsGranted, DebugNext
  PROVE  ModeIsGranted'
<1>1. nextSeq \in Nat
  BY DebugBoundsAssumption DEF DebugTypeOK
<1>2. CASE UNCHANGED <<runMode, asked, nextSeq>>
  BY <1>2 DEF ModeIsGranted
<1>3. Continue.kind = "Continue"
  BY DEF Continue
<1>4. CASE runMode' = Continue /\ asked' = Continue
  BY <1>3, <1>4 DEF ModeIsGranted
<1>5. ASSUME Resumes, NEW kind \in {"StepIn", "StepOver", "StepOut"}, stops # <<>>,
             runMode' = ArmedMode(kind, Last(stops)),
             asked' = [kind |-> kind, seq |-> nextSeq, depth |-> Depth]
      PROVE  ModeIsGranted'
  <2>1. Last(stops).seq = nextSeq /\ Last(stops).depth = Depth /\ nextSeq' = nextSeq
    BY <1>5, ResumesArm DEF LastStopIsCurrent
  <2>2. runMode' = ArmedMode(kind, asked')
    BY <1>5, <2>1 DEF ArmedMode
  <2>3. runMode'.kind = kind /\ asked'.kind = kind /\ asked'.seq = nextSeq
    BY <1>5 DEF ArmedMode
  <2>4. QED
    BY <1>1, <2>1, <2>2, <2>3 DEF ModeIsGranted
<1>6. CASE Resumes
  BY <1>4, <1>5, <1>6, ResumesArm
<1>7. CASE StopAtGate
  BY <1>4, <1>7 DEF StopAtGate
<1>8. ASSUME NEW p \in Places, EnterGate(p) PROVE ModeIsGranted'
  BY <1>2, <1>8 DEF EnterGate, askVars
<1>9. CASE Moves \/ Leaves \/ Aside \/ LeaveGate
  BY <1>2, <1>9, MovesKeep, LeavesKeep, AsideKeeps DEF ctlVars, askVars, LeaveGate
<1>10. QED
  BY <1>6, <1>7, <1>8, <1>9, DebugSteps

(***************************************************************************)
(* The records follow the chain.                                           *)
(***************************************************************************)
LEMMA RecordsCall ==
  ASSUME DebugTypeOK, RecordsFollow, entry = "execute", Call PROVE RecordsFollow'
<1>1. chain' = Append(chain, NoPlace) /\ Top # NoPlace
  BY DEF Call
<1>2. NoPlace \in Marks
  BY DEF Marks
<1>3. /\ chain' \in Seq(Marks) /\ Len(chain') = Depth + 2
      /\ \A i \in 1 .. Depth + 1 : chain'[i] = chain[i]
      /\ chain'[Depth + 2] = NoPlace
  BY <1>1, <1>2, ChainFacts, AppendProperties
<1>4. DOMAIN chain' = 1 .. Depth + 2 /\ Depth' = Depth + 1
  BY <1>3, ChainFacts, LenProperties DEF Depth
<1>5. ASSUME NEW i \in 1 .. Depth' PROVE chain'[i] # NoPlace
  <2>1. i \in 1 .. Depth + 1 /\ (i = Depth + 1 \/ i \in 1 .. Depth)
    BY <1>4, ChainFacts
  <2>2. chain[Depth + 1] = Top
    BY ChainFacts DEF Top
  <2>3. QED
    BY <1>1, <1>3, <2>1, <2>2 DEF RecordsFollow, CallersPassed
<1>6. ASSUME NEW i \in DOMAIN chain', chain'[i] # NoPlace
      PROVE  i \in DOMAIN chain /\ chain'[i] = chain[i]
  BY <1>3, <1>4, <1>6, ChainFacts
<1>7. Mirrors(stack)' /\ Mirrors(frames)'
  BY <1>6 DEF RecordsFollow, Mirrors, Call, ctlVars
<1>8. ~AtGate'
  BY DEF Call, AtGate
<1>9. QED
  BY <1>5, <1>7, <1>8 DEF RecordsFollow, CallersPassed

LEMMA RecordsReturn ==
  ASSUME DebugTypeOK, RecordsFollow, entry = "execute", Return PROVE RecordsFollow'
<1>1. chain' = SubSeq(chain, 1, Depth) /\ Depth > 0
  BY ChainFacts DEF Return, Front, Depth
<1>2. \A i \in 1 .. Depth : chain[i] \in Marks
  <2>1. \A i \in 1 .. Depth : i \in 1 .. Len(chain)
    BY ChainFacts
  <2>2. QED
    BY <2>1, ChainFacts, ElementOfSeq
<1>3. 1 \in Int /\ Depth \in Int /\ 1 <= Depth
  BY <1>1, ChainFacts
<1>4. /\ chain' \in Seq(Marks) /\ Len(chain') = Depth - 1 + 1
      /\ \A i \in 1 .. Depth - 1 + 1 : chain'[i] = chain[1 + i - 1]
  BY <1>1, <1>2, <1>3, SubSeqProperties
<1>5. Len(chain') = Depth /\ \A i \in 1 .. Depth : chain'[i] = chain[i]
  BY <1>4, ChainFacts
<1>6. DOMAIN chain' = 1 .. Depth /\ Depth' = Depth - 1
  BY <1>4, <1>5, LenProperties DEF Depth
<1>7. ASSUME NEW i \in 1 .. Depth' PROVE chain'[i] # NoPlace
  <2>1. i \in 1 .. Depth
    BY <1>6, ChainFacts
  <2>2. QED
    BY <1>5, <2>1 DEF RecordsFollow, CallersPassed
<1>8. ASSUME NEW i \in DOMAIN chain'
      PROVE  i \in DOMAIN chain /\ chain'[i] = chain[i]
  BY <1>5, <1>6, ChainFacts
<1>9. Mirrors(stack)' /\ Mirrors(frames)'
  BY <1>8 DEF RecordsFollow, Mirrors, Return, ctlVars
<1>10. ~AtGate'
  BY DEF Return, AtGate
<1>11. QED
  BY <1>7, <1>9, <1>10 DEF RecordsFollow, CallersPassed

LEMMA RecordsEnter ==
  ASSUME DebugTypeOK, RecordsFollow, entry = "execute", NEW p \in Places, EnterGate(p)
  PROVE  RecordsFollow'
<1>1. /\ Depth \in Nat
      /\ stack \in Seq(Marks) /\ stack' = Upsert(stack, p, Depth)
      /\ frames \in Seq(Places) /\ frames' = PushFrame(frames, p, Depth)
  BY ChainFacts DEF EnterGate, DebugTypeOK, Marks
<1>2. ASSUME NEW i \in 1 .. Depth
      PROVE  /\ i \in DOMAIN chain /\ chain[i] # NoPlace /\ chain'[i] = chain[i]
             /\ i \in DOMAIN stack /\ stack[i] = chain[i]
             /\ i \in DOMAIN frames /\ frames[i] = chain[i]
  <2>1. i \in DOMAIN chain
    BY ChainFacts
  <2>2. chain[i] # NoPlace /\ Mirrors(stack) /\ Mirrors(frames)
    BY DEF RecordsFollow, CallersPassed
  <2>3. QED
    BY <2>1, <2>2, EnterChain DEF Mirrors
<1>3. stack' = chain'
  <2>1. /\ stack' \in Seq(Marks) /\ Len(stack') = Depth + 1 /\ stack'[Depth + 1] = p
        /\ \A i \in 1 .. Depth : stack'[i] = stack[i]
    BY <1>1, <1>2, UpsertFacts, ZenonT(40)
  <2>2. ASSUME NEW i \in 1 .. Len(stack') PROVE stack'[i] = chain'[i]
    <3>1. i = Depth + 1 \/ i \in 1 .. Depth
      BY <1>1, <2>1
    <3>2. QED
      BY <1>2, <2>1, <3>1, EnterChain
  <2>3. QED
    BY <2>1, <2>2, EnterChain, SeqEqual
<1>4. frames' = chain'
  <2>1. Len(frames) >= Depth
    <3>1. Len(frames) \in Nat /\ (Depth = 0 \/ Depth \in 1 .. Depth)
      BY <1>1, LenProperties
    <3>2. Depth = 0 \/ Depth \in DOMAIN frames
      BY <1>2, <3>1
    <3>3. Depth = 0 \/ Depth \in 1 .. Len(frames)
      BY <1>1, <3>2, LenProperties
    <3>4. QED
      BY <1>1, <3>1, <3>3
  <2>2. /\ frames' \in Seq(Places) /\ Len(frames') = Depth + 1 /\ frames'[Depth + 1] = p
        /\ \A i \in 1 .. Depth : frames'[i] = frames[i]
    BY <1>1, <2>1, PushFacts, ZenonT(40)
  <2>3. frames' \in Seq(Marks)
    BY <2>2, SeqMonotonic DEF Marks
  <2>4. ASSUME NEW i \in 1 .. Len(frames') PROVE frames'[i] = chain'[i]
    <3>1. i = Depth + 1 \/ i \in 1 .. Depth
      BY <1>1, <2>2
    <3>2. QED
      BY <1>2, <2>2, <3>1, EnterChain
  <2>5. QED
    BY <2>2, <2>3, <2>4, EnterChain, SeqEqual
<1>5. \A i \in 1 .. Depth' : chain'[i] # NoPlace
  BY <1>2, EnterChain
<1>6. QED
  BY <1>3, <1>4, <1>5 DEF RecordsFollow, CallersPassed, Mirrors

LEMMA EntryKept == ASSUME DebugNext PROVE entry' = entry
<1>1. CASE Moves
  BY <1>1, MovesKeep
<1>2. CASE Leaves
  BY <1>2, LeavesKeep
<1>3. CASE Aside
  BY <1>3, AsideKeeps
<1>4. CASE Resumes
  BY <1>4, ResumesArm DEF engineVars
<1>5. CASE ~(Moves \/ Leaves \/ Aside \/ Resumes)
  BY <1>5, DebugSteps DEF EnterGate, StopAtGate, LeaveGate
<1>6. QED
  BY <1>1, <1>2, <1>3, <1>4, <1>5

LEMMA RecordsNext ==
  ASSUME DebugTypeOK, GateConsistent, RecordsFollow, DebugNext PROVE RecordsFollow'
<1> SUFFICES ASSUME entry = "execute" PROVE RecordsFollow'
  BY EntryKept DEF RecordsFollow
<1>1. CASE Call
  BY <1>1, RecordsCall
<1>2. CASE Return
  BY <1>2, RecordsReturn
<1>3. CASE BeginUngated
  BY <1>3 DEF BeginUngated
<1>4. ASSUME UNCHANGED <<entry, chain, stack, frames>>, AtGate' => AtGate PROVE RecordsFollow'
  BY <1>4 DEF RecordsFollow, CallersPassed, Mirrors, Depth
<1>5. CASE Leaves
  BY <1>4, <1>5, LeavesKeep DEF AtGate
<1>6. CASE Aside
  BY <1>4, <1>6, AsideKeeps DEF AtGate
<1>7. CASE Resumes
  BY <1>4, <1>7, ResumesArm DEF AtGate, engineVars
<1>8. ASSUME NEW p \in Places, EnterGate(p) PROVE RecordsFollow'
  BY <1>8, RecordsEnter
<1>9. CASE StopAtGate
  BY <1>4, <1>9 DEF StopAtGate, AtGate
<1>10. CASE LeaveGate
  BY <1>4, <1>10 DEF LeaveGate, AtGate
<1>11. QED
  BY <1>1, <1>2, <1>3, <1>5, <1>6, <1>7, <1>8, <1>9, <1>10, DebugSteps DEF Moves

-----------------------------------------------------------------------------
(***************************************************************************)
(* The invariant holds, and what it says.                                  *)
(***************************************************************************)
LEMMA GateInvInit == ASSUME DebugInit PROVE GateInv
<1>1. /\ entry \in Entries /\ engine = "running" /\ chain = <<NoPlace>> /\ cancelled = FALSE
      /\ breakpoints = <<>> /\ pauseRequested \in BOOLEAN /\ runMode = Continue
      /\ waiting = FALSE /\ permit = FALSE /\ stops = <<>> /\ nextSeq = 0
      /\ stack = <<>> /\ frames = <<>> /\ diagnostics = 0 /\ poisoned = FALSE
      /\ asked = Continue /\ answered = 0
  BY DEF DebugInit
<1>2. chain \in Seq(Marks) /\ Len(chain) = 1 /\ DOMAIN chain = {1} /\ chain[1] = NoPlace
  BY <1>1 DEF Marks
<1>3. DebugTypeOK
  <2>1. Len(chain) \in 1 .. MaxDepth + 1 /\ nextSeq \in 0 .. MaxStops
        /\ answered \in 0 .. MaxStops /\ diagnostics \in 0 .. MaxDiagnostics
    BY <1>1, <1>2, DebugBoundsAssumption
  <2>2. /\ breakpoints \in Seq(Breakpoint) /\ stack \in Seq(Marks) /\ frames \in Seq(Places)
        /\ stops \in Seq(Stop)
    BY <1>1, EmptySeq
  <2>3. runMode \in Mode /\ asked \in Mode
    BY <1>1, ContinueTyped
  <2>4. QED
    BY <1>1, <1>2, <2>1, <2>2, <2>3 DEF DebugTypeOK, Marks, Stop
<1>4. GateConsistent /\ LastStopIsCurrent
  BY <1>1 DEF GateConsistent, AtGate, LastStopIsCurrent
<1>5. ModeIsGranted
  BY <1>1 DEF ModeIsGranted, Continue
<1>6. RecordsFollow
  <2>1. Depth = 0
    BY <1>2 DEF Depth
  <2>2. CallersPassed
    BY <2>1 DEF CallersPassed
  <2>3. Mirrors(stack) /\ Mirrors(frames)
    BY <1>2 DEF Mirrors
  <2>4. QED
    BY <1>1, <2>2, <2>3 DEF RecordsFollow, AtGate
<1>7. QED
  BY <1>3, <1>4, <1>5, <1>6 DEF GateInv

LEMMA GateInvNext == ASSUME GateInv, [DebugNext]_debugVars PROVE GateInv'
<1>1. CASE DebugNext
  <2>1. DebugTypeOK'
    <3>1. CASE Moves
      BY <3>1, MovesTyped DEF GateInv
    <3>2. CASE Leaves
      BY <3>2, LeavesTyped DEF GateInv
    <3>3. CASE Aside
      BY <3>3, AsideTyped DEF GateInv
    <3>4. CASE Resumes
      BY <3>4, ResumesTyped DEF GateInv
    <3>5. ASSUME NEW p \in Places, EnterGate(p) PROVE DebugTypeOK'
      BY <3>5, EnterTyped DEF GateInv
    <3>6. CASE StopAtGate
      BY <3>6, StopTyped DEF GateInv
    <3>7. CASE LeaveGate
      BY <3>7, LeaveGateTyped DEF GateInv
    <3>8. QED
      BY <1>1, <3>1, <3>2, <3>3, <3>4, <3>5, <3>6, <3>7, DebugSteps
  <2>2. GateConsistent' /\ LastStopIsCurrent' /\ ModeIsGranted' /\ RecordsFollow'
    BY <1>1, ConsistentNext, LastStopNext, ModeNext, RecordsNext DEF GateInv
  <2>3. QED
    BY <2>1, <2>2 DEF GateInv
<1>2. CASE UNCHANGED debugVars
  BY <1>2 DEF GateInv, debugVars, engineVars, ctlVars, askVars, DebugTypeOK, GateConsistent,
              LastStopIsCurrent, ModeIsGranted, RecordsFollow, CallersPassed, Mirrors, AtGate,
              Depth, Top
<1>3. QED
  BY <1>1, <1>2

LEMMA GateInvHolds == DebugSpec => []GateInv
<1>1. DebugInit => GateInv
  BY GateInvInit
<1>2. GateInv /\ [DebugNext]_debugVars => GateInv'
  BY GateInvNext
<1>3. QED
  BY <1>1, <1>2, PTL DEF DebugSpec

\* The gate's state is well typed (debug/controller.rs, DebugControllerState).
THEOREM DebugTypes == DebugSpec => []DebugTypeOK
<1>1. GateInv => DebugTypeOK
  BY DEF GateInv
<1>2. QED
  BY <1>1, GateInvHolds, PTL

\* At a stop, the stack and the saved contexts are exactly the activations of
\* the engine, however deep it is and however it came there.
THEOREM StackShown == DebugSpec => []StackIsCallChain
<1>1. GateInv => StackIsCallChain
  BY DEF GateInv, RecordsFollow, AtGate, StackIsCallChain
<1>2. QED
  BY <1>1, GateInvHolds, PTL

\* should_stop_for_step_mode, in the mode that was armed at the stop, decides
\* what the client was granted at that stop.
LEMMA ShouldStopIsDue ==
  ASSUME GateInv PROVE ShouldStop(runMode, nextSeq + 1, Depth) <=> Due(Depth)
<1>1. /\ nextSeq \in Nat /\ Depth \in Nat
      /\ asked.kind \in {"Continue", "StepIn", "StepOver", "StepOut"}
      /\ asked.seq \in Nat /\ asked.depth \in Nat
  BY ChainFacts, DebugBoundsAssumption DEF GateInv, DebugTypeOK, Mode
<1>2. CASE asked.kind = "Continue"
  BY <1>2 DEF GateInv, ModeIsGranted, ShouldStop, Due
<1>3. CASE asked.kind # "Continue"
  <2>1. runMode.kind = asked.kind /\ asked.seq <= nextSeq /\ runMode = ArmedMode(asked.kind, asked)
    BY <1>3 DEF GateInv, ModeIsGranted
  <2>2. runMode.seq = asked.seq /\ nextSeq + 1 > runMode.seq
    BY <1>1, <2>1 DEF ArmedMode
  <2>3. CASE asked.kind = "StepIn"
    BY <2>1, <2>2, <2>3 DEF ShouldStop, Due
  <2>4. CASE asked.kind = "StepOver"
    BY <2>1, <2>2, <2>4 DEF ShouldStop, Due, ArmedMode
  <2>5. CASE asked.kind = "StepOut"
    <3>1. runMode.depth = IF asked.depth = 0 THEN 0 ELSE asked.depth - 1
      BY <2>1, <2>5 DEF ArmedMode
    <3>2. Depth <= runMode.depth <=> Depth < asked.depth \/ (asked.depth = 0 /\ Depth = 0)
      BY <1>1, <3>1
    <3>3. QED
      BY <2>1, <2>2, <2>5, <3>2 DEF ShouldStop, Due
  <2>6. QED
    BY <1>1, <1>3, <2>3, <2>4, <2>5
<1>4. QED
  BY <1>2, <1>3

\* What one step of the gate promises the client.
LEMMA OwnGrantStep ==
  ASSUME GateInv, DebugNext, engine = "paused", engine' = "running" PROVE answered = nextSeq
<1>1. LeaveGate
  <2>1. ~Moves /\ ~Leaves /\ ~StopAtGate
    BY MovesKeep, LeavesKeep DEF StopAtGate
  <2>2. ~Aside /\ ~Resumes
    BY AsideKeeps, ResumesArm DEF engineVars
  <2>3. QED
    BY <2>1, <2>2, DebugSteps DEF EnterGate
<1>2. permit
  BY <1>1 DEF LeaveGate
<1>3. QED
  BY <1>2 DEF GateInv, GateConsistent

LEMMA PauseKeptStep ==
  ASSUME GateInv, DebugNext, pauseRequested, ~pauseRequested'
  PROVE  nextSeq' > nextSeq \/ permit'
<1>1. pauseRequested = TRUE /\ pauseRequested' # TRUE
  BY DEF GateInv, DebugTypeOK
<1>2. CASE StopAtGate
  <2>1. nextSeq \in Nat
    BY DebugBoundsAssumption DEF GateInv, DebugTypeOK
  <2>2. QED
    BY <1>2, <2>1 DEF StopAtGate
<1>3. CASE Resumes
  BY <1>3, ResumesArm
<1>4. pauseRequested' \in {pauseRequested, TRUE} \/ StopAtGate \/ Resumes
  <2>1. CASE Moves \/ Leaves
    BY <2>1, MovesKeep, LeavesKeep DEF ctlVars
  <2>2. CASE Aside
    BY <2>2 DEF Aside, ReportWorkflowOutput, Cancel, RequestPause, TakeStopEvents,
                TakeDiagnostics, SetBreakpoints, ctlVars
  <2>3. CASE LeaveGate
    BY <2>3 DEF LeaveGate
  <2>4. ASSUME NEW p \in Places, EnterGate(p) PROVE pauseRequested' = pauseRequested
    BY <2>4 DEF EnterGate
  <2>5. QED
    BY <2>1, <2>2, <2>3, <2>4, DebugSteps
<1>5. QED
  BY <1>1, <1>2, <1>3, <1>4

LEMMA StepsLandStep ==
  ASSUME GateInv, DebugNext, engine = "deciding"
  PROVE  /\ engine' = "running" => ~Due(Depth) /\ ~pauseRequested
         /\ engine' = "paused" /\ Last(stops').reason = "Step" => Due(Depth)
<1>1. ~Moves /\ ~Resumes /\ ~LeaveGate /\ \A p \in Places : ~EnterGate(p)
  BY MovesKeep, ResumesArm DEF Unlocked, LeaveGate, EnterGate
<1>2. CASE Aside
  BY <1>2, AsideKeeps
<1>3. CASE StopAtGate
  <2>1. PICK v \in Verdicts \ {"error"} :
          stops' = Append(stops, [seq |-> nextSeq + 1, depth |-> Depth, place |-> Top,
                                  reason |-> Reason(v)])
    BY <1>3 DEF StopAtGate
  <2>2. Last(stops').reason = Reason(v)
    BY <2>1, AppendProperties DEF GateInv, DebugTypeOK, Last
  <2>3. Reason(v) = "Step" => ShouldStop(runMode, nextSeq + 1, Depth)
    BY DEF Reason
  <2>4. QED
    BY <1>3, <2>2, <2>3, ShouldStopIsDue DEF StopAtGate
<1>4. CASE PassGate
  <2>1. CASE cancelled
    BY <1>4, <2>1 DEF PassGate
  <2>2. CASE ~cancelled
    <3>1. PICK v \in Verdicts \ {"error"} : Reason(v) = "none"
      BY <1>4, <2>2 DEF PassGate
    <3>2. ~pauseRequested /\ ~ShouldStop(runMode, nextSeq + 1, Depth)
      BY <3>1 DEF Reason
    <3>3. QED
      BY <1>4, <3>2, ShouldStopIsDue DEF PassGate
  <2>3. QED
    BY <2>1, <2>2
<1>5. CASE FailGate \/ GatePanics \/ EngineEnds
  BY <1>5 DEF FailGate, GatePanics, EngineEnds
<1>6. QED
  BY <1>1, <1>2, <1>3, <1>4, <1>5, DebugSteps DEF Leaves

\* A stop is left by a resume of that stop, a step the client was granted
\* lands where it is due and nowhere else, and a pause that was requested is
\* never lost to the wake-up.
THEOREM GrantsHonoured == DebugSpec => GateHonoursGrants
<1>1. ASSUME GateInv, [DebugNext]_debugVars
      PROVE  /\ [engine = "paused" /\ engine' = "running" => answered = nextSeq]_debugVars
             /\ [/\ engine = "deciding" /\ engine' = "running" => ~Due(Depth) /\ ~pauseRequested
                 /\ engine = "deciding" /\ engine' = "paused" /\ Last(stops').reason = "Step"
                      => Due(Depth)]_debugVars
             /\ [pauseRequested /\ ~pauseRequested'
                   => nextSeq' > nextSeq \/ permit']_debugVars
  BY <1>1, OwnGrantStep, PauseKeptStep, StepsLandStep
<1>2. QED
  BY <1>1, GateInvHolds, PTL
     DEF DebugSpec, GateHonoursGrants, ResumedByOwnGrant, StepsLand, PauseSurvivesWake

-----------------------------------------------------------------------------
(***************************************************************************)
(* The abstract protocol, for a run entered through execute: a step that   *)
(* execute_step selects has no checkpoint, so that such a run may stop     *)
(* before each of its activations has a frame to inspect.                  *)
(***************************************************************************)
shownState == IF engine = "ended" THEN "over" ELSE IF waiting /\ ~permit THEN "stopped" ELSE "running"
shownView == IF engine = "paused" /\ Inspectable(Depth) THEN Depth + 1 ELSE 0
shown == <<shownState, nextSeq, shownView>>

ExecuteInv == GateInv /\ entry = "execute"

LEMMA Booleans ==
  ASSUME GateInv
  PROVE  /\ waiting = (engine = "paused") /\ permit \in BOOLEAN /\ cancelled \in BOOLEAN
         /\ (permit = TRUE => engine = "paused") /\ (engine # "ended" => poisoned = FALSE)
         /\ engine \in {"running", "deciding", "paused", "ended"}
BY DEF GateInv, DebugTypeOK, GateConsistent

\* In the terms of the gate alone: a run is stopped while it is held without a
\* permit, and then all its activations can be inspected.
ShownAs ==
  /\ engine \in {"running", "deciding", "paused", "ended"} /\ permit \in BOOLEAN
  /\ (permit = TRUE => engine = "paused")
  /\ (engine # "ended" => poisoned = FALSE)
  /\ engine = "ended" => shownState = "over" /\ shownView = 0
  /\ engine \in {"running", "deciding"} => shownState = "running" /\ shownView = 0
  /\ engine = "paused" /\ permit = TRUE => shownState = "running" /\ shownView = 0
  /\ engine = "paused" /\ permit = FALSE =>
       shownState = "stopped" /\ shownView = Depth + 1 /\ shownView \in Nat \ {0}

LEMMA ShownIs == ExecuteInv => ShownAs
<1> SUFFICES ASSUME ExecuteInv PROVE ShownAs
  OBVIOUS
<1>1. GateInv
  BY DEF ExecuteInv
<1>2. ASSUME engine = "paused", permit = FALSE
      PROVE  shownState = "stopped" /\ shownView = Depth + 1 /\ shownView \in Nat \ {0}
  <2>1. frames = chain /\ Len(chain) = Depth + 1 /\ Depth \in Nat
    BY <1>2, ChainFacts DEF ExecuteInv, GateInv, RecordsFollow, AtGate
  <2>2. waiting = TRUE /\ poisoned = FALSE
    BY <1>1, <1>2, Booleans
  <2>3. Inspectable(Depth)
    BY <1>2, <2>1, <2>2 DEF Inspectable
  <2>4. QED
    BY <1>2, <2>1, <2>2, <2>3 DEF shownState, shownView
<1>3. QED
  BY <1>1, <1>2, Booleans DEF ShownAs, shownState, shownView, Inspectable

LEMMA PauseStep ==
  ASSUME ShownAs, ShownAs', DebugNext, nextSeq \in Nat
  PROVE  Protocol!Next \/ UNCHANGED shown
<1>1. CASE Moves
  <2>1. engine = "running" /\ engine' = "running" /\ nextSeq' = nextSeq
    BY <1>1, MovesKeep DEF ctlVars
  <2>2. QED
    BY <2>1 DEF ShownAs, shown
<1>2. CASE Leaves
  <2>1. engine \in {"running", "deciding"} /\ engine' \in {"running", "ended"} /\ nextSeq' = nextSeq
    BY <1>2, LeavesKeep
  <2>2. QED
    BY <2>1 DEF ShownAs, shown, Protocol!Next, Protocol!End, shownState, shownView
<1>3. CASE Aside
  <2>1. UNCHANGED <<engine, permit, nextSeq, waiting, frames, poisoned, chain>>
    BY <1>3, AsideKeeps
  <2>2. QED
    BY <2>1 DEF shown, shownState, shownView, Inspectable, Depth
<1>4. CASE Resumes
  <2>1. waiting /\ permit' = TRUE /\ nextSeq' = nextSeq /\ engine' = engine
    BY <1>4, ResumesArm DEF engineVars
  <2>2. engine = "paused"
    BY <1>4, <2>1 DEF ShownAs
  <2>3. QED
    BY <2>1, <2>2 DEF ShownAs, shown, Protocol!Next, Protocol!Resume, shownState, shownView
<1>5. ASSUME NEW p \in Places, EnterGate(p) PROVE UNCHANGED shown
  BY <1>5 DEF EnterGate, ShownAs, shown
<1>6. CASE StopAtGate
  <2>1. engine = "deciding" /\ engine' = "paused" /\ nextSeq' = nextSeq + 1 /\ permit' = permit
    BY <1>6 DEF StopAtGate
  <2>2. QED
    BY <2>1 DEF ShownAs, Protocol!Next, Protocol!Stop, shownState, shownView
<1>7. CASE LeaveGate
  <2>1. /\ engine = "paused" /\ (permit \/ cancelled) /\ nextSeq' = nextSeq
        /\ engine' = IF cancelled THEN "ended" ELSE "running"
    BY <1>7 DEF LeaveGate
  <2>2. QED
    BY <2>1 DEF ShownAs, shown, Protocol!Next, Protocol!End, shownState, shownView
<1>8. QED
  BY <1>1, <1>2, <1>3, <1>4, <1>5, <1>6, <1>7, DebugSteps

\* The gate implements the abstract protocol of a run that can be paused: a
\* resume that the controller accepts ends the stop at once, nothing but a
\* resume or the end of the run does, and a stopped run can be inspected.
THEOREM PausesImplemented == DebugSpec /\ entry = "execute" => ImplementsPauses
<1>1. DebugInit /\ entry = "execute" => ExecuteInv
  BY GateInvInit DEF ExecuteInv
<1>2. ExecuteInv /\ [DebugNext]_debugVars => ExecuteInv'
  <2>1. ASSUME ExecuteInv, DebugNext PROVE ExecuteInv'
    BY <2>1, GateInvNext, EntryKept DEF ExecuteInv
  <2>2. ASSUME ExecuteInv, UNCHANGED debugVars PROVE ExecuteInv'
    BY <2>2, GateInvNext DEF ExecuteInv, debugVars, engineVars
  <2>3. QED
    BY <2>1, <2>2
<1>3. DebugInit => Protocol!Init
  <2>1. ASSUME DebugInit PROVE engine = "running" /\ waiting = FALSE /\ nextSeq = 0
    BY <2>1 DEF DebugInit
  <2>2. QED
    BY <2>1 DEF Protocol!Init
<1>4. ASSUME ExecuteInv, ShownAs, ShownAs', [DebugNext]_debugVars
      PROVE  [Protocol!Next]_shown
  <2>1. CASE DebugNext
    <3>1. nextSeq \in Nat
      BY <1>4, DebugBoundsAssumption DEF ExecuteInv, GateInv, DebugTypeOK
    <3>2. QED
      BY <1>4, <2>1, <3>1, PauseStep
  <2>2. CASE UNCHANGED debugVars
    BY <2>2 DEF shown, shownState, shownView, Inspectable, Depth, debugVars, engineVars, ctlVars
  <2>3. QED
    BY <1>4, <2>1, <2>2
<1>5. QED
  BY <1>1, <1>2, <1>3, <1>4, ShownIs, PTL
     DEF DebugSpec, ImplementsPauses, Protocol!Spec, shown, shownState, shownView

-----------------------------------------------------------------------------
(***************************************************************************)
(* A session.  The inductive invariant counts the stops on their way: out  *)
(* holds those up to lastStop, the channel the next ones up to delivered,  *)
(* and the controller the rest.  In Drained is the monitor's argument: what*)
(* it drains after it saw the run finished is all there will ever be.      *)
(***************************************************************************)
Live == {"drain", "command", "inline"}

StopsOf(s) == {i \in DOMAIN s : s[i].kind = "stopped"}

\* The stops in s are those after low up to high, each once and in order.
Numbered(s, low, high) ==
  /\ \A i \in StopsOf(s) : s[i].stop \in low + 1 .. high
  /\ \A n \in low + 1 .. high : \E i \in StopsOf(s) : s[i].stop = n
  /\ \A i, j \in StopsOf(s) : i < j => s[i].stop < s[j].stop

Recorded == Len(stops) = nextSeq /\ \A i \in 1 .. nextSeq : stops[i].seq = i

Forwarded ==
  /\ Recorded
  /\ delivered <= nextSeq /\ lastStop <= delivered
  /\ Numbered(out, 0, lastStop) /\ Numbered(events, lastStop, delivered)
  /\ ReferencesAreRecent

\* Nothing is reported of a run that has not begun, and the run has the
\* breakpoints that were last resolved.
Begun ==
  /\ started => launched
  /\ launched => resolved = pending
  /\ BreakpointsInstalled
  /\ monitor = "none" <=> ~started
  /\ ~started => events = <<>> /\ Shown("exited") = {}

\* The run is over before it is reported, and nothing comes after the report.
Ending ==
  /\ done => engine = "ended"
  /\ monitor = "exit" => done
  /\ \A i \in DOMAIN events : events[i].kind = "ended" => i = Len(events) /\ monitor = "exit"
  /\ Shown("exited") # {} => monitor = "exit" /\ events = <<>> /\ terminationSent
  /\ \A i \in Shown("exited") : \A j \in DOMAIN out : j > i => out[j].kind = "terminated"
  /\ ~terminationSent => Shown("terminated") = {}
  /\ \A i, j \in Shown("terminated") : i = j
  /\ phase = "exited" /\ started => monitor = "exit"

Drained ==
  /\ phase \in Live /\ ~poisoned =>
       /\ cancelled => done
       /\ sampled /\ monitor \in {"diagnostics", "stops", "decide", "exit"} => done
       /\ sampled /\ monitor \in {"stops", "decide", "exit"} => diagnostics = 0
       /\ sampled /\ monitor \in {"decide", "exit"} => delivered = nextSeq
  /\ monitor = "exit" /\ ~poisoned => sampled
  /\ Shown("exited") # {} /\ ~poisoned => done /\ diagnostics = 0 /\ lastStop = nextSeq

SessionInv == SessionTypeOK /\ GateInv /\ Begun /\ Forwarded /\ Ending /\ Drained

-----------------------------------------------------------------------------
(***************************************************************************)
(* Sequences of numbered stops.                                            *)
(***************************************************************************)
LEMMA NumberedNone ==
  ASSUME NEW low \in Nat
  PROVE  Numbered(<<>>, low, low)
BY DEF Numbered, StopsOf

LEMMA NumberedEmpty ==
  ASSUME NEW low \in Nat, NEW high \in Nat, low <= high, Numbered(<<>>, low, high)
  PROVE  low = high
<1>1. StopsOf(<<>>) = {}
  BY DEF StopsOf
<1>2. ~ \E n \in low + 1 .. high : TRUE
  BY <1>1 DEF Numbered
<1>3. QED
  BY <1>2

\* What is appended numbers on, or is no stop.
LEMMA NumberedConcat ==
  ASSUME NEW S, NEW s \in Seq(S), NEW t \in Seq(S),
         NEW low \in Nat, NEW mid \in Nat, NEW high \in Nat, low <= mid, mid <= high,
         Numbered(s, low, mid), Numbered(t, mid, high)
  PROVE  Numbered(s \o t, low, high)
<1> DEFINE st == s \o t
<1>1. Len(s) \in Nat /\ DOMAIN s = 1 .. Len(s) /\ Len(t) \in Nat /\ DOMAIN t = 1 .. Len(t)
  BY LenProperties
<1>2. /\ st \in Seq(S) /\ Len(st) = Len(s) + Len(t)
      /\ \A i \in 1 .. Len(s) + Len(t) :
           st[i] = IF i <= Len(s) THEN s[i] ELSE t[i - Len(s)]
  BY ConcatProperties
<1> HIDE DEF st
<1>3. DOMAIN st = 1 .. Len(s) + Len(t)
  BY <1>2, LenProperties
<1>4. ASSUME NEW i \in StopsOf(st)
      PROVE  \/ i \in StopsOf(s) /\ st[i] = s[i] /\ i <= Len(s)
             \/ i - Len(s) \in StopsOf(t) /\ st[i] = t[i - Len(s)] /\ i > Len(s)
  <2>1. i \in 1 .. Len(s) + Len(t) /\ st[i].kind = "stopped"
    BY <1>3 DEF StopsOf
  <2>2. CASE i <= Len(s)
    BY <1>1, <1>2, <2>1, <2>2 DEF StopsOf
  <2>3. CASE i > Len(s)
    <3>1. i - Len(s) \in 1 .. Len(t) /\ st[i] = t[i - Len(s)]
      BY <1>1, <1>2, <2>1, <2>3
    <3>2. QED
      BY <1>1, <2>1, <2>3, <3>1 DEF StopsOf
  <2>4. QED
    BY <1>1, <2>1, <2>2, <2>3
<1>5. \A i \in StopsOf(s) : i \in StopsOf(st) /\ st[i] = s[i]
  BY <1>1, <1>2, <1>3 DEF StopsOf
<1>6. ASSUME NEW i \in StopsOf(t) PROVE i + Len(s) \in StopsOf(st) /\ st[i + Len(s)] = t[i]
  <2>1. i \in 1 .. Len(t) /\ t[i].kind = "stopped"
    BY <1>1 DEF StopsOf
  <2>2. i + Len(s) \in 1 .. Len(s) + Len(t) /\ ~(i + Len(s) <= Len(s)) /\ i + Len(s) - Len(s) = i
    BY <1>1, <2>1
  <2>3. st[i + Len(s)] = t[i]
    BY <1>1, <1>2, <2>1, <2>2
  <2>4. QED
    BY <1>3, <2>1, <2>2, <2>3 DEF StopsOf
<1>7. \A i \in StopsOf(st) : st[i].stop \in low + 1 .. high
  <2>1. \A i \in StopsOf(s) : s[i].stop \in low + 1 .. mid
    BY DEF Numbered
  <2>2. \A i \in StopsOf(t) : t[i].stop \in mid + 1 .. high
    BY DEF Numbered
  <2>3. \A n : n \in low + 1 .. mid \/ n \in mid + 1 .. high => n \in low + 1 .. high
    OBVIOUS
  <2>4. QED
    BY <1>4, <2>1, <2>2, <2>3
<1>8. ASSUME NEW n \in low + 1 .. high PROVE \E i \in StopsOf(st) : st[i].stop = n
  <2>1. CASE n \in low + 1 .. mid
    <3>1. PICK i \in StopsOf(s) : s[i].stop = n
      BY <2>1 DEF Numbered
    <3>2. QED
      BY <1>5, <3>1
  <2>2. CASE n \in mid + 1 .. high
    <3>1. PICK i \in StopsOf(t) : t[i].stop = n
      BY <2>2 DEF Numbered
    <3>2. QED
      BY <1>6, <3>1
  <2>3. QED
    BY <2>1, <2>2
<1>9. ASSUME NEW i \in StopsOf(st), NEW j \in StopsOf(st), i < j
      PROVE  st[i].stop < st[j].stop
  <2>1. CASE i \in StopsOf(s) /\ st[i] = s[i] /\ j \in StopsOf(s) /\ st[j] = s[j]
    BY <1>9, <2>1 DEF Numbered
  <2>2. CASE i \in StopsOf(s) /\ st[i] = s[i]
             /\ j - Len(s) \in StopsOf(t) /\ st[j] = t[j - Len(s)]
    <3>1. st[i].stop \in low + 1 .. mid /\ st[j].stop \in mid + 1 .. high
      BY <2>2 DEF Numbered
    <3>2. QED
      BY <3>1
  <2>3. CASE /\ i - Len(s) \in StopsOf(t) /\ st[i] = t[i - Len(s)]
             /\ j - Len(s) \in StopsOf(t) /\ st[j] = t[j - Len(s)]
    <3>1. i \in Nat /\ j \in Nat /\ i - Len(s) < j - Len(s)
      BY <1>1, <1>3, <1>9 DEF StopsOf
    <3>2. QED
      BY <2>3, <3>1 DEF Numbered
  <2>4. i \in Nat /\ j \in Nat
    BY <1>1, <1>3 DEF StopsOf
  <2>5. QED
    BY <1>1, <1>4, <1>9, <2>1, <2>2, <2>3, <2>4
<1>10. QED
  BY <1>7, <1>8, <1>9 DEF Numbered, st

LEMMA NumberedOthers ==
  ASSUME NEW s, NEW low \in Nat, \A i \in DOMAIN s : s[i].kind # "stopped"
  PROVE  Numbered(s, low, low)
BY DEF Numbered, StopsOf

LEMMA NumberedAppend ==
  ASSUME NEW S, NEW s \in Seq(S), NEW m \in S, NEW low \in Nat, NEW mid \in Nat,
         NEW high \in Nat, low <= mid, Numbered(s, low, mid),
         IF m.kind = "stopped" THEN m.stop = mid + 1 /\ high = mid + 1 ELSE high = mid
  PROVE  Numbered(Append(s, m), low, high)
<1> DEFINE one == <<m>>
<1>1. one \in Seq(S) /\ DOMAIN one = {1} /\ one[1] = m
  OBVIOUS
<1>3. Append(s, m) = s \o one /\ mid <= high
  OBVIOUS
<1> HIDE DEF one
<1>2. Numbered(one, mid, high)
  BY <1>1 DEF Numbered, StopsOf
<1>4. Numbered(s \o one, low, high)
  BY <1>1, <1>2, <1>3, NumberedConcat
<1>5. QED
  BY <1>3, <1>4

\* The first of the numbered stops, where it is at the head, is the next one.
LEMMA NumberedTail ==
  ASSUME NEW S, NEW s \in Seq(S), s # <<>>, NEW low \in Nat, NEW high \in Nat,
         Numbered(s, low, high)
  PROVE  IF Head(s).kind = "stopped"
         THEN Head(s).stop = low + 1 /\ low + 1 <= high /\ Numbered(Tail(s), low + 1, high)
         ELSE Numbered(Tail(s), low, high)
<1> DEFINE t == Tail(s)
<1>1. Len(s) \in Nat \ {0} /\ DOMAIN s = 1 .. Len(s) /\ Head(s) = s[1] /\ 1 \in DOMAIN s
  BY LenProperties, EmptySeq
<1>2. t \in Seq(S) /\ Len(t) = Len(s) - 1 /\ \A i \in 1 .. Len(t) : t[i] = s[i + 1]
  BY HeadTailProperties
<1> HIDE DEF t
<1>3. Len(t) \in Nat /\ DOMAIN t = 1 .. Len(t)
  BY <1>2, LenProperties
<1>4. ASSUME NEW i \in StopsOf(t) PROVE i + 1 \in StopsOf(s) /\ t[i] = s[i + 1] /\ i + 1 > 1
  <2>1. i \in 1 .. Len(t) /\ i + 1 \in 1 .. Len(s) /\ t[i].kind = "stopped"
    BY <1>1, <1>2, <1>3, <1>4 DEF StopsOf
  <2>2. QED
    BY <1>1, <1>2, <2>1 DEF StopsOf
<1>5. ASSUME NEW i \in StopsOf(s), i # 1 PROVE i - 1 \in StopsOf(t) /\ t[i - 1] = s[i]
  <2>1. i \in 1 .. Len(s) /\ i - 1 \in 1 .. Len(t) /\ i - 1 + 1 = i /\ s[i].kind = "stopped"
    BY <1>1, <1>2, <1>3, <1>5 DEF StopsOf
  <2>2. QED
    BY <1>2, <1>3, <2>1 DEF StopsOf
<1>6. \A i, j \in StopsOf(t) : i < j => t[i].stop < t[j].stop
  <2>1. \A i, j \in StopsOf(s) : i < j => s[i].stop < s[j].stop
    BY DEF Numbered
  <2>2. \A i, j \in StopsOf(t) : i \in Nat /\ j \in Nat
    BY <1>3 DEF StopsOf
  <2>3. \A i, j \in StopsOf(t) : i < j => i + 1 < j + 1
    BY <2>2
  <2>4. QED
    BY <1>4, <2>1, <2>3
<1>7. CASE Head(s).kind # "stopped"
  <2>1. 1 \notin StopsOf(s)
    BY <1>1, <1>7 DEF StopsOf
  <2>2. \A i \in StopsOf(t) : t[i].stop \in low + 1 .. high
    BY <1>4 DEF Numbered
  <2>3. ASSUME NEW n \in low + 1 .. high PROVE \E i \in StopsOf(t) : t[i].stop = n
    <3>1. PICK i \in StopsOf(s) : s[i].stop = n
      BY DEF Numbered
    <3>2. QED
      BY <1>5, <2>1, <3>1
  <2>4. QED
    BY <1>6, <1>7, <2>2, <2>3 DEF Numbered, t
<1>8. CASE Head(s).kind = "stopped"
  <2>1. 1 \in StopsOf(s)
    BY <1>1, <1>8 DEF StopsOf
  <2>2. s[1].stop \in low + 1 .. high
    BY <2>1 DEF Numbered
  <2>3. \A i \in StopsOf(s) : i # 1 => s[1].stop < s[i].stop
    <3>1. \A i \in StopsOf(s) : i \in 1 .. Len(s)
      BY <1>1 DEF StopsOf
    <3>2. \A i \in StopsOf(s) : i # 1 => 1 < i
      BY <1>1, <3>1
    <3>3. QED
      BY <2>1, <3>2 DEF Numbered
  <2>4. s[1].stop = low + 1 /\ low + 1 <= high
    <3>1. low + 1 \in low + 1 .. high
      BY <2>2
    <3>2. PICK i \in StopsOf(s) : s[i].stop = low + 1
      BY <3>1 DEF Numbered
    <3>3. CASE i = 1
      BY <2>2, <3>2, <3>3
    <3>4. CASE i # 1
      BY <2>2, <2>3, <3>2, <3>4
    <3>5. QED
      BY <3>3, <3>4
  <2>5. \A i \in StopsOf(t) : t[i].stop \in low + 1 + 1 .. high
    <3>1. \A i \in StopsOf(t) : t[i].stop \in low + 1 .. high /\ s[1].stop < t[i].stop
      BY <1>4, <2>3 DEF Numbered
    <3>2. QED
      BY <2>4, <3>1
  <2>6. ASSUME NEW n \in low + 1 + 1 .. high PROVE \E i \in StopsOf(t) : t[i].stop = n
    <3>1. n \in low + 1 .. high /\ n # low + 1
      OBVIOUS
    <3>2. PICK i \in StopsOf(s) : s[i].stop = n
      BY <3>1 DEF Numbered
    <3>3. i # 1
      BY <2>4, <3>1, <3>2
    <3>4. QED
      BY <1>5, <3>2, <3>3
  <2>7. QED
    BY <1>1, <1>6, <1>8, <2>4, <2>5, <2>6 DEF Numbered, t
<1>9. QED
  BY <1>7, <1>8

\* Numbered stops are as many as their numbers.
LEMMA NumberedCount ==
  ASSUME NEW s, NEW high \in Nat, Numbered(s, 0, high), IsFiniteSet(StopsOf(s)),
         StopsOf(s) \subseteq Nat
  PROVE  Cardinality(StopsOf(s)) = high
<1> DEFINE number == [i \in StopsOf(s) |-> s[i].stop]
<1>1. \A i \in StopsOf(s) : s[i].stop \in 1 .. high
  BY DEF Numbered
<1>2. \A i, j \in StopsOf(s) : s[i].stop = s[j].stop => i = j
  <2>1. \A i, j \in StopsOf(s) : i < j => s[i].stop < s[j].stop
    BY DEF Numbered
  <2>2. ASSUME NEW i \in StopsOf(s), NEW j \in StopsOf(s), s[i].stop = s[j].stop, i # j
        PROVE  FALSE
    <3>1. i \in Nat /\ j \in Nat /\ s[i].stop \in Nat /\ s[j].stop \in Nat
      BY <1>1
    <3>2. CASE i < j
      BY <2>1, <2>2, <3>1, <3>2
    <3>3. CASE j < i
      BY <2>1, <2>2, <3>1, <3>3
    <3>4. QED
      BY <2>2, <3>1, <3>2, <3>3
  <2>3. QED
    BY <2>2
<1>3. \A n \in 1 .. high : \E i \in StopsOf(s) : number[i] = n
  BY DEF Numbered
<1>4. number \in [StopsOf(s) -> 1 .. high] /\ \A i \in StopsOf(s) : number[i] = s[i].stop
  BY <1>1
<1> HIDE DEF number
<1>5. number \in Bijection(StopsOf(s), 1 .. high)
  BY <1>2, <1>3, <1>4 DEF Bijection, Injection, Surjection, IsInjective
<1>6. ExistsBijection(StopsOf(s), 1 .. high)
  BY <1>5 DEF ExistsBijection
<1>7. Cardinality(1 .. high) = Cardinality(StopsOf(s))
  BY <1>6, FS_Bijection
<1>8. Cardinality(1 .. high) = high
  BY FS_Interval
<1>9. QED
  BY <1>7, <1>8

-----------------------------------------------------------------------------
(***************************************************************************)
(* The steps of a session by what they may change.                         *)
(***************************************************************************)
\* Nothing is forwarded or reported, and the engine stays where it is.
Quiet ==
  /\ UNCHANGED <<events, out, lastStop, terminationSent, started, monitorVars, done, engine,
                 stops, nextSeq, diagnostics, poisoned>>
  /\ refs' = refs \/ refs' = refs \union {nextSeq}
  /\ phase' \in Live => phase \in Live /\ cancelled' = cancelled
  /\ phase' = "exited" => monitor \in {"none", "exit"}
  /\ phase # "exited"

\* The event at the head of the channel is handled.
Handled ==
  /\ phase \in Live /\ phase' \in Live /\ HandleEvent
  /\ UNCHANGED <<launched, pending, resolved, started, commands, monitorVars, done, debugVars>>

Quietly ==
  \/ Answer \/ Launch \/ Resume \/ Pause \/ Scopes \/ Abandon
  \/ \E bps \in BreakpointLists : HandleSetBreakpoints(bps)
  \/ CleanupCancel \/ CleanupResume \/ CleanupJoin
  \/ /\ phase \in Live /\ phase' \in Live
     /\ UNCHANGED <<launched, pending, resolved, started, lastStop, refs, terminationSent, out,
                    commands, monitorVars, done, events, debugVars>>

LEMMA SessionSteps ==
  ASSUME SessionNext
  PROVE  \/ Engine \/ ThreadDone
         \/ MonitorSample \/ MonitorDiagnostics \/ MonitorStops \/ MonitorDecide
         \/ Quietly \/ Handled \/ ConfigurationDone \/ ConfigurationFails \/ Disconnect
<1>1. CASE Drain
  <2>1. CASE events # <<>>
    BY <1>1, <2>1 DEF Drain, Handled, Live
  <2>2. CASE events = <<>>
    BY <1>1, <2>2 DEF Drain, Quietly, Live
  <2>3. QED
    BY <2>1, <2>2
<1>2. CASE Inline
  BY <1>2 DEF Inline, Handled, Quietly, Live
<1>3. QED
  BY <1>1, <1>2 DEF SessionNext, Monitor, Coordinator, Requests, Quietly

\* What a request to the controller leaves alone.
Asking ==
  UNCHANGED <<engine, cancelled, stops, nextSeq, diagnostics, poisoned>>

LEMMA AskingKeeps ==
  ASSUME \/ UNCHANGED debugVars \/ RequestPause \/ Resumes
         \/ \E bps : SetBreakpoints(bps)
  PROVE  Asking
<1>1. CASE UNCHANGED debugVars
  BY <1>1 DEF Asking, debugVars, engineVars, ctlVars
<1>2. CASE RequestPause
  BY <1>2 DEF Asking, RequestPause, engineVars
<1>3. CASE Resumes
  BY <1>3, ResumesArm DEF Asking, engineVars
<1>4. CASE \E bps : SetBreakpoints(bps)
  BY <1>4 DEF Asking, SetBreakpoints, engineVars
<1>5. QED
  BY <1>1, <1>2, <1>3, <1>4

LEMMA QuietlyIsQuiet ==
  ASSUME Quietly PROVE Quiet
<1>1. CASE Answer \/ Launch \/ Scopes \/ Abandon
  <2>1. Asking
    BY <1>1, AskingKeeps DEF Answer, Launch, Scopes, Abandon
  <2>2. QED
    BY <1>1, <2>1 DEF Answer, Launch, Scopes, Abandon, Taken, Quiet, Live, Asking
<1>2. CASE Resume
  <2>1. Resumes
    BY <1>2 DEF Resume, Resumes
  <2>2. Asking
    BY <2>1, AskingKeeps
  <2>3. QED
    BY <1>2, <2>2 DEF Resume, Taken, Quiet, Live, Asking
<1>3. CASE Pause
  <2>1. Asking
    BY <1>3, AskingKeeps DEF Pause
  <2>2. QED
    BY <1>3, <2>1 DEF Pause, Taken, Quiet, Live, Asking
<1>4. ASSUME NEW bps \in BreakpointLists, HandleSetBreakpoints(bps) PROVE Quiet
  <2>1. Asking
    BY <1>4, AskingKeeps DEF HandleSetBreakpoints
  <2>2. QED
    BY <1>4, <2>1 DEF HandleSetBreakpoints, Taken, Quiet, Live, Asking
<1>5. CASE CleanupCancel
  BY <1>5 DEF CleanupCancel, Quiet, Live, RestOfCoord, ctlVars
<1>6. CASE CleanupResume
  <2>1. Asking
    BY <1>6, AskingKeeps DEF CleanupResume, Resumes
  <2>2. QED
    BY <1>6, <2>1 DEF CleanupResume, Quiet, Live, RestOfCoord, Asking
<1>7. CASE CleanupJoin
  BY <1>7 DEF CleanupJoin, Quiet, Live, RestOfCoord, debugVars, engineVars, ctlVars
<1>8. CASE /\ phase \in Live /\ phase' \in Live
           /\ UNCHANGED <<launched, pending, resolved, started, lastStop, refs, terminationSent,
                          out, commands, monitorVars, done, events, debugVars>>
  BY <1>8 DEF Quiet, Live, debugVars, engineVars, ctlVars
<1>9. QED
  BY <1>1, <1>2, <1>3, <1>4, <1>5, <1>6, <1>7, <1>8 DEF Quietly

LEMMA EngineKeeps ==
  ASSUME Engine, DebugTypeOK, GateConsistent
  PROVE  /\ started /\ engine # "ended" /\ UNCHANGED <<sessionVars, breakpoints, cancelled>>
         /\ poisoned \in BOOLEAN /\ poisoned' \in BOOLEAN /\ (poisoned => poisoned')
         /\ \/ UNCHANGED <<stops, nextSeq>>
            \/ \E stop \in Stop : /\ stop.seq = nextSeq + 1 /\ stops' = Append(stops, stop)
                                  /\ nextSeq' = nextSeq + 1
<1>1. started /\ EngineStep /\ UNCHANGED sessionVars
  BY DEF Engine
<1>2. poisoned \in BOOLEAN
  BY DEF DebugTypeOK
<1>3. CASE Moves
  BY <1>1, <1>2, <1>3, MovesKeep DEF ctlVars
<1>4. CASE Leaves
  BY <1>1, <1>2, <1>4, LeavesKeep
<1>5. CASE ReportWorkflowOutput
  BY <1>1, <1>2, <1>5 DEF ReportWorkflowOutput, engineVars
<1>6. ASSUME NEW p \in Places, EnterGate(p)
      PROVE  /\ engine # "ended"
             /\ UNCHANGED <<breakpoints, cancelled, poisoned, stops, nextSeq>>
  BY <1>6 DEF EnterGate
<1>7. CASE StopAtGate
  <2>1. PICK v \in Verdicts \ {"error"} :
          /\ Reason(v) # "none"
          /\ stops' = Append(stops, [seq |-> nextSeq + 1, depth |-> Depth, place |-> Top,
                                     reason |-> Reason(v)])
    BY <1>7 DEF StopAtGate
  <2>2. Reason(v) \in {"Breakpoint", "Pause", "Step"}
    BY <2>1 DEF Reason
  <2>3. engine = "deciding" /\ UNCHANGED <<cancelled, breakpoints, poisoned>>
        /\ nextSeq' = nextSeq + 1
    BY <1>7 DEF StopAtGate
  <2>4. nextSeq + 1 \in Nat /\ Depth \in Nat /\ Top \in Places
    BY <2>3, ChainFacts, DebugBoundsAssumption DEF GateConsistent, AtGate, DebugTypeOK
  <2> DEFINE stop == [seq |-> nextSeq + 1, depth |-> Depth, place |-> Top, reason |-> Reason(v)]
  <2>5. stop \in Stop /\ stop.seq = nextSeq + 1
    BY <2>2, <2>4 DEF Stop
  <2>6. QED
    BY <1>1, <1>2, <2>1, <2>3, <2>5
<1>8. CASE LeaveGate
  BY <1>1, <1>2, <1>8 DEF LeaveGate
<1>9. QED
  BY <1>1, <1>2, <1>3, <1>4, <1>5, <1>6, <1>7, <1>8 DEF EngineStep, Moves, Leaves

-----------------------------------------------------------------------------
(***************************************************************************)
(* A session keeps the gate's invariant.                                   *)
(***************************************************************************)
\* Every step but the start is one of the gate, or leaves it alone.
LEMMA SessionMoves ==
  ASSUME SessionInv, SessionNext
  PROVE  [DebugNext]_debugVars \/ ConfigurationDone
<1>1. cancelled \in BOOLEAN /\ diagnostics \in Nat /\ started \in BOOLEAN
      /\ poisoned \in BOOLEAN /\ waiting \in BOOLEAN
  BY DebugBoundsAssumption DEF SessionInv, SessionTypeOK, DebugTypeOK
<1> DEFINE Goal == [DebugNext]_debugVars
<1>2. ASSUME cancelled' \in {cancelled, TRUE},
             UNCHANGED <<entry, engine, chain, ctlVars, askVars>>
      PROVE  Goal
  <2>1. CASE cancelled' = cancelled
    BY <1>2, <2>1 DEF debugVars, engineVars
  <2>2. CASE cancelled' # cancelled
    <3>1. ~cancelled /\ cancelled' = TRUE
      BY <1>1, <1>2, <2>2
    <3>2. Cancel
      BY <1>2, <3>1 DEF Cancel
    <3>3. QED
      BY <3>2 DEF DebugNext
  <2>3. QED
    BY <2>1, <2>2
<1>3. ASSUME UNCHANGED debugVars \/ RequestPause \/ Resumes PROVE Goal
  BY <1>3 DEF DebugNext, ClientStep, Resumes
<1>4. CASE Engine
  BY <1>4 DEF Engine, DebugNext
<1>5. CASE ThreadDone
  BY <1>2, <1>5 DEF ThreadDone
<1>6. CASE MonitorSample \/ MonitorStops \/ MonitorDecide
  BY <1>3, <1>6 DEF MonitorSample, MonitorStops, MonitorDecide
<1>7. CASE MonitorDiagnostics
  <2>1. UNCHANGED <<entry, engine, chain, breakpoints, pauseRequested, runMode, waiting, permit,
                    stops, nextSeq, stack, frames, poisoned, askVars>>
    BY <1>7 DEF MonitorDiagnostics
  <2>2. CASE Unlocked /\ diagnostics' = 0 /\ UNCHANGED cancelled
    <3>1. CASE diagnostics = 0
      BY <2>1, <2>2, <3>1 DEF debugVars, engineVars, ctlVars
    <3>2. CASE diagnostics # 0
      <4>1. diagnostics > 0
        BY <1>1, <3>2
      <4>2. TakeDiagnostics
        BY <2>1, <2>2, <4>1 DEF TakeDiagnostics, engineVars
      <4>3. QED
        BY <4>2 DEF DebugNext, ClientStep
    <3>3. QED
      BY <3>1, <3>2
  <2>3. CASE diagnostics' = diagnostics /\ cancelled' \in {cancelled, TRUE}
    BY <1>2, <2>1, <2>3 DEF ctlVars
  <2>4. QED
    BY <1>7, <2>2, <2>3 DEF MonitorDiagnostics
<1>8. CASE Quietly
  <2>1. CASE Answer \/ Launch \/ Scopes \/ Abandon
    BY <1>3, <2>1 DEF Answer, Launch, Scopes, Abandon
  <2>2. CASE Resume
    BY <1>3, <2>2 DEF Resume, Resumes
  <2>3. CASE Pause
    BY <1>3, <2>3 DEF Pause
  <2>4. ASSUME NEW bps \in BreakpointLists, HandleSetBreakpoints(bps) PROVE Goal
    <3>1. CASE started /\ ~poisoned
      <4>1. resolved' = bps /\ SetBreakpoints(resolved')
        BY <2>4, <3>1 DEF HandleSetBreakpoints, SessionInv, Begun
      <4>2. SetBreakpoints(bps)
        BY <4>1
      <4>3. QED
        BY <4>2 DEF DebugNext, ClientStep
    <3>2. CASE ~(started /\ ~poisoned)
      BY <1>3, <2>4, <3>2 DEF HandleSetBreakpoints
    <3>3. QED
      BY <3>1, <3>2
  <2>5. CASE CleanupCancel
    BY <1>1, <1>2, <2>5 DEF CleanupCancel
  <2>6. CASE CleanupResume
    BY <1>3, <2>6 DEF CleanupResume, Resumes
  <2>7. CASE CleanupJoin
    BY <1>3, <2>7 DEF CleanupJoin
  <2>8. QED
    BY <1>3, <1>8, <2>1, <2>2, <2>3, <2>4, <2>5, <2>6, <2>7 DEF Quietly
<1>9. CASE Handled
  BY <1>3, <1>9 DEF Handled
<1>10. CASE ConfigurationFails \/ Disconnect
  BY <1>3, <1>10 DEF ConfigurationFails, Disconnect
<1>11. QED
  BY <1>4, <1>5, <1>6, <1>7, <1>8, <1>9, <1>10, SessionSteps

LEMMA StartKeepsGate ==
  ASSUME SessionInv, ConfigurationDone PROVE GateInv'
<1>1. /\ breakpoints' = resolved /\ pauseRequested' \in BOOLEAN
      /\ UNCHANGED <<engineVars, runMode, waiting, permit, stops, nextSeq, stack, frames,
                     diagnostics, poisoned, askVars>>
  BY DEF ConfigurationDone
<1>2. resolved \in Seq(Breakpoint)
  BY DEF SessionInv, SessionTypeOK
<1>3. GateInv
  BY DEF SessionInv
<1>4. DebugTypeOK'
  BY <1>1, <1>2, <1>3 DEF GateInv, DebugTypeOK, engineVars, askVars
<1>5. GateConsistent' /\ LastStopIsCurrent' /\ ModeIsGranted' /\ RecordsFollow'
  BY <1>1, <1>3 DEF GateInv, GateConsistent, LastStopIsCurrent, ModeIsGranted, RecordsFollow,
     CallersPassed, Mirrors, AtGate, Depth, Top, engineVars, askVars
<1>6. QED
  BY <1>4, <1>5 DEF GateInv

LEMMA GateKept == ASSUME SessionInv, SessionNext PROVE GateInv'
BY SessionMoves, StartKeepsGate, GateInvNext DEF SessionInv

-----------------------------------------------------------------------------
(***************************************************************************)
(* A session keeps its types.                                              *)
(***************************************************************************)
Phases == {"drain", "command", "inline", "cleanup", "resuming", "joining", "exited"}
Event == [kind : Kinds, stop : 0 .. MaxStops]

LEMMA SessionFacts ==
  ASSUME SessionInv
  PROVE  /\ MaxStops \in Nat /\ nextSeq \in Nat /\ nextSeq <= MaxStops
         /\ delivered \in Nat /\ lastStop \in Nat /\ diagnostics \in Nat
         /\ delivered <= nextSeq /\ lastStop <= delivered
         /\ started \in BOOLEAN /\ done \in BOOLEAN /\ sampled \in BOOLEAN
         /\ terminationSent \in BOOLEAN /\ poisoned \in BOOLEAN /\ cancelled \in BOOLEAN
         /\ launched \in BOOLEAN
         /\ events \in Seq(Event) /\ out \in Seq(Message) /\ stops \in Seq(Stop)
         /\ Len(out) \in Nat /\ DOMAIN out = 1 .. Len(out)
         /\ Len(events) \in Nat /\ DOMAIN events = 1 .. Len(events)
<1>1. MaxStops \in Nat /\ MaxDiagnostics \in Nat
  BY DebugBoundsAssumption
<1>2. SessionTypeOK /\ DebugTypeOK /\ Forwarded
  BY DEF SessionInv, SessionTypeOK
<1>3. events \in Seq(Event) /\ out \in Seq(Message) /\ stops \in Seq(Stop)
  BY <1>2 DEF SessionTypeOK, DebugTypeOK, Event, Stop
<1>4. /\ Len(out) \in Nat /\ DOMAIN out = 1 .. Len(out)
      /\ Len(events) \in Nat /\ DOMAIN events = 1 .. Len(events)
  BY <1>3, LenProperties
<1>5. /\ nextSeq \in 0 .. MaxStops /\ delivered \in 0 .. MaxStops /\ lastStop \in 0 .. MaxStops
      /\ diagnostics \in 0 .. MaxDiagnostics
  BY <1>2 DEF SessionTypeOK, DebugTypeOK
<1>6. {launched, started, done, sampled, terminationSent} \subseteq BOOLEAN
      /\ {cancelled, pauseRequested, waiting, permit, poisoned} \subseteq BOOLEAN
  BY <1>2 DEF SessionTypeOK, DebugTypeOK
<1>7. QED
  BY <1>1, <1>2, <1>3, <1>4, <1>5, <1>6 DEF Forwarded

LEMMA CountedTyped ==
  ASSUME SessionInv, Counted PROVE commands' \in 0 .. MaxCommands
<1>1. commands \in 0 .. MaxCommands
  BY DEF SessionInv, SessionTypeOK
<1>2. QED
  BY <1>1, CommandsAssumption DEF Counted

LEMMA QuietlyTyped ==
  ASSUME SessionInv, Quietly, DebugTypeOK' PROVE SessionTypeOK'
<1> DEFINE Own == /\ phase' \in Phases /\ launched' \in BOOLEAN
                  /\ pending' \in Seq(Breakpoint) /\ resolved' \in Seq(Breakpoint)
                  /\ commands' \in 0 .. MaxCommands /\ refs' \subseteq 1 .. MaxStops
<1>1. /\ phase \in Phases /\ launched \in BOOLEAN
      /\ pending \in Seq(Breakpoint) /\ resolved \in Seq(Breakpoint)
      /\ commands \in 0 .. MaxCommands /\ refs \subseteq 1 .. MaxStops
  BY DEF SessionInv, SessionTypeOK, Phases
<1>2. ASSUME Answer \/ Abandon PROVE Own
  BY <1>1, <1>2 DEF Answer, Abandon, Taken, Phases
<1>3. ASSUME Launch PROVE Own
  BY <1>1, <1>3, CountedTyped DEF Launch, Taken, Phases
<1>4. ASSUME Resume PROVE Own
  BY <1>1, <1>4, CountedTyped DEF Resume, Taken, Phases
<1>5. ASSUME Pause PROVE Own
  BY <1>1, <1>5, CountedTyped DEF Pause, Taken, Phases
<1>6. ASSUME Scopes PROVE Own
  <2>1. lastStop # 0 /\ refs' = refs \union {nextSeq}
    BY <1>6 DEF Scopes
  <2>2. nextSeq \in 1 .. MaxStops
    BY <2>1, SessionFacts
  <2>3. refs' \subseteq 1 .. MaxStops
    BY <1>1, <2>1, <2>2
  <2>4. QED
    BY <1>1, <1>6, <2>3 DEF Scopes, Taken, Phases
<1>7. ASSUME NEW bps \in BreakpointLists, HandleSetBreakpoints(bps) PROVE Own
  <2>1. bps \in Seq(Breakpoint) /\ <<>> \in Seq(Breakpoint)
    BY BreakpointListsAssumption, EmptySeq
  <2>2. resolved' \in Seq(Breakpoint)
    <3>1. resolved' = IF launched THEN bps ELSE <<>>
      BY <1>7 DEF HandleSetBreakpoints
    <3>2. QED
      BY <2>1, <3>1
  <2>3. QED
    BY <1>1, <1>7, <2>1, <2>2, CountedTyped DEF HandleSetBreakpoints, Taken, Phases
<1>8. ASSUME CleanupCancel \/ CleanupResume \/ CleanupJoin PROVE Own
  BY <1>1, <1>8 DEF CleanupCancel, CleanupResume, CleanupJoin, RestOfCoord, Phases
<1>9. ASSUME phase' \in Live,
             UNCHANGED <<launched, pending, resolved, started, lastStop, refs, terminationSent,
                         out, commands, monitorVars, done, events, debugVars>>
      PROVE  Own
  BY <1>1, <1>9 DEF Live, Phases
<1>10. Own
  BY <1>2, <1>3, <1>4, <1>5, <1>6, <1>7, <1>8, <1>9 DEF Quietly
<1> HIDE DEF Own
<1>11. UNCHANGED <<events, out, lastStop, terminationSent, started, monitorVars, done>>
  BY QuietlyIsQuiet DEF Quiet
<1>12. SessionTypeOK
  BY DEF SessionInv
<1>13. QED
  BY <1>10, <1>11, <1>12 DEF SessionTypeOK, Own, Phases, monitorVars

LEMMA MsgFields ==
  \A kind, stop : Msg(kind, stop).kind = kind /\ Msg(kind, stop).stop = stop
BY DEF Msg

\* A message of the coordinator, or of the monitor.
LEMMA MsgTyped ==
  /\ \A kind \in {"exited", "error", "terminated"} : Msg(kind, 0) \in Message
  /\ Msg("ended", 0) \in Event /\ Msg("output", 0) \in Event
  /\ \A stop \in 0 .. MaxStops : Msg("stopped", stop) \in Event
<1>1. 0 \in 0 .. MaxStops
  BY DebugBoundsAssumption
<1>2. QED
  BY <1>1 DEF Msg, Message, Event, Kinds

LEMMA TerminatedTyped ==
  ASSUME NEW messages \in Seq(Message) PROVE Terminated(messages) \in Seq(Message)
<1>1. Msg("terminated", 0) \in Message
  BY MsgTyped
<1> DEFINE m == Msg("terminated", 0)
<1> HIDE DEF m
<1>2. Append(messages, m) \in Seq(Message)
  BY <1>1, AppendProperties DEF m
<1>3. QED
  BY <1>2 DEF Terminated, m

\* What handling an event does.
LEMMA HandledFacts ==
  ASSUME SessionInv, HandleEvent
  PROVE  /\ events # <<>> /\ events' = Tail(events) /\ events' \in Seq(Event)
         /\ Head(events) \in Event /\ Head(events) = events[1]
         /\ \/ /\ Head(events).kind = "output" /\ out' = Append(out, Head(events))
               /\ UNCHANGED <<lastStop, refs, terminationSent>>
            \/ /\ Head(events).kind = "stopped" /\ out' = Append(out, Head(events))
               /\ lastStop' = Head(events).stop /\ refs' = {} /\ UNCHANGED terminationSent
            \/ /\ Head(events).kind = "ended"
               /\ out' = Terminated(Append(out, Msg("exited", 0))) /\ terminationSent' = TRUE
               /\ UNCHANGED <<lastStop, refs>>
<1>1. events # <<>> /\ events' = Tail(events)
  BY DEF HandleEvent
<1>2. /\ events' \in Seq(Event) /\ Head(events) \in Event /\ Head(events) = events[1]
  <2>1. Tail(events) \in Seq(Event) /\ Head(events) \in Event
    BY <1>1, SessionFacts, HeadTailProperties
  <2>2. QED
    BY <1>1, <2>1
<1>3. Head(events).kind \in {"output", "stopped", "ended"}
  BY <1>2 DEF Event, Kinds
<1>4. QED
  BY <1>1, <1>2, <1>3 DEF HandleEvent

LEMMA HandledTyped ==
  ASSUME SessionInv, Handled, DebugTypeOK' PROVE SessionTypeOK'
<1>1. SessionTypeOK
  BY DEF SessionInv
<1>2. HandleEvent /\ phase' \in Live
      /\ UNCHANGED <<launched, pending, resolved, started, commands, monitorVars, done>>
  BY DEF Handled
<1>3. ASSUME Head(events).kind # "ended" PROVE Head(events) \in Message
  BY <1>2, <1>3, HandledFacts DEF Message, Event, Kinds
<1>4. out' \in Seq(Message)
  <2>1. CASE out' = Append(out, Head(events)) /\ Head(events).kind # "ended"
    BY <1>3, <2>1, SessionFacts, AppendProperties
  <2>2. CASE out' = Terminated(Append(out, Msg("exited", 0)))
    <3>1. Append(out, Msg("exited", 0)) \in Seq(Message)
      BY MsgTyped, SessionFacts, AppendProperties
    <3>2. QED
      BY <2>2, <3>1, TerminatedTyped
  <2>3. QED
    BY <1>2, <2>1, <2>2, HandledFacts
<1>5. events' \in Seq(Event)
  BY <1>2, HandledFacts
<1>6. lastStop' \in 0 .. MaxStops /\ refs' \subseteq 1 .. MaxStops /\ terminationSent' \in BOOLEAN
  BY <1>1, <1>2, HandledFacts DEF SessionTypeOK, Event
<1>7. QED
  BY <1>1, <1>2, <1>4, <1>5, <1>6 DEF SessionTypeOK, Live, Event, monitorVars

LEMMA MonitorTyped ==
  ASSUME SessionInv, MonitorSample \/ MonitorDiagnostics \/ MonitorStops \/ MonitorDecide, DebugTypeOK'
  PROVE  SessionTypeOK'
<1>1. SessionTypeOK
  BY DEF SessionInv
<1> DEFINE Own == /\ monitor' \in {"none", "sample", "diagnostics", "stops", "decide", "exit"}
                  /\ sampled' \in BOOLEAN /\ delivered' \in 0 .. MaxStops
                  /\ events' \in Seq(Event) /\ done' = done
<1>2. /\ monitor \in {"none", "sample", "diagnostics", "stops", "decide", "exit"}
      /\ sampled \in BOOLEAN /\ delivered \in 0 .. MaxStops
  BY <1>1 DEF SessionTypeOK
<1>3. ASSUME MonitorSample PROVE Own
  BY <1>2, <1>3, SessionFacts DEF MonitorSample, Finished
<1>4. ASSUME MonitorDiagnostics PROVE Own
  <2>1. events' \in Seq(Event)
    <3> DEFINE outputs == [i \in 1 .. diagnostics |-> Msg("output", 0)]
    <3>1. outputs \in Seq(Event)
      BY MsgTyped, SessionFacts
    <3> HIDE DEF outputs
    <3>2. events \o outputs \in Seq(Event)
      BY <3>1, SessionFacts, ConcatProperties
    <3>3. Append(events, Msg("ended", 0)) \in Seq(Event)
      BY MsgTyped, SessionFacts, AppendProperties
    <3>4. \/ events' = events \o outputs \/ events' = events
          \/ events' = Append(events, Msg("ended", 0))
      BY <1>4 DEF MonitorDiagnostics, outputs
    <3>5. QED
      BY <3>2, <3>3, <3>4, SessionFacts
  <2>2. QED
    BY <1>2, <1>4, <2>1 DEF MonitorDiagnostics
<1>5. ASSUME MonitorStops PROVE Own
  <2>1. Len(stops) = nextSeq /\ \A i \in 1 .. nextSeq : stops[i].seq = i
    BY DEF SessionInv, Forwarded, Recorded
  <2> DEFINE news == [i \in 1 .. Len(stops) - delivered |-> Msg("stopped", stops[delivered + i].seq)]
  <2>2. news \in Seq(Event)
    <3>1. \A i \in 1 .. Len(stops) - delivered : stops[delivered + i].seq \in 0 .. MaxStops
      BY <2>1, SessionFacts
    <3>2. Len(stops) - delivered \in Nat
      BY <2>1, SessionFacts
    <3>3. \A i \in 1 .. Len(stops) - delivered : Msg("stopped", stops[delivered + i].seq) \in Event
      BY <3>1, MsgTyped
    <3>4. QED
      BY <3>2, <3>3
  <2> HIDE DEF news
  <2>3. events \o news \in Seq(Event)
    BY <2>2, SessionFacts, ConcatProperties
  <2>4. \/ events' = events /\ delivered' = delivered
        \/ events' = events \o news /\ delivered' = Len(stops)
    BY <1>5 DEF MonitorStops, news
  <2>5. events' \in Seq(Event) /\ delivered' \in 0 .. MaxStops
    <3>1. events \in Seq(Event) /\ nextSeq \in 0 .. MaxStops
      BY SessionFacts
    <3>2. QED
      BY <1>2, <2>1, <2>3, <2>4, <3>1
  <2>6. QED
    BY <1>2, <1>5, <2>5 DEF MonitorStops
<1>6. ASSUME MonitorDecide PROVE Own
  <2>1. Append(events, Msg("ended", 0)) \in Seq(Event)
    BY MsgTyped, SessionFacts, AppendProperties
  <2>2. QED
    BY <1>2, <1>6, <2>1, SessionFacts DEF MonitorDecide
<1>7. Own
  BY <1>3, <1>4, <1>5, <1>6
<1> HIDE DEF Own
<1>8. UNCHANGED coordVars
  BY DEF MonitorSample, MonitorDiagnostics, MonitorStops, MonitorDecide
<1>9. QED
  BY <1>1, <1>7, <1>8 DEF SessionTypeOK, Own, Event, coordVars

LEMMA SessionTypesKept ==
  ASSUME SessionInv, SessionNext PROVE SessionTypeOK'
<1>1. SessionTypeOK
  BY DEF SessionInv
<1>2. DebugTypeOK'
  BY GateKept DEF GateInv
<1>3. CASE Engine
  BY <1>1, <1>2, <1>3 DEF Engine, SessionTypeOK, sessionVars, coordVars, monitorVars
<1>4. CASE ThreadDone
  BY <1>1, <1>2, <1>4 DEF ThreadDone, SessionTypeOK, coordVars, monitorVars
<1>5. CASE ConfigurationDone
  <2>1. phase' = "inline" /\ started' = TRUE /\ monitor' = "sample"
        /\ UNCHANGED <<launched, pending, resolved, lastStop, refs, terminationSent, out,
                       sampled, delivered, done, events>>
    BY <1>5 DEF ConfigurationDone, Taken
  <2>2. commands' \in 0 .. MaxCommands
    BY <1>5, CountedTyped DEF ConfigurationDone
  <2>3. QED
    BY <1>1, <1>2, <2>1, <2>2 DEF SessionTypeOK
<1>6. CASE ConfigurationFails
  <2>1. out' \in Seq(Message)
    <3>1. Append(out, Msg("error", 0)) \in Seq(Message)
      BY MsgTyped, SessionFacts, AppendProperties
    <3>2. QED
      BY <1>6, <3>1, TerminatedTyped DEF ConfigurationFails
  <2>2. commands' \in 0 .. MaxCommands
    BY <1>6, CountedTyped DEF ConfigurationFails
  <2>3. phase' = "drain" /\ terminationSent' = TRUE
        /\ UNCHANGED <<launched, pending, resolved, started, lastStop, refs, monitorVars, done, events>>
    BY <1>6 DEF ConfigurationFails, Taken
  <2>4. QED
    BY <1>1, <1>2, <2>1, <2>2, <2>3 DEF SessionTypeOK, monitorVars
<1>7. CASE Disconnect
  <2>1. out' \in Seq(Message)
    BY <1>7, TerminatedTyped, SessionFacts DEF Disconnect
  <2>2. phase' = "cleanup" /\ terminationSent' = TRUE
        /\ UNCHANGED <<launched, pending, resolved, started, lastStop, refs, commands,
                       monitorVars, done, events>>
    BY <1>7 DEF Disconnect, Taken
  <2>3. QED
    BY <1>1, <1>2, <2>1, <2>2 DEF SessionTypeOK, monitorVars
<1>8. QED
  BY <1>2, <1>3, <1>4, <1>5, <1>6, <1>7, SessionSteps, QuietlyTyped, HandledTyped, MonitorTyped

-----------------------------------------------------------------------------
(***************************************************************************)
(* A session keeps the counts of what is on its way.                       *)
(***************************************************************************)
\* Of a sequence of messages to which one is appended.
LEMMA AppendFacts ==
  ASSUME NEW S, NEW s \in Seq(S), NEW m \in S
  PROVE  LET new == Append(s, m) IN
           /\ new \in Seq(S) /\ Len(s) \in Nat /\ Len(new) = Len(s) + 1
           /\ DOMAIN s = 1 .. Len(s) /\ DOMAIN new = 1 .. Len(s) + 1
           /\ new[Len(s) + 1] = m /\ \A i \in 1 .. Len(s) : new[i] = s[i]
<1> DEFINE new == Append(s, m)
<1>1. Len(s) \in Nat /\ DOMAIN s = 1 .. Len(s)
  BY LenProperties
<1>2. new \in Seq(S) /\ Len(new) = Len(s) + 1 /\ new[Len(s) + 1] = m
      /\ \A i \in 1 .. Len(s) : new[i] = s[i]
  BY AppendProperties
<1> HIDE DEF new
<1>3. DOMAIN new = 1 .. Len(s) + 1
  BY <1>2, LenProperties
<1>4. QED
  BY <1>1, <1>2, <1>3 DEF new

\* Terminated adds one message, or none.
LEMMA TerminatedFacts ==
  ASSUME NEW messages \in Seq(Message)
  PROVE  LET new == Terminated(messages) IN
           /\ new \in Seq(Message) /\ Len(messages) \in Nat
           /\ DOMAIN messages = 1 .. Len(messages)
           /\ \A i \in 1 .. Len(messages) : new[i] = messages[i]
           /\ IF terminationSent THEN new = messages
              ELSE /\ DOMAIN new = 1 .. Len(messages) + 1
                   /\ new[Len(messages) + 1].kind = "terminated"
<1>1. Len(messages) \in Nat /\ DOMAIN messages = 1 .. Len(messages)
  BY LenProperties
<1> DEFINE m == Msg("terminated", 0)
           new == Append(messages, m)
<1>2. m \in Message /\ m.kind = "terminated"
  BY MsgTyped DEF Msg
<1> HIDE DEF m
<1>3. /\ new \in Seq(Message) /\ DOMAIN new = 1 .. Len(messages) + 1
      /\ new[Len(messages) + 1] = m /\ \A i \in 1 .. Len(messages) : new[i] = messages[i]
  BY <1>2, AppendFacts
<1> HIDE DEF new
<1>4. Terminated(messages) = IF terminationSent THEN messages ELSE new
  BY DEF Terminated, new, m
<1>5. QED
  BY <1>1, <1>2, <1>3, <1>4

LEMMA TerminatedNumbered ==
  ASSUME NEW messages \in Seq(Message), NEW high \in Nat, Numbered(messages, 0, high)
  PROVE  Numbered(Terminated(messages), 0, high)
<1> DEFINE m == Msg("terminated", 0)
<1>1. m \in Message /\ m.kind # "stopped"
  BY MsgTyped DEF Msg
<1> HIDE DEF m
<1>2. Numbered(Append(messages, m), 0, high)
  BY <1>1, NumberedAppend
<1>3. QED
  BY <1>2 DEF Terminated, m

\* A stop of the engine is numbered next.
LEMMA EngineForwards ==
  ASSUME SessionInv, Engine PROVE Forwarded'
<1>1. Forwarded /\ DebugTypeOK /\ GateConsistent
  BY DEF SessionInv, GateInv
<1>2. UNCHANGED <<out, events, lastStop, delivered, refs>>
  BY <1>1, EngineKeeps DEF sessionVars, coordVars, monitorVars
<1>3. Recorded' /\ nextSeq <= nextSeq'
  <2>1. CASE UNCHANGED <<stops, nextSeq>>
    BY <1>1, <2>1, SessionFacts DEF Forwarded, Recorded
  <2>2. CASE \E stop \in Stop : /\ stop.seq = nextSeq + 1 /\ stops' = Append(stops, stop)
                                /\ nextSeq' = nextSeq + 1
    <3>1. PICK stop \in Stop : /\ stop.seq = nextSeq + 1 /\ stops' = Append(stops, stop)
                               /\ nextSeq' = nextSeq + 1
      BY <2>2
    <3>2. Len(stops) = nextSeq /\ nextSeq \in Nat /\ stops \in Seq(Stop)
      BY <1>1, SessionFacts DEF Forwarded, Recorded
    <3>3. Len(stops') = nextSeq + 1 /\ stops'[nextSeq + 1] = stop
          /\ \A i \in 1 .. nextSeq : stops'[i] = stops[i]
      BY <3>1, <3>2, AppendFacts
    <3>4. \A i \in 1 .. nextSeq + 1 : stops'[i].seq = i
      <4>1. \A i \in 1 .. nextSeq : stops[i].seq = i
        BY <1>1 DEF Forwarded, Recorded
      <4>2. \A i \in 1 .. nextSeq + 1 : i = nextSeq + 1 \/ i \in 1 .. nextSeq
        BY <3>2
      <4>3. QED
        BY <3>1, <3>3, <4>1, <4>2
    <3>5. QED
      BY <3>1, <3>2, <3>3, <3>4 DEF Recorded
  <2>3. QED
    BY <1>1, <2>1, <2>2, EngineKeeps
<1>4. delivered <= nextSeq'
  <2>1. nextSeq' \in Nat
    <3>1. DebugTypeOK'
      BY GateKept DEF GateInv, SessionNext
    <3>2. QED
      BY <3>1, DebugBoundsAssumption DEF DebugTypeOK
  <2>2. QED
    BY <1>3, <2>1, SessionFacts
<1>5. QED
  BY <1>1, <1>2, <1>3, <1>4 DEF Forwarded, ReferencesAreRecent

\* What is drained joins the queue behind what is there.
LEMMA MonitorForwards ==
  ASSUME SessionInv, MonitorSample \/ MonitorDiagnostics \/ MonitorStops \/ MonitorDecide
  PROVE  Forwarded'
<1>1. Forwarded /\ Recorded
  BY DEF SessionInv, Forwarded
<1>2. UNCHANGED <<stops, nextSeq, out, lastStop, refs>>
  BY DEF MonitorSample, MonitorDiagnostics, MonitorStops, MonitorDecide, coordVars, debugVars,
     ctlVars
<1>3. SUFFICES /\ delivered' \in Nat /\ delivered' <= nextSeq /\ delivered <= delivered'
               /\ Numbered(events', lastStop, delivered')
  BY <1>1, <1>2, <1>3, SessionFacts DEF Forwarded, Recorded, ReferencesAreRecent
<1>4. /\ Numbered(events, lastStop, delivered) /\ events \in Seq(Event)
      /\ delivered \in Nat /\ lastStop \in Nat /\ lastStop <= delivered /\ delivered <= nextSeq
      /\ nextSeq \in Nat
  BY <1>1, SessionFacts DEF Forwarded
<1>5. Numbered(Append(events, Msg("ended", 0)), lastStop, delivered)
  <2>1. Msg("ended", 0) \in Event /\ Msg("ended", 0).kind # "stopped"
    BY MsgTyped DEF Msg
  <2> DEFINE m == Msg("ended", 0)
  <2> HIDE DEF m
  <2>2. Numbered(Append(events, m), lastStop, delivered)
    BY <1>4, <2>1, NumberedAppend DEF m
  <2>3. QED
    BY <2>2 DEF m
<1>6. CASE MonitorSample
  BY <1>4, <1>6 DEF MonitorSample
<1>7. CASE MonitorDiagnostics
  <2> DEFINE outputs == [i \in 1 .. diagnostics |-> Msg("output", 0)]
  <2>1. outputs \in Seq(Event) /\ \A i \in DOMAIN outputs : outputs[i].kind # "stopped"
    BY MsgTyped, SessionFacts DEF Msg
  <2> HIDE DEF outputs
  <2>2. Numbered(outputs, delivered, delivered)
    BY <1>4, <2>1, NumberedOthers
  <2>3. Numbered(events \o outputs, lastStop, delivered)
    BY <1>4, <2>1, <2>2, NumberedConcat
  <2>4. /\ delivered' = delivered
        /\ \/ events' = events \o outputs \/ events' = events
           \/ events' = Append(events, Msg("ended", 0))
    BY <1>7 DEF MonitorDiagnostics, outputs
  <2>5. Numbered(events', lastStop, delivered)
    BY <1>4, <1>5, <2>3, <2>4
  <2>6. delivered' = delivered
    BY <2>4
  <2>7. QED
    BY <1>4, <2>5, <2>6
<1>8. CASE MonitorStops
  <2>1. Len(stops) = nextSeq /\ \A i \in 1 .. nextSeq : stops[i].seq = i
    BY <1>1 DEF Recorded
  <2> DEFINE count == nextSeq - delivered
             news == [i \in 1 .. Len(stops) - delivered |-> Msg("stopped", stops[delivered + i].seq)]
  <2>2. count \in Nat /\ delivered + count = nextSeq
    BY <1>4
  <2>3. \A i \in 1 .. count : delivered + i \in 1 .. nextSeq
    BY <1>4
  <2>4. DOMAIN news = 1 .. count
    BY <2>1
  <2>5. \A i \in 1 .. count : news[i] = Msg("stopped", delivered + i)
    BY <2>1, <2>3
  <2> HIDE DEF count, news
  <2>6. news \in Seq(Event)
    <3>1. ASSUME NEW i \in 1 .. count PROVE news[i] \in Event
      <4>1. delivered + i \in 0 .. MaxStops
        BY <1>4, <2>3, SessionFacts
      <4>2. Msg("stopped", delivered + i) \in Event
        BY <4>1, MsgTyped
      <4>3. QED
        BY <2>5, <4>2
    <3>2. news \in [1 .. count -> Event]
      <4>1. news = [i \in 1 .. count |-> news[i]]
        BY <2>4 DEF news
      <4>2. QED
        BY <3>1, <4>1
    <3>3. QED
      BY <2>2, <3>2
  <2>7. \A i \in 1 .. count : news[i].kind = "stopped" /\ news[i].stop = delivered + i
    BY <2>5, MsgFields
  <2>8. Numbered(news, delivered, nextSeq)
    <3>1. StopsOf(news) = 1 .. count
      BY <2>4, <2>7 DEF StopsOf
    <3>2. \A i \in StopsOf(news) : news[i].stop \in delivered + 1 .. nextSeq
      BY <1>4, <2>2, <2>7, <3>1
    <3>3. ASSUME NEW n \in delivered + 1 .. nextSeq PROVE \E i \in StopsOf(news) : news[i].stop = n
      <4>1. n - delivered \in 1 .. count /\ delivered + (n - delivered) = n
        BY <1>4, <2>2
      <4>2. QED
        BY <2>7, <3>1, <4>1
    <3>4. \A i, j \in StopsOf(news) : i < j => news[i].stop < news[j].stop
      BY <1>4, <2>2, <2>7, <3>1
    <3>5. QED
      BY <3>2, <3>3, <3>4 DEF Numbered
  <2>9. Numbered(events \o news, lastStop, nextSeq)
    BY <1>4, <2>6, <2>8, NumberedConcat
  <2>10. \/ events' = events /\ delivered' = delivered
         \/ events' = events \o news /\ delivered' = nextSeq
    BY <1>8, <2>1 DEF MonitorStops, news
  <2>11. CASE events' = events /\ delivered' = delivered
    BY <1>4, <2>11
  <2>12. CASE events' = events \o news /\ delivered' = nextSeq
    <3>1. Numbered(events', lastStop, delivered')
      BY <2>9, <2>12
    <3>2. QED
      BY <1>4, <2>12, <3>1
  <2>13. QED
    BY <2>10, <2>11, <2>12
<1>9. CASE MonitorDecide
  <2>1. delivered' = delivered /\ (events' = events \/ events' = Append(events, Msg("ended", 0)))
    BY <1>9 DEF MonitorDecide
  <2>2. Numbered(events', lastStop, delivered')
    BY <1>4, <1>5, <2>1
  <2>3. QED
    BY <1>4, <2>1, <2>2
<1>10. QED
  BY <1>6, <1>7, <1>8, <1>9

\* The stop that is announced is the next one.
LEMMA HandledForwards ==
  ASSUME SessionInv, Handled PROVE Forwarded'
<1>1. Forwarded /\ HandleEvent /\ UNCHANGED <<stops, nextSeq, delivered>>
  BY DEF SessionInv, Handled, debugVars, ctlVars, monitorVars
<1>2. /\ Numbered(events, lastStop, delivered) /\ events \in Seq(Event) /\ out \in Seq(Message)
      /\ Numbered(out, 0, lastStop)
      /\ delivered \in Nat /\ lastStop \in Nat /\ lastStop <= delivered /\ delivered <= nextSeq
      /\ nextSeq \in Nat
  BY <1>1, SessionFacts DEF Forwarded
<1>3. IF Head(events).kind = "stopped"
      THEN Head(events).stop = lastStop + 1 /\ lastStop + 1 <= delivered
           /\ Numbered(events', lastStop + 1, delivered)
      ELSE Numbered(events', lastStop, delivered)
  BY <1>1, <1>2, HandledFacts, NumberedTail
<1>4. Recorded'
  BY <1>1 DEF Forwarded, Recorded
<1>5. CASE Head(events).kind = "stopped"
  <2>1. out' = Append(out, Head(events)) /\ lastStop' = lastStop + 1 /\ refs' = {}
    BY <1>1, <1>3, <1>5, HandledFacts
  <2>2. Head(events) \in Message
    BY <1>1, <1>5, HandledFacts DEF Message, Event, Kinds
  <2>3. lastStop + 1 \in Nat /\ 0 \in Nat /\ 0 <= lastStop
    BY <1>2
  <2>4. Numbered(out', 0, lastStop + 1)
    BY <1>2, <1>3, <1>5, <2>1, <2>2, <2>3, NumberedAppend
  <2>5. QED
    BY <1>1, <1>2, <1>3, <1>4, <1>5, <2>1, <2>4 DEF Forwarded, ReferencesAreRecent
<1>6. CASE Head(events).kind = "output"
  <2>1. out' = Append(out, Head(events)) /\ UNCHANGED <<lastStop, refs>>
    BY <1>1, <1>6, HandledFacts
  <2>2. Head(events) \in Message /\ 0 \in Nat /\ 0 <= lastStop
    BY <1>1, <1>2, <1>6, HandledFacts DEF Message, Event, Kinds
  <2>3. Numbered(out', 0, lastStop)
    BY <1>2, <1>6, <2>1, <2>2, NumberedAppend
  <2>4. QED
    BY <1>1, <1>2, <1>3, <1>4, <1>6, <2>1, <2>3 DEF Forwarded, ReferencesAreRecent
<1>7. CASE Head(events).kind = "ended"
  <2>1. out' = Terminated(Append(out, Msg("exited", 0))) /\ UNCHANGED <<lastStop, refs>>
    BY <1>1, <1>7, HandledFacts
  <2> DEFINE m == Msg("exited", 0)
  <2>2. m \in Message /\ m.kind # "stopped" /\ 0 \in Nat /\ 0 <= lastStop
    BY <1>2, MsgTyped DEF Msg
  <2> HIDE DEF m
  <2>3. Append(out, m) \in Seq(Message) /\ Numbered(Append(out, m), 0, lastStop)
    BY <1>2, <2>2, NumberedAppend, AppendProperties
  <2>4. Numbered(out', 0, lastStop)
    BY <1>2, <2>1, <2>3, TerminatedNumbered DEF m
  <2>5. QED
    BY <1>1, <1>2, <1>3, <1>4, <1>7, <2>1, <2>4 DEF Forwarded, ReferencesAreRecent
<1>8. QED
  BY <1>1, <1>5, <1>6, <1>7, HandledFacts

LEMMA ForwardedNext ==
  ASSUME SessionInv, SessionNext PROVE Forwarded'
<1>1. Forwarded /\ Numbered(out, 0, lastStop)
  BY DEF SessionInv, Forwarded
<1>2. CASE Quietly
  <2>1. Quiet
    BY <1>2, QuietlyIsQuiet
  <2>2. \A stop \in refs' : stop >= lastStop
    BY <1>1, <2>1, SessionFacts DEF Quiet, Forwarded, ReferencesAreRecent
  <2>3. UNCHANGED <<stops, nextSeq, delivered, out, events, lastStop>>
    BY <2>1 DEF Quiet, monitorVars
  <2>4. QED
    BY <1>1, <2>2, <2>3 DEF Forwarded, Recorded, ReferencesAreRecent
<1>3. CASE ThreadDone \/ ConfigurationDone
  BY <1>1, <1>3 DEF ThreadDone, ConfigurationDone, coordVars, monitorVars, ctlVars, Forwarded,
     Recorded, ReferencesAreRecent
<1>4. ASSUME Numbered(out', 0, lastStop),
             UNCHANGED <<stops, nextSeq, delivered, events, lastStop, refs>>
      PROVE  Forwarded'
  BY <1>1, <1>4 DEF Forwarded, Recorded, ReferencesAreRecent
<1>5. CASE ConfigurationFails
  <2> DEFINE m == Msg("error", 0)
  <2>1. m \in Message /\ m.kind # "stopped" /\ 0 \in Nat /\ 0 <= lastStop
    BY MsgTyped, SessionFacts DEF Msg
  <2>2. out' = Terminated(Append(out, m))
    BY <1>5 DEF ConfigurationFails
  <2> HIDE DEF m
  <2>3. Append(out, m) \in Seq(Message) /\ Numbered(Append(out, m), 0, lastStop)
    BY <1>1, <2>1, SessionFacts, NumberedAppend, AppendProperties
  <2>4. Numbered(out', 0, lastStop)
    BY <2>2, <2>3, SessionFacts, TerminatedNumbered
  <2>5. QED
    BY <1>4, <1>5, <2>4 DEF ConfigurationFails, monitorVars, debugVars, ctlVars
<1>6. CASE Disconnect
  <2>1. Numbered(out', 0, lastStop)
    BY <1>1, <1>6, SessionFacts, TerminatedNumbered DEF Disconnect
  <2>2. QED
    BY <1>4, <1>6, <2>1 DEF Disconnect, monitorVars, debugVars, ctlVars
<1>7. QED
  BY <1>2, <1>3, <1>5, <1>6, SessionSteps, EngineForwards, MonitorForwards, HandledForwards

-----------------------------------------------------------------------------
(***************************************************************************)
(* A session keeps what begins and what ends it.                           *)
(***************************************************************************)
\* What the client has been shown of each kind depends on the kind of what is
\* appended.
LEMMA ShownAppend ==
  ASSUME SessionInv, NEW m \in Message, out' = Append(out, m), NEW kind, m.kind # kind
  PROVE  Shown(kind)' = Shown(kind)
<1>1. /\ DOMAIN out' = 1 .. Len(out) + 1 /\ out'[Len(out) + 1] = m
      /\ Len(out) \in Nat /\ DOMAIN out = 1 .. Len(out)
      /\ \A i \in 1 .. Len(out) : out'[i] = out[i]
  BY SessionFacts, AppendFacts
<1>2. QED
  BY <1>1 DEF Shown

LEMMA TerminatedShown ==
  ASSUME NEW messages \in Seq(Message), out' = Terminated(messages)
  PROVE  Shown("exited")' = {i \in DOMAIN messages : messages[i].kind = "exited"}
<1>1. CASE terminationSent
  BY <1>1, TerminatedFacts DEF Shown
<1>2. CASE ~terminationSent
  <2>1. /\ Len(messages) \in Nat /\ DOMAIN messages = 1 .. Len(messages)
        /\ DOMAIN out' = 1 .. Len(messages) + 1 /\ out'[Len(messages) + 1].kind = "terminated"
        /\ \A i \in 1 .. Len(messages) : out'[i] = messages[i]
    BY <1>2, TerminatedFacts
  <2>2. {i \in DOMAIN out' : out'[i].kind = "exited"}
          = {i \in DOMAIN messages : messages[i].kind = "exited"}
    BY <2>1
  <2>3. QED
    BY <2>2 DEF Shown
<1>3. QED
  BY <1>1, <1>2

LEMMA BegunNext ==
  ASSUME SessionInv, SessionNext PROVE Begun'
<1>1. /\ Begun /\ Ending /\ launched \in BOOLEAN /\ started \in BOOLEAN
      /\ poisoned \in BOOLEAN
  BY SessionFacts DEF SessionInv
\* Most steps leave all of it alone, or only make the run's events more.
<1>2. ASSUME UNCHANGED <<started, launched, resolved, pending>>,
             ~started => UNCHANGED <<events, out>>,
             monitor' = "none" <=> monitor = "none",
             ~poisoned' => ~poisoned /\ breakpoints' = breakpoints
      PROVE  Begun'
  BY <1>1, <1>2 DEF Begun, BreakpointsInstalled, Shown
<1>3. CASE Engine
  <2>1. GateConsistent /\ DebugTypeOK
    BY DEF SessionInv, GateInv
  <2>2. UNCHANGED <<sessionVars, breakpoints>> /\ (~poisoned' => ~poisoned)
    BY <1>3, <2>1, EngineKeeps
  <2>3. QED
    BY <1>2, <2>2 DEF sessionVars, coordVars, monitorVars
<1>4. CASE ThreadDone
  BY <1>2, <1>4 DEF ThreadDone, coordVars, monitorVars, ctlVars
<1>5. CASE MonitorSample \/ MonitorStops \/ MonitorDecide
  <2>1. UNCHANGED coordVars /\ UNCHANGED debugVars /\ monitor # "none" /\ monitor' # "none"
    BY <1>5 DEF MonitorSample, MonitorStops, MonitorDecide
  <2>2. started
    BY <1>1, <2>1 DEF Begun
  <2>3. QED
    BY <1>2, <2>1, <2>2 DEF coordVars, debugVars, ctlVars
<1>6. CASE MonitorDiagnostics
  <2>1. UNCHANGED <<coordVars, breakpoints, poisoned>> /\ monitor # "none" /\ monitor' # "none"
    BY <1>6 DEF MonitorDiagnostics
  <2>2. started
    BY <1>1, <2>1 DEF Begun
  <2>3. QED
    BY <1>2, <2>1, <2>2 DEF coordVars
<1>7. CASE Quietly
  <2>1. Quiet
    BY <1>7, QuietlyIsQuiet
  <2>2. UNCHANGED <<started, events, out, monitor, poisoned>>
    BY <2>1 DEF Quiet, monitorVars
  <2>3. CASE Launch
    <3>1. launched' = TRUE /\ resolved' = pending /\ pending' = pending
          /\ breakpoints' = breakpoints
      BY <2>3 DEF Launch, debugVars, ctlVars
    <3>2. QED
      BY <1>1, <2>2, <3>1 DEF Begun, BreakpointsInstalled, Shown
  <2>4. ASSUME NEW bps \in BreakpointLists, HandleSetBreakpoints(bps) PROVE Begun'
    <3>1. /\ pending' = bps /\ resolved' = IF launched THEN bps ELSE <<>>
          /\ launched' = launched
      BY <2>4 DEF HandleSetBreakpoints
    <3>2. started /\ ~poisoned => breakpoints' = bps
      BY <1>1, <2>4, <3>1 DEF HandleSetBreakpoints, SetBreakpoints, Begun
    <3>3. QED
      BY <1>1, <2>2, <3>1, <3>2 DEF Begun, BreakpointsInstalled, Shown
  <2>5. ASSUME UNCHANGED <<launched, resolved, pending, breakpoints>> PROVE Begun'
    BY <1>2, <2>2, <2>5
  <2>6. CASE Answer \/ Scopes \/ Abandon
    BY <2>5, <2>6 DEF Answer, Scopes, Abandon, debugVars, ctlVars
  <2>7. CASE Resume
    <3>1. Resumes
      BY <2>7 DEF Resume, Resumes
    <3>2. QED
      BY <2>5, <2>7, <3>1, ResumesArm DEF Resume
  <2>8. CASE Pause
    BY <2>5, <2>8 DEF Pause, RequestPause, debugVars, ctlVars
  <2>9. CASE CleanupCancel \/ CleanupJoin
    BY <2>5, <2>9 DEF CleanupCancel, CleanupJoin, RestOfCoord, debugVars, ctlVars
  <2>10. CASE CleanupResume
    <3>1. UNCHANGED debugVars \/ Resumes
      BY <2>10 DEF CleanupResume, Resumes
    <3>2. breakpoints' = breakpoints
      BY <3>1, ResumesArm DEF debugVars, ctlVars
    <3>3. QED
      BY <2>5, <2>10, <3>2 DEF CleanupResume, RestOfCoord
  <2>11. CASE UNCHANGED <<launched, pending, resolved, started, lastStop, refs, terminationSent,
                          out, commands, monitorVars, done, events, debugVars>>
    BY <2>5, <2>11 DEF debugVars, ctlVars
  <2>12. QED
    BY <1>7, <2>3, <2>4, <2>6, <2>7, <2>8, <2>9, <2>10, <2>11 DEF Quietly
<1>8. CASE Handled
  <2>1. events # <<>>
    BY <1>8 DEF Handled, HandleEvent
  <2>2. started
    BY <1>1, <2>1 DEF Begun
  <2>3. QED
    BY <1>2, <1>8, <2>2 DEF Handled, monitorVars, debugVars, ctlVars
<1>9. CASE ConfigurationDone
  <2>1. launched /\ started' = TRUE /\ monitor' = "sample" /\ breakpoints' = resolved
        /\ UNCHANGED <<launched, pending, resolved>>
    BY <1>9 DEF ConfigurationDone
  <2>2. QED
    BY <1>1, <2>1 DEF Begun, BreakpointsInstalled
\* Messages of a session whose run never began.
<1>10. ASSUME Shown("exited")' = Shown("exited"), events' = events,
              UNCHANGED <<started, launched, resolved, pending, monitor, poisoned, breakpoints>>
       PROVE  Begun'
  BY <1>1, <1>10 DEF Begun, BreakpointsInstalled
<1>11. CASE ConfigurationFails
  <2> DEFINE m == Msg("error", 0)
             messages == Append(out, m)
  <2>1. m \in Message /\ m.kind = "error"
    BY MsgTyped, MsgFields
  <2>2. out' = Terminated(messages)
    BY <1>11 DEF ConfigurationFails
  <2> HIDE DEF m
  <2>3. /\ messages \in Seq(Message) /\ Len(out) \in Nat
        /\ DOMAIN out = 1 .. Len(out) /\ DOMAIN messages = 1 .. Len(out) + 1
        /\ messages[Len(out) + 1] = m /\ \A i \in 1 .. Len(out) : messages[i] = out[i]
    BY <2>1, SessionFacts, AppendFacts
  <2> HIDE DEF messages
  <2>4. {i \in DOMAIN messages : messages[i].kind = "exited"} = Shown("exited")
    BY <2>1, <2>3 DEF Shown
  <2>5. Shown("exited")' = Shown("exited")
    BY <2>2, <2>3, <2>4, TerminatedShown
  <2>6. QED
    BY <1>10, <1>11, <2>5 DEF ConfigurationFails, monitorVars, debugVars, ctlVars
<1>12. CASE Disconnect
  <2>1. out' = Terminated(out) /\ out \in Seq(Message)
    BY <1>12, SessionFacts DEF Disconnect
  <2>2. Shown("exited")' = Shown("exited")
    BY <2>1, TerminatedShown DEF Shown
  <2>3. QED
    BY <1>10, <1>12, <2>2 DEF Disconnect, monitorVars, debugVars, ctlVars
<1>13. QED
  BY <1>3, <1>4, <1>5, <1>6, <1>7, <1>8, <1>9, <1>11, <1>12, SessionSteps

\* What may be said of messages of which the last may be about the end.
EndsOnce(s) ==
  /\ \A i, j \in DOMAIN s : s[i].kind = "terminated" /\ s[j].kind = "terminated" => i = j
  /\ \A i, j \in DOMAIN s : s[i].kind = "exited" /\ j > i => s[j].kind = "terminated"

LEMMA TerminatedEnds ==
  ASSUME NEW messages \in Seq(Message), EndsOnce(messages),
         ~terminationSent => \A i \in DOMAIN messages : messages[i].kind # "terminated"
  PROVE  EndsOnce(Terminated(messages))
<1> DEFINE new == Terminated(messages)
<1>1. CASE terminationSent
  BY <1>1 DEF Terminated
<1>2. CASE ~terminationSent
  <2>1. /\ Len(messages) \in Nat /\ DOMAIN messages = 1 .. Len(messages)
        /\ DOMAIN new = 1 .. Len(messages) + 1 /\ new[Len(messages) + 1].kind = "terminated"
        /\ \A i \in 1 .. Len(messages) : new[i] = messages[i]
    BY <1>2, TerminatedFacts
  <2> HIDE DEF new
  <2>2. \A i \in DOMAIN new : i = Len(messages) + 1 \/ i \in DOMAIN messages
    BY <2>1
  <2>3. ASSUME NEW i \in DOMAIN new, NEW j \in DOMAIN new,
               new[i].kind = "terminated", new[j].kind = "terminated"
        PROVE  i = j
    <3>1. i = Len(messages) + 1 /\ j = Len(messages) + 1
      BY <1>2, <2>1, <2>2, <2>3
    <3>2. QED
      BY <3>1
  <2>4. ASSUME NEW i \in DOMAIN new, NEW j \in DOMAIN new, new[i].kind = "exited", j > i
        PROVE  new[j].kind = "terminated"
    <3>1. CASE j = Len(messages) + 1
      BY <2>1, <3>1
    <3>2. CASE j # Len(messages) + 1
      <4>1. i \in DOMAIN messages /\ j \in DOMAIN messages
        BY <2>1, <2>2, <2>4, <3>2
      <4>2. QED
        BY <2>1, <2>4, <4>1 DEF EndsOnce
    <3>3. QED
      BY <3>1, <3>2
  <2>5. QED
    BY <2>3, <2>4 DEF EndsOnce, new
<1>3. QED
  BY <1>1, <1>2

\* Before the exit anything but a termination may be said.
LEMMA AppendEnds ==
  ASSUME NEW s \in Seq(Message), EndsOnce(s), NEW m \in Message, m.kind # "terminated",
         \A i \in DOMAIN s : s[i].kind # "exited"
  PROVE  EndsOnce(Append(s, m))
<1> DEFINE new == Append(s, m)
<1>1. /\ Len(s) \in Nat /\ DOMAIN s = 1 .. Len(s) /\ DOMAIN new = 1 .. Len(s) + 1
      /\ new[Len(s) + 1] = m /\ \A i \in 1 .. Len(s) : new[i] = s[i]
  BY AppendFacts
<1> HIDE DEF new
<1>2. \A i \in DOMAIN new : i = Len(s) + 1 \/ i \in DOMAIN s
  BY <1>1
<1>3. ASSUME NEW i \in DOMAIN new, NEW j \in DOMAIN new,
             new[i].kind = "terminated", new[j].kind = "terminated"
      PROVE  i = j
  <2>1. i \in DOMAIN s /\ j \in DOMAIN s
    BY <1>1, <1>2, <1>3
  <2>2. QED
    BY <1>1, <1>3, <2>1 DEF EndsOnce
<1>4. ASSUME NEW i \in DOMAIN new, NEW j \in DOMAIN new, new[i].kind = "exited", j > i
      PROVE  new[j].kind = "terminated"
  <2>1. i = Len(s) + 1
    BY <1>1, <1>2, <1>4
  <2>2. FALSE
    BY <1>1, <1>4, <2>1
  <2>3. QED
    BY <2>2
<1>5. QED
  BY <1>3, <1>4 DEF EndsOnce, new

\* Ending, as what holds of the queue and of what was shown.
LEMMA EndingParts ==
  Ending <=>
    /\ done => engine = "ended"
    /\ monitor = "exit" => done
    /\ \A i \in DOMAIN events : events[i].kind = "ended" => i = Len(events) /\ monitor = "exit"
    /\ Shown("exited") # {} => monitor = "exit" /\ events = <<>> /\ terminationSent
    /\ EndsOnce(out)
    /\ ~terminationSent => Shown("terminated") = {}
    /\ phase = "exited" /\ started => monitor = "exit"
BY DEF Ending, EndsOnce, Shown

LEMMA EndingMonitor ==
  ASSUME SessionInv, MonitorSample \/ MonitorDiagnostics \/ MonitorStops \/ MonitorDecide
  PROVE  Ending'
<1>1. Ending /\ Begun /\ events \in Seq(Event)
  BY SessionFacts DEF SessionInv
<1>2. monitor \notin {"exit", "none"} /\ UNCHANGED <<coordVars, done, engine>>
  BY DEF MonitorSample, MonitorDiagnostics, MonitorStops, MonitorDecide, debugVars, engineVars
<1>3. started /\ phase # "exited" /\ Shown("exited") = {}
      /\ \A i \in DOMAIN events : events[i].kind # "ended"
  BY <1>1, <1>2 DEF Ending, Begun
<1>4. SUFFICES /\ monitor' = "exit" => done
               /\ \A i \in DOMAIN events' :
                    events'[i].kind = "ended" => i = Len(events') /\ monitor' = "exit"
  BY <1>1, <1>2, <1>3, <1>4 DEF Ending, Shown, coordVars
\* Others are put behind what is queued, or the end.
<1>5. ASSUME NEW t \in Seq(Event), events' = events \o t,
             \A i \in DOMAIN t : t[i].kind # "ended"
      PROVE  \A i \in DOMAIN events' : events'[i].kind # "ended"
  <2> DEFINE st == events \o t
  <2>1. /\ Len(events) \in Nat /\ DOMAIN events = 1 .. Len(events)
        /\ Len(t) \in Nat /\ DOMAIN t = 1 .. Len(t)
    BY <1>1, LenProperties
  <2>2. /\ st \in Seq(Event) /\ Len(st) = Len(events) + Len(t)
        /\ \A i \in 1 .. Len(events) + Len(t) :
             st[i] = IF i <= Len(events) THEN events[i] ELSE t[i - Len(events)]
    BY <1>1, ConcatProperties
  <2> HIDE DEF st
  <2>3. DOMAIN st = 1 .. Len(events) + Len(t)
    BY <2>2, LenProperties
  <2>4. ASSUME NEW i \in DOMAIN st PROVE st[i].kind # "ended"
    <3>1. CASE i <= Len(events)
      <4>1. i \in DOMAIN events /\ st[i] = events[i]
        BY <2>1, <2>2, <2>3, <3>1
      <4>2. QED
        BY <1>3, <4>1
    <3>2. CASE ~(i <= Len(events))
      <4>1. i - Len(events) \in DOMAIN t /\ st[i] = t[i - Len(events)]
        BY <2>1, <2>2, <2>3, <3>2
      <4>2. QED
        BY <1>5, <4>1
    <3>3. QED
      BY <3>1, <3>2
  <2>5. QED
    BY <1>5, <2>4 DEF st
<1>6. ASSUME events' = Append(events, Msg("ended", 0))
      PROVE  \A i \in DOMAIN events' : events'[i].kind = "ended" => i = Len(events')
  <2> DEFINE m == Msg("ended", 0)
             new == Append(events, m)
  <2>1. m \in Event
    BY MsgTyped
  <2> HIDE DEF m
  <2>2. /\ Len(events) \in Nat /\ DOMAIN events = 1 .. Len(events)
        /\ DOMAIN new = 1 .. Len(events) + 1 /\ Len(new) = Len(events) + 1
        /\ \A i \in 1 .. Len(events) : new[i] = events[i]
    BY <1>1, <2>1, AppendFacts
  <2> HIDE DEF new
  <2>3. \A i \in DOMAIN new : new[i].kind = "ended" => i = Len(new)
    BY <1>3, <2>2
  <2>4. QED
    BY <1>6, <2>3 DEF new, m
<1>7. ASSUME events' = events PROVE \A i \in DOMAIN events' : events'[i].kind # "ended"
  BY <1>3, <1>7
<1>8. CASE MonitorSample
  BY <1>7, <1>8 DEF MonitorSample
<1>9. CASE MonitorDiagnostics
  <2> DEFINE outputs == [i \in 1 .. diagnostics |-> Msg("output", 0)]
  <2>1. outputs \in Seq(Event) /\ \A i \in DOMAIN outputs : outputs[i].kind # "ended"
    <3>1. outputs \in Seq(Event)
      BY MsgTyped, SessionFacts
    <3>2. \A i \in DOMAIN outputs : outputs[i] = Msg("output", 0)
      OBVIOUS
    <3>3. QED
      BY <3>1, <3>2, MsgFields
  <2>2. \/ events' = events \o outputs /\ monitor' # "exit"
        \/ events' = events /\ monitor' # "exit"
        \/ events' = Append(events, Msg("ended", 0)) /\ monitor' = "exit" /\ done
    BY <1>9 DEF MonitorDiagnostics
  <2> HIDE DEF outputs
  <2>3. QED
    BY <1>5, <1>6, <1>7, <2>1, <2>2
<1>10. CASE MonitorStops
  <2>1. Len(stops) = nextSeq /\ \A i \in 1 .. nextSeq : stops[i].seq = i
    BY DEF SessionInv, Forwarded, Recorded
  <2> DEFINE count == Len(stops) - delivered
             news == [i \in 1 .. count |-> Msg("stopped", stops[delivered + i].seq)]
  <2>2. count \in Nat /\ \A i \in 1 .. count : delivered + i \in 1 .. nextSeq
    BY <2>1, SessionFacts
  <2>3. \A i \in 1 .. count : stops[delivered + i].seq \in 0 .. MaxStops
    BY <2>1, <2>2, SessionFacts
  <2> HIDE DEF count
  <2>4. \A i \in 1 .. count : Msg("stopped", stops[delivered + i].seq) \in Event
    BY <2>3, MsgTyped
  <2>5. news \in Seq(Event)
    BY <2>2, <2>4
  <2>6. \A i \in DOMAIN news : news[i].kind # "ended"
    BY MsgFields
  <2>7. (events' = events \/ events' = events \o news) /\ monitor' # "exit"
    BY <1>10 DEF MonitorStops, count
  <2> HIDE DEF news
  <2>8. QED
    BY <1>5, <1>7, <2>5, <2>6, <2>7
<1>11. CASE MonitorDecide
  BY <1>6, <1>7, <1>11 DEF MonitorDecide
<1>12. QED
  BY <1>8, <1>9, <1>10, <1>11

LEMMA EndingHandled ==
  ASSUME SessionInv, Handled PROVE Ending'
<1>1. Ending /\ HandleEvent /\ phase' # "exited"
      /\ UNCHANGED <<monitor, done, engine>>
      /\ out \in Seq(Message) /\ events \in Seq(Event) /\ terminationSent \in BOOLEAN
  BY SessionFacts DEF SessionInv, Handled, Live, monitorVars, debugVars, engineVars
<1>2. /\ events # <<>> /\ events' = Tail(events) /\ events' \in Seq(Event)
      /\ Head(events) \in Event /\ Head(events) = events[1]
  BY <1>1, HandledFacts
<1>3. /\ Len(events) \in Nat \ {0} /\ DOMAIN events = 1 .. Len(events)
      /\ Len(events') = Len(events) - 1 /\ DOMAIN events' = 1 .. Len(events) - 1
      /\ \A i \in 1 .. Len(events) - 1 : events'[i] = events[i + 1]
  <2>1. Len(events) \in Nat \ {0} /\ DOMAIN events = 1 .. Len(events)
    BY <1>1, <1>2, EmptySeq, LenProperties
  <2>2. Len(events') = Len(events) - 1 /\ \A i \in 1 .. Len(events') : events'[i] = events[i + 1]
    BY <1>1, <1>2, HeadTailProperties
  <2>3. QED
    BY <1>2, <2>1, <2>2, LenProperties
<1>4. \A i \in DOMAIN events' : events'[i].kind = "ended" => i = Len(events') /\ monitor' = "exit"
  <2>1. ASSUME NEW i \in DOMAIN events', events'[i].kind = "ended"
        PROVE  i = Len(events') /\ monitor' = "exit"
    <3>1. i \in Nat /\ i + 1 \in DOMAIN events /\ events[i + 1].kind = "ended"
      BY <1>3, <2>1
    <3>2. i + 1 = Len(events) /\ monitor = "exit"
      BY <1>1, <3>1 DEF Ending
    <3>3. QED
      BY <1>1, <1>3, <3>1, <3>2
  <2>2. QED
    BY <2>1
<1>5. Shown("exited") = {} /\ EndsOnce(out)
  BY <1>1, <1>2, EndingParts DEF Ending
<1>6. CASE Head(events).kind # "ended"
  <2>1. out' = Append(out, Head(events)) /\ terminationSent' = terminationSent
    BY <1>1, <1>6, HandledFacts
  <2>2. Head(events) \in Message /\ Head(events).kind \notin {"exited", "terminated", "ended"}
    BY <1>2, <1>6 DEF Message, Event, Kinds
  <2>3. Shown("exited")' = Shown("exited") /\ Shown("terminated")' = Shown("terminated")
    BY <2>1, <2>2, ShownAppend
  <2>4. EndsOnce(out')
    BY <1>1, <1>5, <2>1, <2>2, AppendEnds DEF Shown
  <2>5. EndsOnce(out)'
    BY <2>4 DEF EndsOnce
  <2>6. QED
    BY <1>1, <1>4, <1>5, <2>1, <2>3, <2>5, EndingParts DEF Ending, EndsOnce, Shown
<1>7. CASE Head(events).kind = "ended"
  <2> DEFINE m == Msg("exited", 0)
             said == Append(out, m)
  <2>1. out' = Terminated(said) /\ terminationSent' = TRUE
    BY <1>1, <1>7, HandledFacts
  <2>2. m \in Message /\ m.kind = "exited"
    BY MsgTyped, MsgFields
  <2> HIDE DEF m
  <2>3. /\ said \in Seq(Message) /\ Len(out) \in Nat /\ DOMAIN out = 1 .. Len(out)
        /\ DOMAIN said = 1 .. Len(out) + 1 /\ said[Len(out) + 1] = m
        /\ \A i \in 1 .. Len(out) : said[i] = out[i]
    BY <1>1, <2>2, AppendFacts
  <2>4. EndsOnce(said)
    BY <1>1, <1>5, <2>2, AppendEnds DEF Shown
  <2> HIDE DEF said
  <2>5. ~terminationSent => \A i \in DOMAIN said : said[i].kind # "terminated"
    BY <1>1, <2>2, <2>3 DEF Ending, Shown
  <2>6. EndsOnce(out')
    BY <2>1, <2>3, <2>4, <2>5, TerminatedEnds
  <2>7. monitor' = "exit" /\ events' = <<>>
    <3>1. 1 \in DOMAIN events /\ events[1].kind = "ended"
      BY <1>2, <1>3, <1>7
    <3>2. 1 = Len(events) /\ monitor = "exit"
      BY <1>1, <3>1 DEF Ending
    <3>3. Len(events') = 0
      <4>1. Len(events) = 1 /\ Len(events') = Len(events) - 1
        BY <1>3, <3>2
      <4>2. QED
        BY <4>1
    <3>4. events' = <<>>
      BY <1>2, <3>3, EmptySeq
    <3>5. QED
      BY <1>1, <3>2, <3>4
  <2>8. QED
    BY <1>1, <1>4, <2>1, <2>6, <2>7 DEF Ending, EndsOnce, Shown
<1>8. QED
  BY <1>6, <1>7

LEMMA EndingNext ==
  ASSUME SessionInv, SessionNext PROVE Ending'
<1>1. /\ Ending /\ Begun /\ EndsOnce(out) /\ out \in Seq(Message)
      /\ started \in BOOLEAN /\ terminationSent \in BOOLEAN
  BY SessionFacts, EndingParts DEF SessionInv
<1>2. CASE Engine
  <2>1. engine # "ended" /\ UNCHANGED sessionVars
    BY <1>2, EngineKeeps DEF SessionInv, GateInv
  <2>2. QED
    BY <1>1, <2>1 DEF Ending, Shown, sessionVars, coordVars, monitorVars
<1>3. CASE ThreadDone
  BY <1>1, <1>3 DEF ThreadDone, Ending, Shown, coordVars, monitorVars
<1>4. CASE Quietly
  <2>1. Quiet
    BY <1>4, QuietlyIsQuiet
  <2>2. UNCHANGED <<out, events, terminationSent, monitor, done, engine, started>>
        /\ (phase' = "exited" => monitor \in {"none", "exit"})
    BY <2>1 DEF Quiet, monitorVars
  <2>3. QED
    BY <1>1, <2>2 DEF Ending, Begun, Shown
<1>5. CASE ConfigurationDone
  <2>1. /\ ~started /\ phase' = "inline" /\ monitor' = "sample"
        /\ UNCHANGED <<out, events, terminationSent, done, engine>>
    BY <1>5 DEF ConfigurationDone, Taken, engineVars
  <2>2. QED
    BY <1>1, <2>1 DEF Ending, Begun, Shown
\* What is said of a run that has not begun, or is over.
<1>6. ASSUME NEW said \in Seq(Message), EndsOnce(said), out' = Terminated(said),
             terminationSent' = TRUE, phase' # "exited",
             ~terminationSent => \A i \in DOMAIN said : said[i].kind # "terminated",
             Shown("exited")' = Shown("exited"),
             UNCHANGED <<events, monitor, done, engine>>
      PROVE  Ending'
  <2>1. EndsOnce(out')
    BY <1>6, TerminatedEnds
  <2>2. QED
    BY <1>1, <1>6, <2>1 DEF Ending, EndsOnce, Shown
<1>7. CASE ConfigurationFails
  <2> DEFINE m == Msg("error", 0)
             said == Append(out, m)
  <2>1. /\ ~started /\ out' = Terminated(said) /\ terminationSent' = TRUE /\ phase' = "drain"
        /\ UNCHANGED <<events, monitor, done, engine, started>>
    BY <1>7 DEF ConfigurationFails, Taken, monitorVars, debugVars, engineVars
  <2>2. m \in Message /\ m.kind = "error"
    BY MsgTyped, MsgFields
  <2> HIDE DEF m
  <2>3. /\ said \in Seq(Message) /\ Len(out) \in Nat /\ DOMAIN out = 1 .. Len(out)
        /\ DOMAIN said = 1 .. Len(out) + 1 /\ said[Len(out) + 1] = m
        /\ \A i \in 1 .. Len(out) : said[i] = out[i]
    BY <1>1, <2>2, AppendFacts
  <2>4. Shown("exited") = {}
    BY <1>1, <2>1 DEF Begun
  <2>5. EndsOnce(said)
    BY <1>1, <2>2, <2>4, AppendEnds DEF Shown
  <2> HIDE DEF said
  <2>6. ~terminationSent => \A i \in DOMAIN said : said[i].kind # "terminated"
    BY <1>1, <2>2, <2>3 DEF Ending, Shown
  <2>7. Shown("exited")' = {}
    BY <1>7, <2>1, BegunNext DEF Begun
  <2>8. QED
    BY <1>6, <2>1, <2>3, <2>4, <2>5, <2>6, <2>7
<1>8. CASE Disconnect
  <2>1. /\ out' = Terminated(out) /\ terminationSent' = TRUE /\ phase' = "cleanup"
        /\ UNCHANGED <<events, monitor, done, engine>>
    BY <1>8 DEF Disconnect, Taken, monitorVars, debugVars, engineVars
  <2>2. ~terminationSent => \A i \in DOMAIN out : out[i].kind # "terminated"
    BY <1>1 DEF Ending, Shown
  <2>3. Shown("exited")' = Shown("exited")
    BY <1>1, <2>1, TerminatedShown DEF Shown
  <2>4. QED
    BY <1>1, <1>6, <2>1, <2>2, <2>3
<1>9. QED
  BY <1>2, <1>3, <1>4, <1>5, <1>7, <1>8, SessionSteps, EndingMonitor, EndingHandled

LEMMA DrainedNext ==
  ASSUME SessionInv, SessionNext PROVE Drained'
<1>1. /\ Drained /\ Begun /\ Ending /\ started \in BOOLEAN /\ done \in BOOLEAN
      /\ sampled \in BOOLEAN /\ poisoned \in BOOLEAN /\ cancelled \in BOOLEAN
  BY SessionFacts DEF SessionInv
<1>2. CASE Engine
  <2>1. engine # "ended" /\ UNCHANGED <<sessionVars, cancelled>> /\ (poisoned => poisoned')
    BY <1>2, EngineKeeps DEF SessionInv, GateInv
  <2>2. ~done
    BY <1>1, <2>1 DEF Ending
  <2>3. UNCHANGED <<phase, done, sampled, monitor, out, cancelled>>
    BY <2>1 DEF sessionVars, coordVars, monitorVars
  <2>4. monitor # "exit" /\ Shown("exited") = {}
    BY <1>1, <2>2 DEF Ending
  <2>5. QED
    BY <1>1, <2>1, <2>2, <2>3, <2>4 DEF Drained, Shown
<1>3. CASE ThreadDone
  <2>1. done' = TRUE /\ UNCHANGED <<phase, sampled, monitor, delivered, out, lastStop,
                                    nextSeq, diagnostics, poisoned>>
    BY <1>3 DEF ThreadDone, coordVars, monitorVars, ctlVars
  <2>2. sampled \in BOOLEAN /\ (monitor = "exit" => done)
    BY <1>1 DEF Ending
  <2>3. phase \in Live /\ ~poisoned =>
          /\ sampled /\ monitor \in {"stops", "decide", "exit"} => diagnostics = 0
          /\ sampled /\ monitor \in {"decide", "exit"} => delivered = nextSeq
    BY <1>1 DEF Drained
  <2>4. QED
    BY <1>1, <2>1, <2>2, <2>3 DEF Drained, Shown
\* The monitor has not left, so nothing was reported of the run's end.
<1>4. ASSUME MonitorSample \/ MonitorDiagnostics \/ MonitorStops \/ MonitorDecide
      PROVE  Shown("exited")' = {} /\ UNCHANGED <<phase, done, nextSeq, poisoned>>
  <2>1. monitor # "exit" /\ UNCHANGED <<coordVars, done, nextSeq, poisoned>>
    BY <1>4 DEF MonitorSample, MonitorDiagnostics, MonitorStops, MonitorDecide, debugVars, ctlVars
  <2>2. Shown("exited") = {}
    BY <1>1, <2>1 DEF Ending
  <2>3. QED
    BY <2>1, <2>2 DEF Shown, coordVars
<1>5. CASE MonitorSample
  <2>1. sampled' = (done \/ cancelled) /\ monitor' = "diagnostics"
        /\ UNCHANGED <<delivered, diagnostics, cancelled>>
    BY <1>5 DEF MonitorSample, Finished, debugVars, engineVars, ctlVars
  <2>2. QED
    BY <1>1, <1>4, <1>5, <2>1 DEF Drained
<1>6. CASE MonitorDiagnostics
  <2>1. CASE poisoned
    <3>1. monitor' = "exit" => poisoned'
      BY <1>4, <1>6, <2>1
    <3>2. QED
      BY <1>4, <1>6, <2>1, <3>1 DEF Drained
  <2>2. CASE ~poisoned
    <3>1. monitor = "diagnostics" /\ diagnostics' = 0 /\ monitor' = "stops"
          /\ UNCHANGED <<cancelled, sampled, delivered>>
      BY <1>6, <2>2 DEF MonitorDiagnostics
    <3>2. QED
      BY <1>1, <1>4, <1>6, <3>1 DEF Drained
  <2>3. QED
    BY <2>1, <2>2
<1>7. CASE MonitorStops
  <2>1. Len(stops) = nextSeq
    BY DEF SessionInv, Forwarded, Recorded
  <2>2. monitor = "stops" /\ monitor' = "decide" /\ (~poisoned => delivered' = nextSeq)
        /\ UNCHANGED <<sampled, cancelled, diagnostics>>
    BY <1>7, <2>1 DEF MonitorStops, debugVars, engineVars, ctlVars
  <2>3. QED
    BY <1>1, <1>4, <1>7, <2>2 DEF Drained
<1>8. CASE MonitorDecide
  <2>1. monitor = "decide" /\ UNCHANGED <<sampled, cancelled, delivered, diagnostics>>
        /\ IF sampled THEN done /\ monitor' = "exit" ELSE monitor' = "sample"
    BY <1>8 DEF MonitorDecide, debugVars, engineVars, ctlVars
  <2>2. QED
    BY <1>1, <1>4, <1>8, <2>1 DEF Drained
<1>9. CASE Quietly
  <2>1. Quiet
    BY <1>9, QuietlyIsQuiet
  <2>2. /\ UNCHANGED <<out, sampled, monitor, delivered, done, diagnostics, poisoned, lastStop, nextSeq>>
        /\ phase' \in Live => phase \in Live /\ cancelled' = cancelled
    BY <2>1 DEF Quiet, monitorVars
  <2>3. QED
    BY <1>1, <2>2 DEF Drained, Shown
<1>10. CASE Handled
  <2>1. phase \in Live
        /\ UNCHANGED <<sampled, monitor, delivered, done, diagnostics, poisoned, nextSeq, cancelled>>
    BY <1>10 DEF Handled, monitorVars, debugVars, engineVars, ctlVars
  <2>2. ASSUME Shown("exited")' # {}, ~poisoned
        PROVE  done /\ diagnostics = 0 /\ lastStop' = nextSeq
    <3>1. monitor = "exit" /\ events' = <<>>
      BY <1>10, <2>1, <2>2, EndingHandled DEF Ending
    <3>2. done /\ diagnostics = 0 /\ delivered = nextSeq
      BY <1>1, <2>1, <2>2, <3>1 DEF Drained
    <3>3. Numbered(events', lastStop', delivered') /\ lastStop' <= delivered'
      BY <1>10, HandledForwards DEF Forwarded
    <3>4. Numbered(<<>>, lastStop', delivered) /\ lastStop' <= delivered
      BY <2>1, <3>1, <3>3
    <3>5. lastStop' \in Nat /\ delivered \in Nat
      <4>1. SessionTypeOK'
        BY SessionTypesKept
      <4>2. QED
        BY <4>1, SessionFacts DEF SessionTypeOK
    <3>6. lastStop' = delivered
      BY <3>4, <3>5, NumberedEmpty
    <3>7. QED
      BY <3>2, <3>6
  <2>3. QED
    BY <1>1, <2>1, <2>2 DEF Drained
<1>11. CASE ConfigurationDone
  <2>1. /\ ~started /\ phase = "command" /\ monitor' = "sample"
        /\ UNCHANGED <<out, cancelled, done, poisoned>>
    BY <1>11 DEF ConfigurationDone, Taken, engineVars
  <2>2. QED
    BY <1>1, <2>1 DEF Drained, Begun, Shown, Live
<1>12. CASE ConfigurationFails
  <2>1. /\ ~started' /\ phase = "command"
        /\ UNCHANGED <<sampled, monitor, delivered, done, diagnostics, poisoned, nextSeq, cancelled>>
    BY <1>12 DEF ConfigurationFails, Taken, monitorVars, debugVars, engineVars, ctlVars
  <2>2. Shown("exited")' = {}
    BY <2>1, BegunNext DEF Begun
  <2>3. QED
    BY <1>1, <2>1, <2>2 DEF Drained, Live
<1>13. CASE Disconnect
  <2>1. /\ out' = Terminated(out) /\ phase' = "cleanup" /\ out \in Seq(Message)
        /\ UNCHANGED <<sampled, monitor, delivered, done, diagnostics, poisoned, nextSeq, lastStop>>
    BY <1>13, SessionFacts DEF Disconnect, Taken, monitorVars, debugVars, ctlVars
  <2>2. Shown("exited")' = Shown("exited")
    BY <2>1, TerminatedShown DEF Shown
  <2>3. QED
    BY <1>1, <2>1, <2>2 DEF Drained, Live
<1>14. QED
  BY <1>2, <1>3, <1>5, <1>6, <1>7, <1>8, <1>9, <1>10, <1>11, <1>12, <1>13, SessionSteps

LEMMA SessionInvInit == ASSUME SessionInit PROVE SessionInv
<1>1. /\ DebugInit /\ pauseRequested = FALSE
      /\ phase = "drain" /\ launched = FALSE /\ pending = <<>> /\ resolved = <<>>
      /\ started = FALSE /\ done = FALSE /\ monitor = "none" /\ sampled = FALSE
      /\ delivered = 0 /\ events = <<>> /\ lastStop = 0 /\ refs = {}
      /\ terminationSent = FALSE /\ out = <<>> /\ commands = 0
  BY DEF SessionInit
<1>2. GateInv
  BY <1>1, GateInvInit
<1>3. SessionTypeOK
  <2>1. /\ events \in Seq([kind : Kinds, stop : 0 .. MaxStops]) /\ out \in Seq(Message)
        /\ pending \in Seq(Breakpoint) /\ resolved \in Seq(Breakpoint)
    BY <1>1, EmptySeq
  <2>2. 0 \in 0 .. MaxStops /\ 0 \in 0 .. MaxCommands
    BY DebugBoundsAssumption, CommandsAssumption
  <2>3. QED
    BY <1>1, <1>2, <2>1, <2>2 DEF SessionTypeOK, GateInv
<1>4. Shown("exited") = {} /\ Shown("terminated") = {}
  BY <1>1 DEF Shown
<1>5. Begun
  BY <1>1, <1>4 DEF Begun, BreakpointsInstalled
<1>6. Forwarded
  <2>1. stops = <<>> /\ nextSeq = 0
    BY <1>1 DEF DebugInit
  <2>2. Recorded
    BY <2>1 DEF Recorded
  <2>3. Numbered(<<>>, 0, 0)
    BY NumberedNone
  <2>4. QED
    BY <1>1, <2>1, <2>2, <2>3 DEF Forwarded, ReferencesAreRecent
<1>7. Ending
  BY <1>1, <1>4 DEF Ending
<1>8. Drained
  <2>1. cancelled = FALSE
    BY <1>1 DEF DebugInit
  <2>2. QED
    BY <1>1, <1>4, <2>1 DEF Drained
<1>9. QED
  BY <1>2, <1>3, <1>5, <1>6, <1>7, <1>8 DEF SessionInv

LEMMA SessionInvNext == ASSUME SessionInv, [SessionNext]_dapVars PROVE SessionInv'
<1>1. CASE SessionNext
  BY <1>1, SessionTypesKept, GateKept, BegunNext, ForwardedNext, EndingNext, DrainedNext
     DEF SessionInv
<1>2. CASE UNCHANGED dapVars
  <2>1. UNCHANGED <<phase, launched, pending, resolved, started, lastStop, refs,
                    terminationSent, out, commands, monitor, sampled, delivered, done, events>>
    BY <1>2 DEF dapVars, sessionVars, coordVars, monitorVars
  <2>2. UNCHANGED debugVars
    BY <1>2 DEF dapVars
  <2>3. UNCHANGED <<engine, cancelled, breakpoints, stops, nextSeq, diagnostics, poisoned>>
    BY <2>2 DEF debugVars, engineVars, ctlVars
  <2>4. GateInv'
    BY <2>2, GateInvNext DEF SessionInv
  <2>5. SessionTypeOK'
    BY <2>1, <2>4 DEF SessionInv, SessionTypeOK, GateInv
  <2>6. Begun' /\ Drained'
    BY <2>1, <2>3 DEF SessionInv, Begun, Drained, BreakpointsInstalled, Shown
  <2>7. Ending'
    BY <2>1, <2>3 DEF SessionInv, Ending, Shown
  <2>8. Forwarded'
    BY <2>1, <2>3 DEF SessionInv, Forwarded, Recorded, ReferencesAreRecent
  <2>9. QED
    BY <2>4, <2>5, <2>6, <2>7, <2>8 DEF SessionInv
<1>3. QED
  BY <1>1, <1>2

LEMMA SessionInvReports == ASSUME SessionInv PROVE SessionReportsRun
<1>1. /\ Begun /\ Forwarded /\ Ending /\ Drained /\ SessionTypeOK
      /\ lastStop \in Nat /\ Len(out) \in Nat /\ DOMAIN out = 1 .. Len(out)
  BY SessionFacts DEF SessionInv
<1>2. ASSUME NEW kind
      PROVE  Shown(kind) \subseteq Nat /\ IsFiniteSet(Shown(kind))
  <2>1. Shown(kind) \subseteq 1 .. Len(out)
    BY <1>1 DEF Shown
  <2>2. IsFiniteSet(1 .. Len(out))
    BY <1>1, FS_Interval
  <2>3. IsFiniteSet(Shown(kind))
    BY <2>1, <2>2, FS_Subset
  <2>4. QED
    BY <2>1, <2>3
<1>3. StopsOf(out) = Shown("stopped")
  BY DEF StopsOf, Shown
<1>4. NothingLost
  <2>1. Cardinality(Shown("stopped")) = lastStop
    BY <1>1, <1>2, <1>3, NumberedCount DEF Forwarded
  <2>2. QED
    BY <1>1, <2>1 DEF Drained, NothingLost
<1>5. StopsInOrder
  BY <1>1, <1>3 DEF Forwarded, Numbered, StopsInOrder
<1>6. EndReportedOnce
  <2>1. Cardinality(Shown("terminated")) <= 1
    <3>1. CASE Shown("terminated") = {}
      BY <3>1, FS_EmptySet
    <3>2. CASE Shown("terminated") # {}
      <4>1. PICK i \in Shown("terminated") : TRUE
        BY <3>2
      <4>2. Shown("terminated") = {i}
        BY <1>1, <4>1 DEF Ending
      <4>3. Cardinality({i}) = 1
        BY FS_Singleton
      <4>4. QED
        BY <4>2, <4>3
    <3>3. QED
      BY <3>1, <3>2
  <2>2. QED
    BY <1>1, <2>1 DEF Ending, EndReportedOnce
<1>7. NothingLeftRunning
  BY <1>1 DEF Ending, NothingLeftRunning
<1>8. QED
  BY <1>1, <1>4, <1>5, <1>6, <1>7 DEF SessionReportsRun, Begun, Forwarded

\* Whatever the client asks and in whatever order the session's threads get on,
\* it sees every stop and diagnostic of the run, in order, and the end once; the
\* run has the breakpoints it last asked for; nothing is left running (the
\* monitor's loop, handle_command, terminate_session, cleanup_runtime).
THEOREM SessionTold == SessionSpec => []SessionReportsRun
<1>1. SessionInit => SessionInv
  BY SessionInvInit
<1>2. SessionInv /\ [SessionNext]_dapVars => SessionInv'
  BY SessionInvNext
<1>3. SessionInv => SessionReportsRun
  BY SessionInvReports
<1>4. QED
  BY <1>1, <1>2, <1>3, PTL DEF SessionSpec
=============================================================================
