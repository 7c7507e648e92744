------------------------------ MODULE SourceIndex ------------------------------
(***************************************************************************)
(* How the debug adapter finds executable places in a document: a receiver *)
(* of YAML parse events keeps the path from the root and records the       *)
(* checkpoints it passes, and a breakpoint requested on a line is moved to *)
(* the checkpoint it means.                                                *)
(*                                                                         *)
(* The document is written here while it is parsed: one workflow, entry by *)
(* entry, in any shape that the constants allow, each entry on a line of   *)
(* its own.  `truth` is what the engine makes of the same document: the    *)
(* places it stops at, and the outputs of the workflow, which it evaluates *)
(* after the last step and never stops at.  A step's id is its number, 0   *)
(* when there is none.                                                     *)
(***************************************************************************)
EXTENDS Naturals, Sequences, SequencesExt, FiniteSets, FiniteSetsExt

CONSTANTS
  Threshold,     (* BREAKPOINT_NEAREST_LINE_THRESHOLD                      *)
  MaxSteps, MaxItems, MaxLines,
  IdsFirst,      (* the id of a workflow or of a step is its first key     *)
  Selectors,     (* outputs may be selector objects                        *)
  Payloads       (* steps may have a payload with keys of any name         *)

ASSUME SourceAssumption ==
  /\ {Threshold, MaxSteps, MaxItems, MaxLines} \subseteq Nat
  /\ {IdsFirst, Selectors, Payloads} \subseteq BOOLEAN

VARIABLES
  open,      (* the nodes of the document that are open, outermost first   *)
  line,      (* lines written                                              *)
  steps,     (* steps begun                                                *)
  truth,     (* line, step and checkpoint of each place; step 0: an output *)
             (* of the workflow                                            *)
  areas,     (* the step and section that each line belongs to             *)
  r          (* the receiver                                               *)

docVars == <<open, line, steps, truth, areas, r>>

Cp(kind, i, j, name) == [kind |-> kind, i |-> i, j |-> j, name |-> name]
StepCp == Cp("step", 0, 0, "")

-----------------------------------------------------------------------------
(***************************************************************************)
(* The receiver: predicates on its path.                                   *)
(***************************************************************************)
MapSegment == [seq |-> FALSE, key |-> "", keyLine |-> 0, value |-> FALSE]
SeqSegment == [MapSegment EXCEPT !.seq = TRUE]

Fresh ==
  [path |-> <<>>, checkpoints |-> <<>>, contexts |-> <<>>, workflow |-> FALSE, step |-> 0,
   start |-> 0, criterion |-> 0, onSuccess |-> 0, onFailure |-> 0, section |-> "none",
   action |-> 0, actionCriterion |-> 0]

Deep(s) == Len(s.path)
IsSeq(s, i) == i \in DOMAIN s.path /\ s.path[i].seq
IsMap(s, i) == i \in DOMAIN s.path /\ ~s.path[i].seq
KeyAt(s, i) == IF IsMap(s, i) THEN s.path[i].key ELSE ""

InSeqOf(s, key) == IsSeq(s, Deep(s)) /\ KeyAt(s, Deep(s) - 1) = key
InItemOf(s, key) ==
  IsMap(s, Deep(s)) /\ IsSeq(s, Deep(s) - 1) /\ KeyAt(s, Deep(s) - 2) = key
InStepsSeq(s) == Deep(s) >= 4 /\ InSeqOf(s, "steps")
InStepMapping(s) == Deep(s) >= 5 /\ InItemOf(s, "steps")
InOutputsMap(s) == IsMap(s, Deep(s)) /\ KeyAt(s, Deep(s) - 1) = "outputs"
WithinStep(s) ==
  /\ Deep(s) >= 5
  /\ \E i \in 1 .. Deep(s) - 2 : KeyAt(s, i) = "steps" /\ IsSeq(s, i + 1) /\ IsMap(s, i + 2)

ActionArea(s) == IF s.section = "none" THEN "step" ELSE s.section

\* current_area: the innermost section on the path.
AreaOf(s) ==
  LET sections == {"successCriteria", "onSuccess", "onFailure", "criteria", "outputs"}
      inner == {i \in DOMAIN s.path : KeyAt(s, i) \in sections} IN
  IF inner = {} THEN "step"
  ELSE IF KeyAt(s, Max(inner)) = "criteria" THEN ActionArea(s) ELSE KeyAt(s, Max(inner))

-----------------------------------------------------------------------------
(***************************************************************************)
(* The receiver: its handlers, as functions of its state.                  *)
(***************************************************************************)
Context(s, at, area, forward) ==
  IF ~s.workflow \/ s.step = 0 THEN s
  ELSE [s EXCEPT !.contexts =
          Append(SelectSeq(@, LAMBDA c : c.line # at),
                 [line |-> at, step |-> s.step, area |-> area, forward |-> forward])]

Push(s, at, cp) ==
  [s EXCEPT !.checkpoints =
     Append(@, [line |-> at, workflow |-> s.workflow, step |-> s.step, at |-> cp])]

ActionCriterionCp(s) ==
  IF s.section = "none" THEN StepCp
  ELSE Cp(s.section \o "Criterion", s.action, s.actionCriterion, "")

BeginItem(s, at) ==
  IF InStepsSeq(s)
  THEN [s EXCEPT !.start = at, !.step = 0, !.criterion = 0, !.onSuccess = 0, !.onFailure = 0,
                 !.section = "none", !.action = 0, !.actionCriterion = 0]
  ELSE s

\* mutant: the criteria of an action are filed under the first one
ItemForgettingAction(s, at, enter) ==
  IF InSeqOf(s, "onSuccess") \/ InSeqOf(s, "onFailure")
  THEN LET section == KeyAt(s, Deep(s) - 1)
           n == IF section = "onSuccess" THEN s.onSuccess ELSE s.onFailure IN
       [Push(s, at, Cp(section, n, 0, "")) EXCEPT
          !.onSuccess = IF section = "onSuccess" THEN @ + 1 ELSE @,
          !.onFailure = IF section = "onFailure" THEN @ + 1 ELSE @,
          !.section = section, !.actionCriterion = 0]
  ELSE IF InSeqOf(s, "successCriteria")
  THEN [Push(s, at, Cp("successCriteria", s.criterion, 0, "")) EXCEPT !.criterion = @ + 1]
  ELSE IF InSeqOf(s, "criteria")
  THEN [Push(s, at, ActionCriterionCp(s)) EXCEPT !.actionCriterion = @ + 1]
  ELSE s

\* What an item of a list is: an action, a criterion, an action's criterion.
Item(s, at, enter) ==
  IF InSeqOf(s, "onSuccess")
  THEN LET t == Push(s, at, Cp("onSuccess", s.onSuccess, 0, "")) IN
       IF enter THEN [t EXCEPT !.onSuccess = @ + 1, !.section = "onSuccess",
                               !.action = s.onSuccess, !.actionCriterion = 0]
       ELSE [t EXCEPT !.onSuccess = @ + 1]
  ELSE IF InSeqOf(s, "onFailure")
  THEN LET t == Push(s, at, Cp("onFailure", s.onFailure, 0, "")) IN
       IF enter THEN [t EXCEPT !.onFailure = @ + 1, !.section = "onFailure",
                               !.action = s.onFailure, !.actionCriterion = 0]
       ELSE [t EXCEPT !.onFailure = @ + 1]
  ELSE IF InSeqOf(s, "successCriteria")
  THEN [Push(s, at, Cp("successCriteria", s.criterion, 0, "")) EXCEPT !.criterion = @ + 1]
  ELSE IF InSeqOf(s, "criteria")
  THEN [Push(s, at, ActionCriterionCp(s)) EXCEPT !.actionCriterion = @ + 1]
  ELSE s

MappingStart(s, at) ==
  LET t == Item(BeginItem(s, at), at, TRUE) IN [t EXCEPT !.path = Append(@, MapSegment)]

Consumed(path) ==
  IF path = <<>> \/ Last(path).seq THEN path ELSE [path EXCEPT ![Len(path)] = MapSegment]

MappingEnd(s) ==
  LET t == IF InStepMapping(s) THEN [s EXCEPT !.step = 0, !.start = 0] ELSE s
      u == IF InItemOf(s, "workflows") THEN [t EXCEPT !.workflow = FALSE] ELSE t IN
  [u EXCEPT !.path = Consumed(Front(@))]

SequenceStart(s, at) ==
  LET key == KeyAt(s, Deep(s))
      ctx == IF key = "" THEN at ELSE s.path[Deep(s)].keyLine
      t == CASE key = "successCriteria" -> [Context(s, ctx, key, TRUE) EXCEPT !.criterion = 0]
             [] key = "onSuccess" -> [Context(s, ctx, key, TRUE) EXCEPT !.onSuccess = 0]
             [] key = "onFailure" -> [Context(s, ctx, key, TRUE) EXCEPT !.onFailure = 0]
             [] key = "criteria" ->
                  [Context(s, ctx, ActionArea(s), TRUE) EXCEPT !.actionCriterion = 0]
             [] OTHER -> s IN
  [t EXCEPT !.path = Append(@, SeqSegment)]

SequenceEnd(s) == [s EXCEPT !.path = Consumed(Front(@))]

ScalarKey(s, key, at) ==
  LET t == [s EXCEPT !.path[Deep(s)] =
              [MapSegment EXCEPT !.key = key, !.keyLine = at, !.value = TRUE]] IN
  IF key = "outputs" /\ WithinStep(t) THEN Context(t, at, "outputs", TRUE) ELSE t

\* The value of an entry; `id` is what it is when the entry is an id.
ScalarValue(s, at, id) ==
  LET top == s.path[Deep(s)]
      t == IF InOutputsMap(s) THEN Push(s, top.keyLine, Cp("output", 0, 0, top.key))
           ELSE IF top.key = "workflowId" /\ InItemOf(s, "workflows")
           THEN [s EXCEPT !.workflow = TRUE]
           ELSE IF top.key = "stepId" /\ InStepMapping(s)
           THEN IF s.start = 0 THEN [s EXCEPT !.step = id]
                ELSE Push([s EXCEPT !.step = id], s.start, StepCp)
           ELSE Context(s, at, AreaOf(s), FALSE) IN
  [t EXCEPT !.path = Consumed(@)]

-----------------------------------------------------------------------------
(***************************************************************************)
(* The document.                                                           *)
(***************************************************************************)
SourceEntries(kind) ==
  CASE kind = "workflow" ->
         {<<"workflowId", "scalar", "">>, <<"steps", "seq", "steps">>,
          <<"outputs", "map", "workflowOutputs">>}
    [] kind = "step" ->
         {<<"stepId", "scalar", "">>, <<"operationId", "scalar", "">>,
          <<"successCriteria", "seq", "criteria">>, <<"onSuccess", "seq", "actions">>,
          <<"onFailure", "seq", "actions">>, <<"outputs", "map", "outputs">>}
         \union (IF Payloads THEN {<<"payload", "map", "payload">>} ELSE {})
    [] kind = "criterion" -> {<<"condition", "scalar", "">>}
    [] kind = "action" -> {<<"type", "scalar", "">>, <<"criteria", "seq", "actionCriteria">>}
    [] kind \in {"outputs", "workflowOutputs"} ->
         {<<"a", "scalar", "">>, <<"b", "scalar", "">>}
         \union (IF Selectors THEN {<<"a", "map", "selector">>} ELSE {})
    [] kind = "payload" -> {<<"steps", "seq", "values">>, <<"outputs", "map", "value">>}
    [] OTHER -> {<<"a", "scalar", "">>}

ItemKind(kind) ==
  CASE kind = "steps" -> "step" [] kind \in {"criteria", "actionCriteria"} -> "criterion"
    [] kind = "actions" -> "action" [] OTHER -> "value"

Node(kind, form, key, n) ==
  [kind |-> kind, form |-> form, key |-> key, at |-> n, used |-> <<>>]

Inner == Last(open)
Wrote(key) == [open EXCEPT ![Len(open)].used = Append(@, key)]

\* The line of the next entry: an item's first entry is on the item's line.
NextLine == IF Inner.used = <<>> /\ Inner.key = "-" THEN line ELSE line + 1

InnerStep == IF \E i \in DOMAIN open : open[i].kind = "step" THEN steps ELSE 0

\* The section an open node belongs to, as the engine knows it.
TrueArea(nodes) ==
  LET in == {i \in DOMAIN nodes :
               nodes[i].key \in {"successCriteria", "onSuccess", "onFailure", "outputs"}} IN
  IF in = {} THEN "step" ELSE nodes[Max(in)].key

MayEnter(key) ==
  /\ ToSet(Inner.used) \cap {key} = {}
  /\ IdsFirst /\ Inner.used = <<>> /\ Inner.kind = "workflow" => key = "workflowId"
  /\ IdsFirst /\ Inner.used = <<>> /\ Inner.kind = "step" => key = "stepId"

Enter(entry) ==
  LET key == entry[1] form == entry[2] kind == entry[3]
      at == NextLine
      keyed == ScalarKey(r, key, at) IN
  /\ open # <<>> /\ Inner.form = "map" /\ MayEnter(key) /\ at <= MaxLines
  /\ line' = at /\ UNCHANGED steps
  /\ open' = IF form = "scalar" THEN Wrote(key) ELSE Append(Wrote(key), Node(kind, form, key, 0))
  /\ r' = CASE form = "scalar" -> ScalarValue(keyed, at, steps)
            [] form = "map"    -> MappingStart(keyed, at + 1)
            [] form = "seq"    -> SequenceStart(keyed, at + 1)
  /\ truth' = IF Inner.kind \in {"outputs", "workflowOutputs"}
              THEN truth \union {[line |-> at, step |-> InnerStep,
                                  at |-> Cp("output", 0, 0, key)]}
              ELSE truth
  /\ areas' = Append(SelectSeq(areas, LAMBDA a : a.line # at),
                     [line |-> at, step |-> InnerStep, area |-> TrueArea(open')])

\* What the engine makes of the n-th item of the open sequence.
ItemTruth(n) ==
  CASE Inner.kind = "steps"    -> {StepCp}
    [] Inner.kind = "criteria" -> {Cp("successCriteria", n, 0, "")}
    [] Inner.kind = "actions"  -> {Cp(Inner.key, n, 0, "")}
    [] Inner.kind = "actionCriteria" ->
         LET action == open[Len(open) - 1] section == open[Len(open) - 2] IN
         {Cp(section.key \o "Criterion", action.at, n, "")}
    [] OTHER -> {}

AddItem(mapping) ==
  LET n == Len(Inner.used) at == line + 1 k == IF Inner.kind = "steps" THEN steps + 1 ELSE steps IN
  /\ open # <<>> /\ Inner.form = "seq" /\ at <= MaxLines
  /\ n < (IF Inner.kind = "steps" THEN MaxSteps ELSE MaxItems)
  /\ ~mapping => Inner.kind = "values"
  /\ line' = at /\ steps' = k
  /\ open' = IF mapping THEN Append(Wrote(""), Node(ItemKind(Inner.kind), "map", "-", n))
             ELSE Wrote("")
  /\ r' = IF mapping THEN MappingStart(r, at) ELSE Item(r, at, FALSE)
  /\ truth' = truth \union {[line |-> at, step |-> k, at |-> cp] : cp \in ItemTruth(n)}
  /\ UNCHANGED areas

Close ==
  /\ open # <<>>
  /\ Inner.form = "map" => Inner.used # <<>>
  /\ Inner.kind = "step" => Contains(Inner.used, "stepId")
  /\ Inner.kind = "workflow" => Contains(Inner.used, "workflowId")
  /\ open' = Front(open)
  /\ r' = IF Inner.form = "map" THEN MappingEnd(r) ELSE SequenceEnd(r)
  /\ UNCHANGED <<line, steps, truth, areas>>

SourceInit ==
  /\ open = <<Node("workflow", "map", "-", 0)>> /\ line = 1 /\ steps = 0
  /\ truth = {} /\ areas = <<>>
  /\ r = MappingStart(SequenceStart(ScalarKey(MappingStart(Fresh, 0), "workflows", 0), 1), 1)

SourceNext ==
  \/ open # <<>> /\ \E entry \in SourceEntries(Inner.kind) : Enter(entry)
  \/ \E mapping \in BOOLEAN : AddItem(mapping)
  \/ Close

-----------------------------------------------------------------------------
(***************************************************************************)
(* Lines to checkpoints, and back.                                         *)
(***************************************************************************)
None == [line |-> 0, workflow |-> FALSE, step |-> 0, at |-> StepCp]
NoContext == [line |-> 0, step |-> 0, area |-> "none", forward |-> FALSE]

Distance(a, b) == IF a > b THEN a - b ELSE b - a

\* is_better_line_tiebreak, of lines that are equally far.
BetterLine(best, candidate, target, forward) ==
  IF (best >= target) # (candidate >= target) THEN (candidate >= target) = forward
  ELSE candidate < best

Closer(best, candidate, target, forward) ==
  \/ best.line = 0
  \/ Distance(candidate.line, target) < Distance(best.line, target)
  \/ /\ Distance(candidate.line, target) = Distance(best.line, target)
     /\ BetterLine(best.line, candidate.line, target, forward)

Nearest(candidates, target, forward, none) ==
  FoldLeft(LAMBDA best, c : IF Closer(best, c, target, forward) THEN c ELSE best, none,
           SortSeq(candidates, LAMBDA a, b : a.line < b.line))

\* resolve_line_context
LineContext(target) ==
  LET exact == SelectSeq(r.contexts, LAMBDA c : c.line = target)
      near == SelectSeq(r.contexts, LAMBDA c : Distance(c.line, target) <= Threshold) IN
  IF exact # <<>> THEN exact[1] ELSE Nearest(near, target, FALSE, NoContext)

\* checkpoint_area
CheckpointArea(cp) ==
  CASE cp.kind \in {"onSuccess", "onSuccessCriterion"} -> "onSuccess"
    [] cp.kind \in {"onFailure", "onFailureCriterion"} -> "onFailure"
    [] cp.kind = "output" -> "outputs"
    [] OTHER -> cp.kind

\* Those of the block the line is in, or else of its step, or else all.
Candidates(context) ==
  LET step == SelectSeq(r.checkpoints, LAMBDA c : c.workflow /\ c.step = context.step)
      area == SelectSeq(step, LAMBDA c : CheckpointArea(c.at) = context.area) IN
  IF context.line = 0 THEN r.checkpoints
  ELSE IF area # <<>> THEN area ELSE IF step # <<>> THEN step ELSE r.checkpoints

\* resolve_breakpoint_checkpoint
Resolve(target) ==
  LET exact == SelectSeq(r.checkpoints, LAMBDA c : c.line = target)
      context == LineContext(target)
      best == Nearest(Candidates(context), target, context.forward, None) IN
  IF exact # <<>> THEN exact[1]
  ELSE IF best.line # 0 /\ Distance(best.line, target) <= Threshold THEN best ELSE None

\* lookup_line_for_checkpoint: a retry is shown at its action, and a place
\* that is not in the document at its step.
Lookup(step, cp) ==
  LET of(at) == SelectSeq(r.checkpoints, LAMBDA c : c.workflow /\ c.step = step /\ c.at = at)
      action == CASE cp.kind = "onSuccessRetry" -> [cp EXCEPT !.kind = "onSuccess"]
                  [] cp.kind = "onFailureRetry" -> [cp EXCEPT !.kind = "onFailure"]
                  [] OTHER -> cp IN
  IF of(cp) # <<>> THEN of(cp)[1].line
  ELSE IF of(action) # <<>> THEN of(action)[1].line
  ELSE IF of(StepCp) # <<>> THEN of(StepCp)[1].line ELSE 0

SourceSpec == SourceInit /\ [][SourceNext]_docVars

(***************************************************************************)
(* Properties                                                              *)
(***************************************************************************)
\* The document and the receiver keep their types, and are at the same place:
\* what the document writes as a key the receiver takes for a key.
SourceTypeOK ==
  /\ line \in 1 .. MaxLines /\ steps \in 0 .. MaxSteps
  /\ r.step \in 0 .. MaxSteps /\ r.workflow \in BOOLEAN
  /\ {r.criterion, r.onSuccess, r.onFailure, r.action, r.actionCriterion} \subseteq 0 .. MaxItems
  /\ open # <<>> => /\ Deep(r) = Len(open) + 2
                    /\ IsMap(r, Deep(r)) <=> Inner.form = "map"
                    /\ ~Last(r.path).value

Complete == open = <<>>

Indexed == {[line |-> c.line, step |-> c.step, at |-> c.at] : c \in ToSet(r.checkpoints)}
Stops == {t \in truth : t.step # 0}

\* The index of a document names the places the engine stops at, each with its
\* step and its line, and beside them every output of the workflow, with no step:
\* a breakpoint put there is confirmed, and nothing ever stops at it.
IndexIsTheEngines ==
  Complete => /\ Indexed = truth
              /\ \A c \in ToSet(r.checkpoints) : c.workflow

\* What is noted of a line is the step and the section that the line is in.
ContextsAreTrue ==
  Complete => \A c \in ToSet(r.contexts) :
    [line |-> c.line, step |-> c.step, area |-> c.area] \in ToSet(areas)

Targets == 1 .. line + Threshold + 1

\* A breakpoint anywhere in a step goes to a place of that step, or to none.
StaysInItsStep ==
  Complete => \A a \in ToSet(areas) :
    a.step # 0 => Resolve(a.line) = None \/ Resolve(a.line).step = a.step

\* A breakpoint goes to the nearest place of the block its line belongs to, and
\* when two are as near to the one its line introduces, or follows.
GoesToNearest ==
  Complete => \A target \in Targets :
    LET context == LineContext(target)
        inBlock == ToSet(Candidates(context))
        within == {c \in inBlock : Distance(c.line, target) <= Threshold}
        least == Min({Distance(c.line, target) : c \in within})
        nearest == {c \in within : Distance(c.line, target) = least}
        wanted == IF \E c \in nearest : (c.line >= target) = context.forward
                  THEN {c \in nearest : (c.line >= target) = context.forward} ELSE nearest IN
    IF within = {} THEN Resolve(target) \in {None} \union {c \in ToSet(r.checkpoints) :
                                                             c.line = target}
    ELSE Resolve(target) \in wanted \union {c \in ToSet(r.checkpoints) : c.line = target}

\* The line the client is shown for a stop is the line where the breakpoint
\* that caused it was placed; one at an output of the workflow causes none.
ShownWherePlaced ==
  Complete => \A target \in Targets :
    LET placed == Resolve(target) IN
    placed.step # 0 => Lookup(placed.step, placed.at) = placed.line

\* A stop of any kind, at a retry too, has a line, which is in its step.
EveryStopHasALine ==
  Complete => \A t \in Stops : \A kind \in {t.at.kind, "onSuccessRetry", "onFailureRetry"} :
    LET shown == Lookup(t.step, [t.at EXCEPT !.kind = kind]) IN
    \E a \in ToSet(areas) : a.line = shown /\ a.step = t.step

\* The index that breakpoints and stops are looked up in: it names the places of the
\* engine and, beside them, the outputs of the workflow and nothing else; every requested
\* line is moved to the nearest place of the block it belongs to, and a stop is shown where
\* its breakpoint was placed (source_index.rs).
BreakpointsLandTrue ==
  /\ SourceTypeOK /\ IndexIsTheEngines /\ ContextsAreTrue
  /\ StaysInItsStep /\ GoesToNearest /\ ShownWherePlaced /\ EveryStopHasALine
=============================================================================
