----------------------------- MODULE DependencyCycles -----------------------------
(***************************************************************************)
(* The search for a cycle among the dependsOn lists of steps or workflows: *)
(* depth first from a range of nodes, with a stack of its own so that a    *)
(* long chain of dependencies cannot exhaust that of the thread.           *)
(***************************************************************************)
EXTENDS Integers, Sequences

CONSTANTS
  Nodes,       (* how many steps or workflows there are                     *)
  Graphs,      (* their dependsOn lists: functions from nodes to sequences  *)
  Elsewhere    (* an entry that names no local node                         *)

ASSUME NodesAssumption == Nodes \in Nat
ASSUME ElsewhereAssumption == Elsewhere \notin 1..Nodes
ASSUME GraphsAssumption == Graphs \subseteq [1..Nodes -> Seq((1..Nodes) \union {Elsewhere})]

VARIABLES
  dependsOn,    (* the graph; it never changes                              *)
  first, last,  (* the nodes to start from: all, or one                     *)
  start,        (* the next of them                                         *)
  states,       (* 0: unvisited                                             *)
  stack,        (* frames: a node and the index of its next entry           *)
  verdict

cyclesVars == <<dependsOn, first, last, start, states, stack, verdict>>

InProgress == 1
Done == 2
Top == stack[Len(stack)]
Frame(node) == [node |-> node, cursor |-> 1]

\* The steps of a workflow are searched from every one, a workflow's own dependencies from
\* the workflow.
CyclesInit ==
  /\ dependsOn \in Graphs
  /\ \/ first = 1 /\ last = Nodes
     \/ first \in 1..Nodes /\ last = first
  /\ start = first
  /\ states = [n \in 1..Nodes |-> 0]
  /\ stack = <<>> /\ verdict = "searching"

Push(node) ==
  /\ states' = [states EXCEPT ![node] = InProgress]
  /\ verdict' = verdict

Begin ==
  /\ verdict = "searching" /\ stack = <<>> /\ start <= last
  /\ start' = start + 1 /\ UNCHANGED <<dependsOn, first, last>>
  /\ \/ /\ states[start] = InProgress /\ verdict' = "cycle" /\ UNCHANGED <<states, stack>>
     \/ /\ states[start] = Done /\ UNCHANGED <<states, stack, verdict>>
     \/ /\ states[start] = 0 /\ Push(start) /\ stack' = <<Frame(start)>>

\* The entries of the node on top are exhausted.
Finish ==
  /\ verdict = "searching" /\ stack # <<>> /\ Top.cursor > Len(dependsOn[Top.node])
  /\ states' = [states EXCEPT ![Top.node] = Done]
  /\ stack' = SubSeq(stack, 1, Len(stack) - 1)
  /\ UNCHANGED <<dependsOn, first, last, start, verdict>>

Advanced == [stack EXCEPT ![Len(stack)].cursor = @ + 1]

\* mutant: what was visited before is not searched, nor taken for a cycle
ExamineVisited ==
  /\ verdict = "searching" /\ stack # <<>> /\ Top.cursor <= Len(dependsOn[Top.node])
  /\ UNCHANGED <<dependsOn, first, last, start>>
  /\ LET target == dependsOn[Top.node][Top.cursor] IN
     \/ /\ target = Elsewhere \/ (target # Elsewhere /\ states[target] # 0)
        /\ stack' = Advanced /\ UNCHANGED <<states, verdict>>
     \/ /\ target # Elsewhere /\ states[target] = 0
        /\ Push(target) /\ stack' = Append(Advanced, Frame(target))

\* The next entry of the node on top: one that is in progress closes a cycle.
Examine ==
  /\ verdict = "searching" /\ stack # <<>> /\ Top.cursor <= Len(dependsOn[Top.node])
  /\ UNCHANGED <<dependsOn, first, last, start>>
  /\ LET target == dependsOn[Top.node][Top.cursor] IN
     \/ /\ target = Elsewhere
        /\ stack' = Advanced /\ UNCHANGED <<states, verdict>>
     \/ /\ target # Elsewhere /\ states[target] = InProgress
        /\ verdict' = "cycle" /\ stack' = Advanced /\ UNCHANGED states
     \/ /\ target # Elsewhere /\ states[target] = Done
        /\ stack' = Advanced /\ UNCHANGED <<states, verdict>>
     \/ /\ target # Elsewhere /\ states[target] = 0
        /\ Push(target) /\ stack' = Append(Advanced, Frame(target))

Conclude ==
  /\ verdict = "searching" /\ stack = <<>> /\ start > last
  /\ verdict' = "none"
  /\ UNCHANGED <<dependsOn, first, last, start, states, stack>>

CyclesNext == Begin \/ Finish \/ Examine \/ Conclude

CyclesSpec == CyclesInit /\ [][CyclesNext]_cyclesVars

(***************************************************************************)
(* Properties                                                              *)
(***************************************************************************)
CyclesTypeOK ==
  /\ dependsOn \in [1..Nodes -> Seq((1..Nodes) \union {Elsewhere})]
  /\ first \in 1..Nodes + 1 /\ last \in 0..Nodes /\ start \in first..last + 1
  /\ states \in [1..Nodes -> {0, InProgress, Done}]
  /\ stack \in Seq([node : 1..Nodes, cursor : Nat \ {0}])
  /\ verdict \in {"searching", "cycle", "none"}

Entries(n) == {dependsOn[n][i] : i \in DOMAIN dependsOn[n]} \ {Elsewhere}

At(state) == {n \in 1..Nodes : states[n] = state}

\* A set of nodes each of which depends on one of the set: it is there exactly if the
\* dependencies have a cycle.
Knot(set) == set # {} /\ \A n \in set : Entries(n) \cap set # {}

\* A cycle that is reported is there, among the nodes in progress: two ways to one
\* dependency are not taken for a cycle.
CycleIsReal == verdict = "cycle" => Knot(At(InProgress))

\* No cycle is missed: not where a node was visited before, nor behind an entry that names
\* nothing here.  All that was to be searched, and all it depends on, can be put in an order.
CycleFound ==
  verdict = "none" =>
    /\ first..last \subseteq At(Done)
    /\ \A n \in At(Done) : Entries(n) \subseteq At(Done)
    /\ \A set \in SUBSET At(Done) : ~Knot(set)

\* A node is entered once and left once: the search is over after as many turns as there
\* are entries.
NeverBack == [][\A n \in 1..Nodes : states'[n] >= states[n]]_cyclesVars

\* The search reports a cycle exactly if there is one, looking at every node once.
CyclesExact == [](CyclesTypeOK /\ CycleIsReal /\ CycleFound) /\ NeverBack
=============================================================================
