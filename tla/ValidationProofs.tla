---------------------------- MODULE ValidationProofs ----------------------------
(***************************************************************************)
(* Proofs about what validation promises.  The search for cycles answers   *)
(* correctly for every graph of every size; and what the validator accepts *)
(* of a criterion or a selector is what the runtime makes of it, whatever  *)
(* versions a document declares.  What the validator accepts of a document *)
(* of any size is what the scheduler and the binding rely on; its          *)
(* parameters reach their requests, each to a place of its own, and its    *)
(* components stand in for their uses, what is wrong being told once.      *)
(***************************************************************************)
EXTENDS DependencyCycles, Criteria, DocumentRules, EffectiveParameters, ComponentResolution, FiniteSetTheorems, WellFoundedInduction, SequenceTheorems, TLAPS

(***************************************************************************)
(* The search for cycles                                                   *)
(***************************************************************************)

Local == (1..Nodes) \union {Elsewhere}
FrameSet == [node : 1..Nodes, cursor : Nat \ {0}]
Entry(i, k) == dependsOn[stack[i].node][k]

\* The stack is a path: the nodes in progress, each reached from the one below through the
\* entry before its cursor.
OnStack == \A n \in 1..Nodes : states[n] = InProgress <=> \E i \in 1..Len(stack) : stack[i].node = n
Distinct == \A i, j \in 1..Len(stack) : stack[i].node = stack[j].node => i = j
Cursors == \A i \in 1..Len(stack) : stack[i].cursor <= Len(dependsOn[stack[i].node]) + 1
Path ==
  \A i \in 1..Len(stack) - 1 : stack[i].cursor > 1 /\ Entry(i, stack[i].cursor - 1) = stack[i + 1].node
\* What lies before a cursor is done, or is what the search went into.
Passed ==
  \A i \in 1..Len(stack) : \A k \in 1..stack[i].cursor - 1 :
    \/ Entry(i, k) = Elsewhere
    \/ Entry(i, k) # Elsewhere /\ states[Entry(i, k)] = Done
    \/ i < Len(stack) /\ Entry(i, k) = stack[i + 1].node
Started == \A n \in first..start - 1 : states[n] # 0

Ordered ==
  /\ \A n \in At(Done) : Entries(n) \subseteq At(Done)
  /\ \A set \in SUBSET At(Done) : ~Knot(set)

PathInv == OnStack /\ Distinct /\ Cursors /\ Path /\ Passed
Searching == verdict = "searching" => PathInv /\ Started

IInv == CyclesTypeOK /\ Ordered /\ Searching /\ CycleIsReal /\ CycleFound

(***************************************************************************)
(* The graph and the stack                                                 *)
(***************************************************************************)
LEMMA EntryType ==
  ASSUME dependsOn \in [1..Nodes -> Seq(Local)], NEW n \in 1..Nodes, NEW k \in 1..Len(dependsOn[n])
  PROVE  dependsOn[n][k] \in Local /\ (dependsOn[n][k] # Elsewhere => dependsOn[n][k] \in 1..Nodes /\ dependsOn[n][k] \in Entries(n))
  BY ElementOfSeq, LenProperties DEF Local, Entries

LEMMA AdvancedFacts ==
  ASSUME stack \in Seq(FrameSet), stack # <<>>
  PROVE  /\ Len(stack) \in Nat \ {0} /\ Top \in FrameSet
         /\ Advanced \in Seq(FrameSet) /\ Len(Advanced) = Len(stack)
         /\ \A i \in 1..Len(stack) : /\ stack[i] \in FrameSet
                                     /\ Advanced[i].node = stack[i].node
                                     /\ Advanced[i].cursor = IF i = Len(stack) THEN stack[i].cursor + 1
                                                             ELSE stack[i].cursor
<1>1. Len(stack) \in Nat \ {0} BY EmptySeq, LenProperties
<1>2. Top \in FrameSet BY <1>1, ElementOfSeq DEF Top
<1>4. [Top EXCEPT !.cursor = @ + 1] \in FrameSet
  <2> DEFINE top == Top
  <2> HIDE DEF top
  <2>1. top \in [node : 1..Nodes, cursor : Nat \ {0}] BY <1>2 DEF FrameSet, top
  <2>3. [top EXCEPT !.cursor = top.cursor + 1] \in [node : 1..Nodes, cursor : Nat \ {0}] BY <2>1
  <2> QED BY <2>3 DEF FrameSet, top
<1>6. Advanced \in Seq(FrameSet) /\ Len(Advanced) = Len(stack)
      /\ \A i \in 1..Len(stack) : Advanced[i] = IF i = Len(stack) THEN [Top EXCEPT !.cursor = @ + 1] ELSE stack[i]
  BY <1>1, <1>4, ExceptSeq DEF Advanced, Top
<1>7. ASSUME NEW i \in 1..Len(stack)
      PROVE  Advanced[i].node = stack[i].node
             /\ Advanced[i].cursor = IF i = Len(stack) THEN stack[i].cursor + 1 ELSE stack[i].cursor
  <2>1. CASE i = Len(stack) BY <2>1, <1>6, <1>2 DEF Top, FrameSet
  <2>2. CASE i # Len(stack) BY <2>2, <1>6
  <2> QED BY <2>1, <2>2
<1> QED BY <1>1, <1>2, ElementOfSeq, <1>6, <1>7

LEMMA PushedFacts ==
  ASSUME stack \in Seq(FrameSet), stack # <<>>, NEW n \in 1..Nodes
  PROVE  LET pushed == Append(Advanced, Frame(n)) IN
         /\ pushed \in Seq(FrameSet) /\ Len(pushed) = Len(stack) + 1
         /\ \A i \in 1..Len(stack) : pushed[i] = Advanced[i]
         /\ pushed[Len(stack) + 1] = Frame(n)
  BY AdvancedFacts, AppendProperties DEF Frame, FrameSet

LEMMA PoppedFacts ==
  ASSUME stack \in Seq(FrameSet), stack # <<>>
  PROVE  LET popped == SubSeq(stack, 1, Len(stack) - 1) IN
         /\ popped \in Seq(FrameSet) /\ Len(popped) = Len(stack) - 1
         /\ \A i \in 1..Len(stack) - 1 : popped[i] = stack[i]
<1>1. Len(stack) \in Nat \ {0} BY EmptySeq, LenProperties
<1> DEFINE m == 1  n == Len(stack) - 1  popped == SubSeq(stack, m, n)
<1>3. m \in Int /\ n \in Int /\ n >= 0 BY <1>1
<1>4. \A i \in m..n : stack[i] \in FrameSet BY <1>1, ElementOfSeq
<1> HIDE DEF m, n
<1>5. /\ popped \in Seq(FrameSet)
      /\ Len(popped) = IF m <= n THEN n - m + 1 ELSE 0
      /\ \A i \in 1..n - m + 1 : popped[i] = stack[m + i - 1]
  BY <1>3, <1>4, SubSeqProperties
<1> USE DEF m, n
<1>6. ASSUME NEW i \in 1..Len(stack) - 1 PROVE popped[i] = stack[i]
  <2> HIDE DEF popped
  <2> QED BY <1>1, <1>5
<1>7. Len(popped) = Len(stack) - 1
  <2> HIDE DEF popped
  <2> HIDE DEF n
  <2>2. Len(popped) = n BY <1>5, <1>3
  <2> QED BY <2>2 DEF n
<1> QED BY <1>5, <1>6, <1>7

(***************************************************************************)
(* Types                                                                   *)
(***************************************************************************)
\* Every variable keeps its type, for every graph of every size.
LEMMA InitTypeOK == CyclesInit => CyclesTypeOK
<1> SUFFICES ASSUME CyclesInit PROVE CyclesTypeOK OBVIOUS
<1> QED BY GraphsAssumption, NodesAssumption, EmptySeq DEF CyclesInit, CyclesTypeOK

LEMMA NextTypeOK == ASSUME CyclesTypeOK, [CyclesNext]_cyclesVars PROVE CyclesTypeOK'
<1> USE NodesAssumption
<1> DEFINE FS == [node : 1..Nodes, cursor : Nat \ {0}]
<1>0. stack \in Seq(FrameSet) /\ dependsOn \in [1..Nodes -> Seq(Local)]
  BY DEF CyclesTypeOK, FrameSet, Local
<1>1. CASE Begin
  <2>1. ASSUME start <= last PROVE start \in 1..Nodes /\ start + 1 \in first..last + 1
    BY <2>1 DEF CyclesTypeOK
  <2>2. <<Frame(start)>> \in Seq(FS) \/ start \notin 1..Nodes
    <3> SUFFICES ASSUME start \in 1..Nodes PROVE <<Frame(start)>> \in Seq(FS) OBVIOUS
    <3> QED BY DEF Frame
  <2> QED BY <1>1, <2>1, <2>2 DEF CyclesTypeOK, Begin, Push
<1>2. CASE Finish BY <1>2, <1>0, PoppedFacts DEF Finish, CyclesTypeOK, FrameSet
<1>3. CASE Examine
  <2>0. stack # <<>> BY <1>3 DEF Examine
  <2>1. Top \in FrameSet /\ Advanced \in Seq(FrameSet) BY <2>0, <1>0, AdvancedFacts
  <2> DEFINE target == dependsOn[Top.node][Top.cursor]
  <2>2. target # Elsewhere => target \in 1..Nodes
    <3>1. Top.node \in 1..Nodes /\ Top.cursor \in 1..Len(dependsOn[Top.node])
      BY <2>1, <1>0, LenProperties, <1>3 DEF Examine, FrameSet
    <3> QED BY <3>1, <1>0, EntryType
  <2> HIDE DEF target
  <2> QED BY <1>3, <2>1, <2>2, <2>0, <1>0, PushedFacts DEF CyclesTypeOK, FrameSet, Examine, Push, target
<1>4. CASE Conclude BY <1>4 DEF Conclude, CyclesTypeOK
<1>5. CASE UNCHANGED cyclesVars BY <1>5 DEF cyclesVars, CyclesTypeOK
<1> QED BY <1>1, <1>2, <1>3, <1>4, <1>5 DEF CyclesNext

\* Every variable keeps its type, for every graph of every size.
THEOREM CyclesTypes == CyclesSpec => []CyclesTypeOK
<1>1. CyclesInit => CyclesTypeOK BY InitTypeOK
<1>2. CyclesTypeOK /\ [CyclesNext]_cyclesVars => CyclesTypeOK' BY NextTypeOK
<1> QED BY <1>1, <1>2, PTL DEF CyclesSpec

(***************************************************************************)
(* The order of what is done                                               *)
(***************************************************************************)
\* A node whose entries are all done can be put behind them.
LEMMA OneMoreDone ==
  ASSUME Ordered, NEW n \in 1..Nodes, n \notin At(Done), Entries(n) \subseteq At(Done),
         NEW set \in SUBSET (At(Done) \union {n}), Knot(set)
  PROVE  FALSE
<1>1. PICK m \in set : TRUE BY DEF Knot
<1>2. CASE set = {n} BY <1>2 DEF Knot
<1>3. CASE set # {n}
  <2> DEFINE rest == set \ {n}
  <2>1. rest \in SUBSET At(Done) /\ rest # {} BY <1>1, <1>3
  <2>2. PICK d \in rest : Entries(d) \cap rest = {} BY <2>1 DEF Ordered, Knot
  <2> QED BY <2>2, <2>1 DEF Knot, Ordered
<1> QED BY <1>2, <1>3

LEMMA SameDone ==
  ASSUME Ordered, dependsOn' = dependsOn, At(Done)' = At(Done)
  PROVE  Ordered'
<1>1. \A n : Entries(n)' = Entries(n) BY DEF Entries
<1> QED BY <1>1 DEF Ordered, Knot

\* What lies before the cursor of a node that is left is all of its entries, and done.
LEMMA LeftDone ==
  ASSUME CyclesTypeOK, PathInv, stack # <<>>, Top.cursor > Len(dependsOn[Top.node])
  PROVE  /\ Top.node \in 1..Nodes /\ Len(stack) \in Nat \ {0} /\ Top.node \notin At(Done)
         /\ Entries(Top.node) \subseteq At(Done)
<1>0. stack \in Seq(FrameSet) /\ dependsOn \in [1..Nodes -> Seq(Local)]
  BY DEF CyclesTypeOK, FrameSet, Local
<1>1. Len(stack) \in Nat \ {0} /\ Top \in FrameSet BY <1>0, AdvancedFacts
<1>2. Top.node \in 1..Nodes /\ Top.cursor \in Nat \ {0} BY <1>1 DEF FrameSet
<1>3. Top = stack[Len(stack)] /\ Len(stack) \in 1..Len(stack) BY <1>1 DEF Top
<1>5. ASSUME NEW e \in Entries(Top.node) PROVE e \in At(Done)
  <2>1. PICK k \in DOMAIN dependsOn[Top.node] : dependsOn[Top.node][k] = e /\ e # Elsewhere
    BY <1>5 DEF Entries
  <2>2. DOMAIN dependsOn[Top.node] = 1..Len(dependsOn[Top.node]) /\ Len(dependsOn[Top.node]) \in Nat
    BY <1>0, <1>2, LenProperties
  <2>5. states[e] = Done BY <2>2, <1>2, <2>1, <1>3, <1>1 DEF PathInv, Passed, Entry
  <2> QED BY <2>5, <2>1, <2>2, <1>0, <1>2, EntryType DEF At
<1> QED BY <1>1, <1>2, <1>5, <1>3 DEF At, InProgress, Done, PathInv, OnStack

(***************************************************************************)
(* The steps                                                               *)
(***************************************************************************)
LEMMA InitIInv == CyclesInit => IInv
<1> SUFFICES ASSUME CyclesInit PROVE IInv OBVIOUS
<1>2. At(Done) = {} BY DEF CyclesInit, At, Done
<1>5. PathInv BY EmptySeq DEF CyclesInit, PathInv, OnStack, Distinct, Cursors, Path, Passed, InProgress
<1> QED
  BY InitTypeOK, <1>2, <1>5, NodesAssumption DEF CyclesInit, IInv, Searching, CycleIsReal, CycleFound, Ordered,
     Knot, Started

LEMMA BeginIInv == ASSUME IInv, CyclesTypeOK', Begin PROVE IInv'
<1> USE NodesAssumption
<1>0. PathInv /\ Started /\ Len(stack) = 0 BY EmptySeq DEF IInv, Searching, Begin
<1>1. start \in 1..Nodes BY DEF IInv, CyclesTypeOK, Begin
<1>2. states \in [1..Nodes -> {0, InProgress, Done}] BY DEF IInv, CyclesTypeOK
<1>3. states[start] # InProgress BY <1>0, <1>1 DEF PathInv, OnStack
<1>5. Ordered' BY <1>1, <1>2, <1>3, SameDone DEF IInv, Begin, Push, At, Done, InProgress
<1>6. verdict' = "searching" BY <1>3 DEF Begin, Push
<1>7. Started'
  <2>1. start' = start + 1 /\ first' = first /\ first \in Nat BY DEF Begin, IInv, CyclesTypeOK
  <2>2. SUFFICES ASSUME NEW n \in first..start PROVE states'[n] # 0
    BY <1>1, <2>1 DEF Started
  <2>5. \/ states' = states /\ states[start] # 0
        \/ states' = [states EXCEPT ![start] = 1]
    BY DEF Begin, Push, Done, InProgress
  <2> QED BY <1>1, <1>2, <1>0, <2>1, <2>5 DEF IInv, CyclesTypeOK, Started
<1>8. CASE states[start] = Done
  <2>1. states' = states /\ stack' = stack /\ dependsOn' = dependsOn
    BY <1>8 DEF Begin, Push, Done, InProgress
  <2>2. PathInv' BY <1>0, <2>1 DEF PathInv, OnStack, Distinct, Cursors, Path, Passed, Entry
  <2> QED BY <2>2, <1>5, <1>6, <1>7 DEF IInv, Searching, CycleIsReal, CycleFound
<1>9. CASE states[start] = 0
  <2>1. stack' = <<Frame(start)>> /\ states' = [states EXCEPT ![start] = InProgress] /\ dependsOn' = dependsOn
    BY <1>9 DEF Begin, Push, Done, InProgress
  <2>2. Len(stack') = 1 /\ stack'[1].node = start /\ stack'[1].cursor = 1 BY <2>1 DEF Frame
  <2>3. OnStack' BY <2>1, <2>2, <1>0, <1>1, <1>2 DEF OnStack, PathInv
  <2>6. Cursors' BY <2>1, <2>2, <1>1, LenProperties DEF Cursors, IInv, CyclesTypeOK
  <2> QED
    BY <2>3, <2>2, <2>6, <1>5, <1>6, <1>7 DEF IInv, Searching, PathInv, CycleIsReal, CycleFound, Distinct, Path,
       Passed
<1> QED BY <1>1, <1>2, <1>3, <1>8, <1>9

LEMMA FinishIInv == ASSUME IInv, CyclesTypeOK', Finish PROVE IInv'
<1> DEFINE node == Top.node  len == Len(stack)
<1>0. PathInv /\ Started /\ CyclesTypeOK /\ stack # <<>> BY DEF IInv, Searching, Finish
<1>1. /\ node \in 1..Nodes /\ len \in Nat \ {0} /\ node \notin At(Done)
      /\ Entries(node) \subseteq At(Done) /\ node = stack[len].node
  BY <1>0, LeftDone DEF Finish, Top
<1>2. /\ stack \in Seq(FrameSet) /\ states \in [1..Nodes -> {0, InProgress, Done}]
  BY <1>0 DEF CyclesTypeOK, FrameSet
<1>3. /\ Len(stack') = len - 1 /\ \A i \in 1..len - 1 : stack'[i] = stack[i]
  BY <1>0, <1>2, PoppedFacts DEF Finish
<1>4. states' = [states EXCEPT ![node] = Done] /\ dependsOn' = dependsOn /\ verdict' = "searching"
      /\ start' = start /\ first' = first
  BY DEF Finish
<1> HIDE DEF node, len
<1>6. \A n : Entries(n)' = Entries(n) BY <1>4 DEF Entries
<1>8. Ordered'
  <2>2. ASSUME NEW set \in SUBSET (At(Done) \union {node}) PROVE ~Knot(set)
    BY <1>1, OneMoreDone DEF IInv
  <2> QED BY <1>1, <1>2, <1>4, <1>6, <2>2 DEF Ordered, Knot, IInv, At
<1>9. OnStack'
  <2>1. ASSUME NEW n \in 1..Nodes
        PROVE states'[n] = InProgress <=> \E i \in 1..len - 1 : stack'[i].node = n
    <3>1. states'[n] = InProgress <=> n # node /\ states[n] = InProgress
      BY <1>1, <1>2, <1>4 DEF InProgress, Done
    <3>3. ASSUME n # node, NEW i \in 1..len, stack[i].node = n PROVE i \in 1..len - 1
      BY <3>3, <1>1
    <3>4. ASSUME NEW i \in 1..len - 1, stack[i].node = n PROVE n # node
      BY <1>1, <3>4, <1>0 DEF PathInv, Distinct, len
    <3> QED BY <3>1, <1>0, <3>3, <3>4, <1>3, <1>1 DEF PathInv, OnStack, len
  <2> QED BY <2>1, <1>3 DEF OnStack
<1>10. Distinct' BY <1>0, <1>1, <1>3 DEF PathInv, Distinct, len
<1>11. Cursors'
  <2>2. SUFFICES ASSUME NEW i \in 1..len - 1 PROVE stack'[i].cursor <= Len(dependsOn[stack'[i].node]) + 1
    BY <1>3, <1>4 DEF Cursors
  <2> QED BY <1>0, <1>1, <1>3 DEF PathInv, Cursors, len
<1>12. Path'
  <2>2. SUFFICES ASSUME NEW i \in 1..len - 2
                 PROVE  /\ stack'[i].cursor > 1
                        /\ dependsOn[stack'[i].node][stack'[i].cursor - 1] = stack'[i + 1].node
    BY <1>1, <1>3, <1>4 DEF Path, Entry
  <2> QED BY <1>0, <1>1, <1>3 DEF PathInv, Path, len, Entry
<1>13. Passed'
  <2> SUFFICES ASSUME NEW i \in 1..len - 1, NEW k \in 1..stack[i].cursor - 1
               PROVE  \/ Entry(i, k) = Elsewhere
                      \/ Entry(i, k) # Elsewhere /\ states'[Entry(i, k)] = Done
                      \/ i < len - 1 /\ Entry(i, k) = stack'[i + 1].node
    BY <1>3, <1>4 DEF Passed, Entry
  <2>2. \/ Entry(i, k) = Elsewhere
        \/ Entry(i, k) # Elsewhere /\ states[Entry(i, k)] = Done
        \/ i < len /\ Entry(i, k) = stack[i + 1].node BY <1>1, <1>0 DEF PathInv, Passed, len
  <2>3. states[Entry(i, k)] = Done => states'[Entry(i, k)] = Done BY <1>1, <1>2, <1>4
  <2>4. CASE i < len - 1 BY <2>2, <2>3, <2>4, <1>1, <1>3
  <2>5. CASE i = len - 1
    <3>2. node # Elsewhere /\ states'[node] = Done BY <1>1, <1>2, <1>4, ElsewhereAssumption
    <3> QED BY <2>2, <2>3, <2>5, <1>1, <3>2
  <2> QED BY <2>4, <2>5, <1>1
<1>14. Started'
  <2>1. SUFFICES ASSUME NEW n \in first..start - 1 PROVE states'[n] # 0 BY <1>4 DEF Started
  <2> QED BY <1>0, NodesAssumption, <1>1, <1>2, <1>4 DEF Done, Started, CyclesTypeOK
<1> QED BY <1>4, <1>8, <1>9, <1>10, <1>11, <1>12, <1>13, <1>14
        DEF IInv, Searching, PathInv, CycleIsReal, CycleFound

\* The entry under the cursor.
LEMMA CursorFacts ==
  ASSUME IInv, Examine
  PROVE  LET target == dependsOn[Top.node][Top.cursor] len == Len(stack) IN
         /\ PathInv /\ Started /\ stack # <<>> /\ stack \in Seq(FrameSet)
         /\ states \in [1..Nodes -> {0, InProgress, Done}] /\ len \in Nat \ {0}
         /\ Top = stack[len] /\ Top \in FrameSet /\ Len(dependsOn[Top.node]) \in Nat
         /\ target # Elsewhere => target \in 1..Nodes /\ target \in Entries(Top.node)
<1>0. PathInv /\ Started /\ CyclesTypeOK /\ stack # <<>> BY DEF IInv, Searching, Examine
<1>1. stack \in Seq(FrameSet) /\ dependsOn \in [1..Nodes -> Seq(Local)]
      /\ states \in [1..Nodes -> {0, InProgress, Done}]
  BY <1>0 DEF CyclesTypeOK, FrameSet, Local
<1>2. Len(stack) \in Nat \ {0} /\ Top \in FrameSet BY <1>0, <1>1, AdvancedFacts
<1>3. Top.node \in 1..Nodes /\ Top.cursor \in Nat \ {0} BY <1>2 DEF FrameSet
<1>4. Len(dependsOn[Top.node]) \in Nat BY <1>3, <1>1, LenProperties
<1>6. dependsOn[Top.node][Top.cursor] # Elsewhere =>
        /\ dependsOn[Top.node][Top.cursor] \in 1..Nodes
        /\ dependsOn[Top.node][Top.cursor] \in Entries(Top.node) BY <1>1, <1>3, <1>4, EntryType DEF Examine
<1> QED BY <1>0, <1>1, <1>2, <1>4, <1>6 DEF Top

LEMMA SkipIInv ==
  ASSUME IInv, CyclesTypeOK', Examine, stack' = Advanced, UNCHANGED <<states, verdict>>,
         \/ dependsOn[Top.node][Top.cursor] = Elsewhere
         \/ /\ dependsOn[Top.node][Top.cursor] # Elsewhere
            /\ states[dependsOn[Top.node][Top.cursor]] = Done
  PROVE  IInv'
<1> DEFINE len == Len(stack)
<1>0. /\ PathInv /\ Started /\ len \in Nat \ {0} /\ Top = stack[len] /\ Top \in FrameSet
      /\ Len(dependsOn[Top.node]) \in Nat
  BY CursorFacts
<1>1. /\ Len(stack') = len
      /\ \A i \in 1..len : /\ stack[i] \in FrameSet /\ stack'[i].node = stack[i].node
                           /\ stack'[i].cursor = IF i = len THEN stack[i].cursor + 1 ELSE stack[i].cursor
  BY AdvancedFacts, CursorFacts
<1>2. /\ dependsOn' = dependsOn /\ states' = states /\ verdict' = "searching" /\ verdict = "searching"
      /\ first' = first /\ start' = start /\ stack[len].cursor <= Len(dependsOn[stack[len].node])
  BY <1>0 DEF Examine
<1> HIDE DEF len
<1>3. OnStack'
  <2>1. SUFFICES ASSUME NEW n \in 1..Nodes
                 PROVE  states[n] = InProgress <=> \E i \in 1..len : stack'[i].node = n
    BY <1>1, <1>2 DEF OnStack, InProgress
  <2>2. states[n] = InProgress <=> \E i \in 1..len : stack[i].node = n BY <1>0 DEF PathInv, OnStack, len
  <2> QED BY <2>2, <1>1
<1>4. Distinct' BY <1>0, <1>1 DEF PathInv, Distinct, len
<1>5. Cursors'
  <2> SUFFICES ASSUME NEW i \in 1..len PROVE stack'[i].cursor <= Len(dependsOn[stack[i].node]) + 1
    BY <1>1, <1>2 DEF Cursors
  <2>1. CASE i = len BY <2>1, <1>0, <1>1, <1>2 DEF FrameSet
  <2>2. CASE i # len BY <2>2, <1>0, <1>1 DEF PathInv, Cursors, len
  <2> QED BY <2>1, <2>2
<1>6. Path'
  <2> SUFFICES ASSUME NEW i \in 1..len - 1
               PROVE stack'[i].cursor > 1 /\ dependsOn[stack'[i].node][stack'[i].cursor - 1] = stack'[i + 1].node
    BY <1>1, <1>2 DEF Path, Entry
  <2>2. stack[i].cursor > 1 /\ dependsOn[stack[i].node][stack[i].cursor - 1] = stack[i + 1].node
    BY <1>0 DEF PathInv, Path, Entry, len
  <2> QED BY <1>0, <2>2, <1>1
<1>7. Passed'
  <2> SUFFICES ASSUME NEW i \in 1..len, NEW k \in 1..stack'[i].cursor - 1
               PROVE  \/ Entry(i, k) = Elsewhere
                      \/ Entry(i, k) # Elsewhere /\ states[Entry(i, k)] = Done
                      \/ i < len /\ Entry(i, k) = stack'[i + 1].node
    BY <1>1, <1>2 DEF Passed, Entry
  <2>1. CASE k \in 1..stack[i].cursor - 1 BY <2>1, <1>0, <1>1 DEF PathInv, Passed, len
  <2>2. CASE k \notin 1..stack[i].cursor - 1
    <3>2. i = len /\ k = stack[len].cursor BY <2>2, <1>1 DEF FrameSet
    <3> QED BY <3>2, <1>0 DEF Entry
  <2> QED BY <2>1, <2>2
<1>8. Started' BY <1>0, <1>2 DEF Started
<1>9. Ordered' BY <1>2, SameDone DEF IInv, At
<1> QED BY <1>2, <1>3, <1>4, <1>5, <1>6, <1>7, <1>8, <1>9 DEF IInv, Searching, PathInv, CycleIsReal, CycleFound

LEMMA CycleIInv ==
  ASSUME IInv, CyclesTypeOK', Examine, UNCHANGED states, verdict' = "cycle",
         dependsOn[Top.node][Top.cursor] # Elsewhere,
         states[dependsOn[Top.node][Top.cursor]] = InProgress
  PROVE  IInv'
<1> DEFINE target == dependsOn[Top.node][Top.cursor]
<1>0. /\ PathInv /\ Len(stack) \in Nat \ {0} /\ Top = stack[Len(stack)] /\ stack \in Seq(FrameSet)
      /\ target \in 1..Nodes /\ target \in Entries(Top.node) /\ states[target] = InProgress
  BY CursorFacts
<1> HIDE DEF target
<1>1. target \in At(InProgress) BY <1>0 DEF At
<1>2. ASSUME NEW n \in At(InProgress) PROVE Entries(n) \cap At(InProgress) # {}
  <2>1. PICK i \in 1..Len(stack) : stack[i].node = n BY <1>0 DEF At, PathInv, OnStack
  <2>2. CASE i = Len(stack) BY <2>1, <2>2, <1>0, <1>1
  <2>3. CASE i # Len(stack)
    <3> DEFINE up == stack[i + 1].node
    <3>1. i \in 1..Len(stack) - 1 /\ i + 1 \in 1..Len(stack) BY <2>3, <1>0
    <3>2. stack[i].cursor > 1 /\ dependsOn[n][stack[i].cursor - 1] = up
      BY <3>1, <2>1, <1>0 DEF PathInv, Path, Entry
    <3>3. stack[i] \in FrameSet /\ stack[i + 1] \in FrameSet BY <3>1, <1>0, ElementOfSeq
    <3>4. up \in 1..Nodes /\ up # Elsewhere /\ stack[i].cursor \in Nat
      BY <3>3, ElsewhereAssumption DEF FrameSet
    <3>6. DOMAIN dependsOn[n] = 1..Len(dependsOn[n]) /\ Len(dependsOn[n]) \in Nat
      BY LenProperties DEF IInv, CyclesTypeOK, At
    <3>8. stack[i].cursor - 1 \in DOMAIN dependsOn[n] BY <3>2, <3>4, <3>6, <2>1, <1>0 DEF PathInv, Cursors
    <3>11. up \in At(InProgress) BY <3>4, <3>1, <1>0 DEF At, PathInv, OnStack
    <3> QED BY <3>2, <3>4, <3>8, <3>11 DEF Entries
  <2> QED BY <2>2, <2>3
<1> QED BY <1>1, <1>2, SameDone DEF IInv, Searching, CycleFound, At, CycleIsReal, Knot, Entries, Examine

LEMMA PushIInv ==
  ASSUME IInv, CyclesTypeOK', Examine, NEW target, target = dependsOn[Top.node][Top.cursor],
         target # Elsewhere, states[target] = 0, Push(target),
         stack' = Append(Advanced, Frame(target))
  PROVE  IInv'
<1> DEFINE len == Len(stack)
<1>0. /\ PathInv /\ Started /\ len \in Nat \ {0} /\ Top = stack[len] /\ Top \in FrameSet
      /\ Len(dependsOn[Top.node]) \in Nat /\ target \in 1..Nodes
      /\ states \in [1..Nodes -> {0, InProgress, Done}]
  BY CursorFacts
<1>1. /\ Len(stack') = len + 1 /\ stack'[len + 1].node = target /\ stack'[len + 1].cursor = 1
      /\ \A i \in 1..len : /\ stack[i] \in FrameSet /\ stack'[i].node = stack[i].node
                           /\ stack'[i].cursor = IF i = len THEN stack[i].cursor + 1 ELSE stack[i].cursor
  <2>1. /\ Len(stack') = len + 1 /\ stack'[len + 1] = Frame(target)
        /\ \A i \in 1..len : stack'[i] = Advanced[i]
    BY <1>0, PushedFacts, CursorFacts, ZenonT(40)
  <2>2. \A i \in 1..len : /\ stack[i] \in FrameSet /\ Advanced[i].node = stack[i].node
                          /\ Advanced[i].cursor = IF i = len THEN stack[i].cursor + 1 ELSE stack[i].cursor
    BY AdvancedFacts, CursorFacts
  <2>4. stack'[len + 1].node = target /\ stack'[len + 1].cursor = 1 BY <2>1 DEF Frame
  <2> HIDE DEF len
  <2>5. ASSUME NEW i \in 1..len
        PROVE  /\ stack[i] \in FrameSet /\ stack'[i].node = stack[i].node
               /\ stack'[i].cursor = IF i = len THEN stack[i].cursor + 1 ELSE stack[i].cursor
    <3>1. stack'[i] = Advanced[i] BY <2>1
    <3> QED BY <2>2, <3>1
  <2> QED BY <2>1, <2>4, <2>5
<1>2. /\ dependsOn' = dependsOn /\ states' = [states EXCEPT ![target] = InProgress]
      /\ verdict' = "searching" /\ verdict = "searching" /\ first' = first /\ start' = start
      /\ stack[len].cursor <= Len(dependsOn[stack[len].node])
  BY <1>0 DEF Examine, Push
<1>p. /\ \A i, j \in 1..len : stack[i].node = stack[j].node => i = j
      /\ \A i \in 1..len : stack[i].cursor <= Len(dependsOn[stack[i].node]) + 1
      /\ \A i \in 1..len - 1 : /\ stack[i].cursor > 1
                               /\ dependsOn[stack[i].node][stack[i].cursor - 1] = stack[i + 1].node
  BY <1>0 DEF PathInv, Distinct, Cursors, Path, Entry
<1>a. /\ \A i \in 1..len : stack[i].node \in 1..Nodes /\ stack[i].cursor \in Nat \ {0}
      /\ \A i \in 1..len : states[stack[i].node] = InProgress
  <2>1. ASSUME NEW i \in 1..len PROVE stack[i].node \in 1..Nodes /\ stack[i].cursor \in Nat \ {0}
    BY <1>1 DEF FrameSet
  <2> QED BY <2>1, <1>0 DEF PathInv, OnStack, len
<1> HIDE DEF len
<1>b. len \in Nat \ {0} /\ len \in 1..len /\ len + 1 \in 1..len + 1 BY <1>0
<1>c. ASSUME NEW i \in 1..len
      PROVE  /\ i \in 1..len + 1 /\ i < len + 1 /\ stack'[i].node = stack[i].node
             /\ i = len => stack'[i].cursor = stack[i].cursor + 1
             /\ i # len => stack'[i].cursor = stack[i].cursor BY <1>b, <1>1
<1>d. stack'[len + 1].node = target /\ stack'[len + 1].cursor = 1 BY <1>1
<1>3. \A i \in 1..len : stack[i].node # target BY <1>a DEF InProgress
<1>4. OnStack'
  <2>1. ASSUME NEW n \in 1..Nodes
        PROVE states'[n] = InProgress <=> \E i \in 1..len + 1 : stack'[i].node = n
    <3>1. states[n] = InProgress <=> \E i \in 1..len : stack[i].node = n BY <1>0 DEF PathInv, OnStack, len
    <3>2. states'[n] = InProgress <=> n = target \/ states[n] = InProgress BY <1>0, <1>2
    <3>3. ASSUME NEW i \in 1..len + 1, stack'[i].node = n PROVE n = target \/ \E j \in 1..len : stack[j].node = n
      <4>1. CASE i = len + 1 BY <4>1, <3>3, <1>1
      <4>2. CASE i # len + 1
        <5>1. i \in 1..len BY <4>2, <1>0
        <5> QED BY <5>1, <3>3, <1>1
      <4> QED BY <4>1, <4>2
    <3>4. ASSUME NEW i \in 1..len, stack[i].node = n PROVE i \in 1..len + 1 /\ stack'[i].node = n
      BY <3>4, <1>c
    <3>5. len + 1 \in 1..len + 1 BY <1>0
    <3> QED BY <3>1, <3>2, <3>3, <3>4, <3>5, <1>1
  <2> QED BY <2>1, <1>1 DEF OnStack
<1>5. Distinct'
  <2>1. \A i \in 1..len + 1 : i \in 1..len \/ i = len + 1
    <3>1. len \in Nat BY <1>b
    <3> QED BY ONLY <3>1
  <2>2. ASSUME NEW i \in 1..len, NEW j \in 1..len, stack'[i].node = stack'[j].node PROVE i = j
    <3>2. stack[i].node = stack[j].node BY <2>2, <1>1
    <3> QED BY <3>2, <1>p
  <2>3. ASSUME NEW i \in 1..len PROVE stack'[i].node # target /\ stack'[len + 1].node = target
    BY <1>3, <1>c, <1>d
  <2>4. ASSUME NEW i \in 1..len + 1, NEW j \in 1..len + 1, stack'[i].node = stack'[j].node PROVE i = j
    <3>1. CASE i \in 1..len /\ j \in 1..len BY <3>1, <2>2, <2>4
    <3>2. CASE i \in 1..len /\ j = len + 1 BY <3>2, <2>3, <2>4, Zenon
    <3>3. CASE i = len + 1 /\ j \in 1..len BY <3>3, <2>3, <2>4, Zenon
    <3>4. CASE i = len + 1 /\ j = len + 1 BY <3>4
    <3> QED BY <2>1, <3>1, <3>2, <3>3, <3>4
  <2> QED BY <2>4, <1>1 DEF Distinct
<1>6. Cursors'
  <2> SUFFICES ASSUME NEW i \in 1..len + 1 PROVE stack'[i].cursor <= Len(dependsOn[stack'[i].node]) + 1
    BY <1>1, <1>2 DEF Cursors
  <2>1. CASE i = len + 1
    <3>1. Len(dependsOn[target]) \in Nat BY <1>0, LenProperties DEF IInv, CyclesTypeOK
    <3> QED BY <2>1, <3>1, <1>1
  <2>2. CASE i = len
    <3>1. stack[len].cursor \in Nat /\ Len(dependsOn[stack[len].node]) \in Nat /\ len \in 1..len
      BY <1>0 DEF FrameSet
    <3> QED BY <2>2, <3>1, <1>1, <1>2
  <2>3. CASE i \in 1..len /\ i # len BY <2>3, <1>1, <1>p
  <2>4. i \in 1..len \/ i = len + 1 BY <1>0
  <2> QED BY <2>1, <2>2, <2>3, <2>4
<1>7. Path'
  <2> SUFFICES ASSUME NEW i \in 1..len
               PROVE stack'[i].cursor > 1 /\ dependsOn[stack'[i].node][stack'[i].cursor - 1] = stack'[i + 1].node
    <3>1. len \in Nat /\ Len(stack') = len + 1 /\ dependsOn' = dependsOn BY <1>0, <1>1, <1>2
    <3>2. Len(stack') - 1 = len
      <4> HIDE DEF len
      <4> QED BY ONLY <3>1
    <3> QED BY <3>1, <3>2 DEF Path, Entry
  <2>1. CASE i = len
    <3>1. stack[len].cursor \in Nat \ {0} BY <1>0 DEF FrameSet
    <3>2. stack'[len].cursor = stack[len].cursor + 1 /\ stack'[len].node = stack[len].node BY <1>b, <1>c
    <3>3. stack'[len].cursor - 1 = stack[len].cursor BY <3>1, <3>2
    <3>4. stack'[len].cursor > 1 BY <3>1, <3>2
    <3> QED BY <2>1, <3>2, <3>3, <3>4, <1>0, <1>1
  <2>2. CASE i # len
    <3>1. i \in 1..len - 1 /\ i + 1 \in 1..len BY <2>2, <1>0
    <3>3. stack'[i].cursor = stack[i].cursor /\ stack'[i].node = stack[i].node /\ stack'[i + 1].node = stack[i + 1].node
      BY <2>2, <3>1, <1>1
    <3> QED BY <3>1, <1>p, <3>3
  <2> QED BY <2>1, <2>2
<1>8. Passed'
  <2> SUFFICES ASSUME NEW i \in 1..len + 1, NEW k \in 1..stack'[i].cursor - 1
               PROVE  \/ dependsOn[stack'[i].node][k] = Elsewhere
                      \/ /\ dependsOn[stack'[i].node][k] # Elsewhere
                         /\ states'[dependsOn[stack'[i].node][k]] = Done
                      \/ i < len + 1 /\ dependsOn[stack'[i].node][k] = stack'[i + 1].node
    <3>1. dependsOn' = dependsOn /\ Len(stack') = len + 1 BY <1>1, <1>2
    <3> SUFFICES ASSUME NEW i \in 1..Len(stack'), NEW k \in 1..stack'[i].cursor - 1
                 PROVE  \/ Entry(i, k)' = Elsewhere
                        \/ Entry(i, k)' # Elsewhere /\ states'[Entry(i, k)'] = Done
                        \/ i < Len(stack') /\ Entry(i, k)' = stack'[i + 1].node
      BY DEF Passed
    <3> QED BY <3>1 DEF Entry
  <2>0. i \in 1..len + 1 BY <1>1
  <2>1. i \in 1..len
    <3>1. i # len + 1 BY <1>1
    <3> QED BY <2>0, <3>1, <1>0, SMTT(20)
  <2> DEFINE e == dependsOn[stack[i].node][k]
  <2>2. stack'[i].node = stack[i].node /\ stack[i].cursor \in Nat \ {0} BY <2>1, <1>1 DEF FrameSet
  <2>e. ASSUME k \in 1..stack[i].cursor - 1 PROVE e \in Local
    <3>1. stack[i].node \in 1..Nodes /\ dependsOn \in [1..Nodes -> Seq(Local)]
      BY <2>1, <1>a DEF IInv, CyclesTypeOK, Local
    <3>3. k \in 1..Len(dependsOn[stack[i].node]) BY <3>1, <2>1, <1>p, LenProperties, <2>2, <2>e
    <3> QED BY <3>1, <3>3, EntryType
  <2>3. CASE k \in 1..stack[i].cursor - 1
    <3>1. e = Elsewhere \/ (e # Elsewhere /\ states[e] = Done) \/ (i < len /\ e = stack[i + 1].node)
      BY <2>1, <2>3, <1>0, ZenonT(40) DEF PathInv, Passed, Entry, len
    <3>2. ASSUME e # Elsewhere, states[e] = Done PROVE states'[e] = Done
      <4>1. e # target BY <3>2 DEF Done
      <4>3. e \in 1..Nodes BY <3>2, <2>1, <2>3, <2>e DEF Local
      <4> HIDE DEF e
      <4> QED BY <3>2, <4>1, <4>3, <1>0, <1>2
    <3>3. ASSUME i < len PROVE i + 1 \in 1..len /\ stack'[i + 1].node = stack[i + 1].node
      <4>1. i + 1 \in 1..len BY <2>1, <3>3, <1>b
      <4> QED BY <4>1, <1>c
    <3>4. i < len + 1 BY <2>1, <1>b
    <3> HIDE DEF e
    <3> QED BY <3>1, <3>2, <3>3, <3>4, <2>2 DEF e
  <2>4. CASE k \notin 1..stack[i].cursor - 1
    <3>1. i = len /\ k = stack[len].cursor BY <2>1, <2>2, <2>4, <1>1
    <3>2. e = target BY <3>1, <1>0
    <3> HIDE DEF e
    <3> QED BY <3>2, <3>1, <1>b, <1>d, <2>2 DEF e
  <2> QED BY <2>3, <2>4
<1>9. Started'
  <2> SUFFICES ASSUME NEW n \in first..start - 1 PROVE states'[n] # 0 BY <1>2 DEF Started
  <2>0. /\ first \in 1..Nodes + 1 /\ last \in 0..Nodes /\ start \in first..last + 1 /\ Nodes \in Nat
    BY NodesAssumption DEF IInv, CyclesTypeOK
  <2>1. n \in 1..Nodes BY ONLY <2>0, n \in first..start - 1
  <2> QED BY <2>1, <1>0, <1>2 DEF InProgress, Started
<1>10. At(Done)' = At(Done)
  <2>0. target \in 1..Nodes /\ states[target] = 0 /\ states \in [1..Nodes -> {0, InProgress, Done}]
        /\ states' = [states EXCEPT ![target] = 1]
    BY <1>0, <1>2 DEF InProgress
  <2>1. ASSUME NEW n \in 1..Nodes PROVE states'[n] = 2 <=> states[n] = 2
    <3>1. states'[n] = IF n = target THEN 1 ELSE states[n] BY ONLY <2>0, <2>1
    <3> QED BY <3>1, <2>0
  <2> QED BY <2>1 DEF At, Done
<1>11. Ordered' BY <1>2, <1>10, SameDone DEF IInv
<1> QED BY <1>2, <1>4, <1>5, <1>6, <1>7, <1>8, <1>9, <1>11
        DEF IInv, Searching, PathInv, CycleIsReal, CycleFound

LEMMA ExamineIInv == ASSUME IInv, CyclesTypeOK', Examine PROVE IInv'
<1> DEFINE target == dependsOn[Top.node][Top.cursor]
<1>1. CASE target = Elsewhere \/ (target # Elsewhere /\ states[target] = Done)
  BY <1>1, SkipIInv DEF Examine, Done, InProgress
<1>2. CASE target # Elsewhere /\ states[target] = InProgress
  BY <1>2, CycleIInv DEF Examine, Done, InProgress
<1>3. CASE target # Elsewhere /\ states[target] = 0
  BY <1>3, PushIInv DEF Examine, Done, InProgress
<1> QED BY <1>1, <1>2, <1>3, CursorFacts

LEMMA ConcludeIInv == ASSUME IInv, CyclesTypeOK', Conclude PROVE IInv'
<1>2. first..last \subseteq At(Done)
  <2> SUFFICES ASSUME NEW n \in first..last PROVE n \in At(Done) OBVIOUS
  <2> QED BY EmptySeq, NodesAssumption DEF At, Started, CyclesTypeOK, PathInv, OnStack, Conclude, IInv, Searching
<1> QED BY SameDone, <1>2 DEF IInv, Searching, CycleIsReal, CycleFound, Ordered, At, Conclude

LEMMA NextIInv == ASSUME IInv, [CyclesNext]_cyclesVars PROVE IInv'
<1>0. CyclesTypeOK' BY NextTypeOK DEF IInv
<1>1. CASE Begin BY <1>0, <1>1, BeginIInv
<1>2. CASE Finish BY <1>0, <1>2, FinishIInv
<1>3. CASE Examine BY <1>0, <1>3, ExamineIInv
<1>4. CASE Conclude BY <1>0, <1>4, ConcludeIInv
<1>5. CASE UNCHANGED cyclesVars
  <2>1. /\ CyclesTypeOK' /\ At(Done)' = At(Done) /\ dependsOn' = dependsOn /\ verdict' = verdict
        /\ stack' = stack /\ states' = states /\ first' = first /\ start' = start /\ last' = last
    BY <1>0, <1>5 DEF cyclesVars, At
  <2>3. Searching'
    BY <2>1 DEF IInv, Searching, PathInv, OnStack, Distinct, Cursors, Path, Passed, Entry, Started
  <2> QED BY <2>1, SameDone, <2>3 DEF IInv, CycleIsReal, Knot, Entries, At, CycleFound
<1> QED BY <1>1, <1>2, <1>3, <1>4, <1>5 DEF CyclesNext

LEMMA Invariance == CyclesSpec => []IInv
<1>1. CyclesInit => IInv BY InitIInv
<1>2. IInv /\ [CyclesNext]_cyclesVars => IInv' BY NextIInv
<1> QED BY <1>1, <1>2, PTL DEF CyclesSpec

\* A document is refused only for a cycle it has, whatever its size and shape.
THEOREM NoFalseCycle == CyclesSpec => []CycleIsReal
<1>1. IInv => CycleIsReal BY DEF IInv
<1> QED BY <1>1, Invariance, PTL

\* A document that is accepted has none: its steps, or the workflows that one depends on, can
\* be put in an order.
THEOREM NoCycleMissed == CyclesSpec => []CycleFound
<1>1. IInv => CycleFound BY DEF IInv
<1> QED BY <1>1, Invariance, PTL

\* A node is never entered twice, so that the search is linear in the number of entries.
THEOREM EnteredOnce == CyclesSpec => NeverBack
<1>1. ASSUME IInv, CyclesNext PROVE \A n \in 1..Nodes : states'[n] >= states[n]
  <2>0. states \in [1..Nodes -> {0, InProgress, Done}] BY <1>1 DEF IInv, CyclesTypeOK
  <2> USE DEF InProgress, Done
  <2>a. ASSUME NEW m, states[m] = 0, states' = [states EXCEPT ![m] = InProgress]
        PROVE  \A n \in 1..Nodes : states'[n] >= states[n]
    <3> SUFFICES ASSUME NEW n \in 1..Nodes PROVE states'[n] >= states[n] OBVIOUS
    <3> QED BY <2>0, <2>a
  <2>b. ASSUME states' = states PROVE \A n \in 1..Nodes : states'[n] >= states[n] BY <2>0, <2>b
  <2>1. CASE Begin BY <2>1, <2>a, <2>b DEF Begin, Push
  <2>2. CASE Finish BY <2>0, <2>2 DEF Finish
  <2>3. CASE Examine BY <2>3, <2>a, <2>b DEF Examine, Push
  <2>4. CASE Conclude BY <2>0, <2>4 DEF Conclude
  <2> QED BY <1>1, <2>1, <2>2, <2>3, <2>4 DEF CyclesNext
<1>2. IInv /\ [CyclesNext]_cyclesVars => [\A n \in 1..Nodes : states'[n] >= states[n]]_cyclesVars BY <1>1
<1> QED BY <1>2, Invariance, PTL DEF CyclesSpec, NeverBack

\* The search reports a cycle exactly if there is one, looking at every node once,
\* for every graph and every range of nodes (graph_has_cycle).
THEOREM SearchIsExact == CyclesSpec => CyclesExact
  BY CyclesTypes, NoFalseCycle, NoCycleMissed, EnteredOnce, PTL DEF CyclesExact

(***************************************************************************)
(* Criteria and selectors: what was prepared is the text or a refusal, and *)
(* what was resolved is the context that is written                        *)
(***************************************************************************)
Verdict == it \in {v \in Written : Sensible(v)} /\ diagnostics = Diagnose(it)
Stages ==
  /\ criteriaPhase \in {"validated", "prepared", "resolved", "decided"}
  /\ warned \in BOOLEAN /\ matched \in BOOLEAN /\ context \in {"null", "value"}
  /\ ~CriteriaDecided => error = "none" /\ ~matched
\* What was prepared is the text, unless the braces failed; a query is what was admitted.
Prepares ==
  IF criteriaPhase = "validated" THEN prepared = "none" /\ query = "none" /\ ~warned
  ELSE IF Interpolated /\ InterpolationFails THEN prepared = "failed" /\ query = "none"
  ELSE /\ \/ prepared = CriteriaText
          \/ it.condition \in {"braces", "bad braces"} /\ ~Interpolated /\ prepared = "malformed"
       /\ prepared \in {"valid", "malformed"}
       /\ query = IF Name = "jsonpath" THEN Admit(prepared) ELSE "none"
\* A value is of the context that is written, and a context that is not one is warned of.
Resolves ==
  /\ criteriaPhase = "prepared" /\ prepared # "failed" => ~warned
  /\ context = "value" => it.context # "invalid"
  /\ criteriaPhase = "resolved" /\ it.site = "selector" => query # "refused"
  /\ context = "value" /\ prepared # "failed" /\ it.site = "criterion" => ~warned
Ends ==
  /\ error # "none" => ~matched
  /\ MatchesForReason /\ JsonPathIsAdmittedFirst /\ AcceptedIsExecuted
VerdictInv == Verdict /\ Stages /\ Prepares /\ Resolves /\ Ends

LEMMA Shape ==
  ASSUME Verdict
  PROVE  /\ it.site \in {"criterion", "selector"} /\ it.type \in Types /\ Name \in Names
         /\ it.condition \in {"blank", "valid", "malformed", "braces", "bad braces"}
         /\ it.substitutes \in {"valid", "malformed", "warns", "other"}
         /\ it.context \in {"blank", "found", "null", "invalid"}
         /\ it.response \in {"json", "text", "none"} /\ it.answer \in {"holds", "fails", "error"}
         /\ it.type.form \in {"none", "name", "object"}
         /\ it.type.form # "object" => it.type.version = "" /\ Version = ""
         /\ it.type.form = "object" => it.type.version \in Versions /\ Version = it.type.version
         /\ it.type.form = "none" => Name = "simple" /\ it.site = "criterion"
         /\ it.condition # "braces" => it.substitutes = "valid"
         /\ it.site = "selector" => it.condition \notin {"braces", "bad braces"}
<1>1. it \in Written /\ Sensible(it) BY DEF Verdict
<1>2. it.type \in Types BY <1>1 DEF Written
<1>3. /\ it.type.form \in {"none", "name", "object"} /\ it.type.name \in Names
      /\ it.type.form # "object" => it.type.version = ""
      /\ it.type.form = "object" => it.type.version \in Versions
      /\ it.type.form = "none" => it.type.name = "simple"
  <2>3. CASE it.type = [form |-> "none", name |-> "simple", version |-> ""]
    <3> DEFINE Unwritten == [form |-> "none", name |-> "simple", version |-> ""]
    <3>1. Unwritten.form = "none" /\ Unwritten.name = "simple" /\ Unwritten.version = "" OBVIOUS
    <3>2. it.type = Unwritten BY <2>3
    <3> HIDE DEF Unwritten
    <3> QED BY <3>1, <3>2 DEF Names
  <2>4. CASE it.type \in [form : {"name"}, name : Names, version : {""}] BY <2>4
  <2>5. CASE it.type \in [form : {"object"}, name : Names, version : Versions] BY <2>5
  <2> QED BY <1>2, <2>3, <2>4, <2>5 DEF Types
<1> QED BY <1>1, <1>2, <1>3 DEF Written, Sensible, Name, Version

\* What passes validation is of a language and a version its place allows.
LEMMA Accepts ==
  ASSUME Verdict, "padded xpath-10" \notin Versions, Errors = {}
  PROVE  /\ it.site = "criterion" => Name \in {"simple", "regex", "jsonpath", "xpath"}
         /\ it.site = "selector" => Name \in {"jsonpath", "xpath", "jsonpointer"}
         /\ it.site = "criterion" /\ Name = "simple" => it.condition = "valid"
         /\ it.type.form = "object" => VersionSupported(Name, Version)
         /\ Name = "xpath" => ("xpath advisory" \in diagnostics <=> Version # "xpath-10")
<1> USE Shape
<1>1. /\ diagnostics = ContextDiagnostics(it) \cup ConditionDiagnostics(it) \cup TypeDiagnostics(it.site, it.type)
      /\ diagnostics \subseteq {"xpath advisory"}
  BY DEF Verdict, Diagnose, Errors
<1>2. "xpath advisory" \notin ContextDiagnostics(it) \cup ConditionDiagnostics(it)
  BY DEF ContextDiagnostics, ConditionDiagnostics
<1>4. it.site = "criterion" /\ Name = "simple" => it.condition = "valid"
  BY <1>1, <1>2 DEF ConditionDiagnostics, Name
<1>5. TypeDiagnostics(it.site, it.type) \subseteq {"xpath advisory"} BY <1>1
<1>6. CASE it.type.form = "none" BY <1>4, <1>6 DEF Name, TypeDiagnostics
<1>7. CASE it.type.form = "name"
  BY <1>1, <1>4, <1>7, <1>5 DEF AllowedNames, TypeDiagnostics, UnexecutableXPath, Name
<1>8. CASE it.type.form = "object"
  <2>1. Name \in AllowedObjects(it.site) BY <1>5, <1>8 DEF TypeDiagnostics, Name
  <2>2. Trimmed(it.type.version) # "" /\ VersionSupported(Name, Trimmed(it.type.version))
    BY <1>5, <1>8, <2>1 DEF TypeDiagnostics, Name
  <2>3. Trimmed(it.type.version) = Version BY <1>8, <2>2 DEF Trimmed
  <2>4. Name = "xpath" => ("xpath advisory" \in TypeDiagnostics(it.site, it.type) <=> Version # "xpath-10")
    BY <1>8, <2>1, <2>2, <2>3 DEF TypeDiagnostics, UnexecutableXPath, Name
  <2> QED BY <1>1, <1>2, <1>4, <1>8, <2>1, <2>2, <2>3, <2>4 DEF AllowedObjects
<1> QED BY <1>6, <1>7, <1>8, Shape

LEMMA VerdictInit == CriteriaInit => VerdictInv
<1> SUFFICES ASSUME CriteriaInit PROVE VerdictInv OBVIOUS
<1> USE DEF CriteriaInit
<1>3. Ends BY DEF Ends, MatchesForReason, JsonPathIsAdmittedFirst, AcceptedIsExecuted, CriteriaDecided
<1> QED BY <1>3 DEF VerdictInv, Verdict, Stages, Prepares, Resolves, CriteriaDecided

\* Before anything is decided there is nothing to be true to.
Unjudged == ~CriteriaDecided /\ error = "none" /\ ~matched
LEMMA Undecided == Unjudged => Ends
  BY DEF Unjudged, Ends, MatchesForReason, JsonPathIsAdmittedFirst, AcceptedIsExecuted

LEMMA PrepareKeeps == ASSUME VerdictInv, Prepare PROVE VerdictInv'
<1> USE DEF VerdictInv
<1>1. /\ criteriaPhase = "validated" /\ criteriaPhase' = "prepared"
      /\ UNCHANGED <<it, diagnostics, context, error, matched>>
  BY DEF Prepare
<1>2. Verdict' BY <1>1 DEF Verdict
<1>4. /\ Interpolated' = Interpolated /\ InterpolationFails' = InterpolationFails /\ CriteriaText' = CriteriaText
      /\ Name' = Name /\ Version' = Version
      /\ Admit(prepared)' = Admit(prepared')
  BY <1>1 DEF Interpolated, InterpolationFails, CriteriaText, Name, Version, Admit
<1>5. Unjudged' BY <1>1 DEF Unjudged, CriteriaDecided, Stages
<1>6. Ends' BY <1>5, Undecided, PTL
<1>7. context = "null" \/ it.context # "invalid" BY DEF Resolves, Stages
<1>8. CASE Interpolated /\ InterpolationFails
  <2>1. prepared' = "failed" /\ query' = "none" /\ warned' \in BOOLEAN BY <1>8 DEF Prepare
  <2>2. Prepares' BY <1>1, <1>4, <1>8, <2>1 DEF Prepares
  <2>3. Stages' /\ Resolves' BY <1>1, <1>5, <1>7, <2>1 DEF Unjudged, Stages, Resolves, CriteriaDecided
  <2> QED BY <1>2, <1>6, <2>2, <2>3
<1>9. CASE ~(Interpolated /\ InterpolationFails)
  <2>1. /\ prepared' = (IF Interpolated THEN it.substitutes ELSE IF it.condition = "valid" THEN "valid" ELSE "malformed")
        /\ query' = IF Name = "jsonpath" THEN Admit(prepared') ELSE "none"
        /\ ~warned' /\ warned' \in BOOLEAN BY <1>1, <1>9 DEF Prepare, Stages, Prepares
  <2>3. Prepares' BY <1>1, <1>4, <1>9, <2>1, Shape DEF Prepares, Interpolated, InterpolationFails, CriteriaText
  <2>4. Stages' /\ Resolves' BY <1>1, <1>5, <1>7, <2>1 DEF Unjudged, Stages, Resolves, CriteriaDecided
  <2> QED BY <1>2, <1>6, <2>3, <2>4
<1> QED BY <1>8, <1>9

LEMMA ResolveKeeps == ASSUME VerdictInv, ResolveContext PROVE VerdictInv'
<1> USE DEF VerdictInv
<1>1. /\ criteriaPhase = "prepared" /\ criteriaPhase' = "resolved"
      /\ UNCHANGED <<it, diagnostics, prepared, query, error, matched>>
      /\ context' = IF it.context = "found" \/ (it.site = "criterion" /\ it.context = "blank" /\ it.response # "none")
                    THEN "value" ELSE "null"
      /\ warned' = (warned \/ it.context = "invalid" \/ (it.site = "selector" /\ it.context = "blank"))
      /\ ~(it.site = "selector" /\ query = "refused")
  BY DEF ResolveContext
<1>4. Unjudged' BY <1>1 DEF Unjudged, CriteriaDecided, Stages
<1>5. Ends' BY <1>4, Undecided, PTL
<1>7. Stages' BY <1>1, <1>4 DEF Unjudged, Stages
<1>10. Resolves' BY <1>1 DEF Resolves
<1> QED
  BY <1>1, <1>5, <1>7, <1>10 DEF Verdict, Prepares, Interpolated, InterpolationFails, CriteriaText, Name, Version,
     Admit

\* A decision changes no more than itself: what is left to show is what it says.
LEMMA DecideKeeps ==
  ASSUME VerdictInv, NEW answer \in BOOLEAN, NEW why, Decide(answer, why), criteriaPhase \in {"prepared", "resolved"},
         Ends'
  PROVE  VerdictInv'
<1> USE DEF VerdictInv
<1>1. /\ criteriaPhase' = "decided" /\ matched' = answer /\ error' = why
      /\ UNCHANGED <<it, diagnostics, prepared, query, context, warned>>
  BY DEF Decide
<1>5. Stages' /\ Resolves' BY <1>1 DEF Stages, Resolves, CriteriaDecided
<1> QED BY <1>1, <1>5 DEF Verdict, Prepares, Interpolated, InterpolationFails, CriteriaText, Name, Version, Admit

\* What a decision has to say, in the state it is made in.
LEMMA DecideEnds ==
  ASSUME NEW answer \in BOOLEAN, NEW why, Decide(answer, why),
         why # "none" => ~answer,
         answer /\ Name \in {"regex", "jsonpath", "xpath"} =>
           /\ it.answer = "holds"
           /\ it.site = "criterion" => CriteriaText = "valid" /\ ~warned /\ context = "value"
           /\ Name = "xpath" => Version = "xpath-10"
           /\ Name = "jsonpath" => Version \in {"", "rfc9535"},
         Name = "jsonpath" /\ prepared # "failed" /\ it.site = "criterion" =>
           /\ (prepared # "valid" \/ Version \notin {"", "rfc9535"}) => why = "query"
           /\ (prepared = "valid" /\ Version \in {"", "rfc9535"} /\ context = "null") => why = "none",
         diagnostics = {} /\ Version # "draft-goessner-dispatch-jsonpath-00" =>
           /\ why \notin {"type", "version", "simple"}
           /\ why = "query" => prepared # "valid"
  PROVE  Ends'
  BY DEF Ends, MatchesForReason, JsonPathIsAdmittedFirst, AcceptedIsExecuted, CriteriaText, Name, Version, Decide

\* A text that was prepared and can be evaluated is the text that was meant.
LEMMA Meant ==
  ASSUME VerdictInv, criteriaPhase # "validated"
  PROVE  /\ prepared = "valid" => CriteriaText = "valid"
         /\ prepared # "failed" => prepared \in {"valid", "malformed"} /\ ~(Interpolated /\ InterpolationFails)
         /\ prepared = "failed" => it.site = "criterion" /\ Name \in {"regex", "jsonpath", "xpath"}
         /\ query # "refused" /\ Name = "jsonpath" /\ prepared # "failed" => prepared = "valid" /\ Version \in {"", "rfc9535"}
         /\ query = "refused" => Name = "jsonpath" /\ ~(prepared = "valid" /\ Version \in {"", "rfc9535"}) /\ prepared # "failed"
<1> USE DEF VerdictInv
<1>1. CASE Interpolated /\ InterpolationFails BY <1>1 DEF Prepares, Interpolated
<1>2. CASE ~(Interpolated /\ InterpolationFails) BY <1>2 DEF Admit, Prepares
<1> QED BY <1>1, <1>2

\* A refusal, and a match, keep the invariant if they say what their place in the code says.
LEMMA Refuses ==
  ASSUME VerdictInv, criteriaPhase \in {"prepared", "resolved"}, NEW why, Decide(FALSE, why),
         Name = "jsonpath" /\ prepared # "failed" /\ it.site = "criterion" =>
           /\ (prepared # "valid" \/ Version \notin {"", "rfc9535"}) => why = "query"
           /\ (prepared = "valid" /\ Version \in {"", "rfc9535"} /\ context = "null") => why = "none",
         diagnostics = {} /\ Version # "draft-goessner-dispatch-jsonpath-00" =>
           /\ why \notin {"type", "version", "simple"}
           /\ why = "query" => prepared # "valid"
  PROVE  VerdictInv'
  BY DecideEnds, DecideKeeps

LEMMA Matches ==
  ASSUME VerdictInv, criteriaPhase = "resolved", Decide(TRUE, "none"), it.answer = "holds", prepared # "failed",
         it.site = "criterion" /\ Name \in {"regex", "jsonpath", "xpath"} => prepared = "valid" /\ context = "value",
         Name = "xpath" => Version = "xpath-10", query # "refused"
  PROVE  VerdictInv'
  BY Meant, DecideEnds, DecideKeeps DEF VerdictInv, Resolves

\* The answer of a language matches, or refuses.
LEMMA ByIs ==
  ASSUME NEW answer, By(answer)
  PROVE  \/ \E why \in {"evaluation", "none"} : Decide(FALSE, why)
         \/ Decide(TRUE, "none") /\ answer = "holds"
<1>1. CASE answer = "error" BY <1>1 DEF By
<1>2. CASE answer # "error" /\ answer # "holds" BY <1>2 DEF Decide, By
<1>3. CASE answer = "holds" BY <1>3 DEF Decide, By
<1> QED BY <1>1, <1>2, <1>3

LEMMA DecisionKeeps ==
  ASSUME VerdictInv, "padded xpath-10" \notin Versions,
         NotPrepared \/ DecideJsonPath \/ DecideRegex \/ DecideXPath \/ DecideSimple \/ SelectorRefused \/ Select
  PROVE  VerdictInv'
<1>1. diagnostics = {} =>
        /\ it.site = "criterion" => Name \in {"simple", "regex", "jsonpath", "xpath"}
        /\ it.site = "selector" => Name \in {"jsonpath", "xpath", "jsonpointer"}
        /\ it.site = "criterion" /\ Name = "simple" => it.condition = "valid"
        /\ Version # "" => VersionSupported(Name, Version)
        /\ Name = "xpath" => Version = "xpath-10"
  BY Accepts, Shape DEF Errors, VerdictInv
<1>2. NotPrepared => VerdictInv'
  <2> SUFFICES ASSUME NotPrepared PROVE VerdictInv' OBVIOUS
  <2> QED BY Refuses DEF NotPrepared
<1>3. DecideJsonPath => VerdictInv'
  <2> SUFFICES ASSUME DecideJsonPath PROVE VerdictInv' OBVIOUS
  <2>1. criteriaPhase = "resolved" /\ it.site = "criterion" /\ prepared # "failed" /\ Name = "jsonpath" BY DEF DecideJsonPath
  <2>2. /\ query # "refused" => prepared = "valid" /\ Version \in {"", "rfc9535"}
        /\ query = "refused" => ~(prepared = "valid" /\ Version \in {"", "rfc9535"})
    BY <2>1, Meant
  <2>3. CASE query = "refused" BY <2>1, <2>2, <2>3, <1>1, Refuses DEF DecideJsonPath, VersionSupported
  <2>4. CASE query # "refused" /\ context = "null" BY <2>1, <2>2, <2>4, Refuses DEF DecideJsonPath
  <2>5. CASE query # "refused" /\ context # "null"
    <3>3. CASE \E why \in {"evaluation", "none"} : Decide(FALSE, why)
      <4>1. PICK why \in {"evaluation", "none"} : Decide(FALSE, why) BY <3>3
      <4> QED BY <2>1, <2>2, <2>5, <4>1, Refuses
    <3>4. CASE Decide(TRUE, "none") /\ it.answer = "holds" BY <2>1, <2>2, <2>5, <3>4, Matches DEF Stages, VerdictInv
    <3> QED BY <2>5, <3>3, <3>4, ByIs DEF DecideJsonPath
  <2> QED BY <2>3, <2>4, <2>5
<1>4. DecideRegex => VerdictInv'
  <2> SUFFICES ASSUME DecideRegex PROVE VerdictInv' OBVIOUS
  <2>1. criteriaPhase = "resolved" /\ it.site = "criterion" /\ prepared # "failed" /\ Name = "regex" BY DEF DecideRegex
  <2>3. \/ \E why \in {"none", "regex", "evaluation"} : Decide(FALSE, why)
        \/ Decide(TRUE, "none") /\ it.answer = "holds" /\ context # "null" /\ prepared # "malformed"
    <3>1. CASE context = "null" BY <3>1 DEF DecideRegex
    <3>2. CASE context # "null" /\ prepared = "malformed" BY <3>2 DEF DecideRegex
    <3>3. CASE context # "null" /\ prepared # "malformed"
      <4>1. PICK heard \in {"fails", it.answer} : By(heard) BY <3>3 DEF DecideRegex
      <4> QED BY <3>3, <4>1, ByIs
    <3> QED BY <3>1, <3>2, <3>3
  <2>4. CASE \E why \in {"none", "regex", "evaluation"} : Decide(FALSE, why)
    <3>1. PICK why \in {"none", "regex", "evaluation"} : Decide(FALSE, why) BY <2>4
    <3> QED BY <2>1, <3>1, Refuses
  <2>5. CASE Decide(TRUE, "none") /\ it.answer = "holds" /\ context # "null" /\ prepared # "malformed"
    BY <2>1, Meant, <2>5, Matches DEF Stages, VerdictInv
  <2> QED BY <2>3, <2>4, <2>5
<1>5. DecideXPath => VerdictInv'
  <2> SUFFICES ASSUME DecideXPath PROVE VerdictInv' OBVIOUS
  <2>1. criteriaPhase = "resolved" /\ it.site = "criterion" /\ prepared # "failed" /\ Name = "xpath" BY DEF DecideXPath
  <2>3. \/ \E why \in {"none", "xpath", "evaluation"} : Decide(FALSE, why)
        \/ Decide(FALSE, "version") /\ Version # "xpath-10"
        \/ Decide(TRUE, "none") /\ it.answer = "holds" /\ context # "null" /\ Version = "xpath-10" /\ prepared # "malformed"
    <3>1. CASE context = "null" BY <3>1 DEF DecideXPath
    <3>2. CASE context # "null" /\ Version # "xpath-10" BY <3>2 DEF DecideXPath
    <3>3. CASE context # "null" /\ Version = "xpath-10" /\ prepared = "malformed" BY <3>3 DEF DecideXPath
    <3>4. CASE context # "null" /\ Version = "xpath-10" /\ prepared # "malformed" BY <3>4, ByIs DEF DecideXPath
    <3> QED BY <3>1, <3>2, <3>3, <3>4
  <2>4. CASE \E why \in {"none", "xpath", "evaluation"} : Decide(FALSE, why)
    <3>1. PICK why \in {"none", "xpath", "evaluation"} : Decide(FALSE, why) BY <2>4
    <3> QED BY <2>1, <3>1, Refuses
  <2>5. CASE Decide(FALSE, "version") /\ Version # "xpath-10" BY <1>1, <2>1, <2>5, Refuses
  <2>6. CASE Decide(TRUE, "none") /\ it.answer = "holds" /\ context # "null" /\ Version = "xpath-10" /\ prepared # "malformed"
    BY <2>1, Meant, <2>6, Matches DEF Stages, VerdictInv
  <2> QED BY <2>3, <2>4, <2>5, <2>6
<1>6. DecideSimple => VerdictInv'
  <2> SUFFICES ASSUME DecideSimple PROVE VerdictInv' OBVIOUS
  <2>1. criteriaPhase = "resolved" /\ it.site = "criterion" /\ Name \notin {"regex", "jsonpath", "xpath"} BY DEF DecideSimple
  <2>3. CASE it.condition # "valid" BY <2>1, <2>3, <1>1, Refuses DEF DecideSimple
  <2>4. CASE it.condition = "valid"
    <3>3. CASE \E why \in {"evaluation", "none"} : Decide(FALSE, why)
      <4>1. PICK why \in {"evaluation", "none"} : Decide(FALSE, why) BY <3>3
      <4> QED BY <2>1, <4>1, Refuses
    <3>4. CASE Decide(TRUE, "none") /\ it.answer = "holds" BY <2>1, Meant, <3>4, Matches
    <3> QED BY <2>4, <3>3, <3>4, ByIs DEF DecideSimple
  <2> QED BY <2>3, <2>4
<1>7. SelectorRefused => VerdictInv'
  <2> SUFFICES ASSUME SelectorRefused PROVE VerdictInv' OBVIOUS
  <2> QED BY <1>1, Meant, Refuses DEF VersionSupported, SelectorRefused
<1>8. Select => VerdictInv'
  <2> SUFFICES ASSUME Select PROVE VerdictInv' OBVIOUS
  <2>1. criteriaPhase = "resolved" /\ it.site = "selector" BY DEF Select
  <2>3. \/ \E why \in {"context", "pointer", "xpath", "evaluation", "none"} : Decide(FALSE, why)
        \/ Decide(FALSE, "type") /\ Name \notin {"jsonpath", "jsonpointer", "xpath"}
        \/ Decide(FALSE, "version") /\ Name = "jsonpointer" /\ Version \notin {"", "rfc6901"}
        \/ Decide(FALSE, "version") /\ Name = "xpath" /\ Version # "xpath-10"
        \/ Decide(TRUE, "none") /\ it.answer = "holds" /\ (Name = "xpath" => Version = "xpath-10")
    <3>1. CASE warned BY <3>1 DEF Select
    <3>2. CASE ~warned /\ Name = "jsonpath" BY <3>2, ByIs DEF Select
    <3>3. CASE ~warned /\ Name = "jsonpointer"
      <4>2. CASE Decide(it.answer = "holds", "none") /\ it.answer = "holds" BY <3>3, <4>2 DEF Decide
      <4>3. CASE Decide(it.answer = "holds", "none") /\ it.answer # "holds" BY <4>3 DEF Decide
      <4> QED BY <3>3, <4>2, <4>3 DEF Select
    <3>4. CASE ~warned /\ Name = "xpath" BY <3>4, ByIs DEF Select
    <3>5. CASE ~warned /\ Name \notin {"jsonpath", "jsonpointer", "xpath"} BY <3>5 DEF Select
    <3> QED BY <3>1, <3>2, <3>3, <3>4, <3>5
  <2>4. CASE \E why \in {"context", "pointer", "xpath", "evaluation", "none"} : Decide(FALSE, why)
    <3>1. PICK why \in {"context", "pointer", "xpath", "evaluation", "none"} : Decide(FALSE, why) BY <2>4
    <3> QED BY <2>1, <3>1, Refuses
  <2>5. CASE Decide(FALSE, "type") /\ Name \notin {"jsonpath", "jsonpointer", "xpath"}
    BY <1>1, <2>1, <2>5, Refuses
  <2>6. CASE Decide(FALSE, "version") /\ Name = "jsonpointer" /\ Version \notin {"", "rfc6901"}
    BY <2>1, <2>6, <1>1, Refuses DEF VersionSupported
  <2>7. CASE Decide(FALSE, "version") /\ Name = "xpath" /\ Version # "xpath-10"
    BY <1>1, <2>1, <2>7, Refuses
  <2>8. CASE Decide(TRUE, "none") /\ it.answer = "holds" /\ (Name = "xpath" => Version = "xpath-10")
    BY <2>1, Meant, <2>8, Matches DEF VerdictInv, Resolves
  <2> QED BY <2>3, <2>4, <2>5, <2>6, <2>7, <2>8
<1> QED BY <1>2, <1>3, <1>4, <1>5, <1>6, <1>7, <1>8

\* A criterion that cannot be evaluated does not match, a match has its reason, and the
\* validator and the runtime mean the same languages and versions: for every set of
\* versions a document may declare, but the one that is written with blanks around it,
\* which the validator trims and the runtime does not.
THEOREM CriteriaAgree ==
  ASSUME "padded xpath-10" \notin Versions
  PROVE  CriteriaSpec => []CriteriaFailClosed
<1>1. VerdictInv /\ [CriteriaNext]_criteriaVars => VerdictInv'
  <2> SUFFICES ASSUME VerdictInv, [CriteriaNext]_criteriaVars PROVE VerdictInv' OBVIOUS
  <2>1. CASE Prepare BY <2>1, PrepareKeeps
  <2>2. CASE ResolveContext BY <2>2, ResolveKeeps
  <2>3. CASE NotPrepared \/ DecideJsonPath \/ DecideRegex \/ DecideXPath \/ DecideSimple \/ SelectorRefused \/ Select
    BY <2>3, DecisionKeeps
  <2>4. CASE UNCHANGED criteriaVars
    BY <2>4, ZenonT(40) DEF criteriaVars, VerdictInv, Verdict, Stages, Prepares, Resolves, Ends, MatchesForReason, JsonPathIsAdmittedFirst,
      AcceptedIsExecuted, CriteriaDecided, Interpolated, InterpolationFails, CriteriaText, Name, Version, Admit
  <2> QED BY <2>1, <2>2, <2>3, <2>4 DEF CriteriaNext
<1>2. VerdictInv => CriteriaFailClosed
  <2> SUFFICES ASSUME VerdictInv PROVE CriteriaFailClosed OBVIOUS
  <2> QED
    BY Accepts DEF CriteriaFailClosed, VerdictInv, Ends, AdvisoryIsExact, Stages, CriterionTypeOK, Prepares, Admit
<1> QED BY <1>1, <1>2, VerdictInit, PTL DEF CriteriaSpec

(***************************************************************************)
(* What is accepted                                                        *)
(*                                                                         *)
(* A document is without a fault if each of its parts is.  Each rule of    *)
(* the pass refuses exactly a part with a fault, so that what is accepted  *)
(* is without one, and the promises are read off from that.  The sums of   *)
(* digits are for every length: the induction is on the least length that  *)
(* would refute them.                                                      *)
(***************************************************************************)

\* A set of numbers that is not empty has a least member.
LEMMA LeastMember ==
  ASSUME NEW S \in SUBSET Nat, S # {}
  PROVE  \E m \in S : \A k \in S : m <= k
<1> DEFINE below == {1..m : m \in S}
<1>1. \A m \in Nat : 1..m \in FiniteSubsetsOf(Nat)
  <2> TAKE m \in Nat
  <2> QED BY FS_Interval DEF FiniteSubsetsOf
<1>2. below \subseteq FiniteSubsetsOf(Nat) /\ below # {} BY <1>1
<1>3. PICK x \in below : \A y \in below : <<y, x>> \notin StrictSubsetOrdering(Nat)
  <2> HIDE DEF below
  <2> QED BY <1>2, FS_StrictSubsetOrderingWellFounded, WFMin, Zenon
<1>4. PICK m \in S : x = 1..m BY <1>3
<1>5. ASSUME NEW k \in S PROVE m <= k
  <2>1. k \in Nat /\ m \in Nat OBVIOUS
  <2>2. SUFFICES ASSUME k < m PROVE FALSE BY <2>1
  <2>5. <<1..k, 1..m>> \in StrictSubsetOrdering(Nat) BY <2>1, <2>2 DEF StrictSubsetOrdering
  <2> QED BY <2>5, <1>3, <1>4
<1> QED BY <1>5

\* One that has a bound has a greatest.
LEMMA GreatestMember ==
  ASSUME NEW n \in Nat, NEW S \in SUBSET (0..n), S # {}
  PROVE  \E m \in S : \A k \in S : k <= m
<1> DEFINE T == {n - k : k \in S}
<1>1. T \in SUBSET Nat /\ T # {}
  <2>1. ASSUME NEW k \in S PROVE n - k \in Nat OBVIOUS
  <2> QED BY <2>1
<1>2. PICK t \in T : \A k \in T : t <= k
  <2> HIDE DEF T
  <2> QED BY <1>1, LeastMember
<1>3. PICK m \in S : t = n - m BY <1>2
<1>4. ASSUME NEW k \in S PROVE k <= m BY <1>2, <1>3
<1> QED BY <1>4

(***************************************************************************)
(* Versions                                                                *)
(***************************************************************************)
\* The sums over the first digits of a part are one function.
Summed(part, total) ==
  /\ total \in [0..Len(part) -> Nat]
  /\ total[0] = 0
  /\ \A n \in 1..Len(part) : total[n] = 10 * total[n - 1] + part[n]

SummedUpTo(part, k, total) ==
  /\ total \in [0..k -> Nat]
  /\ total[0] = 0
  /\ \A n \in 1..k : total[n] = 10 * total[n - 1] + part[n]

\* Every part of digits has its sums: by the least length for which one would be missing.
LEMMA SumsExist ==
  ASSUME NEW part \in Seq(Nat)
  PROVE  \E total : Summed(part, total)
<1> DEFINE bad == {k \in 0..Len(part) : ~\E total : SummedUpTo(part, k, total)}
<1>0. Len(part) \in Nat /\ \A i \in 1..Len(part) : part[i] \in Nat OBVIOUS
<1>1. ASSUME bad # {} PROVE FALSE
  <2>1. bad \in SUBSET Nat BY <1>0
  <2>2. PICK k \in bad : \A j \in bad : k <= j BY <1>1, <2>1, LeastMember
  <2>3. k \in 0..Len(part) /\ ~\E total : SummedUpTo(part, k, total) BY <2>2
  <2>4. k # 0
    <3>1. ASSUME k = 0 PROVE SummedUpTo(part, k, [n \in 0..0 |-> 0]) BY <3>1 DEF SummedUpTo
    <3> QED BY <3>1, <2>3
  <2>6. PICK total : SummedUpTo(part, k - 1, total) BY <2>2, <2>3, <2>4, <1>0
  <2> DEFINE more == [n \in 0..k |-> IF n = k THEN 10 * total[k - 1] + part[k] ELSE total[n]]
  <2>7. k \in 1..Len(part) BY <2>3, <2>4
  <2>9. SummedUpTo(part, k, more)
    <3>1. more \in [0..k -> Nat]
      <4>1. ASSUME NEW n \in 0..k PROVE more[n] \in Nat
        <5>1. CASE n = k BY <5>1, <2>6, <2>7, <1>0 DEF SummedUpTo
        <5>2. CASE n # k BY <5>2, <2>7, <2>6 DEF SummedUpTo
        <5> QED BY <5>1, <5>2
      <4> QED BY <4>1
    <3>2. more[0] = 0 BY <2>6, <2>7 DEF SummedUpTo
    <3>3. ASSUME NEW n \in 1..k PROVE more[n] = 10 * more[n - 1] + part[n]
      <4>1. n - 1 \in 0..k /\ n - 1 # k /\ n \in 0..k BY <2>7
      <4>2. more[n - 1] = total[n - 1] BY <4>1
      <4>3. CASE n = k BY <4>1, <4>2, <4>3
      <4>4. CASE n # k BY <4>4, <2>7, <4>1, <4>2, <2>6 DEF SummedUpTo
      <4> QED BY <4>3, <4>4
    <3> HIDE DEF more
    <3> QED BY <3>1, <3>2, <3>3 DEF SummedUpTo
  <2> QED BY <2>3, <2>9
<1>3. \E total : SummedUpTo(part, Len(part), total) BY <1>0, <1>1
<1> QED BY <1>3 DEF Summed, SummedUpTo

\* The value of a part is the last of its sums.
LEMMA ValueSums ==
  ASSUME NEW part \in Seq(Nat)
  PROVE  \E total : Summed(part, total) /\ Value(part) = total[Len(part)]
<1> DEFINE Sums(t) == t = [n \in 0..Len(part) |-> IF n = 0 THEN 0 ELSE 10 * t[n - 1] + part[n]]
           sums == CHOOSE t : Sums(t)
<1>1. Value(part) = sums[Len(part)] BY DEF Value
<1>2. PICK total : Summed(part, total) BY SumsExist
<1>3. Sums(total) BY <1>2 DEF Summed
<1>4. Sums(sums) BY <1>3
<1> HIDE DEF sums
<1>5. Len(part) \in Nat /\ \A i \in 1..Len(part) : part[i] \in Nat OBVIOUS
<1>6. /\ DOMAIN sums = 0..Len(part) /\ sums[0] = 0
      /\ \A n \in 1..Len(part) : sums[n] = 10 * sums[n - 1] + part[n]
  BY <1>4, <1>5, SMTT(20)
<1>7. ASSUME NEW n \in 0..Len(part) PROVE sums[n] = total[n]
  <2> DEFINE bad == {k \in 0..Len(part) : sums[k] # total[k]}
  <2>1. ASSUME bad # {} PROVE FALSE
    <3>1. bad \in SUBSET Nat BY <1>5
    <3>2. PICK k \in bad : \A j \in bad : k <= j BY <2>1, <3>1, LeastMember
    <3>4. k \in 1..Len(part) /\ k - 1 \in 0..Len(part) /\ k - 1 \notin bad BY <3>2, <1>6, <1>2, <1>5 DEF Summed
    <3> QED BY <3>2, <3>4, <1>6, <1>2 DEF Summed
  <2> QED BY <2>1
<1> QED BY <1>1, <1>2, <1>6, <1>7, <1>4 DEF Summed

\* A sum is nothing where all digits are, and one where the last is and those before are nothing.
LEMMA SumsSmall ==
  ASSUME NEW part \in Seq(Nat), NEW total, Summed(part, total), NEW n \in 0..Len(part)
  PROVE  /\ total[n] \in Nat
         /\ total[n] = 0 <=> \A k \in 1..n : part[k] = 0
         /\ total[n] = 1 <=> n # 0 /\ part[n] = 1 /\ \A k \in 1..n - 1 : part[k] = 0
<1> DEFINE bad == {k \in 0..Len(part) : ~(total[k] = 0 <=> \A j \in 1..k : part[j] = 0)}
<1>0. Len(part) \in Nat /\ \A i \in 1..Len(part) : part[i] \in Nat OBVIOUS
<1>t. \A k \in 0..Len(part) : total[k] \in Nat BY DEF Summed
<1>1. ASSUME bad # {} PROVE FALSE
  <2>1. bad \in SUBSET Nat BY <1>0
  <2>2. PICK k \in bad : \A j \in bad : k <= j BY <1>1, <2>1, LeastMember
  <2>3. k # 0 BY <2>2 DEF Summed
  <2>4. k \in 1..Len(part) /\ k - 1 \in 0..Len(part) /\ k - 1 \notin bad BY <2>2, <2>3, <1>0, SMTT(20)
  <2>6. total[k] = 10 * total[k - 1] + part[k] /\ total[k - 1] \in Nat /\ part[k] \in Nat
    BY <2>4, <1>0, <1>t DEF Summed
  <2>7. total[k] = 0 <=> total[k - 1] = 0 /\ part[k] = 0 BY <2>6
  <2> QED BY <2>2, <2>4, <2>7
<1>2. \A k \in 0..Len(part) : total[k] = 0 <=> \A j \in 1..k : part[j] = 0 BY <1>1
<1>3. total[n] = 1 <=> n # 0 /\ part[n] = 1 /\ \A k \in 1..n - 1 : part[k] = 0
  <2>1. CASE n = 0 BY <2>1 DEF Summed
  <2>2. CASE n # 0
    <3>1. n \in 1..Len(part) /\ n - 1 \in 0..Len(part) BY <2>2, <1>0
    <3>2. total[n] = 10 * total[n - 1] + part[n] /\ total[n - 1] \in Nat /\ part[n] \in Nat
      BY <3>1, <1>0, <1>t DEF Summed
    <3>3. total[n] = 1 <=> total[n - 1] = 0 /\ part[n] = 1 BY <3>2
    <3> QED BY <3>1, <3>3, <1>2, <2>2
  <2> QED BY <2>1, <2>2
<1> QED BY <1>t, <1>2, <1>3

\* What is cut off is the longest row of zeros in front.
LEMMA TrimmedSmall ==
  ASSUME NEW part \in Seq(Nat)
  PROVE  /\ Significant(part) = <<>> <=> \A k \in 1..Len(part) : part[k] = 0
         /\ Significant(part) = << 1 >> <=> /\ Len(part) # 0 /\ part[Len(part)] = 1
                                     /\ \A k \in 1..Len(part) - 1 : part[k] = 0
<1> DEFINE n == Len(part)
           zeros == {i \in 0..n : \A k \in 1..i : part[k] = 0}
           leading == CHOOSE i \in zeros : \A k \in zeros : k <= i
<1>0. n \in Nat /\ \A i \in 1..n : part[i] \in Nat OBVIOUS
<1>1. 0 \in zeros /\ zeros \in SUBSET (0..n) BY <1>0
<1>2. \E i \in zeros : \A k \in zeros : k <= i
  <2> HIDE DEF zeros, n
  <2> QED BY <1>0, <1>1, GreatestMember
<1>3. leading \in zeros /\ \A k \in zeros : k <= leading BY <1>2
<1>4. Significant(part) = SubSeq(part, leading + 1, n) BY DEF Significant
<1> HIDE DEF leading
<1>5. leading \in 0..n /\ \A k \in 1..leading : part[k] = 0 BY <1>3
<1>6. \A i \in 0..n : i > leading => \E k \in 1..i : part[k] # 0
  <2> TAKE i \in 0..n
  <2> HAVE i > leading
  <2> QED BY <1>3, <1>5
<1> HIDE DEF zeros, n
<1>7. /\ SubSeq(part, leading + 1, n) \in Seq(Nat) /\ Len(SubSeq(part, leading + 1, n)) = n - leading
      /\ \A i \in 1..n - leading : SubSeq(part, leading + 1, n)[i] = part[leading + i]
  <2>3. /\ SubSeq(part, leading + 1, n) \in Seq(Nat)
        /\ Len(SubSeq(part, leading + 1, n)) = IF leading + 1 <= n THEN n - (leading + 1) + 1 ELSE 0
        /\ \A i \in 1..n - (leading + 1) + 1 : SubSeq(part, leading + 1, n)[i] = part[leading + 1 + i - 1]
    BY <1>0, <1>5, SubSeqProperties
  <2>5. ASSUME NEW i \in 1..n - leading PROVE SubSeq(part, leading + 1, n)[i] = part[leading + i]
    BY <1>0, <1>5, <2>3
  <2> QED BY <2>3, <1>0, <1>5, <2>5
<1>8. (\A k \in 1..n : part[k] = 0) <=> leading = n
  <2>1. ASSUME leading # n PROVE \E k \in 1..n : part[k] # 0 BY <2>1, <1>0, <1>5, <1>6
  <2> QED BY <2>1, <1>5
<1>9. SubSeq(part, leading + 1, n) = <<>> <=> leading = n
  <2>1. SubSeq(part, leading + 1, n) = <<>> <=> Len(SubSeq(part, leading + 1, n)) = 0 BY <1>7, EmptySeq
  <2> QED BY <2>1, <1>7, <1>0, <1>5
<1>10. SubSeq(part, leading + 1, n) = << 1 >> <=> leading = n - 1 /\ part[n] = 1
  <2>1. ASSUME SubSeq(part, leading + 1, n) = << 1 >> PROVE leading = n - 1 /\ part[n] = 1
    <3>1. Len(<< 1 >>) = 1 /\ << 1 >>[1] = 1 OBVIOUS
    <3>2. n - leading = 1 BY <2>1, <3>1, <1>7
    <3>3. leading = n - 1 /\ leading + 1 = n BY <3>2, <1>0, <1>5
    <3>4. 1 \in 1..n - leading BY <3>2
    <3> QED BY <3>1, <3>3, <3>4, <2>1, <1>7
  <2>2. ASSUME leading = n - 1, part[n] = 1 PROVE SubSeq(part, leading + 1, n) = << 1 >>
    <3> DEFINE t == SubSeq(part, leading + 1, n)
    <3>1. n - leading = 1 /\ leading + 1 = n BY <2>2, <1>0, <1>5
    <3>2. t \in Seq(Nat) /\ Len(t) = 1 /\ t[1] = 1
      <4>2. t[1] = part[leading + 1] BY <3>1, <1>7
      <4> QED BY <4>2, <3>1, <2>2, <1>7
    <3> HIDE DEF t
    <3>3. t = << 1 >> BY <3>2
    <3> QED BY <3>3 DEF t
  <2> QED BY <2>1, <2>2
<1>11. (n # 0 /\ part[n] = 1 /\ \A k \in 1..n - 1 : part[k] = 0) <=> (leading = n - 1 /\ part[n] = 1)
  <2>1. ASSUME n # 0, part[n] = 1, \A k \in 1..n - 1 : part[k] = 0 PROVE leading = n - 1 BY <2>1, <1>0, <1>5, <1>6
  <2>2. ASSUME leading = n - 1, part[n] = 1 PROVE n # 0 /\ \A k \in 1..n - 1 : part[k] = 0
    BY <2>2, <1>0, <1>5
  <2> QED BY <2>1, <2>2
<1> QED BY <1>4, <1>8, <1>9, <1>10, <1>11 DEF n

\* A version is known exactly if its numbers are.
Known(version) ==
  /\ Len(version) = 3 /\ \A i \in 1..3 : Digits(version[i])
  /\ Value(version[1]) = 1 /\ Value(version[2]) \in {0, 1}

\* The classifier of versions, which strips leading zeros from the digits, calls a version
\* supported exactly if the numbers it spells are those of a known one, however many digits.
LEMMA ClassifyByValue ==
  ASSUME NEW version \in Seq(Seq(0..10))
  PROVE  /\ Classify(version) = "Supported" <=> Known(version)
         /\ Classify(version) \in {"Missing", "Malformed", "Unsupported", "Supported"}
<1>1. ASSUME NEW part \in Seq(0..10)
      PROVE  /\ Value(part) = 0 <=> Significant(part) = <<>>
             /\ Value(part) = 1 <=> Significant(part) = << 1 >>
  <2>1. part \in Seq(Nat) /\ Len(part) \in Nat BY SeqMonotonic
  <2>2. PICK total : Summed(part, total) /\ Value(part) = total[Len(part)] BY <2>1, ValueSums
  <2> DEFINE n == Len(part)
  <2>4. /\ total[n] = 0 <=> \A k \in 1..n : part[k] = 0
        /\ total[n] = 1 <=> n # 0 /\ part[n] = 1 /\ \A k \in 1..n - 1 : part[k] = 0 BY <2>1, <2>2, SumsSmall
  <2> QED BY <2>2, <2>4, <2>1, TrimmedSmall
<1>2. DOMAIN version = 1..Len(version) /\ \A i \in DOMAIN version : version[i] \in Seq(0..10) OBVIOUS
<1>3. CASE version = <<<<>>>> BY <1>3 DEF Classify, Known
<1>4. CASE version # <<<<>>>> /\ (Len(version) # 3 \/ \E i \in DOMAIN version : ~Digits(version[i]))
  BY <1>4, <1>2 DEF Known, Classify
<1>5. CASE version # <<<<>>>> /\ Len(version) = 3 /\ \A i \in DOMAIN version : Digits(version[i])
  <2>2. 1 \in DOMAIN version /\ 2 \in DOMAIN version /\ DOMAIN version = 1..3 BY <1>5, <1>2
  <2> QED BY <1>5, <2>2, <1>1, <1>2 DEF Known, Classify
<1> QED BY <1>3, <1>4, <1>5

(***************************************************************************)
(* Orders                                                                  *)
(***************************************************************************)
LEMMA TargetsAreItems ==
  ASSUME NEW items, NEW i \in DOMAIN items
  PROVE  Targets(items, i) \subseteq DOMAIN items
  BY DEF Targets, Position

\* What is reached is the least set that holds the start and all that its members depend on.
LEMMA ReachedIsLeast ==
  ASSUME NEW items, NEW from \in DOMAIN items
  PROVE  /\ from \in Reached(items, from) /\ Reached(items, from) \subseteq DOMAIN items
         /\ Closed(items, Reached(items, from))
         /\ \A set \in SUBSET DOMAIN items : from \in set /\ Closed(items, set) => Reached(items, from) \subseteq set
<1>1. from \in Reached(items, from) /\ Reached(items, from) \subseteq DOMAIN items BY DEF Reached
<1>2. \A set \in SUBSET DOMAIN items : from \in set /\ Closed(items, set) => Reached(items, from) \subseteq set
  BY DEF Reached
<1>3. ASSUME NEW i \in Reached(items, from), NEW t \in Targets(items, i) PROVE t \in Reached(items, from)
  <2>2. ASSUME NEW set \in SUBSET DOMAIN items, from \in set, Closed(items, set) PROVE t \in set
    BY <1>2, <2>2 DEF Closed
  <2> QED BY <1>1, TargetsAreItems, <2>2 DEF Reached
<1> QED BY <1>1, <1>2, <1>3 DEF Closed

\* Without a cycle an item is not reached from what it depends on, which reaches less.
LEMMA ReachesLess ==
  ASSUME NEW items, NEW i \in DOMAIN items, NEW j \in Targets(items, i), ~HasCycle(items, i)
  PROVE  /\ j \in DOMAIN items /\ i \notin Reached(items, j) /\ Reached(items, j) \subseteq Reached(items, i)
<1>1. /\ j \in DOMAIN items /\ i \in Reached(items, i) /\ Closed(items, Reached(items, i))
      /\ Reached(items, i) \subseteq DOMAIN items
  BY TargetsAreItems, ReachedIsLeast
<1>2. j \in Reached(items, i) BY <1>1 DEF Closed
<1>4. ASSUME i \in Reached(items, j) PROVE FALSE
  <2> DEFINE set == {k \in Reached(items, i) : i \in Reached(items, k)}
  <2>1. i \in set BY <1>1
  <2>2. ASSUME NEW k \in set PROVE Targets(items, k) \cap set # {}
    <3>1. CASE k = i BY <3>1, <1>2, <1>4
    <3>2. CASE k # i
      <4> SUFFICES ASSUME Targets(items, k) \cap set = {} PROVE FALSE OBVIOUS
      <4>1. k \in Reached(items, i) /\ i \in Reached(items, k) /\ k \in DOMAIN items BY <2>2, <1>1
      <4>2. Targets(items, k) \subseteq Reached(items, i) /\ Targets(items, k) \subseteq DOMAIN items
        BY <4>1, <1>1, TargetsAreItems DEF Closed
      <4> DEFINE rest == {k} \union UNION {Reached(items, t) : t \in Targets(items, k)}
      <4>3. rest \in SUBSET DOMAIN items BY <4>2, ReachedIsLeast, <4>1
      <4>4. Closed(items, rest)
        <5>1. ASSUME NEW r \in rest, NEW t \in Targets(items, r) PROVE t \in rest
          <6>1. CASE r = k BY <6>1, <4>2, ReachedIsLeast
          <6>2. CASE r # k
            <7>1. PICK u \in Targets(items, k) : r \in Reached(items, u) BY <6>2
            <7> QED BY <7>1, <4>2, ReachedIsLeast DEF Closed
          <6> QED BY <6>1, <6>2
        <5> HIDE DEF rest
        <5> QED BY <5>1 DEF Closed
      <4>5. Reached(items, k) \subseteq rest
        <5>1. k \in rest OBVIOUS
        <5> HIDE DEF rest
        <5> QED BY <5>1, <4>1, <4>3, <4>4, ReachedIsLeast
      <4>6. PICK t \in Targets(items, k) : i \in Reached(items, t) BY <4>1, <4>5, <3>2
      <4> QED BY <4>6, <4>2
    <3> QED BY <3>1, <3>2
  <2>3. set \in SUBSET Reached(items, i) OBVIOUS
  <2> HIDE DEF set
  <2> QED BY <2>1, <2>2, <2>3 DEF HasCycle
<1> QED BY <1>1, <1>2, ReachedIsLeast, <1>4

\* Every local entry of an item names an item, and no item has a cycle.
Sorted(items) ==
  /\ \A i \in DOMAIN items : items[i].id # Blank /\ \A k \in 1..i - 1 : items[k].id # items[i].id
  /\ \A i \in DOMAIN items : \A k \in DOMAIN items[i].dependsOn :
       items[i].dependsOn[k].kind = "local" => \E j \in DOMAIN items : items[j].id = items[i].dependsOn[k].id
  /\ \A i \in DOMAIN items : ~HasCycle(items, i)

\* Where no name repeats an earlier one, one item has each name.
LEMMA OneOfEachName ==
  ASSUME NEW items, NEW n \in Nat, DOMAIN items = 1..n,
         \A i \in DOMAIN items : \A k \in 1..i - 1 : items[k].id # items[i].id,
         NEW i \in DOMAIN items, NEW k \in DOMAIN items, items[i].id = items[k].id
  PROVE  i = k OBVIOUS

\* Items with names of their own, whose dependencies exist and have no cycle, can be put in
\* an order: an item's rank is the number of items it reaches.
LEMMA SortedIsOrderable ==
  ASSUME NEW items, NEW n \in Nat, DOMAIN items = 1..n, Sorted(items)
  PROVE  Orderable(items)
<1> DEFINE rank == [i \in DOMAIN items |-> Cardinality(Reached(items, i))]
<1>0. \A i, k \in DOMAIN items : items[i].id # Blank /\ (items[i].id = items[k].id => i = k)
  BY OneOfEachName DEF Sorted
<1>1. IsFiniteSet(1..n) /\ Cardinality(1..n) = n
  <2>1. 1 \in Int /\ n \in Int OBVIOUS
  <2>2. IsFiniteSet(1..n) /\ Cardinality(1..n) = (IF 1 > n THEN 0 ELSE n - 1 + 1) BY ONLY <2>1, FS_Interval
  <2> QED BY <2>2
<1>2. ASSUME NEW i \in DOMAIN items
      PROVE  /\ IsFiniteSet(Reached(items, i)) /\ Cardinality(Reached(items, i)) \in Nat
             /\ Cardinality(Reached(items, i)) \in DOMAIN items
  BY <1>1, ReachedIsLeast, FS_Subset, FS_CardinalityType, FS_EmptySet
<1>3. rank \in [DOMAIN items -> DOMAIN items] BY <1>2
<1>4. ASSUME NEW i \in DOMAIN items, NEW k \in DOMAIN items[i].dependsOn, items[i].dependsOn[k].kind = "local"
      PROVE  \E j \in DOMAIN items : items[j].id = items[i].dependsOn[k].id /\ rank[j] < rank[i]
  <2>1. PICK j \in DOMAIN items : items[j].id = items[i].dependsOn[k].id BY <1>4 DEF Sorted
  <2>2. j \in Position(items, items[i].dependsOn[k].id) BY <1>0, <2>1 DEF Position
  <2>4. i \notin Reached(items, j) /\ Reached(items, j) \subseteq Reached(items, i) /\ i \in Reached(items, i)
    BY <2>2, <1>4, ReachesLess, ReachedIsLeast DEF Sorted, Targets
  <2> QED BY <2>1, <2>4, <1>2, FS_Subset
<1> HIDE DEF rank
<1> QED BY <1>0, <1>3, <1>4 DEF Orderable

\* A cycle depends on names and dependencies alone.
LEMMA SameCycles ==
  ASSUME NEW a, NEW b, DOMAIN a = DOMAIN b,
         \A i \in DOMAIN a : a[i].id = b[i].id /\ a[i].dependsOn = b[i].dependsOn
  PROVE  \A i \in DOMAIN a : HasCycle(a, i) <=> HasCycle(b, i)
<1>2. \A i \in DOMAIN a : Targets(a, i) = Targets(b, i) BY DEF Targets, Position
<1> QED BY <1>2 DEF HasCycle, Reached, Closed

(***************************************************************************)
(* A document without a fault, part by part                                *)
(***************************************************************************)
NamesItem(items, id) == id # Blank /\ \E j \in DOMAIN items : items[j].id = id
NamesNew(items, i) == items[i].id # Blank /\ \A k \in 1..i - 1 : items[k].id # items[i].id

ParseFine(d) ==
  \A i \in DOMAIN d.workflows : \A j \in DOMAIN d.workflows[i].steps : Cardinality(d.workflows[i].steps[j].targets) <= 1
HeadFine(d) ==
  /\ Known(d.version) /\ d.self \notin {"fragment", "malformed"} /\ d.titled
  /\ d.sources # <<>> /\ d.workflows # <<>> /\ d.keys \cap Spaced = {}
SourceFine(d, i) == d.sources[i].name # Blank /\ \A k \in 1..i - 1 : d.sources[k].name # d.sources[i].name
DependencyFine(d, r) ==
  \/ r.kind = "local" /\ NamesItem(d.workflows, r.id)
  \/ r.kind = "external" /\ \E n \in DOMAIN d.sources : d.sources[n].name = r.source /\ d.sources[n].type = "arazzo"
WorkflowFine(d, i) ==
  /\ NamesNew(d.workflows, i)
  /\ \A k \in DOMAIN d.workflows[i].dependsOn : DependencyFine(d, d.workflows[i].dependsOn[k])
TargetFine(d, step) ==
  CASE "operationPath" \in step.targets ->
         step.formed /\ step.action = Blank /\ step.source # Blank /\ \E n \in DOMAIN d.sources : d.sources[n].name = step.source
    [] "channelPath" \in step.targets -> step.action # Blank
    [] "workflowId" \in step.targets -> step.action = Blank
    [] OTHER -> step.targets # {}
CorrelationFine(step) ==
  step.correlated => step.action = "receive" /\ step.targets \cap {"operationId", "channelPath"} # {}
ApplicabilityFine(d, step) ==
  step.targets \in {{"operationId"}, {"channelPath"}} /\ step.formed =>
    \A n \in DOMAIN d.sources : d.sources[n].name = step.source =>
      d.sources[n].type = "asyncapi" \/ (step.targets = {"operationId"} /\ step.action = Blank /\ ~step.correlated)
StepFine(d, i, j) ==
  LET steps == d.workflows[i].steps IN
  /\ NamesNew(steps, j)
  /\ TargetFine(d, steps[j]) /\ CorrelationFine(steps[j]) /\ ApplicabilityFine(d, steps[j])
  /\ \A k \in DOMAIN steps[j].dependsOn : steps[j].dependsOn[k].kind = "local" /\ NamesItem(steps, steps[j].dependsOn[k].id)
EndFine(d, i) ==
  /\ \A j \in DOMAIN d.workflows[i].steps : ~HasCycle(d.workflows[i].steps, j)
  /\ ~HasCycle(d.workflows, i)
  /\ \A id \in d.workflows[i].outputs : NamesItem(d.workflows[i].steps, id)
TextFine(d, i) ==
  d.workflows[i].stepsGiven /\ \A j \in DOMAIN d.workflows[i].steps : d.workflows[i].steps[j].criteria \in {"absent", "listed"}

SourcesFine(d) == \A i \in DOMAIN d.sources : SourceFine(d, i)
WorkflowsFine(d) ==
  \A i \in DOMAIN d.workflows :
    WorkflowFine(d, i) /\ EndFine(d, i) /\ \A j \in DOMAIN d.workflows[i].steps : StepFine(d, i, j)
TextsFine(d) == \A i \in DOMAIN d.workflows : TextFine(d, i)
Faultless(d) == ParseFine(d) /\ HeadFine(d) /\ SourcesFine(d) /\ WorkflowsFine(d) /\ TextsFine(d)

(***************************************************************************)
(* The findings of each rule                                               *)
(***************************************************************************)
\* What no finding but one of a step's name looks like.
Repetition(f) == f.kind = "DuplicateIdentifier" /\ f.field = "stepId"
Usual(findings) == \A f \in findings : f.severity \in {"error", "warning"} /\ ~Repetition(f) /\ f.field # "arazzo"

\* The parts of a document are lists of what they hold.
LEMMA TypedParts ==
  ASSUME NEW d \in DocumentTexts
  PROVE  /\ Len(d.sources) \in Nat /\ DOMAIN d.sources = 1..Len(d.sources)
         /\ \A i \in DOMAIN d.sources : d.sources[i].name \in STRING /\ d.sources[i].type \in {"arazzo", "asyncapi", "openapi"}
         /\ Len(d.workflows) \in Nat /\ DOMAIN d.workflows = 1..Len(d.workflows)
         /\ \A i \in DOMAIN d.workflows : d.workflows[i] \in DocumentWorkflows
<1>1. d.sources \in Seq([name : STRING, type : {"arazzo", "asyncapi", "openapi"}]) /\ d.workflows \in Seq(DocumentWorkflows)
  BY DEF DocumentTexts
<1>3. ASSUME NEW i \in DOMAIN d.sources
      PROVE  d.sources[i].name \in STRING /\ d.sources[i].type \in {"arazzo", "asyncapi", "openapi"}
  <2> DEFINE list == d.sources
             S == [name : STRING, type : {"arazzo", "asyncapi", "openapi"}]
  <2>1. list \in Seq(S) /\ i \in DOMAIN list BY <1>1, <1>3
  <2> HIDE DEF list, S
  <2>2. list[i] \in S BY <2>1
  <2> QED BY <2>2 DEF list, S
<1>4. ASSUME NEW i \in DOMAIN d.workflows PROVE d.workflows[i] \in DocumentWorkflows
  <2> DEFINE list == d.workflows
  <2> HIDE DEF list
  <2> QED BY <1>1, <1>4 DEF list
<1> QED BY <1>1, <1>3, <1>4

\* So are the steps of its workflows.
LEMMA TypedSteps ==
  ASSUME NEW d \in DocumentTexts, NEW i \in DOMAIN d.workflows
  PROVE  /\ Len(d.workflows[i].steps) \in Nat /\ DOMAIN d.workflows[i].steps = 1..Len(d.workflows[i].steps)
         /\ \A j \in DOMAIN d.workflows[i].steps : d.workflows[i].steps[j] \in DocumentSteps
  BY TypedParts DEF DocumentWorkflows

\* Findings taken together: an error is in one of them, and what is usual is usual in each.
LEMMA Together ==
  ASSUME NEW a, NEW b
  PROVE  /\ Refused(a \union b) <=> Refused(a) \/ Refused(b)
         /\ Usual(a \union b) <=> Usual(a) /\ Usual(b)
  BY DEF Refused, Usual

\* The fields of a finding are those it was made of.
LEMMA Fields ==
  ASSUME NEW severity, NEW kind, NEW place, NEW field
  PROVE  /\ Finding(severity, kind, place, field).severity = severity /\ Finding(severity, kind, place, field).kind = kind
         /\ Finding(severity, kind, place, field).place = place /\ Finding(severity, kind, place, field).field = field
         /\ Error(kind, place, field) = Finding("error", kind, place, field)
  BY DEF Finding, Error

\* One error, or none, on a condition.
LEMMA Alone ==
  ASSUME NEW condition, NEW kind, NEW place, NEW field
  PROVE  /\ Refused(If(condition, {Error(kind, place, field)})) <=> condition
         /\ field \notin {"arazzo", "stepId"} => Usual(If(condition, {Error(kind, place, field)}))
         /\ field \notin {"arazzo", "stepId"} => Usual({Error(kind, place, field)})
         /\ Refused({Error(kind, place, field)}) /\ ~Refused({}) /\ Usual({})
<1> DEFINE e == Error(kind, place, field)
<1>1. e.severity = "error" /\ e.kind = kind /\ e.field = field BY Fields
<1> HIDE DEF e
<1>2. Refused({e}) /\ ~Refused({}) BY <1>1 DEF Refused
<1>3. Usual({}) /\ (field \notin {"arazzo", "stepId"} => Usual({e})) BY <1>1 DEF Usual, Repetition
<1>4. condition => If(condition, {e}) = {e} BY DEF If
<1>5. ~condition => If(condition, {e}) = {} BY DEF If
<1> QED BY <1>2, <1>3, <1>4, <1>5, Zenon DEF e

\* What is said of an identifier, by its three cases.
LEMMA IdentifierFindings ==
  ASSUME NEW id, NEW before, NEW place, NEW field
  PROVE  /\ id = Blank => IdentifierRule(id, before, place, field) = {Error("MissingRequiredField", place, field)}
         /\ id # Blank /\ id \in before => IdentifierRule(id, before, place, field) = {Error("DuplicateIdentifier", place, field)}
         /\ id # Blank /\ id \notin before =>
              IdentifierRule(id, before, place, field) \subseteq {Finding("warning", "InvalidIdentifier", place, field)}
  BY DEF IdentifierRule, If

\* An identifier is refused exactly if it is missing or was met before.
LEMMA IdentifierRefused ==
  ASSUME NEW id, NEW before, NEW place, NEW field
  PROVE  Refused(IdentifierRule(id, before, place, field)) <=> id = Blank \/ id \in before
<1> DEFINE fs == IdentifierRule(id, before, place, field)
           a == Error("MissingRequiredField", place, field)
           b == Error("DuplicateIdentifier", place, field)
           c == Finding("warning", "InvalidIdentifier", place, field)
<1>1. a.severity = "error" /\ b.severity = "error" /\ c.severity = "warning" BY Fields
<1>2. /\ id = Blank => fs = {a}
      /\ id # Blank /\ id \in before => fs = {b}
      /\ id # Blank /\ id \notin before => fs \subseteq {c}
  BY IdentifierFindings
<1> HIDE DEF a, b, c, fs
<1> QED BY <1>1, <1>2 DEF fs, Refused

\* All that is said of an identifier is said at its place and field.
LEMMA IdentifierFields ==
  ASSUME NEW id, NEW before, NEW place, NEW field, NEW f \in IdentifierRule(id, before, place, field)
  PROVE  /\ f.severity \in {"error", "warning"} /\ f.place = place /\ f.field = field
         /\ f.kind = "DuplicateIdentifier" => f = Error("DuplicateIdentifier", place, field) /\ id # Blank /\ id \in before
<1> DEFINE a == Error("MissingRequiredField", place, field)
           b == Error("DuplicateIdentifier", place, field)
           c == Finding("warning", "InvalidIdentifier", place, field)
<1>1. /\ a.severity = "error" /\ a.kind = "MissingRequiredField" /\ a.place = place /\ a.field = field
      /\ b.severity = "error" /\ b.kind = "DuplicateIdentifier" /\ b.place = place /\ b.field = field
      /\ c.severity = "warning" /\ c.kind = "InvalidIdentifier" /\ c.place = place /\ c.field = field
  BY Fields
<1>2. f = a \/ (f = b /\ id # Blank /\ id \in before) \/ f = c
  <2>1. /\ id = Blank => IdentifierRule(id, before, place, field) = {a}
        /\ id # Blank /\ id \in before => IdentifierRule(id, before, place, field) = {b}
        /\ id # Blank /\ id \notin before => IdentifierRule(id, before, place, field) \subseteq {c}
    BY IdentifierFindings
  <2> HIDE DEF a, b, c
  <2> QED BY <2>1
<1> HIDE DEF a, b, c
<1> QED BY <1>1, <1>2 DEF b

\* A duplicate is reported exactly if the identifier was met before.
LEMMA IdentifierRepeated ==
  ASSUME NEW id, NEW before, NEW place, NEW field
  PROVE  Error("DuplicateIdentifier", place, field) \in IdentifierRule(id, before, place, field) <=> id # Blank /\ id \in before
<1> DEFINE b == Error("DuplicateIdentifier", place, field)
<1>1. b.kind = "DuplicateIdentifier" BY Fields
<1>2. b \in IdentifierRule(id, before, place, field) => id # Blank /\ id \in before
  <2> HIDE DEF b
  <2> QED BY <1>1, IdentifierFields
<1> QED BY <1>2, IdentifierFindings

\* The version is refused exactly if it is not known, and nothing else is said of it.
LEMMA VersionFindings ==
  ASSUME Classify(doc.version) = "Supported" <=> Known(doc.version),
         Classify(doc.version) \in {"Missing", "Malformed", "Unsupported", "Supported"}
  PROVE  /\ Refused(VersionRule) <=> ~Known(doc.version)
         /\ (\E f \in VersionRule : f.field = "arazzo") <=> ~Known(doc.version)
         /\ \A f \in VersionRule : f.severity \in {"error", "warning"} /\ ~Repetition(f)
<1> DEFINE a == Error("MissingRequiredField", Nowhere, "arazzo")
           b == Error("UnsupportedVersion", Nowhere, "arazzo")
<1>1. a.severity = "error" /\ a.kind = "MissingRequiredField" /\ a.field = "arazzo" BY Fields
<1>2. b.severity = "error" /\ b.kind = "UnsupportedVersion" /\ b.field = "arazzo" BY Fields
<1>3. VersionRule = If(Classify(doc.version) = "Missing", {a})
                    \union If(Classify(doc.version) \in {"Malformed", "Unsupported"}, {b})
  BY DEF VersionRule
<1> HIDE DEF a, b
<1>4. CASE Known(doc.version) BY <1>3, <1>4 DEF Refused, If
<1>5. CASE ~Known(doc.version)
  <2>1. VersionRule \in {{a}, {b}}
    <3>1. CASE Classify(doc.version) = "Missing" BY <1>3, <3>1 DEF If
    <3>2. CASE Classify(doc.version) \in {"Malformed", "Unsupported"} BY <1>3, <3>2 DEF If
    <3> QED BY <3>1, <3>2, <1>5
  <2> QED BY <2>1, <1>1, <1>2, <1>5 DEF Refused, Repetition
<1> QED BY <1>4, <1>5

HeadFindings ==
  VersionRule
  \union If(doc.self \in {"fragment", "malformed"}, {Error("InvalidReference", Nowhere, "$self")})
  \union If(~doc.titled, {Error("MissingRequiredField", Nowhere, "info.title")})
  \union If(doc.sources = <<>>, {Error("MissingRequiredField", Nowhere, "sourceDescriptions")})
  \union If(doc.workflows = <<>>, {Error("MissingRequiredField", Nowhere, "workflows")})
  \union UNION {KeyRule(key) : key \in doc.keys}

\* The head of a document is refused exactly if it has a fault, and only a version that is
\* not known is reported in the field of the version.
LEMMA HeadFound ==
  ASSUME doc \in DocumentTexts, "arazzo" \notin Spaced,
         Classify(doc.version) = "Supported" <=> Known(doc.version),
         Classify(doc.version) \in {"Missing", "Malformed", "Unsupported", "Supported"}
  PROVE  /\ Refused(HeadFindings) <=> ~HeadFine(doc)
         /\ (\E f \in HeadFindings : f.field = "arazzo") <=> ~Known(doc.version)
         /\ \A f \in HeadFindings : f.severity \in {"error", "warning"} /\ ~Repetition(f)
<1> DEFINE keys == UNION {KeyRule(key) : key \in doc.keys}
           given == If(doc.self \in {"fragment", "malformed"}, {Error("InvalidReference", Nowhere, "$self")})
                    \union If(~doc.titled, {Error("MissingRequiredField", Nowhere, "info.title")})
                    \union If(doc.sources = <<>>, {Error("MissingRequiredField", Nowhere, "sourceDescriptions")})
                    \union If(doc.workflows = <<>>, {Error("MissingRequiredField", Nowhere, "workflows")})
<1>1. /\ Refused(given) <=> \/ doc.self \in {"fragment", "malformed"} \/ ~doc.titled
                            \/ doc.sources = <<>> \/ doc.workflows = <<>>
      /\ Usual(given)
  <2> DEFINE a == If(doc.self \in {"fragment", "malformed"}, {Error("InvalidReference", Nowhere, "$self")})
             b == If(~doc.titled, {Error("MissingRequiredField", Nowhere, "info.title")})
             c == If(doc.sources = <<>>, {Error("MissingRequiredField", Nowhere, "sourceDescriptions")})
             g == If(doc.workflows = <<>>, {Error("MissingRequiredField", Nowhere, "workflows")})
  <2>0. {"$self", "info.title", "sourceDescriptions", "workflows"} \cap {"arazzo", "stepId"} = {} OBVIOUS
  <2>1. (Refused(a) <=> doc.self \in {"fragment", "malformed"}) /\ Usual(a)
    <3> DEFINE e == Error("InvalidReference", Nowhere, "$self")
    <3>1. Refused({e}) /\ Usual({e}) /\ ~Refused({}) /\ Usual({}) BY <2>0, Alone
    <3>2. a = IF doc.self \in {"fragment", "malformed"} THEN {e} ELSE {} BY DEF If
    <3> HIDE DEF a, e
    <3>3. CASE doc.self \in {"fragment", "malformed"} BY <3>1, <3>2, <3>3
    <3>4. CASE doc.self \notin {"fragment", "malformed"} BY <3>1, <3>2, <3>4
    <3> QED BY <3>3, <3>4
  <2>2. (Refused(b) <=> ~doc.titled) /\ Usual(b) BY <2>0, Alone
  <2>3. (Refused(c) <=> doc.sources = <<>>) /\ Usual(c) BY <2>0, Alone
  <2>4. (Refused(g) <=> doc.workflows = <<>>) /\ Usual(g) BY <2>0, Alone
  <2> HIDE DEF a, b, c, g
  <2>5. given = a \union b \union c \union g BY DEF a, b, c, g
  <2> HIDE DEF given
  <2>6. (Refused(given) <=> Refused(a) \/ Refused(b) \/ Refused(c) \/ Refused(g))
        /\ (Usual(given) <=> Usual(a) /\ Usual(b) /\ Usual(c) /\ Usual(g))
    <3> DEFINE ab == a \union b  abc == ab \union c
    <3>1. (Refused(ab) <=> Refused(a) \/ Refused(b)) /\ (Usual(ab) <=> Usual(a) /\ Usual(b)) BY Together
    <3> HIDE DEF ab
    <3>2. (Refused(abc) <=> Refused(ab) \/ Refused(c)) /\ (Usual(abc) <=> Usual(ab) /\ Usual(c)) BY Together
    <3>3. given = abc \union g BY <2>5 DEF ab
    <3> HIDE DEF abc
    <3> QED BY <3>1, <3>2, <3>3, Together
  <2> QED BY <2>1, <2>2, <2>3, <2>4, <2>6
<1>2. ASSUME NEW key \in doc.keys
      PROVE  (Refused(KeyRule(key)) <=> key \in Spaced) /\ Usual(KeyRule(key))
  <2> DEFINE e == Error("InvalidIdentifier", Nowhere, key)
  <2>2. e.severity = "error" /\ e.kind = "InvalidIdentifier" /\ e.field = key BY Fields
  <2>3. KeyRule(key) = If(key \in Spaced, {e}) BY DEF KeyRule
  <2> HIDE DEF e
  <2> QED BY <2>2, <2>3 DEF Refused, Usual, Repetition, If
<1>3. (Refused(keys) <=> \E key \in doc.keys : key \in Spaced) /\ Usual(keys) BY <1>2 DEF Refused, Usual
<1>4. HeadFindings = VersionRule \union given \union keys BY DEF HeadFindings
<1> HIDE DEF keys, given
<1>5. (\E key \in doc.keys : key \in Spaced) <=> doc.keys \cap Spaced # {} OBVIOUS
<1>6. /\ Refused(VersionRule) <=> ~Known(doc.version)
      /\ (\E f \in VersionRule : f.field = "arazzo") <=> ~Known(doc.version)
      /\ \A f \in VersionRule : f.severity \in {"error", "warning"} /\ ~Repetition(f)
  BY VersionFindings
<1>7. Refused(HeadFindings) <=> ~HeadFine(doc) BY <1>1, <1>3, <1>4, <1>5, <1>6, Together, Zenon DEF HeadFine
<1> QED BY <1>1, <1>3, <1>4, <1>6, <1>7 DEF Usual

\* What is known of the sources once they are past.
SourcesMet ==
  /\ seen.sources = {doc.sources[i].name : i \in DOMAIN doc.sources} \ {Blank}
  /\ DOMAIN sourceTypes = {doc.sources[i].name : i \in DOMAIN doc.sources}
  /\ \A n \in DOMAIN sourceTypes : \E i \in DOMAIN doc.sources : doc.sources[i].name = n /\ doc.sources[i].type = sourceTypes[n]

\* In a document whose sources have no fault, a name names one source.
LEMMA OneSource ==
  ASSUME NEW d \in DocumentTexts, SourcesFine(d), NEW i \in DOMAIN d.sources, NEW k \in DOMAIN d.sources,
         d.sources[i].name = d.sources[k].name
  PROVE  i = k
  BY TypedParts DEF SourcesFine, SourceFine

\* A workflow's dependency is refused exactly if it has a fault: the type kept under a name
\* is the type of the one source of the name.
LEMMA DependencyFindings ==
  ASSUME doc \in DocumentTexts, SourcesMet, SourcesFine(doc), NEW r \in References, NEW place
  PROVE  (Refused(Dependency(r, place)) <=> ~DependencyFine(doc, r)) /\ Usual(Dependency(r, place))
<1> DEFINE e == Error("InvalidReference", place, "dependsOn")
           u == Finding("warning", "UnsupportedDependencyScope", place, "dependsOn")
<1>1. /\ e.severity = "error" /\ e.kind = "InvalidReference" /\ e.field = "dependsOn"
      /\ u.severity = "warning" /\ u.kind = "UnsupportedDependencyScope" /\ u.field = "dependsOn"
  BY Fields
<1>3. Dependency(r, place) =
        CASE r.kind = "local" -> IF r.id \notin WorkflowIds THEN {e} ELSE {}
          [] r.kind = "external" -> IF r.source \notin DOMAIN sourceTypes THEN {e}
                                    ELSE IF sourceTypes[r.source] = "arazzo" THEN {u} ELSE {e}
          [] OTHER -> {e}
  BY DEF Dependency, If
<1> HIDE DEF e, u
<1>4. Refused({e}) /\ ~Refused({}) /\ ~Refused({u}) /\ Usual({e}) /\ Usual({}) /\ Usual({u})
  BY <1>1 DEF Refused, Usual, Repetition
<1>5. CASE r.kind = "local" BY <1>5, <1>3, <1>4 DEF WorkflowIds, NamesItem, DependencyFine
<1>6. CASE r.kind = "external"
  <2> DEFINE known == \E n \in DOMAIN doc.sources : doc.sources[n].name = r.source /\ doc.sources[n].type = "arazzo"
  <2>1. DependencyFine(doc, r) <=> known BY <1>6 DEF DependencyFine
  <2>3. r.source \notin DOMAIN sourceTypes => ~known BY DEF SourcesMet
  <2>4. ASSUME r.source \in DOMAIN sourceTypes PROVE known <=> sourceTypes[r.source] = "arazzo"
    <3>1. PICK i \in DOMAIN doc.sources : doc.sources[i].name = r.source /\ doc.sources[i].type = sourceTypes[r.source]
      BY <2>4 DEF SourcesMet
    <3> QED BY <3>1, OneSource
  <2> HIDE DEF known
  <2> QED BY <2>1, <1>3, <1>6, <2>3, <2>4, <1>4
<1>7. CASE r.kind \in {"cross", "invalid"} BY <1>3, <1>7, <1>4 DEF DependencyFine
<1> QED BY <1>5, <1>6, <1>7 DEF References

BeginFindings ==
  IdentifierRule(Workflow.id, seen.workflows, <<"workflow", w>>, "workflowId")
  \union UNION {Dependency(Workflow.dependsOn[k], <<"workflow", w, k>>) : k \in DOMAIN Workflow.dependsOn}

\* The beginning of a workflow is refused exactly if its name or a dependency has a fault.
LEMMA BeginFound ==
  ASSUME doc \in DocumentTexts, SourcesMet, SourcesFine(doc), w \in DOMAIN doc.workflows,
         seen.workflows = {doc.workflows[i].id : i \in 1..w - 1} \ {Blank}
  PROVE  (Refused(BeginFindings) <=> ~WorkflowFine(doc, w)) /\ Usual(BeginFindings)
<1> DEFINE list == doc.workflows[w].dependsOn
           a == IdentifierRule(Workflow.id, seen.workflows, <<"workflow", w>>, "workflowId")
           b == UNION {Dependency(list[k], <<"workflow", w, k>>) : k \in DOMAIN list}
<1>2. list \in Seq(References) BY TypedParts DEF DocumentWorkflows
<1>3. BeginFindings = a \union b BY DEF BeginFindings, Workflow
<1>4. /\ Refused(a) <=> doc.workflows[w].id = Blank \/ doc.workflows[w].id \in seen.workflows
      /\ \A f \in a : f.severity \in {"error", "warning"} /\ f.field = "workflowId"
  <2> DEFINE id == doc.workflows[w].id  place == <<"workflow", w>>
  <2>1. a = IdentifierRule(id, seen.workflows, place, "workflowId") BY DEF Workflow
  <2> HIDE DEF a, id, place
  <2>2. /\ Refused(a) <=> id = Blank \/ id \in seen.workflows
        /\ \A f \in a : f.severity \in {"error", "warning"} /\ f.field = "workflowId"
    <3>2. ASSUME NEW f \in a PROVE f.severity \in {"error", "warning"} /\ f.field = "workflowId"
      <4>1. f \in IdentifierRule(id, seen.workflows, place, "workflowId") BY <2>1
      <4> QED BY ONLY <4>1, IdentifierFields
    <3> QED BY <2>1, IdentifierRefused, <3>2
  <2> QED BY <2>2 DEF id
<1>5. Refused(a) <=> ~NamesNew(doc.workflows, w)
  <2>1. doc.workflows[w].id \in seen.workflows
          <=> doc.workflows[w].id # Blank /\ \E k \in 1..w - 1 : doc.workflows[k].id = doc.workflows[w].id
    <3> DEFINE before == {doc.workflows[i].id : i \in 1..w - 1}
    <3> HIDE DEF before
    <3> QED OBVIOUS
  <2> QED BY <1>4, <2>1 DEF NamesNew
<1>6. Usual(a)
  <2> HIDE DEF a
  <2> QED BY <1>4 DEF Usual, Repetition
<1> HIDE DEF list, a
<1>7. ASSUME NEW k \in DOMAIN list PROVE list[k] \in References BY ONLY <1>2, <1>7
<1>9. (Refused(b) <=> \E k \in DOMAIN list : ~DependencyFine(doc, list[k])) /\ Usual(b)
  <2>1. Refused(b) <=> \E k \in DOMAIN list : Refused(Dependency(list[k], <<"workflow", w, k>>)) BY DEF Refused
  <2>2. (\A k \in DOMAIN list : Usual(Dependency(list[k], <<"workflow", w, k>>))) => Usual(b) BY DEF Usual
  <2> HIDE DEF b
  <2> QED BY <2>1, <2>2, <1>7, DependencyFindings
<1> HIDE DEF b
<1> QED BY <1>3, <1>5, <1>6, <1>9, Together DEF WorkflowFine, list

\* A step that was parsed has one target at most.
LEMMA TargetCount ==
  ASSUME NEW step \in DocumentSteps
  PROVE  IsFiniteSet(step.targets) /\ Cardinality(step.targets) \in Nat
<1>2. IsFiniteSet(Kinds)
  <2>2. Kinds = (({"operationId"} \union {"operationPath"}) \union {"channelPath"}) \union {"workflowId"} BY DEF Kinds
  <2> QED BY FS_Singleton, <2>2, FS_Union
<1> QED BY <1>2, FS_Subset, FS_CardinalityType DEF DocumentSteps

\* A step with at most one target has none or a single one.
LEMMA OneTarget ==
  ASSUME NEW step \in DocumentSteps, Cardinality(step.targets) <= 1
  PROVE  step.targets = {} \/ \E t \in Kinds : step.targets = {t}
<1>2. IsFiniteSet(step.targets) /\ Cardinality(step.targets) \in {0, 1} BY TargetCount
<1>3. CASE Cardinality(step.targets) = 0 BY <1>2, <1>3, FS_EmptySet
<1>4. CASE Cardinality(step.targets) = 1 BY <1>2, <1>4, FS_Singleton DEF DocumentSteps
<1> QED BY <1>2, <1>3, <1>4

\* The target of a step is refused exactly if it has a fault.
LEMMA TargetFindings ==
  ASSUME NEW step \in DocumentSteps, Step = step, SourcesMet,
         step.targets = {} \/ \E t \in Kinds : step.targets = {t}
  PROVE  (Refused(TargetRule) <=> ~TargetFine(doc, step)) /\ Usual(TargetRule)
<1> DEFINE place == Place
           unsourced == Error("InvalidReference", place, "operationPath")
           unformed == Error("UnsupportedOperationPath", place, "operationPath")
           action == Error("InvalidAsyncStep", place, "action")
           target == Error("InvalidStepTarget", place, "target")
<1>2. /\ Refused({target}) /\ Usual({target}) /\ Refused({action}) /\ Usual({action})
      /\ Refused({unsourced}) /\ Usual({unsourced}) /\ Refused({unformed}) /\ Usual({unformed})
      /\ ~Refused({}) /\ Usual({})
  <2> HIDE DEF place
  <2> QED BY Alone
<1>3. CASE step.targets = {} BY <1>3, <1>2 DEF TargetRule, TargetFine
<1>4. ASSUME NEW t \in Kinds, step.targets = {t}
      PROVE  (Refused(TargetRule) <=> ~TargetFine(doc, step)) /\ Usual(TargetRule)
  <2>1. Target = t BY <1>4 DEF Target
  <2>2. step.targets # {} BY <1>4
  <2>4. CASE t = "operationPath"
    <3> DEFINE known == step.source # Blank /\ \E n \in DOMAIN doc.sources : doc.sources[n].name = step.source
    <3>1. TargetRule = (If(step.formed /\ step.source \notin seen.sources, {unsourced}) \union If(~step.formed, {unformed}))
                       \union If(step.action # Blank, {action})
      BY <2>1, <2>2, <2>4 DEF TargetRule
    <3>2. step.source \notin seen.sources <=> ~known BY DEF SourcesMet
    <3>3. TargetFine(doc, step) <=> step.formed /\ step.action = Blank /\ known BY <1>4, <2>4 DEF TargetFine
    <3> HIDE DEF known, unsourced, unformed, action, target
    <3> DEFINE a == If(step.formed /\ step.source \notin seen.sources, {unsourced})
               b == If(~step.formed, {unformed})
               c == If(step.action # Blank, {action})
    <3> HIDE DEF a, b, c
    <3>7. TargetRule = (a \union b) \union c BY <3>1 DEF a, b, c
    <3>8. (Refused(a) <=> step.formed /\ ~known) /\ Usual(a) BY <3>2, <1>2 DEF a, If
    <3>9. (Refused(b) <=> ~step.formed) /\ Usual(b) BY <1>2 DEF b, If
    <3>10. (Refused(c) <=> step.action # Blank) /\ Usual(c) BY <1>2 DEF c, If
    <3>11. Refused(TargetRule) <=> Refused(a) \/ Refused(b) \/ Refused(c) BY <3>7, Together
    <3>12. Usual(TargetRule) BY <3>7, <3>8, <3>9, <3>10, Together
    <3> QED BY <3>3, <3>8, <3>9, <3>10, <3>11, <3>12 DEF DocumentSteps
  <2>5. CASE t = "channelPath"
    <3>1. TargetRule = IF step.action = Blank THEN {action} ELSE {} BY <2>1, <2>2, <2>5 DEF TargetRule, If
    <3> HIDE DEF action
    <3> QED BY <3>1, <1>4, <2>5, <1>2 DEF TargetFine
  <2>6. CASE t = "workflowId"
    <3>1. TargetRule = IF step.action # Blank THEN {action} ELSE {} BY <2>1, <2>2, <2>6 DEF TargetRule, If
    <3> HIDE DEF action
    <3> QED BY <3>1, <1>4, <2>6, <1>2 DEF TargetFine
  <2>7. CASE t = "operationId" BY <2>1, <2>2, <2>7, <1>4, <1>2 DEF TargetRule, TargetFine
  <2> QED BY <2>4, <2>5, <2>6, <2>7 DEF Kinds
<1> QED BY <1>3, <1>4

\* A correlation id is refused exactly where no message is received.
LEMMA CorrelationFindings ==
  ASSUME NEW step \in DocumentSteps, Step = step
  PROVE  (Refused(CorrelationRule) <=> ~CorrelationFine(step)) /\ Usual(CorrelationRule)
<1> DEFINE place == Place
           e == Error("InvalidAsyncStep", place, "correlationId")
           bad == step.correlated
                  /\ (step.action # "receive" \/ step.targets \cap {"operationId", "channelPath"} = {})
<1>1. CorrelationRule = IF bad THEN {e} ELSE {} BY DEF CorrelationRule, If
<1>2. CorrelationFine(step) <=> ~bad BY DEF CorrelationFine
<1> HIDE DEF place, bad
<1>3. Refused({e}) /\ Usual({e}) /\ ~Refused({}) /\ Usual({}) BY Alone
<1> HIDE DEF e
<1> QED BY <1>1, <1>2, <1>3

\* The fields of an exchange are refused exactly where the source that is named has no channels.
LEMMA ApplicabilityFindings ==
  ASSUME doc \in DocumentTexts, SourcesFine(doc), NEW step \in DocumentSteps, Step = step
  PROVE  (Refused(Applicability) <=> ~ApplicabilityFine(doc, step)) /\ Usual(Applicability)
<1> DEFINE place == Place
           path == Error("InvalidAsyncStep", place, "channelPath")
           action == Error("InvalidAsyncStep", place, "action")
           correlation == Error("InvalidAsyncStep", place, "correlationId")
<1>1. /\ Refused({path}) /\ Usual({path}) /\ Refused({action}) /\ Usual({action})
      /\ Refused({correlation}) /\ Usual({correlation}) /\ ~Refused({}) /\ Usual({})
  <2> HIDE DEF place
  <2> QED BY Alone
<1>3. CASE ~(step.targets \in {{"operationId"}, {"channelPath"}} /\ step.formed /\ Named(step.source) # {})
  BY <1>3, <1>1 DEF Applicability, ApplicabilityFine, Named
<1>4. CASE step.targets \in {{"operationId"}, {"channelPath"}} /\ step.formed /\ Named(step.source) # {}
  <2> DEFINE asked == CHOOSE i \in Named(step.source) : \A k \in Named(step.source) : i <= k
  <2>1. PICK n \in DOMAIN doc.sources : doc.sources[n].name = step.source BY <1>4 DEF Named
  <2>2. \A k \in DOMAIN doc.sources : doc.sources[k].name = step.source => k = n BY <2>1, OneSource
  <2>5. asked = n BY <2>1, <2>2, TypedParts DEF Named
  <2>6. Applicability =
          IF doc.sources[asked].type = "asyncapi" THEN {}
          ELSE IF Target = "channelPath" THEN {path}
          ELSE If(step.action # Blank, {action}) \union If(step.correlated, {correlation})
    BY <1>4 DEF Applicability
  <2> HIDE DEF asked, path, action, correlation
  <2>7. ApplicabilityFine(doc, step) <=>
          doc.sources[n].type = "asyncapi" \/ (step.targets = {"operationId"} /\ step.action = Blank /\ ~step.correlated)
    BY <1>4, <2>1, <2>2 DEF ApplicabilityFine
  <2>8. CASE doc.sources[n].type = "asyncapi" BY <2>5, <2>6, <2>7, <2>8, <1>1
  <2>9. CASE doc.sources[n].type # "asyncapi" /\ step.targets = {"channelPath"}
    BY <2>9, <2>5, <2>6, <2>7, <1>1 DEF Target
  <2>10. CASE doc.sources[n].type # "asyncapi" /\ step.targets = {"operationId"}
    BY <1>1, <2>10, <2>5, <2>6, Together, <2>7 DEF If, DocumentSteps, Target
  <2> QED BY <1>4, <2>8, <2>9, <2>10
<1> QED BY <1>3, <1>4

\* A step's dependency is refused exactly unless it names a step of the workflow.
LEMMA StepDependencyFindings ==
  ASSUME NEW r \in References, NEW place
  PROVE  /\ Refused(StepDependency(r, place)) <=> ~(r.kind = "local" /\ NamesItem(Workflow.steps, r.id))
         /\ Usual(StepDependency(r, place))
<1> DEFINE e == Error("InvalidReference", place, "dependsOn")
           u == Error("UnsupportedDependencyScope", place, "dependsOn")
<1>1. Refused({e}) /\ Usual({e}) /\ Refused({u}) /\ Usual({u}) /\ ~Refused({}) /\ Usual({}) BY Alone
<1>2. r.kind \in {"local", "cross", "external", "invalid"} BY DEF References
<1>4. StepDependency(r, place) = IF r.kind = "local" THEN (IF r.id \notin StepIds THEN {e} ELSE {})
                                 ELSE IF r.kind \in {"cross", "external"} THEN {u} ELSE {e}
  BY <1>2 DEF StepDependency, If
<1> HIDE DEF e, u
<1> QED BY <1>1, <1>2, <1>4 DEF StepIds, NamesItem

StepFindings ==
  IdentifierRule(Step.id, seen.steps, Place, "stepId")
  \union TargetRule \union CorrelationRule \union Applicability
  \union UNION {StepDependency(Step.dependsOn[k], Append(Place, k)) : k \in DOMAIN Step.dependsOn}

\* A step is refused exactly if it has a fault.
LEMMA StepFound ==
  ASSUME doc \in DocumentTexts, SourcesMet, SourcesFine(doc), ParseFine(doc), w \in DOMAIN doc.workflows,
         s \in DOMAIN doc.workflows[w].steps,
         seen.steps = {doc.workflows[w].steps[j].id : j \in 1..s - 1} \ {Blank}
  PROVE  Refused(StepFindings) <=> ~StepFine(doc, w, s)
<1> DEFINE list == doc.workflows[w].steps  step == list[s]  on == step.dependsOn
           a == IdentifierRule(Step.id, seen.steps, Place, "stepId")
           b == UNION {StepDependency(on[k], Append(Place, k)) : k \in DOMAIN on}
<1>1. step \in DocumentSteps /\ Step = step /\ Workflow.steps = list BY TypedSteps DEF Step, Workflow
<1>2. step.targets = {} \/ \E t \in Kinds : step.targets = {t} BY <1>1, OneTarget DEF ParseFine
<1>3. on \in Seq(References) BY <1>1 DEF DocumentSteps
<1>4. StepFindings = a \union TargetRule \union CorrelationRule \union Applicability \union b BY <1>1 DEF StepFindings
<1>5. Refused(a) <=> ~NamesNew(list, s)
  <2> DEFINE before == {list[j].id : j \in 1..s - 1}
  <2>1. Refused(a) <=> step.id = Blank \/ step.id \in seen.steps
    <3> HIDE DEF list
    <3> QED BY <1>1, IdentifierRefused
  <2>2. seen.steps = before \ {Blank} OBVIOUS
  <2>3. \A id : id \in before <=> \E k \in 1..s - 1 : list[k].id = id OBVIOUS
  <2> HIDE DEF before, a, list
  <2> QED BY <2>1, <2>2, <2>3 DEF NamesNew
<1> HIDE DEF list, a, step
<1>6. Refused(TargetRule) <=> ~TargetFine(doc, step) BY <1>1, <1>2, TargetFindings
<1>7. Refused(CorrelationRule) <=> ~CorrelationFine(step) BY <1>1, CorrelationFindings
<1>8. Refused(Applicability) <=> ~ApplicabilityFine(doc, step) BY <1>1, ApplicabilityFindings
<1>9. Refused(b) <=> \E k \in DOMAIN on : ~(on[k].kind = "local" /\ NamesItem(list, on[k].id))
  <2> HIDE DEF on
  <2>1. Refused(b) <=> \E k \in DOMAIN on : Refused(StepDependency(on[k], Append(Place, k))) BY DEF Refused
  <2>2. ASSUME NEW k \in DOMAIN on
        PROVE  Refused(StepDependency(on[k], Append(Place, k))) <=> ~(on[k].kind = "local" /\ NamesItem(list, on[k].id))
    <3>1. on[k] \in References BY ONLY <1>3, <2>2
    <3> QED BY <3>1, <1>1, StepDependencyFindings
  <2> HIDE DEF b
  <2> QED BY <2>1, <2>2
<1>10. StepFine(doc, w, s) <=>
         /\ NamesNew(list, s) /\ TargetFine(doc, step) /\ CorrelationFine(step) /\ ApplicabilityFine(doc, step)
         /\ \A k \in DOMAIN on : on[k].kind = "local" /\ NamesItem(list, on[k].id)
  <2>1. step = list[s] /\ on = list[s].dependsOn BY DEF step
  <2> HIDE DEF on
  <2> QED BY <2>1 DEF StepFine, list
<1> HIDE DEF b, on
<1>11. Refused(StepFindings) <=>
         Refused(a) \/ Refused(TargetRule) \/ Refused(CorrelationRule) \/ Refused(Applicability) \/ Refused(b)
  <2> DEFINE u == a \union TargetRule  v == u \union CorrelationRule  x == v \union Applicability
  <2>1. Refused(u) <=> Refused(a) \/ Refused(TargetRule) BY Together
  <2>2. Refused(v) <=> Refused(u) \/ Refused(CorrelationRule)
    <3> HIDE DEF u
    <3> QED BY Together
  <2>3. Refused(x) <=> Refused(v) \/ Refused(Applicability)
    <3> HIDE DEF v
    <3> QED BY Together
  <2>4. Refused(StepFindings) <=> Refused(x) \/ Refused(b)
    <3>1. StepFindings = x \union b BY <1>4
    <3> HIDE DEF x
    <3> QED BY <3>1, Together
  <2> HIDE DEF u, v, x
  <2> QED BY <2>1, <2>2, <2>3, <2>4
<1> QED BY <1>5, <1>6, <1>7, <1>8, <1>9, <1>10, <1>11

\* Of whatever the other rules find, nothing looks like a repeated name.
LEMMA ApplicabilityUsual == Usual(Applicability)
<1> DEFINE place == Place
           path == Error("InvalidAsyncStep", place, "channelPath")
           action == Error("InvalidAsyncStep", place, "action")
           correlation == Error("InvalidAsyncStep", place, "correlationId")
<1>1. Usual({path}) /\ Usual({action}) /\ Usual({correlation})
  <2> HIDE DEF place
  <2> QED BY Alone
<1>2. Applicability \subseteq {path, action, correlation} BY DEF Applicability, If
<1> HIDE DEF path, action, correlation
<1> QED BY <1>1, <1>2 DEF Usual

\* What is said of a dependency is an error or a warning, and neither of a version nor of a
\* repeated step.
LEMMA DependencyUsual ==
  ASSUME NEW r, NEW place
  PROVE  Usual(Dependency(r, place)) /\ Usual(StepDependency(r, place))
<1> DEFINE e == Error("InvalidReference", place, "dependsOn")
           u == Finding("warning", "UnsupportedDependencyScope", place, "dependsOn")
           v == Error("UnsupportedDependencyScope", place, "dependsOn")
<1>1. Usual({e}) /\ Usual({v}) BY Alone
<1>2. Usual({u})
  <2>1. u.severity = "warning" /\ u.kind = "UnsupportedDependencyScope" /\ u.field = "dependsOn" BY Fields
  <2> HIDE DEF u
  <2> QED BY <2>1 DEF Usual, Repetition
<1>3. Dependency(r, place) \subseteq {e, u}
  <2>1. CASE r.kind = "local" BY <2>1 DEF Dependency, If
  <2>2. CASE r.kind = "external" BY <2>2 DEF Dependency, If
  <2>3. CASE r.kind \notin {"local", "external"} BY <2>3 DEF Dependency, If
  <2> QED BY <2>1, <2>2, <2>3
<1>4. StepDependency(r, place) \subseteq {e, v}
  <2>1. CASE r.kind = "local" BY <2>1 DEF StepDependency, If
  <2>2. CASE r.kind \in {"cross", "external"} BY <2>2 DEF StepDependency, If
  <2>3. CASE r.kind \notin {"local", "cross", "external"} BY <2>3 DEF StepDependency, If
  <2> QED BY <2>1, <2>2, <2>3
<1> HIDE DEF e, u, v
<1> QED BY <1>1, <1>2, <1>3, <1>4 DEF Usual

\* A step's name is the one repetition that is reported of it.
Repeats(items, i) == items[i].id # Blank /\ \E k \in 1..i - 1 : items[k].id = items[i].id
Repeated(i, j) == Error("DuplicateIdentifier", <<"step", i, j>>, "stepId")

\* A step's findings report a repetition of its own name, exactly if it is one.
LEMMA StepFoundNames ==
  ASSUME doc \in DocumentTexts, SourcesMet, ParseFine(doc), w \in DOMAIN doc.workflows,
         s \in DOMAIN doc.workflows[w].steps,
         seen.steps = {doc.workflows[w].steps[j].id : j \in 1..s - 1} \ {Blank}
  PROVE  /\ \A f \in StepFindings : f.severity \in {"error", "warning"}
         /\ \A f \in StepFindings : Repetition(f) => f = Repeated(w, s)
         /\ Repeated(w, s) \in StepFindings <=> Repeats(doc.workflows[w].steps, s)
<1> DEFINE list == doc.workflows[w].steps  step == list[s]  on == step.dependsOn
           a == IdentifierRule(Step.id, seen.steps, Place, "stepId")
           b == UNION {StepDependency(on[k], Append(Place, k)) : k \in DOMAIN on}
<1>1. step \in DocumentSteps /\ Step = step BY TypedSteps DEF Step, Workflow
<1>2. step.targets = {} \/ \E t \in Kinds : step.targets = {t} BY <1>1, OneTarget DEF ParseFine
<1>3. StepFindings = a \union TargetRule \union CorrelationRule \union Applicability \union b BY <1>1 DEF StepFindings
<1> HIDE DEF step
<1>4. Usual(TargetRule) /\ Usual(CorrelationRule) /\ Usual(Applicability)
  BY <1>1, <1>2, TargetFindings, CorrelationFindings, ApplicabilityUsual
<1>5. Usual(b) BY DependencyUsual DEF Usual
<1> HIDE DEF b, a
<1>6. ASSUME NEW f \in a
      PROVE  f.severity \in {"error", "warning"} /\ (Repetition(f) => f = Error("DuplicateIdentifier", Place, "stepId"))
  <2>1. f \in IdentifierRule(Step.id, seen.steps, Place, "stepId") BY DEF a
  <2>2. /\ f.severity \in {"error", "warning"}
        /\ f.kind = "DuplicateIdentifier" => f = Error("DuplicateIdentifier", Place, "stepId")
    BY ONLY <2>1, IdentifierFields
  <2> QED BY <2>2 DEF Repetition
<1>7. Repeated(w, s) = Error("DuplicateIdentifier", Place, "stepId") BY DEF Repeated, Place
<1>8. Repeated(w, s) \in a <=> Step.id # Blank /\ Step.id \in seen.steps BY <1>7, IdentifierRepeated DEF a
<1>9. Step.id # Blank /\ Step.id \in seen.steps <=> Repeats(list, s)
  <2> DEFINE before == {list[j].id : j \in 1..s - 1}
  <2>1. seen.steps = before \ {Blank} OBVIOUS
  <2>2. \A id : id \in before <=> \E k \in 1..s - 1 : list[k].id = id OBVIOUS
  <2> HIDE DEF before, list
  <2> QED BY <2>1, <2>2, <1>1 DEF Repeats, step
<1>10. Repetition(Repeated(w, s)) BY Fields DEF Repeated, Repetition
<1> HIDE DEF on
<1>11. ASSUME NEW f \in StepFindings
       PROVE  f.severity \in {"error", "warning"} /\ (Repetition(f) => f \in a)
  BY <1>3, <1>4, <1>5, <1>6, <1>11 DEF Usual
<1> QED BY <1>3, <1>6, <1>7, <1>8, <1>9, <1>10, <1>11

(***************************************************************************)
(* Cycles and the text                                                     *)
(***************************************************************************)
EndFindings ==
  If(\E i \in DOMAIN Workflow.steps : HasCycle(Workflow.steps, i),
     {Error("DependencyCycle", <<"workflow", w>>, "steps")})
  \union If(HasCycle(doc.workflows, w), {Error("DependencyCycle", <<"workflow", w>>, "dependsOn")})
  \union UNION {If(id \notin StepIds, {Error("InvalidReference", <<"workflow", w>>, "outputs")}) : id \in Workflow.outputs}

\* The end of a workflow is refused exactly if there is a cycle or an output of no step.
LEMMA EndFound ==
  (Refused(EndFindings) <=> ~EndFine(doc, w)) /\ Usual(EndFindings)
<1> DEFINE place == <<"workflow", w>>  list == doc.workflows[w].steps
           steps == If(\E i \in DOMAIN list : HasCycle(list, i), {Error("DependencyCycle", place, "steps")})
           flows == If(HasCycle(doc.workflows, w), {Error("DependencyCycle", place, "dependsOn")})
           e == Error("InvalidReference", place, "outputs")
           outs == UNION {If(id \notin StepIds, {e}) : id \in doc.workflows[w].outputs}
<1>1. EndFindings = steps \union flows \union outs BY DEF EndFindings, Workflow
<1>2. \A id : id \in StepIds <=> NamesItem(list, id) BY DEF StepIds, NamesItem, Workflow
<1>3. EndFine(doc, w) <=>
        /\ ~\E i \in DOMAIN list : HasCycle(list, i)
        /\ ~HasCycle(doc.workflows, w)
        /\ \A id \in doc.workflows[w].outputs : id \in StepIds
  BY <1>2, Zenon DEF EndFine
<1> HIDE DEF place, list
<1>4. (Refused(steps) <=> \E i \in DOMAIN list : HasCycle(list, i)) /\ Usual(steps)
  <2> DEFINE any == \E i \in DOMAIN list : HasCycle(list, i)
  <2> HIDE DEF any
  <2> QED BY Alone DEF any
<1>5. (Refused(flows) <=> HasCycle(doc.workflows, w)) /\ Usual(flows) BY Alone
<1>6. (Refused(outs) <=> \E id \in doc.workflows[w].outputs : id \notin StepIds) /\ Usual(outs)
  <2>1. Refused({e}) /\ Usual({e}) /\ ~Refused({}) /\ Usual({}) BY Alone
  <2> HIDE DEF e
  <2>3. Refused(outs) <=> \E id \in doc.workflows[w].outputs : Refused(If(id \notin StepIds, {e})) BY DEF Refused
  <2>4. (\A id \in doc.workflows[w].outputs : Usual(If(id \notin StepIds, {e}))) => Usual(outs) BY DEF Usual
  <2> HIDE DEF outs
  <2> QED BY <2>1, <2>3, <2>4 DEF If
<1> HIDE DEF steps, flows, outs
<1> QED BY <1>3, <1>4, <1>5, <1>6, <1>1, Together

\* The text is refused exactly if a workflow has no list of steps or a step an empty list of
\* criteria.
LEMMA TextFound ==
  ASSUME doc \in DocumentTexts
  PROVE  /\ Refused(UNION {TextWorkflow(i) : i \in DOMAIN doc.workflows}) <=> ~TextsFine(doc)
         /\ Usual(UNION {TextWorkflow(i) : i \in DOMAIN doc.workflows})
<1>1. ASSUME NEW i \in DOMAIN doc.workflows
      PROVE  (Refused(TextWorkflow(i)) <=> ~TextFine(doc, i)) /\ Usual(TextWorkflow(i))
  <2> DEFINE list == doc.workflows[i].steps
             e(j) == Error("MissingRequiredField", <<"step", i, j>>, "successCriteria")
             g == Error("MissingRequiredField", <<"workflow", i>>, "steps")
  <2>1. \A j : Refused({e(j)}) /\ Usual({e(j)}) BY Alone
  <2>2. Refused({g}) /\ Usual({g}) /\ ~Refused({}) /\ Usual({}) BY Alone
  <2>3. \A j \in DOMAIN list : list[j].criteria \in {"absent", "null", "empty", "listed"} BY TypedSteps DEF DocumentSteps
  <2>4. \A j : TextStep(i, j) = IF list[j].criteria \in {"null", "empty"} THEN {e(j)} ELSE {} BY DEF TextStep, If
  <2>5. TextWorkflow(i) = IF ~doc.workflows[i].stepsGiven THEN {g} ELSE UNION {TextStep(i, j) : j \in DOMAIN list}
    BY DEF TextWorkflow
  <2>6. TextFine(doc, i) <=> doc.workflows[i].stepsGiven /\ \A j \in DOMAIN list : list[j].criteria \in {"absent", "listed"}
    BY DEF TextFine
  <2> HIDE DEF e, g, list
  <2>8. \A j \in DOMAIN list : /\ Refused(TextStep(i, j)) <=> list[j].criteria \in {"null", "empty"}
                               /\ Usual(TextStep(i, j))
    BY <2>1, <2>2, <2>4
  <2> DEFINE all == UNION {TextStep(i, j) : j \in DOMAIN list}
  <2>9. (Refused(all) <=> \E j \in DOMAIN list : Refused(TextStep(i, j)))
        /\ ((\A j \in DOMAIN list : Usual(TextStep(i, j))) => Usual(all))
    BY DEF Refused, Usual
  <2> HIDE DEF all
  <2>11. TextWorkflow(i) = IF ~doc.workflows[i].stepsGiven THEN {g} ELSE all BY <2>5 DEF all
  <2>12. CASE doc.workflows[i].stepsGiven BY <2>3, <2>6, <2>8, <2>9, <2>11, <2>12
  <2>13. CASE ~doc.workflows[i].stepsGiven BY <2>2, <2>6, <2>11, <2>13
  <2> QED BY TypedParts, <2>12, <2>13 DEF DocumentWorkflows
<1> DEFINE texts == UNION {TextWorkflow(i) : i \in DOMAIN doc.workflows}
<1> HIDE DEF texts
<1> QED BY <1>1 DEF texts, TextsFine, Refused, Usual

(***************************************************************************)
(* The pass over the document                                              *)
(***************************************************************************)
SourcesPast ==
  IF phase = "sources" THEN 1..w - 1 ELSE IF phase \in {"workflow", "steps", "done"} THEN DOMAIN doc.sources ELSE {}
WorkflowsPast ==
  IF phase \in {"workflow", "steps"} THEN 1..w - 1 ELSE IF phase = "done" THEN DOMAIN doc.workflows ELSE {}
StepPast(i, j) == i \in WorkflowsPast \/ (phase = "steps" /\ i = w /\ j < s)

PassTyped ==
  /\ doc \in DocumentTexts /\ written \in BOOLEAN /\ phase \in {"parse", "top", "sources", "workflow", "steps", "done"}
  /\ phase \in {"parse", "top"} => w = 1 /\ found = {}
  /\ phase = "sources" => w \in 1..Len(doc.sources) + 1
  /\ phase \in {"workflow", "done"} => w \in 1..Len(doc.workflows) + 1
  /\ phase = "steps" => w \in 1..Len(doc.workflows) /\ s \in 1..Len(doc.workflows[w].steps) + 1
  /\ \A f \in found : f.severity \in {"error", "warning"}
  /\ seen \in [sources : SUBSET STRING, workflows : SUBSET STRING, steps : SUBSET STRING]
  /\ DOMAIN sourceTypes \subseteq {doc.sources[i].name : i \in DOMAIN doc.sources}

\* What was met is what the document has up to here.
SourcesMetBefore(n) ==
  /\ seen.sources = {doc.sources[i].name : i \in 1..n} \ {Blank}
  /\ DOMAIN sourceTypes = {doc.sources[i].name : i \in 1..n}
  /\ \A name \in DOMAIN sourceTypes : \E i \in 1..n : doc.sources[i].name = name /\ doc.sources[i].type = sourceTypes[name]
IdsBefore(items, n) == {items[i].id : i \in 1..n} \ {Blank}
Met ==
  /\ phase \in {"parse", "top"} => SourcesMetBefore(0)
  /\ phase = "sources" => SourcesMetBefore(w - 1)
  /\ phase \in {"parse", "top", "sources"} => seen.workflows = {}
  /\ phase \in {"workflow", "steps"} => SourcesMet
  /\ phase = "workflow" => seen.workflows = IdsBefore(doc.workflows, w - 1)
  /\ phase = "steps" => seen.workflows = IdsBefore(doc.workflows, w) /\ seen.steps = IdsBefore(doc.workflows[w].steps, s - 1)

\* No error yet: nothing that was looked at has a fault.
WholeFine(d, i) == WorkflowFine(d, i) /\ EndFine(d, i) /\ \A j \in DOMAIN d.workflows[i].steps : StepFine(d, i, j)
Judged ==
  ~Refused(found) =>
    /\ phase \notin {"parse", "top"} => HeadFine(doc)
    /\ \A i \in SourcesPast : SourceFine(doc, i)
    /\ \A i \in WorkflowsPast : WholeFine(doc, i)
    /\ phase = "steps" => WorkflowFine(doc, w) /\ \A j \in 1..s - 1 : StepFine(doc, w, j)
    /\ phase = "done" => ParseFine(doc) /\ TextsFine(doc)
Parsed == phase \in {"top", "sources", "workflow", "steps"} => ParseFine(doc)
\* No fault: no error.
Unblamed == Faultless(doc) => ~Refused(found)
WrittenFine == written => Faultless(doc)

RepetitionsSoFar ==
  (\A f \in found : f.kind # "ParseYaml") =>
    \A i \in DOMAIN doc.workflows : \A j \in DOMAIN doc.workflows[i].steps :
      Repeated(i, j) \in found <=> Repeats(doc.workflows[i].steps, j) /\ StepPast(i, j)
VersionSoFar == phase = "sources" => (Known(doc.version) <=> \A f \in found : f.field # "arazzo")

RulesInv == PassTyped /\ Met /\ Parsed /\ Judged /\ Unblamed /\ WrittenFine /\ RepetitionsSoFar /\ VersionSoFar

\* At the start nothing was looked at and nothing found.
LEMMA RulesInvInit == RulesInit => RulesInv
<1> SUFFICES ASSUME RulesInit PROVE RulesInv OBVIOUS
<1>0. /\ doc \in DocumentTexts /\ phase = "parse" /\ w = 1 /\ s = 1 /\ found = {} /\ written = FALSE /\ sourceTypes = <<>>
      /\ seen = [sources |-> {}, workflows |-> {}, steps |-> {}]
  BY DocumentsAssumption DEF RulesInit
<1>1. DOMAIN sourceTypes = {} BY <1>0
<1>3. Met BY <1>0, <1>1 DEF Met, SourcesMetBefore
<1>6. Judged /\ Unblamed BY <1>0 DEF Judged, Unblamed, SourcesPast, WorkflowsPast, Refused
<1> QED
  BY <1>0, <1>1, <1>3, <1>6 DEF RulesInv, PassTyped, Parsed, WrittenFine, VersionSoFar, RepetitionsSoFar, StepPast,
     WorkflowsPast

\* Parsing keeps the invariant: it refuses exactly a step with several targets.
LEMMA ParseInv == ASSUME RulesInv, Parse PROVE RulesInv'
<1>0. /\ PassTyped /\ Met /\ WrittenFine /\ phase = "parse" /\ w = 1 /\ found = {}
      /\ doc' = doc /\ w' = w /\ s' = s /\ seen' = seen /\ sourceTypes' = sourceTypes /\ written' = written
  BY DEF RulesInv, PassTyped, Parse
<1>1. CASE ParseFine(doc)
  <2>1. found' = {} /\ phase' = "top"
    <3>1. \A i \in DOMAIN doc.workflows : \A j \in DOMAIN doc.workflows[i].steps :
            ~(Cardinality(doc.workflows[i].steps[j].targets) > 1)
      <4> TAKE i \in DOMAIN doc.workflows
      <4> TAKE j \in DOMAIN doc.workflows[i].steps
      <4> DEFINE n == Cardinality(doc.workflows[i].steps[j].targets)
      <4> HIDE DEF n
      <4> QED BY <1>0, TypedSteps, <1>1, TargetCount DEF n, ParseFine, PassTyped
    <3> QED BY <3>1 DEF Parse
  <2>6. Judged' /\ Unblamed' BY <2>1 DEF Judged, Unblamed, SourcesPast, WorkflowsPast, Refused
  <2>7. RepetitionsSoFar' BY <2>1 DEF RepetitionsSoFar, StepPast, WorkflowsPast
  <2> QED
    BY <1>0, <2>1, <1>1, <2>6, <2>7 DEF RulesInv, PassTyped, Met, SourcesMetBefore, Parsed, WrittenFine,
       VersionSoFar
<1>2. CASE ~ParseFine(doc)
  <2>1. found' = {Error("ParseYaml", Nowhere, Blank)} /\ phase' = "done"
    <3>1. PICK i \in DOMAIN doc.workflows : ~\A j \in DOMAIN doc.workflows[i].steps :
            Cardinality(doc.workflows[i].steps[j].targets) <= 1
      BY <1>2 DEF ParseFine
    <3>2. PICK j \in DOMAIN doc.workflows[i].steps : ~(Cardinality(doc.workflows[i].steps[j].targets) <= 1)
      BY <3>1
    <3>4. Cardinality(doc.workflows[i].steps[j].targets) > 1
      <4> DEFINE n == Cardinality(doc.workflows[i].steps[j].targets)
      <4> HIDE DEF n
      <4> QED BY <3>2, <1>0, TypedSteps, TargetCount DEF n, PassTyped
    <3> QED BY <3>4, <1>0 DEF Parse
  <2> DEFINE e == Error("ParseYaml", Nowhere, Blank)
  <2>2. e.severity = "error" /\ e.kind = "ParseYaml" BY Fields
  <2>3. found' = {e} BY <2>1
  <2> HIDE DEF e
  <2>4. PassTyped'
    <3>1. Len(doc.workflows) \in Nat BY <1>0, TypedParts DEF PassTyped
    <3> QED BY <3>1, <1>0, <2>1, <2>2, <2>3, SMTT(20) DEF PassTyped
  <2>7. Judged' BY <2>2, <2>3 DEF Judged, Refused
  <2>9. RepetitionsSoFar' BY <2>2, <2>3 DEF RepetitionsSoFar
  <2> QED
    BY <2>4, <1>0, <2>1, <2>7, <1>2, <2>9 DEF RulesInv, Met, Parsed, WrittenFine, VersionSoFar, Unblamed, Faultless
<1> QED BY <1>1, <1>2

\* A step of the pass that neither passes a step nor reports a repetition keeps what was
\* reported of repetitions.
LEMMA RepetitionsKept ==
  ASSUME RepetitionsSoFar, NEW more, found' = found \union more, \A f \in more : ~Repetition(f), doc' = doc,
         \A i \in DOMAIN doc.workflows : \A j \in DOMAIN doc.workflows[i].steps : StepPast(i, j)' <=> StepPast(i, j)
  PROVE  RepetitionsSoFar'
<1>1. ASSUME NEW i, NEW j PROVE Repeated(i, j) \notin more BY Fields DEF Repeated, Repetition
<1> SUFFICES ASSUME \A f \in found' : f.kind # "ParseYaml",
                    NEW i \in DOMAIN doc.workflows, NEW j \in DOMAIN doc.workflows[i].steps
             PROVE  Repeated(i, j) \in found' <=> Repeats(doc.workflows[i].steps, j) /\ StepPast(i, j)'
  BY DEF RepetitionsSoFar
<1> QED BY <1>1 DEF RepetitionsSoFar

\* What was refused stays refused.
LEMMA RefusedGrows ==
  ASSUME NEW more, found' = found \union more
  PROVE  Refused(found') <=> Refused(found) \/ Refused(more)
  BY Together

\* Looking at the head keeps the invariant.
LEMMA TopInv == ASSUME RulesInv, RulesTop PROVE RulesInv'
<1>0. /\ PassTyped /\ Met /\ Parsed /\ Judged /\ Unblamed /\ WrittenFine /\ RepetitionsSoFar
      /\ phase = "top" /\ phase' = "sources" /\ w = 1 /\ found = {} /\ found' = found \union HeadFindings
      /\ doc' = doc /\ w' = w /\ s' = s /\ seen' = seen /\ sourceTypes' = sourceTypes /\ written' = written
  BY DEF RulesInv, PassTyped, RulesTop, HeadFindings
<1>1. doc \in DocumentTexts /\ ParseFine(doc) BY <1>0 DEF PassTyped, Parsed
<1>4. /\ Refused(HeadFindings) <=> ~HeadFine(doc)
      /\ (\E f \in HeadFindings : f.field = "arazzo") <=> ~Known(doc.version)
      /\ \A f \in HeadFindings : f.severity \in {"error", "warning"} /\ ~Repetition(f)
  BY <1>1, ClassifyByValue, HeadFound, DocumentsAssumption DEF DocumentTexts
<1> HIDE DEF HeadFindings
<1>5. Refused(found') <=> ~HeadFine(doc) BY <1>0, <1>4, RefusedGrows DEF Refused
<1>6. found' = HeadFindings BY <1>0
<1>7. PassTyped' BY <1>1, TypedParts, <1>0, <1>4, <1>6 DEF PassTyped
<1>9. Parsed' /\ WrittenFine' /\ VersionSoFar' BY <1>0, <1>1, <1>4, <1>6 DEF Parsed, WrittenFine, VersionSoFar
<1>12. RepetitionsSoFar' BY <1>0, <1>4, RepetitionsKept DEF StepPast, WorkflowsPast
<1> QED
  BY <1>7, <1>0, <1>9, <1>5, <1>12 DEF RulesInv, Met, SourcesMetBefore, Judged, SourcesPast, WorkflowsPast,
     Unblamed, Faultless

\* Looking at a source keeps it: the names met are those up to here.
LEMMA SourceInv == ASSUME RulesInv, Source PROVE RulesInv'
<1> DEFINE source == doc.sources[w]
           more == IdentifierRule(source.name, seen.sources, <<"source", w>>, "name")
<1>0. /\ PassTyped /\ Met /\ Parsed /\ Judged /\ Unblamed /\ WrittenFine /\ RepetitionsSoFar /\ VersionSoFar
      /\ phase = "sources" /\ phase' = "sources" /\ w \in 1..Len(doc.sources) + 1 /\ w <= Len(doc.sources)
      /\ doc \in DocumentTexts /\ found' = found \union more /\ seen' = [seen EXCEPT !.sources = @ \union ({source.name} \ {Blank})]
      /\ sourceTypes' = [n \in DOMAIN sourceTypes \union {source.name} |-> IF n = source.name THEN source.type ELSE sourceTypes[n]]
      /\ doc' = doc /\ w' = w + 1 /\ s' = s /\ written' = written
  BY DEF RulesInv, PassTyped, Source
<1>1. Len(doc.sources) \in Nat /\ w \in 1..Len(doc.sources) /\ w \in DOMAIN doc.sources /\ w + 1 \in 1..Len(doc.sources) + 1
      /\ (w + 1) - 1 = w BY <1>0, TypedParts
<1>3. SourcesMetBefore(w - 1) BY <1>0 DEF Met
<1>4. 1..w = (1..w - 1) \union {w} BY <1>1
<1>5. source.name = Blank \/ source.name \in seen.sources <=> ~SourceFine(doc, w)
  BY <1>3, <1>1 DEF SourcesMetBefore, SourceFine
<1>6. Refused(more) <=> ~SourceFine(doc, w) BY <1>5, IdentifierRefused
<1>7. \A f \in more : f.severity \in {"error", "warning"} /\ f.field = "name" BY IdentifierFields
<1> HIDE DEF more
<1>8. Refused(found') <=> Refused(found) \/ ~SourceFine(doc, w) BY <1>0, <1>6, RefusedGrows
<1>9. SourcesMetBefore(w - 1)'
  <2>4. DOMAIN sourceTypes' = DOMAIN sourceTypes \union {source.name} BY <1>0
  <2>5. DOMAIN sourceTypes' = {doc.sources[i].name : i \in 1..w} BY <2>4, <1>3, <1>4 DEF SourcesMetBefore
  <2>6. ASSUME NEW name \in DOMAIN sourceTypes'
        PROVE  \E i \in 1..w : doc.sources[i].name = name /\ doc.sources[i].type = sourceTypes'[name]
    <3>1. CASE name = source.name BY <3>1, <1>0, <1>4
    <3>2. CASE name # source.name BY <3>2, <2>4, <1>0, <1>3, <1>4 DEF SourcesMetBefore
    <3> QED BY <3>1, <3>2
  <2>7. 1..w' - 1 = 1..w BY <1>0, <1>1
  <2>8. doc' = doc BY <1>0
  <2>9. seen'.sources = {doc'.sources[i].name : i \in 1..w' - 1} \ {Blank}
    BY <1>3, <1>0, <1>4, <2>7, <2>8 DEF SourcesMetBefore, PassTyped
  <2>10. DOMAIN sourceTypes' = {doc'.sources[i].name : i \in 1..w' - 1} BY <2>5, <2>7, <2>8
  <2> QED BY <2>9, <2>10, <2>6, <2>7, <2>8 DEF SourcesMetBefore
<1>10. PassTyped'
  <2>1. \A f \in found' : f.severity \in {"error", "warning"} BY <1>0, <1>7 DEF PassTyped
  <2>2. seen' \in [sources : SUBSET STRING, workflows : SUBSET STRING, steps : SUBSET STRING]
    BY <1>0, <1>1, TypedParts DEF PassTyped
  <2>3. DOMAIN sourceTypes' \subseteq {doc.sources[i].name : i \in DOMAIN doc.sources} BY <1>0, <1>1 DEF PassTyped
  <2> HIDE DEF source
  <2> QED BY <2>1, <2>2, <2>3, <1>0, <1>1 DEF PassTyped
<1>11. Met' /\ Parsed' /\ WrittenFine' BY <1>0, <1>9 DEF Met, Parsed, WrittenFine, PassTyped
<1>12. VersionSoFar' BY <1>0, <1>7 DEF VersionSoFar
<1>13. Judged' BY <1>0, <1>1, <1>4, <1>8 DEF Judged, SourcesPast, WorkflowsPast
<1>14. Unblamed' BY <1>1, <1>0, <1>8 DEF Unblamed, Faultless, SourcesFine
<1>15. RepetitionsSoFar' BY <1>7, <1>0, RepetitionsKept DEF Repetition, StepPast, WorkflowsPast
<1> QED BY <1>10, <1>11, <1>12, <1>13, <1>14, <1>15 DEF RulesInv

\* Having looked at the last source keeps it: all sources are met.
LEMMA SourcesDoneInv == ASSUME RulesInv, SourcesDone PROVE RulesInv'
<1>0. /\ PassTyped /\ Met /\ Parsed /\ Judged /\ Unblamed /\ WrittenFine /\ RepetitionsSoFar
      /\ phase = "sources" /\ phase' = "workflow" /\ w \in 1..Len(doc.sources) + 1 /\ w > Len(doc.sources) /\ w' = 1
      /\ doc \in DocumentTexts /\ found' = found /\ doc' = doc /\ s' = s /\ seen' = seen /\ sourceTypes' = sourceTypes
      /\ written' = written
  BY DEF RulesInv, PassTyped, SourcesDone
<1>1. 1..w - 1 = DOMAIN doc.sources /\ Len(doc.workflows) \in Nat BY <1>0, TypedParts
<1>3. Met'
  <2>1. SourcesMet BY <1>0, <1>1 DEF Met, SourcesMetBefore, SourcesMet
  <2> QED BY <2>1, <1>0 DEF Met, SourcesMet, IdsBefore
<1>6. Unblamed' BY <1>0 DEF Unblamed
<1>7. RepetitionsSoFar'
  <2>1. \A i \in DOMAIN doc.workflows : \A j \in DOMAIN doc.workflows[i].steps : StepPast(i, j)' <=> StepPast(i, j)
    BY <1>0 DEF StepPast, WorkflowsPast
  <2> QED BY <2>1, <1>0, RepetitionsKept
<1> QED
  BY <1>0, <1>1, <1>3, <1>6, <1>7 DEF RulesInv, Parsed, WrittenFine, VersionSoFar, PassTyped, Judged, SourcesPast,
     WorkflowsPast

\* Whatever the sources are, the beginning of a workflow reports no repeated step.
LEMMA BeginUsual == Usual(BeginFindings)
<1> DEFINE named == IdentifierRule(Workflow.id, seen.workflows, <<"workflow", w>>, "workflowId")
           listed == UNION {Dependency(Workflow.dependsOn[k], <<"workflow", w, k>>) : k \in DOMAIN Workflow.dependsOn}
<1>1. Usual(named) BY IdentifierFields DEF Usual, Repetition
<1>2. Usual(listed)
  <2>1. ASSUME NEW k \in DOMAIN Workflow.dependsOn PROVE Usual(Dependency(Workflow.dependsOn[k], <<"workflow", w, k>>))
    BY DependencyUsual
  <2> QED BY <2>1 DEF Usual
<1>3. BeginFindings = named \union listed BY DEF BeginFindings
<1> HIDE DEF named, listed
<1> QED BY <1>1, <1>2, <1>3, Together

\* The beginning of a workflow keeps it.
LEMMA BeginInv == ASSUME RulesInv, BeginWorkflow PROVE RulesInv'
<1>0. /\ PassTyped /\ Met /\ Parsed /\ Judged /\ Unblamed /\ WrittenFine /\ RepetitionsSoFar
      /\ phase = "workflow" /\ phase' = "steps" /\ w \in 1..Len(doc.workflows) + 1 /\ w <= Len(doc.workflows) /\ w' = w
      /\ doc \in DocumentTexts /\ found' = found \union BeginFindings /\ doc' = doc /\ s' = 1
      /\ seen' = [seen EXCEPT !.workflows = @ \union ({doc.workflows[w].id} \ {Blank}), !.steps = {}]
      /\ sourceTypes' = sourceTypes /\ written' = written
  BY DEF RulesInv, PassTyped, BeginWorkflow, BeginFindings, Workflow
<1>1. Len(doc.workflows) \in Nat /\ w \in 1..Len(doc.workflows) /\ w \in DOMAIN doc.workflows /\ DOMAIN doc.workflows = 1..Len(doc.workflows)
  BY <1>0, TypedParts
<1>2. /\ doc.workflows[w].id \in STRING /\ Len(doc.workflows[w].steps) \in Nat
      /\ DOMAIN doc.workflows[w].steps = 1..Len(doc.workflows[w].steps)
  BY <1>0, <1>1, TypedParts, TypedSteps DEF DocumentWorkflows
<1>3. SourcesMet /\ seen.workflows = IdsBefore(doc.workflows, w - 1) BY <1>0 DEF Met
<1>5. Usual(BeginFindings) BY BeginUsual
<1>6. ~Refused(found) => (Refused(BeginFindings) <=> ~WorkflowFine(doc, w))
  <2> SUFFICES ASSUME ~Refused(found) PROVE Refused(BeginFindings) <=> ~WorkflowFine(doc, w) OBVIOUS
  <2> QED BY <1>0, <1>1, <1>3, BeginFound DEF IdsBefore, Judged, SourcesPast, SourcesFine
<1>7. Refused(found') <=> Refused(found) \/ Refused(BeginFindings) BY <1>0, RefusedGrows
<1>8. PassTyped'
  <2>3. s' \in 1..Len(doc.workflows[w].steps) + 1 BY <1>0, <1>2
  <2> QED BY <1>0, <1>5, <1>2, <2>3, <1>1 DEF PassTyped, Usual
<1>9. Met' BY <1>0, <1>3, <1>1 DEF Met, IdsBefore, SourcesMet, PassTyped, Parsed
<1>11. Judged' BY <1>0, <1>6, <1>7 DEF Judged, SourcesPast, WorkflowsPast
<1>12. Unblamed' BY <1>1, <1>0, <1>6, <1>7 DEF Unblamed, Faultless, WorkflowsFine
<1>13. RepetitionsSoFar'
  <2>1. \A i \in DOMAIN doc.workflows : \A j \in DOMAIN doc.workflows[i].steps : StepPast(i, j)' <=> StepPast(i, j)
    <3> SUFFICES ASSUME NEW i \in DOMAIN doc.workflows, NEW j \in DOMAIN doc.workflows[i].steps
                 PROVE  StepPast(i, j)' <=> StepPast(i, j)
      OBVIOUS
    <3> QED BY <1>2, <1>0 DEF StepPast, WorkflowsPast
  <2> QED BY <2>1, <1>5, <1>0, RepetitionsKept DEF Usual
<1> QED BY <1>8, <1>9, <1>0, <1>11, <1>12, <1>13 DEF RulesInv, Parsed, WrittenFine, VersionSoFar

\* Looking at a step keeps it: its repetition is reported, and no other.
LEMMA StepInv == ASSUME RulesInv, StepRules PROVE RulesInv'
<1>0. /\ PassTyped /\ Met /\ Parsed /\ Judged /\ Unblamed /\ WrittenFine /\ RepetitionsSoFar
      /\ phase = "steps" /\ phase' = "steps" /\ w \in 1..Len(doc.workflows) /\ w' = w
      /\ s \in 1..Len(doc.workflows[w].steps) + 1 /\ s <= Len(doc.workflows[w].steps) /\ s' = s + 1
      /\ doc \in DocumentTexts /\ found' = found \union StepFindings /\ doc' = doc
      /\ seen' = [seen EXCEPT !.steps = @ \union ({doc.workflows[w].steps[s].id} \ {Blank})]
      /\ sourceTypes' = sourceTypes /\ written' = written
  BY DEF RulesInv, PassTyped, StepRules, StepFindings, Workflow, Step
<1>1. w \in DOMAIN doc.workflows /\ Len(doc.workflows) \in Nat BY <1>0, TypedParts
<1>2. /\ Len(doc.workflows[w].steps) \in Nat /\ s \in 1..Len(doc.workflows[w].steps) /\ s \in DOMAIN doc.workflows[w].steps
      /\ s' \in 1..Len(doc.workflows[w].steps) + 1 /\ s' - 1 = s
      /\ DOMAIN doc.workflows[w].steps = 1..Len(doc.workflows[w].steps) BY <1>0, <1>1, TypedSteps
<1>4. SourcesMet /\ ParseFine(doc) /\ seen.steps = IdsBefore(doc.workflows[w].steps, s - 1) BY <1>0 DEF Met, Parsed
<1>5. 1..s = (1..s - 1) \union {s} BY <1>2
<1>6. /\ \A f \in StepFindings : f.severity \in {"error", "warning"}
      /\ \A f \in StepFindings : Repetition(f) => f = Repeated(w, s)
      /\ Repeated(w, s) \in StepFindings <=> Repeats(doc.workflows[w].steps, s)
  BY <1>0, <1>1, <1>2, <1>4, StepFoundNames DEF IdsBefore
<1>7. ~Refused(found) => (Refused(StepFindings) <=> ~StepFine(doc, w, s))
  <2> SUFFICES ASSUME ~Refused(found) PROVE Refused(StepFindings) <=> ~StepFine(doc, w, s) OBVIOUS
  <2> QED BY <1>0, <1>1, <1>2, <1>4, StepFound DEF IdsBefore, Judged, SourcesPast, SourcesFine
<1>8. Refused(found') <=> Refused(found) \/ Refused(StepFindings) BY <1>0, RefusedGrows
<1>9. PassTyped' BY <1>0, <1>6, <1>1, <1>2, TypedSteps DEF PassTyped, DocumentSteps
<1>10. Met'
  <2>1. SourcesMet' BY <1>0, <1>4 DEF SourcesMet, PassTyped
  <2>2. seen'.workflows = IdsBefore(doc.workflows, w) BY <1>0 DEF Met, PassTyped
  <2> QED BY <2>1, <2>2, <1>0, <1>4, <1>5, <1>2 DEF Met, IdsBefore, PassTyped
<1>12. Judged' BY <1>2, <1>5, <1>0, <1>7, <1>8 DEF Judged, SourcesPast, WorkflowsPast
<1>13. Unblamed' BY <1>1, <1>2, <1>0, <1>7, <1>8 DEF Unblamed, Faultless, WorkflowsFine
<1>14. RepetitionsSoFar'
  <2> SUFFICES ASSUME \A f \in found' : f.kind # "ParseYaml",
                      NEW i \in DOMAIN doc.workflows, NEW j \in DOMAIN doc.workflows[i].steps
               PROVE  Repeated(i, j) \in found' <=> Repeats(doc.workflows[i].steps, j) /\ StepPast(i, j)'
    BY <1>0 DEF RepetitionsSoFar
  <2>1. Repeated(i, j) \in found <=> Repeats(doc.workflows[i].steps, j) /\ StepPast(i, j)
    BY <1>0 DEF RepetitionsSoFar
  <2>2. CASE i = w /\ j = s BY <2>2, <1>0, <1>2, <2>1, <1>6 DEF StepPast, WorkflowsPast
  <2>3. CASE ~(i = w /\ j = s)
    <3>1. Repeated(i, j) \notin StepFindings BY Fields, <2>3, <1>6 DEF Repeated, Repetition
    <3>2. StepPast(i, j)' <=> StepPast(i, j)
      <4>1. CASE i = w BY <4>1, <2>3, <1>2, <1>0 DEF StepPast, WorkflowsPast
      <4>2. CASE i # w BY <4>2, <1>0 DEF StepPast, WorkflowsPast
      <4> QED BY <4>1, <4>2
    <3> QED BY <3>1, <3>2, <2>1, <1>0
  <2> QED BY <2>2, <2>3
<1> QED BY <1>9, <1>10, <1>0, <1>12, <1>13, <1>14 DEF RulesInv, Parsed, WrittenFine, VersionSoFar

\* The end of a workflow keeps it: all its steps were looked at.
LEMMA EndInv == ASSUME RulesInv, EndWorkflow PROVE RulesInv'
<1>0. /\ PassTyped /\ Met /\ Parsed /\ Judged /\ Unblamed /\ WrittenFine /\ RepetitionsSoFar
      /\ phase = "steps" /\ phase' = "workflow" /\ w \in 1..Len(doc.workflows) /\ w' = w + 1
      /\ s \in 1..Len(doc.workflows[w].steps) + 1 /\ s > Len(doc.workflows[w].steps) /\ s' = s
      /\ doc \in DocumentTexts /\ found' = found \union EndFindings /\ doc' = doc /\ seen' = seen
      /\ sourceTypes' = sourceTypes /\ written' = written
  BY DEF RulesInv, PassTyped, EndWorkflow, EndFindings, Workflow
<1>1. w \in DOMAIN doc.workflows /\ Len(doc.workflows) \in Nat /\ w' \in 1..Len(doc.workflows) + 1 /\ w' - 1 = w
  BY <1>0, TypedParts
<1>2. 1..s - 1 = DOMAIN doc.workflows[w].steps BY <1>0, <1>1, TypedSteps
<1>3. 1..w = (1..w - 1) \union {w} BY <1>0
<1>4. (Refused(EndFindings) <=> ~EndFine(doc, w)) /\ Usual(EndFindings) BY EndFound
<1>5. Refused(found') <=> Refused(found) \/ ~EndFine(doc, w) BY <1>0, <1>4, RefusedGrows
<1>6. PassTyped' BY <1>0, <1>4, <1>1 DEF PassTyped, Usual
<1>9. Judged'
  <2> SUFFICES ASSUME ~Refused(found') PROVE Judged' BY DEF Judged
  <2> QED BY <1>0, <1>5, <1>2, <1>1, <1>3 DEF Judged, SourcesPast, WorkflowsPast, WholeFine
<1>10. Unblamed' BY <1>1, <1>0, <1>5 DEF Unblamed, Faultless, WorkflowsFine
<1>11. RepetitionsSoFar'
  <2>1. \A i \in DOMAIN doc.workflows : \A j \in DOMAIN doc.workflows[i].steps : StepPast(i, j)' <=> StepPast(i, j)
    <3> SUFFICES ASSUME NEW i \in DOMAIN doc.workflows, NEW j \in DOMAIN doc.workflows[i].steps
                 PROVE  StepPast(i, j)' <=> StepPast(i, j)
      OBVIOUS
    <3> QED BY <1>1, <1>3, <1>0, <1>2 DEF StepPast, WorkflowsPast
  <2> QED BY <2>1, <1>4, <1>0, RepetitionsKept DEF Usual
<1> QED
  BY <1>6, <1>0, <1>1, <1>9, <1>10, <1>11 DEF RulesInv, Parsed, WrittenFine, VersionSoFar, Met, IdsBefore,
     SourcesMet

\* Looking at the text keeps it: all workflows were looked at.
LEMMA TextInv == ASSUME RulesInv, Text PROVE RulesInv'
<1> DEFINE texts == UNION {TextWorkflow(i) : i \in DOMAIN doc.workflows}
<1>0. /\ PassTyped /\ Met /\ Parsed /\ Judged /\ Unblamed /\ WrittenFine /\ RepetitionsSoFar
      /\ phase = "workflow" /\ phase' = "done" /\ w \in 1..Len(doc.workflows) + 1 /\ w > Len(doc.workflows) /\ w' = w
      /\ doc \in DocumentTexts /\ found' = found \union texts /\ doc' = doc /\ s' = s /\ seen' = seen
      /\ sourceTypes' = sourceTypes /\ written' = written
  BY DEF RulesInv, PassTyped, Text
<1>1. 1..w - 1 = DOMAIN doc.workflows BY <1>0, TypedParts
<1>2. (Refused(texts) <=> ~TextsFine(doc)) /\ Usual(texts) BY <1>0, TextFound
<1> HIDE DEF texts
<1>3. Refused(found') <=> Refused(found) \/ ~TextsFine(doc) BY <1>0, <1>2, RefusedGrows
<1>6. Judged'
  <2> SUFFICES ASSUME ~Refused(found') PROVE Judged' BY DEF Judged
  <2> QED BY <1>0, <1>3, <1>1 DEF Judged, SourcesPast, WorkflowsPast, Parsed
<1>7. Unblamed' BY <1>0, <1>3 DEF Unblamed, Faultless
<1>8. RepetitionsSoFar' BY <1>0, <1>1, <1>2, RepetitionsKept DEF StepPast, WorkflowsPast, Usual
<1> QED BY <1>0, <1>2, <1>6, <1>7, <1>8 DEF RulesInv, Met, Parsed, WrittenFine, VersionSoFar, PassTyped, Usual

\* A document that is accepted has no fault.
LEMMA DoneFaultless == ASSUME RulesInv, phase = "done", ~Refused(found) PROVE Faultless(doc)
  BY DEF Faultless, RulesInv, Judged, SourcesPast, SourcesFine, WorkflowsPast, WorkflowsFine, WholeFine

\* A step that is written out differs in its criteria only.
LEMMA WrittenSteps ==
  ASSUME NEW step \in DocumentSteps
  PROVE  /\ WrittenStep(step) \in DocumentSteps
         /\ WrittenStep(step).id = step.id /\ WrittenStep(step).targets = step.targets /\ WrittenStep(step).source = step.source
         /\ WrittenStep(step).formed = step.formed /\ WrittenStep(step).action = step.action
         /\ WrittenStep(step).correlated = step.correlated /\ WrittenStep(step).dependsOn = step.dependsOn
         /\ WrittenStep(step).criteria \in {"absent", "listed"}
  BY DEF WrittenStep, DocumentSteps

\* A workflow that is written out has its steps, written out.
LEMMA WrittenWorkflows ==
  ASSUME NEW flow \in DocumentWorkflows
  PROVE  /\ WrittenWorkflow(flow) \in DocumentWorkflows
         /\ WrittenWorkflow(flow).id = flow.id /\ WrittenWorkflow(flow).dependsOn = flow.dependsOn
         /\ WrittenWorkflow(flow).outputs = flow.outputs /\ WrittenWorkflow(flow).stepsGiven = TRUE
         /\ DOMAIN WrittenWorkflow(flow).steps = DOMAIN flow.steps
         /\ \A j \in DOMAIN flow.steps : WrittenWorkflow(flow).steps[j] = WrittenStep(flow.steps[j])
<1> DEFINE list == [j \in DOMAIN flow.steps |-> WrittenStep(flow.steps[j])]
<1>1. flow.steps \in Seq(DocumentSteps) BY DEF DocumentWorkflows
<1>3. ASSUME NEW j \in DOMAIN flow.steps PROVE WrittenStep(flow.steps[j]) \in DocumentSteps BY <1>1, WrittenSteps
<1>4. list \in Seq(DocumentSteps) BY <1>1, <1>3
<1>5. DOMAIN list = DOMAIN flow.steps /\ \A j \in DOMAIN flow.steps : list[j] = WrittenStep(flow.steps[j]) OBVIOUS
<1>6. WrittenWorkflow(flow) = [flow EXCEPT !.stepsGiven = TRUE, !.steps = list] BY DEF WrittenWorkflow
<1> HIDE DEF list
<1> QED BY <1>5, <1>4, <1>6 DEF DocumentWorkflows

\* A document that is written out has its workflows, written out.
LEMMA WrittenParts ==
  ASSUME NEW d \in DocumentTexts
  PROVE  /\ WrittenOut(d) \in DocumentTexts
         /\ WrittenOut(d).version = d.version /\ WrittenOut(d).self = d.self /\ WrittenOut(d).titled = d.titled
         /\ WrittenOut(d).keys = d.keys /\ WrittenOut(d).sources = d.sources
         /\ DOMAIN WrittenOut(d).workflows = DOMAIN d.workflows
         /\ \A i \in DOMAIN d.workflows : WrittenOut(d).workflows[i] = WrittenWorkflow(d.workflows[i])
<1> DEFINE list == [i \in DOMAIN d.workflows |-> WrittenWorkflow(d.workflows[i])]
<1>2. ASSUME NEW i \in DOMAIN d.workflows PROVE WrittenWorkflow(d.workflows[i]) \in DocumentWorkflows
  BY TypedParts, WrittenWorkflows
<1>3. list \in Seq(DocumentWorkflows) BY TypedParts, <1>2
<1>4. DOMAIN list = DOMAIN d.workflows /\ \A i \in DOMAIN d.workflows : list[i] = WrittenWorkflow(d.workflows[i]) OBVIOUS
<1>5. WrittenOut(d) = [d EXCEPT !.workflows = list] BY DEF WrittenOut
<1> HIDE DEF list
<1> QED BY <1>4, <1>3, <1>5 DEF DocumentTexts

\* Writing out a document without a fault makes one.
LEMMA WrittenKeeps ==
  ASSUME NEW d \in DocumentTexts, Faultless(d)
  PROVE  WrittenOut(d) \in DocumentTexts /\ Faultless(WrittenOut(d))
<1> DEFINE e == WrittenOut(d)
<1>1. /\ e \in DocumentTexts
      /\ e.version = d.version /\ e.self = d.self /\ e.titled = d.titled /\ e.keys = d.keys /\ e.sources = d.sources
      /\ DOMAIN e.workflows = DOMAIN d.workflows
      /\ \A i \in DOMAIN d.workflows : e.workflows[i] = WrittenWorkflow(d.workflows[i])
  BY WrittenParts
<1> HIDE DEF e
<1>2. \A i \in DOMAIN d.workflows :
        /\ e.workflows[i].id = d.workflows[i].id /\ e.workflows[i].dependsOn = d.workflows[i].dependsOn
        /\ e.workflows[i].outputs = d.workflows[i].outputs /\ e.workflows[i].stepsGiven = TRUE
        /\ DOMAIN e.workflows[i].steps = DOMAIN d.workflows[i].steps
        /\ \A j \in DOMAIN d.workflows[i].steps : e.workflows[i].steps[j] = WrittenStep(d.workflows[i].steps[j])
  <2> TAKE i \in DOMAIN d.workflows
  <2> DEFINE flow == d.workflows[i]
  <2> HIDE DEF flow
  <2>2. flow \in DocumentWorkflows /\ e.workflows[i] = WrittenWorkflow(flow) BY <1>1, TypedParts DEF flow
  <2> QED BY <2>2, WrittenWorkflows DEF flow
<1>3. ASSUME NEW i \in DOMAIN d.workflows, NEW j \in DOMAIN d.workflows[i].steps
      PROVE  LET a == e.workflows[i].steps[j]  b == d.workflows[i].steps[j] IN
             /\ a.id = b.id /\ a.targets = b.targets /\ a.source = b.source /\ a.formed = b.formed /\ a.action = b.action
             /\ a.correlated = b.correlated /\ a.dependsOn = b.dependsOn /\ a.criteria \in {"absent", "listed"}
  BY TypedSteps, <1>2, WrittenSteps
<1>5. HeadFine(e) BY TypedParts, EmptySeq, <1>1 DEF Faultless, HeadFine, DocumentTexts
<1>8. WorkflowsFine(e)
  <2> SUFFICES ASSUME NEW i \in DOMAIN d.workflows
               PROVE  WorkflowFine(e, i) /\ EndFine(e, i) /\ \A j \in DOMAIN d.workflows[i].steps : StepFine(e, i, j)
    BY <1>1, <1>2 DEF WorkflowsFine
  <2>1. WorkflowFine(d, i) /\ EndFine(d, i) /\ \A j \in DOMAIN d.workflows[i].steps : StepFine(d, i, j)
    BY DEF Faultless, WorkflowsFine
  <2> DEFINE es == e.workflows[i].steps  ds == d.workflows[i].steps
  <2>3. /\ DOMAIN es = DOMAIN ds
        /\ \A j \in DOMAIN ds :
             /\ es[j].id = ds[j].id /\ es[j].targets = ds[j].targets /\ es[j].source = ds[j].source
             /\ es[j].formed = ds[j].formed /\ es[j].action = ds[j].action
             /\ es[j].correlated = ds[j].correlated /\ es[j].dependsOn = ds[j].dependsOn
    BY <1>2, <1>3
  <2>6. WorkflowFine(e, i)
    <3>2. NamesNew(e.workflows, i) BY TypedParts, <2>1, <1>2 DEF WorkflowFine, NamesNew
    <3> QED BY <1>1, <1>2, <3>2, <2>1 DEF WorkflowFine, DependencyFine, NamesItem
  <2>7. EndFine(e, i)
    <3>1. \A j \in DOMAIN ds : HasCycle(es, j) <=> HasCycle(ds, j)
      <4> HIDE DEF es, ds
      <4> QED BY <2>3, SameCycles
    <3>2. HasCycle(e.workflows, i) <=> HasCycle(d.workflows, i) BY <1>1, <1>2, SameCycles
    <3> QED BY <3>1, <3>2, <2>3, <2>1, <1>2 DEF EndFine, NamesItem
  <2>8. ASSUME NEW j \in DOMAIN ds PROVE StepFine(e, i, j)
    <3> DEFINE a == es[j]  b == ds[j]
    <3>1. /\ NamesNew(ds, j) /\ TargetFine(d, b) /\ CorrelationFine(b) /\ ApplicabilityFine(d, b)
          /\ \A k \in DOMAIN b.dependsOn : b.dependsOn[k].kind = "local" /\ NamesItem(ds, b.dependsOn[k].id)
      BY <2>1 DEF StepFine
    <3>2. \A id : NamesItem(es, id) <=> NamesItem(ds, id) BY <2>3 DEF NamesItem
    <3>3. NamesNew(es, j)
      <4>1. \A k \in 1..j - 1 : k \in DOMAIN ds BY TypedSteps
      <4> QED BY <4>1, <3>1, <2>3 DEF NamesNew
    <3>4. /\ a.targets = b.targets /\ a.source = b.source /\ a.formed = b.formed /\ a.action = b.action
          /\ a.correlated = b.correlated /\ a.dependsOn = b.dependsOn
      BY <2>3
    <3>5. StepFine(e, i, j) <=>
            /\ NamesNew(es, j) /\ TargetFine(e, a) /\ CorrelationFine(a) /\ ApplicabilityFine(e, a)
            /\ \A k \in DOMAIN a.dependsOn : a.dependsOn[k].kind = "local" /\ NamesItem(es, a.dependsOn[k].id)
      BY Zenon DEF StepFine
    <3> HIDE DEF a, b, es, ds
    <3>6. TargetFine(e, a) BY <3>1, <3>4, <1>1 DEF TargetFine
    <3>7. CorrelationFine(a) /\ ApplicabilityFine(e, a) BY <3>1, <3>4, <1>1 DEF CorrelationFine, ApplicabilityFine
    <3> QED BY <3>1, <3>2, <3>3, <3>4, <3>5, <3>6, <3>7
  <2> QED BY <2>6, <2>7, <2>8
<1> QED BY <1>1, <1>2, <1>3, <1>5, <1>8 DEF Faultless, e, SourcesFine, SourceFine, ParseFine, TextsFine, TextFine

\* Writing out what was accepted keeps the invariant.
LEMMA WriteInv == ASSUME RulesInv, WriteOut PROVE RulesInv'
<1>0. /\ PassTyped /\ phase = "done" /\ ~Refused(found) /\ doc \in DocumentTexts
      /\ doc' = WrittenOut(doc) /\ written' = TRUE /\ phase' = "parse" /\ w' = 1 /\ s' = 1 /\ found' = {}
      /\ seen' = [sources |-> {}, workflows |-> {}, steps |-> {}] /\ sourceTypes' = <<>>
  BY DEF RulesInv, PassTyped, WriteOut
<1>7. Judged' /\ Unblamed' BY <1>0 DEF Judged, Unblamed, SourcesPast, WorkflowsPast, Refused
<1>8. RepetitionsSoFar' BY <1>0 DEF RepetitionsSoFar, StepPast, WorkflowsPast
<1> QED
  BY <1>0, DoneFaultless, WrittenKeeps, <1>7, <1>8 DEF RulesInv, Parsed, WrittenFine, VersionSoFar, PassTyped, Met,
     SourcesMetBefore

\* So does a step that changes nothing.
LEMMA StutterInv == ASSUME RulesInv, UNCHANGED rulesVars PROVE RulesInv'
<1>0. /\ PassTyped /\ Met /\ Parsed /\ Judged /\ Unblamed /\ WrittenFine /\ RepetitionsSoFar /\ VersionSoFar
      /\ phase' = phase /\ w' = w /\ s' = s /\ found' = found
      /\ doc' = doc /\ seen' = seen /\ sourceTypes' = sourceTypes /\ written' = written
  BY DEF RulesInv, rulesVars
<1>3. Parsed' /\ WrittenFine' /\ VersionSoFar' BY <1>0 DEF Parsed, WrittenFine, VersionSoFar
<1>4. Judged' BY <1>0 DEF Judged, SourcesPast, WorkflowsPast
<1>6. RepetitionsSoFar' BY <1>0 DEF RepetitionsSoFar, StepPast, WorkflowsPast
<1> QED BY <1>0, <1>3, <1>4, <1>6 DEF RulesInv, PassTyped, Met, SourcesMet, SourcesMetBefore, IdsBefore, Unblamed

\* Accepted workflows and steps can be run one after another.
LEMMA AcceptedInOrder == ASSUME RulesInv PROVE AcceptedIsOrdered
<1> SUFFICES ASSUME phase = "done", ~Refused(found)
             PROVE  Orderable(doc.workflows) /\ \A i \in DOMAIN doc.workflows : Orderable(doc.workflows[i].steps)
  BY DEF AcceptedIsOrdered, Accepted
<1>1. Faultless(doc) /\ doc \in DocumentTexts BY DoneFaultless DEF RulesInv, PassTyped
<1>3. Sorted(doc.workflows)
  <2>1. ASSUME NEW i \in DOMAIN doc.workflows
        PROVE  /\ doc.workflows[i].id # Blank /\ \A k \in 1..i - 1 : doc.workflows[k].id # doc.workflows[i].id
               /\ \A k \in DOMAIN doc.workflows[i].dependsOn :
                    doc.workflows[i].dependsOn[k].kind = "local" =>
                      \E j \in DOMAIN doc.workflows : doc.workflows[j].id = doc.workflows[i].dependsOn[k].id
               /\ ~HasCycle(doc.workflows, i)
    BY <1>1 DEF WorkflowFine, EndFine, NamesNew, DependencyFine, NamesItem, Faultless, WorkflowsFine
  <2> QED BY <2>1 DEF Sorted
<1>4. ASSUME NEW i \in DOMAIN doc.workflows PROVE Orderable(doc.workflows[i].steps)
  <2> DEFINE list == doc.workflows[i].steps
  <2>3. ASSUME NEW j \in DOMAIN list
        PROVE  /\ list[j].id # Blank /\ \A k \in 1..j - 1 : list[k].id # list[j].id
               /\ \A k \in DOMAIN list[j].dependsOn : \E n \in DOMAIN list : list[n].id = list[j].dependsOn[k].id
               /\ ~HasCycle(list, j) BY <1>1 DEF StepFine, EndFine, NamesNew, NamesItem, Faultless, WorkflowsFine
  <2> HIDE DEF list
  <2> QED BY <1>1, TypedSteps, <2>3, SortedIsOrderable DEF list, Sorted
<1> QED BY <1>1, TypedParts, <1>3, <1>4, SortedIsOrderable

\* An accepted external dependency names one source, and that is an Arazzo source.
LEMMA AcceptedScope == ASSUME RulesInv PROVE AcceptedExternal
<1> SUFFICES ASSUME phase = "done", ~Refused(found), NEW i \in DOMAIN doc.workflows,
                    NEW k \in DOMAIN doc.workflows[i].dependsOn, doc.workflows[i].dependsOn[k].kind = "external"
             PROVE  /\ Cardinality(Named(doc.workflows[i].dependsOn[k].source)) = 1
                    /\ \A n \in Named(doc.workflows[i].dependsOn[k].source) : doc.sources[n].type = "arazzo"
  BY DEF AcceptedExternal, Accepted
<1> DEFINE reference == doc.workflows[i].dependsOn[k]
<1>1. Faultless(doc) /\ doc \in DocumentTexts BY DoneFaultless DEF RulesInv, PassTyped
<1>3. PICK n \in DOMAIN doc.sources : doc.sources[n].name = reference.source /\ doc.sources[n].type = "arazzo"
  BY <1>1 DEF DependencyFine, Faultless, WorkflowsFine, WorkflowFine
<1>5. Named(reference.source) = {n} BY <1>3, <1>1, OneSource DEF Named, Faultless
<1> QED BY <1>3, <1>5, FS_Singleton

\* An accepted step has one target, and the fields of an exchange only where there is one.
LEMMA AcceptedForm == ASSUME RulesInv PROVE AcceptedShape
<1> SUFFICES ASSUME phase = "done", ~Refused(found), NEW i \in DOMAIN doc.workflows, NEW j \in DOMAIN doc.workflows[i].steps
             PROVE  LET step == doc.workflows[i].steps[j]
                        async == step.action # Blank \/ step.targets = {"channelPath"}
                    IN  /\ Cardinality(step.targets) = 1
                        /\ async => step.targets \subseteq {"operationId", "channelPath"} /\ step.action \in {"send", "receive"}
                        /\ async /\ step.formed => \A n \in Named(step.source) : doc.sources[n].type = "asyncapi"
                        /\ step.correlated => async /\ step.action = "receive"
  BY DEF AcceptedShape, Accepted
<1>1. Faultless(doc) /\ doc \in DocumentTexts BY DoneFaultless DEF RulesInv, PassTyped
<1> DEFINE step == doc.workflows[i].steps[j]
           async == step.action # Blank \/ step.targets = {"channelPath"}
<1>2. step \in DocumentSteps BY <1>1, TypedSteps
<1>3. Cardinality(step.targets) <= 1 /\ StepFine(doc, i, j) BY <1>1 DEF Faultless, ParseFine, WorkflowsFine
<1>4. TargetFine(doc, step) /\ CorrelationFine(step) /\ ApplicabilityFine(doc, step) BY <1>3 DEF StepFine
<1> HIDE DEF step
<1>7. PICK t \in Kinds : step.targets = {t} BY <1>2, <1>3, <1>4, OneTarget DEF TargetFine
<1>9. async => step.targets \subseteq {"operationId", "channelPath"} /\ step.action \in {"send", "receive"}
  BY <1>4, <1>2, <1>7 DEF TargetFine, Kinds, DocumentSteps
<1>11. async /\ step.formed => \A n \in Named(step.source) : doc.sources[n].type = "asyncapi"
  <2> SUFFICES ASSUME async, step.formed, NEW n \in Named(step.source) PROVE doc.sources[n].type = "asyncapi"
    OBVIOUS
  <2> QED BY <1>7, <1>9, <1>4 DEF ApplicabilityFine, Named
<1> QED BY <1>7, FS_Singleton, <1>9, <1>4, <1>11 DEF step, CorrelationFine, Blank

\* The invariant says all that whoever relies on an accepted document relies on.
LEMMA RulesInvSound == RulesInv => AcceptanceIsSound
<1> SUFFICES ASSUME RulesInv PROVE AcceptanceIsSound OBVIOUS
<1>0. doc \in DocumentTexts /\ PassTyped BY DEF RulesInv, PassTyped
<1>1. RulesTypeOK
  <2>1. w \in 1..Len(IF phase = "sources" THEN doc.sources ELSE doc.workflows) + 1
    <3>1. Len(doc.workflows) \in Nat BY <1>0, TypedParts
    <3>2. CASE phase \in {"parse", "top"} BY <1>0, <3>2, <3>1 DEF PassTyped
    <3>3. CASE phase = "steps" BY <1>0, <3>1, <3>3 DEF PassTyped
    <3>4. CASE phase = "sources" BY <1>0, <3>4 DEF PassTyped
    <3>5. CASE phase \in {"workflow", "done"} BY <1>0, <3>5 DEF PassTyped
    <3> QED BY <1>0, <3>2, <3>3, <3>4, <3>5 DEF PassTyped
  <2>2. phase = "steps" => s \in 1..Len(Workflow.steps) + 1 /\ seen.steps \subseteq StepIds
    <3> SUFFICES ASSUME phase = "steps" PROVE s \in 1..Len(Workflow.steps) + 1 /\ seen.steps \subseteq StepIds OBVIOUS
    <3> QED BY <1>0, TypedParts, TypedSteps DEF IdsBefore, StepIds, Workflow, RulesInv, PassTyped, Met
  <2> QED BY <1>0, <2>1, <2>2 DEF RulesTypeOK, PassTyped
<1>2. VersionByValue BY DEF RulesInv, VersionSoFar, VersionByValue, Rightful, Known
<1>3. RepetitionReported BY DEF RulesInv, RepetitionsSoFar, RepetitionReported, Repeated, Repeats, StepPast, WorkflowsPast
<1>4. AcceptedCriteria
  <2> SUFFICES ASSUME phase = "done", ~Refused(found) PROVE AcceptedCriteria BY DEF AcceptedCriteria, Accepted
  <2> QED BY DoneFaultless DEF AcceptedCriteria, TextsFine, TextFine, Faultless
<1>5. WrittenIsAccepted BY DEF RulesInv, WrittenFine, Unblamed, WrittenIsAccepted
<1> QED BY <1>1, <1>2, <1>3, <1>4, <1>5, AcceptedInOrder, AcceptedScope, AcceptedForm DEF AcceptanceIsSound

\* Whatever document is validated, of any size: what is accepted can be put in an order, means
\* one source and type by each name, has exchanges and criteria where they belong, and is
\* accepted again after it was written out; a known version is told by its value, and every
\* repeated step is reported.
THEOREM AcceptanceHolds == RulesSpec => []AcceptanceIsSound
<1>1. RulesInit => RulesInv BY RulesInvInit
<1>2. RulesInv /\ [RulesNext]_rulesVars => RulesInv'
  <2> SUFFICES ASSUME RulesInv, [RulesNext]_rulesVars PROVE RulesInv' OBVIOUS
  <2>1. CASE Parse BY <2>1, ParseInv
  <2>2. CASE RulesTop BY <2>2, TopInv
  <2>3. CASE Source BY <2>3, SourceInv
  <2>4. CASE SourcesDone BY <2>4, SourcesDoneInv
  <2>5. CASE BeginWorkflow BY <2>5, BeginInv
  <2>6. CASE StepRules BY <2>6, StepInv
  <2>7. CASE EndWorkflow BY <2>7, EndInv
  <2>8. CASE Text BY <2>8, TextInv
  <2>9. CASE WriteOut BY <2>9, WriteInv
  <2>10. CASE UNCHANGED rulesVars BY <2>10, StutterInv
  <2> QED BY <2>1, <2>2, <2>3, <2>4, <2>5, <2>6, <2>7, <2>8, <2>9, <2>10 DEF RulesNext
<1> QED BY <1>1, <1>2, RulesInvSound, PTL DEF RulesSpec

(***************************************************************************)
(* Parameters.  What is reported after n steps is known: each step adds    *)
(* the repetitions of its own list, what its target asks that no earlier   *)
(* step was told of, and the querystring.  An empty report therefore says  *)
(* that no list, no target and no querystring has a fault.                 *)
(***************************************************************************)
ListMode(t) == IF ParametersStep(t).target = "workflow" THEN "name" ELSE "name and location"
RepeatsIn(t) == {[at |-> InStep(t, i), rule |-> "Duplicate", by |-> t] : i \in Duplicates(ParametersStep(t).parameters, ListMode(t))}
SeenBy(n) == UNION {Context(t) : t \in 1..n}
AsksOf(t) == {[at |-> c[1], rule |-> c[2], by |-> t] : c \in Context(t) \ SeenBy(t - 1)}
QueriesOf(t) == {[at |-> InStep(t, 0), rule |-> r, by |-> t] : r \in Querystring(t)}
FoundIn(t) == RepeatsIn(t) \union AsksOf(t) \union QueriesOf(t)
FoundAbove == {[at |-> InWorkflow(i), rule |-> "Duplicate", by |-> 0] : i \in Duplicates(workflow.parameters, "name and location")}
FoundBy(n) == IF n = -1 THEN {} ELSE FoundAbove \union UNION {FoundIn(t) : t \in 1..n}

ParametersInv ==
  /\ workflow \in Workflows /\ checked \in -1..Len(workflow.steps)
  /\ parametersSeen = SeenBy(checked) /\ parametersReport = FoundBy(checked)

\* The lists of a workflow are finite, and so are those of its steps.
LEMMA WorkflowShape ==
  ASSUME workflow \in Workflows
  PROVE  /\ Len(workflow.steps) \in Nat /\ DOMAIN workflow.steps = 1..Len(workflow.steps)
         /\ Len(workflow.parameters) \in Nat /\ DOMAIN workflow.parameters = 1..Len(workflow.parameters)
         /\ \A i \in DOMAIN workflow.parameters :
              workflow.parameters[i].in \in ParametersLocations /\ workflow.parameters[i].broken \in BOOLEAN
         /\ \A t \in DOMAIN workflow.steps :
              /\ Len(ParametersStep(t).parameters) \in Nat
              /\ DOMAIN ParametersStep(t).parameters = 1..Len(ParametersStep(t).parameters)
              /\ \A i \in DOMAIN ParametersStep(t).parameters :
                   ParametersStep(t).parameters[i].in \in ParametersLocations /\ ParametersStep(t).parameters[i].broken \in BOOLEAN
<1>1. ASSUME NEW list, ParametersList(list)
      PROVE  /\ Len(list) \in Nat /\ DOMAIN list = 1..Len(list)
             /\ \A i \in DOMAIN list : list[i].in \in ParametersLocations /\ list[i].broken \in BOOLEAN
  <2>2. PICK S : list \in Seq(S) BY <1>1 DEF ParametersList
  <2> QED BY <2>2, <1>1 DEF ParametersList
<1>2. ParametersList(workflow.parameters) BY WorkflowAssumption
<1>3. Len(workflow.steps) \in Nat /\ DOMAIN workflow.steps = 1..Len(workflow.steps)
  <2>1. PICK S : workflow.steps \in Seq(S) BY WorkflowAssumption
  <2> QED BY <2>1
<1>4. \A t \in DOMAIN workflow.steps : ParametersList(ParametersStep(t).parameters)
  BY WorkflowAssumption DEF ParametersStep
<1> QED BY <1>1, <1>2, <1>3, <1>4, Zenon

\* While the document stays, so does what is found in it.
LEMMA SameFindings ==
  ASSUME UNCHANGED workflow
  PROVE  /\ \A n : SeenBy(n)' = SeenBy(n) /\ FoundBy(n)' = FoundBy(n)
<1>1. \A t : Context(t)' = Context(t)
  BY DEF Context, Effective, Overridden, ParametersIdentity, ParametersStep, InWorkflow, InStep
<1>2. \A n : SeenBy(n)' = SeenBy(n) BY <1>1 DEF SeenBy
<1>3. \A t : Querystring(t)' = Querystring(t)
  BY DEF Querystring, Located, Effective, Overridden, ParametersIdentity, ParametersStep, InWorkflow, InStep
<1>6. \A t : QueriesOf(t)' = QueriesOf(t) BY <1>3 DEF QueriesOf, InStep
<1>7. \A t : FoundIn(t)' = FoundIn(t)
  BY <1>1, <1>2, <1>6 DEF FoundIn, RepeatsIn, Duplicates, ListMode, ParametersStep, InStep, ParametersIdentity,
     AsksOf
<1> QED BY <1>2, <1>7 DEF FoundBy, FoundAbove, Duplicates, ParametersIdentity, InWorkflow

LEMMA ParametersInvInit == ParametersInit => ParametersInv
<1>1. ASSUME ParametersInit PROVE workflow \in Workflows /\ checked = -1 /\ parametersSeen = {} /\ parametersReport = {}
  BY <1>1 DEF ParametersInit
<1>2. ASSUME ParametersInit PROVE checked \in -1..Len(workflow.steps) BY <1>1, <1>2, WorkflowShape
<1> QED BY <1>1, <1>2 DEF ParametersInv, SeenBy, FoundBy

LEMMA ParametersInvNext == ASSUME ParametersInv, [ParametersNext]_parametersVars PROVE ParametersInv'
<1> USE DEF ParametersInv
<1>1. CASE ValidateWorkflowList
  <2>1. UNCHANGED workflow /\ checked = -1 /\ checked' = 0 /\ UNCHANGED parametersSeen
        /\ parametersReport' = parametersReport \union FoundAbove
    BY <1>1 DEF ValidateWorkflowList, FoundAbove
  <2>3. SeenBy(0) = {} /\ SeenBy(-1) = {} /\ FoundBy(-1) = {} /\ FoundBy(0) = FoundAbove BY DEF SeenBy, FoundBy
  <2>4. parametersSeen' = SeenBy(0)' /\ parametersReport' = FoundBy(0)' BY <2>1, <2>3, SameFindings
  <2> QED BY <2>1, WorkflowShape, <2>4
<1>2. CASE ValidateStep
  <2>0. PICK t : t = checked + 1 OBVIOUS
  <2>1. /\ UNCHANGED workflow /\ checked \in 0..Len(workflow.steps) - 1 /\ checked' = t
        /\ parametersSeen' = parametersSeen \union Context(t)
        /\ parametersReport' = parametersReport \union FoundIn(t)
    <3>1. checked \in 0..Len(workflow.steps) - 1 BY <1>2 DEF ValidateStep
    <3>2. SeenBy(t - 1) = parametersSeen BY <2>0, <3>1, WorkflowShape
    <3> QED BY <2>0, <1>2, <3>2 DEF ValidateStep, FoundIn, RepeatsIn, ListMode, AsksOf, QueriesOf
  <2>3. 1..t = (1..checked) \union {t} /\ t # -1 /\ checked # -1 BY <2>0, <2>1
  <2>5. FoundBy(t) = FoundBy(checked) \union FoundIn(t) BY <2>3 DEF FoundBy
  <2> QED BY <2>1, <2>0, WorkflowShape, <2>3, <2>5, SameFindings DEF SeenBy
<1>3. CASE UNCHANGED parametersVars BY <1>3, SameFindings DEF parametersVars
<1> QED BY <1>1, <1>2, <1>3 DEF ParametersNext

\* What a target asks is a declaration and the rule it breaks.
LEMMA ContextPairs == ASSUME NEW t, NEW c \in Context(t) PROVE c = <<c[1], c[2]>>
  BY DEF Context

\* What an empty report at the end says of every list, target and querystring.
LEMMA AcceptedFaultless ==
  ASSUME ParametersInv, ParametersAccepted
  PROVE  /\ Duplicates(workflow.parameters, "name and location") = {}
         /\ \A t \in DOMAIN workflow.steps :
              /\ Duplicates(ParametersStep(t).parameters, ListMode(t)) = {}
              /\ Context(t) = {} /\ Querystring(t) = {}
<1>1. workflow \in Workflows /\ checked = Len(workflow.steps) /\ FoundBy(checked) = {}
  BY DEF ParametersInv, ParametersAccepted
<1>2. Len(workflow.steps) \in Nat /\ DOMAIN workflow.steps = 1..Len(workflow.steps) BY <1>1, WorkflowShape
<1>4. FoundAbove = {} /\ \A t \in DOMAIN workflow.steps : FoundIn(t) = {} BY <1>1, <1>2 DEF FoundBy
<1>6. \A t \in DOMAIN workflow.steps : RepeatsIn(t) = {} /\ AsksOf(t) = {} /\ QueriesOf(t) = {} BY <1>4 DEF FoundIn
<1>9. \A t \in DOMAIN workflow.steps : Context(t) = {}
  <2> DEFINE asking == {t \in DOMAIN workflow.steps : Context(t) # {}}
  <2>1. SUFFICES ASSUME asking # {} PROVE FALSE BY DEF asking
  <2>2. asking \in SUBSET Nat BY <1>2
  <2>3. PICK t \in asking : \A k \in asking : t <= k
    <3> HIDE DEF asking
    <3> QED BY <2>1, <2>2, LeastMember
  <2>5. \A u \in 1..t - 1 : Context(u) = {}
    <3>1. TAKE u \in 1..t - 1
    <3> QED BY <2>3, <1>2
  <2>6. SeenBy(t - 1) = {} BY <2>5 DEF SeenBy
  <2> QED BY <1>6, <2>3, <2>6 DEF AsksOf
<1> QED BY <1>4, <1>6, <1>9 DEF FoundAbove, RepeatsIn, QueriesOf

\* Two places of which neither is before the other are one.
LEMMA NeitherEarlier ==
  ASSUME NEW n \in Nat, NEW i \in 1..n, NEW j \in 1..n, ~(j \in 1..i - 1), ~(i \in 1..j - 1)
  PROVE  i = j
  OBVIOUS

\* In a list without repetitions a name and a location are given once.
LEMMA IdentitiesApart ==
  ASSUME NEW list, NEW n \in Nat, DOMAIN list = 1..n, Duplicates(list, "name and location") = {},
         NEW i \in DOMAIN list, NEW j \in DOMAIN list, list[i].name # ParametersNoName,
         ParametersIdentity(list[i]) = ParametersIdentity(list[j])
  PROVE  i = j
<1>2. ASSUME NEW a \in DOMAIN list, NEW b \in 1..a - 1, list[a].name # ParametersNoName,
             ParametersIdentity(list[b]) = ParametersIdentity(list[a])
      PROVE FALSE BY <1>2 DEF Duplicates
<1>3. ~(j \in 1..i - 1) BY <1>2
<1>4. ~(i \in 1..j - 1) BY <1>2 DEF ParametersIdentity
<1>5. i \in 1..n /\ j \in 1..n OBVIOUS
<1> QED BY <1>3, <1>4, <1>5, NeitherEarlier, Zenon

\* The names in a list are finitely many.
LEMMA NamesFinite ==
  ASSUME NEW list, Len(list) \in Nat, DOMAIN list = 1..Len(list)
  PROVE  IsFiniteSet({list[i].name : i \in DOMAIN list})
<1> DEFINE names == {list[i].name : i \in DOMAIN list}
           g == [i \in DOMAIN list |-> list[i].name]
<1>2. g \in Surjection(DOMAIN list, names) BY DEF Surjection
<1> HIDE DEF names, g
<1> QED BY <1>2, FS_Interval, FS_Surjection DEF names

\* What reaches a request of an accepted document, broken or not, is told apart by name
\* and location.
LEMMA EffectiveApart ==
  ASSUME ParametersInv, ParametersAccepted, NEW t \in Requests, NEW e \in Effective(t), NEW f \in Effective(t),
         e.parameter.name # ParametersNoName, ParametersIdentity(e.parameter) = ParametersIdentity(f.parameter)
  PROVE  e = f
<1> DEFINE up == workflow.parameters  own == ParametersStep(t).parameters
<1>1. t \in DOMAIN workflow.steps /\ ParametersStep(t).target = "operation" BY DEF Requests
<1>2. /\ Len(up) \in Nat /\ DOMAIN up = 1..Len(up) /\ Len(own) \in Nat /\ DOMAIN own = 1..Len(own)
  BY <1>1, WorkflowShape DEF ParametersInv
<1>3. Duplicates(up, "name and location") = {} /\ Duplicates(own, "name and location") = {}
  BY <1>1, AcceptedFaultless DEF ListMode
<1> DEFINE Above(x) == \E i \in DOMAIN up : ~Overridden(i, t) /\ x = [parameter |-> up[i], declared |-> InWorkflow(i)]
           Mine(x) == \E j \in DOMAIN own : x = [parameter |-> own[j], declared |-> InStep(t, j)]
<1>5. ASSUME NEW x, NEW y, Above(x), Mine(y), ParametersIdentity(x.parameter) = ParametersIdentity(y.parameter) PROVE FALSE
  <2>1. PICK i \in DOMAIN up : ~Overridden(i, t) /\ x = [parameter |-> up[i], declared |-> InWorkflow(i)] BY <1>5
  <2>2. PICK j \in DOMAIN own : y = [parameter |-> own[j], declared |-> InStep(t, j)] BY <1>5
  <2> QED BY <2>1, <1>5, <2>2 DEF Overridden
<1>6. CASE Above(e) /\ Above(f)
  <2>1. PICK i \in DOMAIN up : e = [parameter |-> up[i], declared |-> InWorkflow(i)] BY <1>6
  <2>2. PICK j \in DOMAIN up : f = [parameter |-> up[j], declared |-> InWorkflow(j)] BY <1>6
  <2>4. i = j
    <3> HIDE DEF up
    <3> QED BY <1>2, <1>3, <2>1, <2>2, IdentitiesApart
  <2> QED BY <2>1, <2>2, <2>4
<1>7. CASE Mine(e) /\ Mine(f)
  <2>1. PICK i \in DOMAIN own : e = [parameter |-> own[i], declared |-> InStep(t, i)] BY <1>7
  <2>2. PICK j \in DOMAIN own : f = [parameter |-> own[j], declared |-> InStep(t, j)] BY <1>7
  <2>4. i = j
    <3> HIDE DEF own
    <3> QED BY <1>2, <1>3, <2>1, <2>2, IdentitiesApart
  <2> QED BY <2>1, <2>2, <2>4
<1> QED BY <1>6, <1>7, <1>5 DEF Effective

\* The names of the querystrings that reach a step are finitely many.
LEMMA QueryNamesFinite ==
  ASSUME workflow \in Workflows, NEW t \in DOMAIN workflow.steps
  PROVE  IsFiniteSet({e.parameter.name : e \in Located(t, "querystring")})
<1> DEFINE up == workflow.parameters  own == ParametersStep(t).parameters
           names == {e.parameter.name : e \in Located(t, "querystring")}
           all == {up[i].name : i \in DOMAIN up} \union {own[i].name : i \in DOMAIN own}
<1>1. Len(up) \in Nat /\ DOMAIN up = 1..Len(up) /\ Len(own) \in Nat /\ DOMAIN own = 1..Len(own)
  BY WorkflowShape
<1>2. IsFiniteSet({up[i].name : i \in DOMAIN up}) /\ IsFiniteSet({own[i].name : i \in DOMAIN own})
  <2> HIDE DEF up, own
  <2> QED BY <1>1, NamesFinite
<1>3. IsFiniteSet(all) BY <1>2, FS_Union
<1>4. names \subseteq all BY DEF Located, Effective
<1> HIDE DEF all, names
<1> QED BY <1>3, <1>4, FS_Subset DEF names

\* A request has what reaches it in one place each: no location is missing, and a
\* querystring is alone.
LEMMA RequestPlaces ==
  ASSUME ParametersInv, ParametersAccepted, NEW t \in Requests
  PROVE  /\ \A e \in Effective(t) : e.parameter.in \in ParametersLocations
         /\ \A e \in Reaching(t) : e.parameter.in # "absent"
         /\ Located(t, "querystring") # {} =>
              /\ Cardinality({e.parameter.name : e \in Located(t, "querystring")}) = 1
              /\ Located(t, "query") = {}
<1>1. t \in DOMAIN workflow.steps /\ ParametersStep(t).target = "operation" /\ ~ParametersStep(t).action BY DEF Requests
<1>2. Context(t) = {} /\ Querystring(t) = {} BY <1>1, AcceptedFaultless
<1>3. workflow \in Workflows BY DEF ParametersInv
<1>5. ASSUME NEW e \in Reaching(t), e.parameter.in = "absent" PROVE FALSE BY <1>2, <1>1, <1>5 DEF Context, Reaching
<1>6. ASSUME Located(t, "querystring") # {}
      PROVE  /\ Cardinality({e.parameter.name : e \in Located(t, "querystring")}) = 1
             /\ Located(t, "query") = {}
  <2> DEFINE names == {e.parameter.name : e \in Located(t, "querystring")}
  <2>1. ~(Cardinality(names) > 1) /\ Located(t, "query") = {} BY <1>1, <1>2, <1>6 DEF Querystring
  <2>2. IsFiniteSet(names) BY <1>1, <1>3, QueryNamesFinite
  <2>3. Cardinality(names) \in Nat /\ Cardinality(names) # 0
    <3>1. names # {} BY <1>6
    <3> HIDE DEF names
    <3> QED BY <2>2, <3>1, FS_CardinalityType, FS_EmptySet
  <2> QED BY <2>1, <2>3
<1> QED BY <1>1, <1>3, WorkflowShape, <1>5, <1>6 DEF Effective

(***************************************************************************)
(* The merged list.  The loop over the workflow's parameters has a value   *)
(* after each of them, and keeps those that the step does not override, in *)
(* their order and once each.                                              *)
(***************************************************************************)
FromAbove(k) == [parameter |-> workflow.parameters[k], declared |-> InWorkflow(k)]
FromOwn(t, j) == [parameter |-> ParametersStep(t).parameters[j], declared |-> InStep(t, j)]
GoneThrough(t, k, inherited) ==
  inherited = [n \in 0..k |-> IF n = 0 THEN <<>> ELSE IF Overridden(n, t) THEN inherited[n - 1]
                              ELSE Append(inherited[n - 1], FromAbove(n))]

LEMMA InheritedGiven ==
  ASSUME NEW t, Len(workflow.parameters) \in Nat
  PROVE  /\ InheritedOf(t)[0] = <<>>
         /\ \A n \in 1..Len(workflow.parameters) :
              InheritedOf(t)[n] = IF Overridden(n, t) THEN InheritedOf(t)[n - 1]
                                  ELSE Append(InheritedOf(t)[n - 1], FromAbove(n))
<1> DEFINE count == Len(workflow.parameters)
<1> DEFINE bad == {k \in 0..count : ~ \E f : GoneThrough(t, k, f)}
<1>1. ASSUME bad # {} PROVE FALSE
  <2>1. bad \in SUBSET Nat OBVIOUS
  <2>2. PICK k \in bad : \A j \in bad : k <= j
    <3> HIDE DEF bad
    <3> QED BY <1>1, <2>1, LeastMember
  <2>3. CASE k = 0
    <3>1. GoneThrough(t, 0, [n \in 0..0 |-> <<>>]) BY DEF GoneThrough
    <3> QED BY <2>2, <2>3, <3>1
  <2>4. CASE k # 0
    <3>1. k \in 1..count /\ k - 1 \in 0..count /\ k - 1 \notin bad BY <2>1, <2>2, <2>4
    <3>2. PICK f : GoneThrough(t, k - 1, f) BY <3>1
    <3> DEFINE latest == IF Overridden(k, t) THEN f[k - 1] ELSE Append(f[k - 1], FromAbove(k))
               g == [n \in 0..k |-> IF n = k THEN latest ELSE f[n]]
    <3>3. ASSUME NEW n \in 0..k
          PROVE  g[n] = IF n = 0 THEN <<>> ELSE IF Overridden(n, t) THEN g[n - 1] ELSE Append(g[n - 1], FromAbove(n))
      <4>1. CASE n = k BY <4>1, <3>1
      <4>2. CASE n # k
        <5>1. n \in 0..k - 1 BY <3>1, <4>2
        <5>2. f[n] = IF n = 0 THEN <<>> ELSE IF Overridden(n, t) THEN f[n - 1] ELSE Append(f[n - 1], FromAbove(n))
          BY <3>2, <5>1, Zenon DEF GoneThrough
        <5> QED BY <5>2, <4>2, <3>1, <5>1
      <4> QED BY <4>1, <4>2
    <3>4. GoneThrough(t, k, g)
      <4>1. g = [n \in 0..k |-> g[n]] OBVIOUS
      <4> QED BY <3>3, <4>1, Zenon DEF GoneThrough
    <3> QED BY <2>2, <3>4
  <2> QED BY <2>3, <2>4
<1>2. \E f : GoneThrough(t, count, f) BY <1>1
<1>3. InheritedOf(t) = CHOOSE f : GoneThrough(t, count, f) BY DEF InheritedOf, GoneThrough, FromAbove
<1>4. GoneThrough(t, count, InheritedOf(t)) BY <1>2, <1>3, Zenon
<1> DEFINE f == InheritedOf(t)
<1>5. f = [n \in 0..count |-> IF n = 0 THEN <<>> ELSE IF Overridden(n, t) THEN f[n - 1]
                              ELSE Append(f[n - 1], FromAbove(n))]
  BY <1>4, Zenon DEF GoneThrough
<1> HIDE DEF f
<1>6. ASSUME NEW n \in 0..count
      PROVE  f[n] = IF n = 0 THEN <<>> ELSE IF Overridden(n, t) THEN f[n - 1] ELSE Append(f[n - 1], FromAbove(n))
  BY <1>5, Zenon
<1> QED BY <1>6 DEF f

\* What the step inherits of the first n, each once.
Inheritable(t, n) == {k \in 1..n : ~Overridden(k, t)}
Inherits(t, n, list) ==
  /\ list \in Seq({FromAbove(k) : k \in Inheritable(t, n)})
  /\ \A k \in Inheritable(t, n) : \E i \in 1..Len(list) : list[i] = FromAbove(k)
  /\ \A i, j \in 1..Len(list) : list[i] = list[j] => i = j

LEMMA InheritsMore ==
  ASSUME NEW t, NEW n \in Nat, NEW list, Inherits(t, n, list), ~Overridden(n + 1, t)
  PROVE  Inherits(t, n + 1, Append(list, FromAbove(n + 1)))
<1> DEFINE S == {FromAbove(k) : k \in Inheritable(t, n)}
           T == {FromAbove(k) : k \in Inheritable(t, n + 1)}
           e == FromAbove(n + 1)
           more == Append(list, e)
<1>1. Inheritable(t, n + 1) = Inheritable(t, n) \union {n + 1} BY DEF Inheritable
<1>2. S \subseteq T /\ e \in T BY <1>1
<1>3. list \in Seq(S) BY DEF Inherits
<1>4. e \notin S
  <2>1. ASSUME NEW k \in Inheritable(t, n), e = FromAbove(k) PROVE FALSE
    BY <2>1 DEF Inheritable, FromAbove, InWorkflow
  <2> QED BY <2>1
<1>6. \A i, j \in 1..Len(list) : list[i] = list[j] => i = j BY DEF Inherits
<1> HIDE DEF S, T, e
<1>8. /\ more \in Seq(T) /\ Len(list) \in Nat /\ Len(more) = Len(list) + 1 /\ more[Len(list) + 1] = e
      /\ \A i \in 1..Len(list) : more[i] = list[i] /\ list[i] \in S BY <1>2, <1>3
<1> HIDE DEF more
<1>9. \A i, j \in 1..Len(more) : more[i] = more[j] => i = j
  <2>1. TAKE i, j \in 1..Len(more)
  <2>2. HAVE more[i] = more[j]
  <2>3. (i \in 1..Len(list) \/ i = Len(list) + 1) /\ (j \in 1..Len(list) \/ j = Len(list) + 1) BY <1>8
  <2>4. CASE i \in 1..Len(list) /\ j \in 1..Len(list) BY <1>6, <1>8, <2>2, <2>4, Zenon
  <2>5. ~(i \in 1..Len(list) /\ j = Len(list) + 1) BY <1>4, <1>8, <2>2, Zenon
  <2>6. ~(j \in 1..Len(list) /\ i = Len(list) + 1) BY <1>4, <1>8, <2>2, Zenon
  <2> QED BY <2>3, <2>4, <2>5, <2>6, Zenon
<1>10. \A k \in Inheritable(t, n + 1) : \E i \in 1..Len(more) : more[i] = FromAbove(k)
  <2>1. TAKE k \in Inheritable(t, n + 1)
  <2>2. CASE k = n + 1 BY <2>2, <1>8 DEF e
  <2>3. CASE k # n + 1
    <3>2. PICK i \in 1..Len(list) : list[i] = FromAbove(k) BY <1>1, <2>3 DEF Inherits
    <3> QED BY <1>8, <3>2
  <2> QED BY <2>2, <2>3
<1> QED BY <1>8, <1>9, <1>10 DEF Inherits, T, more, e

LEMMA InheritedIs ==
  ASSUME NEW t, Len(workflow.parameters) \in Nat
  PROVE  Inherits(t, Len(workflow.parameters), InheritedOf(t)[Len(workflow.parameters)])
<1> DEFINE count == Len(workflow.parameters)
           f == InheritedOf(t)
           wrong == {n \in 0..count : ~Inherits(t, n, f[n])}
<1>1. f[0] = <<>> /\ \A n \in 1..count : f[n] = IF Overridden(n, t) THEN f[n - 1] ELSE Append(f[n - 1], FromAbove(n))
  BY InheritedGiven
<1> HIDE DEF f
<1>2. ASSUME wrong # {} PROVE FALSE
  <2>1. wrong \in SUBSET Nat OBVIOUS
  <2>2. PICK n \in wrong : \A k \in wrong : n <= k
    <3> HIDE DEF wrong
    <3> QED BY <1>2, <2>1, LeastMember
  <2>3. n # 0
    <3>1. Inherits(t, 0, f[0]) BY <1>1 DEF Inherits, Inheritable
    <3> QED BY <2>2, <3>1
  <2>4. PICK k \in Nat : n = k + 1 /\ n \in 1..count /\ k \in 0..count /\ k \notin wrong /\ n - 1 = k
    BY <2>1, <2>2, <2>3
  <2>5. Inherits(t, k, f[k]) BY <2>4
  <2>6. CASE Overridden(n, t)
    <3>1. f[n] = f[k] BY <1>1, <2>4, <2>6
    <3>2. Inheritable(t, n) = Inheritable(t, k) BY <2>4, <2>6 DEF Inheritable
    <3> QED BY <2>2, <2>5, <3>1, <3>2 DEF Inherits
  <2>7. CASE ~Overridden(n, t) BY <2>2, <2>4, <2>5, <2>7, <1>1, InheritsMore
  <2> QED BY <2>6, <2>7
<1> QED BY <1>2 DEF f

\* One list after another has the entries of both, in their places.
LEMMA OneAfterAnother ==
  ASSUME NEW A, NEW B, NEW a \in Seq(A), NEW b \in Seq(B)
  PROVE  /\ Len(a) \in Nat /\ Len(b) \in Nat /\ DOMAIN (a \o b) = 1..(Len(a) + Len(b))
         /\ \A i \in 1..Len(a) : (a \o b)[i] = a[i] /\ a[i] \in A
         /\ \A j \in 1..Len(b) : (a \o b)[Len(a) + j] = b[j] /\ b[j] \in B
<1>1. /\ Len(a) \in Nat /\ Len(b) \in Nat /\ \A i \in 1..Len(a) : a[i] \in A
      /\ \A j \in 1..Len(b) : b[j] \in B
  OBVIOUS
<1>2. a \in Seq(A \union B) /\ b \in Seq(A \union B) OBVIOUS
<1>6. ASSUME NEW j \in 1..Len(b) PROVE (a \o b)[Len(a) + j] = b[j] BY <1>2, <1>1
<1> QED BY <1>1, <1>2, <1>6

\* The engine merges what the validator looks at, each once.
LEMMA MergedIsEffective ==
  ASSUME workflow \in Workflows, NEW t \in DOMAIN workflow.steps, ParametersStep(t).target # "workflow"
  PROVE  \E n \in Nat : /\ DOMAIN MergedParameters(t) = 1..n
                        /\ {MergedParameters(t)[i] : i \in 1..n} = Effective(t)
                        /\ \A i, j \in 1..n : MergedParameters(t)[i] = MergedParameters(t)[j] => i = j
<1> DEFINE up == workflow.parameters  own == ParametersStep(t).parameters
           above == InheritedOf(t)[Len(up)]
           A == {FromAbove(k) : k \in Inheritable(t, Len(up))}
           B == {FromOwn(t, j) : j \in DOMAIN own}
           mine == OwnOf(t)
           list == MergedParameters(t)
<1>1. /\ Len(up) \in Nat /\ DOMAIN up = 1..Len(up) /\ Len(own) \in Nat /\ DOMAIN own = 1..Len(own)
      /\ t \in 1..Len(workflow.steps)
  BY WorkflowShape
<1>3. Effective(t) = A \union B BY <1>1 DEF Effective, FromAbove, FromOwn, Inheritable
<1>4. A \intersect B = {} BY <1>1 DEF FromAbove, InWorkflow, FromOwn, InStep
<1>5. list = above \o mine BY DEF MergedParameters
<1>6. /\ above \in Seq(A) /\ \A a \in A : \E i \in 1..Len(above) : above[i] = a
      /\ \A i, j \in 1..Len(above) : above[i] = above[j] => i = j BY <1>1, InheritedIs DEF Inherits
<1>7. mine = [j \in 1..Len(own) |-> FromOwn(t, j)] BY <1>1 DEF OwnOf, FromOwn
<1>8. /\ mine \in Seq(B) /\ Len(mine) = Len(own) /\ \A b \in B : \E j \in 1..Len(mine) : mine[j] = b
      /\ \A i, j \in 1..Len(mine) : mine[i] = mine[j] => i = j
  <2> HIDE DEF B, mine
  <2>4. \A j \in 1..Len(own) : mine[j] = FromOwn(t, j) BY <1>7
  <2> QED BY <1>1, <1>7, <2>4 DEF B, FromOwn, InStep
<1> HIDE DEF A, B, above, mine, list
<1> DEFINE n == Len(above) p == Len(mine)
<1>9. /\ n \in Nat /\ p \in Nat /\ DOMAIN list = 1..(n + p)
      /\ \A i \in 1..n : list[i] = above[i] /\ above[i] \in A
      /\ \A j \in 1..p : list[n + j] = mine[j] /\ mine[j] \in B
  <2>1. above \in Seq(A) /\ mine \in Seq(B) BY <1>6, <1>8
  <2>2. /\ Len(above) \in Nat /\ Len(mine) \in Nat /\ DOMAIN (above \o mine) = 1..(Len(above) + Len(mine))
        /\ \A i \in 1..Len(above) : (above \o mine)[i] = above[i] /\ above[i] \in A
        /\ \A j \in 1..Len(mine) : (above \o mine)[Len(above) + j] = mine[j] /\ mine[j] \in B
    <3> HIDE DEF n, p
    <3> QED BY <2>1, OneAfterAnother
  <2>3. \A i : list[i] = (above \o mine)[i] BY <1>5
  <2>4. DOMAIN list = DOMAIN (above \o mine) BY <1>5
  <2> QED BY <2>2, <2>3, <2>4, Zenon
<1> HIDE DEF n, p
<1>10. /\ 1..n \subseteq 1..(n + p) /\ \A j \in 1..p : n + j \in 1..(n + p)
       /\ \A i \in 1..(n + p) : i \in 1..n \/ \E j \in 1..p : i = n + j
  <2>1. n \in Nat /\ p \in Nat BY <1>9
  <2>2. ASSUME NEW i \in 1..(n + p), ~(i \in 1..n) PROVE \E j \in 1..p : i = n + j BY <2>1, <2>2
  <2> QED BY <2>1, <2>2
<1>11. {list[i] : i \in 1..(n + p)} = A \union B
  <2>1. ASSUME NEW i \in 1..(n + p) PROVE list[i] \in A \union B BY <1>9, <1>10
  <2>2. ASSUME NEW a \in A PROVE \E i \in 1..(n + p) : list[i] = a
    <3>1. PICK i \in 1..n : above[i] = a BY <1>6 DEF n
    <3> QED BY <1>9, <1>10, <3>1
  <2>3. ASSUME NEW b \in B PROVE \E i \in 1..(n + p) : list[i] = b
    <3>1. PICK j \in 1..p : mine[j] = b BY <1>8 DEF p
    <3> QED BY <1>9, <1>10, <3>1
  <2> QED BY <2>1, <2>2, <2>3
<1>12. \A i, j \in 1..(n + p) : list[i] = list[j] => i = j
  <2>1. TAKE i, j \in 1..(n + p)
  <2>2. HAVE list[i] = list[j]
  <2>3. CASE i \in 1..n /\ j \in 1..n BY <1>6, <2>3, <1>9, <2>2 DEF n
  <2>4. ASSUME NEW a \in 1..n, NEW b \in 1..p, list[a] = list[n + b] PROVE FALSE
    BY <1>4, <1>9, <2>4
  <2>5. ASSUME NEW a \in 1..p, NEW b \in 1..p, i = n + a, j = n + b PROVE i = j BY <2>5, <1>8, <1>9, <2>2 DEF p
  <2> QED BY <1>10, <2>2, <2>3, <2>4, <2>5
<1> QED BY <1>3, <1>9, <1>11, <1>12 DEF list

\* The request of an accepted document carries what has a value: a path parameter is the last
\* of its name, and so is a header, whose name may be shared but for case; a querystring is
\* alone, and a query is not replaced by one.
LEMMA RequestCarries ==
  ASSUME ParametersInv, ParametersAccepted, NEW t \in Requests,
         NEW values \in [DOMAIN MergedParameters(t) -> ValueKinds], NEW queried \in BOOLEAN,
         NEW bodied \in BOOLEAN, ~RequestOf(t, values, queried, bodied).refused,
         NEW i \in DOMAIN MergedParameters(t), MergedParameters(t)[i] \in Reaching(t), values[i] # "null"
  PROVE  \/ i \in RequestOf(t, values, queried, bodied).carries
         \/ NameIsShared(MergedParameters(t), i, bodied)
         \/ MergedParameters(t)[i].parameter.in = "query" /\ values[i] = "empty"
<1> DEFINE list == MergedParameters(t)
<1>1. t \in DOMAIN workflow.steps /\ ParametersStep(t).target = "operation" BY DEF Requests
<1>2. workflow \in Workflows BY DEF ParametersInv
<1>3. PICK n \in Nat : /\ DOMAIN list = 1..n /\ {list[j] : j \in 1..n} = Effective(t)
                       /\ \A j, k \in 1..n : list[j] = list[k] => j = k
  BY <1>1, <1>2, MergedIsEffective
<1> HIDE DEF list
<1>4. ASSUME NEW j \in DOMAIN list, list[j].parameter.in = list[i].parameter.in,
             list[j].parameter.name = list[i].parameter.name
      PROVE  j = i BY <1>3, <1>4, EffectiveApart DEF list, Reaching, ParametersIdentity
<1>5. /\ ~UrlRefused(list, values, queried)
      /\ RequestOf(t, values, queried, bodied).carries = InUrl(list, values) \union InHeaders(list, bodied)
  BY DEF RequestOf, list
<1>6. list[i].parameter.in \in {"path", "query", "querystring", "header", "cookie"}
  BY <1>3, RequestPlaces DEF ParametersLocations, list
<1>7. i \in DOMAIN list /\ i \in Nat /\ \A j \in DOMAIN list : j \in Nat BY <1>3 DEF list
<1>8. \A location : list[i].parameter.in = location => i \in LastOfName(list, Placed(list, location))
  BY <1>3, <1>4, <1>7 DEF LastOfName, Placed
<1>9. CASE list[i].parameter.in = "path" BY <1>5, <1>8, <1>9 DEF InUrl
<1>10. CASE list[i].parameter.in = "cookie"
  <2>1. i \in Placed(list, "cookie") BY <1>7, <1>10 DEF Placed
  <2>2. CASE \E name \in HeaderNames(list, bodied) : <<name, HeaderOf(list[i].parameter)>> \in Replaces
    BY <1>10, <2>2 DEF NameIsShared, list
  <2> QED BY <1>5, <2>1, <2>2 DEF InHeaders
<1>11. CASE list[i].parameter.in = "header"
  <2>1. i \in LastOfName(list, Placed(list, "header")) BY <1>8, <1>11
  <2>2. HeaderOf(list[i].parameter) = list[i].parameter.name BY <1>11 DEF HeaderOf
  <2>3. CASE \/ HeaderOf(list[i].parameter) = CookieHeader /\ Placed(list, "cookie") # {}
             \/ \E name \in HeaderNames(list, bodied) : <<name, HeaderOf(list[i].parameter)>> \in Replaces
    BY <1>11, <2>3 DEF NameIsShared, list
  <2> QED BY <1>5, <2>1, <2>2, <2>3 DEF InHeaders
<1>12. CASE list[i].parameter.in = "query"
  <2>2. Located(t, "querystring") = {} BY <1>12, RequestPlaces DEF Located, Reaching, list
  <2> QED BY <1>5, <1>7, <1>12, <2>2, <1>3 DEF InUrl, Placed, Whole, Located, list
<1>13. CASE list[i].parameter.in = "querystring"
  <2>1. i \in Placed(list, "querystring") BY <1>7, <1>13 DEF Placed
  <2>2. values[i] \in {"text", "unsafe"} BY <1>7, <1>5, <2>1 DEF ValueKinds, list, UrlRefused
  <2>3. \A j \in Placed(list, "querystring") : j = i
    <3>1. TAKE j \in Placed(list, "querystring")
    <3>2. j \in DOMAIN list /\ list[j].parameter.in = "querystring" BY DEF Placed
    <3> DEFINE names == {e.parameter.name : e \in Located(t, "querystring")}
    <3>3. list[i] \in Located(t, "querystring") /\ list[j] \in Located(t, "querystring")
      BY <1>3, <1>7, <1>13, <3>2 DEF Located
    <3>4. Cardinality(names) = 1 BY <3>3, RequestPlaces
    <3>5. IsFiniteSet(names)
      <4> HIDE DEF names
      <4> QED BY <1>1, <1>2, QueryNamesFinite DEF names
    <3>6. PICK name : names = {name}
      <4> HIDE DEF names
      <4> QED BY <3>4, <3>5, FS_Singleton
    <3>7. list[j].parameter.name = list[i].parameter.name
      <4>1. list[i].parameter.name \in names /\ list[j].parameter.name \in names BY <3>3
      <4> HIDE DEF names
      <4> QED BY <3>6, <4>1
    <3> QED BY <1>4, <1>13, <3>2, <3>7
  <2> QED BY <1>5, <1>7, <2>1, <2>2, <2>3 DEF InUrl, Whole
<1> QED BY <1>6, <1>9, <1>10, <1>11, <1>12, <1>13

LEMMA AcceptedIsComplete == ASSUME ParametersInv PROVE RequestIsComplete
<1>1. SUFFICES ASSUME ParametersAccepted, NEW t \in Requests
      PROVE  LET list == MergedParameters(t) IN
             /\ {list[i] : i \in DOMAIN list} = Effective(t)
             /\ \A values \in [DOMAIN list -> ValueKinds], queried \in BOOLEAN, bodied \in BOOLEAN :
                  LET built == RequestOf(t, values, queried, bodied) IN
                  ~built.refused => \A i \in DOMAIN list :
                    list[i] \in Reaching(t) /\ values[i] # "null" =>
                      \/ i \in built.carries
                      \/ NameIsShared(list, i, bodied)
                      \/ list[i].parameter.in = "query" /\ values[i] = "empty"
  BY DEF RequestIsComplete
<1>4. {MergedParameters(t)[i] : i \in DOMAIN MergedParameters(t)} = Effective(t)
  BY MergedIsEffective DEF Requests, ParametersInv
<1>5. ASSUME NEW values \in [DOMAIN MergedParameters(t) -> ValueKinds], NEW queried \in BOOLEAN,
             NEW bodied \in BOOLEAN, ~RequestOf(t, values, queried, bodied).refused,
             NEW i \in DOMAIN MergedParameters(t), MergedParameters(t)[i] \in Reaching(t), values[i] # "null"
      PROVE  \/ i \in RequestOf(t, values, queried, bodied).carries
             \/ NameIsShared(MergedParameters(t), i, bodied)
             \/ MergedParameters(t)[i].parameter.in = "query" /\ values[i] = "empty"
  BY <1>1, <1>5, RequestCarries
<1> DEFINE Arrives(values, queried, bodied, i) ==
             \/ i \in RequestOf(t, values, queried, bodied).carries
             \/ NameIsShared(MergedParameters(t), i, bodied)
             \/ MergedParameters(t)[i].parameter.in = "query" /\ values[i] = "empty"
<1>6. ASSUME NEW values \in [DOMAIN MergedParameters(t) -> ValueKinds], NEW queried \in BOOLEAN,
             NEW bodied \in BOOLEAN, ~RequestOf(t, values, queried, bodied).refused,
             NEW i \in DOMAIN MergedParameters(t), MergedParameters(t)[i] \in Reaching(t), values[i] # "null"
      PROVE  Arrives(values, queried, bodied, i) BY <1>5, <1>6
<1>7. \A values \in [DOMAIN MergedParameters(t) -> ValueKinds], queried \in BOOLEAN, bodied \in BOOLEAN :
        ~RequestOf(t, values, queried, bodied).refused => \A i \in DOMAIN MergedParameters(t) :
          MergedParameters(t)[i] \in Reaching(t) /\ values[i] # "null" => Arrives(values, queried, bodied, i)
  <2> HIDE DEF Arrives
  <2> QED BY <1>6
<1> QED BY <1>4, <1>7

\* Of the steps that break a rule with a parameter of the workflow the first is told.
LEMMA ReportedByFirst ==
  ASSUME ParametersInv, checked = Len(workflow.steps), NEW i \in DOMAIN workflow.parameters,
         NEW rule \in {"AsyncOperation", "OperationRequiresIn", "ChannelPath"}
  PROVE  LET breaking == {t \in DOMAIN workflow.steps : <<InWorkflow(i), rule>> \in Context(t)} IN
         Cardinality({r \in parametersReport : r.at = InWorkflow(i) /\ r.rule = rule}) = (IF breaking = {} THEN 0 ELSE 1)
<1> DEFINE pair == <<InWorkflow(i), rule>>
           breaking == {t \in DOMAIN workflow.steps : pair \in Context(t)}
           told == {r \in parametersReport : r.at = InWorkflow(i) /\ r.rule = rule}
           Told(t) == [at |-> InWorkflow(i), rule |-> rule, by |-> t]
<1>1. /\ Len(workflow.steps) \in Nat /\ DOMAIN workflow.steps = 1..Len(workflow.steps)
      /\ parametersReport = FoundBy(Len(workflow.steps)) /\ Len(workflow.steps) # -1
  BY WorkflowShape DEF ParametersInv
<1>2. parametersReport = FoundAbove \union UNION {FoundIn(t) : t \in DOMAIN workflow.steps} BY <1>1 DEF FoundBy
<1>3. \A r \in FoundAbove : r.rule # rule
  <2>1. TAKE r \in FoundAbove
  <2>2. PICK k : r = [at |-> InWorkflow(k), rule |-> "Duplicate", by |-> 0] BY DEF FoundAbove
  <2> QED BY <2>2
<1>5. \A t \in DOMAIN workflow.steps : \A r \in QueriesOf(t) : r.at # InWorkflow(i)
  <2>1. TAKE t \in DOMAIN workflow.steps
  <2>2. TAKE r \in QueriesOf(t)
  <2> QED BY <1>1 DEF QueriesOf, InStep, InWorkflow
<1>6. ASSUME NEW t \in DOMAIN workflow.steps, NEW r \in AsksOf(t), r.at = InWorkflow(i), r.rule = rule
      PROVE  r = Told(t) /\ pair \in Context(t) /\ pair \notin SeenBy(t - 1)
  <2>1. PICK c \in Context(t) \ SeenBy(t - 1) : r = [at |-> c[1], rule |-> c[2], by |-> t] BY <1>6 DEF AsksOf
  <2> QED BY <2>1, <1>6, ContextPairs
<1>7. ASSUME NEW t \in DOMAIN workflow.steps, pair \in Context(t), pair \notin SeenBy(t - 1)
      PROVE  Told(t) \in parametersReport BY <1>2, <1>7 DEF FoundIn, AsksOf
<1>8. ASSUME NEW r \in told
      PROVE  \E t \in DOMAIN workflow.steps : r = Told(t) /\ pair \in Context(t) /\ pair \notin SeenBy(t - 1)
  <2>2. PICK t \in DOMAIN workflow.steps : r \in FoundIn(t) BY <1>2, <1>3
  <2> QED BY <1>6, <1>5, <2>2 DEF FoundIn, RepeatsIn
<1> HIDE DEF pair
<1>9. CASE breaking = {} BY <1>9, <1>8, FS_EmptySet DEF pair
<1>10. CASE breaking # {}
  <2>1. breaking \in SUBSET Nat BY <1>1
  <2>2. PICK t \in breaking : \A k \in breaking : t <= k
    <3> HIDE DEF breaking
    <3> QED BY <1>10, <2>1, LeastMember
  <2>3. t \in DOMAIN workflow.steps /\ t \in 1..Len(workflow.steps) /\ pair \in Context(t) BY <1>1, <2>2
  <2>4. pair \notin SeenBy(t - 1)
    <3>1. ASSUME NEW u \in 1..t - 1, pair \in Context(u) PROVE FALSE BY <2>2, <1>1, <2>3, <3>1
    <3> QED BY <3>1 DEF SeenBy
  <2>6. ASSUME NEW r \in told PROVE r = Told(t)
    <3>1. PICK u \in DOMAIN workflow.steps : r = Told(u) /\ pair \in Context(u) /\ pair \notin SeenBy(u - 1) BY <1>8
    <3> QED BY <3>1, <2>3, <1>1, <2>2 DEF SeenBy
  <2>7. told = {Told(t)} BY <1>7, <2>3, <2>4, <2>6
  <2>8. Cardinality(told) = 1
    <3> HIDE DEF told, Told
    <3> QED BY <2>7, FS_Singleton
  <2> QED BY <1>10, <2>8 DEF pair
<1> QED BY <1>9, <1>10

\* What was seen is in the report, told by the first that saw it.
LEMMA SeenIsTold == ASSUME ParametersInv PROVE EffectiveTypeOK
<1>1. checked \in -1..Len(workflow.steps) BY DEF ParametersInv
<1>2. ASSUME NEW c \in parametersSeen PROVE \E r \in parametersReport : c = <<r.at, r.rule>>
  <2>1. /\ Len(workflow.steps) \in Nat /\ parametersSeen = SeenBy(checked) /\ parametersReport = FoundBy(checked)
    BY WorkflowShape DEF ParametersInv
  <2> DEFINE telling == {t \in 1..checked : c \in Context(t)}
  <2>2. telling # {} /\ telling \in SUBSET Nat BY <1>2, <2>1 DEF SeenBy
  <2>3. PICK t \in telling : \A k \in telling : t <= k
    <3> HIDE DEF telling
    <3> QED BY <2>2, LeastMember
  <2>4. t \in 1..checked /\ c \in Context(t) /\ checked \in Int /\ checked # -1 BY <1>1, <2>1, <2>3
  <2>5. c \notin SeenBy(t - 1)
    <3>1. ASSUME NEW u \in 1..t - 1, c \in Context(u) PROVE FALSE BY <2>3, <2>4, <3>1
    <3> QED BY <3>1 DEF SeenBy
  <2>6. [at |-> c[1], rule |-> c[2], by |-> t] \in AsksOf(t) BY <2>4, <2>5 DEF AsksOf
  <2> QED BY <2>1, <2>4, <2>6, ContextPairs DEF FoundBy, FoundIn
<1> QED BY <1>1, <1>2 DEF EffectiveTypeOK

LEMMA ParametersInvClear == ASSUME ParametersInv PROVE ParametersAreClear
<1>2. OneValueEach
  <2>1. SUFFICES ASSUME ParametersAccepted, NEW t \in Requests, NEW e \in Reaching(t), NEW f \in Reaching(t),
                        ParametersIdentity(e.parameter) = ParametersIdentity(f.parameter)
                 PROVE  e = f
    BY DEF OneValueEach
  <2> QED BY <2>1, EffectiveApart DEF Reaching
<1> QED
  BY SeenIsTold, <1>2, RequestPlaces, AcceptedIsComplete, ReportedByFirst DEF ParametersAreClear,
     EveryParameterPlaced, OneQuery, DeclarationReportedOnce

\* Whatever parameters a workflow and its steps declare, in however many lists and steps,
\* a document that is accepted gives each request one value for a name and a location, a
\* place for each parameter, at most one query and all that has a value; and a parameter
\* that several steps inherit is told of once for each rule it breaks
\* (validate_effective_parameter_context, merge_workflow_params, build_url_from_path).
THEOREM ParametersHold == ParametersSpec => []ParametersAreClear
<1>1. ParametersInit => ParametersInv BY ParametersInvInit
<1>2. ParametersInv /\ [ParametersNext]_parametersVars => ParametersInv' BY ParametersInvNext
<1>3. ParametersInv => ParametersAreClear BY ParametersInvClear
<1> QED BY <1>1, <1>2, <1>3, PTL DEF ParametersSpec

(***************************************************************************)
(* Lists of diagnostics.  A rule is a list with one entry or none; what is *)
(* told of a field of an owner is told once where one part of a list tells *)
(* it once and the others not at all.                                      *)
(***************************************************************************)
Listing(list) == \E S : list \in Seq(S)
About(e, at, nested, field) == e.at = at /\ e.nested = nested /\ e.field = field
Silent(list, at, nested, field) == \A i \in DOMAIN list : ~About(list[i], at, nested, field)
Once(list, at, nested, field) ==
  \E i \in DOMAIN list : /\ About(list[i], at, nested, field)
                         /\ \A j \in DOMAIN list : About(list[j], at, nested, field) => j = i

\* Every entry of a list is one of a part.
Shares(list, a, b) ==
  \A x \in DOMAIN list : (\E i \in DOMAIN a : list[x] = a[i]) \/ (\E i \in DOMAIN b : list[x] = b[i])

LEMMA ListingDomain == ASSUME NEW list, Listing(list) PROVE Len(list) \in Nat /\ DOMAIN list = 1..Len(list)
<1>1. PICK S : list \in Seq(S) BY DEF Listing
<1> QED BY <1>1

LEMMA Joined ==
  ASSUME NEW a, NEW b, Listing(a), Listing(b)
  PROVE  /\ Listing(a \o b) /\ Shares(a \o b, a, b)
         /\ \A i \in DOMAIN a : \E x \in DOMAIN (a \o b) : (a \o b)[x] = a[i]
         /\ \A i \in DOMAIN b : \E x \in DOMAIN (a \o b) : (a \o b)[x] = b[i]
         /\ \A at, nested, field :
              /\ Silent(a, at, nested, field) /\ Silent(b, at, nested, field) => Silent(a \o b, at, nested, field)
              /\ Once(a, at, nested, field) /\ Silent(b, at, nested, field) => Once(a \o b, at, nested, field)
              /\ Silent(a, at, nested, field) /\ Once(b, at, nested, field) => Once(a \o b, at, nested, field)
<1>1. PICK A : a \in Seq(A) BY DEF Listing
<1>2. PICK B : b \in Seq(B) BY DEF Listing
<1> DEFINE n == Len(a)  p == Len(b)  both == a \o b
<1>3. /\ n \in Nat /\ p \in Nat /\ DOMAIN both = 1..(n + p) /\ DOMAIN a = 1..n /\ DOMAIN b = 1..p
      /\ \A i \in 1..n : both[i] = a[i]
      /\ \A j \in 1..p : both[n + j] = b[j] BY <1>1, <1>2, OneAfterAnother
<1>4. Listing(both)
  <2>2. both \in Seq(A \union B) BY <1>1, <1>2
  <2> QED BY <2>2 DEF Listing
<1> HIDE DEF both, n, p
<1>5. /\ \A i \in 1..n : i \in 1..(n + p)
      /\ \A j \in 1..p : n + j \in 1..(n + p)
      /\ \A x \in 1..(n + p) : x \in 1..n \/ \E j \in 1..p : x = n + j
  <2>1. n \in Nat /\ p \in Nat BY <1>3
  <2>2. ASSUME NEW x \in 1..(n + p), ~(x \in 1..n) PROVE \E j \in 1..p : x = n + j BY <2>1, <2>2
  <2> QED BY <2>1, <2>2
<1>6. Shares(both, a, b)
  <2>1. ASSUME NEW x \in 1..(n + p) PROVE (\E i \in 1..n : both[x] = a[i]) \/ (\E j \in 1..p : both[x] = b[j])
    <3>1. CASE x \in 1..n BY <1>3, <3>1
    <3>2. CASE \E j \in 1..p : x = n + j BY <1>3, <3>2
    <3> QED BY <1>5, <3>1, <3>2
  <2> QED BY <1>3, <2>1 DEF Shares
<1>7. /\ \A i \in DOMAIN a : \E x \in DOMAIN both : both[x] = a[i]
      /\ \A i \in DOMAIN b : \E x \in DOMAIN both : both[x] = b[i]
  BY <1>3, <1>5
<1>8. ASSUME NEW at, NEW nested, NEW field, Silent(a, at, nested, field), Silent(b, at, nested, field)
      PROVE  Silent(both, at, nested, field)
  BY <1>6, <1>8 DEF Silent, Shares
<1>9. ASSUME NEW at, NEW nested, NEW field, Once(a, at, nested, field), Silent(b, at, nested, field)
      PROVE  Once(both, at, nested, field)
  <2> DEFINE Is(e) == About(e, at, nested, field)
  <2>1. PICK i \in 1..n : Is(a[i]) /\ \A j \in 1..n : Is(a[j]) => j = i BY <1>3, <1>9 DEF Once
  <2>2. \A j \in 1..p : ~Is(b[j]) BY <1>3, <1>9 DEF Silent
  <2> HIDE DEF Is
  <2>3. \A x \in 1..(n + p) : Is(both[x]) => x = i BY <1>3, <1>5, <2>1, <2>2
  <2> QED BY <1>3, <2>3, <1>5, <2>1 DEF Once, Is
<1>10. ASSUME NEW at, NEW nested, NEW field, Silent(a, at, nested, field), Once(b, at, nested, field)
       PROVE  Once(both, at, nested, field)
  <2> DEFINE Is(e) == About(e, at, nested, field)
  <2>1. PICK i \in 1..p : Is(b[i]) /\ \A j \in 1..p : Is(b[j]) => j = i BY <1>3, <1>10 DEF Once
  <2>2. \A j \in 1..n : ~Is(a[j]) BY <1>3, <1>10 DEF Silent
  <2> HIDE DEF Is
  <2>3. \A x \in 1..(n + p) : Is(both[x]) => x = n + i BY <1>3, <1>5, <2>1, <2>2
  <2> QED BY <1>3, <2>3, <1>5, <2>1 DEF Once, Is
<1> QED BY <1>4, <1>6, <1>7, <1>8, <1>9, <1>10 DEF both

\* A rule tells its diagnostic where its condition holds.
LEMMA Told ==
  ASSUME NEW condition \in BOOLEAN, NEW e
  PROVE  /\ Listing(When(condition, e)) /\ \A i \in DOMAIN When(condition, e) : condition /\ When(condition, e)[i] = e
         /\ condition => DOMAIN When(condition, e) # {}
         /\ \A at, nested, field :
              /\ ~condition \/ ~About(e, at, nested, field) => Silent(When(condition, e), at, nested, field)
              /\ condition /\ About(e, at, nested, field) => Once(When(condition, e), at, nested, field)
<1>1. CASE condition
  <2> DEFINE list == When(condition, e)
  <2>2. list \in Seq({e}) /\ DOMAIN list = 1..1 /\ list[1] = e BY <1>1 DEF When
  <2> HIDE DEF list
  <2>3. 1 \in DOMAIN list /\ \A i \in DOMAIN list : i = 1 /\ list[i] = e BY <2>2
  <2>5. \A at, nested, field : About(e, at, nested, field) => Once(list, at, nested, field) BY <2>2, <2>3, Zenon DEF Once
  <2>6. \A at, nested, field : ~About(e, at, nested, field) => Silent(list, at, nested, field) BY <2>3, Zenon DEF Silent
  <2> QED BY <1>1, <2>3, <2>2, <2>5, <2>6 DEF list, Listing
<1>2. CASE ~condition BY <1>2 DEF Listing, Silent, When
<1> QED BY <1>1, <1>2

LEMMA NothingTold ==
  /\ Listing(<< >>) /\ DOMAIN << >> = {} /\ \A at, nested, field : Silent(<< >>, at, nested, field)
  BY DEF Listing, Silent

\* How often a field is told of in the report.
LEMMA TimesIs ==
  ASSUME NEW at, NEW nested, NEW field
  PROVE  /\ Silent(componentsReport, at, nested, field) => Times(at, nested, field) = 0
         /\ Once(componentsReport, at, nested, field) => Times(at, nested, field) = 1
<1> DEFINE hits == {i \in DOMAIN componentsReport : About(componentsReport[i], at, nested, field)}
<1>1. Times(at, nested, field) = Cardinality(hits) BY DEF Times, About
<1>2. ASSUME Silent(componentsReport, at, nested, field) PROVE Times(at, nested, field) = 0
  BY <1>1, <1>2, FS_EmptySet DEF Silent
<1>3. ASSUME Once(componentsReport, at, nested, field) PROVE Times(at, nested, field) = 1
  <2>1. PICK i : hits = {i} BY <1>3 DEF Once
  <2>2. Cardinality(hits) = 1
    <3> HIDE DEF hits
    <3> QED BY <2>1, FS_Singleton
  <2> QED BY <1>1, <2>2
<1> QED BY <1>2, <1>3

FlatTo(parts, k, flat) == flat = [i \in 1..k |-> IF i = 1 THEN parts[i] ELSE flat[i - 1] \o parts[i]]

\* Putting parts together goes on after each of them.
LEMMA FlattenGiven ==
  ASSUME NEW parts, Len(parts) \in Nat, Len(parts) # 0
  PROVE  \E flat : /\ FlattenSeq(parts) = flat[Len(parts)] /\ flat[1] = parts[1]
                   /\ \A i \in 2..Len(parts) : flat[i] = flat[i - 1] \o parts[i]
<1> DEFINE count == Len(parts)
           bad == {k \in 1..count : ~ \E f : FlatTo(parts, k, f)}
<1>1. ASSUME bad # {} PROVE FALSE
  <2>1. bad \in SUBSET Nat OBVIOUS
  <2>2. PICK k \in bad : \A j \in bad : k <= j
    <3> HIDE DEF bad
    <3> QED BY <1>1, <2>1, LeastMember
  <2>3. CASE k = 1
    <3>1. FlatTo(parts, 1, [i \in 1..1 |-> parts[i]]) BY DEF FlatTo
    <3> QED BY <2>2, <2>3, <3>1
  <2>4. CASE k # 1
    <3>1. k \in 2..count /\ k - 1 \in 1..count /\ k - 1 \notin bad BY <2>1, <2>2, <2>4
    <3>2. PICK f : FlatTo(parts, k - 1, f) BY <3>1
    <3> DEFINE latest == f[k - 1] \o parts[k]
               g == [i \in 1..k |-> IF i = k THEN latest ELSE f[i]]
    <3>3. ASSUME NEW i \in 1..k PROVE g[i] = IF i = 1 THEN parts[i] ELSE g[i - 1] \o parts[i]
      <4>1. CASE i = k
        <5>0. ASSUME NEW any PROVE LET h == [j \in 1..k |-> IF j = k THEN any ELSE f[j]] IN
                                   h[i] = any /\ h[i - 1] = f[k - 1] /\ i # 1
          BY <3>1, <4>1
        <5>1. g[i] = latest /\ g[i - 1] = f[k - 1] /\ i # 1
          <6> HIDE DEF latest
          <6> QED BY <5>0
        <5> QED BY <4>1, <5>1
      <4>2. CASE i # k
        <5>1. i \in 1..k - 1 BY <3>1, <4>2
        <5>2. f[i] = IF i = 1 THEN parts[i] ELSE f[i - 1] \o parts[i] BY <3>2, <5>1, Zenon DEF FlatTo
        <5> QED BY <5>2, <4>2, <3>1, <5>1
      <4> QED BY <4>1, <4>2
    <3>4. FlatTo(parts, k, g)
      <4>1. g = [i \in 1..k |-> g[i]] OBVIOUS
      <4> QED BY <3>3, <4>1, Zenon DEF FlatTo
    <3> QED BY <2>2, <3>4
  <2> QED BY <2>3, <2>4
<1>2. count \in 1..count OBVIOUS
<1>3. \E f : FlatTo(parts, count, f) BY <1>1, <1>2
<1> DEFINE f == CHOOSE g : FlatTo(parts, count, g)
<1>4. FlattenSeq(parts) = f[count] BY DEF FlattenSeq, FlatTo
<1>5. FlatTo(parts, count, f) BY <1>3, Zenon
<1> HIDE DEF f
<1>6. f = [i \in 1..count |-> IF i = 1 THEN parts[i] ELSE f[i - 1] \o parts[i]] BY <1>5, Zenon DEF FlatTo
<1>7. ASSUME NEW i \in 1..count PROVE f[i] = IF i = 1 THEN parts[i] ELSE f[i - 1] \o parts[i] BY <1>6, Zenon
<1>8. 1 \in 1..count /\ \A i \in 2..count : i \in 1..count /\ i # 1 BY <1>2
<1>9. f[1] = parts[1] /\ \A i \in 2..count : f[i] = f[i - 1] \o parts[i] BY <1>7, <1>8, Zenon
<1> QED BY <1>4, <1>9

\* What m parts come to.
Collects(list, parts, m) ==
  /\ Listing(list)
  /\ \A x \in DOMAIN list : \E i \in 1..m : \E j \in DOMAIN parts[i] : list[x] = parts[i][j]
  /\ \A i \in 1..m : \A j \in DOMAIN parts[i] : \E x \in DOMAIN list : list[x] = parts[i][j]
  /\ \A at, nested, field :
       /\ (\A i \in 1..m : Silent(parts[i], at, nested, field)) => Silent(list, at, nested, field)
       /\ \A k \in 1..m : Once(parts[k], at, nested, field) /\ (\A i \in 1..m : i # k => Silent(parts[i], at, nested, field))
                          => Once(list, at, nested, field)

LEMMA CollectsOne == ASSUME NEW parts, Listing(parts[1]) PROVE Collects(parts[1], parts, 1) BY DEF Collects

LEMMA CollectsMore ==
  ASSUME NEW parts, NEW m \in Nat, NEW list, Collects(list, parts, m), Listing(parts[m + 1])
  PROVE  Collects(list \o parts[m + 1], parts, m + 1)
<1> DEFINE part == parts[m + 1]  both == list \o part
<1>1. \A i : i \in 1..m + 1 <=> i \in 1..m \/ i = m + 1 OBVIOUS
<1>2. m + 1 \notin 1..m OBVIOUS
<1>4. /\ Listing(both) /\ Shares(both, list, part)
      /\ \A i \in DOMAIN list : \E x \in DOMAIN both : both[x] = list[i]
      /\ \A i \in DOMAIN part : \E x \in DOMAIN both : both[x] = part[i]
      /\ \A at, nested, field :
           /\ Silent(list, at, nested, field) /\ Silent(part, at, nested, field) => Silent(both, at, nested, field)
           /\ Once(list, at, nested, field) /\ Silent(part, at, nested, field) => Once(both, at, nested, field)
           /\ Silent(list, at, nested, field) /\ Once(part, at, nested, field) => Once(both, at, nested, field)
  BY Joined DEF Collects
<1> HIDE DEF both
<1>5. ASSUME NEW x \in DOMAIN both PROVE \E i \in 1..m + 1 : \E j \in DOMAIN parts[i] : both[x] = parts[i][j]
  <2>1. CASE \E i \in DOMAIN list : both[x] = list[i]
    <3>1. PICK i \in 1..m : \E j \in DOMAIN parts[i] : both[x] = parts[i][j] BY <2>1 DEF Collects
    <3> QED BY <1>1, <3>1
  <2>2. CASE \E j \in DOMAIN part : both[x] = part[j] BY <1>1, <2>2
  <2> QED BY <1>4, <2>1, <2>2 DEF Shares
<1>6. ASSUME NEW i \in 1..m + 1, NEW j \in DOMAIN parts[i] PROVE \E x \in DOMAIN both : both[x] = parts[i][j]
  <2>1. CASE i = m + 1 BY <1>4, <2>1
  <2>2. CASE i \in 1..m
    <3>1. PICK y \in DOMAIN list : list[y] = parts[i][j] BY <2>2 DEF Collects
    <3> QED BY <1>4, <3>1
  <2> QED BY <1>1, <2>1, <2>2
<1>7. ASSUME NEW at, NEW nested, NEW field, \A i \in 1..m + 1 : Silent(parts[i], at, nested, field)
      PROVE  Silent(both, at, nested, field)
  <2>1. Silent(part, at, nested, field) /\ \A i \in 1..m : Silent(parts[i], at, nested, field) BY <1>1, <1>7
  <2>2. Silent(list, at, nested, field) BY <2>1, Zenon DEF Collects
  <2> QED BY <1>4, <2>1, <2>2, Zenon
<1>8. ASSUME NEW at, NEW nested, NEW field, NEW k \in 1..m + 1, Once(parts[k], at, nested, field),
             \A i \in 1..m + 1 : i # k => Silent(parts[i], at, nested, field)
      PROVE  Once(both, at, nested, field)
  <2>1. CASE k = m + 1
    <3>1. \A i \in 1..m : Silent(parts[i], at, nested, field) BY <1>1, <1>2, <1>8, <2>1
    <3>2. Silent(list, at, nested, field) BY <3>1, Zenon DEF Collects
    <3>3. Once(part, at, nested, field) BY <1>8, <2>1
    <3> QED BY <1>4, <3>2, <3>3, Zenon
  <2>2. CASE k \in 1..m
    <3>1. Silent(part, at, nested, field) BY <1>1, <1>2, <1>8, <2>2
    <3>2. \A i \in 1..m : i # k => Silent(parts[i], at, nested, field) BY <1>1, <1>8
    <3>3. Once(list, at, nested, field) BY <1>8, <2>2, <3>2, Zenon DEF Collects
    <3> QED BY <1>4, <3>1, <3>3, Zenon
  <2> QED BY <1>1, <2>1, <2>2
<1> QED BY <1>4, <1>5, <1>6, <1>7, <1>8 DEF Collects, both

\* Parts put together tell what each of them tells.
LEMMA Flattened ==
  ASSUME NEW parts, Listing(parts), \A i \in DOMAIN parts : Listing(parts[i])
  PROVE  Collects(FlattenSeq(parts), parts, Len(parts))
<1>1. Len(parts) \in Nat /\ DOMAIN parts = 1..Len(parts) BY ListingDomain
<1>2. CASE Len(parts) = 0
  <2>1. PICK S : parts \in Seq(S) BY DEF Listing
  <2>3. FlattenSeq(parts) = << >> BY <1>2, <2>1 DEF FlattenSeq
  <2>4. \A i : i \notin 1..Len(parts) BY <1>2
  <2> QED BY <2>3, <2>4, NothingTold, Zenon DEF Collects
<1>3. CASE Len(parts) # 0
  <2> DEFINE n == Len(parts)
  <2>1. PICK f : FlattenSeq(parts) = f[n] /\ f[1] = parts[1] /\ \A i \in 2..n : f[i] = f[i - 1] \o parts[i]
    BY <1>1, <1>3, FlattenGiven
  <2> DEFINE wrong == {m \in 1..n : ~Collects(f[m], parts, m)}
  <2>2. n \in Nat /\ n \in 1..n /\ 1 \in 1..n BY <1>1, <1>3
  <2> HIDE DEF n
  <2>3. ASSUME wrong # {} PROVE FALSE
    <3>1. wrong \in SUBSET Nat BY <2>2
    <3>2. PICK m \in wrong : \A k \in wrong : m <= k
      <4> HIDE DEF wrong
      <4> QED BY <2>3, <3>1, LeastMember
    <3>3. CASE m = 1 BY <2>1, <3>2, <3>3, <1>1, <2>2, CollectsOne DEF n
    <3>4. CASE m # 1
      <4>1. PICK k \in Nat : m = k + 1 /\ m \in 2..n /\ k \in 1..n /\ k \notin wrong /\ m - 1 = k
        BY <2>2, <3>2, <3>4
      <4> QED BY <3>2, <4>1, <1>1, <2>1, CollectsMore DEF n
    <3> QED BY <3>3, <3>4
  <2> QED BY <2>1, <2>2, <2>3 DEF n
<1> QED BY <1>2, <1>3

\* A sequence of a finite set has each of its members in one place.
LEMMA SequenceOfSet ==
  ASSUME NEW S, IsFiniteSet(S)
  PROVE  /\ SetToSeq(S) \in Seq(S) /\ \A x \in S : \E i \in DOMAIN SetToSeq(S) : SetToSeq(S)[i] = x
         /\ \A i, j \in DOMAIN SetToSeq(S) : SetToSeq(S)[i] = SetToSeq(S)[j] => i = j
         /\ \A i \in DOMAIN SetToSeq(S) : SetToSeq(S)[i] \in S
<1> DEFINE n == Cardinality(S)  s1 == SetToSeq(S)
<1>1. n \in Nat BY FS_CardinalityType
<1>2. \E f \in [1..n -> S] : IsInjective(f)
  <2>2. PICK f : f \in Bijection(1..n, S) BY FS_CardinalityType DEF ExistsBijection
  <2> QED BY <2>2 DEF Bijection, Injection
<1>3. s1 \in [1..n -> S] /\ IsInjective(s1)
  <2> HIDE DEF n
  <2>1. s1 = CHOOSE f \in [1..n -> S] : IsInjective(f) BY DEF SetToSeq, n
  <2> HIDE DEF s1
  <2> QED BY <1>2, <2>1
<1>4. s1 \in Seq(S) /\ DOMAIN s1 = 1..n
  <2> HIDE DEF s1, n
  <2> QED BY <1>1, <1>3
<1>6. Cardinality(1..n) = n /\ IsFiniteSet(1..n) BY <1>1, FS_Interval
<1>7. s1 \in Surjection(1..n, S)
  <2> HIDE DEF s1
  <2> QED BY <1>3, <1>6, FS_Injection DEF Injection
<1> HIDE DEF s1, n
<1> QED BY <1>3, <1>4, <1>7 DEF s1, Surjection, IsInjective

\* What is gathered from parts, whatever their number.
Gathers(list, parts) ==
  /\ Listing(list)
  /\ \A x \in DOMAIN list : \E i \in DOMAIN parts : \E j \in DOMAIN parts[i] : list[x] = parts[i][j]
  /\ \A i \in DOMAIN parts : \A j \in DOMAIN parts[i] : \E x \in DOMAIN list : list[x] = parts[i][j]
  /\ \A at, nested, field :
       /\ (\A i \in DOMAIN parts : Silent(parts[i], at, nested, field)) => Silent(list, at, nested, field)
       /\ \A k \in DOMAIN parts :
            Once(parts[k], at, nested, field) /\ (\A i \in DOMAIN parts : i # k => Silent(parts[i], at, nested, field))
            => Once(list, at, nested, field)

LEMMA Gathered ==
  ASSUME NEW parts, Listing(parts), \A i \in DOMAIN parts : Listing(parts[i])
  PROVE  Gathers(FlattenSeq(parts), parts)
<1>1. DOMAIN parts = 1..Len(parts) BY ListingDomain
<1>2. Collects(FlattenSeq(parts), parts, Len(parts)) BY Flattened
<1> QED BY <1>1, <1>2, Zenon DEF Collects, Gathers

\* A rule has its diagnostic or none.
LEMMA RuleTells ==
  ASSUME NEW list, NEW e, list = << e >> \/ list = << >>
  PROVE  /\ Listing(list) /\ \A i \in DOMAIN list : list[i] = e /\ list = << e >>
         /\ list = << e >> => \E i \in DOMAIN list : list[i] = e
         /\ \A at, nested, field :
              /\ list = << >> \/ ~About(e, at, nested, field) => Silent(list, at, nested, field)
              /\ list = << e >> /\ About(e, at, nested, field) => Once(list, at, nested, field)
<1>1. CASE list = << e >>
  <2>1. list \in Seq({e}) /\ DOMAIN list = 1..1 /\ list[1] = e BY <1>1
  <2>3. 1 \in DOMAIN list /\ \A i \in DOMAIN list : i = 1 /\ list[i] = e BY <2>1
  <2>4. Listing(list) BY <2>1 DEF Listing
  <2>5. \A at, nested, field : About(e, at, nested, field) => Once(list, at, nested, field) BY <2>1, <2>3, Zenon DEF Once
  <2>6. \A at, nested, field : ~About(e, at, nested, field) => Silent(list, at, nested, field) BY <2>3, Zenon DEF Silent
  <2>7. list # << >> BY <1>1
  <2> QED BY <1>1, <2>3, <2>4, <2>5, <2>6, <2>7, Zenon
<1>2. CASE list = << >> BY <1>2, NothingTold
<1> QED BY <1>1, <1>2

\* A list of the diagnostics of one entry of an owner.
Within(list, at, nested, fields) ==
  \A i \in DOMAIN list : list[i].at = at /\ list[i].nested = nested /\ list[i].field \in fields

LEMMA WithinSilent ==
  ASSUME NEW list, NEW at, NEW nested, NEW fields, Within(list, at, nested, fields), NEW a, NEW n, NEW field,
         a # at \/ n # nested \/ field \notin fields
  PROVE  Silent(list, a, n, field)
  BY DEF Within, Silent, About

\* The rules of a parameter.
LEMMA ParameterTells ==
  ASSUME NEW p, NEW at, NEW nested, NEW entry \in BOOLEAN
  PROVE  /\ Listing(ParameterRules(p, at, nested, entry))
         /\ Within(ParameterRules(p, at, nested, entry), at, nested, {"in", "name", "value"})
         /\ p.value # "broken" => Silent(ParameterRules(p, at, nested, entry), at, nested, "value")
<1> DEFINE d1 == Diagnostic(at, nested, "in", "UnsupportedVersion")
           d2 == Diagnostic(at, nested, "name", "MissingRequiredField")
           d3 == Diagnostic(at, nested, "value", "InvalidExpression")
           p1 == When(p.in = "querystring" /\ componentsDoc.old, d1)
           p2 == When(p.name = ComponentsNoName /\ (~entry \/ p.reference = "empty"), d2)
           p3 == ValueSource(p, at, nested)
           parts == << p1, p2, p3 >>
<1>1. /\ p1 = << d1 >> \/ p1 = << >>
      /\ p2 = << d2 >> \/ p2 = << >>
      /\ p3 = << d3 >> \/ p3 = << >>
      /\ p.value # "broken" => p3 = << >>
  BY DEF When, ValueSource
<1>2. /\ ParameterRules(p, at, nested, entry) = FlattenSeq(parts)
      /\ \A e \in {d1, d2, d3} : e.at = at /\ e.nested = nested /\ e.field \in {"in", "name", "value"}
      /\ d1.field = "in" /\ d2.field = "name"
  BY DEF ParameterRules, Diagnostic
<1> HIDE DEF d1, d2, d3, p1, p2, p3
<1>3. Listing(p1) /\ Listing(p2) /\ Listing(p3) BY <1>1, RuleTells
<1>4. parts \in Seq({p1, p2, p3}) /\ DOMAIN parts = 1..3 /\ parts[1] = p1 /\ parts[2] = p2 /\ parts[3] = p3 OBVIOUS
<1> HIDE DEF parts
<1>5. Listing(parts) /\ \A i \in DOMAIN parts : i \in {1, 2, 3} BY <1>4 DEF Listing
<1>6. Gathers(FlattenSeq(parts), parts) BY <1>5, <1>3, <1>4, Gathered
<1>8. Within(FlattenSeq(parts), at, nested, {"in", "name", "value"})
  BY <1>2, <1>6, <1>4, <1>5, <1>1, RuleTells DEF Within, Gathers
<1>9. ASSUME p.value # "broken" PROVE Silent(FlattenSeq(parts), at, nested, "value")
  <2>1. Silent(p1, at, nested, "value") /\ Silent(p2, at, nested, "value") /\ Silent(p3, at, nested, "value")
    BY <1>1, <1>9, <1>2, RuleTells DEF About
  <2> QED BY <1>6, <1>4, <1>5, <2>1 DEF Gathers
<1> QED BY <1>2, <1>6, <1>8, <1>9 DEF Gathers

\* Rules put together, each with its diagnostic or none.
LEMMA RulesTell ==
  ASSUME NEW parts, NEW e, Listing(parts), \A i \in DOMAIN parts : parts[i] = << e[i] >> \/ parts[i] = << >>
  PROVE  /\ Listing(FlattenSeq(parts))
         /\ \A x \in DOMAIN FlattenSeq(parts) : \E i \in DOMAIN parts : FlattenSeq(parts)[x] = e[i] /\ parts[i] = << e[i] >>
         /\ \A at, nested, field :
              /\ (\A i \in DOMAIN parts : parts[i] = << >> \/ ~About(e[i], at, nested, field))
                 => Silent(FlattenSeq(parts), at, nested, field)
              /\ \A k \in DOMAIN parts :
                   /\ parts[k] = << e[k] >> /\ About(e[k], at, nested, field)
                   /\ \A i \in DOMAIN parts : i # k => parts[i] = << >> \/ ~About(e[i], at, nested, field)
                   => Once(FlattenSeq(parts), at, nested, field)
<1> DEFINE flat == FlattenSeq(parts)
<1>1. ASSUME NEW i \in DOMAIN parts
      PROVE  /\ Listing(parts[i]) /\ \A j \in DOMAIN parts[i] : parts[i][j] = e[i] /\ parts[i] = << e[i] >>
             /\ \A at, nested, field :
                  /\ parts[i] = << >> \/ ~About(e[i], at, nested, field) => Silent(parts[i], at, nested, field)
                  /\ parts[i] = << e[i] >> /\ About(e[i], at, nested, field) => Once(parts[i], at, nested, field)
  <2> DEFINE list == parts[i]  d == e[i]
  <2> HIDE DEF list, d
  <2> QED BY RuleTells DEF list, d
<1>2. Gathers(flat, parts) BY <1>1, Gathered
<1> HIDE DEF flat
<1>3. \A x \in DOMAIN flat : \E i \in DOMAIN parts : flat[x] = e[i] /\ parts[i] = << e[i] >>
  <2>1. TAKE x \in DOMAIN flat
  <2>2. PICK i \in DOMAIN parts : \E j \in DOMAIN parts[i] : flat[x] = parts[i][j] BY <1>2 DEF Gathers
  <2> QED BY <1>1, <2>2, Zenon
<1>4. ASSUME NEW at, NEW nested, NEW field, \A i \in DOMAIN parts : parts[i] = << >> \/ ~About(e[i], at, nested, field)
      PROVE  Silent(flat, at, nested, field)
  <2>1. \A i \in DOMAIN parts : Silent(parts[i], at, nested, field) BY <1>1, <1>4, Zenon
  <2> QED BY <1>2, <2>1, Zenon DEF Gathers
<1>5. ASSUME NEW at, NEW nested, NEW field, NEW k \in DOMAIN parts, parts[k] = << e[k] >>, About(e[k], at, nested, field),
             \A i \in DOMAIN parts : i # k => parts[i] = << >> \/ ~About(e[i], at, nested, field)
      PROVE  Once(flat, at, nested, field)
  <2>1. Once(parts[k], at, nested, field) BY <1>1, <1>5, Zenon
  <2>2. \A i \in DOMAIN parts : i # k => Silent(parts[i], at, nested, field) BY <1>1, <1>5, Zenon
  <2> QED BY <1>2, <2>1, <2>2, Zenon DEF Gathers
<1> QED BY <1>2, <1>3, <1>4, <1>5 DEF Gathers, flat

\* The rules of the fields of an action tell of each of them at most once.
LEMMA FixedTells ==
  ASSUME NEW a, NEW kind, NEW at
  PROVE  LET list == FixedFields(a, kind, at)
             retries == Retries(kind, Type(a))
             targets == AllowsTarget(kind, Type(a)) IN
         /\ Listing(list)
         /\ Within(list, at, 0, {"retryAfter", "type", "retryLimit", "workflowId", "stepId", "target"})
         /\ IF a.retryAfter = "negative" \/ (~retries /\ a.retryAfter = "positive")
            THEN Once(list, at, 0, "retryAfter") ELSE Silent(list, at, 0, "retryAfter")
         /\ IF (a.type = "absent" /\ ~raw) \/ (kind = "success" /\ Type(a) = "retry")
            THEN Once(list, at, 0, "type") ELSE Silent(list, at, 0, "type")
         /\ IF ~retries /\ a.retryLimit # "absent" /\ ~(raw /\ a.retryLimit = "zero")
            THEN Once(list, at, 0, "retryLimit") ELSE Silent(list, at, 0, "retryLimit")
         /\ IF ~targets /\ a.workflowId # "empty" THEN Once(list, at, 0, "workflowId") ELSE Silent(list, at, 0, "workflowId")
         /\ IF ~targets /\ a.stepId # "empty" THEN Once(list, at, 0, "stepId") ELSE Silent(list, at, 0, "stepId")
<1> DEFINE list == FixedFields(a, kind, at)
           retries == Retries(kind, Type(a))
           targets == AllowsTarget(kind, Type(a))
           D(field, what) == Diagnostic(at, 0, field, what)
           e == << D("retryAfter", "InvalidRetryField"), D("type", "MissingRequiredField"), D("type", "InvalidRetryField"),
                   D("retryLimit", "InvalidRetryField"), D("retryAfter", "InvalidRetryField"),
                   D("workflowId", "InvalidReference"), D("stepId", "InvalidReference"),
                   D("target", "MissingRequiredField"), D("target", "InvalidReference") >>
           parts == << When(a.retryAfter = "negative", e[1]),
                       When(a.type = "absent" /\ ~raw, e[2]),
                       When(kind = "success" /\ Type(a) = "retry", e[3]),
                       When(~retries /\ a.retryLimit # "absent" /\ ~(raw /\ a.retryLimit = "zero"), e[4]),
                       When(~retries /\ a.retryAfter = "positive", e[5]),
                       When(~targets /\ a.workflowId # "empty", e[6]),
                       When(~targets /\ a.stepId # "empty", e[7]),
                       When(Type(a) = "goto" /\ a.workflowId = "empty" /\ a.stepId = "empty", e[8]),
                       When(targets /\ a.workflowId # "empty" /\ a.stepId # "empty", e[9]) >>
           names == << "retryAfter", "type", "type", "retryLimit", "retryAfter", "workflowId", "stepId", "target", "target" >>
<1>1. list = FlattenSeq(parts) BY DEF FixedFields
<1>2. \A i \in 1..9 : e[i].at = at /\ e[i].nested = 0 /\ e[i].field = names[i] BY DEF Diagnostic
<1> HIDE DEF e
<1>3. Listing(parts) /\ DOMAIN parts = 1..9
  <2>1. parts \in Seq({parts[i] : i \in 1..9}) OBVIOUS
  <2>2. DOMAIN parts = 1..9 OBVIOUS
  <2> HIDE DEF parts
  <2> QED BY <2>1, <2>2 DEF Listing
<1>4. /\ parts[1] = IF a.retryAfter = "negative" THEN << e[1] >> ELSE << >>
      /\ parts[2] = IF a.type = "absent" /\ ~raw THEN << e[2] >> ELSE << >>
      /\ parts[3] = IF kind = "success" /\ Type(a) = "retry" THEN << e[3] >> ELSE << >>
      /\ parts[4] = IF ~retries /\ a.retryLimit # "absent" /\ ~(raw /\ a.retryLimit = "zero") THEN << e[4] >> ELSE << >>
      /\ parts[5] = IF ~retries /\ a.retryAfter = "positive" THEN << e[5] >> ELSE << >>
      /\ parts[6] = IF ~targets /\ a.workflowId # "empty" THEN << e[6] >> ELSE << >>
      /\ parts[7] = IF ~targets /\ a.stepId # "empty" THEN << e[7] >> ELSE << >>
      /\ \A i \in {8, 9} : parts[i] = << e[i] >> \/ parts[i] = << >>
  BY DEF When
<1> HIDE DEF parts, retries, targets
<1>5. \A i \in DOMAIN parts : parts[i] = << e[i] >> \/ parts[i] = << >> BY <1>3, <1>4
<1>6. /\ Listing(list)
      /\ \A x \in DOMAIN list : \E i \in DOMAIN parts : list[x] = e[i] /\ parts[i] = << e[i] >>
      /\ \A x, nested, field :
           /\ (\A i \in DOMAIN parts : parts[i] = << >> \/ ~About(e[i], x, nested, field)) => Silent(list, x, nested, field)
           /\ \A k \in DOMAIN parts :
                /\ parts[k] = << e[k] >> /\ About(e[k], x, nested, field)
                /\ \A i \in DOMAIN parts : i # k => parts[i] = << >> \/ ~About(e[i], x, nested, field)
                => Once(list, x, nested, field)
  <2> HIDE DEF list
  <2>1. /\ Listing(FlattenSeq(parts))
        /\ \A x \in DOMAIN FlattenSeq(parts) : \E i \in DOMAIN parts : FlattenSeq(parts)[x] = e[i] /\ parts[i] = << e[i] >>
        /\ \A x, nested, field :
             /\ (\A i \in DOMAIN parts : parts[i] = << >> \/ ~About(e[i], x, nested, field))
                => Silent(FlattenSeq(parts), x, nested, field)
             /\ \A k \in DOMAIN parts :
                  /\ parts[k] = << e[k] >> /\ About(e[k], x, nested, field)
                  /\ \A i \in DOMAIN parts : i # k => parts[i] = << >> \/ ~About(e[i], x, nested, field)
                  => Once(FlattenSeq(parts), x, nested, field)
    BY <1>3, <1>5, RulesTell
  <2> QED BY <1>1, <2>1, Zenon
<1> HIDE DEF list
<1>7. Within(list, at, 0, {"retryAfter", "type", "retryLimit", "workflowId", "stepId", "target"})
  <2>1. \A i \in 1..9 : names[i] \in {"retryAfter", "type", "retryLimit", "workflowId", "stepId", "target"} OBVIOUS
  <2> HIDE DEF names
  <2> QED BY <1>2, <1>3, <1>6, <2>1 DEF Within
<1>8. \A i \in DOMAIN parts : \A field : About(e[i], at, 0, field) <=> names[i] = field
  <2> HIDE DEF names
  <2> QED BY <1>2, <1>3 DEF About
<1> DEFINE Quiet(i, field) == parts[i] = << >> \/ names[i] # field
<1>9. /\ \A field : (\A i \in 1..9 : Quiet(i, field)) => Silent(list, at, 0, field)
      /\ \A field : \A k \in 1..9 : parts[k] = << e[k] >> /\ names[k] = field /\ (\A i \in 1..9 : i # k => Quiet(i, field))
                                    => Once(list, at, 0, field)
  <2> HIDE DEF names
  <2>1. ASSUME NEW field, \A i \in 1..9 : Quiet(i, field) PROVE Silent(list, at, 0, field)
    <3>1. \A i \in DOMAIN parts : parts[i] = << >> \/ ~About(e[i], at, 0, field) BY <1>3, <1>8, <2>1
    <3> QED BY <1>6, <3>1, Zenon
  <2>2. ASSUME NEW field, NEW k \in 1..9, parts[k] = << e[k] >>, names[k] = field, \A i \in 1..9 : i # k => Quiet(i, field)
        PROVE  Once(list, at, 0, field)
    <3>1. \A i \in DOMAIN parts : i # k => parts[i] = << >> \/ ~About(e[i], at, 0, field) BY <1>3, <1>8, <2>2
    <3>2. k \in DOMAIN parts /\ About(e[k], at, 0, field) BY <1>3, <1>8, <2>2
    <3> QED BY <1>6, <2>2, <3>1, <3>2, Zenon
  <2> HIDE DEF Quiet
  <2> QED BY <2>1, <2>2
<1> HIDE DEF Quiet
<1>10. /\ \A field : (\A i \in {1, 2, 3, 4, 5, 6, 7, 8, 9} : Quiet(i, field)) => Silent(list, at, 0, field)
       /\ \A field : \A k \in {1, 2, 3, 4, 5, 6, 7, 8, 9} :
            parts[k] = << e[k] >> /\ names[k] = field /\ (\A i \in {1, 2, 3, 4, 5, 6, 7, 8, 9} : i # k => Quiet(i, field))
            => Once(list, at, 0, field)
  <2> HIDE DEF names
  <2> QED BY <1>9
<1>11. /\ \A i \in {2, 3, 4, 6, 7, 8, 9} : Quiet(i, "retryAfter")
       /\ \A i \in {1, 4, 5, 6, 7, 8, 9} : Quiet(i, "type")
       /\ \A i \in {1, 2, 3, 5, 6, 7, 8, 9} : Quiet(i, "retryLimit")
       /\ \A i \in {1, 2, 3, 4, 5, 7, 8, 9} : Quiet(i, "workflowId")
       /\ \A i \in {1, 2, 3, 4, 5, 6, 8, 9} : Quiet(i, "stepId")
       /\ names[1] = "retryAfter" /\ names[2] = "type" /\ names[3] = "type" /\ names[4] = "retryLimit"
       /\ names[5] = "retryAfter" /\ names[6] = "workflowId" /\ names[7] = "stepId"
  BY DEF Quiet
<1>12. \A i, field : parts[i] = << >> => Quiet(i, field) BY DEF Quiet
<1> HIDE DEF names
<1>13. IF a.retryAfter = "negative" \/ (~retries /\ a.retryAfter = "positive")
       THEN Once(list, at, 0, "retryAfter") ELSE Silent(list, at, 0, "retryAfter") BY <1>10, <1>11, <1>12, <1>4
<1>14. IF (a.type = "absent" /\ ~raw) \/ (kind = "success" /\ Type(a) = "retry")
       THEN Once(list, at, 0, "type") ELSE Silent(list, at, 0, "type") BY <1>10, <1>11, <1>12, <1>4 DEF Type
<1>15. IF ~retries /\ a.retryLimit # "absent" /\ ~(raw /\ a.retryLimit = "zero")
       THEN Once(list, at, 0, "retryLimit") ELSE Silent(list, at, 0, "retryLimit")
  BY <1>4, <1>10, <1>11, <1>12
<1>16. IF ~targets /\ a.workflowId # "empty" THEN Once(list, at, 0, "workflowId") ELSE Silent(list, at, 0, "workflowId")
  BY <1>4, <1>10, <1>11, <1>12
<1>17. IF ~targets /\ a.stepId # "empty" THEN Once(list, at, 0, "stepId") ELSE Silent(list, at, 0, "stepId")
  BY <1>4, <1>10, <1>11, <1>12
<1> QED BY <1>6, <1>7, <1>13, <1>14, <1>15, <1>16, <1>17 DEF list, retries, targets

\* A list has no entry but those of others.
OneOf(list, x, part) == \E j \in DOMAIN part : list[x] = part[j]

\* Three to six parts put together.
LEMMA ThreeParts ==
  ASSUME NEW a, NEW b, NEW c, Listing(a), Listing(b), Listing(c)
  PROVE  LET list == FlattenSeq(<< a, b, c >>) IN
         /\ Listing(list)
         /\ \A x \in DOMAIN list : OneOf(list, x, a) \/ OneOf(list, x, b) \/ OneOf(list, x, c)
         /\ \A at, nested, field :
              /\ Silent(a, at, nested, field) /\ Silent(b, at, nested, field) /\ Silent(c, at, nested, field)
                 => Silent(list, at, nested, field)
              /\ Once(a, at, nested, field) /\ Silent(b, at, nested, field) /\ Silent(c, at, nested, field)
                 => Once(list, at, nested, field)
              /\ Silent(a, at, nested, field) /\ Once(b, at, nested, field) /\ Silent(c, at, nested, field)
                 => Once(list, at, nested, field)
              /\ Silent(a, at, nested, field) /\ Silent(b, at, nested, field) /\ Once(c, at, nested, field)
                 => Once(list, at, nested, field)
<1> DEFINE parts == << a, b, c >>  list == FlattenSeq(parts)
<1>1. parts \in Seq({a, b, c}) /\ DOMAIN parts = 1..3 OBVIOUS
<1>2. parts[1] = a /\ parts[2] = b /\ parts[3] = c OBVIOUS
<1> HIDE DEF parts
<1>4. DOMAIN parts = {1, 2, 3} BY <1>1
<1>6. Gathers(list, parts) BY <1>1, <1>2, <1>4, Gathered DEF Listing
<1> HIDE DEF list
<1>8. ASSUME NEW at, NEW nested, NEW field
      PROVE  /\ Silent(a, at, nested, field) /\ Silent(b, at, nested, field) /\ Silent(c, at, nested, field)
                => Silent(list, at, nested, field)
             /\ Once(a, at, nested, field) /\ Silent(b, at, nested, field) /\ Silent(c, at, nested, field)
                => Once(list, at, nested, field)
             /\ Silent(a, at, nested, field) /\ Once(b, at, nested, field) /\ Silent(c, at, nested, field)
                => Once(list, at, nested, field)
             /\ Silent(a, at, nested, field) /\ Silent(b, at, nested, field) /\ Once(c, at, nested, field)
                => Once(list, at, nested, field)
  <2>1. (\A i \in DOMAIN parts : Silent(parts[i], at, nested, field)) => Silent(list, at, nested, field)
    BY <1>6, Zenon DEF Gathers
  <2>2. \A k \in DOMAIN parts :
          Once(parts[k], at, nested, field) /\ (\A i \in DOMAIN parts : i # k => Silent(parts[i], at, nested, field))
          => Once(list, at, nested, field)
    BY <1>6, Zenon DEF Gathers
  <2> QED BY <1>2, <1>4, <2>1, <2>2
<1> QED BY <1>2, <1>4, <1>6, <1>8 DEF list, parts, Gathers, OneOf

LEMMA FourParts ==
  ASSUME NEW a, NEW b, NEW c, NEW d, Listing(a), Listing(b), Listing(c), Listing(d)
  PROVE  LET list == FlattenSeq(<< a, b, c, d >>) IN
         /\ Listing(list)
         /\ \A x \in DOMAIN list : OneOf(list, x, a) \/ OneOf(list, x, b) \/ OneOf(list, x, c) \/ OneOf(list, x, d)
         /\ \A at, nested, field :
              /\ Silent(a, at, nested, field) /\ Silent(b, at, nested, field) /\ Silent(c, at, nested, field) /\ Silent(d, at, nested, field)
                 => Silent(list, at, nested, field)
              /\ Once(a, at, nested, field) /\ Silent(b, at, nested, field) /\ Silent(c, at, nested, field) /\ Silent(d, at, nested, field)
                 => Once(list, at, nested, field)
              /\ Silent(a, at, nested, field) /\ Once(b, at, nested, field) /\ Silent(c, at, nested, field) /\ Silent(d, at, nested, field)
                 => Once(list, at, nested, field)
              /\ Silent(a, at, nested, field) /\ Silent(b, at, nested, field) /\ Once(c, at, nested, field) /\ Silent(d, at, nested, field)
                 => Once(list, at, nested, field)
              /\ Silent(a, at, nested, field) /\ Silent(b, at, nested, field) /\ Silent(c, at, nested, field) /\ Once(d, at, nested, field)
                 => Once(list, at, nested, field)
<1> DEFINE parts == << a, b, c, d >>  list == FlattenSeq(parts)
<1>1. parts \in Seq({a, b, c, d}) /\ DOMAIN parts = 1..4 OBVIOUS
<1>2. parts[1] = a /\ parts[2] = b /\ parts[3] = c /\ parts[4] = d OBVIOUS
<1> HIDE DEF parts
<1>4. DOMAIN parts = {1, 2, 3, 4} BY <1>1
<1>6. Gathers(list, parts) BY <1>1, <1>2, <1>4, Gathered DEF Listing
<1> HIDE DEF list
<1>8. ASSUME NEW at, NEW nested, NEW field
      PROVE  /\ Silent(a, at, nested, field) /\ Silent(b, at, nested, field) /\ Silent(c, at, nested, field) /\ Silent(d, at, nested, field)
                => Silent(list, at, nested, field)
             /\ Once(a, at, nested, field) /\ Silent(b, at, nested, field) /\ Silent(c, at, nested, field) /\ Silent(d, at, nested, field)
                => Once(list, at, nested, field)
             /\ Silent(a, at, nested, field) /\ Once(b, at, nested, field) /\ Silent(c, at, nested, field) /\ Silent(d, at, nested, field)
                => Once(list, at, nested, field)
             /\ Silent(a, at, nested, field) /\ Silent(b, at, nested, field) /\ Once(c, at, nested, field) /\ Silent(d, at, nested, field)
                => Once(list, at, nested, field)
             /\ Silent(a, at, nested, field) /\ Silent(b, at, nested, field) /\ Silent(c, at, nested, field) /\ Once(d, at, nested, field)
                => Once(list, at, nested, field)
  <2>1. (\A i \in DOMAIN parts : Silent(parts[i], at, nested, field)) => Silent(list, at, nested, field)
    BY <1>6, Zenon DEF Gathers
  <2>2. \A k \in DOMAIN parts :
          Once(parts[k], at, nested, field) /\ (\A i \in DOMAIN parts : i # k => Silent(parts[i], at, nested, field))
          => Once(list, at, nested, field)
    BY <1>6, Zenon DEF Gathers
  <2> QED BY <1>2, <1>4, <2>1, <2>2
<1> QED BY <1>2, <1>4, <1>6, <1>8 DEF list, parts, Gathers, OneOf

LEMMA FiveParts ==
  ASSUME NEW a, NEW b, NEW c, NEW d, NEW e, Listing(a), Listing(b), Listing(c), Listing(d), Listing(e)
  PROVE  LET list == FlattenSeq(<< a, b, c, d, e >>) IN
         /\ Listing(list)
         /\ \A x \in DOMAIN list : OneOf(list, x, a) \/ OneOf(list, x, b) \/ OneOf(list, x, c) \/ OneOf(list, x, d) \/ OneOf(list, x, e)
         /\ \A at, nested, field :
              /\ Silent(a, at, nested, field) /\ Silent(b, at, nested, field) /\ Silent(c, at, nested, field) /\ Silent(d, at, nested, field) /\ Silent(e, at, nested, field)
                 => Silent(list, at, nested, field)
              /\ Once(a, at, nested, field) /\ Silent(b, at, nested, field) /\ Silent(c, at, nested, field) /\ Silent(d, at, nested, field) /\ Silent(e, at, nested, field)
                 => Once(list, at, nested, field)
              /\ Silent(a, at, nested, field) /\ Once(b, at, nested, field) /\ Silent(c, at, nested, field) /\ Silent(d, at, nested, field) /\ Silent(e, at, nested, field)
                 => Once(list, at, nested, field)
              /\ Silent(a, at, nested, field) /\ Silent(b, at, nested, field) /\ Once(c, at, nested, field) /\ Silent(d, at, nested, field) /\ Silent(e, at, nested, field)
                 => Once(list, at, nested, field)
              /\ Silent(a, at, nested, field) /\ Silent(b, at, nested, field) /\ Silent(c, at, nested, field) /\ Once(d, at, nested, field) /\ Silent(e, at, nested, field)
                 => Once(list, at, nested, field)
              /\ Silent(a, at, nested, field) /\ Silent(b, at, nested, field) /\ Silent(c, at, nested, field) /\ Silent(d, at, nested, field) /\ Once(e, at, nested, field)
                 => Once(list, at, nested, field)
<1> DEFINE parts == << a, b, c, d, e >>  list == FlattenSeq(parts)
<1>1. parts \in Seq({a, b, c, d, e}) /\ DOMAIN parts = 1..5 OBVIOUS
<1>2. parts[1] = a /\ parts[2] = b /\ parts[3] = c /\ parts[4] = d /\ parts[5] = e OBVIOUS
<1> HIDE DEF parts
<1>4. DOMAIN parts = {1, 2, 3, 4, 5} BY <1>1
<1>6. Gathers(list, parts) BY <1>1, <1>2, <1>4, Gathered DEF Listing
<1> HIDE DEF list
<1>8. ASSUME NEW at, NEW nested, NEW field
      PROVE  /\ Silent(a, at, nested, field) /\ Silent(b, at, nested, field) /\ Silent(c, at, nested, field) /\ Silent(d, at, nested, field) /\ Silent(e, at, nested, field)
                => Silent(list, at, nested, field)
             /\ Once(a, at, nested, field) /\ Silent(b, at, nested, field) /\ Silent(c, at, nested, field) /\ Silent(d, at, nested, field) /\ Silent(e, at, nested, field)
                => Once(list, at, nested, field)
             /\ Silent(a, at, nested, field) /\ Once(b, at, nested, field) /\ Silent(c, at, nested, field) /\ Silent(d, at, nested, field) /\ Silent(e, at, nested, field)
                => Once(list, at, nested, field)
             /\ Silent(a, at, nested, field) /\ Silent(b, at, nested, field) /\ Once(c, at, nested, field) /\ Silent(d, at, nested, field) /\ Silent(e, at, nested, field)
                => Once(list, at, nested, field)
             /\ Silent(a, at, nested, field) /\ Silent(b, at, nested, field) /\ Silent(c, at, nested, field) /\ Once(d, at, nested, field) /\ Silent(e, at, nested, field)
                => Once(list, at, nested, field)
             /\ Silent(a, at, nested, field) /\ Silent(b, at, nested, field) /\ Silent(c, at, nested, field) /\ Silent(d, at, nested, field) /\ Once(e, at, nested, field)
                => Once(list, at, nested, field)
  <2>1. (\A i \in DOMAIN parts : Silent(parts[i], at, nested, field)) => Silent(list, at, nested, field)
    BY <1>6, Zenon DEF Gathers
  <2>2. \A k \in DOMAIN parts :
          Once(parts[k], at, nested, field) /\ (\A i \in DOMAIN parts : i # k => Silent(parts[i], at, nested, field))
          => Once(list, at, nested, field)
    BY <1>6, Zenon DEF Gathers
  <2> QED BY <1>2, <1>4, <2>1, <2>2
<1> QED BY <1>2, <1>4, <1>6, <1>8 DEF list, parts, Gathers, OneOf

SixTell(list, a, b, c, d, e, f) ==
  /\ Listing(list)
  /\ \A x \in DOMAIN list : OneOf(list, x, a) \/ OneOf(list, x, b) \/ OneOf(list, x, c) \/ OneOf(list, x, d) \/ OneOf(list, x, e) \/ OneOf(list, x, f)
  /\ \A at, nested, field :
       /\ Silent(a, at, nested, field) /\ Silent(b, at, nested, field) /\ Silent(c, at, nested, field) /\ Silent(d, at, nested, field) /\ Silent(e, at, nested, field) /\ Silent(f, at, nested, field)
          => Silent(list, at, nested, field)
       /\ Once(a, at, nested, field) /\ Silent(b, at, nested, field) /\ Silent(c, at, nested, field) /\ Silent(d, at, nested, field) /\ Silent(e, at, nested, field) /\ Silent(f, at, nested, field)
          => Once(list, at, nested, field)
       /\ Silent(a, at, nested, field) /\ Once(b, at, nested, field) /\ Silent(c, at, nested, field) /\ Silent(d, at, nested, field) /\ Silent(e, at, nested, field) /\ Silent(f, at, nested, field)
          => Once(list, at, nested, field)
       /\ Silent(a, at, nested, field) /\ Silent(b, at, nested, field) /\ Once(c, at, nested, field) /\ Silent(d, at, nested, field) /\ Silent(e, at, nested, field) /\ Silent(f, at, nested, field)
          => Once(list, at, nested, field)
       /\ Silent(a, at, nested, field) /\ Silent(b, at, nested, field) /\ Silent(c, at, nested, field) /\ Once(d, at, nested, field) /\ Silent(e, at, nested, field) /\ Silent(f, at, nested, field)
          => Once(list, at, nested, field)
       /\ Silent(a, at, nested, field) /\ Silent(b, at, nested, field) /\ Silent(c, at, nested, field) /\ Silent(d, at, nested, field) /\ Once(e, at, nested, field) /\ Silent(f, at, nested, field)
          => Once(list, at, nested, field)
       /\ Silent(a, at, nested, field) /\ Silent(b, at, nested, field) /\ Silent(c, at, nested, field) /\ Silent(d, at, nested, field) /\ Silent(e, at, nested, field) /\ Once(f, at, nested, field)
          => Once(list, at, nested, field)

LEMMA SixParts ==
  ASSUME NEW a, NEW b, NEW c, NEW d, NEW e, NEW f, Listing(a), Listing(b), Listing(c), Listing(d), Listing(e), Listing(f)
  PROVE  SixTell(FlattenSeq(<< a, b, c, d, e, f >>), a, b, c, d, e, f)
<1> DEFINE parts == << a, b, c, d, e, f >>  list == FlattenSeq(parts)
<1>1. parts \in Seq({a, b, c, d, e, f}) /\ DOMAIN parts = 1..6 OBVIOUS
<1>2. parts[1] = a /\ parts[2] = b /\ parts[3] = c /\ parts[4] = d /\ parts[5] = e /\ parts[6] = f OBVIOUS
<1> HIDE DEF parts
<1>4. DOMAIN parts = {1, 2, 3, 4, 5, 6} BY <1>1
<1>6. Gathers(list, parts) BY <1>1, <1>2, <1>4, Gathered DEF Listing
<1> HIDE DEF list
<1>8. ASSUME NEW at, NEW nested, NEW field
      PROVE  /\ Silent(a, at, nested, field) /\ Silent(b, at, nested, field) /\ Silent(c, at, nested, field) /\ Silent(d, at, nested, field) /\ Silent(e, at, nested, field) /\ Silent(f, at, nested, field)
                => Silent(list, at, nested, field)
             /\ Once(a, at, nested, field) /\ Silent(b, at, nested, field) /\ Silent(c, at, nested, field) /\ Silent(d, at, nested, field) /\ Silent(e, at, nested, field) /\ Silent(f, at, nested, field)
                => Once(list, at, nested, field)
             /\ Silent(a, at, nested, field) /\ Once(b, at, nested, field) /\ Silent(c, at, nested, field) /\ Silent(d, at, nested, field) /\ Silent(e, at, nested, field) /\ Silent(f, at, nested, field)
                => Once(list, at, nested, field)
             /\ Silent(a, at, nested, field) /\ Silent(b, at, nested, field) /\ Once(c, at, nested, field) /\ Silent(d, at, nested, field) /\ Silent(e, at, nested, field) /\ Silent(f, at, nested, field)
                => Once(list, at, nested, field)
             /\ Silent(a, at, nested, field) /\ Silent(b, at, nested, field) /\ Silent(c, at, nested, field) /\ Once(d, at, nested, field) /\ Silent(e, at, nested, field) /\ Silent(f, at, nested, field)
                => Once(list, at, nested, field)
             /\ Silent(a, at, nested, field) /\ Silent(b, at, nested, field) /\ Silent(c, at, nested, field) /\ Silent(d, at, nested, field) /\ Once(e, at, nested, field) /\ Silent(f, at, nested, field)
                => Once(list, at, nested, field)
             /\ Silent(a, at, nested, field) /\ Silent(b, at, nested, field) /\ Silent(c, at, nested, field) /\ Silent(d, at, nested, field) /\ Silent(e, at, nested, field) /\ Once(f, at, nested, field)
                => Once(list, at, nested, field)
  <2>1. (\A i \in DOMAIN parts : Silent(parts[i], at, nested, field)) => Silent(list, at, nested, field)
    BY <1>6, Zenon DEF Gathers
  <2>2. \A k \in DOMAIN parts :
          Once(parts[k], at, nested, field) /\ (\A i \in DOMAIN parts : i # k => Silent(parts[i], at, nested, field))
          => Once(list, at, nested, field)
    BY <1>6, Zenon DEF Gathers
  <2> QED BY <1>2, <1>4, <2>1, <2>2
<1> QED BY <1>2, <1>4, <1>6, <1>8 DEF list, parts, SixTell, Gathers, OneOf

Origins == {Own, From(TRUE), From(FALSE)}

LEMMA EntryTells ==
  ASSUME NEW p, NEW at, NEW nested, NEW from \in Origins
  PROVE  LET list == EntryRules(p, at, nested, from) IN
         /\ Listing(list) /\ Within(list, at, nested, {"in", "name", "value"})
         /\ p.value # "broken" => Silent(list, at, nested, "value")
         /\ from # Own => \A i \in DOMAIN list : list[i].field = "value" /\ p.value = "broken" /\ from = From(FALSE)
<1> DEFINE list == EntryRules(p, at, nested, from)
           d == Diagnostic(at, nested, "value", "InvalidExpression")
<1>1. CASE list = << >>
  <2> HIDE DEF list
  <2> QED BY <1>1, NothingTold DEF Within, list
<1>2. CASE list = ParameterRules(p, at, nested, TRUE) /\ from = Own
  <2> HIDE DEF list
  <2> QED BY <1>2, ParameterTells DEF list
<1>3. CASE list = ValueSource(p, at, nested) /\ from = From(FALSE)
  <2>1. list = << d >> \/ list = << >> BY <1>3 DEF ValueSource, When
  <2>2. list = << d >> => p.value = "broken"
    <3> HIDE DEF d
    <3>2. list # << >> => p.value = "broken" BY <1>3 DEF ValueSource, When
    <3> QED BY <3>2
  <2>3. d.at = at /\ d.nested = nested /\ d.field = "value" BY DEF Diagnostic
  <2> HIDE DEF list, d
  <2>4. /\ Listing(list) /\ \A i \in DOMAIN list : list[i] = d /\ list = << d >>
        /\ \A x, n, field : list = << >> => Silent(list, x, n, field)
    BY <2>1, RuleTells
  <2> QED BY <1>3, <2>1, <2>2, <2>3, <2>4 DEF Within, list
<1>5. list = << >> \/ (list = ParameterRules(p, at, nested, TRUE) /\ from = Own)
                   \/ (list = ValueSource(p, at, nested) /\ from = From(FALSE))
  <2>1. CASE ReferenceError(at, nested) BY <2>1 DEF EntryRules
  <2>2. CASE ~ReferenceError(at, nested)
    <3> HIDE DEF Own
    <3> QED BY <2>2 DEF EntryRules, From, Own, Origins
  <2> QED BY <2>1, <2>2
<1> QED BY <1>1, <1>2, <1>3, <1>5

\* A function on an initial part of the numbers is a list.
LEMMA ListingOf ==
  ASSUME NEW n \in Nat, NEW f, f = [i \in 1..n |-> f[i]]
  PROVE  Listing(f) /\ DOMAIN f = 1..n
<1> DEFINE S == {f[i] : i \in 1..n}
<1>2. f \in [1..n -> S] OBVIOUS
<1> HIDE DEF S
<1> QED BY <1>2 DEF Listing

\* The parameters of an action are told of one by one.
LEMMA ActionParametersTell ==
  ASSUME NEW a, NEW at, NEW origins, Listing(a.parameters), \A i \in DOMAIN a.parameters : origins[i] \in Origins
  PROVE  LET list == ActionParameterRules(a, at, origins) IN
         /\ Listing(list)
         /\ \A x \in DOMAIN list :
              /\ list[x].at = at
              /\ \/ list[x].nested = 0 /\ list[x].field = "parameters"
                 \/ list[x].nested \in DOMAIN a.parameters /\ list[x].field \in {"in", "name", "value"}
         /\ \A i \in DOMAIN a.parameters : a.parameters[i].value # "broken" => Silent(list, at, i, "value")
<1> DEFINE given == a.parameters  list == ActionParameterRules(a, at, origins)
           repeated == {i \in DOMAIN given : given[i].name # ComponentsNoName /\ \E j \in 1..i - 1 : given[j].name = given[i].name}
           d1 == Diagnostic(at, 0, "parameters", "UnsupportedVersion")
           d2 == Diagnostic(at, 0, "parameters", "InvalidParameterLocation")
           p1 == When(componentsDoc.old, d1)
           p2 == When(a.workflowId = "empty", d2)
           E1(i) == Diagnostic(at, i, "in", "InvalidParameterLocation")
           E2(i) == Diagnostic(at, i, "name", "DuplicateIdentifier")
           Q1(i) == When(given[i].in # "absent", E1(i))
           Q2(i) == When(i \in repeated, E2(i))
           Q3(i) == EntryRules(given[i], at, i, origins[i])
           each == [i \in DOMAIN given |-> FlattenSeq(<< Q1(i), Q2(i), Q3(i) >>)]
           inner == FlattenSeq(each)
<1>1. Len(given) \in Nat /\ DOMAIN given = 1..Len(given) /\ 0 \notin DOMAIN given BY ListingDomain
<1>2. CASE given = << >>
  <2> HIDE DEF list
  <2> QED BY <1>2, NothingTold DEF list, ActionParameterRules
<1>3. CASE given # << >>
  <2>1. list = FlattenSeq(<< p1, p2, inner >>) BY <1>3 DEF ActionParameterRules
  <2>2. (p1 = << d1 >> \/ p1 = << >>) /\ (p2 = << d2 >> \/ p2 = << >>) BY DEF When
  <2>3. /\ d1.at = at /\ d1.nested = 0 /\ d1.field = "parameters"
        /\ d2.at = at /\ d2.nested = 0 /\ d2.field = "parameters"
    BY DEF Diagnostic
  <2>4. ASSUME NEW i \in DOMAIN given
        PROVE  /\ Listing(each[i]) /\ Within(each[i], at, i, {"in", "name", "value"})
               /\ given[i].value # "broken" => Silent(each[i], at, i, "value")
    <3> DEFINE q1 == Q1(i) q2 == Q2(i) q3 == Q3(i) e1 == E1(i) e2 == E2(i)
    <3>1. each[i] = FlattenSeq(<< q1, q2, q3 >>) OBVIOUS
    <3>2. (q1 = << e1 >> \/ q1 = << >>) /\ (q2 = << e2 >> \/ q2 = << >>) BY DEF When
    <3>3. e1.at = at /\ e1.nested = i /\ e1.field = "in" /\ e2.at = at /\ e2.nested = i /\ e2.field = "name"
      BY DEF Diagnostic
    <3>4. /\ Listing(q3) /\ Within(q3, at, i, {"in", "name", "value"})
          /\ given[i].value # "broken" => Silent(q3, at, i, "value")
      BY EntryTells
    <3> HIDE DEF q1, q2, q3, e1, e2, each
    <3>5. /\ Listing(q1) /\ Listing(q2)
          /\ (\A j \in DOMAIN q1 : q1[j] = e1) /\ (\A j \in DOMAIN q2 : q2[j] = e2)
          /\ Silent(q1, at, i, "value") /\ Silent(q2, at, i, "value") BY <3>2, <3>3, RuleTells DEF About
    <3> DEFINE flat == FlattenSeq(<< q1, q2, q3 >>)
    <3> HIDE DEF flat
    <3> QED BY <3>1, <3>4, <3>5, ThreeParts, <3>3 DEF flat, Within, OneOf
  <2>5. Listing(each) /\ DOMAIN each = DOMAIN given
    <3>1. DOMAIN each = 1..Len(given) /\ DOMAIN each = DOMAIN given BY <1>1
    <3>2. each = [i \in 1..Len(given) |-> each[i]] BY <3>1
    <3> HIDE DEF each
    <3> QED BY <3>1, <1>1, <3>2, ListingOf
  <2> HIDE DEF each
  <2>6. Gathers(inner, each) BY <2>4, <2>5, Gathered
  <2> HIDE DEF inner, p1, p2, d1, d2
  <2>8. \A x \in DOMAIN inner : inner[x].at = at /\ inner[x].nested \in DOMAIN given /\ inner[x].field \in {"in", "name", "value"}
    <3>1. TAKE x \in DOMAIN inner
    <3>2. PICK i \in DOMAIN each : \E j \in DOMAIN each[i] : inner[x] = each[i][j] BY <2>6 DEF Gathers
    <3> QED BY <2>4, <2>5, <3>2 DEF Within
  <2>9. ASSUME NEW i \in DOMAIN given, given[i].value # "broken" PROVE Silent(inner, at, i, "value")
    <3>1. ASSUME NEW k \in DOMAIN each PROVE Silent(each[k], at, i, "value")
      <4>1. CASE k = i BY <2>4, <2>9, <4>1
      <4>2. CASE k # i BY <2>4, <2>5, <4>2, WithinSilent
      <4> QED BY <4>1, <4>2
    <3> QED BY <2>6, <3>1, Zenon DEF Gathers
  <2>10. /\ Listing(p1) /\ Listing(p2) /\ (\A j \in DOMAIN p1 : p1[j] = d1) /\ (\A j \in DOMAIN p2 : p2[j] = d2)
    BY <2>2, RuleTells
  <2>11. \A i \in DOMAIN given : Silent(p1, at, i, "value") /\ Silent(p2, at, i, "value")
    BY <1>1, <2>3, <2>10 DEF Silent, About
  <2> DEFINE flat == FlattenSeq(<< p1, p2, inner >>)
  <2>12. /\ Listing(flat)
         /\ \A x \in DOMAIN flat : OneOf(flat, x, p1) \/ OneOf(flat, x, p2) \/ OneOf(flat, x, inner)
         /\ \A i : Silent(p1, at, i, "value") /\ Silent(p2, at, i, "value") /\ Silent(inner, at, i, "value")
                   => Silent(flat, at, i, "value") BY <2>6, <2>10, ThreeParts DEF Gathers
  <2> HIDE DEF flat
  <2>13. \A x \in DOMAIN flat :
           /\ flat[x].at = at
           /\ \/ flat[x].nested = 0 /\ flat[x].field = "parameters"
              \/ flat[x].nested \in DOMAIN given /\ flat[x].field \in {"in", "name", "value"}
    BY <2>3, <2>8, <2>10, <2>12 DEF OneOf
  <2> HIDE DEF list
  <2> QED BY <2>9, <2>11, <2>12, <2>13, <2>1 DEF list, flat
<1> QED BY <1>2, <1>3
LEMMA TwoParts ==
  ASSUME NEW a, NEW b, Listing(a), Listing(b)
  PROVE  LET list == FlattenSeq(<< a, b >>) IN
         /\ Listing(list)
         /\ \A x \in DOMAIN list : OneOf(list, x, a) \/ OneOf(list, x, b)
         /\ \A at, nested, field :
              /\ Silent(a, at, nested, field) /\ Silent(b, at, nested, field)
                 => Silent(list, at, nested, field)
              /\ Once(a, at, nested, field) /\ Silent(b, at, nested, field)
                 => Once(list, at, nested, field)
              /\ Silent(a, at, nested, field) /\ Once(b, at, nested, field)
                 => Once(list, at, nested, field)
<1> DEFINE parts == << a, b >>  list == FlattenSeq(parts)
<1>1. parts \in Seq({a, b}) /\ DOMAIN parts = 1..2 OBVIOUS
<1>2. parts[1] = a /\ parts[2] = b OBVIOUS
<1> HIDE DEF parts
<1>4. DOMAIN parts = {1, 2} BY <1>1
<1>6. Gathers(list, parts) BY <1>1, <1>2, <1>4, Gathered DEF Listing
<1> HIDE DEF list
<1>8. ASSUME NEW at, NEW nested, NEW field
      PROVE  /\ Silent(a, at, nested, field) /\ Silent(b, at, nested, field)
                => Silent(list, at, nested, field)
             /\ Once(a, at, nested, field) /\ Silent(b, at, nested, field)
                => Once(list, at, nested, field)
             /\ Silent(a, at, nested, field) /\ Once(b, at, nested, field)
                => Once(list, at, nested, field)
  <2>1. (\A i \in DOMAIN parts : Silent(parts[i], at, nested, field)) => Silent(list, at, nested, field)
    BY <1>6, Zenon DEF Gathers
  <2>2. \A k \in DOMAIN parts :
          Once(parts[k], at, nested, field) /\ (\A i \in DOMAIN parts : i # k => Silent(parts[i], at, nested, field))
          => Once(list, at, nested, field)
    BY <1>6, Zenon DEF Gathers
  <2> QED BY <1>2, <1>4, <2>1, <2>2
<1> QED BY <1>2, <1>4, <1>6, <1>8 DEF list, parts, Gathers, OneOf


\* A field is told of once where a condition holds, and not at all where it does not.
Tells(list, at, nested, field, condition) ==
  (condition => Once(list, at, nested, field)) /\ (~condition => Silent(list, at, nested, field))

LEMMA RuleOf ==
  ASSUME NEW condition \in BOOLEAN, NEW at, NEW nested, NEW field, NEW what
  PROVE  LET list == When(condition, Diagnostic(at, nested, field, what)) IN
         /\ Listing(list) /\ Within(list, at, nested, {field}) /\ Tells(list, at, nested, field, condition)
         /\ \A i \in DOMAIN list : condition
         /\ \A x, n, f : x # at \/ n # nested \/ f # field => Silent(list, x, n, f)
<1> DEFINE d == Diagnostic(at, nested, field, what)  list == When(condition, d)
<1> HIDE DEF d
<1> HIDE DEF list
<1> QED BY Told DEF list, d, Within, Tells, About, Diagnostic

\* Where a component's target is not in the document that uses it.
LEMMA TargetsTell ==
  ASSUME NEW a, NEW kind, NEW at
  PROVE  LET list == TargetReferences(a, kind, at)
             targets == AllowsTarget(kind, Type(a)) IN
         /\ Listing(list) /\ Within(list, at, 0, {"stepId", "workflowId"})
         /\ Tells(list, at, 0, "stepId", targets /\ a.stepId \notin componentsDoc.steps \union {"empty", "expression"})
         /\ Tells(list, at, 0, "workflowId", targets /\ a.workflowId \notin componentsDoc.workflows \union {"empty", "expression"})
<1> DEFINE c1 == AllowsTarget(kind, Type(a)) /\ a.stepId \notin componentsDoc.steps \union {"empty", "expression"}
           c2 == AllowsTarget(kind, Type(a)) /\ a.workflowId \notin componentsDoc.workflows \union {"empty", "expression"}
           p1 == When(c1, Diagnostic(at, 0, "stepId", "InvalidReference"))
           p2 == When(c2, Diagnostic(at, 0, "workflowId", "InvalidReference"))
           list == FlattenSeq(<< p1, p2 >>)
<1>1. TargetReferences(a, kind, at) = list BY DEF TargetReferences
<1>2. c1 \in BOOLEAN /\ c2 \in BOOLEAN OBVIOUS
<1> HIDE DEF c1, c2
<1>3. /\ Listing(p1) /\ Within(p1, at, 0, {"stepId"}) /\ Tells(p1, at, 0, "stepId", c1)
      /\ Listing(p2) /\ Within(p2, at, 0, {"workflowId"}) /\ Tells(p2, at, 0, "workflowId", c2)
      /\ Silent(p1, at, 0, "workflowId") /\ Silent(p2, at, 0, "stepId")
  BY <1>2, RuleOf
<1> HIDE DEF p1, p2
<1>4. /\ Listing(list) /\ \A x \in DOMAIN list : OneOf(list, x, p1) \/ OneOf(list, x, p2)
      /\ \A x, nested, field :
           /\ Silent(p1, x, nested, field) /\ Silent(p2, x, nested, field) => Silent(list, x, nested, field)
           /\ Once(p1, x, nested, field) /\ Silent(p2, x, nested, field) => Once(list, x, nested, field)
           /\ Silent(p1, x, nested, field) /\ Once(p2, x, nested, field) => Once(list, x, nested, field)
  BY <1>3, TwoParts
<1> HIDE DEF list
<1> QED BY <1>1, <1>4, <1>3 DEF c1, c2, Within, OneOf, Tells

\* The text has a value for a definition; a reference is only told of a value it cannot have.
LEMMA TextParameterTells ==
  ASSUME NEW p, NEW at, NEW nested
  PROVE  LET list == TextParameter(p, at, nested) IN
         /\ Listing(list) /\ Within(list, at, nested, {"value"})
         /\ p.reference = "absent" => Tells(list, at, nested, "value", p.value = "absent")
         /\ p.reference # "absent" => \A i \in DOMAIN list : p.value \notin {"absent"} \union Texts
<1> DEFINE c1 == p.value \notin {"absent"} \union Texts  c2 == p.value = "absent"
           p1 == When(c1, Diagnostic(at, nested, "value", "InvalidReference"))
           p2 == When(c2, Diagnostic(at, nested, "value", "MissingRequiredField"))
<1>1. c1 \in BOOLEAN /\ c2 \in BOOLEAN OBVIOUS
<1> HIDE DEF c1, c2
<1>2. /\ Listing(p1) /\ Within(p1, at, nested, {"value"}) /\ \A i \in DOMAIN p1 : c1
      /\ Listing(p2) /\ Within(p2, at, nested, {"value"}) /\ Tells(p2, at, nested, "value", c2)
  BY <1>1, RuleOf
<1>3. TextParameter(p, at, nested) = IF p.reference # "absent" THEN p1 ELSE p2 BY DEF TextParameter, c1, c2
<1> HIDE DEF p1, p2
<1> QED BY <1>2, <1>3 DEF c1, c2

\* The parameters of an action in the text.
LEMMA TextParametersTell ==
  ASSUME NEW given, NEW at, Listing(given)
  PROVE  LET list == TextParameters(given, at) IN
         /\ Listing(list)
         /\ \A x \in DOMAIN list : list[x].at = at /\ list[x].nested \in DOMAIN given /\ list[x].field = "value"
         /\ \A i \in DOMAIN given : given[i].reference = "absent" /\ given[i].value = "absent" => Once(list, at, i, "value")
<1> DEFINE each == [i \in DOMAIN given |-> TextParameter(given[i], at, i)]  list == FlattenSeq(each)
<1>1. Len(given) \in Nat /\ DOMAIN given = 1..Len(given) BY ListingDomain
<1>2. TextParameters(given, at) = list BY DEF TextParameters
<1>3. ASSUME NEW i \in DOMAIN given
      PROVE  /\ Listing(each[i]) /\ Within(each[i], at, i, {"value"})
             /\ given[i].reference = "absent" => Tells(each[i], at, i, "value", given[i].value = "absent")
  <2>1. each[i] = TextParameter(given[i], at, i) OBVIOUS
  <2> HIDE DEF each
  <2> QED BY <2>1, TextParameterTells
<1>4. Listing(each) /\ DOMAIN each = DOMAIN given
  <2>1. DOMAIN each = 1..Len(given) /\ DOMAIN each = DOMAIN given BY <1>1
  <2>2. each = [i \in 1..Len(given) |-> each[i]] BY <2>1
  <2> HIDE DEF each
  <2> QED BY <1>1, <2>1, <2>2, ListingOf
<1> HIDE DEF each
<1>5. Gathers(list, each) BY <1>3, <1>4, Gathered
<1> HIDE DEF list
<1>6. \A x \in DOMAIN list : list[x].at = at /\ list[x].nested \in DOMAIN given /\ list[x].field = "value"
  <2>1. TAKE x \in DOMAIN list
  <2>2. PICK i \in DOMAIN each : \E j \in DOMAIN each[i] : list[x] = each[i][j] BY <1>5 DEF Gathers
  <2> QED BY <1>3, <1>4, <2>2 DEF Within
<1>7. ASSUME NEW i \in DOMAIN given, given[i].reference = "absent", given[i].value = "absent" PROVE Once(list, at, i, "value")
  <2>1. Once(each[i], at, i, "value") BY <1>3, <1>7 DEF Tells
  <2>2. \A k \in DOMAIN each : k # i => Silent(each[k], at, i, "value") BY <1>3, <1>4, WithinSilent
  <2> QED BY <1>4, <1>5, <2>1, <2>2, Zenon DEF Gathers
<1> QED BY <1>2, <1>5, <1>6, <1>7 DEF Gathers

ActionFields == {"retryAfter", "retryLimit", "workflowId", "stepId"}

\* What the text tells of a field of an action with a type.
TextTold(a, kind, field) ==
  IF field \in {"retryAfter", "retryLimit"}
  THEN IF Retries(kind, a.type) THEN a[field] = "null" ELSE Defaulted(a[field])
  ELSE ~AllowsTarget(kind, a.type) /\ Defaulted(a[field])

LEMMA TextFieldsTell ==
  ASSUME NEW a, NEW kind, NEW at
  PROVE  LET list == TextFields(a, kind, at) IN
         /\ Listing(list) /\ Within(list, at, 0, ActionFields)
         /\ \A field \in ActionFields : Tells(list, at, 0, field, TextTold(a, kind, field))
<1> DEFINE c(field) == TextTold(a, kind, field)
           p1 == When(c("retryAfter"), Diagnostic(at, 0, "retryAfter", "InvalidRetryField"))
           p2 == When(c("retryLimit"), Diagnostic(at, 0, "retryLimit", "InvalidRetryField"))
           p3 == When(c("workflowId"), Diagnostic(at, 0, "workflowId", "InvalidReference"))
           p4 == When(c("stepId"), Diagnostic(at, 0, "stepId", "InvalidReference"))
           list == FlattenSeq(<< p1, p2, p3, p4 >>)
<1>1. TextFields(a, kind, at) = list BY DEF TextFields, TextTold
<1>2. c("retryAfter") \in BOOLEAN /\ c("retryLimit") \in BOOLEAN /\ c("workflowId") \in BOOLEAN /\ c("stepId") \in BOOLEAN
  <2>1. ASSUME NEW field PROVE TextTold(a, kind, field) \in BOOLEAN
    <3>1. (a[field] = "null") \in BOOLEAN /\ Defaulted(a[field]) \in BOOLEAN BY DEF Defaulted
    <3>3. CASE field \in {"retryAfter", "retryLimit"} /\ Retries(kind, a.type) BY <3>1, <3>3 DEF TextTold
    <3>4. CASE field \in {"retryAfter", "retryLimit"} /\ ~Retries(kind, a.type) BY <3>1, <3>4 DEF TextTold
    <3>5. CASE field \notin {"retryAfter", "retryLimit"} BY <3>5 DEF TextTold
    <3> QED BY <3>3, <3>4, <3>5
  <2> QED BY <2>1
<1> HIDE DEF c
<1>3. /\ Listing(p1) /\ Within(p1, at, 0, {"retryAfter"}) /\ Tells(p1, at, 0, "retryAfter", c("retryAfter"))
      /\ \A f \in {"retryLimit", "workflowId", "stepId"} : Silent(p1, at, 0, f) BY <1>2, RuleOf
<1>4. /\ Listing(p2) /\ Within(p2, at, 0, {"retryLimit"}) /\ Tells(p2, at, 0, "retryLimit", c("retryLimit"))
      /\ \A f \in {"retryAfter", "workflowId", "stepId"} : Silent(p2, at, 0, f) BY <1>2, RuleOf
<1>5. /\ Listing(p3) /\ Within(p3, at, 0, {"workflowId"}) /\ Tells(p3, at, 0, "workflowId", c("workflowId"))
      /\ \A f \in {"retryAfter", "retryLimit", "stepId"} : Silent(p3, at, 0, f) BY <1>2, RuleOf
<1>6. /\ Listing(p4) /\ Within(p4, at, 0, {"stepId"}) /\ Tells(p4, at, 0, "stepId", c("stepId"))
      /\ \A f \in {"retryAfter", "retryLimit", "workflowId"} : Silent(p4, at, 0, f) BY <1>2, RuleOf
<1> HIDE DEF p1, p2, p3, p4
<1>7. /\ Listing(list)
      /\ \A x \in DOMAIN list : OneOf(list, x, p1) \/ OneOf(list, x, p2) \/ OneOf(list, x, p3) \/ OneOf(list, x, p4)
      /\ \A x, n, f :
           /\ Silent(p1, x, n, f) /\ Silent(p2, x, n, f) /\ Silent(p3, x, n, f) /\ Silent(p4, x, n, f) => Silent(list, x, n, f)
           /\ Once(p1, x, n, f) /\ Silent(p2, x, n, f) /\ Silent(p3, x, n, f) /\ Silent(p4, x, n, f) => Once(list, x, n, f)
           /\ Silent(p1, x, n, f) /\ Once(p2, x, n, f) /\ Silent(p3, x, n, f) /\ Silent(p4, x, n, f) => Once(list, x, n, f)
           /\ Silent(p1, x, n, f) /\ Silent(p2, x, n, f) /\ Once(p3, x, n, f) /\ Silent(p4, x, n, f) => Once(list, x, n, f)
           /\ Silent(p1, x, n, f) /\ Silent(p2, x, n, f) /\ Silent(p3, x, n, f) /\ Once(p4, x, n, f) => Once(list, x, n, f)
  BY <1>3, <1>4, <1>5, <1>6, FourParts
<1> HIDE DEF list
<1>8. Within(list, at, 0, ActionFields) BY <1>3, <1>4, <1>5, <1>6, <1>7 DEF Within, OneOf, ActionFields
<1>10. \A field \in ActionFields : Tells(list, at, 0, field, c(field))
  BY <1>3, <1>4, <1>5, <1>6, <1>7 DEF ActionFields, Tells
<1> QED BY <1>1, <1>7, <1>8, <1>10 DEF c

\* What the text tells of what an action must have.
LEMMA TextDefinitionTells ==
  ASSUME NEW a, NEW kind, NEW at, Listing(a.parameters)
  PROVE  LET list == TextDefinition(a, kind, at) IN
         /\ Listing(list)
         /\ \A x \in DOMAIN list :
              /\ list[x].at = at
              /\ \/ list[x].nested = 0 /\ list[x].field \in {"name", "type"} \union ActionFields
                 \/ list[x].nested \in DOMAIN a.parameters /\ list[x].field = "value"
         /\ Tells(list, at, 0, "type", a.type = "absent")
         /\ a.type # "absent" => \A field \in ActionFields : Tells(list, at, 0, field, TextTold(a, kind, field))
         /\ \A i \in DOMAIN a.parameters :
              a.parameters[i].reference = "absent" /\ a.parameters[i].value = "absent" => Once(list, at, i, "value")
<1> DEFINE p1 == When(a.name # "text", Diagnostic(at, 0, "name", "MissingRequiredField"))
           p2 == When(a.type = "absent", Diagnostic(at, 0, "type", "MissingRequiredField"))
           p3 == IF a.type = "absent" THEN << >> ELSE TextFields(a, kind, at)
           p4 == TextParameters(a.parameters, at)
           list == FlattenSeq(<< p1, p2, p3, p4 >>)
<1>0. TextDefinition(a, kind, at) = list BY DEF TextDefinition
<1>1. 0 \notin DOMAIN a.parameters BY ListingDomain
<1>2. /\ Listing(p1) /\ Within(p1, at, 0, {"name"})
      /\ \A x, n, f : x # at \/ n # 0 \/ f # "name" => Silent(p1, x, n, f) BY RuleOf
<1>3. /\ Listing(p2) /\ Within(p2, at, 0, {"type"}) /\ Tells(p2, at, 0, "type", a.type = "absent")
      /\ \A x, n, f : x # at \/ n # 0 \/ f # "type" => Silent(p2, x, n, f) BY RuleOf
<1>4. /\ Listing(p3) /\ Within(p3, at, 0, ActionFields)
      /\ a.type # "absent" => \A field \in ActionFields : Tells(p3, at, 0, field, TextTold(a, kind, field))
      /\ \A x, n, f : x # at \/ n # 0 \/ f \notin ActionFields => Silent(p3, x, n, f)
  <2>1. CASE a.type = "absent"
    <3>1. p3 = << >> BY <2>1
    <3> HIDE DEF p3
    <3> QED BY <2>1, <3>1, NothingTold DEF Within
  <2>2. CASE a.type # "absent"
    <3>1. p3 = TextFields(a, kind, at) BY <2>2
    <3> HIDE DEF p3
    <3> QED BY <3>1, TextFieldsTell, WithinSilent
  <2> QED BY <2>1, <2>2
<1>5. /\ Listing(p4)
      /\ \A x \in DOMAIN p4 : p4[x].at = at /\ p4[x].nested \in DOMAIN a.parameters /\ p4[x].field = "value"
      /\ \A i \in DOMAIN a.parameters :
           a.parameters[i].reference = "absent" /\ a.parameters[i].value = "absent" => Once(p4, at, i, "value")
  BY TextParametersTell
<1> HIDE DEF p1, p2, p3, p4
<1>6. \A x, f : Silent(p4, x, 0, f) BY <1>1, <1>5 DEF Silent, About
<1>7. /\ Listing(list)
      /\ \A x \in DOMAIN list : OneOf(list, x, p1) \/ OneOf(list, x, p2) \/ OneOf(list, x, p3) \/ OneOf(list, x, p4)
      /\ \A x, n, f :
           /\ Silent(p1, x, n, f) /\ Silent(p2, x, n, f) /\ Silent(p3, x, n, f) /\ Silent(p4, x, n, f) => Silent(list, x, n, f)
           /\ Silent(p1, x, n, f) /\ Once(p2, x, n, f) /\ Silent(p3, x, n, f) /\ Silent(p4, x, n, f) => Once(list, x, n, f)
           /\ Silent(p1, x, n, f) /\ Silent(p2, x, n, f) /\ Once(p3, x, n, f) /\ Silent(p4, x, n, f) => Once(list, x, n, f)
           /\ Silent(p1, x, n, f) /\ Silent(p2, x, n, f) /\ Silent(p3, x, n, f) /\ Once(p4, x, n, f) => Once(list, x, n, f)
  BY <1>2, <1>3, <1>4, <1>5, FourParts
<1> HIDE DEF list
<1>8. \A x \in DOMAIN list :
        /\ list[x].at = at
        /\ \/ list[x].nested = 0 /\ list[x].field \in {"name", "type"} \union ActionFields
           \/ list[x].nested \in DOMAIN a.parameters /\ list[x].field = "value"
  BY <1>2, <1>3, <1>4, <1>5, <1>7 DEF Within, OneOf
<1>9. "type" \notin ActionFields /\ "name" \notin ActionFields /\ "value" \notin ActionFields BY DEF ActionFields
<1>10. Tells(list, at, 0, "type", a.type = "absent") BY <1>2, <1>3, <1>4, <1>6, <1>7, <1>9 DEF Tells
<1>11. ASSUME a.type # "absent", NEW field \in ActionFields PROVE Tells(list, at, 0, field, TextTold(a, kind, field))
  BY <1>2, <1>3, <1>4, <1>6, <1>7, <1>9, <1>11 DEF Tells
<1>12. ASSUME NEW i \in DOMAIN a.parameters, a.parameters[i].reference = "absent", a.parameters[i].value = "absent"
       PROVE  Once(list, at, i, "value")
  BY <1>1, <1>2, <1>3, <1>4, <1>5, <1>7, <1>9, <1>12
<1> QED BY <1>0, <1>7, <1>8, <1>10, <1>11, <1>12

TextTells(list, a, kind, at, component) ==
  /\ Listing(list) /\ \A x \in DOMAIN list : list[x].at = at
  /\ component \/ a.reference = "absent" =>
       /\ Tells(list, at, 0, "type", a.type = "absent")
       /\ a.type # "absent" => \A field \in ActionFields : Tells(list, at, 0, field, TextTold(a, kind, field))
       /\ \A i \in DOMAIN a.parameters :
            a.parameters[i].reference = "absent" /\ a.parameters[i].value = "absent" => Once(list, at, i, "value")
  /\ ~component /\ a.reference \notin {"absent", "not text"} =>
       \A x \in DOMAIN list : list[x].field = "value" /\ a.value \notin {"absent"} \union Texts

LEMMA TextActionTells ==
  ASSUME NEW a, NEW kind, NEW at, NEW component \in BOOLEAN, Listing(a.parameters)
  PROVE  TextTells(TextAction(a, kind, at, component), a, kind, at, component)
<1> DEFINE body == TextDefinition(a, kind, at)
           c2 == component /\ a.reference \in {"not text", "empty"}
           c3 == (component \/ a.reference = "absent") /\ a.value = "null"
           c4 == ~component /\ a.reference = "not text"
           c5 == /\ ~component /\ a.reference \notin {"absent", "not text", "empty", "unparsable"}
                 /\ a.value \notin {"absent"} \union Texts
           p1 == IF ~component /\ a.reference # "absent" THEN << >> ELSE body
           p2 == When(c2, Diagnostic(at, 0, "reference", "UnknownField"))
           p3 == When(c3, Diagnostic(at, 0, "value", "UnknownField"))
           p4 == When(c4, Diagnostic(at, 0, "entry", "InvalidReference"))
           p5 == When(c5, Diagnostic(at, 0, "value", "InvalidReference"))
           list == FlattenSeq(<< p1, p2, p3, p4, p5 >>)
<1>0. TextAction(a, kind, at, component) = list BY DEF TextAction
<1>2. /\ Listing(body)
      /\ \A x \in DOMAIN body : body[x].at = at
      /\ Tells(body, at, 0, "type", a.type = "absent")
      /\ a.type # "absent" => \A field \in ActionFields : Tells(body, at, 0, field, TextTold(a, kind, field))
      /\ \A i \in DOMAIN a.parameters :
           a.parameters[i].reference = "absent" /\ a.parameters[i].value = "absent" => Once(body, at, i, "value")
  BY TextDefinitionTells
<1>4. c2 \in BOOLEAN /\ c3 \in BOOLEAN /\ c4 \in BOOLEAN /\ c5 \in BOOLEAN OBVIOUS
<1> HIDE DEF body
<1>5. /\ Listing(p1) /\ \A x \in DOMAIN p1 : p1[x].at = at /\ (component \/ a.reference = "absent")
      /\ component \/ a.reference = "absent" => p1 = body BY <1>2, NothingTold
<1>6. /\ c2 => component
      /\ c3 => component \/ a.reference = "absent"
      /\ c4 => a.reference = "not text"
      /\ c5 => a.value \notin {"absent"} \union Texts
  OBVIOUS
<1> HIDE DEF c2, c3, c4, c5
<1>7. /\ Listing(p2) /\ Within(p2, at, 0, {"reference"}) /\ \A x \in DOMAIN p2 : c2
  BY <1>4, RuleOf
<1>8. /\ Listing(p3) /\ Within(p3, at, 0, {"value"}) /\ \A x \in DOMAIN p3 : c3
  BY <1>4, RuleOf
<1>9. /\ Listing(p4) /\ Within(p4, at, 0, {"entry"}) /\ \A x \in DOMAIN p4 : c4
  BY <1>4, RuleOf
<1>10. /\ Listing(p5) /\ Within(p5, at, 0, {"value"}) /\ \A x \in DOMAIN p5 : c5
  BY <1>4, RuleOf
<1> HIDE DEF p1, p2, p3, p4, p5
<1>12. /\ Listing(list)
       /\ \A x \in DOMAIN list : OneOf(list, x, p1) \/ OneOf(list, x, p2) \/ OneOf(list, x, p3) \/ OneOf(list, x, p4) \/ OneOf(list, x, p5)
       /\ \A x, n, f :
            /\ Silent(p1, x, n, f) /\ Silent(p2, x, n, f) /\ Silent(p3, x, n, f) /\ Silent(p4, x, n, f) /\ Silent(p5, x, n, f)
               => Silent(list, x, n, f)
            /\ Once(p1, x, n, f) /\ Silent(p2, x, n, f) /\ Silent(p3, x, n, f) /\ Silent(p4, x, n, f) /\ Silent(p5, x, n, f)
               => Once(list, x, n, f)
  BY <1>5, <1>7, <1>8, <1>9, <1>10, FiveParts
<1> HIDE DEF list
<1>13. \A x \in DOMAIN list : list[x].at = at
  BY <1>5, <1>7, <1>8, <1>9, <1>10, <1>12 DEF Within, OneOf
<1>14. \A n, f : n # 0 \/ f \notin {"reference", "value", "entry"} =>
         (Silent(p1, at, n, f) => Silent(list, at, n, f)) /\ (Once(p1, at, n, f) => Once(list, at, n, f))
  BY <1>7, <1>8, <1>9, <1>10, <1>12 DEF Within, Silent, About
<1>15. ASSUME component \/ a.reference = "absent"
       PROVE  /\ Tells(list, at, 0, "type", a.type = "absent")
              /\ a.type # "absent" => \A field \in ActionFields : Tells(list, at, 0, field, TextTold(a, kind, field))
              /\ \A i \in DOMAIN a.parameters :
                   a.parameters[i].reference = "absent" /\ a.parameters[i].value = "absent" => Once(list, at, i, "value")
  <2>1. p1 = body BY <1>5, <1>15
  <2>4. ASSUME a.type # "absent", NEW field \in ActionFields PROVE Tells(list, at, 0, field, TextTold(a, kind, field))
    BY <1>2, <1>14, <2>1, <2>4 DEF Tells, ActionFields
  <2> QED BY <1>2, <1>14, <2>1, <2>4, ListingDomain DEF Tells
<1>16. ASSUME ~component, a.reference \notin {"absent", "not text"}
       PROVE  \A x \in DOMAIN list : list[x].field = "value" /\ a.value \notin {"absent"} \union Texts
  <2>1. TAKE x \in DOMAIN list
  <2>2. CASE OneOf(list, x, p1) BY <1>5, <1>16, <2>2 DEF OneOf
  <2>3. CASE OneOf(list, x, p2) BY <1>6, <1>7, <1>16, <2>3 DEF OneOf
  <2>4. CASE OneOf(list, x, p3) BY <1>6, <1>8, <1>16, <2>4 DEF OneOf
  <2>5. CASE OneOf(list, x, p4) BY <1>6, <1>9, <1>16, <2>5 DEF OneOf
  <2>6. CASE OneOf(list, x, p5) BY <1>6, <1>10, <2>6 DEF OneOf, Within
  <2> QED BY <1>12, <2>2, <2>3, <2>4, <2>5, <2>6
<1> QED BY <1>0, <1>12, <1>13, <1>15, <1>16 DEF TextTells

LEMMA TypoTells ==
  ASSUME NEW a, NEW at
  PROVE  Listing(Typo(a, at)) /\ Within(Typo(a, at), at, 0, {"typo"})
<1> DEFINE d == Diagnostic(at, 0, "typo", "UnknownField")
<1>1. Typo(a, at) = << d >> \/ Typo(a, at) = << >> BY DEF Typo, When
<1>2. d.at = at /\ d.nested = 0 /\ d.field = "typo" BY DEF Diagnostic
<1> HIDE DEF d
<1> QED BY <1>2, <1>1, RuleTells DEF Within

\* What the typed rules tell of a field of an action.
FixedTold(a, kind, field) ==
  LET retries == Retries(kind, Type(a)) targets == AllowsTarget(kind, Type(a)) IN
  \/ field = "retryAfter" /\ (a.retryAfter = "negative" \/ (~retries /\ a.retryAfter = "positive"))
  \/ field = "type" /\ ((a.type = "absent" /\ ~raw) \/ (kind = "success" /\ Type(a) = "retry"))
  \/ field = "retryLimit" /\ ~retries /\ a.retryLimit # "absent" /\ ~(raw /\ a.retryLimit = "zero")
  \/ field = "workflowId" /\ ~targets /\ a.workflowId # "empty"
  \/ field = "stepId" /\ ~targets /\ a.stepId # "empty"

TargetTold(a, kind, field) ==
  /\ AllowsTarget(kind, Type(a))
  /\ \/ field = "stepId" /\ a.stepId \notin componentsDoc.steps \union {"empty", "expression"}
     \/ field = "workflowId" /\ a.workflowId \notin componentsDoc.workflows \union {"empty", "expression"}

LEMMA FixedFieldsTell ==
  ASSUME NEW a, NEW kind, NEW at
  PROVE  LET list == FixedFields(a, kind, at) IN
         /\ Listing(list)
         /\ Within(list, at, 0, {"retryAfter", "type", "retryLimit", "workflowId", "stepId", "target"})
         /\ \A field \in ActionFields \union {"type"} : Tells(list, at, 0, field, FixedTold(a, kind, field))
<1> DEFINE list == FixedFields(a, kind, at)
           retries == Retries(kind, Type(a))
           targets == AllowsTarget(kind, Type(a))
<1> HIDE DEF list, retries, targets
<1> QED BY FixedTells DEF list, ActionFields, Tells, FixedTold, retries, targets

\* What is told of a component action.
ComponentTells(list, name) ==
  LET a == resolved[name] IN
  /\ Listing(list) /\ \A x \in DOMAIN list : list[x].at = name
  /\ \A field \in ActionFields \union {"type"} :
       Tells(list, name, 0, field, FixedTold(a, componentsDoc.actions[name].kind, field))
  /\ \A i \in DOMAIN a.parameters : a.parameters[i].value # "broken" => Silent(list, name, i, "value")

LEMMA ComponentRulesTell ==
  ASSUME NEW name, Listing(resolved[name].parameters),
         \A i \in DOMAIN resolved[name].parameters : origin[name].nested[i] \in Origins
  PROVE  ComponentTells(ComponentRules(name), name)
<1> DEFINE a == resolved[name]  kind == componentsDoc.actions[name].kind
           c1 == a.criteria = "broken"  c2 == a.typo  c3 == a.reference # "empty"  c4 == a.value # "absent"
           p1 == CriteriaRules(a, name)
           p2 == Typo(a, name)
           p3 == When(c3, Diagnostic(name, 0, "reference", "UnknownField"))
           p4 == When(c4, Diagnostic(name, 0, "value", "UnknownField"))
           p5 == FixedFields(a, kind, name)
           p6 == ActionParameterRules(a, name, origin[name].nested)
           list == FlattenSeq(<< p1, p2, p3, p4, p5, p6 >>)
<1>0. ComponentRules(name) = list BY DEF ComponentRules
<1>1. 0 \notin DOMAIN a.parameters BY ListingDomain
<1>2. Listing(p1) /\ Within(p1, name, 0, {"criteria"})
  <2>1. p1 = When(c1, Diagnostic(name, 0, "criteria", "InvalidExpression")) /\ c1 \in BOOLEAN BY DEF CriteriaRules
  <2> HIDE DEF p1, c1
  <2> QED BY <2>1, RuleOf
<1>3. Listing(p2) /\ Within(p2, name, 0, {"typo"}) BY TypoTells
<1>4. Listing(p3) /\ Within(p3, name, 0, {"reference"})
  <2>1. c3 \in BOOLEAN OBVIOUS
  <2> HIDE DEF c3
  <2> QED BY <2>1, RuleOf
<1>5. Listing(p4) /\ Within(p4, name, 0, {"value"})
  <2>1. c4 \in BOOLEAN OBVIOUS
  <2> HIDE DEF c4
  <2> QED BY <2>1, RuleOf
<1>6. /\ Listing(p5)
      /\ Within(p5, name, 0, {"retryAfter", "type", "retryLimit", "workflowId", "stepId", "target"})
      /\ \A field \in ActionFields \union {"type"} : Tells(p5, name, 0, field, FixedTold(a, kind, field))
  BY FixedFieldsTell
<1>7. /\ Listing(p6)
      /\ \A x \in DOMAIN p6 :
            /\ p6[x].at = name
            /\ \/ p6[x].nested = 0 /\ p6[x].field = "parameters"
               \/ p6[x].nested \in DOMAIN a.parameters /\ p6[x].field \in {"in", "name", "value"}
      /\ \A i \in DOMAIN a.parameters : a.parameters[i].value # "broken" => Silent(p6, name, i, "value")
  BY ActionParametersTell
<1> HIDE DEF p1, p2, p3, p4, p5, p6, kind
<1>8. SixTell(list, p1, p2, p3, p4, p5, p6)
  <2>1. Listing(p1) /\ Listing(p2) /\ Listing(p3) /\ Listing(p4) /\ Listing(p5) /\ Listing(p6)
    BY <1>2, <1>3, <1>4, <1>5, <1>6, <1>7
  <2> QED BY <2>1, SixParts, Zenon
<1> HIDE DEF list
<1>9. \A x \in DOMAIN list : list[x].at = name
  BY <1>2, <1>3, <1>4, <1>5, <1>6, <1>7, <1>8 DEF Within, OneOf, SixTell
<1>10. ASSUME NEW field \in ActionFields \union {"type"} PROVE Tells(list, name, 0, field, FixedTold(a, kind, field))
  <2>1. field \notin {"criteria", "typo", "reference", "value", "parameters"} BY DEF ActionFields
  <2>2. Silent(p1, name, 0, field) /\ Silent(p2, name, 0, field) /\ Silent(p3, name, 0, field) /\ Silent(p4, name, 0, field)
    BY <1>2, <1>3, <1>4, <1>5, <2>1 DEF Within, Silent, About
  <2> QED BY <1>8, <2>2, <1>1, <1>7, <2>1, <1>6 DEF Tells, SixTell, Silent, About
<1>11. ASSUME NEW i \in DOMAIN a.parameters, a.parameters[i].value # "broken" PROVE Silent(list, name, i, "value")
  <2>1. i # 0 BY <1>1
  <2>2. Silent(p1, name, i, "value") /\ Silent(p2, name, i, "value") /\ Silent(p3, name, i, "value")
        /\ Silent(p4, name, i, "value") /\ Silent(p5, name, i, "value")
    BY <1>2, <1>3, <1>4, <1>5, <1>6, <2>1, WithinSilent
  <2> QED BY <1>8, <2>2, <1>7, <1>11 DEF SixTell
<1> QED BY <1>0, <1>8, <1>9, <1>10, <1>11 DEF kind, SixTell, ComponentTells

\* What is told of an action in a list.
UseTells(list, use) ==
  LET a == resolved[use.id]  at == use.id IN
  /\ Listing(list) /\ \A x \in DOMAIN list : list[x].at = at
  /\ origin[at].own = Own /\ ~ReferenceError(at, 0) =>
       /\ \A field \in ActionFields \union {"type"} :
            Tells(list, at, 0, field, FixedTold(a, use.kind, field) \/ TargetTold(a, use.kind, field))
       /\ \A i \in DOMAIN a.parameters : a.parameters[i].value # "broken" => Silent(list, at, i, "value")
  /\ origin[at].own # Own =>
       \A x \in DOMAIN list : \/ list[x].field \in {"typo", "stepId", "workflowId"}
                              \/ list[x].field = "value" /\ a.value # "absent"

LEMMA ActionRulesTell ==
  ASSUME NEW use,
         origin[use.id].own = Own => /\ Listing(resolved[use.id].parameters)
                                     /\ \A i \in DOMAIN resolved[use.id].parameters : origin[use.id].nested[i] \in Origins
  PROVE  UseTells(ActionRules(use), use)
<1> DEFINE a == resolved[use.id]  at == use.id  own == origin[use.id].own = Own
           c2 == a.reference = "empty" /\ a.value # "absent"
           p1 == Typo(a, at)
           p2 == When(c2, Diagnostic(at, 0, "value", "UnknownField"))
           p3 == IF own THEN ActionParameterRules(a, at, origin[at].nested) ELSE << >>
           p4 == IF own THEN FixedFields(a, use.kind, at) ELSE << >>
           p5 == TargetReferences(a, use.kind, at)
           p6 == IF own THEN CriteriaRules(a, at) ELSE << >>
           list == FlattenSeq(<< p1, p2, p3, p4, p5, p6 >>)
<1>0. ActionRules(use) = IF ReferenceError(at, 0) THEN << >> ELSE list BY DEF ActionRules
<1>1. Listing(<< >>) /\ DOMAIN << >> = {} /\ \A x, n, f : Silent(<< >>, x, n, f) BY NothingTold
<1>2. Listing(p1) /\ Within(p1, at, 0, {"typo"}) BY TypoTells
<1>3. Listing(p2) /\ Within(p2, at, 0, {"value"}) /\ \A i \in DOMAIN p2 : c2
  <2>1. c2 \in BOOLEAN OBVIOUS
  <2> HIDE DEF c2
  <2> QED BY <2>1, RuleOf
<1>4. /\ Listing(p3)
      /\ \A x \in DOMAIN p3 :
            /\ own /\ p3[x].at = at
            /\ \/ p3[x].nested = 0 /\ p3[x].field = "parameters"
               \/ p3[x].nested \in DOMAIN a.parameters /\ p3[x].field \in {"in", "name", "value"}
      /\ own => \A i \in DOMAIN a.parameters : a.parameters[i].value # "broken" => Silent(p3, at, i, "value")
  <2>1. CASE own
    <3>1. p3 = ActionParameterRules(a, at, origin[at].nested) BY <2>1
    <3>2. Listing(a.parameters) /\ \A i \in DOMAIN a.parameters : origin[at].nested[i] \in Origins BY <2>1
    <3> HIDE DEF p3, a
    <3> HIDE DEF own
    <3> QED BY <2>1, <3>1, <3>2, ActionParametersTell
  <2>2. CASE ~own
    <3>1. p3 = << >> BY <2>2
    <3> HIDE DEF p3, a, own
    <3> QED BY <1>1, <2>2, <3>1
  <2> QED BY <2>1, <2>2
<1>5. /\ Listing(p4)
      /\ Within(p4, at, 0, {"retryAfter", "type", "retryLimit", "workflowId", "stepId", "target"})
      /\ \A x \in DOMAIN p4 : own
      /\ own => \A field \in ActionFields \union {"type"} : Tells(p4, at, 0, field, FixedTold(a, use.kind, field))
  <2>1. CASE own
    <3>1. p4 = FixedFields(a, use.kind, at) BY <2>1
    <3> HIDE DEF p4, a, own
    <3> QED BY <2>1, <3>1, FixedFieldsTell
  <2>2. CASE ~own
    <3>1. p4 = << >> BY <2>2
    <3> HIDE DEF p4, a, own
    <3> QED BY <1>1, <2>2, <3>1 DEF Within
  <2> QED BY <2>1, <2>2
<1>6. /\ Listing(p5) /\ Within(p5, at, 0, {"stepId", "workflowId"})
      /\ Tells(p5, at, 0, "stepId", TargetTold(a, use.kind, "stepId"))
      /\ Tells(p5, at, 0, "workflowId", TargetTold(a, use.kind, "workflowId"))
  <2>1. /\ Listing(p5) /\ Within(p5, at, 0, {"stepId", "workflowId"})
        /\ Tells(p5, at, 0, "stepId", AllowsTarget(use.kind, Type(a)) /\ a.stepId \notin componentsDoc.steps \union {"empty", "expression"})
        /\ Tells(p5, at, 0, "workflowId", AllowsTarget(use.kind, Type(a)) /\ a.workflowId \notin componentsDoc.workflows \union {"empty", "expression"})
    BY TargetsTell
  <2> HIDE DEF p5, a
  <2> QED BY <2>1 DEF TargetTold, Tells
<1>7. Listing(p6) /\ Within(p6, at, 0, {"criteria"}) /\ \A x \in DOMAIN p6 : own
  <2>1. CASE own
    <3> DEFINE c1 == a.criteria = "broken"
    <3>1. p6 = When(c1, Diagnostic(at, 0, "criteria", "InvalidExpression")) /\ c1 \in BOOLEAN BY <2>1 DEF CriteriaRules
    <3> HIDE DEF p6, c1, own
    <3> QED BY <2>1, <3>1, RuleOf
  <2>2. CASE ~own
    <3>1. p6 = << >> BY <2>2
    <3> HIDE DEF p6, own
    <3> QED BY <1>1, <2>2, <3>1 DEF Within
  <2> QED BY <2>1, <2>2
<1>8. own => 0 \notin DOMAIN a.parameters
  <2> SUFFICES ASSUME own PROVE 0 \notin DOMAIN a.parameters OBVIOUS
  <2> QED BY ListingDomain
<1>9. c2 => a.value # "absent" OBVIOUS
<1> HIDE DEF p1, p2, p3, p4, p5, p6, c2
<1>10. SixTell(list, p1, p2, p3, p4, p5, p6)
  <2>1. Listing(p1) /\ Listing(p2) /\ Listing(p3) /\ Listing(p4) /\ Listing(p5) /\ Listing(p6)
    BY <1>2, <1>3, <1>4, <1>5, <1>6, <1>7
  <2> QED BY <2>1, SixParts, Zenon
<1> HIDE DEF list
<1>12. \A x \in DOMAIN list : list[x].at = at
  <2> HIDE DEF a, own
  <2> QED BY <1>2, <1>3, <1>4, <1>5, <1>6, <1>7, <1>10 DEF Within, OneOf, SixTell
<1>13. ASSUME own, NEW field \in ActionFields \union {"type"}
       PROVE  Tells(list, at, 0, field, FixedTold(a, use.kind, field) \/ TargetTold(a, use.kind, field))
  <2>1. field \notin {"criteria", "typo", "reference", "value", "parameters"} BY DEF ActionFields
  <2>2. Silent(p1, at, 0, field) /\ Silent(p2, at, 0, field) /\ Silent(p6, at, 0, field)
    BY <1>2, <1>3, <1>7, <2>1 DEF Within, Silent, About
  <2>3. Silent(p3, at, 0, field) BY <1>4, <1>8, <1>13, <2>1 DEF Silent, About
  <2>6. ~(FixedTold(a, use.kind, field) /\ TargetTold(a, use.kind, field))
    <3> HIDE DEF a
    <3> QED BY DEF FixedTold, TargetTold
  <2> HIDE DEF a, own
  <2> DEFINE F == FixedTold(a, use.kind, field)  T == TargetTold(a, use.kind, field)
  <2>7. Tells(p4, at, 0, field, F) /\ Tells(p5, at, 0, field, T) /\ ~(F /\ T)
    BY <1>5, <1>13, <1>6, <2>6 DEF Tells, Within, Silent, About, TargetTold
  <2> HIDE DEF F, T
  <2> QED BY <1>10, <2>2, <2>3, <2>7 DEF F, T, Tells, SixTell
<1>14. ASSUME own, NEW i \in DOMAIN a.parameters, a.parameters[i].value # "broken" PROVE Silent(list, at, i, "value")
  <2>1. i # 0 BY <1>8, <1>14
  <2>2. Silent(p1, at, i, "value") /\ Silent(p2, at, i, "value") /\ Silent(p4, at, i, "value")
        /\ Silent(p5, at, i, "value") /\ Silent(p6, at, i, "value")
    BY <1>2, <1>3, <1>5, <1>6, <1>7, <2>1, WithinSilent
  <2> HIDE DEF a, own
  <2> QED BY <1>10, <2>2, <1>4, <1>14 DEF SixTell
<1>15. ASSUME ~own, NEW x \in DOMAIN list
       PROVE  list[x].field \in {"typo", "stepId", "workflowId"} \/ (list[x].field = "value" /\ a.value # "absent")
  <2> HIDE DEF a, own
  <2>1. CASE OneOf(list, x, p1) BY <1>2, <2>1 DEF Within, OneOf
  <2>2. CASE OneOf(list, x, p2) BY <1>3, <1>9, <2>2 DEF Within, OneOf
  <2>3. CASE OneOf(list, x, p5) BY <1>6, <2>3 DEF Within, OneOf
  <2>4. ~OneOf(list, x, p3) /\ ~OneOf(list, x, p4) /\ ~OneOf(list, x, p6) BY <1>4, <1>5, <1>7, <1>15 DEF OneOf
  <2> QED BY <1>10, <2>1, <2>2, <2>3, <2>4 DEF SixTell
<1>16. CASE ReferenceError(at, 0) BY <1>1, <1>16, <1>0 DEF UseTells
<1>17. CASE ~ReferenceError(at, 0)
  <2>1. ActionRules(use) = list BY <1>0, <1>17
  <2> QED BY <1>10, <1>12, <1>13, <1>14, <1>15, <2>1 DEF UseTells, SixTell
<1> QED BY <1>16, <1>17

\* What the places of a list of owners tell, each of itself alone.
Speaks(list, parts, owner) ==
  /\ Listing(list)
  /\ \A x \in DOMAIN list : \E k \in DOMAIN parts : list[x].at = owner[k] /\ OneOf(list, x, parts[k])
  /\ \A k \in DOMAIN parts : \A nested, field :
       /\ Once(parts[k], owner[k], nested, field) => Once(list, owner[k], nested, field)
       /\ Silent(parts[k], owner[k], nested, field) => Silent(list, owner[k], nested, field)

Owned(parts, owner) ==
  /\ Listing(parts)
  /\ \A k \in DOMAIN parts : Listing(parts[k]) /\ \A x \in DOMAIN parts[k] : parts[k][x].at = owner[k]
  /\ \A i, j \in DOMAIN parts : owner[i] = owner[j] => i = j

LEMMA GroupSpeaks ==
  ASSUME NEW parts, NEW owner, Owned(parts, owner)
  PROVE  Speaks(FlattenSeq(parts), parts, owner)
<1> DEFINE list == FlattenSeq(parts)
<1>1. Gathers(list, parts) BY Gathered DEF Owned
<1> HIDE DEF list
<1>2. \A x \in DOMAIN list : \E k \in DOMAIN parts : list[x].at = owner[k] /\ OneOf(list, x, parts[k])
  <2>1. TAKE x \in DOMAIN list
  <2>2. PICK k \in DOMAIN parts : \E j \in DOMAIN parts[k] : list[x] = parts[k][j] BY <1>1 DEF Gathers
  <2> QED BY <2>2 DEF Owned, OneOf
<1>3. ASSUME NEW k \in DOMAIN parts, NEW i \in DOMAIN parts, i # k, NEW nested, NEW field
      PROVE  Silent(parts[i], owner[k], nested, field)
  BY <1>3 DEF Owned, Silent, About
<1>4. ASSUME NEW k \in DOMAIN parts, NEW nested, NEW field
      PROVE  /\ Once(parts[k], owner[k], nested, field) => Once(list, owner[k], nested, field)
             /\ Silent(parts[k], owner[k], nested, field) => Silent(list, owner[k], nested, field)
  <2>1. \A i \in DOMAIN parts : i # k => Silent(parts[i], owner[k], nested, field) BY <1>3
  <2>2. Silent(parts[k], owner[k], nested, field) => \A i \in DOMAIN parts : Silent(parts[i], owner[k], nested, field)
    BY <2>1
  <2> QED BY <1>1, <2>1, <2>2, Zenon DEF Gathers
<1> QED BY <1>1, <1>2, <1>4 DEF Gathers, Speaks, list

GroupsTell(list, f1, f2, f3, n1, n2, n3) ==
  /\ Listing(list)
  /\ \A x \in DOMAIN list : \/ \E k \in DOMAIN f1 : list[x].at = n1[k]
                            \/ \E k \in DOMAIN f2 : list[x].at = n2[k]
                            \/ \E k \in DOMAIN f3 : list[x].at = n3[k] /\ OneOf(list, x, f3[k])
  /\ \A k \in DOMAIN f1 : \A nested, field :
       /\ Once(f1[k], n1[k], nested, field) => Once(list, n1[k], nested, field)
       /\ Silent(f1[k], n1[k], nested, field) => Silent(list, n1[k], nested, field)
  /\ \A k \in DOMAIN f2 : \A nested, field :
       /\ Once(f2[k], n2[k], nested, field) => Once(list, n2[k], nested, field)
       /\ Silent(f2[k], n2[k], nested, field) => Silent(list, n2[k], nested, field)
  /\ \A k \in DOMAIN f3 : \A nested, field :
       /\ Once(f3[k], n3[k], nested, field) => Once(list, n3[k], nested, field)
       /\ Silent(f3[k], n3[k], nested, field) => Silent(list, n3[k], nested, field)

LEMMA GroupsSpeak ==
  ASSUME NEW f1, NEW f2, NEW f3, NEW n1, NEW n2, NEW n3, Owned(f1, n1), Owned(f2, n2), Owned(f3, n3),
         \A i \in DOMAIN f1 : \A j \in DOMAIN f2 : n1[i] # n2[j],
         \A i \in DOMAIN f1 : \A j \in DOMAIN f3 : n1[i] # n3[j],
         \A i \in DOMAIN f2 : \A j \in DOMAIN f3 : n2[i] # n3[j]
  PROVE  GroupsTell(FlattenSeq(<< FlattenSeq(f1), FlattenSeq(f2), FlattenSeq(f3) >>), f1, f2, f3, n1, n2, n3)
<1> DEFINE p1 == FlattenSeq(f1)  p2 == FlattenSeq(f2)  p3 == FlattenSeq(f3)  list == FlattenSeq(<< p1, p2, p3 >>)
<1>1. Speaks(p1, f1, n1) /\ Speaks(p2, f2, n2) /\ Speaks(p3, f3, n3) BY GroupSpeaks
<1> HIDE DEF p1, p2, p3
<1>2. /\ Listing(list)
      /\ \A x \in DOMAIN list : OneOf(list, x, p1) \/ OneOf(list, x, p2) \/ OneOf(list, x, p3)
      /\ \A x, n, f :
           /\ Silent(p1, x, n, f) /\ Silent(p2, x, n, f) /\ Silent(p3, x, n, f) => Silent(list, x, n, f)
           /\ Once(p1, x, n, f) /\ Silent(p2, x, n, f) /\ Silent(p3, x, n, f) => Once(list, x, n, f)
           /\ Silent(p1, x, n, f) /\ Once(p2, x, n, f) /\ Silent(p3, x, n, f) => Once(list, x, n, f)
           /\ Silent(p1, x, n, f) /\ Silent(p2, x, n, f) /\ Once(p3, x, n, f) => Once(list, x, n, f)
  BY <1>1, ThreeParts DEF Speaks
<1> HIDE DEF list
<1>3. ASSUME NEW x \in DOMAIN list
      PROVE  \/ \E k \in DOMAIN f1 : list[x].at = n1[k]
             \/ \E k \in DOMAIN f2 : list[x].at = n2[k]
             \/ \E k \in DOMAIN f3 : list[x].at = n3[k] /\ OneOf(list, x, f3[k])
  <2>1. CASE OneOf(list, x, p1)
    <3>1. PICK y \in DOMAIN p1 : list[x] = p1[y] BY <2>1 DEF OneOf
    <3> QED BY <3>1, <1>1 DEF Speaks
  <2>2. CASE OneOf(list, x, p2)
    <3>1. PICK y \in DOMAIN p2 : list[x] = p2[y] BY <2>2 DEF OneOf
    <3> QED BY <3>1, <1>1 DEF Speaks
  <2>3. CASE OneOf(list, x, p3)
    <3>1. PICK y \in DOMAIN p3 : list[x] = p3[y] BY <2>3 DEF OneOf
    <3>2. PICK k \in DOMAIN f3 : p3[y].at = n3[k] /\ OneOf(p3, y, f3[k]) BY <1>1 DEF Speaks
    <3> QED BY <3>1, <3>2 DEF OneOf
  <2> QED BY <1>2, <2>1, <2>2, <2>3
<1>4. ASSUME NEW k \in DOMAIN f1, NEW nested, NEW field
      PROVE  /\ Once(f1[k], n1[k], nested, field) => Once(list, n1[k], nested, field)
             /\ Silent(f1[k], n1[k], nested, field) => Silent(list, n1[k], nested, field)
  BY <1>2, <1>1 DEF Speaks, Silent, About
<1>5. ASSUME NEW k \in DOMAIN f2, NEW nested, NEW field
      PROVE  /\ Once(f2[k], n2[k], nested, field) => Once(list, n2[k], nested, field)
             /\ Silent(f2[k], n2[k], nested, field) => Silent(list, n2[k], nested, field)
  <2>2. Silent(p3, n2[k], nested, field) BY <1>1 DEF Speaks, Silent, About
  <2>3. /\ Once(f2[k], n2[k], nested, field) => Once(p2, n2[k], nested, field)
        /\ Silent(f2[k], n2[k], nested, field) => Silent(p2, n2[k], nested, field)
    BY <1>1 DEF Speaks
  <2> QED BY <1>2, <1>1, <2>2, <2>3 DEF Speaks, Silent, About
<1>6. ASSUME NEW k \in DOMAIN f3, NEW nested, NEW field
      PROVE  /\ Once(f3[k], n3[k], nested, field) => Once(list, n3[k], nested, field)
             /\ Silent(f3[k], n3[k], nested, field) => Silent(list, n3[k], nested, field)
  <2>2. Silent(p2, n3[k], nested, field) BY <1>1 DEF Speaks, Silent, About
  <2>3. /\ Once(f3[k], n3[k], nested, field) => Once(p3, n3[k], nested, field)
        /\ Silent(f3[k], n3[k], nested, field) => Silent(p3, n3[k], nested, field)
    BY <1>1 DEF Speaks
  <2> QED BY <1>2, <1>1, <2>2, <2>3 DEF Speaks, Silent, About
<1> QED BY <1>2, <1>3, <1>4, <1>5, <1>6 DEF list, p1, p2, p3, GroupsTell

(***************************************************************************)
(* Resolution of components                                                *)
(***************************************************************************)

ParameterShape == {"reference", "name", "in", "value"}

\* What an entry comes to: its reference is followed, kept with an error in the report, or
\* could not be followed.
ParameterIs(r, p, at, nested) ==
  /\ r.origin \in Origins /\ Listing(r.found)
  /\ p.reference = "absent" => r.origin = Own
  /\ p.reference = "absent" /\ p.value = "absent" => r.entry.value = "null"
  /\ r.entry.reference = "empty" \/ r.failed \/ r.found # << >>
  /\ r.origin = From(FALSE) => r.entry.value = TypedParameter(p).value
  /\ r.origin # Own /\ raw =>
       r.entry.value = TypedParameter(IF p.value = "absent" THEN componentsDoc.parameters[p.reference] ELSE p).value
  /\ \A i \in DOMAIN r.found :
       /\ r.found[i].at = at /\ r.found[i].nested = nested
       /\ \/ r.found[i].field = "reference" /\ r.origin = Own /\ p.reference # "absent"
          \/ r.found[i].field = "value" /\ ~raw /\ p.value \notin {"absent"} \union Texts

LEMMA ResultOfParameter ==
  ASSUME NEW p, DOMAIN p = ParameterShape, NEW at, NEW nested
  PROVE  ParameterIs(ParameterResult(p, at, nested), p, at, nested)
<1> DEFINE r == ParameterResult(p, at, nested)
           d1 == Diagnostic(at, nested, "reference", "InvalidExpression")
           d2 == Diagnostic(at, nested, "value", "InvalidReference")
           c2 == ~raw /\ p.value \notin {"absent", "null"} \union Texts
           component == componentsDoc.parameters[p.reference]
<1>1. /\ d1.at = at /\ d1.nested = nested /\ d1.field = "reference"
      /\ d2.at = at /\ d2.nested = nested /\ d2.field = "value"
  BY DEF Diagnostic
<1> HIDE DEF d1, d2
<1>2. /\ Listing(<< >>) /\ DOMAIN << >> = {}
  BY NothingTold
<1>3. /\ Listing(<< d1 >>) /\ << d1 >> # << >> /\ \A i \in DOMAIN << d1 >> : << d1 >>[i] = d1
  <2>1. << d1 >> \in Seq({d1}) /\ DOMAIN << d1 >> = 1..1 /\ << d1 >>[1] = d1 OBVIOUS
  <2>2. \A i \in 1..1 : i = 1 OBVIOUS
  <2> QED BY <2>1, <2>2 DEF Listing
<1>4. Listing(When(c2, d2)) /\ \A i \in DOMAIN When(c2, d2) : c2 /\ When(c2, d2)[i] = d2
  <2>1. c2 \in BOOLEAN OBVIOUS
  <2> HIDE DEF c2
  <2> QED BY <2>1, Told
<1>5. /\ TypedParameter(p).reference = TypedReference(p.reference)
      /\ TypedParameter(p).value = IF p.value = "absent" THEN "null" ELSE p.value
  BY DEF TypedParameter, ParameterShape
<1>6. From(TRUE) # From(FALSE) /\ From(TRUE) # Own /\ From(FALSE) # Own BY DEF From, Own
<1>7. CASE RejectParameter(p)
  <2> HIDE DEF r
  <2> QED
    BY <1>1, <1>3, <1>5, <1>6, <1>7 DEF Origins, r, ParameterIs, ParameterResult, d1, RejectParameter, Unparsable
<1>8. CASE ~RejectParameter(p) /\ TypedReference(p.reference) = "empty"
  <2> HIDE DEF r
  <2> QED BY <1>2, <1>5, <1>6, <1>8 DEF Origins, r, ParameterIs, ParameterResult
<1>9. CASE ~RejectParameter(p) /\ TypedReference(p.reference) # "empty"
  <2>1. p.reference # "absent" BY <1>9 DEF TypedReference
  <2>2. CASE p.reference \notin DOMAIN componentsDoc.parameters
    <3> HIDE DEF r
    <3> QED BY <1>2, <1>5, <1>6, <2>1, <1>9, <2>2 DEF Origins, r, ParameterIs, ParameterResult
  <2>3. CASE p.reference \in DOMAIN componentsDoc.parameters
    <3>1. r.entry = Merged(p, component) /\ r.origin = From(Omitted(p)) /\ r.found = When(c2, d2)
      BY <1>9, <2>3 DEF ParameterResult, d2
    <3>2. /\ Merged(p, component).reference = "empty"
          /\ Merged(p, component).value = TypedParameter(IF Omitted(p) THEN component ELSE p).value
      BY DEF Merged
    <3>5. c2 => p.value \notin {"absent"} \union Texts /\ ~raw OBVIOUS
    <3> HIDE DEF r, c2, component
    <3>8. \A i \in DOMAIN r.found : r.found[i].at = at /\ r.found[i].nested = nested /\ r.found[i].field = "value"
                                    /\ ~raw /\ p.value \notin {"absent"} \union Texts
      BY <1>1, <1>4, <3>1, <3>5
    <3> QED BY <2>1, <1>4, <1>6, <3>1, <3>2, <3>8 DEF r, component, ParameterIs, Omitted, Origins, From
  <2> QED BY <2>2, <2>3
<1> QED BY <1>7, <1>8, <1>9

LEMMA ListingNotEmpty == ASSUME NEW list, Listing(list), list # << >> PROVE \E i : i \in DOMAIN list
<1>1. PICK S : list \in Seq(S) BY DEF Listing
<1>3. 1 \in DOMAIN list BY <1>1
<1> QED BY <1>3

ListIs(r, list, at) ==
  /\ Listing(list) /\ 0 \notin DOMAIN list
  /\ Listing(r.entries) /\ DOMAIN r.entries = DOMAIN list /\ Listing(r.found)
  /\ \A i \in DOMAIN list :
       LET p == list[i]  e == r.entries[i]  o == r.origins[i] IN
       /\ o \in Origins
       /\ p.reference = "absent" /\ p.value = "absent" => e.value = "null"
       /\ e.reference = "empty" \/ r.failed = TRUE \/ r.found # << >>
  /\ \A x \in DOMAIN r.found : /\ r.found[x].at = at /\ r.found[x].nested \in DOMAIN list
                               /\ r.found[x].field \in {"reference", "value"} /\ (raw => r.found[x].field = "reference")

LEMMA ResultOfList ==
  ASSUME NEW list, ComponentsList(list), NEW at
  PROVE  ListIs(ListResult(list, at), list, at)
<1> DEFINE each == [i \in DOMAIN list |-> ParameterResult(list[i], at, i)]
           entries == [i \in DOMAIN list |-> each[i].entry]
           origins == [i \in DOMAIN list |-> each[i].origin]
           lists == [i \in DOMAIN list |-> each[i].found]
           stuck == \E i \in DOMAIN list : each[i].failed
           all == FlattenSeq(lists)
           r == ListResult(list, at)
<1>1. r.entries = entries /\ r.origins = origins /\ r.failed = stuck /\ r.found = all BY DEF ListResult
<1>2. Listing(list) /\ \A i \in DOMAIN list : DOMAIN list[i] = ParameterShape BY DEF ComponentsList, Listing, ParameterShape
<1>3. Len(list) \in Nat /\ DOMAIN list = 1..Len(list) BY <1>2, ListingDomain
<1>4. ASSUME NEW i \in DOMAIN list
      PROVE  LET p == list[i] q == each[i] IN
             /\ q.origin \in Origins /\ Listing(q.found)
             /\ p.reference = "absent" /\ p.value = "absent" => q.entry.value = "null"
             /\ q.entry.reference = "empty" \/ q.failed \/ q.found # << >>
             /\ \A k \in DOMAIN q.found :
                  /\ q.found[k].at = at /\ q.found[k].nested = i
                  /\ q.found[k].field \in {"reference", "value"} /\ (raw => q.found[k].field = "reference")
  <2> DEFINE p == list[i] q == each[i]
  <2>1. q = ParameterResult(p, at, i) /\ DOMAIN p = ParameterShape BY <1>2
  <2> HIDE DEF p, q
  <2>2. ParameterIs(q, p, at, i) BY <2>1, ResultOfParameter
  <2> QED BY <2>2 DEF p, q, ParameterIs
<1> HIDE DEF each
<1>5. /\ Listing(lists) /\ DOMAIN lists = DOMAIN list /\ \A i \in DOMAIN list : lists[i] = each[i].found
      /\ Listing(entries) /\ DOMAIN entries = DOMAIN list /\ \A i \in DOMAIN list : entries[i] = each[i].entry
      /\ \A i \in DOMAIN list : origins[i] = each[i].origin
  <2>1. /\ DOMAIN lists = 1..Len(list) /\ DOMAIN lists = DOMAIN list /\ \A i \in DOMAIN list : lists[i] = each[i].found
        /\ DOMAIN entries = 1..Len(list) /\ DOMAIN entries = DOMAIN list /\ \A i \in DOMAIN list : entries[i] = each[i].entry
    BY <1>3
  <2>2. lists = [i \in 1..Len(list) |-> lists[i]] /\ entries = [i \in 1..Len(list) |-> entries[i]] BY <2>1
  <2>3. \A i \in DOMAIN list : origins[i] = each[i].origin OBVIOUS
  <2> HIDE DEF lists, entries, origins
  <2> QED BY <1>3, <2>1, <2>2, <2>3, ListingOf
<1> HIDE DEF lists, entries, origins
<1>6. Gathers(all, lists) BY <1>5, <1>4, Gathered
<1> HIDE DEF all
<1>7. \A i \in DOMAIN list : each[i].found # << >> => all # << >>
  <2>1. TAKE i \in DOMAIN list
  <2>2. HAVE each[i].found # << >>
  <2>3. PICK k \in DOMAIN each[i].found : TRUE BY <1>4, <2>2, ListingNotEmpty
  <2>4. PICK x \in DOMAIN all : all[x] = lists[i][k] BY <1>5, <1>6, <2>3 DEF Gathers
  <2> QED BY <2>4
<1>8. \A x \in DOMAIN all : /\ all[x].at = at /\ all[x].nested \in DOMAIN list
                            /\ all[x].field \in {"reference", "value"} /\ (raw => all[x].field = "reference")
  <2>1. TAKE x \in DOMAIN all
  <2>2. PICK i \in DOMAIN lists : \E k \in DOMAIN lists[i] : all[x] = lists[i][k] BY <1>6 DEF Gathers
  <2> QED BY <1>4, <1>5, <2>2
<1>9. \A i \in DOMAIN list :
            LET p == list[i]  e == entries[i]  o == origins[i] IN
            /\ o \in Origins
            /\ p.reference = "absent" /\ p.value = "absent" => e.value = "null"
            /\ e.reference = "empty" \/ stuck = TRUE \/ all # << >>
  BY <1>4, <1>5, <1>7
<1>10. 0 \notin DOMAIN list /\ Listing(all) BY <1>3, <1>6 DEF Gathers
<1> HIDE DEF stuck, r
<1> QED BY <1>1, <1>2, <1>5, <1>8, <1>9, <1>10 DEF r, ListIs

\* What is written of an action, with the defaults for what is not.
LEMMA TypedActionIs ==
  ASSUME NEW a, DOMAIN a = DOMAIN NoAction, NEW list
  PROVE  LET e == [TypedAction(a) EXCEPT !.parameters = list] IN
         /\ DOMAIN e = DOMAIN NoAction /\ e.parameters = list /\ e.type = a.type
         /\ e.reference = TypedReference(a.reference)
         /\ e.retryAfter = (IF a.retryAfter = "absent" THEN "zero" ELSE a.retryAfter)
         /\ e.retryLimit = (IF a.retryLimit = "null" THEN "absent" ELSE a.retryLimit)
         /\ e.workflowId = (IF a.workflowId = "absent" THEN "empty" ELSE a.workflowId)
         /\ e.stepId = (IF a.stepId = "absent" THEN "empty" ELSE a.stepId)
  BY DEF TypedAction, NoAction

\* What an entry is after resolution: without a reference, unless something is kept that
\* says otherwise.
Clean(e, kept) == e.reference = "empty" \/ kept = TRUE

Element(p, e, o, kept) ==
  o \in Origins /\ (p.reference = "absent" /\ p.value = "absent" => e.value = "null") /\ Clean(e, kept)

ActionMade(a, e, nested, kept) ==
  /\ e.type = a.type
  /\ e.retryAfter = (IF a.retryAfter = "absent" THEN "zero" ELSE a.retryAfter)
  /\ e.retryLimit = (IF a.retryLimit = "null" THEN "absent" ELSE a.retryLimit)
  /\ e.workflowId = (IF a.workflowId = "absent" THEN "empty" ELSE a.workflowId)
  /\ e.stepId = (IF a.stepId = "absent" THEN "empty" ELSE a.stepId)
  /\ Listing(a.parameters) /\ Listing(e.parameters) /\ DOMAIN e.parameters = DOMAIN a.parameters
  /\ \A i \in DOMAIN a.parameters : Element(a.parameters[i], e.parameters[i], nested[i], kept)

\* What can be taken for a use.
ActionUsable(e, kept) ==
  /\ {"reference", "value"} \subseteq DOMAIN e
  /\ Listing(e.parameters) /\ \A k \in DOMAIN e.parameters : Clean(e.parameters[k], kept)

ActionUseMade(a, e, own, nested, kept) ==
  /\ e.reference = "empty"
  /\ Listing(e.parameters) /\ \A k \in DOMAIN e.parameters : Clean(e.parameters[k], kept)
  /\ own = Own => \A k \in DOMAIN e.parameters : nested[k] \in Origins
  /\ a.reference = "absent" => own = Own /\ ActionMade(a, e, nested, kept)
  /\ own # Own => e.value = "absent" /\ a.reference # "absent" /\ (raw => a.reference # "not text")

ActionFound(r, a, at) ==
  \A x \in DOMAIN r.found :
    LET d == r.found[x] IN
    /\ d.at = at /\ d.field \in {"reference", "value"} /\ (raw => d.field = "reference")
    /\ \/ d.nested # 0 /\ r.origin = Own
       \/ d.nested = 0 /\ d.field = "reference" /\ r.origin = Own /\ a.reference # "absent"
       \/ d.nested = 0 /\ d.field = "value" /\ a.value \notin {"absent"} \union Texts

LEMMA ResultOfAction ==
  ASSUME NEW a, DOMAIN a = DOMAIN NoAction, ComponentsAction(a), NEW kind, NEW at, NEW kept,
         \A n \in DOMAIN componentsDoc.actions : ActionUsable(resolved[n], kept)
  PROVE  LET r == ActionResult(a, kind, at) IN
         /\ Listing(r.found) /\ ActionFound(r, a, at)
         /\ ActionUseMade(a, r.entry, r.origin, r.nested, kept = TRUE \/ r.failed = TRUE \/ r.found # << >>)
<1> DEFINE r == ActionResult(a, kind, at)
           reference == IF raw THEN a.reference ELSE TypedReference(a.reference)
           mine == ListResult(a.parameters, at)
           given == a.parameters
           still == kept = TRUE \/ r.failed = TRUE \/ r.found # << >>
           d1 == Diagnostic(at, 0, "reference", "InvalidExpression")
           d2 == Diagnostic(at, 0, "value", "InvalidReference")
           c1 == reference # "not text"
           c2 == ~raw /\ TypedAction(a).value \notin {"absent"} \union Texts
<1>1. /\ d1.at = at /\ d1.nested = 0 /\ d1.field = "reference"
      /\ d2.at = at /\ d2.nested = 0 /\ d2.field = "value"
  BY DEF Diagnostic
<1> HIDE DEF d1, d2
<1>2. Listing(<< >>) /\ DOMAIN << >> = {} BY NothingTold
<1>3. NoAction.reference = "empty" /\ NoAction.value = "absent" /\ NoAction.parameters = << >> BY DEF NoAction
<1>5. CASE reference = "not text" \/ Unparsable(reference)
  <2>1. r.entry = NoAction /\ r.origin = Own /\ r.nested = << >> /\ r.found = When(c1, d1)
    BY <1>5 DEF ActionResult, d1
  <2>3. Listing(When(c1, d1)) /\ \A i \in DOMAIN When(c1, d1) : When(c1, d1)[i] = d1
    <3>1. c1 \in BOOLEAN OBVIOUS
    <3> HIDE DEF c1
    <3> QED BY <3>1, Told
  <2> HIDE DEF still, r, c1
  <2> QED BY <1>1, <2>1, <1>5, <2>3, <1>2, <1>3 DEF r, still, ActionFound, ActionUseMade, Unparsable, TypedReference
<1>6. CASE ~(reference = "not text" \/ Unparsable(reference)) /\ reference \in {"absent", "empty"}
  <2> DEFINE e == [TypedAction(a) EXCEPT !.parameters = mine.entries]
  <2>1. r.entry = e /\ r.origin = Own /\ r.nested = mine.origins /\ r.failed = mine.failed /\ r.found = mine.found
    BY <1>6 DEF ActionResult
  <2>2. ListIs(mine, given, at)
    <3>1. ComponentsList(given) BY DEF ComponentsAction
    <3> QED BY <3>1, ResultOfList, Zenon
  <2>3. /\ e.parameters = mine.entries /\ e.type = a.type
        /\ e.reference = TypedReference(a.reference)
        /\ e.retryAfter = (IF a.retryAfter = "absent" THEN "zero" ELSE a.retryAfter)
        /\ e.retryLimit = (IF a.retryLimit = "null" THEN "absent" ELSE a.retryLimit)
        /\ e.workflowId = (IF a.workflowId = "absent" THEN "empty" ELSE a.workflowId)
        /\ e.stepId = (IF a.stepId = "absent" THEN "empty" ELSE a.stepId)
    BY TypedActionIs
  <2>4. TypedReference(a.reference) = "empty" BY <1>6 DEF TypedReference
  <2> HIDE DEF e, mine, r, reference, c1, c2
  <2>5. \A i \in DOMAIN given : Element(given[i], e.parameters[i], r.nested[i], still)
    BY <2>1, <2>2, <2>3 DEF Element, Clean, ListIs
  <2> HIDE DEF still
  <2>6. /\ Listing(given) /\ Listing(e.parameters) /\ DOMAIN e.parameters = DOMAIN given
    BY <2>2, <2>3 DEF ListIs
  <2>9. ActionUseMade(a, r.entry, r.origin, r.nested, still)
    BY <2>1, <2>3, <2>4, <2>6, <2>5 DEF ActionUseMade, ActionMade, Element
  <2> QED BY <2>9, <2>1, <2>2 DEF r, still, ActionFound, ListIs
<1>7. CASE ~(reference = "not text" \/ Unparsable(reference)) /\ reference \notin {"absent", "empty"}
  <2>1. a.reference # "absent" /\ (raw => a.reference # "not text") BY <1>7 DEF TypedReference
  <2>2. CASE ~ComponentAction(reference, kind)
    <3> HIDE DEF still, r
    <3> QED BY <1>2, <1>7, <2>2, <1>3, <2>1 DEF r, still, ActionUseMade, ActionFound, ActionResult
  <2>3. CASE ComponentAction(reference, kind)
    <3> DEFINE taken == resolved[reference]
               e == [taken EXCEPT !.reference = "empty", !.value = "absent"]
    <3>1. r.entry = e /\ r.origin = "component" /\ r.nested = << >> /\ r.found = When(c2, d2)
      BY <1>7, <2>3 DEF ActionResult, d2
    <3>2. ActionUsable(taken, kept) BY <2>3 DEF ComponentAction
    <3> HIDE DEF taken
    <3>3. e.reference = "empty" /\ e.value = "absent" /\ e.parameters = taken.parameters BY <3>2 DEF ActionUsable
    <3>4. Listing(When(c2, d2)) /\ \A i \in DOMAIN When(c2, d2) : c2 /\ When(c2, d2)[i] = d2
      <4>1. c2 \in BOOLEAN OBVIOUS
      <4> HIDE DEF c2
      <4> QED BY <4>1, Told
    <3>5. c2 => ~raw /\ a.value \notin {"absent"} \union Texts BY DEF TypedAction, NoAction
    <3> HIDE DEF e, r, c2, reference
    <3>6. \A k \in DOMAIN e.parameters : Clean(e.parameters[k], still) BY <3>2, <3>3 DEF ActionUsable, Clean
    <3> HIDE DEF still
    <3>7. ActionUseMade(a, r.entry, r.origin, r.nested, still)
      BY <2>1, <3>1, <3>2, <3>3, <3>6 DEF ActionUseMade, ActionUsable, Own
    <3> QED BY <3>1, <3>4, <3>7, <1>1, <3>5 DEF r, still, ActionFound
  <2> QED BY <2>2, <2>3
<1> QED BY <1>5, <1>6, <1>7

(***************************************************************************)
(* The documents and their reports                                         *)
(***************************************************************************)
UseIds == [i \in DOMAIN componentsDoc.uses |-> componentsDoc.uses[i].id]

LEMMA PlacesOfDocument ==
  ASSUME componentsDoc \in ComponentsDocuments
  PROVE  /\ Listing(ParameterNames) /\ Listing(ActionNames) /\ Listing(componentsDoc.uses) /\ Listing(UseIds)
         /\ \A n \in DOMAIN componentsDoc.parameters : \E i \in DOMAIN ParameterNames : ParameterNames[i] = n
         /\ \A n \in DOMAIN componentsDoc.actions : \E i \in DOMAIN ActionNames : ActionNames[i] = n
         /\ \A i \in DOMAIN ParameterNames : ParameterNames[i] \in DOMAIN componentsDoc.parameters
         /\ \A i \in DOMAIN ActionNames : ActionNames[i] \in DOMAIN componentsDoc.actions
         /\ \A i, j \in DOMAIN ParameterNames : ParameterNames[i] = ParameterNames[j] => i = j
         /\ \A i, j \in DOMAIN ActionNames : ActionNames[i] = ActionNames[j] => i = j
         /\ DOMAIN UseIds = DOMAIN componentsDoc.uses /\ \A i \in DOMAIN UseIds : UseIds[i] = componentsDoc.uses[i].id
         /\ \A i, j \in DOMAIN UseIds : UseIds[i] = UseIds[j] => i = j
         /\ \A i \in DOMAIN UseIds : UseIds[i] \notin DOMAIN componentsDoc.parameters \union DOMAIN componentsDoc.actions
         /\ DOMAIN componentsDoc.parameters \intersect DOMAIN componentsDoc.actions = {}
         /\ \A n \in DOMAIN componentsDoc.parameters : DOMAIN componentsDoc.parameters[n] = ParameterShape
         /\ \A n \in DOMAIN componentsDoc.actions :
              ComponentsAction(componentsDoc.actions[n]) /\ DOMAIN componentsDoc.actions[n] = DOMAIN NoAction \union {"kind"}
         /\ \A i \in DOMAIN componentsDoc.uses :
              LET u == componentsDoc.uses[i] IN
              \/ u.form = "action" /\ ComponentsAction(u.entry) /\ DOMAIN u.entry = DOMAIN NoAction
              \/ u.form = "parameter" /\ DOMAIN u.entry = ParameterShape
<1> DEFINE d == componentsDoc  places == d.uses
<1>1. /\ d.uses \in Seq({d.uses[i] : i \in DOMAIN d.uses})
      /\ \A i, j \in DOMAIN d.uses : d.uses[i].id = d.uses[j].id => i = j
      /\ \A i \in DOMAIN d.uses : d.uses[i].id \notin DOMAIN d.parameters \union DOMAIN d.actions
      /\ DOMAIN d.parameters \intersect DOMAIN d.actions = {}
      /\ IsFiniteSet(DOMAIN d.parameters) /\ IsFiniteSet(DOMAIN d.actions)
      /\ \A n \in DOMAIN d.parameters : DOMAIN d.parameters[n] = ParameterShape
      /\ \A n \in DOMAIN d.actions :
           ComponentsAction(d.actions[n]) /\ DOMAIN d.actions[n] = DOMAIN NoAction \union {"kind"}
      /\ \A i \in DOMAIN d.uses :
           \/ d.uses[i].form = "action" /\ ComponentsAction(d.uses[i].entry) /\ DOMAIN d.uses[i].entry = DOMAIN NoAction
           \/ d.uses[i].form = "parameter" /\ DOMAIN d.uses[i].entry = ParameterShape
  BY DocumentAssumption DEF ParameterShape
<1> HIDE DEF d
<1>2. /\ ParameterNames \in Seq(DOMAIN d.parameters)
      /\ \A n \in DOMAIN d.parameters : \E i \in DOMAIN ParameterNames : ParameterNames[i] = n
      /\ \A i, j \in DOMAIN ParameterNames : ParameterNames[i] = ParameterNames[j] => i = j
      /\ \A i \in DOMAIN ParameterNames : ParameterNames[i] \in DOMAIN d.parameters
  BY <1>1, SequenceOfSet DEF ParameterNames, d
<1>3. /\ ActionNames \in Seq(DOMAIN d.actions)
      /\ \A n \in DOMAIN d.actions : \E i \in DOMAIN ActionNames : ActionNames[i] = n
      /\ \A i, j \in DOMAIN ActionNames : ActionNames[i] = ActionNames[j] => i = j
      /\ \A i \in DOMAIN ActionNames : ActionNames[i] \in DOMAIN d.actions BY <1>1, SequenceOfSet DEF ActionNames, d
<1>4. Listing(ParameterNames) /\ Listing(ActionNames) /\ Listing(places) BY <1>1, <1>2, <1>3 DEF Listing
<1>6. Listing(UseIds) BY <1>4, ListingDomain, ListingOf DEF UseIds, d
<1> QED BY <1>1, <1>2, <1>3, <1>4, <1>6 DEF d, UseIds

ParameterUseMade(p, e, own, kept) ==
  /\ Element(p, e, own, kept)
  /\ own # Own => p.reference # "absent"
  /\ own = From(FALSE) => e.value = TypedParameter(p).value
  /\ own # Own /\ raw =>
       e.value = TypedParameter(IF p.value = "absent" THEN componentsDoc.parameters[p.reference] ELSE p).value

UseMade(u, e, o, kept) ==
  IF u.form = "action" THEN ActionUseMade(u.entry, e, o.own, o.nested, kept) ELSE ParameterUseMade(u.entry, e, o.own, kept)

ComponentMade(a, e, o, kept) == ActionMade(a, e, o.nested, kept) /\ ActionUsable(e, kept)

\* What resolution reports: a reference, or without the text a value.
RaisedBy(u, d, own) ==
  \/ d.nested # 0 /\ own = Own /\ u.form = "action"
  \/ d.nested = 0 /\ d.field = "reference" /\ own = Own /\ u.entry.reference # "absent"
  \/ d.nested = 0 /\ d.field = "value" /\ u.entry.value \notin {"absent"} \union Texts

Raised(d) ==
  /\ d.field \in {"reference", "value"} /\ (raw => d.field = "reference")
  /\ \/ d.nested # 0 /\ d.at \in ready
     \/ \E j \in 1..next : LET u == componentsDoc.uses[j] IN d.at = u.id /\ RaisedBy(u, d, origin[u.id].own)

Kept == componentsReport # << >> \/ componentsPhase = "failed"

MadeInv ==
  /\ \A n \in ready : ComponentMade(componentsDoc.actions[n], resolved[n], origin[n], Kept)
  /\ \A j \in 1..next : LET u == componentsDoc.uses[j] IN UseMade(u, resolved[u.id], origin[u.id], Kept)

Blame(u, d) ==
  \/ d.field = "value" /\ u.entry.value \notin {"absent", "text"}
  \/ d.field \in {"stepId", "workflowId"} /\ u.form = "action"
  \/ d.field = "typo"

Blameless(report) ==
  \A j \in DOMAIN componentsDoc.uses : LET u == componentsDoc.uses[j] IN
    origin[u.id].own # Own => \A i \in DOMAIN report : report[i].at = u.id => Blame(u, report[i])

Lacking(p) == p.reference = "absent" /\ p.value = "absent"

\* What the typed rules have told, where the rules of the text follow.
TypedTold(report) ==
  /\ \A d \in Defined :
       /\ d.action.type # "absent" => \A field \in ActionFields :
            Tells(report, d.at, 0, field, Misplaced(d, field) /\ ~TextTold(d.action, d.kind, field))
       /\ d.action.type = "absent" => Silent(report, d.at, 0, "type")
       /\ \A i \in DOMAIN d.action.parameters : Lacking(d.action.parameters[i]) => Silent(report, d.at, i, "value")
  /\ \A n \in DOMAIN componentsDoc.parameters :
       componentsDoc.parameters[n].value = "absent" => Silent(report, n, 0, "value")

\* What has been told in the end.
AllTold(report) ==
  /\ \A d \in Defined : d.action.type = "absent" => Once(report, d.at, 0, "type")
  /\ raw => /\ \A d \in Defined :
                 /\ d.action.type # "absent" =>
                      \A field \in ActionFields : Tells(report, d.at, 0, field, Misplaced(d, field))
                 /\ \A i \in DOMAIN d.action.parameters :
                      Lacking(d.action.parameters[i]) => Once(report, d.at, i, "value")
            /\ \A n \in DOMAIN componentsDoc.parameters :
                 componentsDoc.parameters[n].value = "absent" => Once(report, n, 0, "value")

ComponentsInv ==
  /\ componentsDoc \in ComponentsDocuments /\ raw \in BOOLEAN /\ Listing(componentsReport)
  /\ componentsPhase \in {"resolve", "failed", "typed", "text", "done"}
  /\ ready \subseteq DOMAIN componentsDoc.actions /\ next \in 0..Len(componentsDoc.uses)
  /\ next # 0 \/ componentsPhase \in {"typed", "text", "done"} => ready = DOMAIN componentsDoc.actions
  /\ componentsPhase \in {"typed", "text", "done"} => next = Len(componentsDoc.uses)
  /\ DOMAIN resolved = ready \union {componentsDoc.uses[i].id : i \in 1..next} /\ DOMAIN origin = DOMAIN resolved
  /\ MadeInv
  /\ componentsPhase \in {"resolve", "failed", "typed"} => \A i \in DOMAIN componentsReport : Raised(componentsReport[i])
  /\ componentsPhase = "text" => raw /\ TypedTold(componentsReport) /\ Blameless(componentsReport)
  /\ componentsPhase = "done" => AllTold(componentsReport) /\ Blameless(componentsReport)

\* The typed rules and the rules of the text share out the fields of an action.
LEMMA FieldShared ==
  ASSUME NEW d, NEW e, NEW nested, NEW kept, NEW field \in ActionFields, ComponentsAction(d.action), d.action.type # "absent",
         ActionMade(d.action, e, nested, kept), raw
  PROVE  /\ TextTold(d.action, d.kind, field) => Misplaced(d, field)
         /\ (FixedTold(e, d.kind, field) \/ (d.use /\ TargetTold(e, d.kind, field)))
              <=> Misplaced(d, field) /\ ~TextTold(d.action, d.kind, field)
<1> DEFINE a == d.action  kind == d.kind  retries == Retries(kind, a.type)  targets == AllowsTarget(kind, a.type)
<1>1. /\ a.retryAfter \in {"absent", "zero", "positive", "negative"}
      /\ a.retryLimit \in {"absent", "null", "zero", "positive"}
      /\ a.workflowId \notin {"null", "zero"} /\ a.stepId \notin {"null", "zero"}
  BY DEF ComponentsAction
<1>2. Type(e) = a.type /\ Retries(kind, Type(e)) = retries /\ AllowsTarget(kind, Type(e)) = targets
  BY DEF ActionMade, Type
<1>3. /\ e.retryAfter = (IF a.retryAfter = "absent" THEN "zero" ELSE a.retryAfter)
      /\ e.retryLimit = (IF a.retryLimit = "null" THEN "absent" ELSE a.retryLimit)
      /\ e.workflowId = (IF a.workflowId = "absent" THEN "empty" ELSE a.workflowId)
      /\ e.stepId = (IF a.stepId = "absent" THEN "empty" ELSE a.stepId)
  BY DEF ActionMade
<1> HIDE DEF a, kind, retries, targets
<1>7. CASE field = "retryAfter"
  BY <1>1, <1>3, <1>2, <1>7 DEF Defaulted, a, kind, TargetTold, FixedTold, Misplaced, retries, TextTold
<1>8. CASE field = "retryLimit"
  BY <1>1, <1>3, <1>2, <1>8 DEF Defaulted, a, kind, TargetTold, FixedTold, Misplaced, retries, TextTold
<1>9. CASE field = "workflowId"
  BY <1>1, <1>3, <1>2, <1>9 DEF Defaulted, a, kind, Misplaced, targets, FixedTold, TargetTold, TextTold
<1>10. CASE field = "stepId"
  BY <1>1, <1>3, <1>2, <1>10 DEF Defaulted, a, kind, Misplaced, targets, FixedTold, TargetTold, TextTold
<1> QED BY <1>7, <1>8, <1>9, <1>10 DEF ActionFields

\* An action a document defines stands among the components or in a list.
LEMMA DefinedWhere ==
  ASSUME NEW d, d \in Defined
  PROVE  \/ \E n \in DOMAIN componentsDoc.actions :
              d.at = n /\ d.kind = componentsDoc.actions[n].kind /\ d.action = componentsDoc.actions[n] /\ d.use = FALSE
         \/ \E j \in DOMAIN componentsDoc.uses : LET u == componentsDoc.uses[j] IN
              /\ u.form = "action" /\ u.entry.reference = "absent"
              /\ d.at = u.id /\ d.kind = u.kind /\ d.action = u.entry /\ d.use = TRUE
  BY DEF Defined

\* The reports of a round, each of its own place: p of the parameters, a of the actions and
\* u of the uses.
PlaceTells(t, list, at) ==
  \A nested, field : /\ Once(list, at, nested, field) => Once(t, at, nested, field)
                     /\ Silent(list, at, nested, field) => Silent(t, at, nested, field)

Round(t, p, a, u) ==
  /\ Listing(t)
  /\ \A n \in DOMAIN componentsDoc.parameters : PlaceTells(t, p[n], n)
  /\ \A n \in DOMAIN componentsDoc.actions : PlaceTells(t, a[n], n)
  /\ \A j \in DOMAIN componentsDoc.uses : PlaceTells(t, u[j], componentsDoc.uses[j].id)
  /\ \A x \in DOMAIN t : \/ t[x].at \in DOMAIN componentsDoc.parameters \union DOMAIN componentsDoc.actions
                         \/ \E j \in DOMAIN componentsDoc.uses : t[x].at = componentsDoc.uses[j].id /\ OneOf(t, x, u[j])

LEMMA RoundSpeaks ==
  ASSUME componentsDoc \in ComponentsDocuments, NEW p, NEW a, NEW u,
         \A n \in DOMAIN componentsDoc.parameters : Listing(p[n]) /\ \A x \in DOMAIN p[n] : p[n][x].at = n,
         \A n \in DOMAIN componentsDoc.actions : Listing(a[n]) /\ \A x \in DOMAIN a[n] : a[n][x].at = n,
         \A j \in DOMAIN componentsDoc.uses : Listing(u[j]) /\ \A x \in DOMAIN u[j] : u[j][x].at = componentsDoc.uses[j].id
  PROVE  Round(FlattenSeq(<< FlattenSeq([i \in DOMAIN ParameterNames |-> p[ParameterNames[i]]]),
                             FlattenSeq([i \in DOMAIN ActionNames |-> a[ActionNames[i]]]),
                             FlattenSeq([i \in DOMAIN componentsDoc.uses |-> u[i]]) >>), p, a, u)
<1> DEFINE f1 == [i \in DOMAIN ParameterNames |-> p[ParameterNames[i]]]
           f2 == [i \in DOMAIN ActionNames |-> a[ActionNames[i]]]
           f3 == [i \in DOMAIN componentsDoc.uses |-> u[i]]
           t == FlattenSeq(<< FlattenSeq(f1), FlattenSeq(f2), FlattenSeq(f3) >>)
<1>1. /\ Listing(ParameterNames) /\ Listing(ActionNames) /\ Listing(componentsDoc.uses) /\ Listing(UseIds)
      /\ \A n \in DOMAIN componentsDoc.parameters : \E i \in DOMAIN ParameterNames : ParameterNames[i] = n
      /\ \A n \in DOMAIN componentsDoc.actions : \E i \in DOMAIN ActionNames : ActionNames[i] = n
      /\ \A i \in DOMAIN ParameterNames : ParameterNames[i] \in DOMAIN componentsDoc.parameters
      /\ \A i \in DOMAIN ActionNames : ActionNames[i] \in DOMAIN componentsDoc.actions
      /\ \A i, j \in DOMAIN ParameterNames : ParameterNames[i] = ParameterNames[j] => i = j
      /\ \A i, j \in DOMAIN ActionNames : ActionNames[i] = ActionNames[j] => i = j
      /\ DOMAIN UseIds = DOMAIN componentsDoc.uses /\ \A i \in DOMAIN UseIds : UseIds[i] = componentsDoc.uses[i].id
      /\ \A i, j \in DOMAIN UseIds : UseIds[i] = UseIds[j] => i = j
      /\ \A i \in DOMAIN UseIds : UseIds[i] \notin DOMAIN componentsDoc.parameters \union DOMAIN componentsDoc.actions
      /\ DOMAIN componentsDoc.parameters \intersect DOMAIN componentsDoc.actions = {}
  BY PlacesOfDocument
<1>2. /\ DOMAIN f1 = DOMAIN ParameterNames /\ \A i \in DOMAIN ParameterNames : f1[i] = p[ParameterNames[i]]
      /\ DOMAIN f2 = DOMAIN ActionNames /\ \A i \in DOMAIN ActionNames : f2[i] = a[ActionNames[i]]
      /\ DOMAIN f3 = DOMAIN componentsDoc.uses /\ \A i \in DOMAIN componentsDoc.uses : f3[i] = u[i]
  OBVIOUS
<1>3. Listing(f1)
  <2>1. Len(ParameterNames) \in Nat /\ DOMAIN ParameterNames = 1..Len(ParameterNames) BY <1>1, ListingDomain
  <2>2. f1 = [i \in 1..Len(ParameterNames) |-> f1[i]] BY <2>1
  <2> HIDE DEF f1
  <2> QED BY <2>1, <2>2, ListingOf
<1>4. Listing(f2)
  <2>1. Len(ActionNames) \in Nat /\ DOMAIN ActionNames = 1..Len(ActionNames) BY <1>1, ListingDomain
  <2>2. f2 = [i \in 1..Len(ActionNames) |-> f2[i]] BY <2>1
  <2> HIDE DEF f2
  <2> QED BY <2>1, <2>2, ListingOf
<1>5. Listing(f3)
  <2>1. Len(componentsDoc.uses) \in Nat /\ DOMAIN componentsDoc.uses = 1..Len(componentsDoc.uses) BY <1>1, ListingDomain
  <2>2. f3 = [i \in 1..Len(componentsDoc.uses) |-> f3[i]] BY <2>1
  <2> HIDE DEF f3
  <2> QED BY <2>1, <2>2, ListingOf
<1> HIDE DEF f1, f2, f3
<1>6. Owned(f1, ParameterNames) BY <1>1, <1>2, <1>3 DEF Owned
<1>7. Owned(f2, ActionNames) BY <1>1, <1>2, <1>4 DEF Owned
<1>8. Owned(f3, UseIds) BY <1>1, <1>2, <1>5 DEF Owned
<1>9. /\ \A i \in DOMAIN f1 : \A j \in DOMAIN f2 : ParameterNames[i] # ActionNames[j]
      /\ \A i \in DOMAIN f1 : \A j \in DOMAIN f3 : ParameterNames[i] # UseIds[j]
      /\ \A i \in DOMAIN f2 : \A j \in DOMAIN f3 : ActionNames[i] # UseIds[j]
  BY <1>1, <1>2
<1>10. GroupsTell(t, f1, f2, f3, ParameterNames, ActionNames, UseIds) BY <1>6, <1>7, <1>8, <1>9, GroupsSpeak, Zenon
<1> HIDE DEF t
<1>11. ASSUME NEW n \in DOMAIN componentsDoc.parameters PROVE PlaceTells(t, p[n], n)
  <2>1. PICK i \in DOMAIN ParameterNames : ParameterNames[i] = n BY <1>1
  <2> QED BY <1>10, <2>1, <1>2 DEF GroupsTell, PlaceTells
<1>12. ASSUME NEW n \in DOMAIN componentsDoc.actions PROVE PlaceTells(t, a[n], n)
  <2>1. PICK i \in DOMAIN ActionNames : ActionNames[i] = n BY <1>1
  <2> QED BY <1>10, <2>1, <1>2 DEF GroupsTell, PlaceTells
<1>13. ASSUME NEW j \in DOMAIN componentsDoc.uses PROVE PlaceTells(t, u[j], componentsDoc.uses[j].id)
  <2>1. f3[j] = u[j] /\ j \in DOMAIN f3 /\ UseIds[j] = componentsDoc.uses[j].id BY <1>1, <1>2
  <2> QED BY <1>10, <2>1 DEF GroupsTell, PlaceTells
<1>14. ASSUME NEW x \in DOMAIN t
       PROVE  \/ t[x].at \in DOMAIN componentsDoc.parameters \union DOMAIN componentsDoc.actions
              \/ \E j \in DOMAIN componentsDoc.uses : t[x].at = componentsDoc.uses[j].id /\ OneOf(t, x, u[j])
  <2>1. CASE \E k \in DOMAIN f1 : t[x].at = ParameterNames[k] BY <1>1, <1>2, <2>1
  <2>2. CASE \E k \in DOMAIN f2 : t[x].at = ActionNames[k] BY <1>1, <1>2, <2>2
  <2>3. CASE \E k \in DOMAIN f3 : t[x].at = UseIds[k] /\ OneOf(t, x, f3[k]) BY <1>1, <1>2, <2>3
  <2> QED BY <1>10, <2>1, <2>2, <2>3 DEF GroupsTell
<1> QED BY <1>11, <1>12, <1>13, <1>14, <1>10 DEF t, f1, f2, f3, Round, GroupsTell

\* All is resolved when the rules are applied.
LEMMA AllResolved ==
  ASSUME ComponentsInv, componentsPhase \in {"typed", "text", "done"}
  PROVE  /\ componentsDoc \in ComponentsDocuments
         /\ \A n \in DOMAIN componentsDoc.actions : ComponentMade(componentsDoc.actions[n], resolved[n], origin[n], Kept)
         /\ \A j \in DOMAIN componentsDoc.uses :
              LET u == componentsDoc.uses[j] IN UseMade(u, resolved[u.id], origin[u.id], Kept)
<1>1. componentsDoc \in ComponentsDocuments BY DEF ComponentsInv
<1>3. ready = DOMAIN componentsDoc.actions /\ next = Len(componentsDoc.uses) BY DEF ComponentsInv
<1> QED BY <1>1, PlacesOfDocument, ListingDomain, <1>3 DEF ComponentsInv, MadeInv

\* What the typed rules report of each place.
TypedOfParameters == [n \in DOMAIN componentsDoc.parameters |-> TypedParameterReport(n)]
TypedOfActions == [n \in DOMAIN componentsDoc.actions |-> ComponentRules(n)]
TypedOfUses == [j \in DOMAIN componentsDoc.uses |-> TypedUseReport(componentsDoc.uses[j])]

LEMMA TypedOfParameter ==
  ASSUME componentsDoc \in ComponentsDocuments, NEW n \in DOMAIN componentsDoc.parameters
  PROVE  /\ Listing(TypedOfParameters[n]) /\ \A x \in DOMAIN TypedOfParameters[n] : TypedOfParameters[n][x].at = n
         /\ componentsDoc.parameters[n].value = "absent" => Silent(TypedOfParameters[n], n, 0, "value")
<1> DEFINE p == TypedParameter(componentsDoc.parameters[n])  list == ParameterRules(p, n, 0, FALSE)
<1>1. TypedOfParameters[n] = list BY DEF TypedOfParameters, TypedParameterReport
<1>2. Listing(list) /\ Within(list, n, 0, {"in", "name", "value"}) /\ (p.value # "broken" => Silent(list, n, 0, "value"))
  <2> HIDE DEF p
  <2> QED BY ParameterTells
<1>3. componentsDoc.parameters[n].value = "absent" => p.value = "null"
  BY PlacesOfDocument DEF TypedParameter, ParameterShape
<1> HIDE DEF p, list
<1> QED BY <1>1, <1>2, <1>3 DEF Within

LEMMA TypedOfAction ==
  ASSUME ComponentsInv, componentsPhase = "typed", NEW n \in DOMAIN componentsDoc.actions
  PROVE  ComponentTells(TypedOfActions[n], n)
  BY AllResolved, ComponentRulesTell DEF TypedOfActions, ComponentMade, ActionMade, Element

\* What a use that takes something from a component is told of.
UseBlamed(list, u) == origin[u.id].own # Own => \A x \in DOMAIN list : Blame(u, list[x])

LEMMA TypedOfUse ==
  ASSUME ComponentsInv, componentsPhase = "typed", NEW j \in DOMAIN componentsDoc.uses
  PROVE  LET u == componentsDoc.uses[j] IN
         /\ Listing(TypedOfUses[j]) /\ \A x \in DOMAIN TypedOfUses[j] : TypedOfUses[j][x].at = u.id
         /\ u.form = "action" => UseTells(TypedOfUses[j], u)
         /\ UseBlamed(TypedOfUses[j], u)
<1> DEFINE u == componentsDoc.uses[j]  e == resolved[u.id]  o == origin[u.id]
<1>1. UseMade(u, e, o, Kept) BY AllResolved
<1>2. TypedOfUses[j] = IF u.form = "action" THEN ActionRules(u) ELSE EntryRules(e, u.id, 0, o.own)
  BY DEF TypedOfUses, TypedUseReport
<1>4. CASE u.form = "action"
  <2>1. ActionUseMade(u.entry, e, o.own, o.nested, Kept) BY <1>1, <1>4 DEF UseMade
  <2>3. UseTells(ActionRules(u), u)
    <3> HIDE DEF u
    <3> QED BY <2>1, ActionRulesTell DEF ActionUseMade
  <2>6. UseBlamed(ActionRules(u), u)
    <3> SUFFICES ASSUME o.own # Own, NEW x \in DOMAIN ActionRules(u) PROVE Blame(u, ActionRules(u)[x]) BY DEF UseBlamed
    <3> QED BY <1>4, <2>3, <2>1 DEF Blame, UseTells, ActionUseMade
  <2> HIDE DEF u
  <2> QED BY <2>3, <1>2, <1>4, <2>6 DEF u, UseTells
<1>5. CASE u.form # "action"
  <2> DEFINE list == EntryRules(e, u.id, 0, o.own)
  <2>1. ParameterUseMade(u.entry, e, o.own, Kept) BY <1>1, <1>5 DEF UseMade
  <2>3. /\ Listing(list) /\ Within(list, u.id, 0, {"in", "name", "value"})
        /\ o.own # Own => \A i \in DOMAIN list : list[i].field = "value" /\ e.value = "broken" /\ o.own = From(FALSE)
    <3> HIDE DEF u, e, o
    <3> QED BY <2>1, EntryTells DEF ParameterUseMade, Element
  <2>4. TypedOfUses[j] = list BY <1>2, <1>5
  <2>5. UseBlamed(list, u)
    <3> SUFFICES ASSUME o.own # Own, NEW x \in DOMAIN list PROVE Blame(u, list[x]) BY DEF UseBlamed
    <3>3. TypedParameter(u.entry).value = IF u.entry.value = "absent" THEN "null" ELSE u.entry.value
      BY PlacesOfDocument, AllResolved, <1>5 DEF TypedParameter, ParameterShape
    <3> HIDE DEF list, u
    <3> QED BY <2>3, <2>1, <3>3 DEF Blame, ParameterUseMade
  <2> HIDE DEF list, u
  <2> QED BY <1>5, <2>3, <2>4, <2>5 DEF Within, u
<1> QED BY <1>4, <1>5

LEMMA TypedRound ==
  ASSUME ComponentsInv, componentsPhase = "typed"
  PROVE  Round(TypedReport, TypedOfParameters, TypedOfActions, TypedOfUses)
<1>1. componentsDoc \in ComponentsDocuments BY DEF ComponentsInv
<1>2. /\ \A n \in DOMAIN componentsDoc.parameters :
           Listing(TypedOfParameters[n]) /\ \A x \in DOMAIN TypedOfParameters[n] : TypedOfParameters[n][x].at = n
      /\ \A n \in DOMAIN componentsDoc.actions :
           Listing(TypedOfActions[n]) /\ \A x \in DOMAIN TypedOfActions[n] : TypedOfActions[n][x].at = n
      /\ \A j \in DOMAIN componentsDoc.uses :
           Listing(TypedOfUses[j]) /\ \A x \in DOMAIN TypedOfUses[j] : TypedOfUses[j][x].at = componentsDoc.uses[j].id
  BY <1>1, TypedOfAction, TypedOfParameter, TypedOfUse DEF ComponentTells
<1>5. Round(FlattenSeq(<< FlattenSeq([i \in DOMAIN ParameterNames |-> TypedOfParameters[ParameterNames[i]]]),
                          FlattenSeq([i \in DOMAIN ActionNames |-> TypedOfActions[ActionNames[i]]]),
                          FlattenSeq([i \in DOMAIN componentsDoc.uses |-> TypedOfUses[i]]) >>),
            TypedOfParameters, TypedOfActions, TypedOfUses)
  BY <1>1, <1>2, RoundSpeaks, Zenon
<1> QED BY <1>1, PlacesOfDocument, <1>5 DEF TypedReport, TypedOfParameters, TypedOfActions, TypedOfUses

\* Only a reference that is written is told of before the rules are applied.
LEMMA NoReferenceError ==
  ASSUME ComponentsInv, componentsPhase = "typed", NEW j \in DOMAIN componentsDoc.uses,
         componentsDoc.uses[j].entry.reference = "absent"
  PROVE  ~ReferenceError(componentsDoc.uses[j].id, 0)
<1> DEFINE at == componentsDoc.uses[j].id  d == Diagnostic(at, 0, "reference", "InvalidExpression")
<1> SUFFICES ASSUME NEW i \in DOMAIN componentsReport, componentsReport[i] = d PROVE FALSE BY DEF ReferenceError
<1>1. d.at = at /\ d.nested = 0 /\ d.field = "reference" BY DEF Diagnostic
<1>3. PICK k \in 1..next : d.at = componentsDoc.uses[k].id
                           /\ RaisedBy(componentsDoc.uses[k], d, origin[componentsDoc.uses[k].id].own)
  BY <1>1 DEF Raised, ComponentsInv
<1>4. k \in DOMAIN componentsDoc.uses /\ componentsDoc \in ComponentsDocuments
  BY PlacesOfDocument, ListingDomain DEF ComponentsInv
<1>5. k = j BY <1>4, <1>1, <1>3, PlacesOfDocument DEF UseIds
<1> HIDE DEF d
<1> QED BY <1>1, <1>3, <1>5 DEF RaisedBy

\* What the typed rules tell of an action the document defines.
DefinedTyped(t, d) ==
  /\ raw /\ d.action.type # "absent" => \A field \in ActionFields :
       Tells(t, d.at, 0, field, Misplaced(d, field) /\ ~TextTold(d.action, d.kind, field))
  /\ d.action.type = "absent" => Tells(t, d.at, 0, "type", ~raw)
  /\ \A i \in DOMAIN d.action.parameters : Lacking(d.action.parameters[i]) => Silent(t, d.at, i, "value")

LEMMA TellsOn ==
  ASSUME NEW t, NEW list, NEW at, PlaceTells(t, list, at), NEW nested, NEW field, NEW condition \in BOOLEAN,
         Tells(list, at, nested, field, condition)
  PROVE  Tells(t, at, nested, field, condition)
  BY DEF PlaceTells, Tells

\* What is told of a field with no type: it ends the workflow, and only the lack is told of.
LEMMA TypeTold ==
  ASSUME NEW a, NEW e, NEW nested, NEW kept, ActionMade(a, e, nested, kept), a.type = "absent", NEW kind
  PROVE  (FixedTold(e, kind, "type") <=> ~raw) /\ ~TargetTold(e, kind, "type")
  BY DEF FixedTold, TargetTold, Type, ActionMade

LEMMA MadeLacking ==
  ASSUME NEW a, NEW e, NEW nested, NEW kept, ActionMade(a, e, nested, kept), NEW i \in DOMAIN a.parameters,
         Lacking(a.parameters[i])
  PROVE  i \in DOMAIN e.parameters /\ e.parameters[i].value # "broken"
  BY DEF ActionMade, Element, Lacking

LEMMA DefinedTypedComponent ==
  ASSUME ComponentsInv, componentsPhase = "typed", NEW d, NEW n \in DOMAIN componentsDoc.actions,
         d.at = n, d.kind = componentsDoc.actions[n].kind, d.action = componentsDoc.actions[n], d.use = FALSE,
         NEW t, PlaceTells(t, TypedOfActions[n], n)
  PROVE  DefinedTyped(t, d)
<1> DEFINE list == TypedOfActions[n]  e == resolved[n]  a == d.action  kind == d.kind
<1>1. ComponentTells(list, n) BY TypedOfAction
<1>2. ActionMade(a, e, origin[n].nested, Kept) BY AllResolved DEF ComponentMade
<1>4. ASSUME NEW field \in ActionFields \union {"type"} PROVE Tells(list, n, 0, field, FixedTold(e, kind, field))
  BY <1>1, <1>4 DEF ComponentTells
<1>5. \A i \in DOMAIN e.parameters : e.parameters[i].value # "broken" => Silent(list, n, i, "value")
  BY <1>1 DEF ComponentTells
<1> HIDE DEF list, e
<1>6. ASSUME raw, a.type # "absent", NEW field \in ActionFields
      PROVE  Tells(t, d.at, 0, field, Misplaced(d, field) /\ ~TextTold(d.action, d.kind, field))
  <2> DEFINE F == FixedTold(e, kind, field)  M == Misplaced(d, field) /\ ~TextTold(d.action, d.kind, field)
  <2>2. F <=> M BY <1>2, AllResolved, PlacesOfDocument, <1>6, FieldShared
  <2>3. Tells(list, n, 0, field, F) BY <1>4
  <2>4. F \in BOOLEAN BY DEF FixedTold
  <2> HIDE DEF F, M
  <2> QED BY <2>2, <2>4, <2>3, TellsOn DEF M, list
<1>7. ASSUME a.type = "absent" PROVE Tells(t, d.at, 0, "type", ~raw)
  <2> DEFINE F == FixedTold(e, kind, "type")
  <2> HIDE DEF F
  <2> QED BY <1>2, <1>7, TypeTold, <1>4, TellsOn DEF F, Tells, list, FixedTold
<1>8. ASSUME NEW i \in DOMAIN a.parameters, Lacking(a.parameters[i]) PROVE Silent(t, d.at, i, "value")
  BY <1>5, <1>2, <1>8, MadeLacking DEF PlaceTells, list
<1> QED BY <1>6, <1>7, <1>8 DEF DefinedTyped

LEMMA DefinedTypedUse ==
  ASSUME ComponentsInv, componentsPhase = "typed", NEW d, NEW j \in DOMAIN componentsDoc.uses,
         componentsDoc.uses[j].form = "action", componentsDoc.uses[j].entry.reference = "absent",
         d.at = componentsDoc.uses[j].id, d.kind = componentsDoc.uses[j].kind, d.action = componentsDoc.uses[j].entry,
         d.use = TRUE, NEW t, PlaceTells(t, TypedOfUses[j], componentsDoc.uses[j].id)
  PROVE  DefinedTyped(t, d)
<1> DEFINE u == componentsDoc.uses[j]  n == u.id  list == TypedOfUses[j]  e == resolved[n]  a == d.action  kind == d.kind
<1>1. UseTells(list, u) BY TypedOfUse
<1>2. origin[n].own = Own /\ ActionMade(a, e, origin[n].nested, Kept) BY AllResolved DEF UseMade, ActionUseMade
<1>4. ~ReferenceError(n, 0) BY NoReferenceError
<1>5. ASSUME NEW field \in ActionFields \union {"type"}
      PROVE  Tells(list, n, 0, field, FixedTold(e, kind, field) \/ TargetTold(e, kind, field))
  BY <1>1, <1>2, <1>4, <1>5 DEF UseTells
<1>6. \A i \in DOMAIN e.parameters : e.parameters[i].value # "broken" => Silent(list, n, i, "value")
  BY <1>1, <1>2, <1>4 DEF UseTells
<1> HIDE DEF list, e
<1>7. ASSUME raw, a.type # "absent", NEW field \in ActionFields
      PROVE  Tells(t, d.at, 0, field, Misplaced(d, field) /\ ~TextTold(d.action, d.kind, field))
  <2> DEFINE F == FixedTold(e, kind, field) \/ TargetTold(e, kind, field)
             M == Misplaced(d, field) /\ ~TextTold(d.action, d.kind, field)
  <2>2. F <=> M BY <1>2, AllResolved, PlacesOfDocument, <1>7, FieldShared
  <2>3. Tells(list, n, 0, field, F) BY <1>5
  <2> HIDE DEF F, M
  <2> QED BY <2>2, <2>3, TellsOn DEF M, list
<1>8. ASSUME a.type = "absent" PROVE Tells(t, d.at, 0, "type", ~raw)
  <2> DEFINE F == FixedTold(e, kind, "type") \/ TargetTold(e, kind, "type")
  <2>1. F <=> ~raw BY <1>2, <1>8, TypeTold
  <2>2. Tells(list, n, 0, "type", F) BY <1>5
  <2>3. F \in BOOLEAN OBVIOUS
  <2> HIDE DEF F
  <2> QED BY <2>1, <2>2, <2>3, TellsOn DEF Tells, list
<1>9. ASSUME NEW i \in DOMAIN a.parameters, Lacking(a.parameters[i]) PROVE Silent(t, d.at, i, "value")
  BY <1>6, <1>2, <1>9, MadeLacking DEF PlaceTells, list
<1> QED BY <1>7, <1>8, <1>9 DEF DefinedTyped

LEMMA OwnerOfUse ==
  ASSUME componentsDoc \in ComponentsDocuments, NEW i \in DOMAIN componentsDoc.uses, NEW j \in DOMAIN componentsDoc.uses,
         componentsDoc.uses[i].id = componentsDoc.uses[j].id
  PROVE  i = j
  BY PlacesOfDocument DEF UseIds

LEMMA UseApart ==
  ASSUME componentsDoc \in ComponentsDocuments, NEW j \in DOMAIN componentsDoc.uses
  PROVE  componentsDoc.uses[j].id \notin DOMAIN componentsDoc.parameters \union DOMAIN componentsDoc.actions
  BY PlacesOfDocument DEF UseIds

\* A round blames no use for what is wrong with a component if what it reports of each use
\* does not.
LEMMA RoundBlameless ==
  ASSUME componentsDoc \in ComponentsDocuments, NEW t, NEW p, NEW a, NEW u, Round(t, p, a, u),
         \A j \in DOMAIN componentsDoc.uses : UseBlamed(u[j], componentsDoc.uses[j])
  PROVE  Blameless(t)
<1> SUFFICES ASSUME NEW j \in DOMAIN componentsDoc.uses, origin[componentsDoc.uses[j].id].own # Own,
                    NEW x \in DOMAIN t, t[x].at = componentsDoc.uses[j].id
             PROVE  Blame(componentsDoc.uses[j], t[x])
  BY DEF Blameless
<1>2. PICK k \in DOMAIN componentsDoc.uses : t[x].at = componentsDoc.uses[k].id /\ OneOf(t, x, u[k])
  BY UseApart DEF Round
<1>4. PICK y \in DOMAIN u[j] : t[x] = u[j][y] BY <1>2, OwnerOfUse DEF OneOf
<1> QED BY <1>4 DEF UseBlamed

LEMMA TypedRules ==
  ASSUME ComponentsInv, componentsPhase = "typed", NEW t, t = TypedReport
  PROVE  /\ Listing(t) /\ Blameless(t) /\ \A d \in Defined : DefinedTyped(t, d)
         /\ \A n \in DOMAIN componentsDoc.parameters : componentsDoc.parameters[n].value = "absent" => Silent(t, n, 0, "value")
<1>0. componentsDoc \in ComponentsDocuments BY DEF ComponentsInv
<1>1. Round(t, TypedOfParameters, TypedOfActions, TypedOfUses) BY TypedRound
<1>3. ASSUME NEW d \in Defined PROVE DefinedTyped(t, d)
  <2>1. CASE \E n \in DOMAIN componentsDoc.actions :
               d.at = n /\ d.kind = componentsDoc.actions[n].kind /\ d.action = componentsDoc.actions[n] /\ d.use = FALSE
    <3>1. PICK n \in DOMAIN componentsDoc.actions :
               d.at = n /\ d.kind = componentsDoc.actions[n].kind /\ d.action = componentsDoc.actions[n] /\ d.use = FALSE
      BY <2>1
    <3> QED BY <3>1, <1>1, DefinedTypedComponent DEF Round
  <2>2. CASE \E j \in DOMAIN componentsDoc.uses : LET u == componentsDoc.uses[j] IN
               /\ u.form = "action" /\ u.entry.reference = "absent"
               /\ d.at = u.id /\ d.kind = u.kind /\ d.action = u.entry /\ d.use = TRUE
    <3>1. PICK j \in DOMAIN componentsDoc.uses : LET u == componentsDoc.uses[j] IN
               /\ u.form = "action" /\ u.entry.reference = "absent"
               /\ d.at = u.id /\ d.kind = u.kind /\ d.action = u.entry /\ d.use = TRUE
      BY <2>2
    <3> QED BY <3>1, <1>1, DefinedTypedUse DEF Round
  <2> QED BY <2>1, <2>2, DefinedWhere
<1>4. ASSUME NEW n \in DOMAIN componentsDoc.parameters, componentsDoc.parameters[n].value = "absent"
      PROVE  Silent(t, n, 0, "value") BY <1>0, <1>4, TypedOfParameter, <1>1 DEF PlaceTells, Round
<1> QED BY <1>1, <1>0, TypedOfUse, RoundBlameless, <1>3, <1>4 DEF Round

\* What resolution has reported says nothing the rules are counted on for.
LEMMA RaisedRules ==
  ASSUME ComponentsInv, componentsPhase = "typed"
  PROVE  /\ Listing(componentsReport) /\ Blameless(componentsReport)
         /\ \A at, nested, field : field \in ActionFields \union {"type"} => Silent(componentsReport, at, nested, field)
         /\ raw => \A at, nested : Silent(componentsReport, at, nested, "value")
<1>1. \A i \in DOMAIN componentsReport : Raised(componentsReport[i]) BY DEF ComponentsInv
<1>2. componentsDoc \in ComponentsDocuments /\ Listing(componentsReport) BY DEF ComponentsInv
<1>3. ASSUME NEW at, NEW nested, NEW field \in ActionFields \union {"type"} PROVE Silent(componentsReport, at, nested, field)
  BY <1>1 DEF Raised, Silent, About, ActionFields
<1>4. ASSUME raw, NEW at, NEW nested PROVE Silent(componentsReport, at, nested, "value")
  BY <1>1, <1>4 DEF Raised, Silent, About
<1>5. Blameless(componentsReport)
  <2> SUFFICES ASSUME NEW j \in DOMAIN componentsDoc.uses, origin[componentsDoc.uses[j].id].own # Own,
                      NEW x \in DOMAIN componentsReport, componentsReport[x].at = componentsDoc.uses[j].id
               PROVE  Blame(componentsDoc.uses[j], componentsReport[x])
    BY DEF Blameless
  <2>2. PICK k \in 1..next : componentsReport[x].at = componentsDoc.uses[k].id
                             /\ RaisedBy(componentsDoc.uses[k], componentsReport[x], origin[componentsDoc.uses[k].id].own)
    BY <1>1, <1>2, UseApart DEF Raised, ComponentsInv
  <2>3. k = j
    <3>3. k \in DOMAIN componentsDoc.uses BY <1>2, PlacesOfDocument, ListingDomain DEF ComponentsInv
    <3> QED BY <1>2, <2>2, <3>3, OwnerOfUse
  <2> QED BY <2>2, <2>3 DEF RaisedBy, Blame, Texts
<1> QED BY <1>2, <1>3, <1>4, <1>5

\* The typed rules after resolution: what is told by then.
LEMMA TypedAdds ==
  ASSUME ComponentsInv, componentsPhase = "typed", NEW r, r = componentsReport \o TypedReport
  PROVE  /\ Listing(r) /\ Blameless(r)
         /\ raw => TypedTold(r)
         /\ ~raw => AllTold(r)
<1>1. PICK t : t = TypedReport OBVIOUS
<1>2. /\ Listing(t) /\ Blameless(t) /\ \A d \in Defined : DefinedTyped(t, d)
      /\ \A n \in DOMAIN componentsDoc.parameters : componentsDoc.parameters[n].value = "absent" => Silent(t, n, 0, "value")
  BY <1>1, TypedRules
<1>3. /\ Listing(componentsReport) /\ Blameless(componentsReport)
      /\ \A at, nested, field : field \in ActionFields \union {"type"} => Silent(componentsReport, at, nested, field)
      /\ raw => \A at, nested : Silent(componentsReport, at, nested, "value")
  BY RaisedRules
<1>5. /\ Listing(r) /\ Shares(r, componentsReport, t)
      /\ \A at, nested, field :
            /\ Silent(componentsReport, at, nested, field) /\ Silent(t, at, nested, field) => Silent(r, at, nested, field)
            /\ Silent(componentsReport, at, nested, field) /\ Once(t, at, nested, field) => Once(r, at, nested, field)
  BY <1>2, <1>3, <1>1, Joined
<1>7. ASSUME NEW at, NEW field \in ActionFields \union {"type"}, NEW condition \in BOOLEAN, Tells(t, at, 0, field, condition)
      PROVE  Tells(r, at, 0, field, condition)
  BY <1>3, <1>5, <1>7 DEF Tells
<1>8. ASSUME raw PROVE TypedTold(r)
  <2>1. ASSUME NEW d \in Defined, d.action.type # "absent", NEW field \in ActionFields
        PROVE  Tells(r, d.at, 0, field, Misplaced(d, field) /\ ~TextTold(d.action, d.kind, field))
    <3> DEFINE M == Misplaced(d, field) /\ ~TextTold(d.action, d.kind, field)
    <3> HIDE DEF M
    <3> QED BY <1>7, <1>2, <1>8, <2>1 DEF M, DefinedTyped
  <2>2. ASSUME NEW d \in Defined, d.action.type = "absent" PROVE Silent(r, d.at, 0, "type")
    BY <1>3, <1>5, <1>2, <1>8, <2>2 DEF DefinedTyped, Tells
  <2>3. ASSUME NEW d \in Defined, NEW i \in DOMAIN d.action.parameters, Lacking(d.action.parameters[i])
        PROVE  Silent(r, d.at, i, "value") BY <1>3, <1>5, <1>8, <1>2, <2>3 DEF DefinedTyped
  <2>4. ASSUME NEW n \in DOMAIN componentsDoc.parameters, componentsDoc.parameters[n].value = "absent"
        PROVE  Silent(r, n, 0, "value")
    BY <1>2, <1>3, <1>5, <1>8, <2>4
  <2> QED BY <2>1, <2>2, <2>3, <2>4 DEF TypedTold
<1>9. ASSUME ~raw PROVE AllTold(r)
  <2>1. ASSUME NEW d \in Defined, d.action.type = "absent" PROVE Once(r, d.at, 0, "type")
    BY <1>3, <1>5, <1>2, <1>9, <2>1 DEF DefinedTyped, Tells
  <2> QED BY <1>9, <2>1 DEF AllTold
<1> QED BY <1>5, <1>2, <1>3, <1>8, <1>9 DEF Shares, Blameless

\* What the rules of the text report of each place.
TextOfParameters == [n \in DOMAIN componentsDoc.parameters |-> TextParameterReport(n)]
TextOfActions == [n \in DOMAIN componentsDoc.actions |-> TextComponentReport(n)]
TextOfUses == [j \in DOMAIN componentsDoc.uses |-> TextUseReport(componentsDoc.uses[j])]

LEMMA TextOfParameter ==
  ASSUME NEW n \in DOMAIN componentsDoc.parameters
  PROVE  /\ Listing(TextOfParameters[n]) /\ \A x \in DOMAIN TextOfParameters[n] : TextOfParameters[n][x].at = n
         /\ componentsDoc.parameters[n].value = "absent" => Once(TextOfParameters[n], n, 0, "value")
<1> DEFINE c == componentsDoc.parameters[n].value = "absent"
           list == When(c, Diagnostic(n, 0, "value", "MissingRequiredField"))
<1>1. TextOfParameters[n] = list BY DEF TextOfParameters, TextParameterReport
<1>2. c \in BOOLEAN OBVIOUS
<1> HIDE DEF c
<1>3. Listing(list) /\ Within(list, n, 0, {"value"}) /\ Tells(list, n, 0, "value", c) BY <1>2, RuleOf
<1> HIDE DEF list
<1> QED BY <1>1, <1>3 DEF Within, Tells, c

LEMMA TextOfAction ==
  ASSUME componentsDoc \in ComponentsDocuments, NEW n \in DOMAIN componentsDoc.actions
  PROVE  TextTells(TextOfActions[n], componentsDoc.actions[n], componentsDoc.actions[n].kind, n, TRUE)
  BY PlacesOfDocument, TextActionTells DEF TextOfActions, TextComponentReport, ComponentsAction, ComponentsList,
     Listing

LEMMA TextOfUse ==
  ASSUME ComponentsInv, componentsPhase = "text", NEW j \in DOMAIN componentsDoc.uses
  PROVE  LET u == componentsDoc.uses[j] IN
         /\ Listing(TextOfUses[j]) /\ \A x \in DOMAIN TextOfUses[j] : TextOfUses[j][x].at = u.id
         /\ u.form = "action" => TextTells(TextOfUses[j], u.entry, u.kind, u.id, FALSE)
         /\ UseBlamed(TextOfUses[j], u)
<1> DEFINE u == componentsDoc.uses[j]  e == resolved[u.id]  o == origin[u.id]
<1>1. UseMade(u, e, o, Kept) BY AllResolved
<1>2. TextOfUses[j] = IF u.form = "action" THEN TextAction(u.entry, u.kind, u.id, FALSE) ELSE TextParameter(u.entry, u.id, 0)
  BY DEF TextOfUses, TextUseReport
<1>4. "text" \in Texts BY DEF Texts
<1>5. CASE u.form = "action"
  <2> DEFINE list == TextAction(u.entry, u.kind, u.id, FALSE)
  <2>2. Listing(u.entry.parameters)
    BY <1>5, AllResolved, PlacesOfDocument DEF ComponentsAction, ComponentsList, Listing
  <2>3. TextTells(list, u.entry, u.kind, u.id, FALSE)
    <3> HIDE DEF u
    <3> QED BY <2>2, TextActionTells
  <2>4. TextOfUses[j] = list BY <1>2, <1>5
  <2>5. UseBlamed(list, u)
    <3> SUFFICES ASSUME o.own # Own, NEW x \in DOMAIN list PROVE Blame(u, list[x]) BY DEF UseBlamed
    <3> HIDE DEF list, u
    <3> QED BY <1>4, <2>3, <1>1, <1>5 DEF Blame, TextTells, ActionUseMade, ComponentsInv, UseMade
  <2> HIDE DEF list, u
  <2> QED BY <2>3, <2>4, <2>5 DEF u, TextTells
<1>6. CASE u.form # "action"
  <2> DEFINE list == TextParameter(u.entry, u.id, 0)
  <2>2. /\ Listing(list) /\ Within(list, u.id, 0, {"value"})
        /\ u.entry.reference # "absent" => \A i \in DOMAIN list : u.entry.value \notin {"absent"} \union Texts
    <3> HIDE DEF u
    <3> QED BY TextParameterTells
  <2>3. TextOfUses[j] = list BY <1>2, <1>6
  <2>4. UseBlamed(list, u)
    <3> SUFFICES ASSUME o.own # Own, NEW x \in DOMAIN list PROVE Blame(u, list[x]) BY DEF UseBlamed
    <3> HIDE DEF list, u
    <3> QED BY <1>4, <2>2, <1>1, <1>6 DEF Blame, Within, ParameterUseMade, UseMade
  <2> HIDE DEF list, u
  <2> QED BY <1>6, <2>2, <2>3, <2>4 DEF Within, u
<1> QED BY <1>5, <1>6

LEMMA TextRound ==
  ASSUME ComponentsInv, componentsPhase = "text"
  PROVE  Round(TextReport, TextOfParameters, TextOfActions, TextOfUses)
<1>1. componentsDoc \in ComponentsDocuments BY DEF ComponentsInv
<1>2. /\ \A n \in DOMAIN componentsDoc.parameters :
           Listing(TextOfParameters[n]) /\ \A x \in DOMAIN TextOfParameters[n] : TextOfParameters[n][x].at = n
      /\ \A n \in DOMAIN componentsDoc.actions :
           Listing(TextOfActions[n]) /\ \A x \in DOMAIN TextOfActions[n] : TextOfActions[n][x].at = n
      /\ \A j \in DOMAIN componentsDoc.uses :
           Listing(TextOfUses[j]) /\ \A x \in DOMAIN TextOfUses[j] : TextOfUses[j][x].at = componentsDoc.uses[j].id
  BY <1>1, TextOfAction, TextOfParameter, TextOfUse DEF TextTells
<1>5. Round(FlattenSeq(<< FlattenSeq([i \in DOMAIN ParameterNames |-> TextOfParameters[ParameterNames[i]]]),
                          FlattenSeq([i \in DOMAIN ActionNames |-> TextOfActions[ActionNames[i]]]),
                          FlattenSeq([i \in DOMAIN componentsDoc.uses |-> TextOfUses[i]]) >>),
            TextOfParameters, TextOfActions, TextOfUses)
  BY <1>1, <1>2, RoundSpeaks, Zenon
<1> QED BY <1>1, PlacesOfDocument, <1>5 DEF TextReport, TextOfParameters, TextOfActions, TextOfUses

\* What the rules of the text tell of an action the document defines.
DefinedText(t, d) ==
  /\ Tells(t, d.at, 0, "type", d.action.type = "absent")
  /\ d.action.type # "absent" => \A field \in ActionFields : Tells(t, d.at, 0, field, TextTold(d.action, d.kind, field))
  /\ \A i \in DOMAIN d.action.parameters : Lacking(d.action.parameters[i]) => Once(t, d.at, i, "value")

LEMMA DefinedTextOf ==
  ASSUME NEW d, NEW t, NEW list, NEW component \in BOOLEAN, PlaceTells(t, list, d.at),
         TextTells(list, d.action, d.kind, d.at, component), component \/ d.action.reference = "absent"
  PROVE  DefinedText(t, d)
<1> DEFINE a == d.action
<1>1. /\ Tells(list, d.at, 0, "type", a.type = "absent")
      /\ a.type # "absent" => \A field \in ActionFields : Tells(list, d.at, 0, field, TextTold(a, d.kind, field))
      /\ \A i \in DOMAIN a.parameters :
           a.parameters[i].reference = "absent" /\ a.parameters[i].value = "absent" => Once(list, d.at, i, "value")
  BY DEF TextTells
<1> HIDE DEF a
<1>3. ASSUME a.type # "absent", NEW field \in ActionFields PROVE Tells(t, d.at, 0, field, TextTold(a, d.kind, field))
  <2> DEFINE T == TextTold(a, d.kind, field)
  <2> HIDE DEF T
  <2> QED BY <1>1, <1>3 DEF T, Tells, PlaceTells
<1>4. ASSUME NEW i \in DOMAIN a.parameters, Lacking(a.parameters[i]) PROVE Once(t, d.at, i, "value")
  BY <1>1, <1>4 DEF Lacking, PlaceTells
<1> QED BY <1>1, TellsOn, <1>3, <1>4 DEF a, DefinedText

LEMMA TextRules ==
  ASSUME ComponentsInv, componentsPhase = "text", NEW t, t = TextReport
  PROVE  /\ Listing(t) /\ Blameless(t) /\ \A d \in Defined : DefinedText(t, d)
         /\ \A n \in DOMAIN componentsDoc.parameters : componentsDoc.parameters[n].value = "absent" => Once(t, n, 0, "value")
<1>0. componentsDoc \in ComponentsDocuments BY DEF ComponentsInv
<1>1. Round(t, TextOfParameters, TextOfActions, TextOfUses) BY TextRound
<1>3. ASSUME NEW d \in Defined PROVE DefinedText(t, d)
  <2>1. CASE \E n \in DOMAIN componentsDoc.actions :
               d.at = n /\ d.kind = componentsDoc.actions[n].kind /\ d.action = componentsDoc.actions[n] /\ d.use = FALSE
    <3>1. PICK n \in DOMAIN componentsDoc.actions :
               d.at = n /\ d.kind = componentsDoc.actions[n].kind /\ d.action = componentsDoc.actions[n] /\ d.use = FALSE
      BY <2>1
    <3> QED BY <3>1, <1>1, <1>0, TextOfAction, DefinedTextOf DEF Round
  <2>2. CASE \E j \in DOMAIN componentsDoc.uses : LET u == componentsDoc.uses[j] IN
               /\ u.form = "action" /\ u.entry.reference = "absent"
               /\ d.at = u.id /\ d.kind = u.kind /\ d.action = u.entry /\ d.use = TRUE
    <3>1. PICK j \in DOMAIN componentsDoc.uses : LET u == componentsDoc.uses[j] IN
               /\ u.form = "action" /\ u.entry.reference = "absent"
               /\ d.at = u.id /\ d.kind = u.kind /\ d.action = u.entry /\ d.use = TRUE
      BY <2>2
    <3> QED BY <3>1, <1>1, TextOfUse, DefinedTextOf DEF Round
  <2> QED BY <2>1, <2>2, DefinedWhere
<1>4. ASSUME NEW n \in DOMAIN componentsDoc.parameters, componentsDoc.parameters[n].value = "absent"
      PROVE  Once(t, n, 0, "value") BY <1>4, TextOfParameter, <1>1 DEF PlaceTells, Round
<1> QED BY <1>1, <1>0, TextOfUse, RoundBlameless, <1>3, <1>4 DEF Round

\* What the text tells of is misplaced.
LEMMA TextToldMisplaced ==
  ASSUME NEW d, NEW field \in ActionFields, ComponentsAction(d.action), TextTold(d.action, d.kind, field)
  PROVE  Misplaced(d, field)
<1> DEFINE a == d.action  kind == d.kind
<1>3. TextTold(a, kind, field) OBVIOUS
<1>4. CASE field \in {"retryAfter", "retryLimit"} BY <1>3, <1>4 DEF Defaulted, TextTold, Misplaced
<1>5. CASE field \in {"workflowId", "stepId"} BY <1>3, <1>5 DEF Defaulted, Misplaced, TextTold
<1> QED BY <1>4, <1>5 DEF ActionFields

LEMMA DefinedAction ==
  ASSUME componentsDoc \in ComponentsDocuments, NEW d \in Defined
  PROVE  ComponentsAction(d.action)
<1>1. /\ \A n \in DOMAIN componentsDoc.actions : ComponentsAction(componentsDoc.actions[n])
      /\ \A i \in DOMAIN componentsDoc.uses :
            componentsDoc.uses[i].form = "action" => ComponentsAction(componentsDoc.uses[i].entry)
  BY PlacesOfDocument
<1> QED BY <1>1, DefinedWhere

\* The text tells what the typed rules have left, and nothing they have told.
LEMMA TextAdds ==
  ASSUME ComponentsInv, componentsPhase = "text", NEW r, r = componentsReport \o TextReport
  PROVE  Listing(r) /\ Blameless(r) /\ AllTold(r)
<1>1. PICK t : t = TextReport OBVIOUS
<1>2. /\ Listing(t) /\ Blameless(t) /\ \A d \in Defined : DefinedText(t, d)
      /\ \A n \in DOMAIN componentsDoc.parameters : componentsDoc.parameters[n].value = "absent" => Once(t, n, 0, "value")
  BY <1>1, TextRules
<1>3. Listing(componentsReport) /\ Blameless(componentsReport) /\ TypedTold(componentsReport) BY DEF ComponentsInv
<1>5. /\ Listing(r) /\ Shares(r, componentsReport, t)
      /\ \A at, nested, field :
            /\ Silent(componentsReport, at, nested, field) /\ Silent(t, at, nested, field) => Silent(r, at, nested, field)
            /\ Once(componentsReport, at, nested, field) /\ Silent(t, at, nested, field) => Once(r, at, nested, field)
            /\ Silent(componentsReport, at, nested, field) /\ Once(t, at, nested, field) => Once(r, at, nested, field)
  BY <1>2, <1>3, <1>1, Joined
<1>6. Blameless(r) BY <1>2, <1>3, <1>5 DEF Shares, Blameless
<1>7. ASSUME NEW d \in Defined, d.action.type = "absent" PROVE Once(r, d.at, 0, "type")
  BY <1>5, <1>2, <1>7, <1>3 DEF DefinedText, Tells, TypedTold
<1>8. ASSUME NEW d \in Defined, d.action.type # "absent", NEW field \in ActionFields
      PROVE  Tells(r, d.at, 0, field, Misplaced(d, field))
  <2> DEFINE M == Misplaced(d, field)  T == TextTold(d.action, d.kind, field)
  <2>1. Tells(componentsReport, d.at, 0, field, M /\ ~T) BY <1>3, <1>8 DEF TypedTold
  <2>2. Tells(t, d.at, 0, field, T) BY <1>2, <1>8 DEF DefinedText
  <2>3. T => M BY <1>8, DefinedAction, TextToldMisplaced DEF ComponentsInv
  <2> HIDE DEF M, T
  <2> QED BY <1>5, <2>1, <2>2, <2>3 DEF M, Tells
<1>9. ASSUME NEW d \in Defined, NEW i \in DOMAIN d.action.parameters, Lacking(d.action.parameters[i])
      PROVE  Once(r, d.at, i, "value") BY <1>5, <1>2, <1>9, <1>3 DEF DefinedText, TypedTold
<1>10. ASSUME NEW n \in DOMAIN componentsDoc.parameters, componentsDoc.parameters[n].value = "absent"
       PROVE  Once(r, n, 0, "value") BY <1>5, <1>2, <1>3, <1>10 DEF TypedTold
<1> QED BY <1>5, <1>6, <1>7, <1>8, <1>9, <1>10 DEF AllTold

(***************************************************************************)
(* What a step leaves as it is                                             *)
(***************************************************************************)
LEMMA SomethingKept ==
  ASSUME NEW a, NEW b, Listing(a), Listing(b), a # << >> \/ b # << >>
  PROVE  a \o b # << >>
<1>0. PICK c : c = a \o b OBVIOUS
<1>1. /\ Listing(a \o b) /\ Shares(a \o b, a, b)
      /\ \A i \in DOMAIN a : \E x \in DOMAIN (a \o b) : (a \o b)[x] = a[i]
      /\ \A i \in DOMAIN b : \E x \in DOMAIN (a \o b) : (a \o b)[x] = b[i]
      /\ \A at, nested, field :
            /\ Silent(a, at, nested, field) /\ Silent(b, at, nested, field) => Silent(a \o b, at, nested, field)
            /\ Once(a, at, nested, field) /\ Silent(b, at, nested, field) => Once(a \o b, at, nested, field)
            /\ Silent(a, at, nested, field) /\ Once(b, at, nested, field) => Once(a \o b, at, nested, field)
  BY Joined, Zenon
<1> QED BY <1>0, <1>1, ListingNotEmpty

LEMMA CleanStays ==
  ASSUME NEW e, NEW k1, NEW k2, k1 = TRUE => k2 = TRUE, Clean(e, k1)
  PROVE  Clean(e, k2)
  BY DEF Clean

LEMMA ElementStays ==
  ASSUME NEW p, NEW e, NEW o, NEW k1, NEW k2, k1 = TRUE => k2 = TRUE, Element(p, e, o, k1)
  PROVE  Element(p, e, o, k2)
  BY CleanStays DEF Element

LEMMA ActionMadeStays ==
  ASSUME NEW a, NEW e, NEW nested, NEW k1, NEW k2, k1 = TRUE => k2 = TRUE, ActionMade(a, e, nested, k1)
  PROVE  ActionMade(a, e, nested, k2)
  BY ElementStays DEF ActionMade

LEMMA ComponentStays ==
  ASSUME NEW a, NEW e, NEW o, NEW k1, NEW k2, k1 = TRUE => k2 = TRUE, ComponentMade(a, e, o, k1)
  PROVE  ComponentMade(a, e, o, k2)
  BY ActionMadeStays, CleanStays DEF ComponentMade, ActionUsable

LEMMA ActionUseStays ==
  ASSUME NEW a, NEW e, NEW own, NEW nested, NEW k1, NEW k2, k1 = TRUE => k2 = TRUE, raw' = raw,
         ActionUseMade(a, e, own, nested, k1)
  PROVE  ActionUseMade(a, e, own, nested, k2)'
  BY ActionMadeStays, CleanStays DEF ActionUseMade

LEMMA ParameterUseStays ==
  ASSUME NEW p, NEW e, NEW own, NEW k1, NEW k2, k1 = TRUE => k2 = TRUE, raw' = raw, componentsDoc' = componentsDoc,
         ParameterUseMade(p, e, own, k1)
  PROVE  ParameterUseMade(p, e, own, k2)'
  BY ElementStays DEF ParameterUseMade

LEMMA UseStays ==
  ASSUME NEW u, NEW e, NEW o, NEW k1, NEW k2, k1 = TRUE => k2 = TRUE, raw' = raw, componentsDoc' = componentsDoc,
         UseMade(u, e, o, k1)
  PROVE  UseMade(u, e, o, k2)'
<1>1. CASE u.form = "action" BY <1>1, ActionUseStays DEF UseMade
<1>2. CASE u.form # "action" BY <1>2, ParameterUseStays DEF UseMade
<1> QED BY <1>1, <1>2

LEMMA KeptIsBoolean == Kept \in BOOLEAN
  BY DEF Kept

LEMMA MadeKept ==
  ASSUME MadeInv, UNCHANGED <<componentsDoc, raw, ready, next, resolved, origin>>, Kept => Kept'
  PROVE  MadeInv'
<1>1. PICK k1 : k1 = Kept OBVIOUS
<1>2. PICK k2 : k2 = Kept' OBVIOUS
<1>3. k1 = TRUE => k2 = TRUE BY <1>1, <1>2, KeptIsBoolean DEF Kept
<1>4. ASSUME NEW n \in ready PROVE ComponentMade(componentsDoc.actions[n], resolved[n], origin[n], k2)
  BY <1>3, <1>1, ComponentStays DEF MadeInv
<1>5. ASSUME NEW j \in 1..next
      PROVE  \E u, e, o : /\ u = componentsDoc.uses[j] /\ e = resolved[u.id] /\ o = origin[u.id]
                          /\ UseMade(u, e, o, k2)'
  <2>1. PICK u, e, o : u = componentsDoc.uses[j] /\ e = resolved[u.id] /\ o = origin[u.id] OBVIOUS
  <2> QED BY <2>1, <1>3, <1>1, UseStays DEF MadeInv
<1>6. ASSUME NEW n \in ready' PROVE ComponentMade(componentsDoc.actions[n], resolved[n], origin[n], Kept)'
  <2>1. PICK a, e, o : a = componentsDoc.actions[n] /\ e = resolved[n] /\ o = origin[n] OBVIOUS
  <2> QED BY <1>2, <1>4, <2>1
<1>7. ASSUME NEW j \in (1..next)' PROVE (LET u == componentsDoc.uses[j] IN UseMade(u, resolved[u.id], origin[u.id], Kept))'
  <2>1. PICK u, e, o : /\ u = componentsDoc.uses[j] /\ e = resolved[u.id] /\ o = origin[u.id] /\ UseMade(u, e, o, k2)'
    BY <1>5
  <2> QED BY <1>2, <2>1
<1> QED BY <1>6, <1>7 DEF MadeInv

LEMMA SameDocument ==
  ASSUME UNCHANGED <<componentsDoc, raw, origin>>, NEW report
  PROVE  /\ Blameless(report) => Blameless(report)'
         /\ TypedTold(report) => TypedTold(report)'
         /\ AllTold(report) => AllTold(report)'
<1>1. Defined' = Defined BY DEF Defined
<1>2. ASSUME NEW d, NEW field PROVE Misplaced(d, field)' <=> Misplaced(d, field) BY DEF Misplaced
<1>3. ASSUME Blameless(report) PROVE Blameless(report)' BY <1>3 DEF Blameless
<1>4. ASSUME NEW d, NEW field, NEW at, Tells(report, at, 0, field, Misplaced(d, field))
      PROVE  Tells(report, at, 0, field, Misplaced(d, field))'
  BY <1>2, <1>4 DEF Tells
<1>5. ASSUME NEW d, NEW field, NEW at,
             Tells(report, at, 0, field, Misplaced(d, field) /\ ~TextTold(d.action, d.kind, field))
      PROVE  Tells(report, at, 0, field, Misplaced(d, field) /\ ~TextTold(d.action, d.kind, field))'
  BY <1>2, <1>5 DEF Tells
<1>6. ASSUME TypedTold(report) PROVE TypedTold(report)' BY <1>1, <1>5, <1>6 DEF TypedTold
<1>7. ASSUME AllTold(report) PROVE AllTold(report)' BY <1>1, <1>4, <1>7 DEF AllTold
<1> QED BY <1>3, <1>6, <1>7

LEMMA ComponentsInvInit == ComponentsInit => ComponentsInv
<1> SUFFICES ASSUME ComponentsInit PROVE ComponentsInv OBVIOUS
<1> QED BY NothingTold, PlacesOfDocument, ListingDomain DEF ComponentsInv, MadeInv, ComponentsInit

\* Where nothing is resolved, what is reported of resolution stays as it is.
LEMMA RaisedKept ==
  ASSUME UNCHANGED <<componentsDoc, raw, ready, next, origin>>, NEW d, Raised(d)
  PROVE  Raised(d)'
  BY DEF Raised, RaisedBy

LEMMA ComponentsStutter ==
  ASSUME ComponentsInv, UNCHANGED componentsVars
  PROVE  ComponentsInv'
<1>1. UNCHANGED <<componentsDoc, raw, ready, next, resolved, origin, componentsReport, componentsPhase>> BY DEF componentsVars
<1>4. PICK r : r = componentsReport OBVIOUS
<1>5. /\ Blameless(r) => Blameless(r)'
      /\ TypedTold(r) => TypedTold(r)'
      /\ AllTold(r) => AllTold(r)'
  BY <1>1, SameDocument
<1>7. componentsPhase \in {"resolve", "failed", "typed"} => \A i \in DOMAIN r : Raised(r[i])'
  BY <1>1, <1>4, RaisedKept DEF ComponentsInv
<1>8. r = componentsReport' BY <1>1, <1>4
<1>10. (componentsPhase = "text" => raw /\ TypedTold(componentsReport) /\ Blameless(componentsReport))'
  BY <1>1, <1>8, <1>5, <1>4 DEF ComponentsInv
<1>11. (componentsPhase = "done" => AllTold(componentsReport) /\ Blameless(componentsReport))'
  BY <1>1, <1>8, <1>5, <1>4 DEF ComponentsInv
<1> QED BY <1>1, MadeKept, <1>7, <1>8, <1>10, <1>11 DEF ComponentsInv, Listing, Kept

LEMMA ComponentsResolvedInv ==
  ASSUME ComponentsInv, ComponentsResolved
  PROVE  ComponentsInv'
<1>4. PICK r : r = componentsReport OBVIOUS
<1> QED BY MadeKept, <1>4, RaisedKept DEF ComponentsInv, Listing, Kept, ComponentsResolved

LEMMA ValidateTypedInv ==
  ASSUME ComponentsInv, ValidateTyped
  PROVE  ComponentsInv'
<1>1. /\ componentsPhase = "typed" /\ componentsReport' = componentsReport \o TypedReport
      /\ componentsPhase' = IF raw THEN "text" ELSE "done"
      /\ UNCHANGED <<componentsDoc, raw, ready, next, resolved, origin>>
  BY DEF ValidateTyped
<1>2. PICK r : r = componentsReport \o TypedReport OBVIOUS
<1>3. Listing(r) /\ Blameless(r) /\ (raw => TypedTold(r)) /\ (~raw => AllTold(r)) BY <1>1, <1>2, TypedAdds
<1>4. Kept => Kept'
  <2>4. componentsReport # << >> => componentsReport \o TypedReport # << >>
    <3>1. PICK a, b : a = componentsReport /\ b = TypedReport OBVIOUS
    <3> QED BY <3>1, <1>1, TypedRules, SomethingKept DEF ComponentsInv
  <2> QED BY <1>1, <2>4 DEF Kept
<1>6. /\ Blameless(r)' /\ (raw => TypedTold(r)') /\ (~raw => AllTold(r)') BY <1>1, <1>3, SameDocument
<1>7. r = componentsReport' BY <1>1, <1>2
<1>8. (componentsPhase = "text" => raw /\ TypedTold(componentsReport) /\ Blameless(componentsReport))'
  BY <1>1, <1>6, <1>7
<1>9. (componentsPhase = "done" => AllTold(componentsReport) /\ Blameless(componentsReport))'
  BY <1>1, <1>6, <1>7
<1>11. Listing(componentsReport)' BY <1>3, <1>7 DEF Listing
<1> QED BY <1>1, <1>4, MadeKept, <1>8, <1>9, <1>11 DEF ComponentsInv

LEMMA ValidateTextInv ==
  ASSUME ComponentsInv, ValidateText
  PROVE  ComponentsInv'
<1>1. /\ componentsPhase = "text" /\ componentsReport' = componentsReport \o TextReport
      /\ componentsPhase' = "done"
      /\ UNCHANGED <<componentsDoc, raw, ready, next, resolved, origin>>
  BY DEF ValidateText
<1>2. PICK r : r = componentsReport \o TextReport OBVIOUS
<1>3. Listing(r) /\ Blameless(r) /\ AllTold(r) BY <1>1, <1>2, TextAdds
<1>4. Kept => Kept'
  <2>4. componentsReport # << >> => componentsReport \o TextReport # << >>
    <3>1. PICK a, b : a = componentsReport /\ b = TextReport OBVIOUS
    <3> QED BY <3>1, <1>1, TextRules, SomethingKept DEF ComponentsInv
  <2> QED BY <1>1, <2>4 DEF Kept
<1> QED BY <1>1, <1>4, MadeKept, <1>3, SameDocument, <1>2 DEF ComponentsInv, Listing

(***************************************************************************)
(* The steps of resolution                                                 *)
(***************************************************************************)
\* A component action, once its parameters are resolved.
LEMMA ComponentResolved ==
  ASSUME NEW a, DOMAIN a = DOMAIN NoAction \union {"kind"}, NEW at, NEW r, ListIs(r, a.parameters, at), NEW e,
         e = [TypedAction([f \in DOMAIN NoAction |-> a[f]]) EXCEPT !.parameters = r.entries],
         NEW o, o.nested = r.origins, NEW kept, r.failed = TRUE \/ r.found # << >> => kept = TRUE
  PROVE  ComponentMade(a, e, o, kept)
<1>1. PICK b : b = [f \in DOMAIN NoAction |-> a[f]] OBVIOUS
<1>2. DOMAIN b = DOMAIN NoAction BY <1>1
<1>6. /\ DOMAIN e = DOMAIN NoAction /\ e.parameters = r.entries /\ e.type = b.type
      /\ e.retryAfter = (IF b.retryAfter = "absent" THEN "zero" ELSE b.retryAfter)
      /\ e.retryLimit = (IF b.retryLimit = "null" THEN "absent" ELSE b.retryLimit)
      /\ e.workflowId = (IF b.workflowId = "absent" THEN "empty" ELSE b.workflowId)
      /\ e.stepId = (IF b.stepId = "absent" THEN "empty" ELSE b.stepId)
  <2>1. LET m == [TypedAction(b) EXCEPT !.parameters = r.entries] IN
        /\ DOMAIN m = DOMAIN NoAction /\ m.parameters = r.entries /\ m.type = b.type
        /\ m.reference = TypedReference(b.reference)
        /\ m.retryAfter = (IF b.retryAfter = "absent" THEN "zero" ELSE b.retryAfter)
        /\ m.retryLimit = (IF b.retryLimit = "null" THEN "absent" ELSE b.retryLimit)
        /\ m.workflowId = (IF b.workflowId = "absent" THEN "empty" ELSE b.workflowId)
        /\ m.stepId = (IF b.stepId = "absent" THEN "empty" ELSE b.stepId)
    BY <1>2, TypedActionIs, Zenon
  <2> QED BY <1>1, <2>1
<1>7. ASSUME NEW i \in DOMAIN a.parameters PROVE Element(a.parameters[i], r.entries[i], r.origins[i], kept)
  BY <1>7 DEF ListIs, Element, Clean
<1> QED BY <1>1, <1>6, <1>7 DEF ComponentMade, ActionUsable, Element, ActionMade, NoAction, ListIs

LEMMA ResolveComponentInv ==
  ASSUME ComponentsInv, ResolveComponent
  PROVE  ComponentsInv'
<1>1. PICK name \in DOMAIN componentsDoc.actions \ ready :
        LET list == ListResult(componentsDoc.actions[name].parameters, name) IN
        /\ componentsPhase = "resolve" /\ ready' = ready \union {name}
        /\ resolved' = ComponentsBind(resolved, name, [TypedAction([f \in DOMAIN NoAction |-> componentsDoc.actions[name][f]])
                                                EXCEPT !.parameters = list.entries])
        /\ origin' = ComponentsBind(origin, name, [own |-> Own, nested |-> list.origins])
        /\ componentsReport' = componentsReport \o list.found
        /\ componentsPhase' = IF list.failed THEN "failed" ELSE componentsPhase
        /\ UNCHANGED <<componentsDoc, raw, next>>
  BY DEF ResolveComponent
<1>2. PICK a : a = componentsDoc.actions[name] OBVIOUS
<1>3. PICK r : r = ListResult(a.parameters, name) OBVIOUS
<1>4. PICK e : e = [TypedAction([f \in DOMAIN NoAction |-> a[f]]) EXCEPT !.parameters = r.entries] OBVIOUS
<1>5. PICK o : o = [own |-> Own, nested |-> r.origins] OBVIOUS
<1>6. /\ componentsPhase = "resolve" /\ ready' = ready \union {name}
      /\ resolved' = ComponentsBind(resolved, name, e) /\ origin' = ComponentsBind(origin, name, o)
      /\ componentsReport' = componentsReport \o r.found
      /\ componentsPhase' = (IF r.failed THEN "failed" ELSE componentsPhase)
      /\ componentsDoc' = componentsDoc /\ raw' = raw /\ next' = next
  BY <1>1, <1>2, <1>3, <1>4, <1>5
<1>7. /\ componentsDoc \in ComponentsDocuments /\ raw \in BOOLEAN /\ Listing(componentsReport)
      /\ ready \subseteq DOMAIN componentsDoc.actions /\ next \in 0..Len(componentsDoc.uses)
      /\ next # 0 => ready = DOMAIN componentsDoc.actions
      /\ DOMAIN resolved = ready \union {componentsDoc.uses[i].id : i \in 1..next} /\ DOMAIN origin = DOMAIN resolved
      /\ \A i \in DOMAIN componentsReport : Raised(componentsReport[i])
  BY <1>6 DEF ComponentsInv
<1>8. ComponentsAction(a) /\ DOMAIN a = DOMAIN NoAction \union {"kind"} BY <1>2, <1>7, PlacesOfDocument
<1>9. ListIs(r, a.parameters, name) BY <1>3, <1>8, ResultOfList DEF ComponentsAction
<1>10. next = 0 /\ (1..next) = {} BY <1>7
<1>11. PICK k2 : k2 = Kept' OBVIOUS
<1>12. (r.failed = TRUE \/ r.found # << >> => k2 = TRUE) /\ (Kept => k2 = TRUE)
  <2>2. PICK report : report = componentsReport OBVIOUS
  <2>3. PICK found2 : found2 = r.found OBVIOUS
  <2>6. componentsReport # << >> \/ r.found # << >> => componentsReport' # << >>
    BY <1>6, <2>2, <2>3, <1>7, <1>9, SomethingKept DEF ListIs
  <2> QED BY <2>6, <1>6, <1>11 DEF Kept
<1>13. ComponentMade(a, e, o, k2) BY <1>4, <1>5, <1>8, <1>9, <1>12, ComponentResolved
<1>14. /\ DOMAIN resolved' = DOMAIN resolved \union {name} /\ resolved'[name] = e
       /\ \A k \in DOMAIN resolved : k # name => resolved'[k] = resolved[k]
       /\ DOMAIN origin' = DOMAIN origin \union {name} /\ origin'[name] = o
       /\ \A k \in DOMAIN origin : k # name => origin'[k] = origin[k]
  BY <1>6 DEF ComponentsBind
<1>15. ASSUME NEW n \in ready' PROVE ComponentMade(componentsDoc.actions[n], resolved[n], origin[n], Kept)'
  <2>1. PICK a2, e2, o2 : a2 = (componentsDoc.actions[n])' /\ e2 = (resolved[n])' /\ o2 = (origin[n])' OBVIOUS
  <2>2. ComponentMade(a2, e2, o2, k2)
    <3>1. CASE n = name BY <1>2, <1>6, <1>13, <1>14, <2>1, <3>1
    <3>2. CASE n # name
      <4>3. ComponentMade(a2, e2, o2, Kept) BY <1>6, <1>7, <3>2, <1>14, <2>1 DEF ComponentsInv, MadeInv
      <4> QED BY <4>3, <1>12, ComponentStays
    <3> QED BY <3>1, <3>2
  <2> QED BY <1>11, <2>1, <2>2
<1>16. MadeInv' BY <1>6, <1>10, <1>15 DEF MadeInv
<1>17. PICK report : report = componentsReport' OBVIOUS
<1>18. Listing(report) /\ Shares(report, componentsReport, r.found)
  <2>1. PICK b, c : b = componentsReport /\ c = r.found OBVIOUS
  <2> QED BY <2>1, <1>7, <1>9, <1>6, <1>17, Joined DEF ListIs
<1>19. ASSUME NEW i \in DOMAIN report PROVE Raised(report[i])'
  <2>1. CASE \E k \in DOMAIN componentsReport : report[i] = componentsReport[k]
    BY <1>6, <1>10, <1>7, <2>1 DEF Raised
  <2>2. CASE \E k \in DOMAIN r.found : report[i] = r.found[k] BY <1>6, <1>9, <2>2 DEF Raised, ListIs
  <2> QED BY <1>18, <2>1, <2>2 DEF Shares
<1>20. (\A i \in DOMAIN componentsReport : Raised(componentsReport[i]))' BY <1>17, <1>19
<1>21. Listing(componentsReport)' BY <1>17, <1>18 DEF Listing
<1>22. componentsPhase' \in {"resolve", "failed"} BY <1>6
<1>23. (DOMAIN resolved = ready \union {componentsDoc.uses[i].id : i \in 1..next})' /\ DOMAIN origin' = DOMAIN resolved'
  BY <1>6, <1>7, <1>14
<1>24. ready' \subseteq DOMAIN componentsDoc.actions BY <1>6, <1>7
<1> QED BY <1>6, <1>7, <1>10, <1>16, <1>20, <1>21, <1>22, <1>23, <1>24 DEF ComponentsInv

\* An entry of a list, once it is resolved.
UseShaped(u) ==
  \/ u.form = "action" /\ ComponentsAction(u.entry) /\ DOMAIN u.entry = DOMAIN NoAction
  \/ u.form = "parameter" /\ DOMAIN u.entry = ParameterShape

UseResult(u) == IF u.form = "action" THEN ActionResult(u.entry, u.kind, u.id) ELSE ParameterResult(u.entry, u.id, 0)

UseIs(u, r, o, kept) ==
  /\ Listing(r.found) /\ UseMade(u, r.entry, o, kept)
  /\ \A x \in DOMAIN r.found :
       /\ r.found[x].at = u.id /\ r.found[x].field \in {"reference", "value"}
       /\ raw => r.found[x].field = "reference"
       /\ RaisedBy(u, r.found[x], r.origin)

LEMMA ParameterFailed ==
  ASSUME NEW p, NEW at, NEW nested
  PROVE  ParameterResult(p, at, nested).failed \in BOOLEAN
<1> DEFINE r == ParameterResult(p, at, nested)
<1>1. CASE RejectParameter(p) BY <1>1 DEF ParameterResult
<1>2. CASE ~RejectParameter(p) /\ TypedReference(p.reference) = "empty" BY <1>2 DEF ParameterResult
<1>3. CASE ~RejectParameter(p) /\ TypedReference(p.reference) # "empty" /\ p.reference \notin DOMAIN componentsDoc.parameters
  BY <1>3 DEF ParameterResult
<1>4. CASE ~RejectParameter(p) /\ TypedReference(p.reference) # "empty" /\ p.reference \in DOMAIN componentsDoc.parameters
  BY <1>4 DEF ParameterResult
<1> QED BY <1>1, <1>2, <1>3, <1>4

LEMMA UseResolved ==
  ASSUME ComponentsInv, ready = DOMAIN componentsDoc.actions, NEW u, UseShaped(u), NEW r, r = UseResult(u), NEW o, o.own = r.origin, u.form = "action" => o.nested = r.nested, NEW k1, k1 = Kept,
         NEW k2, k1 = TRUE \/ r.failed = TRUE \/ r.found # << >> => k2 = TRUE
  PROVE  UseIs(u, r, o, k2)
<1>1. CASE u.form = "action"
  <2>1. ComponentsAction(u.entry) /\ DOMAIN u.entry = DOMAIN NoAction BY <1>1 DEF UseShaped
  <2>2. \A n \in DOMAIN componentsDoc.actions : ActionUsable(resolved[n], k1) BY DEF ComponentsInv, MadeInv, ComponentMade
  <2> DEFINE m == ActionResult(u.entry, u.kind, u.id)
  <2>3. /\ Listing(m.found) /\ ActionFound(m, u.entry, u.id)
        /\ ActionUseMade(u.entry, m.entry, m.origin, m.nested, k1 = TRUE \/ m.failed = TRUE \/ m.found # << >>)
    BY <2>1, <2>2, ResultOfAction, Zenon
  <2>4. r = m BY <1>1 DEF UseResult
  <2> HIDE DEF m
  <2>5. PICK k3 : k3 = (k1 = TRUE \/ r.failed = TRUE \/ r.found # << >>) OBVIOUS
  <2> QED
    BY <1>1, <2>3, <2>4, <2>5, ActionMadeStays, CleanStays DEF UseIs, UseMade, ActionFound, RaisedBy, ActionUseMade
<1>2. CASE u.form # "action"
  <2>1. DOMAIN u.entry = ParameterShape /\ r = ParameterResult(u.entry, u.id, 0) BY <1>2 DEF UseShaped, UseResult
  <2>2. ParameterIs(r, u.entry, u.id, 0) BY <2>1, ResultOfParameter
  <2>3. Element(u.entry, r.entry, r.origin, k2)
    <3>1. r.entry.reference = "empty" \/ k2 = TRUE
      <4>1. CASE r.failed = TRUE BY <4>1
      <4>2. CASE r.found # << >> BY <4>2
      <4>3. CASE r.entry.reference = "empty" BY <4>3
      <4> QED BY <2>2, <4>1, <4>2, <4>3, <2>1, ParameterFailed DEF ParameterIs
    <3> QED BY <2>2, <3>1 DEF ParameterIs, Element, Clean
  <2> QED BY <2>2, <1>2, <2>3 DEF ParameterIs, UseIs, RaisedBy, UseMade, ParameterUseMade
<1> QED BY <1>1, <1>2

LEMMA ResolveUseInv ==
  ASSUME ComponentsInv, ResolveUse
  PROVE  ComponentsInv'
<1>1. PICK u : u = componentsDoc.uses[next + 1] OBVIOUS
<1>2. PICK r : r = UseResult(u) OBVIOUS
<1>3. PICK o : o = [own |-> r.origin, nested |-> IF u.form = "action" THEN r.nested ELSE << >>] OBVIOUS
<1>4. /\ componentsPhase = "resolve" /\ ready = DOMAIN componentsDoc.actions /\ next < Len(componentsDoc.uses)
      /\ next' = next + 1
      /\ resolved' = ComponentsBind(resolved, u.id, r.entry) /\ origin' = ComponentsBind(origin, u.id, o)
      /\ componentsReport' = componentsReport \o r.found
      /\ componentsPhase' = (IF r.failed THEN "failed" ELSE componentsPhase)
      /\ componentsDoc' = componentsDoc /\ raw' = raw /\ ready' = ready
  BY <1>1, <1>2, <1>3 DEF ResolveUse, UseResult
<1>5. /\ componentsDoc \in ComponentsDocuments /\ raw \in BOOLEAN /\ Listing(componentsReport)
      /\ ready \subseteq DOMAIN componentsDoc.actions /\ next \in 0..Len(componentsDoc.uses)
      /\ DOMAIN resolved = ready \union {componentsDoc.uses[i].id : i \in 1..next} /\ DOMAIN origin = DOMAIN resolved
      /\ \A i \in DOMAIN componentsReport : Raised(componentsReport[i])
  BY <1>4 DEF ComponentsInv
<1>7. /\ next + 1 \in DOMAIN componentsDoc.uses /\ 1..(next + 1) = (1..next) \union {next + 1} /\ next + 1 \notin 1..next
      /\ \A i \in 1..next : i \in DOMAIN componentsDoc.uses
      /\ next + 1 \in 0..Len(componentsDoc.uses) BY <1>4, <1>5, PlacesOfDocument, ListingDomain
<1>8. UseShaped(u) BY <1>1, <1>7, <1>5, PlacesOfDocument DEF UseShaped
<1>9. /\ \A i \in 1..next : componentsDoc.uses[i].id # u.id
      /\ \A n \in DOMAIN componentsDoc.actions : n # u.id
  <2>1. ASSUME NEW i \in 1..next PROVE componentsDoc.uses[i].id # u.id
    BY <1>1, <1>5, <1>7, <2>1, OwnerOfUse
  <2> QED BY <2>1, <1>1, <1>5, <1>7, UseApart
<1>10. PICK k1 : k1 = Kept OBVIOUS
<1>11. PICK k2 : k2 = Kept' OBVIOUS
<1>12. Listing(r.found)
  <2>1. o.own = r.origin /\ (u.form = "action" => o.nested = r.nested) BY <1>3
  <2>2. k1 = TRUE \/ r.failed = TRUE \/ r.found # << >> => TRUE = TRUE OBVIOUS
  <2>3. UseIs(u, r, o, TRUE) BY <1>2, <1>4, <1>8, <1>10, <2>1, <2>2, UseResolved, Zenon
  <2> QED BY <2>3 DEF UseIs
<1>13. k1 = TRUE \/ r.failed = TRUE \/ r.found # << >> => k2 = TRUE
  <2>2. PICK report : report = componentsReport OBVIOUS
  <2>3. PICK found2 : found2 = r.found OBVIOUS
  <2>6. componentsReport # << >> \/ r.found # << >> => componentsReport' # << >>
    BY <1>4, <2>2, <2>3, <1>5, <1>12, SomethingKept
  <2> QED BY <2>6, <1>4, <1>10, <1>11 DEF Kept
<1>14. /\ UseMade(u, r.entry, o, k2)
       /\ \A x \in DOMAIN r.found :
            /\ r.found[x].at = u.id /\ r.found[x].field \in {"reference", "value"}
            /\ raw => r.found[x].field = "reference"
            /\ RaisedBy(u, r.found[x], r.origin)
  <2>1. o.own = r.origin /\ (u.form = "action" => o.nested = r.nested) BY <1>3
  <2>2. UseIs(u, r, o, k2) BY <1>2, <1>4, <1>8, <1>10, <1>13, <2>1, UseResolved, Zenon
  <2> QED BY <2>2 DEF UseIs
<1>15. /\ DOMAIN resolved' = DOMAIN resolved \union {u.id} /\ resolved'[u.id] = r.entry
       /\ \A k \in DOMAIN resolved : k # u.id => resolved'[k] = resolved[k]
       /\ DOMAIN origin' = DOMAIN origin \union {u.id} /\ origin'[u.id] = o
       /\ \A k \in DOMAIN origin : k # u.id => origin'[k] = origin[k]
  BY <1>4 DEF ComponentsBind
<1>16. ASSUME NEW n \in ready' PROVE ComponentMade(componentsDoc.actions[n], resolved[n], origin[n], Kept)'
  <2>1. PICK a2, e2, o2 : a2 = (componentsDoc.actions[n])' /\ e2 = (resolved[n])' /\ o2 = (origin[n])' OBVIOUS
  <2>4. ComponentMade(a2, e2, o2, k1) BY <1>10, <1>4, <1>5, <1>9, <1>15, <2>1 DEF ComponentsInv, MadeInv
  <2> QED BY <1>11, <2>1, <1>13, <2>4, ComponentStays
<1>17. ASSUME NEW j \in (1..next)'
       PROVE  (LET u2 == componentsDoc.uses[j] IN UseMade(u2, resolved[u2.id], origin[u2.id], Kept))'
  <2>1. PICK u2, e2, o2 : /\ u2 = componentsDoc.uses[j] /\ e2 = (resolved[componentsDoc.uses[j].id])'
                          /\ o2 = (origin[componentsDoc.uses[j].id])'
    OBVIOUS
  <2>3. UseMade(u2, e2, o2, k2)'
    <3>1. CASE j = next + 1
      <4>2. UseMade(u2, e2, o2, k2) BY <1>14, <1>1, <1>4, <1>15, <2>1, <3>1
      <4> QED BY <1>4, <4>2, UseStays
    <3>2. CASE j # next + 1
      <4>1. j \in 1..next BY <1>4, <1>7, <3>2
      <4>3. e2 = resolved[u2.id] /\ o2 = origin[u2.id] BY <1>4, <1>15, <2>1, <1>5, <1>9, <4>1
      <4>4. UseMade(u2, e2, o2, k1) BY <1>10, <2>1, <4>1, <4>3 DEF ComponentsInv, MadeInv
      <4> QED BY <1>4, <1>13, <4>4, UseStays
    <3> QED BY <3>1, <3>2
  <2> QED BY <1>11, <1>4, <2>1, <2>3
<1>18. MadeInv' BY <1>16, <1>17 DEF MadeInv
<1>19. PICK report : report = componentsReport' OBVIOUS
<1>20. Listing(report) /\ Shares(report, componentsReport, r.found)
  <2>1. PICK b, c : b = componentsReport /\ c = r.found OBVIOUS
  <2> QED BY <2>1, <1>5, <1>12, <1>4, <1>19, Joined
<1>21. ASSUME NEW i \in DOMAIN report PROVE Raised(report[i])'
  <2> PICK d : d = report[i] OBVIOUS
  <2>1. CASE \E k \in DOMAIN componentsReport : d = componentsReport[k]
    <3>1. Raised(d) BY <1>5, <2>1
    <3>2. CASE d.nested # 0 /\ d.at \in ready BY <1>4, <3>1, <3>2 DEF Raised
    <3>3. CASE \E j \in 1..next : LET u2 == componentsDoc.uses[j] IN d.at = u2.id /\ RaisedBy(u2, d, origin[u2.id].own)
      <4>1. PICK j \in 1..next : d.at = componentsDoc.uses[j].id
                                 /\ RaisedBy(componentsDoc.uses[j], d, origin[componentsDoc.uses[j].id].own)
        BY <3>3
      <4>3. origin'[componentsDoc.uses[j].id] = origin[componentsDoc.uses[j].id] BY <1>5, <1>9, <1>15
      <4> QED BY <1>4, <3>1, <4>1, <1>7, <4>3 DEF Raised, RaisedBy
    <3> QED BY <3>1, <3>2, <3>3 DEF Raised
  <2>2. CASE \E k \in DOMAIN r.found : d = r.found[k]
    <3>2. origin'[u.id].own = r.origin BY <1>3, <1>15
    <3> QED BY <1>1, <1>4, <1>14, <2>2, <3>2, <1>7 DEF Raised, RaisedBy
  <2> QED BY <2>1, <2>2, <1>20 DEF Shares
<1>22. (\A i \in DOMAIN componentsReport : Raised(componentsReport[i]))' BY <1>19, <1>21
<1>23. Listing(componentsReport)' BY <1>19, <1>20 DEF Listing
<1>24. componentsPhase' \in {"resolve", "failed"} BY <1>4
<1>25. (DOMAIN resolved = ready \union {componentsDoc.uses[i].id : i \in 1..next})' /\ DOMAIN origin' = DOMAIN resolved'
  BY <1>1, <1>4, <1>5, <1>7, <1>15
<1> QED BY <1>4, <1>5, <1>7, <1>18, <1>22, <1>23, <1>24, <1>25 DEF ComponentsInv

LEMMA ComponentsInvNext == ASSUME ComponentsInv, [ComponentsNext]_componentsVars PROVE ComponentsInv'
  BY ResolveComponentInv, ResolveUseInv, ComponentsResolvedInv, ValidateTypedInv, ValidateTextInv, ComponentsStutter
  DEF ComponentsNext

(***************************************************************************)
(* What the invariant says                                                 *)
(***************************************************************************)
LEMMA ComponentsTypeHolds == ASSUME ComponentsInv PROVE ComponentsResolutionTypeOK
  BY DEF ComponentsInv, ComponentsResolutionTypeOK, Raised

LEMMA MisplacedHolds == ASSUME ComponentsInv PROVE MisplacedFieldOnce
<1> SUFFICES ASSUME componentsPhase = "done", raw, NEW d \in Defined, d.action.type # "absent",
                    NEW field \in {"retryAfter", "retryLimit", "workflowId", "stepId"}
             PROVE  Times(d.at, 0, field) = (IF Misplaced(d, field) THEN 1 ELSE 0)
  BY DEF MisplacedFieldOnce
<1> DEFINE M == Misplaced(d, field)
<1>3. Tells(componentsReport, d.at, 0, field, M) BY DEF AllTold, ComponentsInv, ActionFields
<1> HIDE DEF M
<1>4. CASE M BY <1>4, <1>3, TimesIs DEF M, Tells
<1>5. CASE ~M BY <1>5, <1>3, TimesIs DEF M, Tells
<1> QED BY <1>4, <1>5

LEMMA MissingTypeHolds == ASSUME ComponentsInv PROVE MissingTypeOnce
<1> SUFFICES ASSUME componentsPhase = "done", NEW d \in Defined, d.action.type = "absent"
             PROVE  Times(d.at, 0, "type") = 1
  BY DEF MissingTypeOnce
<1> QED BY TimesIs DEF ComponentsInv, AllTold

LEMMA BlameHolds == ASSUME ComponentsInv PROVE UseNotBlamed
<1> SUFFICES ASSUME componentsPhase = "done", NEW u \in Uses, NEW i \in DOMAIN componentsReport, componentsReport[i].at = u.id
             PROVE  Blame(u, componentsReport[i])
  BY DEF UseNotBlamed, Blame
<1>1. PICK j \in DOMAIN componentsDoc.uses : u = componentsDoc.uses[j] /\ origin[u.id].own # Own BY DEF Uses
<1> QED BY <1>1 DEF Blameless, ComponentsInv

LEMMA MissingValueHolds == ASSUME ComponentsInv PROVE MissingValueOnce
<1> SUFFICES ASSUME componentsPhase = "done", raw
             PROVE  /\ \A n \in DOMAIN componentsDoc.parameters :
                         componentsDoc.parameters[n].value = "absent" => Times(n, 0, "value") = 1
                    /\ \A d \in Defined : \A i \in DOMAIN d.action.parameters :
                         d.action.parameters[i].reference = "absent" /\ d.action.parameters[i].value = "absent"
                         => Times(d.at, i, "value") = 1
  BY DEF MissingValueOnce
<1>1. AllTold(componentsReport) BY DEF ComponentsInv
<1>2. ASSUME NEW n \in DOMAIN componentsDoc.parameters, componentsDoc.parameters[n].value = "absent"
      PROVE  Times(n, 0, "value") = 1 BY <1>1, <1>2, TimesIs DEF AllTold
<1>3. ASSUME NEW d \in Defined, NEW i \in DOMAIN d.action.parameters,
             d.action.parameters[i].reference = "absent", d.action.parameters[i].value = "absent"
      PROVE  Times(d.at, i, "value") = 1 BY <1>1, <1>3, TimesIs DEF AllTold, Lacking
<1> QED BY <1>2, <1>3

\* A use with an origin is one that is resolved.
LEMMA ResolvedUse ==
  ASSUME ComponentsInv, NEW j \in DOMAIN componentsDoc.uses, componentsDoc.uses[j].id \in DOMAIN origin
  PROVE  j \in 1..next
<1>0. componentsDoc \in ComponentsDocuments BY DEF ComponentsInv
<1>2. PICK k \in 1..next : componentsDoc.uses[j].id = componentsDoc.uses[k].id BY <1>0, UseApart DEF ComponentsInv
<1> QED BY <1>0, <1>2, PlacesOfDocument, ListingDomain, OwnerOfUse DEF ComponentsInv

LEMMA WrittenHolds == ASSUME ComponentsInv PROVE WrittenValueWins
<1> SUFFICES ASSUME raw, NEW u \in Uses, u.form = "parameter"
             PROVE  resolved[u.id].value = TypedParameter(IF u.entry.value = "absent"
                                                          THEN componentsDoc.parameters[u.entry.reference] ELSE u.entry).value
  BY DEF WrittenValueWins
<1>1. PICK j \in DOMAIN componentsDoc.uses : u = componentsDoc.uses[j] /\ u.id \in DOMAIN origin /\ origin[u.id].own # Own
  BY DEF Uses
<1> QED BY <1>1, ResolvedUse DEF ParameterUseMade, UseMade, ComponentsInv, MadeInv

LEMMA NoReferenceHolds == ASSUME ComponentsInv PROVE NoReferenceLeft
<1> SUFFICES ASSUME componentsPhase = "done", componentsReport = << >>, NEW j \in DOMAIN componentsDoc.uses
             PROVE  /\ resolved[componentsDoc.uses[j].id].reference = "empty"
                    /\ componentsDoc.uses[j].form = "action" =>
                         \A k \in DOMAIN resolved[componentsDoc.uses[j].id].parameters :
                           resolved[componentsDoc.uses[j].id].parameters[k].reference = "empty"
  BY DEF NoReferenceLeft
<1> DEFINE u == componentsDoc.uses[j]  e == resolved[u.id]
<1>1. UseMade(u, e, origin[u.id], Kept) BY AllResolved
<1>2. Kept = FALSE BY DEF Kept
<1>3. CASE u.form = "action" BY <1>1, <1>2, <1>3 DEF ActionUseMade, Clean, UseMade
<1>4. CASE u.form # "action" BY <1>4, <1>1, <1>2 DEF ParameterUseMade, Element, Clean, UseMade
<1> QED BY <1>3, <1>4

LEMMA ComponentsInvClear == ComponentsInv => ComponentsAreClear
  BY ComponentsTypeHolds, MisplacedHolds, MissingTypeHolds, BlameHolds, MissingValueHolds, WrittenHolds, NoReferenceHolds
  DEF ComponentsAreClear

\* Of any number of components and uses, with the text or without it: an error of an action is
\* told once, where the action is defined, whichever of the two rounds of rules tells it; a
\* use is blamed for nothing but its own; a value written at a use is its value; and what is
\* accepted has no reference left (resolve_components, validate_typed, validate_raw).
THEOREM ComponentsHold == ComponentsSpec => []ComponentsAreClear
<1>1. ComponentsInit => ComponentsInv BY ComponentsInvInit
<1>2. ComponentsInv /\ [ComponentsNext]_componentsVars => ComponentsInv' BY ComponentsInvNext
<1>3. ComponentsInv => ComponentsAreClear BY ComponentsInvClear
<1> QED BY <1>1, <1>2, <1>3, PTL DEF ComponentsSpec

\* The declarations of a document: the parameters that reach a request and the components that
\* stand in for their uses, each at work in any order of their steps
\* (validate_effective_parameter_context, resolve_components).
THEOREM DeclarationsHold == ParametersSpec /\ ComponentsSpec => []DeclarationsAreClear
<1>1. ParametersAreClear /\ ComponentsAreClear => DeclarationsAreClear BY DEF DeclarationsAreClear
<1> QED BY <1>1, ParametersHold, ComponentsHold, PTL
=============================================================================
