--------------------------- MODULE MCParallelLevels ---------------------------
(***************************************************************************)
(* Every dependency graph on two steps, missing ids and self-references    *)
(* included; levels of one, two and three steps; and workflows that        *)
(* parallel_blocker keeps out.                                             *)
(***************************************************************************)
EXTENDS ParallelLevels

CONSTANT a

base == [type |-> "retry", guarded |-> FALSE, step |-> 0, workflow |-> NoWorkflow,
         limit |-> 1, delay |-> "zero"]

retryOnce  == base
maybeRetry == [base EXCEPT !.guarded = TRUE, !.delay = "some"]
hopeless   == [base EXCEPT !.delay = "unrepresentable"]
recover    == [base EXCEPT !.step = 1]
recoverIn  == [base EXCEPT !.workflow = a]
goto(i)    == [base EXCEPT !.type = "goto", !.step = i]
end        == [base EXCEPT !.type = "end", !.guarded = TRUE]

Doing(failure) == [target |-> NoWorkflow, onSuccess |-> <<>>, onFailure |-> failure]
Calling        == [Doing(<<>>) EXCEPT !.target = a]
Redirected     == [Doing(<<>>) EXCEPT !.onSuccess = <<end>>]

Flow(steps, success, failure) ==
  [steps |-> steps, onSuccess |-> success, onFailure |-> failure, dependsOn |-> {},
   receives |-> FALSE]

\* What a step refers to while it runs, and in the actions it inherits or declares.
Refs(reads, criteria) ==
  [[p \in RefPlaces |-> {}] EXCEPT !["run"] = reads, !["inherited"] = criteria]

Reading(steps, refs, odd) ==
  [workflow |-> Flow(steps, <<>>, <<retryOnce>>), refs |-> refs, odd |-> odd]

Graphs ==
  {Reading(<<Doing(<<>>), Doing(<<maybeRetry>>)>>, <<Refs(r1, c1), Refs(r2, {})>>, {}) :
     r1 \in SUBSET (0 .. 2), r2 \in SUBSET (1 .. 2), c1 \in {{}, {1}, {2}}}

\* The second step refers to the first or to itself in one place; the id of the first
\* may be odd.
Placed ==
  {Reading(<<Doing(<<>>), Doing(<<maybeRetry>>)>>,
           <<Refs({}, {}), [Refs({}, {}) EXCEPT ![p] = {j}]>>, odd) :
     p \in RefPlaces, j \in {1, 2}, odd \in {{}, {1}}}

Three == <<Doing(<<>>), Doing(<<maybeRetry>>), Doing(<<hopeless>>)>>
None == Refs({}, {})
Trees == {Reading(Three, <<None, None, None>>, {}),                             \* one level
          Reading(Three, <<Refs({3}, {}), None, None>>, {}),                    \* backward
          Reading(Three, <<None, Refs({1}, {}), Refs({}, {1})>>, {}),           \* fork
          Reading(Three, <<Refs({}, {2}), Refs({}, {3}), Refs({}, {1})>>, {})}  \* cycle

Blocked ==
  {[workflow |-> wf, refs |-> <<None, None>>, odd |-> {}] :
     wf \in {Flow(<<Doing(<<>>), Doing(<<>>)>>, <<>>, <<recover>>),
             Flow(<<Doing(<<>>), Doing(<<>>)>>, <<>>, <<goto(1)>>),
             Flow(<<Doing(<<>>), Doing(<<>>)>>, <<end>>, <<>>),
             Flow(<<Doing(<<>>), Doing(<<recoverIn>>)>>, <<>>, <<>>),
             Flow(<<Doing(<<>>), Calling>>, <<>>, <<>>),
             Flow(<<Doing(<<>>), Redirected>>, <<>>, <<>>)}}

MCPlans == Graphs \union Placed \union Trees \union Blocked
=============================================================================
