------------------------------- MODULE MCWorkflow -------------------------------
(***************************************************************************)
(* Documents of one workflow, over a menu of action lists that interact,   *)
(* and documents of three workflows that call, leave for, and recover      *)
(* through each other.                                                     *)
(***************************************************************************)
EXTENDS WorkflowEngine

CONSTANTS a, b, c

base == [type |-> "end", guarded |-> FALSE, step |-> 0, workflow |-> NoWorkflow,
         limit |-> Unset, delay |-> "zero"]

end        == base
maybeEnd   == [base EXCEPT !.guarded = TRUE]
goto(i)    == [base EXCEPT !.type = "goto", !.step = i]
maybe(i)   == [goto(i) EXCEPT !.guarded = TRUE]
retry(n)   == [base EXCEPT !.type = "retry", !.limit = n]
maybeRetry == [retry(2) EXCEPT !.guarded = TRUE, !.delay = "some"]
hopeless   == [retry(1) EXCEPT !.delay = "unrepresentable"]

leave(w)     == [base EXCEPT !.type = "goto", !.workflow = w, !.guarded = TRUE]
retryAt(i)   == [retry(Unset) EXCEPT !.step = i]
retryWith(w) == [retry(Unset) EXCEPT !.workflow = w]

request == [target |-> NoWorkflow, onSuccess |-> <<>>, onFailure |-> <<>>]
call(w) == [request EXCEPT !.target = w]
on(step, action) == [step EXCEPT !.onFailure = <<action>>]

(***************************************************************************)
(* One workflow of one or two steps: retries that fall through to later    *)
(* actions, gotos backward and forward, budgets of zero, one (omitted) and *)
(* two, and the three kinds of delay.                                      *)
(***************************************************************************)
FailureLists == {<<>>, <<retry(Unset)>>, <<maybeRetry, retry(1)>>, <<retry(0), maybe(2)>>,
                 <<maybe(1), end>>, <<hopeless>>, <<goto(3)>>, <<goto(0)>>}
SuccessLists == {<<>>, <<maybe(1)>>}

FirstSteps ==
  {[request EXCEPT !.onSuccess = s, !.onFailure = f] :
     s \in SuccessLists, f \in FailureLists}
LastSteps == {[request EXCEPT !.onSuccess = <<maybe(1), end>>],
              [request EXCEPT !.onFailure = <<maybeRetry>>]}

One(steps, failure) ==
  [w \in {a} |-> [steps |-> steps, onSuccess |-> <<maybe(2), maybeEnd>>,
                  onFailure |-> failure, dependsOn |-> {}, receives |-> TRUE]]

\* Budgets beyond ten iterations a step, inherited from the workflow.
LongRetries == {One(<<request>>, <<retry(9)>>)}

\* A goto that loops for as long as it is let.
Loops == {One(<<[request EXCEPT !.onSuccess = <<goto(1)>>]>>, <<retry(1)>>),
          One(<<request, [request EXCEPT !.onSuccess = <<maybe(1), end>>]>>, <<>>)}

\* A workflow with nothing to do, which validation accepts.
Empty == {One(<<>>, <<>>)}

RoutingDocuments ==
  {One(<<s>>, <<retry(1)>>) : s \in FirstSteps}
  \union {One(<<[s EXCEPT !.onSuccess = <<>>], t>>, <<>>) : s \in FirstSteps, t \in LastSteps}
  \union LongRetries \union Loops \union Empty

NoEvidence == {{}}

(***************************************************************************)
(* Three workflows: sub-workflow steps, gotos to a workflow, retries with  *)
(* a recovery step or workflow, recursion to the call depth, and           *)
(* dependencies that a sibling call, or only the caller's evidence, can    *)
(* satisfy.                                                                *)
(***************************************************************************)
flow(steps, needs) ==
  [steps |-> steps, onSuccess |-> <<>>, onFailure |-> <<>>, dependsOn |-> needs,
   receives |-> FALSE]

leaf == flow(<<request>>, {})

Roots ==
  {flow(<<call(b), call(c)>>, {}),
   flow(<<on(call(c), retryWith(b))>>, {}),
   flow(<<on(request, retryAt(2)), call(b)>>, {}),
   flow(<<on(request, leave(b)), on(call(c), retryAt(1))>>, {}),
   flow(<<on(request, retryAt(3))>>, {}),
   flow(<<call(a)>>, {}),
   flow(<<call(Unknown)>>, {}),
   flow(<<[request EXCEPT !.onSuccess = <<leave(c)>>], call(b)>>, {c})}

Callees == {leaf, flow(<<request>>, {a}), flow(<<on(request, leave(c))>>, {})}
Dependents == {leaf, flow(<<request>>, {b})}

CallDocuments ==
  {[w \in {a, b, c} |-> CASE w = a -> x [] w = b -> y [] OTHER -> z] :
     x \in Roots, y \in Callees, z \in Dependents}

CallEvidence == {{}, {a}, {c}}
=================================================================================
