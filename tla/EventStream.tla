----------------------------- MODULE EventStream -----------------------------
(***************************************************************************)
(* One execution and the holder of its handle: the bounded event channel,  *)
(* the result channel and the cancellation token between the engine's task *)
(* and an ExecutionHandle.                                                 *)
(*                                                                         *)
(* What the engine does between two events is in WorkflowEngine; here it   *)
(* emits, or ends in some result.  A send waits for room and, unlike every *)
(* other wait of the engine, does not watch the token.  The channel keeps  *)
(* its order, so events are counted.                                       *)
(***************************************************************************)
EXTENDS Naturals, TLAPS

CONSTANTS
  Capacity,      (* channel_capacity                                       *)
  MaxEvents      (* bound of the model: events an execution emits          *)

ASSUME CapacityAssumption == Capacity \in Nat \ {0}
ASSUME MaxEventsAssumption == MaxEvents \in Nat

VARIABLES
  engine,        (* where the engine's task is                             *)
  emitted,       (* events it has sent                                     *)
  queued,        (* events in the channel                                  *)
  received,      (* events collect has received                            *)
  receiver,      (* whether the channel's receiver exists                  *)
  result,        (* how the execution ended                                *)
  slot,          (* the result channel                                     *)
  token,         (* whether, and by what, the execution was cancelled      *)
  holder,        (* what the handle's holder is doing                      *)
  answer         (* what collect or result_only returned                   *)

vars == <<engine, emitted, queued, received, receiver, result, slot, token, holder,
          answer>>

Ends == {"ok", "failed", "ExecutionCancelled"}

\* The senders live in the engine's context.
SendersGone == engine \in {"dropped", "done", "panicked"}

StreamTypeOK ==
  /\ engine \in {"running", "sending", "dropped", "done", "panicked"}
  /\ emitted \in 0 .. MaxEvents /\ queued \in 0 .. Capacity
  /\ received \in 0 .. MaxEvents
  /\ receiver \in {"open", "closed"}
  /\ result \in Ends \union {"none"}
  /\ slot \in Ends \union {"empty", "closed"}
  /\ token \in {"live", "asked", "dropped"}
  /\ holder \in {"holding", "draining", "drained", "resultOnly", "collected",
                 "resolved", "gone"}
  /\ answer \in Ends \union {"none", "InternalError"}

Init ==
  /\ engine = "running" /\ emitted = 0 /\ queued = 0 /\ received = 0
  /\ receiver = "open" /\ result = "none" /\ slot = "empty" /\ token = "live"
  /\ holder = "holding" /\ answer = "none"

-----------------------------------------------------------------------------
(***************************************************************************)
(* The engine's task.                                                      *)
(***************************************************************************)
StartSend ==
  /\ engine = "running" /\ emitted < MaxEvents
  /\ engine' = "sending"
  /\ UNCHANGED <<emitted, queued, received, receiver, result, slot, token, holder,
                 answer>>

\* A send into a channel without receiver fails at once and is ignored.
Send ==
  /\ engine = "sending" /\ (queued < Capacity \/ receiver = "closed")
  /\ engine' = "running" /\ emitted' = emitted + 1
  /\ queued' = IF receiver = "open" THEN queued + 1 ELSE queued
  /\ UNCHANGED <<received, receiver, result, slot, token, holder, answer>>

\* The context, and the last sender with it, goes before the result does.
Finish ==
  /\ engine = "running"
  /\ \E r \in Ends : /\ r = "ExecutionCancelled" => token # "live"
                     /\ result' = r
  /\ engine' = "dropped"
  /\ UNCHANGED <<emitted, queued, received, receiver, slot, token, holder, answer>>

SendResult ==
  /\ engine = "dropped"
  /\ engine' = "done" /\ slot' = result
  /\ UNCHANGED <<emitted, queued, received, receiver, result, token, holder, answer>>

\* Unwinding drops both senders.
Panic ==
  /\ engine = "running"
  /\ engine' = "panicked" /\ slot' = "closed"
  /\ UNCHANGED <<emitted, queued, received, receiver, result, token, holder, answer>>

-----------------------------------------------------------------------------
(***************************************************************************)
(* The holder.  Dropping the handle, which collect and result_only do when *)
(* they return, cancels the execution.                                     *)
(***************************************************************************)
DropToken == token' = IF token = "live" THEN "dropped" ELSE token

StartCollect ==
  /\ holder = "holding" /\ holder' = "draining"
  /\ UNCHANGED <<engine, emitted, queued, received, receiver, result, slot, token,
                 answer>>

Receive ==
  /\ holder = "draining" /\ queued > 0
  /\ queued' = queued - 1 /\ received' = received + 1
  /\ UNCHANGED <<engine, emitted, receiver, result, slot, token, holder, answer>>

\* mutant: draining stops when the senders are gone
StreamEndsEarly ==
  /\ holder = "draining" /\ SendersGone
  /\ holder' = "drained"
  /\ UNCHANGED <<engine, emitted, queued, received, receiver, result, slot, token,
                 answer>>

StreamEnds ==
  /\ holder = "draining" /\ queued = 0 /\ SendersGone
  /\ holder' = "drained"
  /\ UNCHANGED <<engine, emitted, queued, received, receiver, result, slot, token,
                 answer>>

\* mutant: the handle is dropped before the result is awaited
StartResultOnlyDropping ==
  /\ holder = "holding" /\ holder' = "resultOnly"
  /\ receiver' = "closed" /\ queued' = 0 /\ DropToken
  /\ UNCHANGED <<engine, emitted, received, result, slot, answer>>

StartResultOnly ==
  /\ holder = "holding" /\ holder' = "resultOnly"
  /\ receiver' = "closed" /\ queued' = 0
  /\ UNCHANGED <<engine, emitted, received, result, slot, token, answer>>

Answered ==
  /\ holder \in {"drained", "resultOnly"} /\ slot # "empty"
  /\ answer' = IF slot = "closed" THEN "InternalError" ELSE slot
  /\ holder' = IF holder = "drained" THEN "collected" ELSE "resolved"
  /\ DropToken
  /\ UNCHANGED <<engine, emitted, queued, received, receiver, result, slot>>

\* mutant: dropping the handle cancels the token and nothing else
DropHandleKeepingEvents ==
  /\ holder \in {"holding", "draining", "drained", "resultOnly"}
  /\ holder' = "gone" /\ DropToken
  /\ UNCHANGED <<engine, emitted, queued, received, receiver, result, slot, answer>>

\* The handle is dropped, by itself or with the future of collect or
\* result_only that owns it.
DropHandle ==
  /\ holder \in {"holding", "draining", "drained", "resultOnly"}
  /\ holder' = "gone" /\ receiver' = "closed" /\ queued' = 0 /\ DropToken
  /\ UNCHANGED <<engine, emitted, received, result, slot, answer>>

\* A clone of the token: the timeout watchdog's, or the holder's own.
CancelToken ==
  /\ token = "live" /\ token' = "asked"
  /\ UNCHANGED <<engine, emitted, queued, received, receiver, result, slot, holder,
                 answer>>

-----------------------------------------------------------------------------
EngineStep == StartSend \/ Send \/ Finish \/ SendResult
HolderStep == Receive \/ StreamEnds \/ Answered

Next ==
  \/ EngineStep \/ Panic \/ HolderStep
  \/ StartCollect \/ StartResultOnly \/ DropHandle \/ CancelToken

Spec == Init /\ [][Next]_vars

(***************************************************************************)
(* What the handle promises.                                               *)
(***************************************************************************)
\* collect returns every event the execution emitted, whether it ended in a
\* result, was cancelled while its last events were queued, or panicked.
CollectComplete == holder = "collected" => received = emitted

\* What collect and result_only return is the execution's own result once it
\* is over, and InternalError only for a task that panicked.
AnswerIsResult ==
  answer # "none" =>
    \/ engine = "done" /\ answer = result
    \/ engine = "panicked" /\ answer = "InternalError"

\* A result taken from a handle is never a cancellation of the handle's own
\* making: somebody used the token.
CancellationWasAsked == answer = "ExecutionCancelled" => token = "asked"

\* collect returns: the engine never waits for room that only the drained
\* channel could give it.
CollectReturns ==
  holder \in {"draining", "drained"} ~> holder \in {"collected", "gone"}

\* result_only returns, however many events nobody reads.
ResultOnlyReturns == holder = "resultOnly" ~> holder \in {"resolved", "gone"}

\* An abandoned execution ends, even from a send into a full channel, which
\* does not look at the token.
AbandonedEnds == holder = "gone" ~> engine \in {"done", "panicked"}

\* An answer is the execution's own, and never a cancellation that only the handle
\* made.
AnswersAreTrue == StreamTypeOK /\ AnswerIsResult /\ CancellationWasAsked

\* Whoever has a handle, or has let it go, leaves no task behind and waits for none.
EveryHolderFreed == CollectReturns /\ ResultOnlyReturns /\ AbandonedEnds

\* A send has an event to send.
Bounded == engine = "sending" => emitted < MaxEvents

\* Until the handle closes the channel, an event is queued or was received.
Counted ==
  holder \in {"holding", "draining", "drained", "collected"} =>
    receiver = "open" /\ emitted = received + queued

\* Whoever stopped draining found an empty channel that nobody can send to.
Drained == holder \in {"drained", "collected"} => queued = 0 /\ SendersGone

\* The result channel holds nothing but the result of a task that is over.
Delivered ==
  /\ slot = "closed" <=> engine = "panicked"
  /\ engine \in {"dropped", "done"} => result # "none"
  /\ slot # "closed" /\ slot # "empty" => engine = "done" /\ slot = result

\* A token nobody used is dropped only by a handle that is through.
Token ==
  /\ result = "ExecutionCancelled" => token # "live"
  /\ token = "dropped" => holder \in {"collected", "resolved", "gone"}

Inv == StreamTypeOK /\ Bounded /\ Counted /\ Drained /\ Delivered /\ Token
         /\ AnswerIsResult /\ CancellationWasAsked

-----------------------------------------------------------------------------
(***************************************************************************)
(* Nothing holds but that an execution starts with everything empty.       *)
(***************************************************************************)
LEMMA InvInit == Init => Inv
BY CapacityAssumption, MaxEventsAssumption
   DEF Init, Inv, StreamTypeOK, Bounded, Counted, Drained, Delivered, Token, AnswerIsResult,
       CancellationWasAsked, Ends, SendersGone

(***************************************************************************)
(* The engine's steps: a send keeps the count, and an end keeps the        *)
(* channel closed for good.                                                *)
(***************************************************************************)
LEMMA EngineKeeps == Inv /\ (EngineStep \/ Panic) => Inv'
<1> SUFFICES ASSUME Inv, EngineStep \/ Panic PROVE Inv'
  OBVIOUS
<1> USE CapacityAssumption, MaxEventsAssumption
        DEF Inv, StreamTypeOK, Bounded, Counted, Drained, Delivered, Token, AnswerIsResult,
            CancellationWasAsked, Ends, SendersGone
<1>1. CASE StartSend
  BY <1>1 DEF StartSend
<1>2. CASE Send
  BY <1>2 DEF Send
<1>3. CASE Finish
  BY <1>3 DEF Finish
<1>4. CASE SendResult
  BY <1>4 DEF SendResult
<1>5. CASE Panic
  BY <1>5 DEF Panic
<1> QED
  BY <1>1, <1>2, <1>3, <1>4, <1>5 DEF EngineStep

(***************************************************************************)
(* The holder's steps.                                                     *)
(***************************************************************************)
LEMMA HolderKeeps ==
  Inv /\ (HolderStep \/ StartCollect \/ StartResultOnly \/ DropHandle \/ CancelToken)
    => Inv'
<1> SUFFICES ASSUME Inv,
                    HolderStep \/ StartCollect \/ StartResultOnly \/ DropHandle
                      \/ CancelToken
             PROVE  Inv'
  OBVIOUS
<1> USE CapacityAssumption, MaxEventsAssumption
        DEF Inv, StreamTypeOK, Bounded, Counted, Drained, Delivered, Token, AnswerIsResult,
            CancellationWasAsked, Ends, SendersGone
<1>1. CASE Receive
  BY <1>1 DEF Receive
<1>2. CASE StreamEnds
  BY <1>2 DEF StreamEnds
<1>3. CASE Answered
  BY <1>3 DEF Answered, DropToken
<1>4. CASE StartCollect
  BY <1>4 DEF StartCollect
<1>5. CASE StartResultOnly
  BY <1>5 DEF StartResultOnly
<1>6. CASE DropHandle
  BY <1>6 DEF DropHandle, DropToken
<1>7. CASE CancelToken
  BY <1>7 DEF CancelToken
<1> QED
  BY <1>1, <1>2, <1>3, <1>4, <1>5, <1>6, <1>7 DEF HolderStep

LEMMA InvHolds == Spec => []Inv
<1>1. Init => Inv
  BY InvInit
<1>2. Inv /\ [Next]_vars => Inv'
  <2> SUFFICES ASSUME Inv, [Next]_vars PROVE Inv'
    OBVIOUS
  <2>1. CASE Next
    BY <2>1, EngineKeeps, HolderKeeps DEF Next
  <2>2. CASE UNCHANGED vars
    BY <2>2 DEF vars, Inv, StreamTypeOK, Bounded, Counted, Drained, Delivered, Token,
                AnswerIsResult, CancellationWasAsked, SendersGone
  <2> QED
    BY <2>1, <2>2
<1> QED
  BY <1>1, <1>2, PTL DEF Spec

-----------------------------------------------------------------------------
\* collect returns every event of an execution, whatever the capacity of the
\* channel and however the execution ended (ExecutionHandle::collect).
THEOREM CollectIsComplete == Spec => []CollectComplete
<1>1. Inv => CollectComplete
  BY DEF Inv, StreamTypeOK, Counted, Drained, CollectComplete
<1> QED
  BY <1>1, InvHolds, PTL

\* A handle returns the result of an execution that is over, and InternalError
\* only for one that panicked (collect, result_only).
THEOREM AnswersAreResults == Spec => []AnswerIsResult
<1>1. Inv => AnswerIsResult
  BY DEF Inv
<1> QED
  BY <1>1, InvHolds, PTL

\* No handle returns a cancellation it caused itself (collect, result_only,
\* Drop for ExecutionHandle).
THEOREM CancellationsWereAsked == Spec => []CancellationWasAsked
<1>1. Inv => CancellationWasAsked
  BY DEF Inv
<1> QED
  BY <1>1, InvHolds, PTL

\* What a handle answers is true of the execution it was given for.
THEOREM AnswersAreTheExecutions == Spec => []AnswersAreTrue
<1>1. Inv => AnswersAreTrue
  BY DEF Inv, AnswersAreTrue
<1> QED
  BY <1>1, InvHolds, PTL
=============================================================================
