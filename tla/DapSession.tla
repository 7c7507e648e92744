------------------------------- MODULE DapSession -------------------------------
(***************************************************************************)
(* A debug session: the coordinator, which answers the client's requests   *)
(* one at a time and writes every message; the engine thread, run under    *)
(* the debug controller; and the monitor thread, which forwards what the   *)
(* controller recorded and joins the engine when it is over.  The monitor  *)
(* and the coordinator share an unbounded event channel.                   *)
(*                                                                         *)
(* Requests are whatever the reader thread delivers next, in any order.    *)
(* Those answered from no state (initialize, threads, an unknown command,  *)
(* a request that is refused) are Answer.                                  *)
(***************************************************************************)
EXTENDS DebugController, FiniteSets

CONSTANT MaxCommands  \* bound of the model: requests that change something

ASSUME CommandsAssumption == MaxCommands \in Nat

VARIABLES
  phase,         (* the coordinator: draining events, taking a command,    *)
                 (* waiting for one event inline, or ending                *)
  launched,      (* launch was accepted: the source index exists           *)
  pending,       (* the breakpoints the client asked for                   *)
  resolved,      (* runtime_breakpoints: those, resolved by the index      *)
  started,       (* the runtime exists                                     *)
  done,          (* the engine thread has stored its result                *)
  monitor,       (* what the monitor thread does next                      *)
  sampled,       (* it saw the run finished before it began to drain       *)
  delivered,     (* stop events it has forwarded                           *)
  events,        (* the channel to the coordinator                         *)
  lastStop, refs,(* the coordinator's stop, and the stops that variable    *)
                 (* references in its store were created at                *)
  terminationSent,
  out,           (* history: the events the client was sent                *)
  commands       (* history: requests so far                               *)

coordVars == <<phase, launched, pending, resolved, started, lastStop, refs,
               terminationSent, out, commands>>
monitorVars == <<monitor, sampled, delivered>>
sessionVars == <<coordVars, monitorVars, done, events>>
dapVars == <<sessionVars, debugVars>>

Kinds == {"output", "stopped", "ended"}
Message == [kind : {"output", "stopped", "exited", "error", "terminated"}, stop : 0 .. MaxStops]
Msg(kind, stop) == [kind |-> kind, stop |-> stop]

SessionTypeOK ==
  /\ DebugTypeOK
  /\ phase \in {"drain", "command", "inline", "cleanup", "resuming", "joining", "exited"}
  /\ {launched, started, done, sampled, terminationSent} \subseteq BOOLEAN
  /\ pending \in Seq(Breakpoint) /\ resolved \in Seq(Breakpoint)
  /\ monitor \in {"none", "sample", "diagnostics", "stops", "decide", "exit"}
  /\ delivered \in 0 .. MaxStops
  /\ events \in Seq([kind : Kinds, stop : 0 .. MaxStops])
  /\ lastStop \in 0 .. MaxStops /\ refs \subseteq 1 .. MaxStops
  /\ out \in Seq(Message)
  /\ commands \in 0 .. MaxCommands

SessionInit ==
  /\ DebugInit /\ pauseRequested = FALSE
  /\ phase = "drain" /\ launched = FALSE /\ pending = <<>> /\ resolved = <<>>
  /\ started = FALSE /\ done = FALSE /\ monitor = "none" /\ sampled = FALSE
  /\ delivered = 0 /\ events = <<>> /\ lastStop = 0 /\ refs = {}
  /\ terminationSent = FALSE /\ out = <<>> /\ commands = 0

-----------------------------------------------------------------------------
(***************************************************************************)
(* The engine thread.  It stores its result and drops the handle, which    *)
(* cancels the token, when the run is over.                                *)
(***************************************************************************)
Reported == {i \in DOMAIN (out \o events) : (out \o events)[i].kind = "output"}

Engine ==
  /\ started /\ EngineStep
  /\ diagnostics' > diagnostics => Cardinality(Reported) < MaxDiagnostics
  /\ UNCHANGED sessionVars

ThreadDone ==
  /\ started /\ engine = "ended" /\ ~done
  /\ done' = TRUE /\ cancelled' = TRUE
  /\ UNCHANGED <<coordVars, monitorVars, events, entry, engine, chain, ctlVars, askVars>>

-----------------------------------------------------------------------------
(***************************************************************************)
(* The monitor thread.                                                     *)
(***************************************************************************)
Finished == done \/ cancelled

\* The completion flags are read before anything is drained.
MonitorSample ==
  /\ monitor = "sample"
  /\ sampled' = Finished /\ monitor' = "diagnostics"
  /\ UNCHANGED <<coordVars, delivered, done, events, debugVars>>

MonitorDiagnostics ==
  /\ monitor = "diagnostics"
  /\ \/ /\ Unlocked
        /\ diagnostics' = 0
        /\ events' = events \o [i \in 1 .. diagnostics |-> Msg("output", 0)]
        /\ monitor' = "stops"
        /\ UNCHANGED <<cancelled, done>>
     \* A poisoned controller: stop the run, report it, and leave.
     \/ /\ poisoned /\ ~cancelled
        /\ cancelled' = TRUE
        /\ UNCHANGED <<diagnostics, events, done, monitor>>
     \/ /\ poisoned /\ cancelled /\ done
        /\ events' = Append(events, Msg("ended", 0)) /\ monitor' = "exit"
        /\ UNCHANGED <<diagnostics, cancelled, done>>
  /\ UNCHANGED <<coordVars, sampled, delivered, entry, engine, chain, breakpoints,
                 pauseRequested, runMode, waiting, permit, stops, nextSeq, stack, frames,
                 poisoned, askVars>>

MonitorStops ==
  /\ monitor = "stops" /\ (Unlocked \/ poisoned)
  /\ IF poisoned THEN UNCHANGED <<events, delivered>>
     ELSE /\ events' = events \o [i \in 1 .. Len(stops) - delivered |->
                                    Msg("stopped", stops[delivered + i].seq)]
          /\ delivered' = Len(stops)
  /\ monitor' = "decide"
  /\ UNCHANGED <<coordVars, sampled, done, debugVars>>

\* mutant: completion is looked at after the drain
MonitorDecideLate ==
  /\ monitor = "decide"
  /\ IF Finished
     THEN done /\ events' = Append(events, Msg("ended", 0)) /\ monitor' = "exit"
     ELSE UNCHANGED events /\ monitor' = "sample"
  /\ UNCHANGED <<coordVars, sampled, delivered, done, debugVars>>

\* Join the engine and report how it ended, or wait for the next stop, at
\* most for the poll interval.
MonitorDecide ==
  /\ monitor = "decide"
  /\ IF sampled
     THEN done /\ events' = Append(events, Msg("ended", 0)) /\ monitor' = "exit"
     ELSE UNCHANGED events /\ monitor' = "sample"
  /\ UNCHANGED <<coordVars, sampled, delivered, done, debugVars>>

Monitor == MonitorSample \/ MonitorDiagnostics \/ MonitorStops \/ MonitorDecide

-----------------------------------------------------------------------------
(***************************************************************************)
(* The coordinator: events.                                                *)
(***************************************************************************)
\* terminate_session: the client is told once.
Terminated(messages) ==
  IF terminationSent THEN messages ELSE Append(messages, Msg("terminated", 0))

\* handle_engine_event, of the event at the head of the channel.
HandleEvent ==
  /\ events # <<>> /\ events' = Tail(events)
  /\ LET event == Head(events) IN
       CASE event.kind = "output" ->
              out' = Append(out, event) /\ UNCHANGED <<lastStop, refs, terminationSent>>
         [] event.kind = "stopped" ->
              /\ lastStop' = event.stop /\ refs' = {}
              /\ out' = Append(out, event) /\ UNCHANGED terminationSent
         [] event.kind = "ended" ->
              /\ out' = Terminated(Append(out, Msg("exited", 0)))
              /\ terminationSent' = TRUE /\ UNCHANGED <<lastStop, refs>>

Drain ==
  /\ phase = "drain"
  /\ IF events # <<>> THEN HandleEvent /\ UNCHANGED phase
     ELSE phase' = "command" /\ UNCHANGED <<events, out, lastStop, refs, terminationSent>>
  /\ UNCHANGED <<launched, pending, resolved, started, commands, monitorVars, done,
                 debugVars>>

\* inline_event_check: one event, or none in time.
Inline ==
  /\ phase = "inline" /\ phase' = "drain"
  /\ HandleEvent \/ UNCHANGED <<events, out, lastStop, refs, terminationSent>>
  /\ UNCHANGED <<launched, pending, resolved, started, commands, monitorVars, done,
                 debugVars>>

-----------------------------------------------------------------------------
(***************************************************************************)
(* The coordinator: requests.                                              *)
(***************************************************************************)
Taken(next) == phase = "command" /\ phase' = next
Counted == commands < MaxCommands /\ commands' = commands + 1

\* Nothing to take, or a request that changes nothing, as variables is, which is
\* answered from the store.
Answer ==
  /\ Taken("drain")
  /\ UNCHANGED <<launched, pending, resolved, started, lastStop, refs, terminationSent, out,
                 commands, monitorVars, done, events, debugVars>>

Launch ==
  /\ Taken("drain") /\ Counted
  /\ launched' = TRUE /\ resolved' = pending
  /\ UNCHANGED <<pending, started, lastStop, refs, terminationSent, out, monitorVars,
                 done, events, debugVars>>

\* Without an index nothing is resolved.  A runtime that exists is updated at
\* once; when its controller is poisoned the request is refused after all.
HandleSetBreakpoints(bps) ==
  /\ Taken("drain") /\ Counted
  /\ pending' = bps /\ resolved' = IF launched THEN bps ELSE <<>>
  /\ IF started /\ ~poisoned THEN SetBreakpoints(resolved') ELSE UNCHANGED debugVars
  /\ UNCHANGED <<launched, started, lastStop, refs, terminationSent, out, monitorVars,
                 done, events>>

\* ensure_runtime_started: the controller gets the breakpoints, and the pause
\* on entry, before the engine thread exists.
ConfigurationDone ==
  /\ ~started /\ launched /\ Taken("inline") /\ Counted
  /\ started' = TRUE /\ monitor' = "sample"
  /\ breakpoints' = resolved /\ pauseRequested' \in BOOLEAN
  /\ UNCHANGED <<launched, pending, resolved, lastStop, refs, terminationSent, out,
                 sampled, delivered, done, events, engineVars, runMode, waiting, permit, stops,
                 nextSeq, stack, frames, diagnostics, poisoned, askVars>>

\* No launch, or a document or an engine that cannot be built.
ConfigurationFails ==
  /\ ~started /\ Taken("drain") /\ Counted
  /\ out' = Terminated(Append(out, Msg("error", 0))) /\ terminationSent' = TRUE
  /\ UNCHANGED <<launched, pending, resolved, started, lastStop, refs, monitorVars,
                 done, events, debugVars>>

\* continue, next, stepIn, stepOut, accepted.
Resume ==
  /\ started /\ Taken("inline") /\ Counted
  /\ \/ ContinueExecution
     \/ \E kind \in StepKinds : StepCommand(kind)
  /\ UNCHANGED <<launched, pending, resolved, started, lastStop, refs, terminationSent, out,
                 monitorVars, done, events>>

\* The response is written before the controller is asked, whose refusal ends
\* the session.
Pause ==
  /\ started /\ Counted
  /\ \/ Taken("inline") /\ RequestPause
     \/ Taken("cleanup") /\ poisoned /\ UNCHANGED debugVars
  /\ UNCHANGED <<launched, pending, resolved, started, lastStop, refs, terminationSent, out,
                 monitorVars, done, events>>

\* scopes and evaluate put what the engine holds now in the store.
Scopes ==
  /\ started /\ lastStop # 0 /\ Unlocked /\ Inspectable(0) /\ Taken("drain")
  /\ refs' = refs \union {nextSeq}
  /\ UNCHANGED <<launched, pending, resolved, started, lastStop, terminationSent, out,
                 commands, monitorVars, done, events, debugVars>>

Disconnect ==
  /\ Taken("cleanup")
  /\ out' = Terminated(out) /\ terminationSent' = TRUE
  /\ UNCHANGED <<launched, pending, resolved, started, lastStop, refs, commands,
                 monitorVars, done, events, debugVars>>

\* The end of the input, a framing error, or a message that cannot be written.
Abandon ==
  /\ phase \in {"drain", "command", "inline"} /\ phase' = "cleanup"
  /\ UNCHANGED <<launched, pending, resolved, started, lastStop, refs, terminationSent, out,
                 commands, monitorVars, done, events, debugVars>>

-----------------------------------------------------------------------------
(***************************************************************************)
(* The coordinator: cleanup_runtime.                                       *)
(***************************************************************************)
RestOfCoord == <<launched, pending, resolved, started, lastStop, refs, terminationSent, out,
                 commands>>

CleanupCancel ==
  /\ phase = "cleanup" /\ phase' = "resuming"
  /\ cancelled' = (cancelled \/ started)
  /\ UNCHANGED <<RestOfCoord, monitorVars, done, events, entry, engine, chain, ctlVars,
                 askVars>>

CleanupResume ==
  /\ phase = "resuming" /\ phase' = "joining"
  /\ IF started /\ waiting /\ ~poisoned THEN ContinueExecution
     ELSE (Unlocked \/ poisoned \/ ~started) /\ UNCHANGED debugVars
  /\ UNCHANGED <<RestOfCoord, monitorVars, done, events>>

CleanupJoin ==
  /\ phase = "joining" /\ monitor \in {"none", "exit"} /\ phase' = "exited"
  /\ UNCHANGED <<RestOfCoord, monitorVars, done, events, debugVars>>

-----------------------------------------------------------------------------
Requests ==
  \/ Answer \/ Launch \/ ConfigurationDone \/ ConfigurationFails \/ Resume \/ Pause
  \/ \E bps \in BreakpointLists : HandleSetBreakpoints(bps)
  \/ Scopes \/ Disconnect

Coordinator ==
  Drain \/ Inline \/ Requests \/ CleanupCancel \/ CleanupResume \/ CleanupJoin

SessionNext == Engine \/ ThreadDone \/ Monitor \/ Coordinator \/ Abandon

SessionSpec == SessionInit /\ [][SessionNext]_dapVars

Shown(kind) == {i \in DOMAIN out : out[i].kind = kind}

\* "Drain before completion so fast workflows cannot lose diagnostics": a run
\* whose end is reported, and which ran without a panic, has had every stop and
\* every diagnostic of it reported before.
NothingLost ==
  Shown("exited") # {} /\ ~poisoned =>
    diagnostics = 0 /\ Cardinality(Shown("stopped")) = nextSeq

\* Stops are announced in the order in which the engine made them, each once.
StopsInOrder ==
  \A i, j \in Shown("stopped") : i < j => out[i].stop < out[j].stop

\* The end is reported once: one exit, at most one termination, and after the
\* exit nothing but the termination, whatever of the run's end, a failing
\* start, and the client's disconnect comes first.
EndReportedOnce ==
  /\ Cardinality(Shown("terminated")) <= 1
  /\ \A i \in Shown("exited") : \A j \in DOMAIN out : j > i => out[j].kind = "terminated"

\* The engine runs with the breakpoints the client last asked for, in whatever
\* order they, the launch and the start came.
BreakpointsInstalled ==
  started /\ ~poisoned => breakpoints = pending

\* A variable reference that is still answered is not of a stop before the one the
\* client was last shown.
ReferencesAreRecent == \A stop \in refs : stop >= lastStop

\* When the session is left the run is cancelled and no thread of it remains.
NothingLeftRunning ==
  phase = "exited" /\ started => engine = "ended" /\ monitor = "exit"

\* A session that is being ended ends, although the engine may be stopped at
\* a gate that the client will never resume.
SessionEnds == phase = "cleanup" ~> phase = "exited"

\* The end of a run is reported to a client that stays.
EndIsReported == started /\ engine = "ended" ~> Shown("exited") # {} \/ phase = "exited"

\* What the client sees of a run: its stops in order, everything before its end and
\* its end once; the breakpoints it last asked for are those of the run; and a session
\* that was left has left nothing running (monitor loop, handle_command, cleanup_runtime).
SessionReportsRun ==
  /\ SessionTypeOK /\ NothingLost /\ StopsInOrder /\ EndReportedOnce
  /\ BreakpointsInstalled /\ ReferencesAreRecent /\ NothingLeftRunning

\* A session that is being ended ends, the end of a run is reported, and an engine held
\* at a gate is let go by its token, whether or not its client ever resumes it.
NobodyWaitsForever == SessionEnds /\ EndIsReported /\ CancelReleases
=============================================================================
