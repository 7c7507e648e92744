-------------------------------- MODULE RunCommand --------------------------------
(***************************************************************************)
(* The run command around the engine: what is checked before anything is   *)
(* run, the trace and the export that are written when it has ended, each  *)
(* through a temporary file, and the error that the caller is given.       *)
(***************************************************************************)
EXTENDS Integers, Sequences, FiniteSets

CONSTANTS
  Lines,     (* command lines                                              *)
  RunFiles,  (* files, each with the names that lead to it                 *)
  NoPath,    (* given in place of a destination that is not asked for      *)
  Absent     (* what a file that does not exist holds                      *)

\* A command line: the names of the description, of the OpenAPI files, and of the trace
\* and the export (or NoPath), the sources that the description has, and the
\* options.  Names lead to the same file by linked directories, or by the rules of the
\* file system.
Named(name) == CHOOSE f \in RunFiles : name \in f
Alias(a, b) == Named(a) = Named(b)

ASSUME RunAssumption ==
  /\ \A f, g \in RunFiles : f # g => f \intersect g = {}
  /\ \A l \in Lines : {l.spec, l.openapi, l.source} \subseteq UNION RunFiles
                      /\ {l.trace, l.export} \ {NoPath} \subseteq UNION RunFiles

VARIABLES
  line,         (* the command line; it never changes                      *)
  runPc,        (* the stage, or "exited" or "crashed"                     *)
  runError, traceError, exportError,(* the failures so far; "none"                             *)
  diagnostics,  (* whether expressions reported a warning                  *)
  temp,         (* by artifact: its temporary file: none, partial, whole   *)
  disk,         (* by file: what it holds                                  *)
  shown,        (* what is printed: nothing, the outputs or the requests   *)
  code, causes  (* the error that the command ends with, and what it says  *)

runVars == <<line, runPc, runError, traceError, exportError, diagnostics, temp, disk, shown, code, causes>>
failures == <<runError, traceError, exportError, diagnostics>>
ending == <<shown, code, causes>>

Artifacts == {"trace", "export"}
Destination(a) == IF a = "trace" THEN line.trace ELSE line.export

RunInit ==
  /\ line \in Lines
  /\ runPc = "destination" /\ runError = "none" /\ traceError = "none" /\ exportError = "none"
  /\ diagnostics = FALSE /\ temp = [a \in Artifacts |-> "none"]
  /\ disk \in {d \in [RunFiles -> {"input", "old", Absent}] :
                \A f \in RunFiles : d[f] = "input" <=> f \in {Named(n) : n \in {line.spec, line.openapi, line.source}}}
  /\ shown = "nothing" /\ code = "none" /\ causes = <<>>

RunFail(error, why) == runPc' = "exited" /\ code' = error /\ causes' = why /\ UNCHANGED shown

\* The export is the same file as the trace, or as an input.
Collides(inputs) ==
  /\ line.export # NoPath
  /\ \/ line.trace # NoPath /\ Alias(line.export, line.trace)
     \/ \E i \in inputs : Alias(line.export, i)

\* The destination is looked at before the description is read, and again with the
\* sources that it names.
CheckDestination ==
  /\ runPc = "destination"
  /\ IF Collides({line.spec, line.openapi}) THEN RunFail("RUN_EXPORT_PATH", <<"path">>)
     ELSE runPc' = "parse" /\ UNCHANGED ending
  /\ UNCHANGED <<line, failures, temp, disk>>

\* Message options and the description; each may be refused.
RunParse ==
  /\ runPc = "parse"
  /\ \/ \E e \in {"RUN_KAFKA_CREDENTIALS", "RUN_SPEC_VALIDATION"} : RunFail(e, <<"parse">>)
     \/ runPc' = "sources" /\ UNCHANGED ending
  /\ UNCHANGED <<line, failures, temp, disk>>

CheckSources ==
  /\ runPc = "sources"
  /\ IF Collides({line.spec, line.openapi, line.source}) THEN RunFail("RUN_EXPORT_PATH", <<"path">>)
     ELSE runPc' = "build" /\ UNCHANGED ending
  /\ UNCHANGED <<line, failures, temp, disk>>

\* Inputs, the OpenAPI files and the engine.
RunBuild ==
  /\ runPc = "build"
  /\ \/ \E e \in {"RUN_INPUT_FORMAT", "RUN_OPENAPI_READ_FILE", "SourceDescriptionLoad"} : RunFail(e, <<"build">>)
     \/ runPc' = "run" /\ UNCHANGED ending
  /\ UNCHANGED <<line, failures, temp, disk>>

\* The workflow, or one step of it, within the time that it is given.
Run ==
  /\ runPc = "run" /\ runPc' = "trace"
  /\ runError' \in {"none", "SuccessCriteriaFailed", "ExecutionTimeout"} /\ diagnostics' \in BOOLEAN
  /\ UNCHANGED <<line, ending, traceError, exportError, temp, disk>>

(***************************************************************************)
(* The artifacts                                                           *)
(***************************************************************************)
After(a) == IF a = "trace" THEN "export" ELSE "report"
Failed(a) ==
  IF a = "trace" THEN traceError' = "trace" /\ UNCHANGED exportError
  ELSE exportError' = "export" /\ UNCHANGED traceError

Skip(a) ==
  /\ runPc = a /\ Destination(a) = NoPath /\ runPc' = After(a)
  /\ UNCHANGED <<line, ending, failures, temp, disk>>

\* The temporary file is created; the name may be taken, or the directory missing.
Create(a) ==
  /\ runPc = a /\ Destination(a) # NoPath /\ temp[a] = "none"
  /\ \/ temp' = [temp EXCEPT ![a] = "partial"] /\ UNCHANGED <<runPc, traceError, exportError>>
     \/ Failed(a) /\ runPc' = After(a) /\ UNCHANGED temp
  /\ UNCHANGED <<line, ending, runError, diagnostics, disk>>

\* Written and synced.  A trace that fails leaves its temporary file, an export removes
\* it if it can.
WriteTemp(a) ==
  /\ runPc = a /\ temp[a] = "partial"
  /\ \/ temp' = [temp EXCEPT ![a] = "whole"] /\ UNCHANGED <<runPc, traceError, exportError>>
     \/ /\ Failed(a) /\ runPc' = After(a)
        /\ temp' = [temp EXCEPT ![a] = IF a = "export" THEN "none" ELSE @]
  /\ UNCHANGED <<line, ending, runError, diagnostics, disk>>

\* The destination is replaced at once, or not at all.
Rename(a) ==
  /\ runPc = a /\ temp[a] = "whole"
  /\ temp' = [temp EXCEPT ![a] = "none"] /\ runPc' = After(a)
  /\ \/ disk' = [disk EXCEPT ![Named(Destination(a))] = a] /\ UNCHANGED <<traceError, exportError>>
     \/ Failed(a) /\ UNCHANGED disk
  /\ UNCHANGED <<line, ending, runError, diagnostics>>

RunWrite(a) == Skip(a) \/ Create(a) \/ WriteTemp(a) \/ Rename(a)

(***************************************************************************)
(* The end                                                                 *)
(***************************************************************************)
Said(error) == IF error = "none" THEN <<>> ELSE <<error>>

\* The last failure gives the code; the message names all of them.  Warnings are
\* errors when they are asked to be.
Report ==
  /\ runPc = "report"
  /\ CASE exportError # "none" ->
            RunFail("RUN_EXPORT_WRITE", Said(runError) \o Said(traceError) \o Said(exportError))
       [] exportError = "none" /\ traceError # "none" ->
            RunFail("RUN_TRACE_WRITE", Said(runError) \o Said(traceError))
       [] exportError = "none" /\ traceError = "none" /\ runError # "none" -> RunFail(runError, <<runError>>)
       [] exportError = "none" /\ traceError = "none" /\ runError = "none" ->
            IF diagnostics /\ line.strict THEN RunFail("RUNTIME_EXPRESSION_DIAGNOSTICS", <<"diagnostics">>)
            ELSE \/ /\ runPc' = "exited" /\ UNCHANGED <<code, causes>>
                    /\ shown' = (IF line.dryRun THEN "requests" ELSE "outputs")
                 \/ RunFail("CLI_OUTPUT_WRITE", <<"output">>)
  /\ UNCHANGED <<line, failures, temp, disk>>

\* The process dies, or is killed.
Crash ==
  /\ runPc \notin {"exited", "crashed"} /\ runPc' = "crashed"
  /\ UNCHANGED <<line, failures, temp, disk, ending>>

RunNext ==
  \/ CheckDestination \/ RunParse \/ CheckSources \/ RunBuild \/ Run \/ Report \/ Crash
  \/ \E a \in Artifacts : RunWrite(a)

RunSpec == RunInit /\ [][RunNext]_runVars

(***************************************************************************)
(* Properties                                                              *)
(***************************************************************************)
Holding == {"input", "old", Absent, "trace", "export"}

RunTypeOK ==
  /\ disk \in [RunFiles -> Holding] /\ temp \in [Artifacts -> {"none", "partial", "whole"}]
  /\ shown \in {"nothing", "outputs", "requests"}
  /\ (code # "none") => runPc = "exited" /\ shown = "nothing" /\ causes # <<>>

\* No destination is left half written, whenever the process dies, and a file that was
\* there is whole: what it held, or what was written.
NoTornArtifact ==
  \A f \in RunFiles :
    \/ disk[f] \in {"input", "old", Absent}
    \/ \E a \in Artifacts : Destination(a) # NoPath /\ f = Named(Destination(a)) /\ disk[f] = a

\* The inputs of the run survive it, by whatever name the export is given.  Only a trace
\* that is asked for at the place of an input takes that place, and then as a whole.
InputsSurvive ==
  \A n \in {line.spec, line.openapi, line.source} :
    \/ disk[Named(n)] = "input"
    \/ line.trace # NoPath /\ Alias(n, line.trace) /\ disk[Named(n)] = "trace"

\* The trace is still there when the export has been written.
TraceSurvives ==
  runPc \in {"export", "report", "exited"} /\ line.trace # NoPath /\ traceError = "none"
    /\ code \notin {"RUN_EXPORT_PATH", "RUN_KAFKA_CREDENTIALS", "RUN_SPEC_VALIDATION", "RUN_INPUT_FORMAT",
                    "RUN_OPENAPI_READ_FILE", "SourceDescriptionLoad"}
    => disk[Named(line.trace)] = "trace"

\* A command that exits without an error has run the workflow without one, and has
\* written all it was asked to write.
SuccessIsWhole ==
  runPc = "exited" /\ code = "none" =>
    /\ runError = "none" /\ shown # "nothing" /\ ~(diagnostics /\ line.strict)
    /\ \A a \in Artifacts : Destination(a) # NoPath => disk[Named(Destination(a))] = a

\* A failure of the run is told even if the trace and the export fail behind it.
NoFailureHidden ==
  runPc = "exited" =>
    \A e \in {runError, traceError, exportError} \ {"none"} : \E n \in DOMAIN causes : causes[n] = e

\* No temporary file of an export is left when the command exits.
NoExportTempLeft == runPc = "exited" => temp["export"] = "none"

\* The exit of the run command is the truth about the run and its artifacts, and the run
\* loses no input but one that the trace is asked for in place of: only the export is
\* compared with the inputs (run_workflow, write_atomic, reject_run_input_path_alias).
RunTellsTruth ==
  /\ RunTypeOK /\ NoTornArtifact /\ InputsSurvive /\ TraceSurvives /\ SuccessIsWhole
  /\ NoFailureHidden /\ NoExportTempLeft
=============================================================================
