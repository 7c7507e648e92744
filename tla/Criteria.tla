-------------------------------- MODULE Criteria --------------------------------
(***************************************************************************)
(* A criterion or a selector with the type it declares: what the validator *)
(* says of it, and what the runtime makes of it, step by step.  Conditions *)
(* are interpolated, JSONPath is admitted before there is a context, the   *)
(* context is resolved, and only then is anything decided.                 *)
(***************************************************************************)
EXTENDS Integers, Sequences, FiniteSets

CONSTANT Versions      (* what the version of a type may say, "" if nothing  *)

(***************************************************************************)
(* What is written, and what the languages and the context would answer    *)
(***************************************************************************)
Names == {"simple", "regex", "jsonpath", "xpath", "jsonpointer", "other"}
Types == {[form |-> "none", name |-> "simple", version |-> ""]}
         \cup [form : {"name"}, name : Names, version : {""}]
         \cup [form : {"object"}, name : Names, version : Versions]

Written ==
  [site : {"criterion", "selector"},
   type : Types,
   condition : {"blank", "valid", "malformed", "braces", "bad braces"},
   substitutes : {"valid", "malformed", "warns", "other"},   \* what the braces give
   context : {"blank", "found", "null", "invalid"},
   response : {"json", "text", "none"},
   answer : {"holds", "fails", "error"}]

\* A selector has a type, and a response is only asked where no context is given.
Sensible(v) ==
  /\ v.site = "selector" => v.type.form # "none" /\ v.condition \notin {"braces", "bad braces"}
  /\ v.condition # "braces" => v.substitutes = "valid"
  /\ v.context # "blank" => v.response = "none"

VARIABLES
  it,
  criteriaPhase,  (* "validated", "prepared", "resolved" or "decided"      *)
  diagnostics,    (* of the validator                                      *)
  prepared,       (* the condition after interpolation                     *)
  query,          (* a JSONPath: "none", "admitted" or "refused"           *)
  context,        (* "null" or "value"                                     *)
  error, warned, matched

criteriaVars == <<it, criteriaPhase, diagnostics, prepared, query, context, error, warned, matched>>

(***************************************************************************)
(* The validator                                                           *)
(***************************************************************************)
Trimmed(version) ==
  CASE version = "blank" -> "" [] version = "padded xpath-10" -> "xpath-10" [] OTHER -> version

VersionSupported(name, version) ==
  \/ name = "jsonpath" /\ version \in {"rfc9535", "draft-goessner-dispatch-jsonpath-00"}
  \/ name = "xpath" /\ version \in {"xpath-31", "xpath-30", "xpath-20", "xpath-10"}
  \/ name = "jsonpointer" /\ version = "rfc6901"

AllowedNames(site) ==
  IF site = "selector" THEN {"jsonpath", "xpath", "jsonpointer"} ELSE {"simple", "regex", "jsonpath", "xpath"}
AllowedObjects(site) ==
  IF site = "selector" THEN {"jsonpath", "xpath", "jsonpointer"} ELSE {"jsonpath", "xpath"}

\* Whether an XPath of this version is warned of: all but one are.
UnexecutableXPath(version) == version # "xpath-10"

TypeDiagnostics(site, type) ==
  LET version == Trimmed(type.version)
  IN  CASE type.form = "none" -> {}
        [] type.form = "name" ->
             IF type.name \notin AllowedNames(site) THEN {"type"}
             ELSE IF type.name = "xpath" /\ UnexecutableXPath("") THEN {"xpath advisory"} ELSE {}
        [] type.form = "object" ->
             IF type.name \notin AllowedObjects(site) THEN {"type"}
             ELSE IF version = "" THEN {"version is required"}
             ELSE IF ~VersionSupported(type.name, version) THEN {"version"}
             ELSE IF type.name = "xpath" /\ UnexecutableXPath(version) THEN {"xpath advisory"} ELSE {}

ContextDiagnostics(v) ==
  IF v.context = "invalid" THEN {"context syntax"}
  ELSE IF v.context = "blank" /\ (v.site = "selector" \/ v.type.form # "none") THEN {"context is required"} ELSE {}

ConditionDiagnostics(v) ==
  CASE v.condition = "blank" -> IF v.site = "selector" /\ v.type.name = "jsonpointer" THEN {} ELSE {"condition is required"}
    [] v.site = "criterion" /\ v.type.name = "simple" /\ v.condition # "valid" -> {"condition syntax"}
    [] v.site = "criterion" /\ v.type.name \in {"regex", "jsonpath", "xpath"} /\ v.condition = "bad braces" -> {"template syntax"}
    [] OTHER -> {}

Diagnose(v) == ContextDiagnostics(v) \cup ConditionDiagnostics(v) \cup TypeDiagnostics(v.site, v.type)

CriteriaInit ==
  /\ it \in {v \in Written : Sensible(v)}
  /\ diagnostics = Diagnose(it) /\ criteriaPhase = "validated"
  /\ prepared = "none" /\ query = "none" /\ context = "null"
  /\ error = "none" /\ warned = FALSE /\ matched = FALSE

(***************************************************************************)
(* The runtime                                                             *)
(***************************************************************************)
Name == it.type.name
\* A version is taken as it is written, if anything is.
Version == IF it.type.form = "object" THEN it.type.version ELSE ""
CriteriaText == CASE it.condition \in {"blank", "malformed"} -> "malformed"
          [] it.condition = "valid" -> "valid"
          [] OTHER -> it.substitutes

Interpolated == it.site = "criterion" /\ Name \in {"regex", "jsonpath", "xpath"}
                /\ it.condition \in {"braces", "bad braces"}

\* What goes wrong in the braces.
InterpolationFails == it.condition = "bad braces" \/ it.substitutes \in {"warns", "other"}

Admit(text) == IF Version \in {"", "rfc9535"} /\ text = "valid" THEN "admitted" ELSE "refused"

\* mutant: what the braces gave is used although it warned
PrepareAnyhow ==
  /\ criteriaPhase = "validated" /\ criteriaPhase' = "prepared"
  /\ prepared' = "valid"
  /\ query' = IF Name = "jsonpath" THEN Admit("valid") ELSE "none"
  /\ warned' = (Interpolated /\ (it.condition = "bad braces" \/ it.substitutes = "warns"))
  /\ UNCHANGED <<it, diagnostics, context, error, matched>>

\* The condition is interpolated where its type asks for it, and a JSONPath is
\* admitted: its version, its size and its syntax.
Prepare ==
  /\ criteriaPhase = "validated" /\ criteriaPhase' = "prepared"
  /\ IF Interpolated /\ InterpolationFails
     THEN /\ prepared' = "failed" /\ query' = "none"
          /\ warned' = (it.condition = "bad braces" \/ it.substitutes = "warns")
     ELSE /\ prepared' = (IF Interpolated THEN it.substitutes ELSE IF it.condition = "valid" THEN "valid" ELSE "malformed")
          /\ query' = IF Name = "jsonpath" THEN Admit(prepared') ELSE "none"
          /\ UNCHANGED warned
  /\ UNCHANGED <<it, diagnostics, context, error, matched>>

\* A criterion without a context has the body of the response, a selector has none.
ResolveContext ==
  /\ criteriaPhase = "prepared" /\ criteriaPhase' = "resolved"
  /\ ~(it.site = "selector" /\ query = "refused")
  /\ context' = IF it.context = "found" \/ (it.site = "criterion" /\ it.context = "blank" /\ it.response # "none")
                THEN "value" ELSE "null"
  /\ warned' = (warned \/ it.context = "invalid" \/ (it.site = "selector" /\ it.context = "blank"))
  /\ UNCHANGED <<it, diagnostics, prepared, query, error, matched>>

Decide(answer, why) ==
  /\ criteriaPhase' = "decided" /\ matched' = answer /\ error' = why
  /\ UNCHANGED <<it, diagnostics, prepared, query, context, warned>>

By(answer) == IF answer = "error" THEN Decide(FALSE, "evaluation") ELSE Decide(answer = "holds", "none")

NotPrepared == criteriaPhase = "resolved" /\ prepared = "failed" /\ Decide(FALSE, "interpolation")

DecideJsonPath ==
  /\ criteriaPhase = "resolved" /\ it.site = "criterion" /\ prepared # "failed" /\ Name = "jsonpath"
  /\ CASE query = "refused" -> Decide(FALSE, "query")
       [] query # "refused" /\ context = "null" -> Decide(FALSE, "none")
       [] OTHER -> By(it.answer)

DecideRegex ==
  /\ criteriaPhase = "resolved" /\ it.site = "criterion" /\ prepared # "failed" /\ Name = "regex"
  /\ CASE context = "null" -> Decide(FALSE, "none")
       [] context # "null" /\ prepared = "malformed" -> Decide(FALSE, "regex")
       [] OTHER -> By(IF it.answer = "error" THEN "fails" ELSE it.answer)

DecideXPath ==
  /\ criteriaPhase = "resolved" /\ it.site = "criterion" /\ prepared # "failed" /\ Name = "xpath"
  /\ CASE context = "null" -> Decide(FALSE, "none")
       [] context # "null" /\ Version # "xpath-10" -> Decide(FALSE, "version")
       [] context # "null" /\ Version = "xpath-10" /\ prepared = "malformed" -> Decide(FALSE, "xpath")
       [] OTHER -> By(it.answer)

\* Every other type is a simple condition, with what it looks up for a context.
DecideSimple ==
  /\ criteriaPhase = "resolved" /\ it.site = "criterion" /\ Name \notin {"regex", "jsonpath", "xpath"}
  /\ IF it.condition # "valid" THEN Decide(FALSE, "simple") ELSE By(it.answer)

\* A selector that selects: nothing at all when its context did not resolve.
SelectorRefused ==
  criteriaPhase = "prepared" /\ it.site = "selector" /\ query = "refused" /\ Decide(FALSE, "query")
Select ==
  /\ criteriaPhase = "resolved" /\ it.site = "selector"
  /\ CASE warned -> Decide(FALSE, "context")
       [] ~warned /\ Name = "jsonpath" -> By(it.answer)
       [] ~warned /\ Name = "jsonpointer" ->
            IF Version \notin {"", "rfc6901"} THEN Decide(FALSE, "version")
            ELSE IF it.condition = "malformed" THEN Decide(FALSE, "pointer")
            ELSE Decide(it.answer = "holds", "none")
       [] ~warned /\ Name = "xpath" ->
            IF Version # "xpath-10" THEN Decide(FALSE, "version")
            ELSE IF context = "null" \/ it.condition # "valid" THEN Decide(FALSE, "xpath")
            ELSE By(it.answer)
       [] OTHER -> Decide(FALSE, "type")

CriteriaNext == \/ Prepare \/ ResolveContext \/ NotPrepared \/ DecideJsonPath \/ DecideRegex
        \/ DecideXPath \/ DecideSimple \/ SelectorRefused \/ Select
CriteriaSpec == CriteriaInit /\ [][CriteriaNext]_criteriaVars

(***************************************************************************)
(* Properties                                                              *)
(***************************************************************************)
CriteriaDecided == criteriaPhase = "decided"
Errors == diagnostics \ {"xpath advisory"}

\* What fails to be evaluated does not match.
CriterionTypeOK ==
  /\ criteriaPhase \in {"validated", "prepared", "resolved", "decided"}
  /\ query \in {"none", "admitted", "refused"} /\ context \in {"null", "value"}
  /\ error # "none" => ~matched
  /\ matched => CriteriaDecided

\* A match is one of the language that is declared, in a version there is an
\* engine for, of a condition that was interpolated without a warning, in a
\* context that is there.
MatchesForReason ==
  (matched /\ Name \in {"regex", "jsonpath", "xpath"}) =>
     /\ it.answer = "holds"
     /\ it.site = "criterion" => CriteriaText = "valid" /\ ~warned /\ context = "value"
     /\ Name = "xpath" => Version = "xpath-10"
     /\ Name = "jsonpath" => Version \in {"", "rfc9535"}

\* A JSONPath that is malformed, or of another version, is reported whatever the
\* context turns out to be; one that is neither has no error for want of one.
JsonPathIsAdmittedFirst ==
  (CriteriaDecided /\ Name = "jsonpath" /\ prepared # "failed" /\ it.site = "criterion") =>
     /\ (prepared # "valid" \/ Version \notin {"", "rfc9535"}) => error = "query"
     /\ (prepared = "valid" /\ Version \in {"", "rfc9535"} /\ context = "null") => error = "none"

\* The advisory of the validator is about exactly the XPaths that the runtime has
\* no engine for (unexecutable_xpath_version).
AdvisoryIsExact ==
  (Name = "xpath" /\ Errors = {}) => ("xpath advisory" \in diagnostics <=> Version # "xpath-10")

\* What passes validation without an advisory does not fail for its type, nor for
\* its version, except for the one draft of JSONPath that is accepted as metadata.
AcceptedIsExecuted ==
  (CriteriaDecided /\ diagnostics = {} /\ Version # "draft-goessner-dispatch-jsonpath-00") =>
     /\ error \notin {"type", "version", "simple"}
     /\ error = "query" => prepared # "valid"

\* What the validator accepts and what the runtime evaluates are the same languages and
\* versions, and a criterion that cannot be evaluated does not match.
CriteriaFailClosed ==
  CriterionTypeOK /\ MatchesForReason /\ JsonPathIsAdmittedFirst /\ AdvisoryIsExact /\ AcceptedIsExecuted
=================================================================================
