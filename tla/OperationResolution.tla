---------------------------- MODULE OperationResolution ----------------------------
(***************************************************************************)
(* Which request a step's operationId or operationPath names: the          *)
(* operations of the bound OpenAPI documents are indexed by operationId    *)
(* when the engine is built, and a step is resolved through the index, or  *)
(* through a pointer into a document, to a method, a path and the server   *)
(* that the operation, its path item or its document declares.             *)
(***************************************************************************)
EXTENDS Integers, Sequences, FiniteSets

CONSTANTS
  Catalogues,        (* sequences of sources: [name, type, document]                                      *)
  OperationTargets,  (* what the steps name                                                               *)
  FixedMethods, Wire(_), Tokens,
                     (* methods with a field of their own, as they are sent; methods that are HTTP tokens *)
  OperationNone

\* A document is [servers, items]; an item [path, routable, ref, servers, fixed, additional],
\* where fixed and additional are functions from methods to operations, and routable says
\* that the path begins with "/"; an operation is [id, ref, servers].  Servers are absent,
\* empty, not an array, without a url, relative, or a base.
Undeclared == {"absent", "empty"}
Issues == {"not an array", "no url", "relative"}

OperationErrors ==
  {"UnsupportedOperationIdForm", "UnsupportedOperationPathForm", "SourceDescriptionNotFound",
   "UnsupportedSourceDescriptionType", "OperationIdNotFound", "OperationIdAmbiguous", "SourceDescriptionParse"}

\* The names of the sources differ, and paths are the keys of a mapping.
ASSUME CatalogueAssumption ==
  /\ \A c \in Catalogues :
       /\ Len(c) \in Nat /\ DOMAIN c = 1 .. Len(c)
       /\ \A n, m \in DOMAIN c : c[n].name = c[m].name => n = m
       /\ \A n \in {m \in DOMAIN c : c[m].type = "openapi"} :
            /\ c[n].document.servers \notin Undeclared \union Issues
            /\ \A i \in c[n].document.items :
                 /\ DOMAIN i.fixed \subseteq FixedMethods
                 /\ \A j \in c[n].document.items : i.path = j.path => i = j
  /\ \A t \in OperationTargets : t.form \in {"bare", "qualified"} => t.id # OperationNone
  /\ OperationNone \notin OperationErrors

VARIABLES
  sources,     (* the catalogue; it never changes                           *)
  pending,     (* the positions that are not indexed yet                    *)
  index,       (* by id: the entries, in the order of the documents         *)
  answer       (* the last target, and what it was resolved to              *)

operationVars == <<sources, pending, index, answer>>

Openapi == {n \in DOMAIN sources : sources[n].type = "openapi"}
Kept(n) == sources[n].document

\* Where an operation may stand in a document.
Positions(n) ==
  UNION {{[source |-> n, item |-> i, method |-> m, additional |-> FALSE] : m \in DOMAIN i.fixed}
         \union {[source |-> n, item |-> i, method |-> m, additional |-> TRUE] : m \in DOMAIN i.additional} :
           i \in Kept(n).items}
OperationAt(p) == IF p.additional THEN p.item.additional[p.method] ELSE p.item.fixed[p.method]

(***************************************************************************)
(* Servers                                                                 *)
(***************************************************************************)
\* mutant: a level with an unusable server passes to the one above
OperationServerLenient(item, operation) ==
  IF operation.servers \notin Undeclared \union Issues THEN operation.servers
  ELSE IF item.servers \notin Undeclared \union Issues THEN item.servers ELSE "absent"

\* The lowest level that declares servers decides, even if none is usable; if neither
\* does, they are inherited.
OperationServer(item, operation) ==
  IF operation.servers \notin Undeclared THEN operation.servers ELSE item.servers

(***************************************************************************)
(* Entries                                                                 *)
(***************************************************************************)
\* The operation can be sent: nothing on the way is a reference, and an additional method
\* is a token that is not one of the fixed methods.
IsRoutable(p) ==
  /\ p.item.routable /\ ~p.item.ref /\ ~OperationAt(p).ref
  /\ p.additional => p.method \in Tokens /\ p.method \notin {Wire(m) : m \in FixedMethods}

OperationEntry(p) ==
  [method |-> IF p.additional THEN p.method ELSE Wire(p.method), path |-> p.item.path,
   source |-> p.source, server |-> OperationServer(p.item, OperationAt(p))]

Of(id) == IF id \in DOMAIN index THEN index[id] ELSE <<>>

OperationInit ==
  /\ sources \in Catalogues
  /\ pending = UNION {Positions(n) : n \in Openapi}
  /\ index = <<>> /\ answer = OperationNone

\* The documents are indexed one after the other, each in its order.
IndexOperation ==
  \E p \in pending :
    LET id == OperationAt(p).id IN
    /\ \A q \in pending : p.source <= q.source
    /\ pending' = pending \ {p}
    /\ index' = IF id = OperationNone \/ ~IsRoutable(p) THEN index
                ELSE [i \in DOMAIN index \union {id} |-> IF i = id THEN Append(Of(id), OperationEntry(p)) ELSE index[i]]
    /\ UNCHANGED <<sources, answer>>

(***************************************************************************)
(* Resolution                                                              *)
(***************************************************************************)
OperationError(kind) == [error |-> kind]

Projected(e) ==
  LET base == IF e.server \in Undeclared THEN Kept(e.source).servers ELSE e.server IN
  IF base \in Issues THEN OperationError("SourceDescriptionParse")
  ELSE [error |-> OperationNone, method |-> e.method, path |-> e.path, base |-> base]

Sourced(name) == {n \in DOMAIN sources : sources[n].name = name}

\* The entries of an id that are of source n, by their places.
MatchedPlaces(id, n) == {k \in DOMAIN Of(id) : Of(id)[k].source = n}

\* Only the operations of the named source take part, and exactly one of them must have
\* the id.
ResolveInSource(name, id) ==
  IF Sourced(name) = {} THEN OperationError("SourceDescriptionNotFound")
  ELSE LET n == CHOOSE n \in Sourced(name) : TRUE
           places == MatchedPlaces(id, n) IN
       CASE sources[n].type # "openapi" -> OperationError("UnsupportedSourceDescriptionType")
         [] sources[n].type = "openapi" /\ places = {} -> OperationError("OperationIdNotFound")
         [] sources[n].type = "openapi" /\ Cardinality(places) = 1 ->
              Projected(Of(id)[CHOOSE k \in places : TRUE])
         [] OTHER -> OperationError("OperationIdAmbiguous")

\* A bare id is refused by the number of sources, whatever their documents hold.
ResolveBare(id) ==
  LET named == {n \in DOMAIN sources : sources[n].type # "arazzo"} IN
  IF named = {} THEN OperationError("OperationIdNotFound")
  ELSE IF Cardinality(named) = 1 THEN ResolveInSource(sources[CHOOSE n \in named : TRUE].name, id)
  ELSE OperationError("OperationIdAmbiguous")

\* A pointer selects a position of the named document.
ResolveOperationPath(t) ==
  IF Sourced(t.source) = {} THEN OperationError("SourceDescriptionNotFound")
  ELSE LET n == CHOOSE n \in Sourced(t.source) : TRUE IN
       IF sources[n].type # "openapi" THEN OperationError("UnsupportedSourceDescriptionType")
       ELSE LET at == {p \in Positions(n) : /\ p.item.path = t.path /\ p.method = t.method
                                            /\ p.additional = t.additional} IN
            IF \E p \in at : IsRoutable(p) THEN Projected(OperationEntry(CHOOSE p \in at : IsRoutable(p)))
            ELSE OperationError("SourceDescriptionParse")

Resolution(t) ==
  CASE t.form = "malformed id" -> OperationError("UnsupportedOperationIdForm")
    [] t.form = "malformed path" -> OperationError("UnsupportedOperationPathForm")
    [] t.form = "bare" -> ResolveBare(t.id)
    [] t.form = "qualified" -> ResolveInSource(t.source, t.id)
    [] t.form = "pointer" -> ResolveOperationPath(t)

\* A step resolves its target as often as it is attempted.
Resolve ==
  /\ pending = {}
  /\ \E t \in OperationTargets : answer' = [target |-> t, to |-> Resolution(t)]
  /\ UNCHANGED <<sources, pending, index>>

OperationNext == IndexOperation \/ Resolve

OperationSpec == OperationInit /\ [][OperationNext]_operationVars

(***************************************************************************)
(* Properties                                                              *)
(***************************************************************************)
OperationResolutionTypeOK ==
  /\ \A id \in DOMAIN index : index[id] # <<>> /\ id # OperationNone
  /\ answer # OperationNone => answer.target \in OperationTargets /\ pending = {}

\* The operations that a request can be built for, told from the documents alone.
Declaring(n, id) ==
  {p \in Positions(n) : /\ OperationAt(p).id = id /\ ~OperationAt(p).ref /\ ~p.item.ref /\ p.item.routable
                        /\ p.additional => p.method \in Tokens \ {Wire(m) : m \in FixedMethods}}

\* No definition is lost: an id leads to a request exactly if one operation of the source
\* has it, and two definitions are never decided by the order of the documents.
ExactlyOneDecides ==
  answer # OperationNone /\ answer.target.form = "qualified" =>
    \A n \in Sourced(answer.target.source) : sources[n].type = "openapi" =>
      LET declaring == Declaring(n, answer.target.id) IN
      /\ answer.to.error = "OperationIdAmbiguous" <=> Cardinality(declaring) > 1
      /\ answer.to.error = "OperationIdNotFound" <=> declaring = {}

\* The request goes to a server of the named source, never to that of another one: the one
\* that the lowest level declares.
OwnServer ==
  answer # OperationNone /\ answer.to.error = OperationNone /\ answer.target.form \in {"qualified", "pointer"} =>
    \E n \in Sourced(answer.target.source) : \E p \in Positions(n) :
      /\ p.item.path = answer.to.path
      /\ \/ OperationAt(p).servers = answer.to.base
         \/ OperationAt(p).servers \in Undeclared /\ p.item.servers = answer.to.base
         \/ {OperationAt(p).servers, p.item.servers} \subseteq Undeclared /\ Kept(n).servers = answer.to.base

\* A pointer to an operation names the same request as its operationId, or both are
\* refused for its server, or the id is not its own alone.
PathAgreesWithId ==
  answer # OperationNone /\ answer.target.form = "pointer" =>
    \A n \in Sourced(answer.target.source) : sources[n].type = "openapi" =>
      \A p \in Positions(n) :
        /\ p.item.path = answer.target.path /\ p.method = answer.target.method
        /\ p.additional = answer.target.additional /\ OperationAt(p).id # OperationNone
        => LET byId == ResolveInSource(answer.target.source, OperationAt(p).id) IN
           byId.error \in {"OperationIdAmbiguous", "OperationIdNotFound"} \/ byId = answer.to
              \/ ~IsRoutable(p)

\* A bare id is resolved only where no other source could have been meant, whatever the
\* other documents hold.
BareNamesOnlySource ==
  answer # OperationNone /\ answer.target.form = "bare" /\ answer.to.error = OperationNone =>
    \E n \in DOMAIN sources : /\ answer.to = ResolveInSource(sources[n].name, answer.target.id)
                              /\ \A m \in DOMAIN sources \ {n} : sources[m].type = "arazzo"

\* The method of an additional operation is sent as it is written.
AdditionalAsWritten ==
  answer # OperationNone /\ answer.to.error = OperationNone /\ answer.target.form = "pointer" /\ answer.target.additional
    => answer.to.method = answer.target.method

\* A step's target is one operation, and is sent to that operation's server.
OperationIsMeant ==
  /\ OperationResolutionTypeOK /\ ExactlyOneDecides /\ OwnServer /\ PathAgreesWithId
  /\ BareNamesOnlySource /\ AdditionalAsWritten
=============================================================================
