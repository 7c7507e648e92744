----------------------------- MODULE DocumentBinding -----------------------------
(***************************************************************************)
(* How the engine finds the documents that a description names: each       *)
(* provided document gets an identity, the description a base URI, and     *)
(* each source is resolved and bound, in order, to a provided document or  *)
(* to a file.  AsyncAPI sources are bound later, when a step receives.     *)
(*                                                                         *)
(* The caller has listed the files beforehand, to gate them (the MCP       *)
(* server) or to keep them from being overwritten (--export-run).          *)
(***************************************************************************)
EXTENDS Integers, Sequences, SequencesExt

CONSTANTS
  Descriptions,   (* [self, sources]: a reference, a sequence of sources     *)
  Directories,    (* where the description was read, or None                 *)
  Collections,    (* sequences of provided documents [self, path, content]   *)
  Disks,          (* by path: the content of a file, or Missing              *)
  BindingNone, Missing

\* A URI is a scheme, a host and the segments of its path, without its fragment.  A
\* reference is absolute, relative (a path, perhaps empty), or one that cannot be parsed.
\* A source is [type, ref].  A content is "usable", "not YAML" or "no server".
\* A relative reference names a document: its last segment is none of the dots.
IsPath(path) == path \in Seq(ToSet(path))
NamesDocument(ref) == IsPath(ref.path) /\ (ref.path # <<>> => Last(ref.path) \notin {".", ".."})

ASSUME BindingAssumption ==
  /\ \A d \in Descriptions :
       /\ Len(d.sources) \in Nat /\ DOMAIN d.sources = 1 .. Len(d.sources)
       /\ \A n \in DOMAIN d.sources :
            /\ d.sources[n].type \in {"openapi", "asyncapi", "arazzo"}
            /\ d.sources[n].ref.form = "relative" => NamesDocument(d.sources[n].ref)
       /\ d.self # BindingNone /\ d.self.form = "relative" => NamesDocument(d.self)
       /\ d.self # BindingNone /\ d.self.form = "absolute" =>
            d.self.uri = [scheme |-> d.self.uri.scheme, host |-> d.self.uri.host, path |-> d.self.uri.path]
  /\ \A dir \in Directories \ {BindingNone} : IsPath(dir)
  /\ \A c \in Collections : Len(c) \in Nat /\ DOMAIN c = 1 .. Len(c)

VARIABLES
  description, directory, provided, disk,(* these never change                                       *)
  pc,          (* "identify", "bind", "built", or the error of the build   *)
  identities,  (* of the provided documents so far                         *)
  at,          (* the source that is bound next                            *)
  bound,       (* by source: what it is bound to                           *)
  reads,       (* the files that were read                                 *)
  kept         (* the sources that have a request base                     *)

bindingVars == <<description, directory, provided, disk, pc, identities, at, bound, reads, kept>>
given == <<description, directory, provided, disk>>

Sources == description.sources

(***************************************************************************)
(* References                                                              *)
(***************************************************************************)
IsRelative(ref) == ref.form \in {"relative", "unjoinable"}

\* A segment ".." drops the one before it, if there is one.
Onto(done, segment) ==
  IF segment = ".." THEN (IF done = <<>> THEN <<>> ELSE Front(done))
  ELSE IF segment = "." THEN done ELSE Append(done, segment)

Normalized(path) ==
  LET upTo[n \in 0 .. Len(path)] == IF n = 0 THEN <<>> ELSE Onto(upTo[n - 1], path[n])
  IN  upTo

RemoveDots(path) == Normalized(path)[Len(path)]

\* The last segment of the base gives way; a base without a hierarchy takes none.
Join(base, ref) ==
  IF base = BindingNone \/ ref.form # "relative" \/ base.scheme = "urn" THEN BindingNone
  ELSE IF ref.path = <<>> THEN base
  ELSE [base EXCEPT !.path = RemoveDots(Front(@) \o ref.path)]

FileUri(path) == [scheme |-> "file", host |-> "", path |-> RemoveDots(path)]
DirectoryUri(dir) == IF dir = BindingNone THEN BindingNone ELSE FileUri(Append(RemoveDots(dir), ""))

BaseUri(self, retrieval) ==
  IF self = BindingNone THEN retrieval
  ELSE IF self.form = "absolute" THEN self.uri ELSE Join(retrieval, self)

Base == BaseUri(description.self, DirectoryUri(directory))

BindingResolved(ref) == IF ref.form = "absolute" THEN ref.uri ELSE IF IsRelative(ref) THEN Join(Base, ref) ELSE BindingNone

\* The URL library looks at the host and the path, and not at the scheme.
ToFilePath(uri) == IF uri.scheme = "urn" \/ uri.host \notin {"", "localhost"} THEN BindingNone ELSE uri.path

\* The name that a provided document answers to, if any.
BindingIdentity(document) ==
  IF document.self # BindingNone /\ document.self.form = "absolute" THEN document.self.uri
  ELSE IF document.path # BindingNone THEN FileUri(document.path) ELSE BindingNone

\* The files that the caller is told of.  It has a directory: that of the description.
LocalSourcePaths ==
  LET listed == {n \in DOMAIN Sources : /\ Sources[n].type \in {"openapi", "asyncapi"}
                                        /\ BindingResolved(Sources[n].ref) # BindingNone}
  IN  {ToFilePath(BindingResolved(Sources[n].ref)) : n \in listed} \ {BindingNone}

(***************************************************************************)
(* Building the engine                                                     *)
(***************************************************************************)
BindingInit ==
  /\ description \in Descriptions /\ directory \in Directories
  /\ provided \in Collections /\ disk \in Disks
  /\ pc = "identify" /\ identities = <<>> /\ at = 1 /\ bound = <<>> /\ reads = {} /\ kept = {}

\* All the documents have an identity before any source is bound.
Identify ==
  /\ pc = "identify" /\ Len(identities) < Len(provided)
  /\ identities' = Append(identities, BindingIdentity(provided[Len(identities) + 1]))
  /\ UNCHANGED <<given, pc, at, bound, reads, kept>>

Identified ==
  /\ pc = "identify" /\ Len(identities) = Len(provided) /\ pc' = "bind"
  /\ UNCHANGED <<given, identities, at, bound, reads, kept>>

RefuseSource(why) == pc' = why /\ UNCHANGED <<given, identities, at, bound, kept>>

\* The document is parsed, and its servers give the requests a base.
TakeDocument(label, content) ==
  IF content = "usable"
  THEN bound' = Append(bound, label) /\ kept' = kept \union {at} /\ at' = at + 1
       /\ UNCHANGED <<given, identities, pc>>
  ELSE RefuseSource("SourceDescriptionParse")

\* The other types of sources are left to their transport.
Leave ==
  /\ pc = "bind" /\ at <= Len(Sources) /\ Sources[at].type # "openapi"
  /\ bound' = Append(bound, [by |-> "none", is |-> BindingNone]) /\ at' = at + 1
  /\ UNCHANGED <<given, pc, identities, reads, kept>>

\* The first provided document with the identity is taken, else the file is read.
\* Nothing else is retrieved.
BindingBind ==
  /\ pc = "bind" /\ at <= Len(Sources) /\ Sources[at].type = "openapi"
  /\ LET ref == Sources[at].ref
         uri == BindingResolved(ref)
         same == {n \in DOMAIN identities : identities[n] = uri} IN
     IF uri = BindingNone
     THEN /\ UNCHANGED reads
          /\ RefuseSource(IF IsRelative(ref) THEN "SourceDescriptionLoad" ELSE "SourceDescriptionNotFound")
     ELSE IF same # {}
     THEN LET n == CHOOSE n \in same : \A m \in same : n <= m IN
          TakeDocument([by |-> "provided", is |-> n], provided[n].content) /\ UNCHANGED reads
     ELSE IF uri.scheme # "file" \/ ToFilePath(uri) = BindingNone
     THEN RefuseSource("SourceDescriptionNotFound") /\ UNCHANGED reads
     ELSE /\ reads' = reads \union {ToFilePath(uri)}
          /\ IF disk[ToFilePath(uri)] = Missing THEN RefuseSource("SourceDescriptionLoad")
             ELSE TakeDocument([by |-> "file", is |-> ToFilePath(uri)], disk[ToFilePath(uri)])

Built ==
  /\ pc = "bind" /\ at > Len(Sources) /\ pc' = "built"
  /\ UNCHANGED <<given, identities, at, bound, reads, kept>>

\* A step that receives reads the file of its source, whatever was provided.
ReadToReceive ==
  /\ pc = "built"
  /\ \E n \in DOMAIN Sources :
       /\ Sources[n].type = "asyncapi"
       /\ LET uri == BindingResolved(Sources[n].ref) IN
          /\ uri # BindingNone /\ uri.scheme = "file" /\ ToFilePath(uri) # BindingNone
          /\ reads' = reads \union {ToFilePath(uri)}
  /\ UNCHANGED <<given, pc, identities, at, bound, kept>>

BindingNext == Identify \/ Identified \/ Leave \/ BindingBind \/ Built \/ ReadToReceive

BindingSpec == BindingInit /\ [][BindingNext]_bindingVars

(***************************************************************************)
(* Properties                                                              *)
(***************************************************************************)
BindingErrors == {"SourceDescriptionLoad", "SourceDescriptionNotFound", "SourceDescriptionParse"}

BindingTypeOK ==
  /\ pc \in {"identify", "bind", "built"} \union BindingErrors /\ at \in 1..Len(Sources) + 1
  /\ Len(bound) = at - 1 /\ kept \subseteq DOMAIN bound
  /\ \A n \in DOMAIN bound : bound[n].by # "none" <=> n \in kept

\* Every file that the engine reads was in the list that the caller could look at, when
\* it builds and when a step receives, wherever $self moves the references.
EveryReadListed == directory # BindingNone => reads \subseteq LocalSourcePaths

\* A source whose reference is the identity of a provided document is bound to it, to
\* the first if there are several, and no file is read for it.
IdentityComesFirst ==
  \A n \in DOMAIN bound : Sources[n].type = "openapi" =>
    LET same == {m \in DOMAIN provided : BindingIdentity(provided[m]) = BindingResolved(Sources[n].ref)} IN
    same # {} => bound[n] = [by |-> "provided", is |-> CHOOSE m \in same : \A k \in same : m <= k]

\* An engine that was built has a base for the requests of each OpenAPI source: the
\* internal error of an operation without one cannot occur.
EveryOpenApiBased == pc = "built" => kept = {n \in DOMAIN Sources : Sources[n].type = "openapi"}

\* Where a relative reference leads is told by $self, if that is absolute, wherever the
\* description was read.
SelfDecides ==
  \A n \in DOMAIN Sources :
    LET uri == BindingResolved(Sources[n].ref) IN
    /\ Sources[n].ref.form = "relative" /\ uri # BindingNone
    /\ description.self # BindingNone /\ description.self.form = "absolute"
    => uri.scheme = description.self.uri.scheme /\ uri.host = description.self.uri.host

\* Without $self it leads to the file of that path, seen from the directory.
DirectoryDecides ==
  \A n \in DOMAIN Sources :
    LET ref == Sources[n].ref
        uri == BindingResolved(ref) IN
    ref.form = "relative" /\ ref.path # <<>> /\ uri # BindingNone /\ description.self = BindingNone
      => uri = FileUri(directory \o ref.path)

\* What is said of the binding, wherever the directory is.
BindingIsTold == BindingTypeOK /\ EveryReadListed /\ IdentityComesFirst /\ EveryOpenApiBased /\ SelfDecides

\* Every source is bound to the document it names, of those the caller could list.
BindingIsMeant == BindingIsTold /\ DirectoryDecides
=============================================================================
