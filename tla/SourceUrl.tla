------------------------------- MODULE SourceUrl -------------------------------
(***************************************************************************)
(* The url a generated document names its OpenAPI source by: a path from   *)
(* the directory it is written to, over a file system with symbolic links, *)
(* and what an engine that is later given the document opens through it.   *)
(* A path is a sequence of components; "." and ".." are components.        *)
(***************************************************************************)
EXTENDS Integers, Sequences, SequencesExt

CONSTANTS
  UrlRequests,  (* what is read, where to, from where, and how it is found  *)
  Directories,  (* the directories that exist, by their only real path      *)
  Links,        (* the links, by their place: the directory each stands for *)
  UrlFiles,     (* names of files, one of each in every directory           *)
  WithColon,    (* names with a colon after what reads as a scheme          *)
  AsUrl         (* the name that is opened for a name in a url              *)

VARIABLES
  urlRequest,    (* spec, output and reader: a spelled path; cwd           *)
  urlPhase,      (* resolve, relate, write, read, done, refused            *)
  spec, output,  (* the two paths the url is computed from                 *)
  url,
  urlOpened      (* the file that was opened, by its real path; or Nothing *)

urlVars == <<urlRequest, urlPhase, spec, output, url, urlOpened>>

Nothing == <<"nothing">>
Root == <<>>

UrlInit ==
  /\ urlRequest \in UrlRequests
  /\ urlPhase = "resolve" /\ spec = Root /\ output = Root /\ url = <<>> /\ urlOpened = Nothing

(***************************************************************************)
(* Paths                                                                   *)
(***************************************************************************)
Parent(path) == IF path = Root THEN Root ELSE Front(path)

\* One component as the kernel walks it, Nothing once something is missing.
Into(place, component) ==
  CASE place = Nothing -> Nothing
    [] component = "." -> IF place \in Directories THEN place ELSE Nothing
    [] component = ".." -> IF place \in Directories THEN Parent(place) ELSE Nothing
    [] OTHER -> LET there == Append(place, component)
                IN  CASE place \notin Directories -> Nothing
                      [] there \in DOMAIN Links -> Links[there]
                      [] there \in Directories \/ component \in UrlFiles -> there
                      [] OTHER -> Nothing
Walk(path) == FoldLeft(Into, Root, path)

Absolute(spelled) == IF spelled.relative THEN urlRequest.cwd \o spelled.path ELSE spelled.path

\* What is left of a path when its dots are taken out of the text.
Lexically(path) ==
  FoldLeft(LAMBDA out, c : CASE c = "." -> out
                             [] c = ".." -> Parent(out)
                             [] OTHER -> Append(out, c), Root, path)

\* The path of a file that exists has no links in it; another's is normalized.
Canonical(path) == IF Walk(path) # Nothing THEN Walk(path) ELSE Lexically(path)

(***************************************************************************)
(* The writer                                                              *)
(***************************************************************************)
\* A spec that cannot be read ends the command first.
UrlResolve ==
  /\ urlPhase = "resolve"
  /\ IF Walk(Absolute(urlRequest.spec)) \in Directories \cup {Nothing}
     THEN urlPhase' = "refused" /\ UNCHANGED <<spec, output>>
     ELSE /\ spec' = Canonical(Absolute(urlRequest.spec))
          /\ output' = Canonical(Absolute(urlRequest.output))
          /\ urlPhase' = "relate"
  /\ UNCHANGED <<urlRequest, url, urlOpened>>

\* A first name that would be taken for a scheme is put below "./".
Guarded(path) == IF Head(path) \in WithColon THEN <<".">> \o path ELSE path

Relate ==
  /\ urlPhase = "relate"
  /\ LET shared == {k \in 0..Len(spec) : k <= Len(output) /\ SubSeq(spec, 1, k) = SubSeq(output, 1, k)}
         common == CHOOSE k \in shared : \A m \in shared : m <= k
     IN  url' = Guarded([k \in 1..(Len(output) - common) |-> ".."] \o SubSeq(spec, common + 1, Len(spec)))
  /\ urlPhase' = "write"
  /\ UNCHANGED <<urlRequest, spec, output, urlOpened>>

\* The directory is not made: one that is missing ends the command here.
Exists(path) == Walk(path) \in Directories

UrlWrite ==
  /\ urlPhase = "write"
  /\ urlPhase' = IF Exists(Absolute(urlRequest.output)) THEN "read" ELSE "refused"
  /\ UNCHANGED <<urlRequest, spec, output, url, urlOpened>>

(***************************************************************************)
(* The reader                                                              *)
(***************************************************************************)
IsRelative == Head(url) \notin WithColon

\* The url is joined to the directory's as text, then opened as a path.
Join(directory, path) ==
  FoldLeft(LAMBDA out, c : CASE c = "." -> out
                             [] c = ".." -> Parent(out)
                             [] OTHER -> Append(out, AsUrl[c]), Lexically(directory), path)

UrlRead ==
  /\ urlPhase = "read"
  /\ urlOpened' = IF IsRelative THEN Walk(Join(Absolute(urlRequest.reader), url)) ELSE Nothing
  /\ urlPhase' = "done"
  /\ UNCHANGED <<urlRequest, spec, output, url>>

UrlNext == UrlResolve \/ Relate \/ UrlWrite \/ UrlRead
UrlSpec == UrlInit /\ [][UrlNext]_urlVars

(***************************************************************************)
(* Properties                                                              *)
(***************************************************************************)
SourceTypeOK ==
  /\ urlPhase \in {"resolve", "relate", "write", "read", "done", "refused"}
  /\ url # <<>> => \A i \in DOMAIN url : url[i] \in {".", ".."} \/ \A k \in i..Len(url) : url[k] \notin {".", ".."}
  /\ urlPhase = "done" /\ urlOpened # Nothing => Walk(urlOpened) = urlOpened

\* Whichever way the two were spelled, the url leads from the directory the
\* document is in to the file it was generated from (relative_document_url).
LeadsToTheSpec ==
  urlPhase \in {"read", "done"} => Walk(Walk(Absolute(urlRequest.output)) \o url) = Walk(Absolute(urlRequest.spec))

\* A url that is written is always taken for a document's, and never for the
\* base of an API (guard_uri_scheme_ambiguity).
TakenForDocument == urlPhase \in {"read", "done"} => IsRelative

\* What is written was computed from two paths that exist: the mix of a real
\* path and a normalized one stays in the code.
BothAreReal ==
  urlPhase \in {"read", "done"} => spec = Walk(Absolute(urlRequest.spec)) /\ output = Walk(Absolute(urlRequest.output))

NoLink(path) == Walk(path) = Lexically(path)

\* An engine that is given the document through no link opens the file it was
\* generated from, if its name means itself in a url (resolve, directory_uri).
PlainReaderOpensIt ==
  urlPhase = "done" /\ NoLink(Absolute(urlRequest.reader)) /\ (\A i \in DOMAIN url : url[i] \in DOMAIN AsUrl => AsUrl[url[i]] = url[i])
    => urlOpened = Walk(Absolute(urlRequest.spec))

\* The url of a generated document leads back to what it was generated from.
UrlLeadsBack == SourceTypeOK /\ LeadsToTheSpec /\ TakenForDocument /\ BothAreReal /\ PlainReaderOpensIt
=================================================================================
