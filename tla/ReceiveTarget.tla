----------------------------- MODULE ReceiveTarget -----------------------------
(***************************************************************************)
(* How a receive step becomes a Kafka topic to read: the step, its source  *)
(* description, the channel, the server, its host, the security scheme,    *)
(* the messages, and then the connection that the caller's options allow.  *)
(*                                                                         *)
(* Each rule reads its piece of the documents, adds to the target or       *)
(* refuses: "unsupported" is a form the runtime does not do, "config" is a *)
(* document or a selection that is wrong.  A rule checks its conditions in *)
(* the order of its list, and the first that holds decides.                *)
(***************************************************************************)
EXTENDS DocumentBinding, OperationResolution

CONSTANTS
  Servers,      (* server keys of the document                             *)
  Messages,     (* messages of a channel                                   *)
  TargetNone,   (* absent                                                  *)
  MaxTraits,    (* bound: traits of the messages of a channel              *)
  MaxSchemes,   (* bound: security entries of a server                     *)
  MaxHostParts  (* bound: parts of a host                                  *)

ASSUME TargetAssumption == TargetNone \notin Servers

VARIABLES
  rule,             (* the rule that reads next, or "refused" or "planned" *)
  piece,            (* what the last rule read                             *)
  target,           (* what the rules have found                           *)
  refusal           (* how it was refused                                  *)

targetVars == <<rule, piece, target, refusal>>

FirstOf(checks) ==
  IF \E k \in DOMAIN checks : checks[k][1]
  THEN checks[CHOOSE k \in DOMAIN checks : checks[k][1] /\ \A j \in 1 .. k - 1 : ~checks[j][1]][2]
  ELSE "ok"

TargetInit ==
  /\ rule = "step" /\ refusal = "none" /\ piece = TargetNone
  /\ target = [form |-> TargetNone, server |-> TargetNone, tls |-> FALSE, sasl |-> TargetNone, filter |-> FALSE,
               location |-> TargetNone]

\* A rule reads p: it refuses, or the target becomes found.
Read(p, verdict, found, next) ==
  /\ piece = TargetNone
  /\ piece' = p
  /\ IF verdict = "ok"
     THEN target' = found /\ rule' = next /\ UNCHANGED refusal
     ELSE rule' = "refused" /\ refusal' = verdict /\ UNCHANGED target

\* ---------------------------------------------------------------- references

\* A local reference, or the object itself: what it leads to.
Reach == {"inline", "local", "missing", "elsewhere", "nested", "encoding", "notText"}
Deref(reach) ==
  CASE reach \in {"elsewhere", "nested"} -> "unsupported"
    [] reach \in {"missing", "encoding", "notText"} -> "config"
    [] OTHER -> "ok"

\* -------------------------------------------------- the step and its source

StepForms == [action : {"receive", "send", TargetNone}, body : BOOLEAN, correlated : BOOLEAN,
              form : {"channelPath", "operationId", "operationPath", "workflowId", TargetNone}]

StepRule ==
  rule = "step" /\ \E s \in StepForms :
    Read(s, FirstOf(<< <<s.action # "receive", "unsupported">>, <<s.body, "unsupported">>,
                       <<s.form \notin {"channelPath", "operationId"}, "config">> >>),
         [target EXCEPT !.form = s.form, !.filter = s.correlated], "source")

SourcePieces == [text : {"good", "other", "malformed"}, declared : 0 .. 2, async : BOOLEAN,
            file : {"local", "remote", "unusable"}, version : {"3.0", "older", "malformed"}]

\* A channelPath points into /channels; an operationId names its source, and is
\* told apart from a request by the type of that source.
Naming(s) ==
  IF target.form = "channelPath"
  THEN << <<s.text = "malformed", "config">>, <<s.text = "other", "unsupported">>,
          <<s.declared # 1 \/ ~s.async, "config">> >>
  ELSE << <<s.text # "good" \/ s.declared = 0, "config">>, <<~s.async, "unsupported">>,
          <<s.declared # 1, "config">> >>

Loading(s) ==
  << <<s.file = "remote", "unsupported">>, <<s.file = "unusable", "config">>,
     <<s.version = "malformed", "config">>, <<s.version = "older", "unsupported">> >>

SourceRule ==
  rule = "source" /\ \E s \in SourcePieces :
    Read(s, FirstOf(Naming(s) \o Loading(s)), target,
         IF target.form = "operationId" THEN "operation" ELSE "channel")

\* -------------------------------------------- the operation and the channel

\* listed: the messages the operation names, None if it names none
OperationForms == [reach : {"inline", "missing", "elsewhere"}, action : {"receive", "send", TargetNone},
               extra : BOOLEAN, channel : Reach, listed : {TargetNone} \union SUBSET Messages,
               declared : SUBSET Messages]

\* A record does not say which message it is, so an operation that names some
\* messages of its channel must name them all.
ListsAll(o) ==
  IF o.listed = TargetNone THEN <<>>
  ELSE << <<~(o.listed \subseteq o.declared), "config">>, <<o.listed # o.declared, "unsupported">> >>

OperationRule ==
  rule = "operation" /\ \E o \in OperationForms :
    Read(o, FirstOf(<< <<o.reach = "missing", "config">>, <<o.reach = "elsewhere", "unsupported">>,
                       <<o.action = TargetNone, "config">>, <<o.action # "receive", "unsupported">>,
                       <<o.extra, "unsupported">>,
                       <<o.channel = "inline", "config">>,
                       <<Deref(o.channel) # "ok", Deref(o.channel)>> >> \o ListsAll(o)),
         target, "channel")

Channels == [reach : {"inline", "missing", "elsewhere"}, fields : BOOLEAN,
             address : {"topic", "empty", "template", TargetNone, "notText"}, parameters : BOOLEAN,
             bindings : {"none", "same", "differ", "elsewhere"}]

ChannelRule ==
  rule = "channel" /\ \E c \in Channels :
    Read(c, FirstOf(<< <<c.reach = "missing", "config">>, <<c.reach = "elsewhere", "unsupported">>,
                       <<~c.fields \/ c.address = "notText", "config">>,
                       <<c.address # "topic" \/ c.parameters, "unsupported">>,
                       <<c.bindings \in {"elsewhere", "differ"}, "unsupported">> >>),
         target, "servers")

\* ------------------------------------------------------------------ servers

\* The servers of the document; those the channel lists, in order, None if it
\* says nothing; and the caller's selection.
Protocols == {"kafka", "kafka-secure", "amqp", TargetNone, "reference", "absent"}
ServerLists == {TargetNone} \union SeqOf(Servers, 2)
ServerPieces == [of : [Servers -> Protocols], lists : ServerLists, selected : {TargetNone} \union Servers]

Candidates(p) ==
  IF p.lists \in {TargetNone, <<>>} THEN {k \in Servers : p.of[k] # "absent"} ELSE ToSet(p.lists)

Eligible(p) == {k \in Candidates(p) : p.of[k] \in {"kafka", "kafka-secure"}}

\* What is wrong with a server the channel is on, be it one of Kafka or not.
Unreadable(p, k) ==
  CASE p.of[k] \in {"absent", TargetNone} -> "config" [] p.of[k] = "reference" -> "unsupported"
    [] OTHER -> "ok"

Chosen(p) ==
  IF p.selected # TargetNone THEN Eligible(p) \intersect {p.selected}
  ELSE IF \A k, other \in Eligible(p) : k = other THEN Eligible(p) ELSE {}

\* Which of several unreadable servers is met first is the order of the document.
ServerVerdicts(p) ==
  LET wrong == {Unreadable(p, k) : k \in Candidates(p)} \ {"ok"} IN
  IF wrong # {} THEN wrong
  ELSE {IF Eligible(p) = {} \/ Chosen(p) = {} THEN "config" ELSE "ok"}

ServerRule ==
  rule = "servers" /\ \E p \in ServerPieces : \E verdict \in ServerVerdicts(p) :
    Read(p, verdict,
         LET k == CHOOSE k \in Chosen(p) : TRUE IN
         [target EXCEPT !.server = k, !.tls = p.of[k] = "kafka-secure"], "host")

\* ------------------------------------------------------------------- a host

\* A host is text, braces, and variables with their declared default.
Variables == [is : {"variable"}, reach : Reach \ {"encoding"}, default : {"text", "empty", "brace", TargetNone},
              choices : {"none", "with", "without"}]
Authored(what) == [is |-> what, reach |-> "inline", default |-> TargetNone, choices |-> "none"]
HostParts == {Authored("text"), Authored("open"), Authored("close")} \union Variables
IsVariable(part) == part.is = "variable"
HostPieces == [parts : SeqOf(HostParts, MaxHostParts), path : {TargetNone, "empty", "text"}]

VariableVerdict(v) ==
  FirstOf(<< <<Deref(v.reach) # "ok", Deref(v.reach)>>, <<v.default = TargetNone, "config">>,
             <<v.choices = "without", "config">> >>)

\* The text a part leaves in the host.
HostText(part) == IF IsVariable(part) THEN IF part.default = "empty" THEN <<>> ELSE <<part.default>>
              ELSE <<part.is>>

HasBrace(parts) == \E k \in DOMAIN parts : HostText(parts[k]) \notin {<<>>, <<"text">>}

HostVerdict(p) ==
  LET bad == {k \in DOMAIN p.parts :
                IF IsVariable(p.parts[k]) THEN VariableVerdict(p.parts[k]) # "ok"
                ELSE p.parts[k].is = "open"} IN
  IF p.path = "text" THEN "unsupported"
  ELSE IF bad # {}
       THEN LET culprit == p.parts[CHOOSE k \in bad : \A j \in bad : k <= j] IN
            IF IsVariable(culprit) THEN VariableVerdict(culprit) ELSE "config"
  ELSE IF HasBrace(p.parts) \/ \A k \in DOMAIN p.parts : HostText(p.parts[k]) = <<>> THEN "config"
  ELSE "ok"

HostRule ==
  rule = "host" /\ \E p \in HostPieces : Read(p, HostVerdict(p), target, "security")

\* ----------------------------------------------------------------- security

Mechanisms == {"plain", "scramSha256", "scramSha512"}
Schemes == [reach : {"inline", "local", "missing", "elsewhere"},
            type : {"plain", "scramSha512", "X509", TargetNone}]

\* A server asks for one of its schemes: the first the runtime can do.
Supported(s) == s.type \in Mechanisms

Readable(s) == Deref(s.reach) = "ok" /\ s.type # TargetNone
Decisive(list) ==
  LET stops == {k \in DOMAIN list : ~Readable(list[k]) \/ Supported(list[k])} IN
  IF stops = {} THEN 0 ELSE CHOOSE k \in stops : \A j \in stops : k <= j

SecurityVerdict(list) ==
  LET k == Decisive(list) IN
  IF list = <<>> THEN "ok"
  ELSE IF k = 0 THEN "unsupported"
  ELSE IF Deref(list[k].reach) # "ok" THEN Deref(list[k].reach)
  ELSE IF list[k].type = TargetNone THEN "config" ELSE "ok"

SecurityRule ==
  rule = "security" /\ \E list \in SeqOf(Schemes, MaxSchemes) :
    Read(list, SecurityVerdict(list),
         [target EXCEPT !.sasl = IF Decisive(list) = 0 THEN TargetNone ELSE list[Decisive(list)].type],
         "messages")

\* ----------------------------------------------------------------- messages

\* A message, and each of its traits: a content type and whether the Kafka
\* binding frames the payload by a schema registry; or, for a step that filters,
\* the location of the correlation identifier.
ContentForms == [content : {"json", "avro", TargetNone}, framed : BOOLEAN]
Locations == {"/a", "/b", "malformed", TargetNone}
WithTraits(forms) == [own : [Messages -> forms],
                      traits : SeqOf([of : Messages, has : forms], MaxTraits)]
ContentPieces == [said : WithTraits(ContentForms), default : {"avro", TargetNone}]
LocationPieces == WithTraits(Locations)

\* What the traits of a message say of a field, trait by trait.
ContentsFor(said, m) ==
  [k \in DOMAIN said.traits |-> IF said.traits[k].of = m THEN said.traits[k].has.content ELSE TargetNone]
LocationsFor(said, m) ==
  [k \in DOMAIN said.traits |-> IF said.traits[k].of = m THEN said.traits[k].has ELSE TargetNone]

\* The traits are gone through in order, each that has the field overrides those before it.
FromTraits(values) ==
  LET upTo[k \in 0 .. Len(values)] ==
        IF k = 0 THEN TargetNone ELSE IF values[k] # TargetNone THEN values[k] ELSE upTo[k - 1]
  IN  upTo

EffectiveOf(own, values) == IF own # TargetNone THEN own ELSE FromTraits(values)[Len(values)]

ContentOf(p, m) ==
  LET found == EffectiveOf(p.said.own[m].content, ContentsFor(p.said, m)) IN
  IF found = TargetNone THEN p.default ELSE found

LocationOf(p, m) == EffectiveOf(p.own[m], LocationsFor(p, m))

Framed(said, m) ==
  said.own[m].framed \/ \E k \in DOMAIN said.traits : said.traits[k].of = m /\ said.traits[k].has.framed

MessagesVerdict(p) ==
  IF \E m \in Messages : Framed(p.said, m) \/ ContentOf(p, m) \notin {"json", TargetNone}
  THEN "unsupported" ELSE "ok"

LocationVerdict(p) ==
  LET found == {LocationOf(p, m) : m \in Messages} IN
  FirstOf(<< <<"malformed" \in found, "config">>, <<TargetNone \in found, "config">>,
             <<\E l, other \in found : l # other, "unsupported">> >>)

MessageRule ==
  rule = "messages" /\ \E p \in ContentPieces :
    Read(p, MessagesVerdict(p), target, IF target.filter THEN "locations" ELSE "plan")

LocationRule ==
  rule = "locations" /\ \E p \in LocationPieces :
    Read(p, LocationVerdict(p),
         [target EXCEPT !.location = LocationOf(p, CHOOSE m \in Messages : TRUE)], "plan")

\* ----------------------------------------------------------- the connection

Options == [username : BOOLEAN, password : BOOLEAN, tls : BOOLEAN,
            roots : {TargetNone, "good", "unusable"}]

PlanVerdict(o) ==
  FirstOf(<< <<o.username # o.password, "config">>,
             <<(target.sasl # TargetNone) # o.username, "config">>, <<o.roots = "unusable", "config">> >>)

PlanRule ==
  rule = "plan" /\ \E o \in Options :
    Read(o, PlanVerdict(o), [target EXCEPT !.tls = @ \/ o.tls], "planned")

\* What a rule has read is not looked at again.
Proceed ==
  /\ piece # TargetNone /\ rule \notin {"refused", "planned"}
  /\ piece' = TargetNone /\ UNCHANGED <<rule, target, refusal>>

TargetNext ==
  \/ Proceed
  \/ StepRule \/ SourceRule \/ OperationRule \/ ChannelRule \/ ServerRule \/ HostRule
  \/ SecurityRule \/ MessageRule \/ LocationRule \/ PlanRule

TargetSpec == TargetInit /\ [][TargetNext]_targetVars

-----------------------------------------------------------------------------
\* The target is filled rule by rule, and nothing refused goes on.
TargetTypeOK ==
  /\ rule = "refused" <=> refusal \in {"config", "unsupported"}
  /\ target.server \in {TargetNone} \union Servers /\ target.sasl \in {TargetNone} \union Mechanisms
  /\ rule \in {"host", "security", "messages", "locations", "plan", "planned"}
       => target.server # TargetNone

\* A listener is never a guess: the server that is taken is one of Kafka that the
\* channel is on, and the selected one, or the only one.
ServerIsTheOnlyOne ==
  rule = "host" /\ piece # TargetNone =>
    LET on == IF piece.lists \in {TargetNone, <<>>} THEN Servers ELSE ToSet(piece.lists) IN
    /\ target.server \in on /\ piece.of[target.server] \in {"kafka", "kafka-secure"}
    /\ \A other \in on \ {target.server} :
         piece.of[other] \in {"kafka", "kafka-secure"} => piece.selected = target.server
    /\ piece.selected \in {TargetNone, target.server}

\* What is connected to is a literal address: every variable is replaced by one of
\* the values it may have, and no replacement brings in another.
HostIsLiteral ==
  rule = "security" /\ piece # TargetNone =>
    /\ \E k \in DOMAIN piece.parts : HostText(piece.parts[k]) # <<>>
    /\ \A k \in DOMAIN piece.parts :
         IF IsVariable(piece.parts[k])
         THEN piece.parts[k].default \in {"text", "empty"} /\ piece.parts[k].choices # "without"
         ELSE piece.parts[k].is = "text"

\* The mechanism is one the server lists, with none before it the runtime could
\* have used; and a server that asks for authentication is never taken for one
\* that does not.
MechanismIsFirst ==
  rule = "messages" /\ piece # TargetNone =>
    IF target.sasl = TargetNone THEN piece = <<>>
    ELSE \E k \in DOMAIN piece : piece[k].type = target.sasl
           /\ \A j \in 1 .. k - 1 : piece[j].type \notin Mechanisms

\* What a field comes to: what the message itself says; or a trait that says something
\* when none after it does; or nothing, when neither the message nor a trait does.
ComesTo(own, values, value) ==
  IF own # TargetNone THEN value = own
  ELSE IF \A k \in DOMAIN values : values[k] = TargetNone THEN value = TargetNone
  ELSE \E k \in DOMAIN values : /\ values[k] = value /\ value # TargetNone
                                /\ \A j \in k + 1 .. Len(values) : values[j] = TargetNone

\* Whichever message of the channel a record is, its payload is plain JSON, as far
\* as the document says what it is.
EveryMessageIsJSON ==
  rule \in {"locations", "plan"} /\ piece # TargetNone /\ target.location = TargetNone => \A m \in Messages :
    LET said == piece.said
        Says(content) == ComesTo(said.own[m].content, ContentsFor(said, m), content) IN
    /\ \/ Says("json")
       \/ Says(TargetNone) /\ piece.default \in {"json", TargetNone}
    /\ ~said.own[m].framed
    /\ \A k \in DOMAIN said.traits : said.traits[k].has.framed => said.traits[k].of # m

\* Whichever message of the channel a record is, its identifier is where the step
\* looks for it.
OneLocationForAll ==
  rule = "plan" /\ piece # TargetNone /\ target.location # TargetNone =>
    \A m \in Messages : ComesTo(piece.own[m], LocationsFor(piece, m), target.location)

\* An operation that is read stands for every message of its channel.
OperationHidesNoMessage ==
  rule = "channel" /\ piece # TargetNone /\ target.form = "operationId" => piece.listed \in {TargetNone, piece.declared}

\* A connection authenticates if and only if the server asks for it, and it is
\* encrypted if the server or the caller asks for it.
AuthenticatesAsAsked ==
  rule = "planned" => /\ target.sasl # TargetNone <=> piece.username
                      /\ target.sasl # TargetNone <=> piece.password
                      /\ piece.tls => target.tls

\* What is said of a target but for its messages.
TargetIsTold ==
  /\ TargetTypeOK /\ ServerIsTheOnlyOne /\ HostIsLiteral /\ MechanismIsFirst
  /\ OperationHidesNoMessage /\ AuthenticatesAsAsked

\* A target that is admitted is the one the documents name, and nothing was guessed
\* for it (asyncapi_receive, engine_message).
TargetIsMeant == TargetIsTold /\ EveryMessageIsJSON /\ OneLocationForAll

\* What a step names is what the engine sends to or receives from: the document of the
\* source (DocumentBinding), the operation in it (OperationResolution), the channel and its
\* server.
TargetsAreMeant == BindingIsMeant /\ OperationIsMeant /\ TargetIsMeant
=============================================================================
