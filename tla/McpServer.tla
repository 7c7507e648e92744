-------------------------------- MODULE McpServer --------------------------------
(***************************************************************************)
(* The MCP server: a thread reads messages in either framing and hands     *)
(* them to the loop that answers them one at a time.  Tool calls look a    *)
(* workflow up, vet the files they are about to open, and run the engine.  *)
(***************************************************************************)
EXTENDS Integers, Sequences, FiniteSets, Functions

CONSTANTS
  Inputs,        (* sequences of pieces that a client writes               *)
  Requests,      (* by id: the requests                                    *)
  Specs,         (* the loaded descriptions, in order                      *)
  Restricted,    (* whether directories are configured                     *)
  Allowed        (* the paths inside of them                               *)

\* A request without an id is a notification.  What a client writes is, line by line,
\* an object, or else the lines of a frame and the body of its announced length.
Line == [kind : {"object", "body"}, id : DOMAIN Requests]
          \union [kind : {"blank", "length", "badLength", "text"}]

LineKinds(piece, n) == {piece[k].kind : k \in 1 .. n}
ObjectPiece(piece) == Len(piece) = 1 /\ piece[1].kind = "object"
FramePiece(piece) ==
  /\ Len(piece) > 2 /\ piece[Len(piece)].kind = "body" /\ piece[Len(piece) - 1].kind = "blank"
  /\ LineKinds(piece, Len(piece) - 2) \subseteq {"length", "text"} /\ "length" \in LineKinds(piece, Len(piece) - 2)
NoisePiece(piece) == piece # <<>> /\ LineKinds(piece, Len(piece)) \subseteq {"blank", "badLength", "text"}

\* A frame that ends before its body.
CutPiece(piece) ==
  /\ piece # <<>> /\ LineKinds(piece, Len(piece) - 1) \subseteq {"length", "text"}
  /\ piece[Len(piece)].kind \in {"length", "text", "blank"}

\* Messages are written whole, in either framing, but for the last one; between them
\* stands what announces no body.
ASSUME McpAssumption ==
  /\ \A input \in Inputs :
       /\ input \in Seq(Seq(Line))
       /\ \A n \in DOMAIN input :
            \/ ObjectPiece(input[n]) \/ FramePiece(input[n]) \/ NoisePiece(input[n])
            \/ (n = Len(input) /\ CutPiece(input[n]))
  /\ Restricted \in BOOLEAN

VARIABLES
  input,    (* the pieces; they never change                               *)
  readAt,   (* the piece, and the line of it, that is read next            *)
  reading,  (* the reader: "start", "headers" or "closed"                  *)
  length,   (* whether the headers announced a length                      *)
  channel,  (* from the reader to the loop                                 *)
  serving,  (* the loop: "idle", "vet", "open", "run", "answer" or "ended" *)
  current,  (* the message of the request that it serves                   *)
  answer,   (* the answer that it is about to write                        *)
  sent,     (* the answers written                                         *)
  opened,   (* history: the request and the path of each file opened       *)
  broken    (* whether a write failed                                      *)

mcpVars == <<input, readAt, reading, length, channel, serving, current, answer, sent, opened, broken>>
reader == <<readAt, reading, length>>
loop == <<serving, current, answer, sent, opened, broken>>

\* A request as the reader hands it on; its piece is history.
Message(id, piece) == [kind |-> "request", id |-> id, from |-> piece]

McpInit ==
  /\ input \in Inputs /\ readAt = <<1, 1>>
  /\ reading = "start" /\ length = FALSE /\ channel = <<>>
  /\ serving = "idle" /\ current = Message(0, 0) /\ answer = "none" /\ sent = <<>> /\ opened = {}
  /\ broken = FALSE

(***************************************************************************)
(* The reader                                                              *)
(***************************************************************************)
Send(m) == channel' = IF serving = "ended" THEN channel ELSE Append(channel, m)
Close(m) == reading' = "closed" /\ Send(m) /\ UNCHANGED length

AtEnd(place) == place[1] > Len(input)
At(place) == input[place[1]][place[2]]
Past(place) == IF place[2] < Len(input[place[1]]) THEN <<place[1], place[2] + 1>> ELSE <<place[1] + 1, 1>>

\* mutant: an object that is no request is an error of the reader
DeliverStrict(place) ==
  LET id == At(place).id IN
  /\ length' = FALSE /\ readAt' = Past(place)
  /\ reading' = IF Requests[id].method = "malformed" THEN "closed" ELSE "start"
  /\ Send(IF Requests[id].method = "malformed" THEN [kind |-> "readError"] ELSE Message(id, place[1]))

\* An object that is no request is reported, and the next one is read; when nobody
\* listens any more, the reader stops.
Deliver(place) ==
  LET id == At(place).id IN
  /\ length' = FALSE /\ readAt' = Past(place)
  /\ reading' = IF Requests[id].method # "malformed" /\ serving = "ended" THEN "closed" ELSE "start"
  /\ IF Requests[id].method = "malformed" THEN UNCHANGED channel ELSE Send(Message(id, place[1]))

Eof ==
  /\ reading # "closed" /\ AtEnd(readAt)
  /\ Close([kind |-> "eof"]) /\ UNCHANGED <<input, readAt, loop>>

\* The first line that is not blank decides on the framing.
FirstLine ==
  /\ reading = "start" /\ ~AtEnd(readAt)
  /\ LET line == At(readAt) IN
     CASE line.kind = "blank" -> readAt' = Past(readAt) /\ UNCHANGED <<reading, length, channel>>
       [] line.kind \in {"object", "body"} -> Deliver(readAt)
       [] line.kind = "badLength" -> readAt' = Past(readAt) /\ Close([kind |-> "readError"])
       [] OTHER ->
            /\ readAt' = Past(readAt) /\ reading' = "headers" /\ length' = (line.kind = "length")
            /\ UNCHANGED channel
  /\ UNCHANGED <<input, loop>>

\* Any line is a header up to a blank one; then a body of the announced length follows.
HeaderLine ==
  /\ reading = "headers" /\ ~AtEnd(readAt)
  /\ LET line == At(readAt)
         body == Past(readAt) IN
     IF line.kind = "blank" /\ length /\ ~AtEnd(body) THEN Deliver(body)
     ELSE /\ readAt' = Past(readAt)
          /\ IF line.kind \in {"blank", "badLength"} THEN Close([kind |-> "readError"])
             ELSE length' = (length \/ line.kind = "length") /\ UNCHANGED <<reading, channel>>
  /\ UNCHANGED <<input, loop>>

Read == FirstLine \/ HeaderLine \/ Eof

(***************************************************************************)
(* The loop                                                                *)
(***************************************************************************)
Request == Requests[current.id]
Reply(kind) == serving' = "answer" /\ answer' = kind

IsAllowed(path) == ~Restricted \/ path \in Allowed

\* The workflows of all the loaded descriptions that have the id.
Matches(id) == UNION {{s} \X {n \in DOMAIN Specs[s].workflows : Specs[s].workflows[n] = id} : s \in DOMAIN Specs}
Sources == UNION {Specs[m[1]].sources : m \in Matches(Request.workflow)}

\* Notifications are not answered; initialize, tools/list and ping are at once.
Receive ==
  /\ serving = "idle" /\ channel # <<>>
  /\ channel' = Tail(channel)
  /\ LET m == Head(channel) IN
     IF m.kind # "request" THEN serving' = "ended" /\ UNCHANGED <<current, answer>>
     ELSE /\ current' = m
          /\ LET q == Requests[m.id] IN
             CASE ~q.answered -> UNCHANGED <<serving, answer>>
               [] q.answered /\ q.method = "tools/call" -> serving' = "vet" /\ UNCHANGED answer
               [] OTHER ->
                    Reply(IF q.method = "ping" THEN "result" ELSE "methodNotFound")
  /\ UNCHANGED <<input, reader, sent, opened, broken>>

\* A run needs exactly one workflow of its id, and every source of its description
\* to be allowed; the tools that read a file need its path to be.  Another tool, or a
\* missing argument, is an error that the caller reads.
Vet ==
  /\ serving = "vet"
  /\ CASE Request.tool = "run_workflow" ->
            IF Cardinality(Matches(Request.workflow)) = 1 /\ \A p \in Sources : IsAllowed(p)
            THEN serving' = "open" /\ UNCHANGED answer ELSE Reply("toolError")
       [] Request.tool = "file" ->
            IF IsAllowed(Request.path) THEN serving' = "open" /\ UNCHANGED answer ELSE Reply("toolError")
       [] Request.tool = "describe_workflow" ->
            Reply(IF Cardinality(Matches(Request.workflow)) = 1 THEN "result" ELSE "toolError")
       [] Request.tool = "list_workflows" -> Reply("result")
       [] OTHER -> Reply("toolError")
  /\ UNCHANGED <<input, reader, channel, current, sent, opened, broken>>

\* The file, or the sources one after the other until one cannot be used.
Open ==
  /\ serving = "open"
  /\ IF Request.tool = "file"
     THEN opened' = opened \union {<<current.id, Request.path>>} /\ (\E kind \in {"result", "toolError"} : Reply(kind))
     ELSE \E read \in SUBSET Sources :
            /\ opened' = opened \union {<<current.id, p>> : p \in read}
            /\ \/ read = Sources /\ serving' = "run" /\ UNCHANGED answer
               \/ Reply("toolError")
  /\ UNCHANGED <<input, reader, channel, current, sent, broken>>

\* The loop waits for the run, which a timeout bounds.
Ran ==
  /\ serving = "run"
  /\ \E kind \in {"result", "toolError"} : Reply(kind)
  /\ UNCHANGED <<input, reader, channel, current, sent, opened, broken>>

Write ==
  /\ serving = "answer"
  /\ \/ sent' = Append(sent, [id |-> current.id, kind |-> answer, from |-> current.from]) /\ serving' = "idle" /\ UNCHANGED broken
     \/ broken' = TRUE /\ serving' = "ended" /\ UNCHANGED sent
  /\ answer' = "none" /\ UNCHANGED <<input, reader, channel, current, opened>>

Serve == Receive \/ Vet \/ Open \/ Ran \/ Write
McpNext == Read \/ Serve

McpSpec == McpInit /\ [][McpNext]_mcpVars

(***************************************************************************)
(* Properties                                                              *)
(***************************************************************************)
McpTypeOK ==
  /\ reading \in {"start", "headers", "closed"} /\ (length => reading # "start")
  /\ serving \in {"idle", "vet", "open", "run", "answer", "ended"}
  /\ answer \in {"none", "result", "toolError", "methodNotFound"}
  /\ (answer # "none") <=> (serving = "answer")

\* Reference: the pieces that carry a request which has to be answered; the client
\* writes nothing else but blank lines, save that it may be cut off in the last one.
Carried(piece) == {piece[k].id : k \in {n \in DOMAIN piece : piece[n].kind \in {"object", "body"}}}
AnsweredId(id) == Requests[id].answered /\ Requests[id].method # "malformed"
Asking == {n \in DOMAIN input : \E id \in Carried(input[n]) : AnsweredId(id)}
Clean == \A k \in 1 .. Len(input) - 1 : Carried(input[k]) # {} \/ LineKinds(input[k], Len(input[k])) = {"blank"}
AnsweredPieces == {sent[k].from : k \in DOMAIN sent}

\* The answers are those of the requests, in the order in which they were written,
\* none twice and none for a notification, in whichever framing they came; and of a
\* client that writes whole messages none is passed over.
AnsweredInOrder ==
  /\ \A i, j \in DOMAIN sent : i < j => sent[i].from < sent[j].from
  /\ \A k \in DOMAIN sent : sent[k].from \in Asking /\ sent[k].id \in Carried(input[sent[k].from])
  /\ Clean => \A n \in Asking, last \in AnsweredPieces : n < last => n \in AnsweredPieces

\* When the input of a client that writes whole messages has ended, and its answers
\* could be written, all of its requests have been answered.
NoRequestLost == serving = "ended" /\ ~broken /\ Clean => AnsweredPieces = Asking

\* A call that opens files opens no file that is not allowed, and none at all if one
\* of those it needs is not.
OpenedAreAllowed ==
  \A o \in opened :
    /\ IsAllowed(o[2])
    /\ Requests[o[1]].tool = "run_workflow" =>
         \E s \in DOMAIN Specs : /\ o[2] \in Specs[s].sources
                                 /\ \A p \in Specs[s].sources : IsAllowed(p)
                                 /\ Requests[o[1]].workflow \in Range(Specs[s].workflows)

\* What the two threads do with any input, and what the calls of it open.
CallsAreVetted == McpTypeOK /\ OpenedAreAllowed

\* Every request is answered once and in order, whatever stands around it, and nothing is
\* opened for it that the configured directories do not hold (serve, check_path_allowed).
AnswersAreExact == CallsAreVetted /\ AnsweredInOrder /\ NoRequestLost
=============================================================================
