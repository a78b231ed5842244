------------------------------ MODULE ChatReply ------------------------------
(***************************************************************************)
(* From a chat request to its reply (server/app.py, server/chat.py): the   *)
(* request is validated, the model writes a text, and the server splits    *)
(* off the reasoning, reads the tool calls out of the rest and answers,    *)
(* at once or as a stream of deltas.  Which token the model writes next is *)
(* a choice among Pieces; each is one step of the generation.              *)
(***************************************************************************)
EXTENDS ToolCalls, TLC

CONSTANTS Dialects,  \* subset of {"ling", "qwen", "other"}
          Calls,     \* calls the model may mean to make
          Typed,     \* tool list: name -> keys declared as strings
          MaxPieces  \* max_new_tokens

ASSUME ReplyAssumption ==
  Dialects \subseteq {"ling", "qwen", "other"} /\ MaxPieces \in Nat \ {0}

VARIABLES
  req,    \* the request
  phase,  \* "idle", "generate", "end", "done", "rejected"
  written, \* what the model has written
  count,  \* tokens generated
  sent,   \* content of the deltas sent so far
  msg,    \* the reply
  meant,  \* history: calls the model meant to make in this reply
  clean   \* history: nothing but prose and such calls was written

replyVars == <<req, phase, written, count, sent, msg, meant, clean>>

ChatRequests ==
  [dialect : Dialects, tools : {"absent", "untyped", "typed"},
   choice : {"auto", "none", "required"}, think : BOOLEAN, stream : BOOLEAN]
NoReply == [reasoning |-> <<>>, content |-> <<>>, calls |-> <<>>,
            finish |-> "none"]
NoRequest == CHOOSE r \in ChatRequests : TRUE

(* engine.parse_tool_calls exists for the two known families. *)
HasParser(r) == r.dialect # "other"
Tools(r) == IF r.tools = "typed" THEN Typed ELSE <<>>

ReplyInit ==
  /\ req = NoRequest /\ phase = "idle" /\ written = <<>> /\ count = 0
  /\ sent = <<>> /\ msg = NoReply /\ meant = <<>> /\ clean = TRUE

-----------------------------------------------------------------------------
(* The request.                                                             *)

(* parse_chat_request and _template_tool_calls: a body that is no JSON, no *)
(* object, has messages that are no objects, or tool calls without a       *)
(* function or whose arguments are no JSON object, is answered with 400;   *)
(* so is a text completion, and any other path with 404.                   *)
Payloads == {"chat", "bad body", "bad messages", "bad calls", "completion",
             "no route"}
Accepted(p) == p = "chat"

(* do_POST / handle_chat: validated before anything is sent or generated.  *)
Post(r, p) ==
  /\ phase = "idle"
  /\ IF Accepted(p) THEN phase' = "generate" /\ req' = r
     ELSE phase' = "rejected" /\ UNCHANGED req
  /\ UNCHANGED <<written, count, sent, msg, meant, clean>>

-----------------------------------------------------------------------------
(* The generation.                                                          *)

(* Mutant: tool-call markup is streamed as it comes. *)
BufferingNever(r) == FALSE

(* A stream that may contain tool calls is held back until the end. *)
Buffering(r) == r.tools # "absent" /\ r.choice # "none" /\ HasParser(r)

(* on_token: the text goes out as it is written, unless held back. *)
Write(piece) ==
  /\ phase = "generate" /\ count < MaxPieces
  /\ written' = written \o piece /\ count' = count + 1
  /\ sent' = IF req.stream /\ ~Buffering(req) THEN sent \o piece ELSE sent
  /\ UNCHANGED <<req, phase, msg>>

Reasoning ==
  req.think /\ \A i \in DOMAIN written : written[i] # Tag("endthink")

WriteProse ==
  /\ \E w \in {"w", "_"} : Write(<<Text(w)>>)
  /\ UNCHANGED <<meant, clean>>

WriteEndThink ==
  /\ Write(<<Tag("endthink")>>)
  /\ meant' = IF Reasoning THEN <<>> ELSE meant
  /\ clean' = IF Reasoning THEN TRUE ELSE FALSE

WriteCall(call) ==
  /\ LET first == written = <<>> \/ Last(written) = Tag("endthink")
     IN  Write(Render(req.dialect, call, first))
  /\ meant' = Append(meant, call) /\ UNCHANGED clean

CallBlock(dialect, s) ==
  <<Tag("open")>> \o (IF dialect = "ling" THEN <<Text("w")>> \o s
                      ELSE <<<<"fn", "w">>>> \o s \o <<Tag("/fn")>>)
    \o <<Tag("close")>>
Argument(dialect) ==
  IF dialect = "ling" THEN <<Tag("ak"), Text("k"), Tag("/ak"), Tag("av"),
                             Text("w"), Tag("/av")>>
  ELSE <<<<"pm", "k">>, Text("w"), Tag("/pm")>>
Twice(dialect) == CallBlock(dialect, Argument(dialect) \o Argument(dialect))

(* Markup that is no call: a lone tag, an empty block, one whose value is  *)
(* not closed, one with text behind or between its arguments, one with a   *)
(* key written twice.                                                       *)
Garbage(dialect) ==
  {<<Tag("open")>>, <<Tag("close")>>, <<Tag("open"), Tag("close")>>,
   CallBlock(dialect, Front(Argument(dialect))),
   CallBlock(dialect, Append(Argument(dialect), Text("w"))), Twice(dialect),
   CallBlock(dialect, Argument(dialect) \o <<Text("w")>>
                        \o Argument(dialect))}

WriteGarbage ==
  /\ \E g \in Garbage(req.dialect) : Write(g)
  /\ clean' = FALSE /\ UNCHANGED meant

(* An end token, or the cap. *)
Stop ==
  /\ phase = "generate" /\ phase' = "end"
  /\ UNCHANGED <<req, written, count, sent, msg, meant, clean>>

(* finish_reason of ChatSession.run. *)
FinishReason == IF count >= MaxPieces THEN "length" ELSE "stop"

-----------------------------------------------------------------------------
(* The reply.                                                               *)

(* _split_think. *)
SplitThink(s, think) ==
  LET at == First(s, 1, LAMBDA x : x = Tag("endthink"))
  IN  IF ~think THEN [reasoning |-> <<>>, content |-> s]
      ELSE IF at = 0 THEN [reasoning |-> Strip(s), content |-> <<>>]
      ELSE [reasoning |-> Strip(SubSeq(s, 1, at - 1)),
            content |-> Strip(SubSeq(s, at + 1, Len(s)))]

(* _extract_tool_calls. *)
ExtractToolCalls(r, s) ==
  IF \/ r.choice = "none" \/ ~HasParser(r)
     \/ (r.tools = "absent" /\ r.choice # "required")
  THEN [content |-> s, calls |-> <<>>]
  ELSE Split(s, r.dialect, Tools(r))

Message(reasoning, answer) ==
  [reasoning |-> reasoning, content |-> answer.content,
   calls |-> answer.calls,
   finish |-> IF answer.calls # <<>> THEN "tool_calls" ELSE FinishReason]

(* _chat_once. *)
ChatOnce(r, s) ==
  LET parts == SplitThink(s, r.think)
  IN  Message(parts.reasoning, ExtractToolCalls(r, parts.content))

ReplyOnce ==
  /\ phase = "end" /\ ~req.stream
  /\ msg' = ChatOnce(req, written) /\ phase' = "done"
  /\ UNCHANGED <<req, written, count, sent, meant, clean>>

(* produce: the held back text is parsed and sent in the last delta, the   *)
(* reasoning is not; otherwise the last delta is empty.                    *)
ReplyStream ==
  /\ phase = "end" /\ req.stream
  /\ msg' = IF Buffering(req)
            THEN Message(<<>>, ExtractToolCalls(req,
                                 SplitThink(written, req.think).content))
            ELSE [NoReply EXCEPT !.content = sent, !.finish = FinishReason]
  /\ phase' = "done"
  /\ UNCHANGED <<req, written, count, sent, meant, clean>>

(* The connection is ready for the next request. *)
NextRequest ==
  /\ phase \in {"done", "rejected"}
  /\ req' = NoRequest /\ phase' = "idle" /\ written' = <<>> /\ count' = 0
  /\ sent' = <<>> /\ msg' = NoReply /\ meant' = <<>> /\ clean' = TRUE

ReplyNext ==
  \/ \E r \in ChatRequests, p \in Payloads : Post(r, p)
  \/ WriteProse \/ WriteEndThink \/ WriteGarbage
  \/ \E call \in Calls : WriteCall(call)
  \/ Stop \/ ReplyOnce \/ ReplyStream \/ NextRequest

ReplySpec == ReplyInit /\ [][ReplyNext]_replyVars

-----------------------------------------------------------------------------
(* Correctness.                                                             *)

(* Occurrences of a lexeme; a quoted number counts as the number it holds. *)
Plain(x) == IF x = Text("qnum") THEN Text("num") ELSE x
Occurs(x, s) == Cardinality({i \in DOMAIN s : Plain(s[i]) = x})
Rendered(calls) == FlattenSeq([i \in DOMAIN calls |->
                                 Render(req.dialect, calls[i], TRUE)])
Duplicate ==
  LET g == Twice(req.dialect)
  IN  \E i \in 1..(Len(written) - Len(g) + 1) :
        SubSeq(written, i, i + Len(g) - 1) = g

(* "Blocks parse_block cannot make sense of are left in content rather     *)
(* than silently dropped": whatever the model wrote, however malformed,    *)
(* every word and tag of it is in the reasoning, in the content or in a    *)
(* call, as often as it was written; only the </think> it is split at and  *)
(* white space go.  (A key written twice keeps its last value only.)       *)
NothingLost ==
  (phase = "done" /\ ~req.stream /\ ~Duplicate) =>
    \A x \in {Plain(written[i]) : i \in DOMAIN written} \ {Space} :
      LET there == Occurs(x, msg.reasoning) + Occurs(x, msg.content)
                     + Occurs(x, Rendered(msg.calls))
          cut == IF x = Tag("endthink") /\ req.think THEN 1 ELSE 0
      IN  there + cut = Occurs(x, written)

(* Values that look like JSON are ambiguous unless the request declares    *)
(* their type.                                                              *)
Ambiguous(call) ==
  \E k \in DOMAIN call.args :
    /\ call.args[k].type = "string" /\ call.args[k].word = <<Text("num")>>
    /\ k \notin (IF call.name \in DOMAIN Tools(req) THEN
                   Tools(req)[call.name] ELSE {})

(* A reply of prose and calls in the template's own notation yields these  *)
(* calls, all of them, in order, with arguments of the type they were      *)
(* meant to have, and is reported as "tool_calls".                         *)
CallsAsMeant ==
  (/\ phase = "done" /\ clean /\ req.tools # "absent" /\ req.choice # "none"
   /\ HasParser(req) /\ ~Reasoning
   /\ \A i \in DOMAIN meant : ~Ambiguous(meant[i]))
  => /\ msg.calls = meant
     /\ meant # <<>> => msg.finish = "tool_calls"
     /\ \A i \in DOMAIN msg.content : msg.content[i][1] = "text"

(* "buffer the full response and parse once, same as the non-streaming     *)
(* path": a client that collects the deltas has the content, the calls and *)
(* the finish reason of the plain reply.  (Two cases differ: without       *)
(* buffering a thinking model's reasoning is streamed as content, and      *)
(* tool_choice "required" without tools is parsed only by the plain        *)
(* reply.)                                                                  *)
StreamAgrees ==
  (/\ phase = "done" /\ req.stream /\ (Buffering(req) \/ ~req.think)
   /\ ~(req.tools = "absent" /\ req.choice = "required" /\ HasParser(req)))
  => LET once == ChatOnce(req, written)
     IN  /\ msg.content = once.content /\ msg.calls = once.calls
         /\ msg.finish = once.finish

=============================================================================
