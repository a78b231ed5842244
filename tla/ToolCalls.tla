------------------------------ MODULE ToolCalls ------------------------------
(***************************************************************************)
(* Tool-call parsing (server/tool_calls.py): the <tool_call> blocks of the *)
(* two checkpoint dialects, read out of a generated text.                  *)
(*                                                                         *)
(* A text is a sequence of lexemes <<kind, word>>: pieces of plain text    *)
(* (kind "text", the word "_" being white space) and the tags the regular  *)
(* expressions look for.  The Qwen tags <function=w> and <parameter=w>     *)
(* carry their word.  A parameter tag includes the newline that goes with  *)
(* it.  Of a value only matters whether it reads as JSON: "num" does, and  *)
(* "qnum" is a JSON string that holds the text of num; "nan" is a constant *)
(* json.loads would accept.                                                 *)
(***************************************************************************)
EXTENDS Integers, SequencesExt

Text(w) == <<"text", w>>
Tag(kind) == <<kind, "">>
Space == Text("_")

(* Mutant: white space between the tags counts as text. *)
BlankEmpty(s) == s = <<>>

Blank(s) == \A i \in DOMAIN s : s[i] = Space

(* str.strip(). *)
Strip(s) ==
  LET kept == {i \in DOMAIN s : s[i] # Space}
  IN  IF kept = {} THEN <<>> ELSE SubSeq(s, Min(kept), Max(kept))

(* First position from pos on that satisfies P; 0 if there is none. *)
First(s, pos, P(_)) ==
  LET hits == {i \in pos..Len(s) : P(s[i])}
  IN  IF hits = {} THEN 0 ELSE Min(hits)

-----------------------------------------------------------------------------
(* Arguments.                                                               *)

NoMatch == [start |-> 0, end |-> 0, key |-> <<>>, raw |-> <<>>]

(* _LING_ARG: the first <arg_key>, the nearest </arg_key> that is followed *)
(* by <arg_value>, the nearest </arg_value>.                               *)
LingArg(s, pos) ==
  LET closes(i) == {j \in (i + 1)..Len(s) :
                      /\ s[j] = Tag("/ak")
                      /\ \E k \in (j + 1)..Len(s) :
                           /\ s[k] = Tag("av")
                           /\ Blank(SubSeq(s, j + 1, k - 1))
                           /\ \E l \in (k + 1)..Len(s) : s[l] = Tag("/av")}
      starts == {i \in pos..Len(s) : s[i] = Tag("ak") /\ closes(i) # {}}
      i == Min(starts)
      j == Min(closes(i))
      k == First(s, j, LAMBDA x : x = Tag("av"))
      l == First(s, k, LAMBDA x : x = Tag("/av"))
  IN  IF starts = {} THEN NoMatch
      ELSE [start |-> i, end |-> l, key |-> SubSeq(s, i + 1, j - 1),
            raw |-> SubSeq(s, k + 1, l - 1)]

(* _QWEN_PARAM. *)
QwenParam(s, pos) ==
  LET starts == {i \in pos..Len(s) : s[i][1] = "pm"
                   /\ \E l \in (i + 1)..Len(s) : s[l] = Tag("/pm")}
      i == Min(starts)
      l == First(s, i, LAMBDA x : x = Tag("/pm"))
  IN  IF starts = {} THEN NoMatch
      ELSE [start |-> i, end |-> l, key |-> <<Text(s[i][2])>>,
            raw |-> SubSeq(s, i + 1, l - 1)]

Unparsed == [ok |-> FALSE, args |-> <<>>]

(* The pairs from a match m at or behind pos on, rest being what follows   *)
(* it.  A key given twice keeps its last value.                             *)
Pairs(s, pos, m, rest) ==
  IF m = NoMatch
  THEN [ok |-> Blank(SubSeq(s, pos, Len(s))), args |-> <<>>]
  ELSE IF \/ ~Blank(SubSeq(s, pos, m.start - 1)) \/ Strip(m.key) = <<>>
          \/ ~rest.ok
  THEN Unparsed
  ELSE [ok |-> TRUE, args |-> rest.args @@ (Strip(m.key) :> m.raw)]

(* _parse_arguments: matches with nothing between or behind them. *)
ParseArguments(s, dialect) ==
  LET match(pos) == IF dialect = "ling" THEN LingArg(s, pos)
                    ELSE QwenParam(s, pos)
      from[pos \in 1..(Len(s) + 1)] ==
        Pairs(s, pos, match(pos), from[match(pos).end + 1])
  IN  from[1]

-----------------------------------------------------------------------------
(* Blocks.                                                                  *)

NoCall == [ok |-> FALSE, name |-> <<>>, args |-> <<>>]

Named(name, parsed) ==
  IF name = <<>> \/ ~parsed.ok THEN NoCall
  ELSE [ok |-> TRUE, name |-> name, args |-> parsed.args]

(* _parse_ling_block: the text up to the first tag is the name. *)
ParseLingBlock(body) ==
  LET tag == First(body, 1, LAMBDA x : x[1] # "text")
      n == IF tag = 0 THEN Len(body) ELSE tag - 1
  IN  Named(Strip(SubSeq(body, 1, n)),
            ParseArguments(SubSeq(body, n + 1, Len(body)), "ling"))

(* _parse_qwen_block: the whole body is one <function=...> element. *)
ParseQwenBlock(body) ==
  LET b == Strip(body)
  IN  IF \/ Len(b) < 2 \/ b[1][1] # "fn" \/ b[Len(b)] # Tag("/fn")
         \/ b[1] = <<"fn", "_">>
      THEN NoCall
      ELSE Named(<<Text(b[1][2])>>,
                 ParseArguments(SubSeq(b, 2, Len(b) - 1), "qwen"))

ParseBlock(dialect, body) ==
  IF dialect = "ling" THEN ParseLingBlock(body) ELSE ParseQwenBlock(body)

(* _coerce: a value that reads as JSON becomes what it stands for. *)
Coerce(raw) ==
  CASE Strip(raw) = <<Text("num")>> -> [type |-> "number", word |-> raw]
    [] Strip(raw) = <<Text("qnum")>> -> [type |-> "string",
                                         word |-> <<Text("num")>>]
    [] OTHER -> [type |-> "string", word |-> raw]

(* Mutant: the declared types are not looked at. *)
StringParametersIgnored(tools, name) == {}

(* _string_parameters: keys the request's tools declare as strings.  tools *)
(* is a function from tool names to those keys.                            *)
StringParameters(tools, name) ==
  IF name \in DOMAIN tools THEN tools[name] ELSE {}

ToCall(parsed, tools) ==
  LET strings == StringParameters(tools, parsed.name)
  IN  [name |-> parsed.name,
       args |-> [k \in DOMAIN parsed.args |->
                   IF k \in strings
                   THEN [type |-> "string", word |-> parsed.args[k]]
                   ELSE Coerce(parsed.args[k])]]

(* Mutant: a block that cannot be parsed disappears. *)
KeepUnparsedDrops(s, pos, o, c) == SubSeq(s, pos, o - 1)

(* A block that cannot be parsed stays in the content. *)
KeepUnparsed(s, pos, o, c) == SubSeq(s, pos, c)

(* The text s from pos on, with a block from o to c and rest behind it. *)
Joined(s, pos, o, c, parsed, tools, rest) ==
  IF parsed.ok
  THEN [content |-> SubSeq(s, pos, o - 1) \o rest.content,
        calls |-> <<ToCall(parsed, tools)>> \o rest.calls]
  ELSE [content |-> KeepUnparsed(s, pos, o, c) \o rest.content,
        calls |-> rest.calls]

(* _split: every closed block, left to right, the nearest </tool_call>     *)
(* closing the first <tool_call>; then the content is stripped.            *)
Split(s, dialect, tools) ==
  LET from[pos \in 1..(Len(s) + 1)] ==
        LET o == First(s, pos, LAMBDA x : x = Tag("open"))
            c == First(s, o, LAMBDA x : x = Tag("close"))
        IN  IF o = 0 \/ c = 0
            THEN [content |-> SubSeq(s, pos, Len(s)), calls |-> <<>>]
            ELSE Joined(s, pos, o, c,
                        ParseBlock(dialect, SubSeq(s, o + 1, c - 1)), tools,
                        from[c + 1])
  IN  [from[1] EXCEPT !.content = Strip(@)]

-----------------------------------------------------------------------------
(* How the checkpoints' chat templates write a call, and so how the model  *)
(* is asked to write it: a string bare, any other value as JSON.  A call   *)
(* that follows text or another call starts on a line of its own.          *)

(* The Ling template; a line break and an indentation slip in behind the   *)
(* name, where its tags do not strip them.                                 *)
RenderLing(call) ==
  LET keys == SetToSeq(DOMAIN call.args)
      arg(k) == <<Tag("ak")>> \o k \o <<Tag("/ak"), Space, Tag("av")>>
                  \o call.args[k].word \o <<Tag("/av")>>
  IN  <<Tag("open")>> \o call.name \o <<Space>>
        \o FlattenSeq([i \in DOMAIN keys |-> arg(keys[i])])
        \o <<Space, Tag("close")>>

(* The Qwen template. *)
RenderQwen(call) ==
  LET keys == SetToSeq(DOMAIN call.args)
      param(k) == <<<<"pm", k[1][2]>>>> \o call.args[k].word
                    \o <<Tag("/pm"), Space>>
  IN  <<Tag("open"), Space, <<"fn", call.name[1][2]>>, Space>>
        \o FlattenSeq([i \in DOMAIN keys |-> param(keys[i])])
        \o <<Tag("/fn"), Space, Tag("close")>>

Render(dialect, call, first) ==
  (IF first THEN <<>> ELSE <<Space>>)
    \o IF dialect = "ling" THEN RenderLing(call) ELSE RenderQwen(call)

=============================================================================
