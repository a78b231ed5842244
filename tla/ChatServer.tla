----------------------------- MODULE ChatServer -----------------------------
(***************************************************************************)
(* The HTTP chat server (server/app.py, server/chat.py): one engine, any   *)
(* number of request threads.  A request takes QueueServer's lock, resets  *)
(* the engine and generates; a streaming request does so on a producer     *)
(* thread that feeds an event queue, while its handler thread drains the   *)
(* queue to the client.                                                     *)
(*                                                                         *)
(* A token is a fragment of the byte stream: a whole character ("char"),   *)
(* or the first ("lead") or second ("cont") half of one.  Text is a        *)
(* sequence of decoded characters.  Tool-call parsing, think splitting and *)
(* JSON are left out: they are functions of the finished text.             *)
(***************************************************************************)
EXTENDS Integers, Sequences, FiniteSets

CONSTANTS Requests,       \* requests that may arrive
          MaxNewTokens    \* GenerationConfig.max_new_tokens of each

ASSUME CapAssumption == MaxNewTokens \in [Requests -> Nat]
ASSUME FreeIsNoRequest == "free" \notin Requests

Fragments == {"char", "lead", "cont"}
Chars == {"plain", "wide", "FFFD"}
Free == "free"

VARIABLES
  mode,      \* what the request asks for: "stream", "buffered" (a stream
             \* with tools) or "once"; "none" before it arrives
  pc,        \* the thread that generates: producer, or handler for "once"
  lock,      \* holder of QueueServer._lock
  context,   \* what the engine has consumed since its last reset
  tokens,    \* tokens generated for each request
  emitted,   \* _chat_stream's emitted
  events,    \* the event queue of a streaming request
  reader,    \* its handler thread: "none", "open", "closed" or "gone"
  text,      \* content the client has received
  ending     \* the final event it has received, "none" before

producer == <<mode, pc, lock, context, tokens, emitted>>
client == <<reader, text, ending>>
vars == <<producer, events, client>>

-----------------------------------------------------------------------------
(* Text.                                                                    *)

(* tokenizer.decode of a byte-level vocabulary. *)
Decoded[s \in Seq(Fragments)] ==
  IF s = <<>> THEN <<>>
  ELSE IF s[1] = "char" THEN <<"plain">> \o Decoded[Tail(s)]
  ELSE IF s[1] = "lead" /\ Len(s) > 1 /\ s[2] = "cont"
       THEN <<"wide">> \o Decoded[Tail(Tail(s))]
  ELSE <<"FFFD">> \o Decoded[Tail(s)]

IsPrefixOf(s, t) == Len(s) <= Len(t) /\ SubSeq(t, 1, Len(s)) = s

Upto(t, n) == SubSeq(t, 1, n)
From(t, n) == SubSeq(t, n + 1, Len(t))

(* text.rstrip("\ufffd") *)
StripTrailing(t) ==
  Upto(t, CHOOSE n \in 0..Len(t) :
            /\ n = 0 \/ t[n] # "FFFD"
            /\ \A i \in (n + 1)..Len(t) : t[i] = "FFFD")

SharedPrefixLen(s, t) ==
  CHOOSE n \in 0..Len(s) :
    /\ IsPrefixOf(Upto(s, n), t)
    /\ \A i \in (n + 1)..Len(s) : ~IsPrefixOf(Upto(s, i), t)

(* Mutant: an incomplete character is not held back. *)
IncrementalSuffixEager(prev, t) ==
  IF IsPrefixOf(prev, t) THEN From(t, Len(prev))
  ELSE From(t, SharedPrefixLen(t, prev))

(* _incremental_suffix: what is new, without an incomplete character. *)
IncrementalSuffix(prev, t) ==
  LET safe == StripTrailing(t)
  IN  IF IsPrefixOf(prev, safe) THEN From(safe, Len(prev))
      ELSE From(safe, SharedPrefixLen(safe, prev))

(* produce's final flush. *)
FlushTail(prev, final) ==
  IF IsPrefixOf(prev, final) THEN From(final, Len(prev))
  ELSE IncrementalSuffix(prev, final)

-----------------------------------------------------------------------------
Delta(t) == [kind |-> "text", text |-> t]
Ending(k) == [kind |-> k, text |-> <<>>]
Deltas(t) == IF t = <<>> THEN <<>> ELSE <<Delta(t)>>

(* events.put: the queue has no bound, so it never blocks.  What a handler *)
(* that has stopped draining will never take is not kept.                   *)
Put(r, es) ==
  events' = [events EXCEPT ![r] = IF reader[r] = "gone" THEN <<>> ELSE @ \o es]

Goto(r, label) == pc' = [pc EXCEPT ![r] = label]

Streaming(r) == mode[r] # "once"

Init ==
  /\ mode = [r \in Requests |-> "none"]
  /\ pc = [r \in Requests |-> "new"]
  /\ lock = Free /\ context = <<>>
  /\ tokens = [r \in Requests |-> <<>>]
  /\ emitted = [r \in Requests |-> <<>>]
  /\ events = [r \in Requests |-> <<>>]
  /\ reader = [r \in Requests |-> "none"]
  /\ text = [r \in Requests |-> <<>>]
  /\ ending = [r \in Requests |-> "none"]

(* A valid POST: the streaming handler starts its producer and drains. *)
Arrive(r, m) ==
  /\ pc[r] = "new"
  /\ mode' = [mode EXCEPT ![r] = m]
  /\ Goto(r, "chat")
  /\ reader' = [reader EXCEPT ![r] = "open"]
  /\ UNCHANGED <<lock, context, tokens, emitted, events, text,
                 ending>>

(* The lock is taken: the thread blocks; threading.Lock keeps no queue. *)
Block(r) ==
  /\ pc[r] = "chat" /\ lock # Free
  /\ Goto(r, "blocked")
  /\ UNCHANGED <<mode, lock, context, tokens, emitted, events, client>>

(* Mutant: the lock is not taken. *)
AcquireUnlocked(r) ==
  /\ pc[r] \in {"chat", "blocked"}
  /\ lock' = r
  /\ Goto(r, "generate")
  /\ context' = <<>>
  /\ UNCHANGED <<mode, tokens, emitted, events, client>>

(* QueueServer.chat: a free lock goes to any thread that asks for it.      *)
(* ChatSession.run then resets the engine.                                  *)
Acquire(r) ==
  /\ pc[r] \in {"chat", "blocked"} /\ lock = Free
  /\ lock' = r
  /\ Goto(r, "generate")
  /\ context' = <<>>
  /\ UNCHANGED <<mode, tokens, emitted, events, client>>

(* Mutant: generation does not stop at the cap. *)
TokenUncapped(r, f) ==
  /\ pc[r] = "generate"
  /\ tokens' = [tokens EXCEPT ![r] = Append(@, f)]
  /\ context' = Append(context, <<r, f>>)
  /\ UNCHANGED <<mode, pc, lock, emitted, events, client>>

(* One round of generate: a token is sampled, the engine steps, on_token   *)
(* emits what has become complete.                                          *)
Token(r, f) ==
  /\ pc[r] = "generate" /\ Len(tokens[r]) < MaxNewTokens[r]
  /\ tokens' = [tokens EXCEPT ![r] = Append(@, f)]
  /\ context' = Append(context, <<r, f>>)
  /\ IF mode[r] = "stream"
     THEN LET t == Decoded[Append(tokens[r], f)]
          IN  /\ Put(r, Deltas(IncrementalSuffix(emitted[r], t)))
              /\ emitted' = [emitted EXCEPT ![r] = StripTrailing(t)]
     ELSE UNCHANGED <<events, emitted>>
  /\ UNCHANGED <<mode, pc, lock, client>>

(* EOS or the cap: run returns and the lock is released. *)
Finish(r) ==
  /\ pc[r] = "generate"
  /\ lock' = Free
  /\ Goto(r, "reply")
  /\ UNCHANGED <<mode, context, tokens, emitted, events, client>>

(* Mutant: what was held back is never sent. *)
ReplyWithoutFlush(r) ==
  /\ pc[r] = "reply" /\ Streaming(r)
  /\ LET content == IF mode[r] = "stream" THEN <<>> ELSE Decoded[tokens[r]]
     IN  Put(r, Deltas(content) \o <<Ending("done")>>)
  /\ Goto(r, "sentinel")
  /\ UNCHANGED <<mode, lock, context, tokens, emitted, client>>

(* The rest of produce: flush or buffered content, final chunk and [DONE]. *)
Reply(r) ==
  /\ pc[r] = "reply" /\ Streaming(r)
  /\ LET final == Decoded[tokens[r]]
         content == IF mode[r] = "stream" THEN FlushTail(emitted[r], final)
                    ELSE final
     IN  Put(r, Deltas(content) \o <<Ending("done")>>)
  /\ Goto(r, "sentinel")
  /\ UNCHANGED <<mode, lock, context, tokens, emitted, client>>

(* _chat_once answers with the whole text; a client that left is not told. *)
AnswerOnce(r) ==
  /\ pc[r] = "reply" /\ ~Streaming(r)
  /\ Goto(r, "end")
  /\ IF reader[r] = "open"
     THEN /\ text' = [text EXCEPT ![r] = Decoded[tokens[r]]]
          /\ ending' = [ending EXCEPT ![r] = "done"]
          /\ reader' = [reader EXCEPT ![r] = "closed"]
     ELSE UNCHANGED client
  /\ UNCHANGED <<mode, lock, context, tokens, emitted, events>>

(* The engine raises, which releases the lock, or afterwards the decoding  *)
(* or parsing of the reply: a stream gets an error event, a plain request  *)
(* loses its connection.                                                    *)
Raise(r) ==
  /\ pc[r] \in {"generate", "reply"}
  /\ lock' = IF pc[r] = "generate" THEN Free ELSE lock
  /\ IF Streaming(r)
     THEN /\ Put(r, <<Ending("error")>>) /\ Goto(r, "sentinel")
          /\ UNCHANGED reader
     ELSE /\ Goto(r, "end") /\ reader' = [reader EXCEPT ![r] = "closed"]
          /\ UNCHANGED events
  /\ UNCHANGED <<mode, context, tokens, emitted, text, ending>>

(* Mutant: the sentinel is only sent after a success. *)
SentinelAfterSuccess(r) ==
  /\ pc[r] = "sentinel"
  /\ Put(r, IF \E e \in DOMAIN events[r] : events[r][e].kind = "error"
            THEN <<>> ELSE <<Ending("finished")>>)
  /\ Goto(r, "end")
  /\ UNCHANGED <<mode, lock, context, tokens, emitted, client>>

(* finally: events.put(finished) *)
Sentinel(r) ==
  /\ pc[r] = "sentinel"
  /\ Put(r, <<Ending("finished")>>)
  /\ Goto(r, "end")
  /\ UNCHANGED <<mode, lock, context, tokens, emitted, client>>

(* The handler takes one event and writes it out, or ends the response. *)
Drain(r) ==
  /\ Streaming(r) /\ reader[r] = "open" /\ events[r] # <<>>
  /\ LET e == Head(events[r])
     IN  /\ text' = [text EXCEPT ![r] = @ \o e.text]
         /\ ending' = IF e.kind \in {"done", "error"}
                      THEN [ending EXCEPT ![r] = e.kind] ELSE ending
         /\ reader' = IF e.kind = "finished"
                      THEN [reader EXCEPT ![r] = "closed"] ELSE reader
  /\ events' = [events EXCEPT ![r] = Tail(@)]
  /\ UNCHANGED producer

(* The client disconnects: writing fails and the handler stops draining;   *)
(* the producer is not told.                                                *)
Disconnect(r) ==
  /\ reader[r] = "open"
  /\ reader' = [reader EXCEPT ![r] = "gone"]
  /\ events' = [events EXCEPT ![r] = <<>>]
  /\ UNCHANGED <<producer, text, ending>>

Produce(r) ==
  \/ Block(r) \/ Acquire(r) \/ Finish(r) \/ Raise(r) \/ Reply(r)
  \/ AnswerOnce(r) \/ Sentinel(r) \/ \E f \in Fragments : Token(r, f)

Next ==
  \E r \in Requests :
    \/ \E m \in {"stream", "buffered", "once"} : Arrive(r, m)
    \/ Produce(r) \/ Drain(r) \/ Disconnect(r)

(* Threads run; clients need not arrive or leave. *)
Fairness == \A r \in Requests : WF_vars(Produce(r)) /\ WF_vars(Drain(r))

Spec == Init /\ [][Next]_vars /\ Fairness

-----------------------------------------------------------------------------
(* Correctness.                                                             *)

Events == [kind : {"text", "done", "error", "finished"}, text : Seq(Chars)]
Labels == {"new", "chat", "blocked", "generate", "reply", "sentinel", "end"}

TypeOK ==
  /\ mode \in [Requests -> {"stream", "buffered", "once", "none"}]
  /\ pc \in [Requests -> Labels]
  /\ lock \in Requests \cup {Free}
  /\ tokens \in [Requests -> Seq(Fragments)]
  /\ \A r \in Requests : Len(tokens[r]) <= MaxNewTokens[r]
  /\ emitted \in [Requests -> Seq(Chars)]
  /\ text \in [Requests -> Seq(Chars)]
  /\ events \in [Requests -> Seq(Events)]
  /\ reader \in [Requests -> {"none", "open", "closed", "gone"}]
  /\ ending \in [Requests -> {"none", "done", "error"}]

(* While a request generates, the engine has consumed its tokens and       *)
(* nothing of any other request, whatever raised or was abandoned before:  *)
(* the lock and the reset together isolate requests.                        *)
EngineIsolation ==
  \A r \in Requests :
    pc[r] = "generate" =>
      context = [i \in 1..Len(tokens[r]) |-> <<r, tokens[r][i]>>]

(* The text that events carry, in order. *)
Contents(es) ==
  LET after[i \in 0..Len(es)] ==
        IF i = 0 THEN <<>> ELSE after[i - 1] \o es[i].text
  IN  after[Len(es)]

(* The text handed to a client, what its queue still holds included. *)
Sent(r) == text[r] \o Contents(events[r])

(* "never emit a partial multi-byte character": everything handed to a     *)
(* client is a prefix of the final text, whatever tokens are still to come *)
(* (so no replacement character is sent that a later token completes).     *)
NeverPartial ==
  \A r \in Requests :
    reader[r] \in {"open", "closed"} =>
      IsPrefixOf(Sent(r), Decoded[tokens[r]])

(* "the concatenated deltas equal the non-streaming text exactly": a       *)
(* client whose response ended well has the whole decoded text.            *)
StreamEqualsText ==
  \A r \in Requests :
    (reader[r] = "closed" /\ ending[r] = "done") =>
      text[r] = Decoded[tokens[r]]

(* Every request that arrives is answered to its end unless its client     *)
(* leaves: errors, other requests and clients that vanish in the middle of *)
(* a generation never leave a handler draining an empty queue or the       *)
(* engine locked.                                                           *)
EveryRequestAnswered ==
  \A r \in Requests : pc[r] = "chat" ~> reader[r] \in {"closed", "gone"}

=============================================================================
