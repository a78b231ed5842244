-------------------------- MODULE ChatServerProofs --------------------------
(***************************************************************************)
(* For any requests and token caps, and any fragments the model produces:  *)
(* requests do not see each other's engine state, no client is sent part   *)
(* of a character, and a stream that ends well carries the whole text.     *)
(* For any tools and any text: a stream says what the plain reply says.    *)
(***************************************************************************)
EXTENDS ChatServer, ChatReply, Induction, SequenceTheorems, TLAPS

Waiting(r) == pc[r] \in {"new", "chat", "blocked"}
Working(r) == pc[r] \in {"generate", "reply"}

(* The lock is held by the request that generates. *)
LockInv == \A r \in Requests : pc[r] = "generate" <=> lock = r

(* Before its turn a request has nothing; a handler exists once it has     *)
(* arrived.                                                                 *)
ArrivalInv(r) ==
  /\ Waiting(r) => /\ tokens[r] = <<>> /\ emitted[r] = <<>>
                   /\ events[r] = <<>> /\ text[r] = <<>>
  /\ pc[r] = "new" => reader[r] = "none"
  /\ pc[r] # "new" => mode[r] # "none" /\ reader[r] # "none"

Kinds(es) == {es[i].kind : i \in 1..Len(es)}

FinishedLast(es) ==
  \A i \in 1..Len(es) : es[i].kind = "finished" => i = Len(es)

(* An ending is sent after all text, the sentinel last, a response is      *)
(* closed by the sentinel or the single answer, and a request that is not  *)
(* streamed gets no text before its answer.                                *)
QueueInv(r) ==
  /\ ending[r] # "none" => pc[r] \in {"sentinel", "end"}
  /\ reader[r] = "closed" => pc[r] = "end" /\ events[r] = <<>>
  /\ mode[r] = "once" => /\ events[r] = <<>> /\ pc[r] # "sentinel"
                         /\ pc[r] # "end" => text[r] = <<>>
  /\ \A k \in Kinds(events[r]) : k # "text" => pc[r] \in {"sentinel", "end"}
  /\ "finished" \in Kinds(events[r]) => pc[r] = "end"
  /\ FinishedLast(events[r])

(* on_token has emitted what is complete so far. *)
EmittedInv(r) ==
  (mode[r] = "stream" /\ Working(r)) =>
    emitted[r] = StripTrailing(Decoded[tokens[r]])

(* The producer has sent, or the client received, a good end. *)
Completed(r) == ending[r] = "done" \/ "done" \in Kinds(events[r])

(* What a client that still listens has been handed. *)
SentInv(r) ==
  reader[r] \in {"open", "closed"} =>
    /\ IsPrefixOf(Sent(r), Decoded[tokens[r]])
    /\ Completed(r) => Sent(r) = Decoded[tokens[r]]
    /\ Working(r) => Sent(r) = IF mode[r] = "stream" THEN emitted[r] ELSE <<>>

(* What holds of one request's own state. *)
RequestInv(r) == ArrivalInv(r) /\ QueueInv(r) /\ EmittedInv(r) /\ SentInv(r)

IInv == /\ TypeOK /\ LockInv /\ EngineIsolation
        /\ \A r \in Requests : RequestInv(r)

-----------------------------------------------------------------------------
(* The tail of a sequence of two or more, and its tail. *)
LEMMA TailOfTail ==
  ASSUME NEW S, NEW s \in Seq(S), Len(s) > 1
  PROVE  /\ Tail(s) \in Seq(S) /\ Tail(s) # <<>>
         /\ Tail(Tail(s)) \in Seq(S)
         /\ Len(Tail(s)) = Len(s) - 1 /\ Len(Tail(Tail(s))) = Len(s) - 2
<1>1. s # <<>> /\ Len(s) \in Nat
  OBVIOUS
<1>2. Tail(s) \in Seq(S) /\ Len(Tail(s)) = Len(s) - 1
  BY <1>1, HeadTailProperties
<1>3. Tail(s) # <<>>
  <2>1. Len(Tail(s)) # 0
    BY <1>1, <1>2
  <2> QED BY <2>1, EmptySeq, Zenon
<1> QED BY <1>1, <1>2, <1>3, HeadTailProperties

-----------------------------------------------------------------------------
(* Decoding.  The recursive definition has a solution, so that Decoded     *)
(* satisfies it.                                                            *)

Texts == Seq(Fragments)

(* One unfolding of the definition, with g for the recursive call. *)
DecodeStep(g, s) ==
  IF s = <<>> THEN <<>>
  ELSE IF s[1] = "char" THEN <<"plain">> \o g[Tail(s)]
  ELSE IF s[1] = "lead" /\ Len(s) > 1 /\ s[2] = "cont"
       THEN <<"wide">> \o g[Tail(Tail(s))]
  ELSE <<"FFFD">> \o g[Tail(s)]

(* A step only looks at shorter sequences. *)
LEMMA StepIsLocal ==
  ASSUME NEW g, NEW h, NEW s \in Texts,
         \A t \in Texts : Len(t) < Len(s) => g[t] = h[t]
  PROVE  DecodeStep(g, s) = DecodeStep(h, s)
<1>1. CASE s = <<>>
  BY <1>1 DEF DecodeStep
<1>2. CASE s # <<>>
  <2>1. Tail(s) \in Texts /\ Len(Tail(s)) = Len(s) - 1 /\ Len(s) \in Nat
    BY <1>2, HeadTailProperties, LenProperties DEF Texts
  <2>2. Len(s) > 1 => Tail(Tail(s)) \in Texts
                      /\ Len(Tail(Tail(s))) = Len(s) - 2
    BY TailOfTail DEF Texts
  <2>3. g[Tail(s)] = h[Tail(s)]
    <3>1. Len(s) - 1 < Len(s)
      BY <2>1
    <3>2. Len(Tail(s)) < Len(s)
      BY <2>1, <3>1, Zenon
    <3> QED BY <2>1, <3>2, Zenon
  <2>4. Len(s) > 1 => g[Tail(Tail(s))] = h[Tail(Tail(s))]
    <3>1. Len(s) > 1 => Len(Tail(Tail(s))) < Len(s)
      BY <2>1, <2>2
    <3> QED BY <2>2, <3>1, Zenon
  <2> QED BY <1>2, <2>3, <2>4 DEF DecodeStep
<1> QED BY <1>1, <1>2

(* g decodes everything of length up to n. *)
DecodesUpto(g, n) ==
  \A s \in Texts : Len(s) <= n => g[s] = DecodeStep(g, s)

(* There is such a function for every n. *)
LEMMA DecoderExists == \A n \in Nat : \E g : DecodesUpto(g, n)
<1> DEFINE T == {n \in Nat : \E g : DecodesUpto(g, n)}
<1>1. ASSUME NEW n \in Nat, \A m \in Nat : m < n => m \in T
      PROVE  n \in T
  <2>1. PICK g : \A s \in Texts : Len(s) < n => g[s] = DecodeStep(g, s)
    <3>1. CASE n = 0
      <4>1. \A s \in Texts : ~(Len(s) < n)
        BY <3>1, LenProperties DEF Texts
      <4> QED BY <4>1
    <3>2. CASE n # 0
      <4>1. n - 1 \in T
        BY <1>1, <3>2
      <4>2. PICK g : DecodesUpto(g, n - 1)
        BY <4>1
      <4>3. \A s \in Texts : Len(s) < n => Len(s) <= n - 1
        BY LenProperties DEF Texts
      <4> QED BY <4>2, <4>3 DEF DecodesUpto
    <3> QED BY <3>1, <3>2
  <2> DEFINE h == [s \in Texts |-> IF Len(s) < n THEN g[s]
                                   ELSE DecodeStep(g, s)]
  <2>2. \A t \in Texts : Len(t) < n => h[t] = g[t]
    OBVIOUS
  <2>3. ASSUME NEW s \in Texts, Len(s) <= n PROVE h[s] = DecodeStep(h, s)
    <3>1. h[s] = DecodeStep(g, s)
      BY <2>1
    <3>2. \A t \in Texts : Len(t) < Len(s) => g[t] = h[t]
      BY <2>2, <2>3, LenProperties DEF Texts
    <3> HIDE DEF h
    <3> QED BY <3>1, <3>2, StepIsLocal
  <2> HIDE DEF h
  <2> QED BY <2>3 DEF DecodesUpto
<1> HIDE DEF T
<1>2. T \in SUBSET Nat
  BY DEF T
<1>3. T = Nat
  BY <1>1, <1>2, SetInduction
<1> QED BY <1>3 DEF T

(* Two of them agree where both decode. *)
LEMMA DecoderUnique ==
  ASSUME NEW g, NEW h, NEW n \in Nat, DecodesUpto(g, n), DecodesUpto(h, n),
         NEW s \in Texts, Len(s) <= n
  PROVE  g[s] = h[s]
<1> DEFINE T == {k \in Nat : k <= n => \A t \in Texts :
                               Len(t) = k => g[t] = h[t]}
<1>1. ASSUME NEW k \in Nat, \A m \in Nat : m < k => m \in T
      PROVE  k \in T
  <2> SUFFICES ASSUME k <= n, NEW t \in Texts, Len(t) = k
               PROVE  g[t] = h[t]
    OBVIOUS
  <2>1. \A u \in Texts : Len(u) < Len(t) => g[u] = h[u]
    BY <1>1, LenProperties DEF Texts
  <2>2. DecodeStep(g, t) = DecodeStep(h, t)
    BY <2>1, StepIsLocal
  <2> QED BY <2>2 DEF DecodesUpto
<1> HIDE DEF T
<1>2. T = Nat
  <2>1. T \in SUBSET Nat
    BY DEF T
  <2> QED BY <1>1, <2>1, SetInduction
<1> QED BY <1>2, LenProperties DEF T, Texts

(* Decoded satisfies its definition. *)
LEMMA DecodedUnfolds ==
  \A s \in Texts : Decoded[s] = DecodeStep(Decoded, s)
<1> DEFINE dec(n) == CHOOSE g : DecodesUpto(g, n)
           F == [s \in Texts |-> dec(Len(s))[s]]
<1>1. \A n \in Nat : DecodesUpto(dec(n), n)
  BY DecoderExists
<1>2. ASSUME NEW s \in Texts PROVE F[s] = DecodeStep(F, s)
  <2> DEFINE g == dec(Len(s))
  <2>1. Len(s) \in Nat /\ DecodesUpto(g, Len(s))
    BY <1>1, LenProperties DEF Texts
  <2>2. F[s] = DecodeStep(g, s)
    BY <2>1 DEF DecodesUpto
  <2>3. ASSUME NEW t \in Texts, Len(t) < Len(s) PROVE F[t] = g[t]
    <3>1. Len(t) \in Nat /\ DecodesUpto(dec(Len(t)), Len(t))
      BY <1>1, LenProperties DEF Texts
    <3>2. DecodesUpto(g, Len(t))
      <4>1. \A u \in Texts : Len(u) <= Len(t) => Len(u) <= Len(s)
        BY <2>1, <2>3, <3>1, LenProperties DEF Texts
      <4> QED BY <2>1, <4>1 DEF DecodesUpto
    <3> HIDE DEF dec
    <3> QED BY <3>1, <3>2, DecoderUnique
  <2> HIDE DEF F, g
  <2> QED BY <2>2, <2>3, StepIsLocal
<1> HIDE DEF F
<1>3. F = [s \in Texts |-> DecodeStep(F, s)]
  BY <1>2 DEF F
<1>4. Decoded = [s \in Texts |-> DecodeStep(Decoded, s)]
  BY <1>3 DEF Decoded, DecodeStep, Texts
<1> QED BY <1>4

(* Decoding gives characters. *)
LEMMA DecodedType == \A s \in Texts : Decoded[s] \in Seq(Chars)
<1> DEFINE T == {n \in Nat : \A s \in Texts :
                   Len(s) = n => Decoded[s] \in Seq(Chars)}
<1>1. ASSUME NEW n \in Nat, \A m \in Nat : m < n => m \in T
      PROVE  n \in T
  <2> SUFFICES ASSUME NEW s \in Texts, Len(s) = n
               PROVE  Decoded[s] \in Seq(Chars)
    OBVIOUS
  <2>1. \A t \in Texts : Len(t) < Len(s) => Decoded[t] \in Seq(Chars)
    BY <1>1, LenProperties DEF Texts
  <2> HIDE DEF T
  <2>2. \A c \in Chars, t \in Seq(Chars) : <<c>> \o t \in Seq(Chars)
    OBVIOUS
  <2>3. {"plain", "wide", "FFFD"} \subseteq Chars
    BY DEF Chars
  <2>4. CASE s = <<>>
    <3>1. <<>> \in Seq(Chars)
      OBVIOUS
    <3>2. Decoded[s] = DecodeStep(Decoded, s)
      BY DecodedUnfolds
    <3> QED BY <2>4, <3>1, <3>2, Zenon DEF DecodeStep
  <2>5. CASE s # <<>>
    <3>1. Tail(s) \in Texts /\ Len(Tail(s)) < Len(s)
      <4>1. Tail(s) \in Texts /\ Len(Tail(s)) = Len(s) - 1
        BY <2>5, HeadTailProperties DEF Texts
      <4>2. n - 1 < n
        OBVIOUS
      <4> QED BY <4>1, <4>2, Zenon
    <3>2. Len(s) > 1 => Tail(Tail(s)) \in Texts
                        /\ Len(Tail(Tail(s))) < Len(s)
      <4>1. Len(s) > 1 => Tail(Tail(s)) \in Texts
                          /\ Len(Tail(Tail(s))) = Len(s) - 2
        BY TailOfTail DEF Texts
      <4>2. n - 2 < n
        OBVIOUS
      <4> QED BY <4>1, <4>2, Zenon
    <3>3. Decoded[Tail(s)] \in Seq(Chars)
          /\ (Len(s) > 1 => Decoded[Tail(Tail(s))] \in Seq(Chars))
      BY <2>1, <3>1, <3>2, Zenon
    <3>4. Decoded[s] = DecodeStep(Decoded, s)
      BY DecodedUnfolds
    <3> QED BY <2>2, <2>3, <2>5, <3>3, <3>4 DEF DecodeStep
  <2> QED BY <2>4, <2>5
<1> HIDE DEF T
<1>2. T = Nat
  <2>1. T \in SUBSET Nat
    BY DEF T
  <2> QED BY <1>1, <2>1, SetInduction
<1> QED BY <1>2, LenProperties DEF T, Texts

(* e is d with one character more, which may have taken the place of a     *)
(* replacement character at the end of d.                                   *)
Grows(d, e) ==
  \E u \in Seq(Chars), c \in Chars :
    e = u \o <<c>> /\ (d = u \/ d = u \o <<"FFFD">>)

(* Growing at the end does not depend on the front. *)
LEMMA GrowsBehind ==
  ASSUME NEW x \in Chars, NEW d \in Seq(Chars), NEW e \in Seq(Chars),
         Grows(d, e)
  PROVE  Grows(<<x>> \o d, <<x>> \o e)
<1>1. PICK u \in Seq(Chars), c \in Chars :
        e = u \o <<c>> /\ (d = u \/ d = u \o <<"FFFD">>)
  BY DEF Grows
<1>2. <<x>> \in Seq(Chars) /\ <<c>> \in Seq(Chars)
      /\ <<"FFFD">> \in Seq(Chars) /\ <<x>> \o u \in Seq(Chars)
  BY DEF Chars
<1>3. /\ <<x>> \o (u \o <<c>>) = (<<x>> \o u) \o <<c>>
      /\ <<x>> \o (u \o <<"FFFD">>) = (<<x>> \o u) \o <<"FFFD">>
  BY <1>2, ConcatAssociative
<1> QED BY <1>1, <1>2, <1>3, Zenon DEF Grows

(* What one more fragment does to the decoded text: the tokenizer may      *)
(* complete the last character, and changes nothing before it.             *)
LEMMA DecodedGrows ==
  \A s \in Texts, f \in Fragments : Grows(Decoded[s], Decoded[Append(s, f)])
<1> DEFINE T == {n \in Nat : \A s \in Texts, f \in Fragments :
                   Len(s) = n => Grows(Decoded[s], Decoded[Append(s, f)])}
<1>1. ASSUME NEW n \in Nat, \A m \in Nat : m < n => m \in T
      PROVE  n \in T
  <2> SUFFICES ASSUME NEW s \in Texts, NEW f \in Fragments, Len(s) = n
               PROVE  Grows(Decoded[s], Decoded[Append(s, f)])
    OBVIOUS
  <2>1. \A t \in Texts : Len(t) < Len(s) =>
          Grows(Decoded[t], Decoded[Append(t, f)])
    BY <1>1, LenProperties DEF Texts
  <2> HIDE DEF T
  <2> DEFINE a == Append(s, f)
  <2>2. a \in Texts /\ a # <<>> /\ Len(a) = n + 1
        /\ \A i \in 1..n : a[i] = s[i]
    BY AppendProperties DEF Texts
  <2>3. a[n + 1] = f
    BY AppendProperties DEF Texts
  <2>4. Tail(a) = IF s = <<>> THEN <<>> ELSE Append(Tail(s), f)
    BY HeadTailAppend DEF Texts
  <2> HIDE DEF a
  <2>5. /\ Decoded[s] = DecodeStep(Decoded, s)
        /\ Decoded[a] = DecodeStep(Decoded, a)
        /\ Decoded[<<>>] = <<>>
    <3>1. <<>> \in Texts
      BY DEF Texts
    <3> QED BY <2>2, <3>1, DecodedUnfolds DEF DecodeStep
  <2>6. \A t \in Texts : Decoded[t] \in Seq(Chars)
    BY DecodedType
  <2>7. {"plain", "wide", "FFFD"} \subseteq Chars
    BY DEF Chars
  <2>8. \A c \in Chars : /\ <<c>> \o <<>> = <<c>> /\ <<>> \o <<c>> = <<c>>
                         /\ <<c>> \in Seq(Chars) /\ <<>> \in Seq(Chars)
    OBVIOUS
  <2>9. CASE s = <<>>
    <3>1. Len(a) = 1 /\ Tail(a) = <<>>
      BY <2>2, <2>4, <2>9
    <3>2. \E c \in Chars : Decoded[a] = <<c>> \o <<>>
      <4>1. ~(Len(a) > 1)
        BY <3>1
      <4>2. Decoded[a] = <<"plain">> \o <<>> \/ Decoded[a] = <<"FFFD">> \o <<>>
        BY <2>2, <2>5, <3>1, <4>1, Zenon DEF DecodeStep
      <4> QED BY <2>7, <4>2, Zenon
    <3>3. Decoded[s] = <<>>
      BY <2>5, <2>9
    <3> QED BY <2>8, <3>2, <3>3 DEF Grows, a
  <2>10. CASE s # <<>>
    <3>1. /\ Tail(s) \in Texts /\ Len(Tail(s)) = n - 1 /\ n > 0
          /\ Tail(a) = Append(Tail(s), f) /\ Tail(a) \in Texts
      <4>1. Tail(s) \in Texts /\ Len(Tail(s)) = n - 1
        BY <2>10, HeadTailProperties DEF Texts
      <4>2. n # 0
        BY <2>10, EmptySeq DEF Texts
      <4>3. Append(Tail(s), f) \in Texts
        BY <4>1, AppendProperties DEF Texts
      <4>4. n > 0
        BY <4>2
      <4> QED BY <2>4, <2>10, <4>1, <4>3, <4>4, Zenon
    <3>2. Grows(Decoded[Tail(s)], Decoded[Tail(a)])
      <4>1. n - 1 < n
        OBVIOUS
      <4> QED BY <2>1, <3>1, <4>1, Zenon
    <3>3. a[1] = s[1] /\ s[1] \in Fragments
      BY <2>2, <3>1, ElementOfSeq DEF Texts
    <3>4. \A x \in Chars : Grows(<<x>> \o Decoded[Tail(s)],
                                 <<x>> \o Decoded[Tail(a)])
      BY <2>6, <3>1, <3>2, GrowsBehind
    <3>5. CASE s[1] = "char"
      <4>1. /\ Decoded[s] = <<"plain">> \o Decoded[Tail(s)]
            /\ Decoded[a] = <<"plain">> \o Decoded[Tail(a)]
        BY <2>2, <2>5, <2>10, <3>3, <3>5, Zenon DEF DecodeStep
      <4> QED BY <2>7, <3>4, <4>1 DEF a
    <3>6. CASE s[1] = "lead" /\ Len(s) > 1 /\ s[2] = "cont"
      <4>1. /\ Tail(Tail(s)) \in Texts /\ Len(Tail(Tail(s))) = n - 2
            /\ Tail(s) # <<>> /\ n > 1
        BY <3>6, TailOfTail DEF Texts
      <4>2. /\ Tail(Tail(a)) = Append(Tail(Tail(s)), f)
            /\ Tail(Tail(a)) \in Texts
        BY <3>1, <4>1, HeadTailAppend, AppendProperties DEF Texts
      <4>3. Grows(Decoded[Tail(Tail(s))], Decoded[Tail(Tail(a))])
        <5>1. n - 2 < n
          OBVIOUS
        <5> QED BY <2>1, <4>1, <4>2, <5>1, Zenon
      <4>4. a[2] = "cont" /\ Len(a) > 1 /\ a[1] = "lead"
        BY <2>2, <3>3, <3>6, <4>1
      <4>5. /\ Decoded[s] = <<"wide">> \o Decoded[Tail(Tail(s))]
            /\ Decoded[a] = <<"wide">> \o Decoded[Tail(Tail(a))]
        BY <2>2, <2>5, <2>10, <3>6, <4>4 DEF DecodeStep
      <4> QED BY <2>6, <2>7, <4>1, <4>2, <4>3, <4>5, GrowsBehind DEF a
    <3>7. CASE s[1] = "lead" /\ n = 1 /\ f = "cont"
      <4>1. a[1] = "lead" /\ Len(a) > 1 /\ a[2] = "cont"
        BY <2>2, <2>3, <3>3, <3>7
      <4>2. Tail(s) = <<>>
        <5>1. n - 1 = 0
          BY <3>7
        <5>2. Len(Tail(s)) = 0
          BY <3>1, <5>1, Zenon
        <5> QED BY <3>1, <5>2, EmptySeq, Zenon DEF Texts
      <4>3. Tail(Tail(a)) = <<>>
        <5>1. Tail(a) = Append(<<>>, f)
          BY <3>1, <4>2
        <5>2. Tail(Append(<<>>, f)) = <<>>
          BY EmptySeq, HeadTailAppend
        <5> QED BY <5>1, <5>2
      <4>4. Decoded[a] = <<"wide">> \o <<>>
        BY <2>2, <2>5, <4>1, <4>3 DEF DecodeStep
      <4>5. Decoded[s] = <<"FFFD">> \o <<>>
        <5>1. ~(Len(s) > 1) /\ "lead" # "char"
          BY <3>7
        <5> QED BY <2>5, <2>10, <3>7, <4>2, <5>1, Zenon DEF DecodeStep
      <4>6. Decoded[a] = <<>> \o <<"wide">>
            /\ Decoded[s] = <<>> \o <<"FFFD">>
        BY <2>7, <2>8, <4>4, <4>5
      <4> QED BY <2>7, <2>8, <4>6, Zenon DEF Grows, a
    <3>8. CASE ~(s[1] = "lead" /\ n = 1 /\ f = "cont") /\ s[1] # "char"
               /\ ~(s[1] = "lead" /\ Len(s) > 1 /\ s[2] = "cont")
      <4>1. ~(a[1] = "lead" /\ Len(a) > 1 /\ a[2] = "cont")
        <5>1. CASE n = 1
          BY <2>3, <3>3, <3>8, <5>1
        <5>2. CASE n > 1
          BY <2>2, <3>3, <3>8, <5>2
        <5> QED BY <3>1, <5>1, <5>2
      <4>2. /\ Decoded[s] = <<"FFFD">> \o Decoded[Tail(s)]
            /\ Decoded[a] = <<"FFFD">> \o Decoded[Tail(a)]
        BY <2>2, <2>5, <2>10, <3>3, <3>8, <4>1, Zenon DEF DecodeStep
      <4> QED BY <2>7, <3>4, <4>2 DEF a
    <3> QED BY <3>5, <3>6, <3>7, <3>8
  <2> QED BY <2>9, <2>10
<1> HIDE DEF T
<1>2. T = Nat
  <2>1. T \in SUBSET Nat
    BY DEF T
  <2> QED BY <1>1, <2>1, SetInduction
<1> QED BY <1>2, LenProperties DEF T, Texts


-----------------------------------------------------------------------------
(* Prefixes, and the text without its incomplete end. *)

(* The first m elements of a sequence are a prefix of its first n. *)
LEMMA UptoPrefix ==
  ASSUME NEW S, NEW t \in Seq(S), NEW n \in 0..Len(t), NEW m \in 0..n
  PROVE  /\ Upto(t, n) \in Seq(S) /\ Len(Upto(t, n)) = n
         /\ IsPrefixOf(Upto(t, m), Upto(t, n))
<1>1. Len(t) \in Nat /\ n \in Nat /\ m \in Nat /\ n <= Len(t) /\ m <= n
  BY LenProperties
<1>2. \A k \in 0..Len(t) :
        /\ SubSeq(t, 1, k) \in Seq(S) /\ Len(SubSeq(t, 1, k)) = k
        /\ \A i \in 1..k : SubSeq(t, 1, k)[i] = t[i]
  BY <1>1, SubSeqProperties
<1> DEFINE u == SubSeq(t, 1, n)  v == SubSeq(t, 1, m)
<1>3. /\ u \in Seq(S) /\ Len(u) = n /\ v \in Seq(S) /\ Len(v) = m
      /\ \A i \in 1..n : u[i] = t[i]
      /\ \A i \in 1..m : v[i] = t[i]
  BY <1>1, <1>2
<1> HIDE DEF u, v
<1>4. /\ SubSeq(u, 1, m) \in Seq(S) /\ Len(SubSeq(u, 1, m)) = m
      /\ \A i \in 1..m : SubSeq(u, 1, m)[i] = u[i]
  BY <1>1, <1>3, SubSeqProperties
<1>5. SubSeq(u, 1, m) = v
  BY <1>1, <1>3, <1>4, SeqEqual
<1>6. IsPrefixOf(v, u)
  BY <1>1, <1>3, <1>5 DEF IsPrefixOf
<1> QED BY <1>3, <1>6 DEF Upto, u, v

(* Upto does not look behind. *)
LEMMA UptoFront ==
  ASSUME NEW S, NEW u \in Seq(S), NEW v \in Seq(S), NEW n \in 0..Len(u)
  PROVE  Upto(u \o v, n) = Upto(u, n)
<1>1. /\ u \o v \in Seq(S) /\ Len(u \o v) = Len(u) + Len(v)
      /\ \A i \in 1..Len(u) : (u \o v)[i] = u[i]
      /\ Len(u) \in Nat /\ Len(v) \in Nat
  BY ConcatProperties, LenProperties
<1> DEFINE w == u \o v
<1> HIDE DEF w
<1>2. n \in Nat /\ n <= Len(u) /\ n <= Len(w) /\ w \in Seq(S)
      /\ \A i \in 1..n : w[i] = u[i]
  BY <1>1 DEF w
<1>3. /\ SubSeq(u, 1, n) \in Seq(S) /\ Len(SubSeq(u, 1, n)) = n
      /\ \A i \in 1..n : SubSeq(u, 1, n)[i] = u[i]
  BY <1>1, <1>2, SubSeqProperties
<1>4. /\ SubSeq(w, 1, n) \in Seq(S) /\ Len(SubSeq(w, 1, n)) = n
      /\ \A i \in 1..n : SubSeq(w, 1, n)[i] = w[i]
  BY <1>1, <1>2, SubSeqProperties
<1>5. SubSeq(w, 1, n) = SubSeq(u, 1, n)
  BY <1>2, <1>3, <1>4, SeqEqual
<1> QED BY <1>5 DEF Upto, w

(* A prefix and what comes after it. *)
LEMMA PrefixSplit ==
  ASSUME NEW S, NEW s \in Seq(S), NEW t \in Seq(S), IsPrefixOf(s, t)
  PROVE  From(t, Len(s)) \in Seq(S) /\ s \o From(t, Len(s)) = t
<1>1. Len(s) \in Nat /\ Len(t) \in Nat /\ Len(s) <= Len(t)
      /\ SubSeq(t, 1, Len(s)) = s
  BY LenProperties DEF IsPrefixOf
<1>2. SubSeq(t, Len(s) + 1, Len(t)) \in Seq(S)
  BY <1>1, SubSeqProperties
<1>3. SubSeq(t, 1, Len(s)) \o SubSeq(t, Len(s) + 1, Len(t))
        = SubSeq(t, 1, Len(t))
  <2>1. /\ 1 \in 1..(Len(t) + 1) /\ Len(s) \in (1 - 1)..Len(t)
        /\ Len(t) \in Len(s)..Len(t)
    BY <1>1
  <2> QED BY <2>1, ConcatAdjacentSubSeq, Zenon
<1>4. SubSeq(t, 1, Len(t)) = t
  BY SubSeqFull
<1> QED BY <1>1, <1>2, <1>3, <1>4 DEF From

(* The empty text and the whole text are prefixes. *)
LEMMA TrivialPrefixes ==
  ASSUME NEW S, NEW t \in Seq(S)
  PROVE  IsPrefixOf(t, t) /\ IsPrefixOf(<<>>, t)
<1>1. SubSeq(t, 1, Len(t)) = t /\ Len(t) \in Nat
  BY SubSeqFull, LenProperties
<1>2. Len(<<>>) = 0 /\ SubSeq(t, 1, 0) = <<>>
  BY SubSeqEmpty
<1> QED BY <1>1, <1>2 DEF IsPrefixOf

(* n characters remain of t without its trailing replacement characters. *)
StripsAt(t, n) ==
  /\ n \in 0..Len(t)
  /\ n = 0 \/ t[n] # "FFFD"
  /\ \A i \in (n + 1)..Len(t) : t[i] = "FFFD"

(* There is such an n. *)
LEMMA StripExists ==
  ASSUME NEW t \in Seq(Chars) PROVE \E n \in 0..Len(t) : StripsAt(t, n)
<1> DEFINE T == {k \in Nat :
                   (k <= Len(t) /\ \A i \in (k + 1)..Len(t) : t[i] = "FFFD")
                     => \E n \in 0..Len(t) : StripsAt(t, n)}
<1>0. Len(t) \in Nat
  BY LenProperties
<1>1. ASSUME NEW k \in Nat, \A m \in Nat : m < k => m \in T
      PROVE  k \in T
  <2> SUFFICES ASSUME k <= Len(t), \A i \in (k + 1)..Len(t) : t[i] = "FFFD"
               PROVE  \E n \in 0..Len(t) : StripsAt(t, n)
    OBVIOUS
  <2>1. CASE k = 0 \/ t[k] # "FFFD"
    BY <1>0, <2>1 DEF StripsAt
  <2>2. CASE k # 0 /\ t[k] = "FFFD"
    <3>1. k - 1 \in Nat /\ k - 1 < k /\ k - 1 <= Len(t)
      BY <1>0, <2>2
    <3>2. \A i \in ((k - 1) + 1)..Len(t) : t[i] = "FFFD"
      BY <1>0, <2>2
    <3>3. k - 1 \in T
      BY <1>1, <3>1
    <3> QED BY <3>1, <3>2, <3>3
  <2> QED BY <2>1, <2>2
<1>2. T = Nat
  <2>1. T \in SUBSET Nat
    OBVIOUS
  <2> HIDE DEF T
  <2> QED BY <1>1, <2>1, SetInduction
<1>3. Len(t) \in T
  BY <1>0, <1>2
<1> QED BY <1>0, <1>3

(* StripTrailing keeps exactly that many characters. *)
LEMMA StripAt ==
  ASSUME NEW t \in Seq(Chars), NEW n, StripsAt(t, n)
  PROVE  StripTrailing(t) = Upto(t, n)
<1>1. Len(t) \in Nat
  BY LenProperties
<1>2. \A m \in 0..Len(t) : StripsAt(t, m) => m = n
  BY <1>1 DEF StripsAt
<1> DEFINE k == CHOOSE m \in 0..Len(t) :
                  /\ m = 0 \/ t[m] # "FFFD"
                  /\ \A i \in (m + 1)..Len(t) : t[i] = "FFFD"
<1>3. k \in 0..Len(t) /\ StripsAt(t, k)
  <2>1. \E m \in 0..Len(t) : /\ m = 0 \/ t[m] # "FFFD"
                             /\ \A i \in (m + 1)..Len(t) : t[i] = "FFFD"
    BY DEF StripsAt
  <2> QED BY <2>1 DEF StripsAt
<1>4. StripTrailing(t) = Upto(t, k)
  BY DEF StripTrailing
<1> HIDE DEF k
<1>5. k = n
  BY <1>2, <1>3
<1> QED BY <1>4, <1>5

(* What is left is a text, and a prefix of the whole. *)
LEMMA StripIsPrefix ==
  ASSUME NEW t \in Seq(Chars)
  PROVE  StripTrailing(t) \in Seq(Chars) /\ IsPrefixOf(StripTrailing(t), t)
<1>1. PICK n \in 0..Len(t) : StripsAt(t, n)
  BY StripExists
<1>2. StripTrailing(t) = Upto(t, n)
  BY <1>1, StripAt
<1>3. Len(t) \in 0..Len(t) /\ Upto(t, Len(t)) = t
  BY SubSeqFull, LenProperties DEF Upto
<1>4. Upto(t, n) \in Seq(Chars)
  <2>1. n \in 0..n
    BY <1>1, LenProperties
  <2> QED BY <1>1, <2>1, UptoPrefix
<1>5. IsPrefixOf(Upto(t, n), Upto(t, Len(t)))
  BY <1>1, <1>3, UptoPrefix
<1> QED BY <1>2, <1>3, <1>4, <1>5

(* A text that grows keeps what was complete. *)
LEMMA StripGrows ==
  ASSUME NEW d \in Seq(Chars), NEW e \in Seq(Chars), Grows(d, e)
  PROVE  IsPrefixOf(StripTrailing(d), StripTrailing(e))
<1>1. PICK u \in Seq(Chars), c \in Chars :
        e = u \o <<c>> /\ (d = u \/ d = u \o <<"FFFD">>)
  BY DEF Grows
<1>2. PICK n \in 0..Len(u) : StripsAt(u, n)
  BY StripExists
<1>3. Len(u) \in Nat /\ n \in Nat /\ n <= Len(u)
  BY <1>2, LenProperties
<1>4. /\ \A x \in Chars :
           /\ <<x>> \in Seq(Chars) /\ u \o <<x>> \in Seq(Chars)
           /\ Len(u \o <<x>>) = Len(u) + 1
           /\ (u \o <<x>>)[Len(u) + 1] = x
           /\ \A i \in 1..Len(u) : (u \o <<x>>)[i] = u[i]
           /\ Upto(u \o <<x>>, n) = Upto(u, n)
      /\ "FFFD" \in Chars
  <2> SUFFICES ASSUME NEW x \in Chars
               PROVE  /\ <<x>> \in Seq(Chars) /\ u \o <<x>> \in Seq(Chars)
                      /\ Len(u \o <<x>>) = Len(u) + 1
                      /\ (u \o <<x>>)[Len(u) + 1] = x
                      /\ \A i \in 1..Len(u) : (u \o <<x>>)[i] = u[i]
                      /\ Upto(u \o <<x>>, n) = Upto(u, n)
    BY DEF Chars
  <2>1. <<x>> \in Seq(Chars) /\ Len(<<x>>) = 1 /\ <<x>>[1] = x
    OBVIOUS
  <2>2. Upto(u \o <<x>>, n) = Upto(u, n)
    BY <2>1, UptoFront
  <2> QED BY <1>3, <2>1, <2>2, ConcatProperties
<1>5. ASSUME NEW x \in Chars, x = "FFFD" PROVE StripsAt(u \o <<x>>, n)
  <2> DEFINE w == u \o <<x>>
  <2>1. /\ Len(w) = Len(u) + 1 /\ w[Len(u) + 1] = "FFFD"
        /\ \A i \in 1..Len(u) : w[i] = u[i]
    BY <1>4, <1>5
  <2> HIDE DEF w
  <2> QED BY <1>2, <1>3, <2>1 DEF StripsAt, w
<1>6. StripTrailing(d) = Upto(u, n)
  <2>1. StripTrailing(u) = Upto(u, n)
    BY <1>2, StripAt
  <2>2. StripTrailing(u \o <<"FFFD">>) = Upto(u, n)
    BY <1>4, <1>5, StripAt
  <2> QED BY <1>1, <2>1, <2>2
<1>7. CASE c = "FFFD"
  <2>1. StripTrailing(e) = Upto(u, n)
    BY <1>1, <1>4, <1>5, <1>7, StripAt
  <2>2. n \in 0..n
    BY <1>3
  <2> QED BY <1>6, <2>1, <2>2, UptoPrefix
<1>8. CASE c # "FFFD"
  <2>1. Len(e) = Len(u) + 1 /\ e[Len(u) + 1] = c /\ Upto(e, n) = Upto(u, n)
    BY <1>1, <1>4
  <2>2. StripsAt(e, Len(e))
    BY <1>3, <1>8, <2>1 DEF StripsAt
  <2>3. StripTrailing(e) = Upto(e, Len(e))
    BY <2>2, StripAt
  <2>4. n \in 0..Len(e) /\ Len(e) \in 0..Len(e)
    BY <1>3, <2>1
  <2>5. IsPrefixOf(Upto(e, n), Upto(e, Len(e)))
    BY <2>4, UptoPrefix
  <2> QED BY <1>6, <2>1, <2>3, <2>5
<1> QED BY <1>7, <1>8

(* on_token sends exactly what has become complete. *)
LEMMA SuffixCompletes ==
  ASSUME NEW s \in Texts, NEW f \in Fragments
  PROVE  LET d == StripTrailing(Decoded[s])
             t == Decoded[Append(s, f)]
         IN  /\ IncrementalSuffix(d, t) \in Seq(Chars)
             /\ d \o IncrementalSuffix(d, t) = StripTrailing(t)
<1> DEFINE d == StripTrailing(Decoded[s])
           t == Decoded[Append(s, f)]
<1>1. Append(s, f) \in Texts
  BY AppendProperties DEF Texts
<1>2. Decoded[s] \in Seq(Chars) /\ t \in Seq(Chars)
  BY <1>1, DecodedType
<1>3. IsPrefixOf(d, StripTrailing(t))
  BY <1>2, DecodedGrows, StripGrows
<1>4. d \in Seq(Chars) /\ StripTrailing(t) \in Seq(Chars)
  BY <1>2, StripIsPrefix
<1>5. IncrementalSuffix(d, t) = From(StripTrailing(t), Len(d))
  BY <1>3 DEF IncrementalSuffix
<1> HIDE DEF d, t
<1>6. /\ IncrementalSuffix(d, t) \in Seq(Chars)
      /\ d \o IncrementalSuffix(d, t) = StripTrailing(t)
  BY <1>3, <1>4, <1>5, PrefixSplit
<1> QED BY <1>6 DEF d, t

(* The final flush sends the rest. *)
LEMMA FlushCompletes ==
  ASSUME NEW s \in Texts
  PROVE  LET d == StripTrailing(Decoded[s])
         IN  /\ FlushTail(d, Decoded[s]) \in Seq(Chars)
             /\ d \o FlushTail(d, Decoded[s]) = Decoded[s]
<1> DEFINE d == StripTrailing(Decoded[s])
           t == Decoded[s]
<1>1. t \in Seq(Chars)
  BY DecodedType
<1>2. d \in Seq(Chars) /\ IsPrefixOf(d, t)
  BY <1>1, StripIsPrefix
<1>3. FlushTail(d, t) = From(t, Len(d))
  BY <1>2 DEF FlushTail
<1> HIDE DEF d, t
<1>4. FlushTail(d, t) \in Seq(Chars) /\ d \o FlushTail(d, t) = t
  BY <1>1, <1>2, <1>3, PrefixSplit
<1> QED BY <1>4 DEF d, t

-----------------------------------------------------------------------------
(* The text that a queue carries. *)

(* Text may be joined in any order. *)
LEMMA TextAssociative ==
  \A u, v, w \in Seq(Chars) : u \o (v \o w) = (u \o v) \o w
<1> SUFFICES ASSUME NEW u \in Seq(Chars), NEW v \in Seq(Chars),
                    NEW w \in Seq(Chars)
             PROVE  u \o (v \o w) = (u \o v) \o w
  OBVIOUS
<1>1. (u \o v) \o w = u \o (v \o w)
  BY ConcatAssociative
<1> QED BY <1>1, Zenon

(* g adds up the texts of the first n events of es. *)
Totals(g, es, n) ==
  \A i \in 0..n : g[i] = IF i = 0 THEN <<>> ELSE g[i - 1] \o es[i].text

(* An event carries text. *)
LEMMA EventText == \A e \in Events : e.text \in Seq(Chars)
BY DEF Events

(* There are such totals, they are texts and they are unique. *)
LEMMA TotalsExist ==
  ASSUME NEW es \in Seq(Events)
  PROVE  \A n \in Nat : \E g : Totals(g, es, n)
<1> DEFINE T == {n \in Nat : \E g : Totals(g, es, n)}
<1>1. ASSUME NEW n \in Nat, \A m \in Nat : m < n => m \in T
      PROVE  n \in T
  <2>1. CASE n = 0
    <3>1. Totals([i \in {0} |-> <<>>], es, n)
      BY <2>1 DEF Totals
    <3> QED BY <3>1
  <2>2. CASE n # 0
    <3>1. n - 1 \in T
      BY <1>1, <2>2
    <3>2. PICK g : Totals(g, es, n - 1)
      BY <3>1
    <3> DEFINE h == [i \in 0..n |-> IF i = n THEN g[n - 1] \o es[n].text
                                    ELSE g[i]]
    <3>3. \A i \in 0..(n - 1) : h[i] = g[i]
      BY <2>2
    <3>4. h[n] = g[n - 1] \o es[n].text
      <4>1. n \in 0..n
        OBVIOUS
      <4> QED BY <4>1, Zenon
    <3> HIDE DEF h
    <3>5. Totals(h, es, n)
      <4> SUFFICES ASSUME NEW i \in 0..n
                   PROVE  h[i] = IF i = 0 THEN <<>> ELSE h[i - 1] \o es[i].text
        BY DEF Totals
      <4>1. CASE i = n
        <5>1. n - 1 \in 0..(n - 1)
          BY <2>2
        <5> QED BY <2>2, <3>3, <3>4, <4>1, <5>1, Zenon
      <4>2. CASE i # n
        <5>1. i \in 0..(n - 1) /\ (i # 0 => i - 1 \in 0..(n - 1))
          BY <4>2
        <5> QED BY <3>2, <3>3, <5>1, Zenon DEF Totals
      <4> QED BY <4>1, <4>2
    <3> QED BY <3>5
  <2> QED BY <2>1, <2>2
<1> HIDE DEF T
<1>2. T \in SUBSET Nat
  BY DEF T
<1>3. T = Nat
  BY <1>1, <1>2, SetInduction
<1> QED BY <1>3 DEF T

(* The first n events of es and fs are the same. *)
BeginAlike(es, fs, n) == \A i \in 1..n : es[i] = fs[i]

(* Totals of sequences that begin alike agree. *)
LEMMA TotalsAgree ==
  ASSUME NEW es, NEW fs, NEW n \in Nat, NEW g, NEW h,
         Totals(g, es, n), Totals(h, fs, n), BeginAlike(es, fs, n)
  PROVE  \A i \in 0..n : g[i] = h[i]
<1> DEFINE T == {k \in Nat : k <= n => g[k] = h[k]}
<1>1. ASSUME NEW k \in Nat, \A m \in Nat : m < k => m \in T
      PROVE  k \in T
  <2> SUFFICES ASSUME k <= n PROVE g[k] = h[k]
    OBVIOUS
  <2>1. k \in 0..n
    OBVIOUS
  <2>2. /\ g[k] = IF k = 0 THEN <<>> ELSE g[k - 1] \o es[k].text
        /\ h[k] = IF k = 0 THEN <<>> ELSE h[k - 1] \o fs[k].text
    BY <2>1, Zenon DEF Totals
  <2>3. k # 0 => g[k - 1] = h[k - 1] /\ k \in 1..n
    BY <1>1
  <2> QED BY <2>2, <2>3, Zenon DEF BeginAlike
<1> HIDE DEF T
<1>2. T \in SUBSET Nat
  BY DEF T
<1>3. T = Nat
  BY <1>1, <1>2, SetInduction
<1> QED BY <1>3 DEF T

(* Contents is the last total. *)
LEMMA ContentsIsTotal ==
  ASSUME NEW es \in Seq(Events)
  PROVE  \E g : Totals(g, es, Len(es)) /\ Contents(es) = g[Len(es)]
<1> DEFINE n == Len(es)
           D(g) == [i \in 0..n |-> IF i = 0 THEN <<>>
                                   ELSE g[i - 1] \o es[i].text]
           after == CHOOSE g : g = D(g)
<1>1. n \in Nat
  BY LenProperties
<1>2. PICK f : Totals(f, es, n)
  BY <1>1, TotalsExist
<1> DEFINE h == [i \in 0..n |-> f[i]]
<1>3. h = D(h)
  <2>1. ASSUME NEW i \in 0..n PROVE h[i] = D(h)[i]
    <3>1. h[i] = IF i = 0 THEN <<>> ELSE f[i - 1] \o es[i].text
      BY <1>2 DEF Totals
    <3>2. i # 0 => h[i - 1] = f[i - 1]
      BY <1>1
    <3> QED BY <3>1, <3>2
  <2> QED BY <2>1
<1>4. after = D(after)
  BY <1>3
<1>5. Contents(es) = after[n]
  BY DEF Contents
<1>6. Totals(after, es, n)
  <2> HIDE DEF after
  <2> QED BY <1>4 DEF Totals
<1> QED BY <1>5, <1>6

(* Putting an event adds its text at the end. *)
LEMMA ContentsAppend ==
  ASSUME NEW es \in Seq(Events), NEW e \in Events
  PROVE  Contents(es \o <<e>>) = Contents(es) \o e.text
<1> DEFINE fs == es \o <<e>>
<1>1. /\ fs \in Seq(Events) /\ Len(fs) = Len(es) + 1
      /\ \A i \in 1..Len(es) : fs[i] = es[i]
      /\ fs[Len(es) + 1] = e /\ Len(es) \in Nat
  <2>1. fs = Append(es, e)
    BY AppendIsConcat
  <2> QED BY <2>1, AppendProperties, LenProperties
<1> HIDE DEF fs
<1>2. PICK g : Totals(g, es, Len(es)) /\ Contents(es) = g[Len(es)]
  BY ContentsIsTotal
<1>3. PICK h : Totals(h, fs, Len(fs)) /\ Contents(fs) = h[Len(fs)]
  BY <1>1, ContentsIsTotal
<1> DEFINE n == Len(es)
<1>4. n \in Nat /\ Len(fs) = n + 1 /\ fs[n + 1] = e
      /\ \A i \in 1..n : es[i] = fs[i]
  BY <1>1
<1>5. Totals(h, fs, n) /\ Totals(g, es, n)
  BY <1>2, <1>3, <1>4 DEF Totals
<1> HIDE DEF n
<1>6. h[n] = g[n]
  <2>1. \A i \in 0..n : g[i] = h[i]
    <3>1. n \in Nat /\ BeginAlike(es, fs, n)
      BY <1>4, Zenon DEF BeginAlike
    <3> QED BY <1>5, <3>1, TotalsAgree
  <2> QED BY <1>4, <2>1
<1>7. h[n + 1] = h[n] \o e.text
  <2>1. n + 1 \in 0..(n + 1) /\ n + 1 # 0 /\ (n + 1) - 1 = n
    BY <1>4
  <2>2. h[n + 1] = h[(n + 1) - 1] \o fs[n + 1].text
    BY <1>3, <1>4, <2>1, Zenon DEF Totals
  <2> QED BY <1>4, <2>1, <2>2, Zenon
<1> QED BY <1>2, <1>3, <1>4, <1>6, <1>7, Zenon DEF fs, n

(* An empty queue carries nothing, and contents are text. *)
LEMMA ContentsType ==
  /\ Contents(<<>>) = <<>>
  /\ \A es \in Seq(Events) : Contents(es) \in Seq(Chars)
<1>1. Contents(<<>>) = <<>>
  <2>1. <<>> \in Seq(Events) /\ Len(<<>>) = 0
    OBVIOUS
  <2>2. PICK g : Totals(g, <<>>, 0) /\ Contents(<<>>) = g[0]
    BY <2>1, ContentsIsTotal
  <2>3. 0 \in 0..0
    OBVIOUS
  <2> QED BY <2>2, <2>3, Zenon DEF Totals
<1>2. ASSUME NEW es \in Seq(Events) PROVE Contents(es) \in Seq(Chars)
  <2>1. PICK g : Totals(g, es, Len(es)) /\ Contents(es) = g[Len(es)]
    BY ContentsIsTotal
  <2> DEFINE T == {k \in Nat : k <= Len(es) => g[k] \in Seq(Chars)}
  <2>2. Len(es) \in Nat /\ \A i \in 1..Len(es) : es[i].text \in Seq(Chars)
    <3>1. Len(es) \in Nat /\ \A i \in 1..Len(es) : es[i] \in Events
      BY LenProperties, ElementOfSeq
    <3> QED BY <3>1, EventText, Zenon
  <2>3. ASSUME NEW k \in Nat, \A m \in Nat : m < k => m \in T
        PROVE  k \in T
    <3> SUFFICES ASSUME k <= Len(es) PROVE g[k] \in Seq(Chars)
      OBVIOUS
    <3>1. k \in 0..Len(es)
      BY <2>2
    <3>2. g[k] = IF k = 0 THEN <<>> ELSE g[k - 1] \o es[k].text
      BY <2>1, <3>1, Zenon DEF Totals
    <3>3. k # 0 => g[k - 1] \in Seq(Chars) /\ es[k].text \in Seq(Chars)
      BY <2>2, <2>3
    <3>4. <<>> \in Seq(Chars)
      OBVIOUS
    <3> QED BY <3>2, <3>3, <3>4, ConcatProperties
  <2> HIDE DEF T
  <2>4. T \in SUBSET Nat
    BY DEF T
  <2>5. T = Nat
    BY <2>3, <2>4, SetInduction
  <2>6. Len(es) \in T /\ Len(es) <= Len(es)
    BY <2>2, <2>5
  <2> QED BY <2>1, <2>6 DEF T
<1> QED BY <1>1, <1>2

(* Taking an event takes its text from the front. *)
LEMMA ContentsHead ==
  ASSUME NEW es \in Seq(Events), es # <<>>
  PROVE  Contents(es) = Head(es).text \o Contents(Tail(es))
<1> DEFINE fs == Tail(es)  x == Head(es).text  n == Len(fs)
<1>1. /\ fs \in Seq(Events) /\ n \in Nat /\ Len(es) = n + 1
      /\ \A i \in 1..n : fs[i] = es[i + 1]
      /\ Head(es) \in Events /\ Head(es) = es[1]
  <2>1. Len(es) \in Nat /\ es # <<>>
    BY LenProperties
  <2>2. Tail(es) \in Seq(Events) /\ Len(Tail(es)) = Len(es) - 1
        /\ \A i \in 1..Len(Tail(es)) : Tail(es)[i] = es[i + 1]
        /\ Head(es) \in Events
    BY HeadTailProperties
  <2>3. Len(Tail(es)) \in Nat
    BY <2>2, LenProperties
  <2>4. (Len(es) - 1) + 1 = Len(es)
    BY <2>1
  <2> QED BY <2>2, <2>3, <2>4
<1>2. x \in Seq(Chars) /\ \A i \in 1..n : fs[i].text \in Seq(Chars)
  <2>1. \A i \in 1..n : fs[i] \in Events
    BY <1>1, ElementOfSeq
  <2> QED BY <1>1, <2>1, EventText, Zenon
<1> HIDE DEF fs, x, n
<1>3. PICK g : Totals(g, fs, n) /\ Contents(fs) = g[n]
  BY <1>1, ContentsIsTotal DEF n
<1>4. PICK h : Totals(h, es, n + 1) /\ Contents(es) = h[n + 1]
  BY <1>1, ContentsIsTotal
<1> DEFINE T == {k \in Nat : k <= n => /\ h[k + 1] = x \o g[k]
                                       /\ g[k] \in Seq(Chars)}
<1>5. ASSUME NEW k \in Nat, \A m \in Nat : m < k => m \in T
      PROVE  k \in T
  <2> SUFFICES ASSUME k <= n
               PROVE  h[k + 1] = x \o g[k] /\ g[k] \in Seq(Chars)
    OBVIOUS
  <2>1. /\ k \in 0..n /\ k + 1 \in 0..(n + 1) /\ k + 1 # 0
        /\ (k + 1) - 1 = k
    BY <1>1
  <2>2. /\ g[k] = IF k = 0 THEN <<>> ELSE g[k - 1] \o fs[k].text
        /\ h[k + 1] = h[k] \o es[k + 1].text
    BY <1>3, <1>4, <2>1, Zenon DEF Totals
  <2>3. CASE k = 0
    <3>1. h[0] = <<>>
      <4>1. 0 \in 0..(n + 1)
        BY <1>1
      <4> QED BY <1>4, <4>1, Zenon DEF Totals
    <3>2. h[k + 1] = <<>> \o x
      <4>1. 0 + 1 = 1
        OBVIOUS
      <4> QED BY <1>1, <2>2, <2>3, <3>1, <4>1, Zenon DEF x
    <3>3. <<>> \o x = x /\ x \o <<>> = x /\ <<>> \in Seq(Chars)
      BY <1>2, ConcatEmptySeq, EmptySeq
    <3> QED BY <2>2, <2>3, <3>2, <3>3, Zenon
  <2>4. CASE k # 0
    <3>1. k - 1 \in T /\ k - 1 <= n /\ (k - 1) + 1 = k /\ k \in 1..n
      BY <1>1, <1>5, <2>4
    <3> HIDE DEF T
    <3>2. h[k] = x \o g[k - 1] /\ g[k - 1] \in Seq(Chars)
      <4>1. h[(k - 1) + 1] = x \o g[k - 1] /\ g[k - 1] \in Seq(Chars)
        BY <3>1, Zenon DEF T
      <4> QED BY <3>1, <4>1, Zenon
    <3>3. fs[k] = es[k + 1] /\ fs[k].text \in Seq(Chars)
      BY <1>1, <1>2, <3>1
    <3>4. (x \o g[k - 1]) \o fs[k].text = x \o (g[k - 1] \o fs[k].text)
      <4> DEFINE y == g[k - 1]  z == fs[k].text
      <4>1. x \in Seq(Chars) /\ y \in Seq(Chars) /\ z \in Seq(Chars)
        BY <1>2, <3>2, <3>3, Zenon
      <4> HIDE DEF y, z
      <4>2. (x \o y) \o z = x \o (y \o z)
        BY <4>1, TextAssociative, Zenon
      <4> QED BY <4>2 DEF y, z
    <3>5. g[k - 1] \o fs[k].text \in Seq(Chars)
      BY <3>2, <3>3, ConcatProperties, Zenon
    <3> QED BY <2>2, <2>4, <3>2, <3>3, <3>4, <3>5, Zenon
  <2> QED BY <2>3, <2>4
<1> HIDE DEF T
<1>6. T \in SUBSET Nat
  BY DEF T
<1>7. T = Nat
  BY <1>5, <1>6, SetInduction
<1>8. n \in T /\ n <= n
  BY <1>1, <1>7
<1> QED BY <1>3, <1>4, <1>8, Zenon DEF T, fs, x

-----------------------------------------------------------------------------
(* The kinds of event in a queue. *)

(* The kinds of a queue that was added to or taken from. *)
LEMMA KindsOf ==
  /\ Kinds(<<>>) = {}
  /\ \A e : Kinds(<<e>>) = {e.kind}
  /\ \A es, fs \in Seq(Events) : Kinds(es \o fs) = Kinds(es) \cup Kinds(fs)
  /\ \A es \in Seq(Events) : es # <<>> =>
       Head(es).kind \in Kinds(es) /\ Kinds(Tail(es)) \subseteq Kinds(es)
<1>1. Kinds(<<>>) = {} /\ \A e : Kinds(<<e>>) = {e.kind}
  BY DEF Kinds
<1>2. ASSUME NEW es \in Seq(Events), NEW fs \in Seq(Events)
      PROVE  Kinds(es \o fs) = Kinds(es) \cup Kinds(fs)
  <2> DEFINE m == Len(es)  n == Len(fs)  gs == es \o fs
  <2>1. /\ m \in Nat /\ n \in Nat /\ Len(gs) = m + n
        /\ \A i \in 1..(m + n) : gs[i] = IF i <= m THEN es[i] ELSE fs[i - m]
    BY ConcatProperties, LenProperties
  <2> HIDE DEF m, n, gs
  <2>2. \A i \in 1..(m + n) : (i <= m /\ i \in 1..m) \/ i - m \in 1..n
    BY <2>1
  <2>3. \A i \in 1..m : i \in 1..(m + n) /\ i <= m
    BY <2>1
  <2>4. \A i \in 1..n : m + i \in 1..(m + n) /\ ~(m + i <= m)
                        /\ (m + i) - m = i
    BY <2>1
  <2>5. \A i \in 1..(m + n) : i - m \in 1..n => ~(i <= m)
    BY <2>1
  <2>6. Kinds(gs) \subseteq Kinds(es) \cup Kinds(fs)
    BY <2>1, <2>2, <2>5, Zenon DEF Kinds, m, n
  <2>7. ASSUME NEW i \in 1..m PROVE es[i].kind \in Kinds(gs)
    BY <2>1, <2>3, Zenon DEF Kinds
  <2>8. ASSUME NEW i \in 1..n PROVE fs[i].kind \in Kinds(gs)
    <3>1. gs[m + i] = fs[i]
      BY <2>1, <2>4, Zenon
    <3> QED BY <2>1, <2>4, <3>1, Zenon DEF Kinds
  <2> QED BY <2>6, <2>7, <2>8, Zenon DEF Kinds, m, n, gs
<1>3. ASSUME NEW es \in Seq(Events), es # <<>>
      PROVE  Head(es).kind \in Kinds(es) /\ Kinds(Tail(es)) \subseteq Kinds(es)
  <2> DEFINE n == Len(es)  ts == Tail(es)
  <2>1. /\ n \in Nat \ {0} /\ Head(es) = es[1]
        /\ Len(ts) = n - 1 /\ \A i \in 1..Len(ts) : ts[i] = es[i + 1]
    BY <1>3, EmptySeq, HeadTailProperties
  <2> HIDE DEF n, ts
  <2>2. 1 \in 1..n /\ \A i \in 1..(n - 1) : i + 1 \in 1..n
    BY <2>1
  <2>3. Head(es).kind \in Kinds(es)
    BY <2>1, <2>2, Zenon DEF Kinds, n
  <2>4. Kinds(ts) \subseteq Kinds(es)
    BY <2>1, <2>2, Zenon DEF Kinds, n
  <2> QED BY <2>3, <2>4 DEF ts
<1> QED BY <1>1, <1>2, <1>3

(* The sentinel stays last. *)
LEMMA SentinelLast ==
  ASSUME NEW es \in Seq(Events)
  PROVE  /\ "finished" \notin Kinds(es) => FinishedLast(es)
         /\ "finished" \notin Kinds(es) =>
              \A e \in Events : FinishedLast(es \o <<e>>)
         /\ (es # <<>> /\ FinishedLast(es)) =>
              /\ FinishedLast(Tail(es))
              /\ Head(es).kind = "finished" => Tail(es) = <<>>
<1>1. "finished" \notin Kinds(es) => FinishedLast(es)
  BY DEF Kinds, FinishedLast
<1>2. ASSUME "finished" \notin Kinds(es), NEW e \in Events
      PROVE  FinishedLast(es \o <<e>>)
  <2> DEFINE n == Len(es)  fs == es \o <<e>>
  <2>1. /\ n \in Nat /\ Len(fs) = n + 1 /\ \A i \in 1..n : fs[i] = es[i]
    <3>1. fs = Append(es, e)
      BY AppendIsConcat
    <3> QED BY <3>1, AppendProperties, LenProperties
  <2> HIDE DEF n, fs
  <2>2. \A i \in 1..(n + 1) : i \in 1..n \/ i = n + 1
    BY <2>1
  <2>3. \A i \in 1..n : fs[i].kind # "finished"
    BY <1>2, <2>1 DEF Kinds, n
  <2>4. FinishedLast(fs)
    BY <2>1, <2>2, <2>3, Zenon DEF FinishedLast
  <2> QED BY <2>4 DEF fs
<1>3. ASSUME es # <<>>, FinishedLast(es)
      PROVE  /\ FinishedLast(Tail(es))
             /\ Head(es).kind = "finished" => Tail(es) = <<>>
  <2> DEFINE n == Len(es)  ts == Tail(es)
  <2>1. /\ n \in Nat \ {0} /\ Head(es) = es[1] /\ ts \in Seq(Events)
        /\ Len(ts) = n - 1 /\ \A i \in 1..Len(ts) : ts[i] = es[i + 1]
    BY <1>3, EmptySeq, HeadTailProperties
  <2> HIDE DEF n, ts
  <2>2. \A i \in 1..n : es[i].kind = "finished" => i = n
    BY <1>3 DEF FinishedLast, n
  <2>3. \A i \in 1..(n - 1) : i + 1 \in 1..n /\ (i + 1 = n => i = n - 1)
    BY <2>1
  <2>4. FinishedLast(ts)
    BY <2>1, <2>2, <2>3, Zenon DEF FinishedLast
  <2>5. ASSUME Head(es).kind = "finished" PROVE ts = <<>>
    <3>1. 1 \in 1..n
      BY <2>1
    <3>2. 1 = n
      BY <2>1, <2>2, <2>5, <3>1, Zenon
    <3>3. n - 1 = 0
      BY <3>2
    <3>4. Len(ts) = 0
      BY <2>1, <3>3, Zenon
    <3> QED BY <2>1, <3>4, EmptySeq
  <2> QED BY <2>4, <2>5 DEF ts
<1> QED BY <1>1, <1>2, <1>3

-----------------------------------------------------------------------------
(* Induction steps. *)

(* The endings and deltas are events. *)
LEMMA EventTypes ==
  /\ \A k \in {"done", "error", "finished"} :
       /\ Ending(k) \in Events /\ <<Ending(k)>> \in Seq(Events)
       /\ Ending(k).kind = k /\ Ending(k).text = <<>>
  /\ \A t \in Seq(Chars) :
       /\ Delta(t) \in Events /\ Deltas(t) \in Seq(Events)
       /\ Delta(t).kind = "text" /\ Delta(t).text = t
<1>1. ASSUME NEW k \in {"done", "error", "finished"}
      PROVE  Ending(k) \in Events /\ Ending(k).kind = k
             /\ Ending(k).text = <<>>
  BY EmptySeq DEF Ending, Events
<1>2. ASSUME NEW t \in Seq(Chars)
      PROVE  Delta(t) \in Events /\ Delta(t).kind = "text"
             /\ Delta(t).text = t
  BY DEF Delta, Events
<1>3. \A e \in Events : <<e>> \in Seq(Events)
  OBVIOUS
<1>4. ASSUME NEW t \in Seq(Chars) PROVE Deltas(t) \in Seq(Events)
  BY <1>2, <1>3, EmptySeq, Zenon DEF Deltas
<1> QED BY <1>1, <1>2, <1>3, <1>4, Zenon

(* A queue with a delta put to it. *)
LEMMA PutDelta ==
  ASSUME NEW es \in Seq(Events), NEW t \in Seq(Chars)
  PROVE  /\ es \o Deltas(t) \in Seq(Events)
         /\ Contents(es \o Deltas(t)) = Contents(es) \o t
         /\ Kinds(es \o Deltas(t)) \subseteq Kinds(es) \cup {"text"}
<1>1. CASE t = <<>>
  <2>1. Deltas(t) = <<>>
    BY <1>1 DEF Deltas
  <2>2. es \o <<>> = es
    BY ConcatEmptySeq
  <2>3. Contents(es) \in Seq(Chars)
    BY ContentsType
  <2>4. Contents(es) \o <<>> = Contents(es)
    BY <2>3, ConcatEmptySeq
  <2> QED BY <1>1, <2>1, <2>2, <2>4
<1>2. CASE t # <<>>
  <2>1. Deltas(t) = <<Delta(t)>>
    BY <1>2 DEF Deltas
  <2>2. Delta(t) \in Events /\ Deltas(t) \in Seq(Events)
        /\ Delta(t).kind = "text" /\ Delta(t).text = t
    BY EventTypes
  <2>3. es \o Deltas(t) \in Seq(Events)
    BY <2>2, ConcatProperties
  <2>4. Contents(es \o Deltas(t)) = Contents(es) \o t
    BY <2>1, <2>2, ContentsAppend
  <2>5. Kinds(Deltas(t)) = {"text"}
    BY <2>1, <2>2, KindsOf
  <2>6. Kinds(es \o Deltas(t)) = Kinds(es) \cup {"text"}
    BY <2>2, <2>5, KindsOf
  <2> QED BY <2>3, <2>4, <2>6
<1> QED BY <1>1, <1>2

(* A queue with an ending put to it. *)
LEMMA PutEnding ==
  ASSUME NEW es \in Seq(Events), NEW k \in {"done", "error", "finished"}
  PROVE  /\ es \o <<Ending(k)>> \in Seq(Events)
         /\ Contents(es \o <<Ending(k)>>) = Contents(es)
         /\ Kinds(es \o <<Ending(k)>>) = Kinds(es) \cup {k}
         /\ "finished" \notin Kinds(es) => FinishedLast(es \o <<Ending(k)>>)
<1>1. /\ Ending(k) \in Events /\ <<Ending(k)>> \in Seq(Events)
      /\ Ending(k).kind = k /\ Ending(k).text = <<>>
  BY EventTypes
<1>2. Contents(es) \in Seq(Chars)
  BY ContentsType
<1>3. Contents(es) \o <<>> = Contents(es)
  BY <1>2, ConcatEmptySeq
<1>4. Contents(es \o <<Ending(k)>>) = Contents(es)
  BY <1>1, <1>3, ContentsAppend
<1>5. Kinds(<<Ending(k)>>) = {k}
  BY <1>1, KindsOf
<1>6. Kinds(es \o <<Ending(k)>>) = Kinds(es) \cup {k}
  <2>1. Kinds(es \o <<Ending(k)>>) = Kinds(es) \cup Kinds(<<Ending(k)>>)
    BY <1>1, KindsOf, Zenon
  <2> QED BY <1>5, <2>1, Zenon
<1>7. es \o <<Ending(k)>> \in Seq(Events)
  BY <1>1, ConcatProperties
<1>8. "finished" \notin Kinds(es) => FinishedLast(es \o <<Ending(k)>>)
  BY <1>1, SentinelLast
<1> QED BY <1>4, <1>6, <1>7, <1>8

(* A step leaves the state of a request alone. *)
SameFor(r) ==
  /\ mode'[r] = mode[r] /\ pc'[r] = pc[r] /\ tokens'[r] = tokens[r]
  /\ emitted'[r] = emitted[r] /\ events'[r] = events[r]
  /\ reader'[r] = reader[r] /\ text'[r] = text[r] /\ ending'[r] = ending[r]

(* A request whose own state does not change keeps its invariant. *)
LEMMA Elsewhere ==
  ASSUME NEW r \in Requests, RequestInv(r), SameFor(r)
  PROVE  RequestInv(r)'
<1>1. ArrivalInv(r)' = ArrivalInv(r)
  BY DEF SameFor, ArrivalInv, Waiting
<1>2. QueueInv(r)' = QueueInv(r)
  BY DEF SameFor, QueueInv
<1>3. EmittedInv(r)' = EmittedInv(r)
  BY DEF SameFor, EmittedInv, Working
<1>4. SentInv(r)' = SentInv(r)
  BY DEF SameFor, SentInv, Working, Sent, Completed
<1> QED BY <1>1, <1>2, <1>3, <1>4 DEF RequestInv

(* To preserve the invariant of every request is to preserve one's own. *)
LEMMA OneRequest ==
  ASSUME \A q \in Requests : RequestInv(q), NEW r \in Requests,
         \A q \in Requests \ {r} : SameFor(q), RequestInv(r)'
  PROVE  (\A q \in Requests : RequestInv(q))'
<1> SUFFICES ASSUME NEW q \in Requests PROVE RequestInv(q)'
  OBVIOUS
<1> QED BY Elsewhere

(* The queue of a request after put. *)
LEMMA PutAt ==
  ASSUME TypeOK, NEW r \in Requests, NEW es \in Seq(Events), Put(r, es)
  PROVE  /\ events' \in [Requests -> Seq(Events)]
         /\ reader[r] = "gone" => events'[r] = <<>>
         /\ reader[r] # "gone" => events'[r] = events[r] \o es
         /\ \A q \in Requests \ {r} : events'[q] = events[q]
<1>1. events \in [Requests -> Seq(Events)]
  BY DEF TypeOK
<1>2. <<>> \in Seq(Events) /\ events[r] \o es \in Seq(Events)
  BY <1>1, ConcatProperties, EmptySeq
<1> QED BY <1>1, <1>2 DEF Put

(* Nothing decodes to nothing. *)
LEMMA EmptyText ==
  /\ <<>> \in Texts /\ Decoded[<<>>] = <<>> /\ StripTrailing(<<>>) = <<>>
  /\ <<>> \in Seq(Chars) /\ <<>> \o <<>> = <<>>
<1>1. <<>> \in Texts /\ <<>> \in Seq(Chars) /\ <<>> \o <<>> = <<>>
  BY EmptySeq DEF Texts
<1>2. Decoded[<<>>] = <<>>
  BY <1>1, DecodedUnfolds DEF DecodeStep
<1>3. StripTrailing(<<>>) = <<>>
  <2>1. StripsAt(<<>>, 0)
    BY DEF StripsAt
  <2>2. StripTrailing(<<>>) = Upto(<<>>, 0)
    BY <1>1, <2>1, StripAt
  <2>3. SubSeq(<<>>, 1, 0) = <<>>
    BY SubSeqEmpty
  <2> QED BY <2>2, <2>3 DEF Upto
<1> QED BY <1>1, <1>2, <1>3

(* A request that has not had its turn has sent nothing. *)
LEMMA NothingSent ==
  ASSUME NEW r \in Requests, ArrivalInv(r), QueueInv(r), Waiting(r)
  PROVE  /\ tokens[r] = <<>> /\ emitted[r] = <<>> /\ Sent(r) = <<>>
         /\ events[r] = <<>> /\ text[r] = <<>> /\ ending[r] = "none"
         /\ ~Completed(r)
<1>1. /\ tokens[r] = <<>> /\ emitted[r] = <<>> /\ events[r] = <<>>
      /\ text[r] = <<>>
  BY DEF ArrivalInv
<1>2. ending[r] = "none"
  BY DEF QueueInv, Waiting
<1>3. Sent(r) = <<>>
  BY <1>1, ContentsType, EmptyText, Zenon DEF Sent
<1>4. ~Completed(r)
  BY <1>1, <1>2, KindsOf DEF Completed
<1> QED BY <1>1, <1>2, <1>3, <1>4

(* It holds initially. *)
LEMMA InitIInv == Init => IInv
<1> SUFFICES ASSUME Init PROVE IInv
  OBVIOUS
<1>1. TypeOK
  <2>1. <<>> \in Seq(Fragments) /\ <<>> \in Seq(Chars) /\ <<>> \in Seq(Events)
        /\ Len(<<>>) = 0
    BY EmptySeq
  <2>2. \A r \in Requests : Len(tokens[r]) <= MaxNewTokens[r]
    BY <2>1, CapAssumption DEF Init
  <2> QED BY <2>1, <2>2 DEF Init, TypeOK, Labels
<1>2. LockInv /\ EngineIsolation
  BY FreeIsNoRequest DEF Init, LockInv, EngineIsolation, Free
<1>3. ASSUME NEW r \in Requests PROVE RequestInv(r)
  <2>1. Kinds(<<>>) = {} /\ FinishedLast(<<>>)
    BY KindsOf DEF FinishedLast
  <2>2. ArrivalInv(r) /\ QueueInv(r)
    BY <2>1 DEF Init, ArrivalInv, QueueInv
  <2>3. EmittedInv(r) /\ SentInv(r)
    BY DEF Init, EmittedInv, SentInv, Working
  <2> QED BY <2>2, <2>3 DEF RequestInv
<1> QED BY <1>1, <1>2, <1>3 DEF IInv

(* A request that arrives has sent nothing. *)
LEMMA ArriveStep ==
  ASSUME IInv, NEW r \in Requests, NEW m \in {"stream", "buffered", "once"},
         Arrive(r, m)
  PROVE  IInv'
<1>0. TypeOK /\ RequestInv(r)
  BY DEF IInv
<1>1. TypeOK'
  BY <1>0 DEF TypeOK, Arrive, Goto, Labels
<1>2. LockInv' /\ EngineIsolation'
  BY DEF IInv, TypeOK, LockInv, EngineIsolation, Arrive, Goto
<1>3. \A q \in Requests \ {r} : SameFor(q)
  BY <1>0 DEF TypeOK, SameFor, Arrive, Goto
<1>4. /\ mode'[r] = m /\ pc'[r] = "chat" /\ reader'[r] = "open"
      /\ UNCHANGED <<tokens, emitted, events, text, ending>>
      /\ pc[r] = "new"
  BY <1>0 DEF TypeOK, Arrive, Goto
<1>5. RequestInv(r)'
  <2>1. /\ tokens[r] = <<>> /\ emitted[r] = <<>> /\ Sent(r) = <<>>
        /\ events[r] = <<>> /\ text[r] = <<>> /\ ending[r] = "none"
        /\ ~Completed(r)
    BY <1>0, <1>4, NothingSent DEF RequestInv, Waiting
  <2>2. ArrivalInv(r)'
    BY <1>4, <2>1 DEF ArrivalInv, Waiting
  <2>3. QueueInv(r)'
    BY <1>4, <2>1, KindsOf DEF QueueInv, FinishedLast
  <2>4. EmittedInv(r)'
    BY <1>4 DEF EmittedInv, Working
  <2>5. IsPrefixOf(<<>>, Decoded[<<>>])
    BY EmptyText, TrivialPrefixes
  <2>6. SentInv(r)'
    BY <1>4, <2>1, <2>5 DEF SentInv, Working, Sent, Completed
  <2> QED BY <2>2, <2>3, <2>4, <2>6 DEF RequestInv
<1> QED BY <1>1, <1>2, <1>3, <1>5, OneRequest DEF IInv

(* Waiting for the lock changes nothing else. *)
LEMMA BlockStep ==
  ASSUME IInv, NEW r \in Requests, Block(r) PROVE IInv'
<1>0. TypeOK /\ RequestInv(r)
  BY DEF IInv
<1>1. TypeOK'
  BY <1>0 DEF TypeOK, Block, Goto, client, Labels
<1>2. LockInv' /\ EngineIsolation'
  BY DEF IInv, TypeOK, LockInv, EngineIsolation, Block, Goto
<1>3. \A q \in Requests \ {r} : SameFor(q)
  BY <1>0 DEF TypeOK, SameFor, Block, Goto, client
<1>4. /\ pc'[r] = "blocked" /\ pc[r] = "chat"
      /\ UNCHANGED <<mode, tokens, emitted, events, reader, text, ending>>
  BY <1>0 DEF TypeOK, Block, Goto, client
<1>5. RequestInv(r)'
  <2>1. ArrivalInv(r)' /\ EmittedInv(r)'
    BY <1>0, <1>4 DEF RequestInv, ArrivalInv, EmittedInv, Waiting, Working
  <2>2. QueueInv(r)'
    BY <1>0, <1>4 DEF RequestInv, QueueInv
  <2>3. SentInv(r)'
    BY <1>0, <1>4 DEF RequestInv, SentInv, Working, Sent, Completed
  <2> QED BY <2>1, <2>2, <2>3 DEF RequestInv
<1> QED BY <1>1, <1>2, <1>3, <1>5, OneRequest DEF IInv

(* The new holder starts from a reset engine and no text. *)
LEMMA AcquireStep ==
  ASSUME IInv, NEW r \in Requests, Acquire(r) PROVE IInv'
<1>0. TypeOK /\ RequestInv(r)
  BY DEF IInv
<1>1. TypeOK'
  BY <1>0 DEF TypeOK, Acquire, Goto, client, Labels
<1>3. \A q \in Requests \ {r} : SameFor(q)
  BY <1>0 DEF TypeOK, SameFor, Acquire, Goto, client
<1>4. /\ pc'[r] = "generate" /\ pc[r] \in {"chat", "blocked"}
      /\ lock = Free /\ lock' = r /\ context' = <<>>
      /\ UNCHANGED <<mode, tokens, emitted, events, reader, text, ending>>
  BY <1>0 DEF TypeOK, Acquire, Goto, client
<1>5. /\ tokens[r] = <<>> /\ emitted[r] = <<>> /\ Sent(r) = <<>>
      /\ events[r] = <<>> /\ text[r] = <<>> /\ ending[r] = "none"
      /\ ~Completed(r)
  BY <1>0, <1>4, NothingSent DEF RequestInv, Waiting
<1>2. LockInv' /\ EngineIsolation'
  <2>1. \A q \in Requests : pc[q] # "generate"
    BY <1>4, FreeIsNoRequest DEF IInv, LockInv, Free
  <2>2. \A q \in Requests \ {r} : pc'[q] # "generate"
    BY <1>3, <2>1 DEF SameFor
  <2>3. LockInv'
    BY <1>4, <2>2 DEF LockInv
  <2>4. <<>> = [i \in 1..Len(tokens'[r]) |-> <<r, tokens'[r][i]>>]
    BY <1>4, <1>5
  <2> QED BY <1>4, <2>2, <2>3, <2>4 DEF EngineIsolation
<1>6. RequestInv(r)'
  <2>1. ArrivalInv(r)'
    BY <1>0, <1>4 DEF RequestInv, ArrivalInv, Waiting
  <2>2. QueueInv(r)'
    BY <1>0, <1>4, <1>5, KindsOf DEF RequestInv, QueueInv, FinishedLast
  <2>3. EmittedInv(r)'
    BY <1>4, <1>5, EmptyText DEF EmittedInv
  <2>4. IsPrefixOf(<<>>, Decoded[<<>>])
    BY EmptyText, TrivialPrefixes
  <2>5. Sent(r)' = <<>> /\ ~Completed(r)'
    BY <1>4, <1>5 DEF Sent, Completed
  <2>6. SentInv(r)'
    BY <1>4, <1>5, <2>4, <2>5 DEF SentInv
  <2> QED BY <2>1, <2>2, <2>3, <2>6 DEF RequestInv
<1> QED BY <1>1, <1>2, <1>3, <1>6, OneRequest DEF IInv

(* While a request works, nothing it has sent is an ending. *)
LEMMA OnlyText ==
  ASSUME NEW r \in Requests, QueueInv(r), Working(r)
  PROVE  /\ Kinds(events[r]) \subseteq {"text"} /\ ending[r] = "none"
         /\ reader[r] # "closed" /\ ~Completed(r)
<1>1. Kinds(events[r]) \subseteq {"text"} /\ ending[r] = "none"
      /\ reader[r] # "closed"
  BY DEF QueueInv, Working
<1>2. ~Completed(r)
  <2>1. "done" # "text" /\ "done" # "none"
    OBVIOUS
  <2> QED BY <1>1, <2>1 DEF Completed
<1> QED BY <1>1, <1>2

(* The context of a request, one token later. *)
LEMMA ContextGrows ==
  ASSUME NEW r \in Requests, NEW s \in Texts, NEW f \in Fragments
  PROVE  Append([i \in 1..Len(s) |-> <<r, s[i]>>], <<r, f>>)
           = [i \in 1..Len(Append(s, f)) |-> <<r, Append(s, f)[i]>>]
<1> DEFINE n == Len(s)  a == Append(s, f)  R == {r} \X Fragments
           u == [i \in 1..n |-> <<r, s[i]>>]
           v == [i \in 1..Len(a) |-> <<r, a[i]>>]
<1>1. /\ n \in Nat /\ Len(a) = n + 1 /\ a[n + 1] = f
      /\ \A i \in 1..n : a[i] = s[i] /\ s[i] \in Fragments
  BY AppendProperties, LenProperties, ElementOfSeq DEF Texts
<1>2. u \in Seq(R) /\ Len(u) = n /\ \A i \in 1..n : u[i] = <<r, s[i]>>
  BY <1>1
<1>3. v \in Seq(R) /\ Len(v) = n + 1
      /\ \A i \in 1..(n + 1) : v[i] = <<r, a[i]>>
  <2>1. \A i \in 1..(n + 1) : a[i] \in Fragments
    <3>1. \A i \in 1..(n + 1) : i \in 1..n \/ i = n + 1
      BY <1>1
    <3> QED BY <1>1, <3>1
  <2> HIDE DEF a
  <2> QED BY <1>1, <2>1
<1> HIDE DEF u, v, n, a
<1>4. <<r, f>> \in R
  OBVIOUS
<1> HIDE DEF R
<1>5. /\ Append(u, <<r, f>>) \in Seq(R) /\ Len(Append(u, <<r, f>>)) = n + 1
      /\ \A i \in 1..n : Append(u, <<r, f>>)[i] = u[i]
      /\ Append(u, <<r, f>>)[n + 1] = <<r, f>>
  BY <1>2, <1>4, AppendProperties
<1>6. \A i \in 1..(n + 1) : Append(u, <<r, f>>)[i] = v[i]
  <2>1. \A i \in 1..(n + 1) : i \in 1..n \/ i = n + 1
    BY <1>1
  <2>2. ASSUME NEW i \in 1..n PROVE Append(u, <<r, f>>)[i] = v[i]
    <3>1. i \in 1..(n + 1)
      BY <1>1
    <3> QED BY <1>1, <1>2, <1>3, <1>5, <3>1, Zenon
  <2>3. Append(u, <<r, f>>)[n + 1] = v[n + 1]
    <3>1. n + 1 \in 1..(n + 1)
      BY <1>1
    <3> QED BY <1>1, <1>3, <1>5, <3>1, Zenon
  <2> QED BY <2>1, <2>2, <2>3, Zenon
<1>7. Append(u, <<r, f>>) = v
  BY <1>3, <1>5, <1>6, SeqEqual
<1> QED BY <1>7 DEF u, v, n, a

(* A token reaches the engine and the stream of its own request only. *)
LEMMA TokenStep ==
  ASSUME IInv, NEW r \in Requests, NEW f \in Fragments, Token(r, f)
  PROVE  IInv'
<1> DEFINE s == tokens[r]  a == Append(tokens[r], f)  t == Decoded[a]
           x == IncrementalSuffix(emitted[r], t)
<1>0. TypeOK /\ RequestInv(r) /\ pc[r] = "generate" /\ Working(r)
  BY DEF IInv, Token, Working
<1>4. /\ s \in Texts /\ a \in Texts /\ Len(a) = Len(s) + 1
      /\ Len(s) < MaxNewTokens[r] /\ Len(s) \in Nat
      /\ MaxNewTokens[r] \in Nat
      /\ tokens' = [tokens EXCEPT ![r] = a]
      /\ context' = Append(context, <<r, f>>)
      /\ UNCHANGED <<mode, pc, lock, reader, text, ending>>
  <2>1. s \in Seq(Fragments)
    BY <1>0 DEF TypeOK
  <2>2. a \in Seq(Fragments) /\ Len(a) = Len(s) + 1 /\ Len(s) \in Nat
    BY <2>1, AppendProperties, LenProperties
  <2> QED BY <2>1, <2>2, CapAssumption DEF Token, client, Texts
<1>5. t \in Seq(Chars) /\ StripTrailing(t) \in Seq(Chars)
      /\ IsPrefixOf(StripTrailing(t), t)
  BY <1>4, DecodedType, StripIsPrefix
<1>6. mode[r] = "stream" =>
        /\ emitted[r] = StripTrailing(Decoded[s])
        /\ x \in Seq(Chars) /\ emitted[r] \o x = StripTrailing(t)
  <2>1. mode[r] = "stream" => emitted[r] = StripTrailing(Decoded[s])
    BY <1>0 DEF RequestInv, EmittedInv
  <2>2. /\ IncrementalSuffix(StripTrailing(Decoded[s]), t) \in Seq(Chars)
        /\ StripTrailing(Decoded[s])
             \o IncrementalSuffix(StripTrailing(Decoded[s]), t)
             = StripTrailing(t)
    BY <1>4, SuffixCompletes
  <2> QED BY <2>1, <2>2
<1>7. mode[r] = "stream" =>
        /\ Put(r, Deltas(x))
        /\ emitted' = [emitted EXCEPT ![r] = StripTrailing(t)]
  BY DEF Token
<1>8. mode[r] # "stream" => UNCHANGED <<events, emitted>>
  BY DEF Token
<1> HIDE DEF a, t, x
<1>9. /\ events' \in [Requests -> Seq(Events)]
      /\ \A q \in Requests \ {r} : events'[q] = events[q]
      /\ (mode[r] = "stream" /\ reader[r] # "gone") =>
           events'[r] = events[r] \o Deltas(x)
      /\ (mode[r] = "stream" /\ reader[r] = "gone") => events'[r] = <<>>
  <2>1. CASE mode[r] = "stream"
    <3>1. Deltas(x) \in Seq(Events)
      BY <1>6, <2>1, EventTypes
    <3> QED BY <1>0, <1>7, <2>1, <3>1, PutAt
  <2>2. CASE mode[r] # "stream"
    BY <1>0, <1>8, <2>2 DEF TypeOK
  <2> QED BY <2>1, <2>2
<1>10. /\ emitted' \in [Requests -> Seq(Chars)]
       /\ \A q \in Requests \ {r} : emitted'[q] = emitted[q]
       /\ mode[r] = "stream" => emitted'[r] = StripTrailing(t)
  <2>1. emitted \in [Requests -> Seq(Chars)]
    BY <1>0 DEF TypeOK
  <2> QED BY <1>5, <1>7, <1>8, <2>1
<1>11. /\ tokens' \in [Requests -> Seq(Fragments)] /\ tokens'[r] = a
       /\ \A q \in Requests \ {r} : tokens'[q] = tokens[q]
  <2>1. tokens \in [Requests -> Seq(Fragments)]
    BY <1>0 DEF TypeOK
  <2> QED BY <1>4, <2>1 DEF Texts
<1>1. TypeOK'
  <2>1. \A q \in Requests : Len(tokens'[q]) <= MaxNewTokens[q]
    <3>1. Len(a) <= MaxNewTokens[r]
      BY <1>4
    <3> QED BY <1>0, <1>11, <3>1 DEF TypeOK
  <2> QED BY <1>0, <1>4, <1>9, <1>10, <1>11, <2>1 DEF TypeOK
<1>2. LockInv' /\ EngineIsolation'
  <2>1. LockInv'
    BY <1>4 DEF IInv, LockInv
  <2>2. \A q \in Requests : pc'[q] = "generate" => q = r
    BY <1>0, <1>4 DEF IInv, LockInv
  <2>3. context = [i \in 1..Len(s) |-> <<r, s[i]>>]
    BY <1>0 DEF IInv, EngineIsolation
  <2>4. context' = [i \in 1..Len(a) |-> <<r, a[i]>>]
    BY <1>4, <2>3, ContextGrows DEF a
  <2> QED BY <1>11, <2>1, <2>2, <2>4 DEF EngineIsolation
<1>3. \A q \in Requests \ {r} : SameFor(q)
  BY <1>4, <1>9, <1>10, <1>11 DEF SameFor
<1>12. events[r] \in Seq(Events) /\ text[r] \in Seq(Chars)
       /\ Contents(events[r]) \in Seq(Chars)
  <2>1. events[r] \in Seq(Events) /\ text[r] \in Seq(Chars)
    BY <1>0 DEF TypeOK
  <2> QED BY <2>1, ContentsType
<1>13. Kinds(events'[r]) \subseteq {"text"}
  <2>1. Kinds(events[r]) \subseteq {"text"}
    BY <1>0, OnlyText DEF RequestInv
  <2>2. CASE mode[r] = "stream" /\ reader[r] # "gone"
    BY <1>6, <1>9, <1>12, <2>1, <2>2, PutDelta
  <2>3. CASE mode[r] = "stream" /\ reader[r] = "gone"
    BY <1>9, <2>3, KindsOf
  <2>4. CASE mode[r] # "stream"
    BY <1>8, <2>1, <2>4
  <2> QED BY <2>2, <2>3, <2>4
<1>14. RequestInv(r)'
  <2>1. ArrivalInv(r)'
    BY <1>0, <1>4 DEF RequestInv, ArrivalInv, Waiting
  <2>2. QueueInv(r)'
    <3>1. /\ ending[r] = "none" /\ reader[r] # "closed"
          /\ mode[r] = "once" => events[r] = <<>> /\ text[r] = <<>>
      BY <1>0, OnlyText DEF RequestInv, QueueInv
    <3>2. "finished" \notin Kinds(events'[r])
          /\ \A k \in Kinds(events'[r]) : k = "text"
      BY <1>13
    <3>3. FinishedLast(events'[r])
      BY <1>9, <3>2, SentinelLast
    <3> QED BY <1>0, <1>4, <1>8, <3>1, <3>2, <3>3 DEF QueueInv
  <2>3. EmittedInv(r)'
    BY <1>4, <1>10, <1>11 DEF EmittedInv, t
  <2>4. ~Completed(r)'
    <3>1. ending'[r] = "none" /\ "done" \notin Kinds(events'[r])
      BY <1>0, <1>4, <1>13, OnlyText DEF RequestInv
    <3> QED BY <3>1 DEF Completed
  <2>5. ASSUME reader[r] \in {"open", "closed"}
        PROVE  Sent(r)' = IF mode[r] = "stream" THEN StripTrailing(t)
                          ELSE <<>>
    <3>1. Sent(r) = IF mode[r] = "stream" THEN emitted[r] ELSE <<>>
      BY <1>0, <2>5 DEF RequestInv, SentInv
    <3>2. CASE mode[r] = "stream"
      <4>1. Contents(events'[r]) = Contents(events[r]) \o x
        BY <1>6, <1>9, <1>12, <2>5, <3>2, PutDelta
      <4>2. text[r] \o (Contents(events[r]) \o x) = Sent(r) \o x
        <5>1. x \in Seq(Chars)
          BY <1>6, <3>2
        <5> QED BY <1>12, <5>1, TextAssociative DEF Sent
      <4>3. Sent(r)' = Sent(r) \o x
        BY <1>4, <4>1, <4>2 DEF Sent
      <4> QED BY <1>6, <3>1, <3>2, <4>3
    <3>3. CASE mode[r] # "stream"
      BY <1>4, <1>8, <3>1, <3>3 DEF Sent
    <3> QED BY <3>2, <3>3
  <2>6. SentInv(r)'
    <3> SUFFICES ASSUME reader'[r] \in {"open", "closed"}
                 PROVE  /\ IsPrefixOf(Sent(r)', Decoded[tokens'[r]])
                        /\ Sent(r)' = IF mode'[r] = "stream" THEN emitted'[r]
                                      ELSE <<>>
      BY <2>4 DEF SentInv
    <3>1. Sent(r)' = IF mode[r] = "stream" THEN StripTrailing(t) ELSE <<>>
      BY <1>4, <2>5
    <3>2. IsPrefixOf(<<>>, t)
      BY <1>5, TrivialPrefixes
    <3>3. IsPrefixOf(Sent(r)', t)
      BY <1>5, <3>1, <3>2
    <3> QED BY <1>4, <1>10, <1>11, <3>1, <3>3 DEF t
  <2> QED BY <2>1, <2>2, <2>3, <2>6 DEF RequestInv
<1> QED BY <1>1, <1>2, <1>3, <1>14, OneRequest DEF IInv

(* Finishing frees the lock and keeps the text. *)
LEMMA FinishStep ==
  ASSUME IInv, NEW r \in Requests, Finish(r) PROVE IInv'
<1>0. TypeOK /\ RequestInv(r)
  BY DEF IInv
<1>1. TypeOK'
  BY <1>0 DEF TypeOK, Finish, Goto, client, Labels
<1>3. \A q \in Requests \ {r} : SameFor(q)
  BY <1>0 DEF TypeOK, SameFor, Finish, Goto, client
<1>4. /\ pc'[r] = "reply" /\ pc[r] = "generate" /\ lock' = Free
      /\ UNCHANGED <<mode, tokens, emitted, events, reader, text, ending>>
  BY <1>0 DEF TypeOK, Finish, Goto, client
<1>2. LockInv' /\ EngineIsolation'
  <2>1. \A q \in Requests : pc'[q] # "generate"
    BY <1>3, <1>4 DEF IInv, LockInv, SameFor
  <2> QED BY <1>4, <2>1, FreeIsNoRequest DEF LockInv, EngineIsolation, Free
<1>5. RequestInv(r)'
  <2>1. ArrivalInv(r)' /\ EmittedInv(r)'
    BY <1>0, <1>4 DEF RequestInv, ArrivalInv, EmittedInv, Waiting, Working
  <2>2. QueueInv(r)'
    BY <1>0, <1>4 DEF RequestInv, QueueInv
  <2>3. SentInv(r)'
    BY <1>0, <1>4 DEF RequestInv, SentInv, Working, Sent, Completed
  <2> QED BY <2>1, <2>2, <2>3 DEF RequestInv
<1> QED BY <1>1, <1>2, <1>3, <1>5, OneRequest DEF IInv

(* The flush, or the buffered content, completes the text. *)
LEMMA ReplyStep ==
  ASSUME IInv, NEW r \in Requests, Reply(r) PROVE IInv'
<1> DEFINE final == Decoded[tokens[r]]
           x == IF mode[r] = "stream" THEN FlushTail(emitted[r], final)
                ELSE final
           es == events[r] \o Deltas(x)
<1>0. TypeOK /\ RequestInv(r) /\ pc[r] = "reply" /\ Working(r)
      /\ mode[r] # "once"
  BY DEF IInv, Reply, Working, Streaming
<1>4. /\ tokens[r] \in Texts /\ final \in Seq(Chars)
      /\ events[r] \in Seq(Events) /\ text[r] \in Seq(Chars)
      /\ Contents(events[r]) \in Seq(Chars)
  <2>1. tokens[r] \in Texts /\ events[r] \in Seq(Events)
        /\ text[r] \in Seq(Chars)
    BY <1>0 DEF TypeOK, Texts
  <2> QED BY <2>1, ContentsType, DecodedType
<1>5. /\ Put(r, Deltas(x) \o <<Ending("done")>>)
      /\ pc' = [pc EXCEPT ![r] = "sentinel"]
      /\ UNCHANGED <<mode, lock, context, tokens, emitted, reader, text,
                     ending>>
  BY DEF Reply, Goto, client
<1>6. /\ x \in Seq(Chars)
      /\ (IF mode[r] = "stream" THEN emitted[r] ELSE <<>>) \o x = final
  <2>1. CASE mode[r] = "stream"
    <3>1. emitted[r] = StripTrailing(final)
      BY <1>0, <2>1 DEF RequestInv, EmittedInv
    <3> QED BY <1>4, <2>1, <3>1, FlushCompletes
  <2>2. CASE mode[r] # "stream"
    <3>1. <<>> \o final = final
      BY <1>4, ConcatEmptySeq
    <3> QED BY <1>4, <2>2, <3>1
  <2> QED BY <2>1, <2>2
<1> HIDE DEF x, final
<1>7. /\ Deltas(x) \in Seq(Events) /\ <<Ending("done")>> \in Seq(Events)
      /\ Deltas(x) \o <<Ending("done")>> \in Seq(Events)
      /\ es \in Seq(Events)
      /\ events[r] \o (Deltas(x) \o <<Ending("done")>>)
           = es \o <<Ending("done")>>
  <2>1. Deltas(x) \in Seq(Events) /\ <<Ending("done")>> \in Seq(Events)
    BY <1>6, EventTypes
  <2>2. Deltas(x) \o <<Ending("done")>> \in Seq(Events) /\ es \in Seq(Events)
    BY <1>4, <2>1, ConcatProperties
  <2>3. (events[r] \o Deltas(x)) \o <<Ending("done")>>
          = events[r] \o (Deltas(x) \o <<Ending("done")>>)
    <3> DEFINE u == events[r]  v == Deltas(x)  w == <<Ending("done")>>
    <3>1. u \in Seq(Events) /\ v \in Seq(Events) /\ w \in Seq(Events)
      BY <1>4, <2>1
    <3> HIDE DEF u, v, w
    <3>2. (u \o v) \o w = u \o (v \o w)
      BY <3>1, ConcatAssociative
    <3> QED BY <3>2 DEF u, v, w
  <2> QED BY <2>1, <2>2, <2>3
<1>8. /\ events' \in [Requests -> Seq(Events)]
      /\ reader[r] = "gone" => events'[r] = <<>>
      /\ reader[r] # "gone" => events'[r] = es \o <<Ending("done")>>
      /\ \A q \in Requests \ {r} : events'[q] = events[q]
  BY <1>0, <1>5, <1>7, PutAt
<1>9. /\ Contents(es) = Contents(events[r]) \o x
      /\ Kinds(es) \subseteq {"text"}
  <2>1. Kinds(events[r]) \subseteq {"text"}
    BY <1>0, OnlyText DEF RequestInv
  <2> QED BY <1>4, <1>6, <2>1, PutDelta
<1> HIDE DEF es
<1>10. reader[r] # "gone" =>
         /\ Contents(events'[r]) = Contents(events[r]) \o x
         /\ Kinds(events'[r]) \subseteq {"text", "done"}
         /\ FinishedLast(events'[r])
  <2>1. /\ Contents(es \o <<Ending("done")>>) = Contents(es)
        /\ Kinds(es \o <<Ending("done")>>) = Kinds(es) \cup {"done"}
        /\ "finished" \notin Kinds(es) =>
             FinishedLast(es \o <<Ending("done")>>)
    BY <1>7, PutEnding
  <2>2. "finished" \notin Kinds(es)
    BY <1>9
  <2> QED BY <1>8, <1>9, <2>1, <2>2
<1>1. TypeOK'
  BY <1>0, <1>5, <1>8 DEF TypeOK, Labels
<1>2. LockInv' /\ EngineIsolation'
  BY <1>0, <1>5 DEF IInv, TypeOK, LockInv, EngineIsolation
<1>3. \A q \in Requests \ {r} : SameFor(q)
  BY <1>0, <1>5, <1>8 DEF TypeOK, SameFor
<1>11. pc'[r] = "sentinel"
  BY <1>0, <1>5 DEF TypeOK
<1>12. RequestInv(r)'
  <2>1. ArrivalInv(r)' /\ EmittedInv(r)'
    BY <1>0, <1>5, <1>11
    DEF RequestInv, ArrivalInv, EmittedInv, Waiting, Working
  <2>2. QueueInv(r)'
    <3>1. ending[r] = "none" /\ reader[r] # "closed"
      BY <1>0, OnlyText DEF RequestInv
    <3>2. "finished" \notin Kinds(events'[r]) /\ FinishedLast(events'[r])
      <4>1. CASE reader[r] = "gone"
        BY <1>8, <4>1, KindsOf DEF FinishedLast
      <4>2. CASE reader[r] # "gone"
        BY <1>10, <4>2
      <4> QED BY <4>1, <4>2
    <3> QED BY <1>0, <1>5, <1>11, <3>1, <3>2 DEF QueueInv
  <2>3. ASSUME reader[r] \in {"open", "closed"} PROVE Sent(r)' = final
    <3>1. Sent(r) = IF mode[r] = "stream" THEN emitted[r] ELSE <<>>
      BY <1>0, <2>3 DEF RequestInv, SentInv
    <3>2. text[r] \o (Contents(events[r]) \o x) = Sent(r) \o x
      <4>1. text[r] \in Seq(Chars) /\ Contents(events[r]) \in Seq(Chars)
            /\ x \in Seq(Chars)
        BY <1>4, <1>6
      <4> QED BY <4>1, TextAssociative, Zenon DEF Sent
    <3>3. Sent(r)' = Sent(r) \o x
      BY <1>5, <1>10, <2>3, <3>2 DEF Sent
    <3> QED BY <1>6, <3>1, <3>3
  <2>4. SentInv(r)'
    <3>1. IsPrefixOf(final, final)
      BY <1>4, TrivialPrefixes
    <3> QED BY <1>5, <1>11, <2>3, <3>1 DEF SentInv, Working, final
  <2> QED BY <2>1, <2>2, <2>4 DEF RequestInv
<1> QED BY <1>1, <1>2, <1>3, <1>12, OneRequest DEF IInv

(* The single answer is the whole text. *)
LEMMA AnswerOnceStep ==
  ASSUME IInv, NEW r \in Requests, AnswerOnce(r) PROVE IInv'
<1> DEFINE final == Decoded[tokens[r]]
<1>0. /\ TypeOK /\ RequestInv(r) /\ pc[r] = "reply" /\ Working(r)
      /\ mode[r] = "once"
  BY DEF IInv, AnswerOnce, Working, Streaming
<1>4. /\ final \in Seq(Chars) /\ events[r] = <<>>
      /\ final \o <<>> = final
  <2>1. tokens[r] \in Texts
    BY <1>0 DEF TypeOK, Texts
  <2>2. final \in Seq(Chars)
    BY <2>1, DecodedType
  <2> QED BY <1>0, <2>2, ConcatEmptySeq DEF RequestInv, QueueInv
<1>5. /\ pc' = [pc EXCEPT ![r] = "end"]
      /\ UNCHANGED <<mode, lock, context, tokens, emitted, events>>
      /\ reader[r] = "open" =>
           /\ text' = [text EXCEPT ![r] = final]
           /\ ending' = [ending EXCEPT ![r] = "done"]
           /\ reader' = [reader EXCEPT ![r] = "closed"]
      /\ reader[r] # "open" => UNCHANGED <<reader, text, ending>>
  BY DEF AnswerOnce, Goto, client
<1> HIDE DEF final
<1>1. TypeOK'
  <2>1. pc' \in [Requests -> Labels]
    BY <1>0, <1>5 DEF TypeOK, Labels
  <2>2. /\ text' \in [Requests -> Seq(Chars)]
        /\ ending' \in [Requests -> {"none", "done", "error"}]
        /\ reader' \in [Requests -> {"none", "open", "closed", "gone"}]
    <3>1. CASE reader[r] = "open"
      <4>1. text' \in [Requests -> Seq(Chars)]
        <5>1. text \in [Requests -> Seq(Chars)]
          BY <1>0 DEF TypeOK
        <5>2. text' = [text EXCEPT ![r] = final]
          BY <1>5, <3>1
        <5> QED BY <1>4, <5>1, <5>2
      <4> QED BY <1>0, <1>5, <3>1, <4>1 DEF TypeOK
    <3>2. CASE reader[r] # "open"
      BY <1>0, <1>5, <3>2 DEF TypeOK
    <3> QED BY <3>1, <3>2
  <2> QED BY <1>0, <1>5, <2>1, <2>2 DEF TypeOK
<1>2. LockInv' /\ EngineIsolation'
  BY <1>0, <1>5 DEF IInv, TypeOK, LockInv, EngineIsolation
<1>3. \A q \in Requests \ {r} : SameFor(q)
  BY <1>0, <1>5 DEF TypeOK, SameFor
<1>6. pc'[r] = "end"
      /\ (reader[r] = "open" => /\ text'[r] = final /\ reader'[r] = "closed"
                                /\ ending'[r] = "done")
  BY <1>0, <1>5 DEF TypeOK
<1>7. reader[r] # "open" => reader[r] = "gone"
  BY <1>0, OnlyText DEF TypeOK, RequestInv, ArrivalInv
<1>8. RequestInv(r)'
  <2>1. ArrivalInv(r)' /\ EmittedInv(r)'
    BY <1>0, <1>5, <1>6
    DEF RequestInv, ArrivalInv, EmittedInv, Waiting, Working
  <2>2. QueueInv(r)'
    BY <1>4, <1>5, <1>6, <1>7, KindsOf DEF QueueInv, FinishedLast
  <2>3. SentInv(r)'
    <3>1. CASE reader[r] = "open"
      <4>1. Sent(r)' = final
        BY <1>4, <1>5, <1>6, <3>1, ContentsType DEF Sent
      <4>2. IsPrefixOf(final, final)
        BY <1>4, TrivialPrefixes
      <4> QED BY <1>5, <1>6, <4>1, <4>2 DEF SentInv, Working, final
    <3>2. CASE reader[r] # "open"
      BY <1>5, <1>7, <3>2 DEF SentInv
    <3> QED BY <3>1, <3>2
  <2> QED BY <2>1, <2>2, <2>3 DEF RequestInv
<1> QED BY <1>1, <1>2, <1>3, <1>8, OneRequest DEF IInv

(* An error leaves the lock free, and what was sent stays a prefix. *)
LEMMA RaiseStep ==
  ASSUME IInv, NEW r \in Requests, Raise(r) PROVE IInv'
<1>0. TypeOK /\ RequestInv(r) /\ Working(r)
  BY DEF IInv, Raise, Working
<1>4. /\ lock' = IF pc[r] = "generate" THEN Free ELSE lock
      /\ UNCHANGED <<mode, context, tokens, emitted, text, ending>>
      /\ mode[r] # "once" => /\ Put(r, <<Ending("error")>>)
                             /\ pc' = [pc EXCEPT ![r] = "sentinel"]
                             /\ UNCHANGED reader
      /\ mode[r] = "once" => /\ pc' = [pc EXCEPT ![r] = "end"]
                             /\ reader' = [reader EXCEPT ![r] = "closed"]
                             /\ UNCHANGED events
  BY DEF Raise, Goto, Streaming
<1>5. /\ events[r] \in Seq(Events) /\ <<Ending("error")>> \in Seq(Events)
      /\ Kinds(events[r]) \subseteq {"text"}
      /\ reader[r] # "closed" /\ ending[r] = "none"
  BY <1>0, EventTypes, OnlyText DEF RequestInv, TypeOK
<1>6. /\ events' \in [Requests -> Seq(Events)]
      /\ (mode[r] # "once" /\ reader[r] = "gone") => events'[r] = <<>>
      /\ (mode[r] # "once" /\ reader[r] # "gone") =>
           events'[r] = events[r] \o <<Ending("error")>>
      /\ \A q \in Requests \ {r} : events'[q] = events[q]
  <2>1. CASE mode[r] # "once"
    BY <1>0, <1>4, <1>5, <2>1, PutAt
  <2>2. CASE mode[r] = "once"
    BY <1>0, <1>4, <2>2 DEF TypeOK
  <2> QED BY <2>1, <2>2
<1>7. /\ pc'[r] = IF mode[r] = "once" THEN "end" ELSE "sentinel"
      /\ reader'[r] = IF mode[r] = "once" THEN "closed" ELSE reader[r]
      /\ \A q \in Requests \ {r} : pc'[q] = pc[q] /\ reader'[q] = reader[q]
  BY <1>0, <1>4 DEF TypeOK
<1>1. TypeOK'
  <2>1. pc' \in [Requests -> Labels]
        /\ reader' \in [Requests -> {"none", "open", "closed", "gone"}]
    BY <1>0, <1>4 DEF TypeOK, Labels
  <2> QED BY <1>0, <1>4, <1>6, <2>1 DEF TypeOK
<1>2. LockInv' /\ EngineIsolation'
  <2>1. CASE pc[r] = "generate"
    <3>1. \A q \in Requests : pc'[q] # "generate"
      BY <1>0, <1>7, <2>1 DEF IInv, LockInv
    <3>2. lock' = Free
      BY <1>4, <2>1
    <3> QED BY <3>1, <3>2, FreeIsNoRequest DEF LockInv, EngineIsolation, Free
  <2>2. CASE pc[r] # "generate"
    <3>1. /\ lock' = lock /\ UNCHANGED <<context, tokens>>
          /\ pc'[r] # "generate"
      BY <1>4, <1>7, <2>2
    <3>2. \A q \in Requests : pc'[q] = "generate" <=> pc[q] = "generate"
      BY <1>7, <2>2, <3>1
    <3> QED BY <3>1, <3>2 DEF IInv, LockInv, EngineIsolation
  <2> QED BY <2>1, <2>2
<1>3. \A q \in Requests \ {r} : SameFor(q)
  BY <1>4, <1>6, <1>7 DEF SameFor
<1>8. /\ mode[r] = "once" => events[r] = <<>> /\ events'[r] = <<>>
      /\ reader'[r] # "gone" =>
           /\ Contents(events'[r]) = Contents(events[r])
           /\ Kinds(events'[r]) \subseteq {"text", "error"}
           /\ FinishedLast(events'[r])
  <2>1. mode[r] = "once" => events[r] = <<>> /\ events'[r] = <<>>
    BY <1>0, <1>4 DEF RequestInv, QueueInv
  <2>2. Kinds(<<>>) = {} /\ FinishedLast(<<>>)
    BY KindsOf DEF FinishedLast
  <2>3. /\ Contents(events[r] \o <<Ending("error")>>) = Contents(events[r])
        /\ Kinds(events[r] \o <<Ending("error")>>)
             = Kinds(events[r]) \cup {"error"}
        /\ "finished" \notin Kinds(events[r]) =>
             FinishedLast(events[r] \o <<Ending("error")>>)
    BY <1>5, PutEnding
  <2>4. CASE mode[r] = "once"
    BY <2>1, <2>2, <2>4
  <2>5. CASE mode[r] # "once"
    <3>1. reader'[r] # "gone" =>
            events'[r] = events[r] \o <<Ending("error")>>
      BY <1>6, <1>7, <2>5
    <3>2. "finished" \notin Kinds(events[r])
      BY <1>5
    <3> QED BY <1>5, <2>3, <2>5, <3>1, <3>2
  <2> QED BY <2>4, <2>5
<1>9. RequestInv(r)'
  <2>1. ArrivalInv(r)' /\ EmittedInv(r)'
    BY <1>0, <1>4, <1>7
    DEF RequestInv, ArrivalInv, EmittedInv, Waiting, Working
  <2>2. QueueInv(r)'
    <3>1. Kinds(events'[r]) \subseteq {"text", "error"}
          /\ FinishedLast(events'[r])
      <4>1. CASE reader'[r] = "gone"
        <5>1. events'[r] = <<>>
          BY <1>6, <1>7, <4>1
        <5> QED BY <5>1, KindsOf DEF FinishedLast
      <4>2. CASE reader'[r] # "gone"
        BY <1>8, <4>2
      <4> QED BY <4>1, <4>2
    <3>2. "finished" \notin Kinds(events'[r])
      BY <3>1
    <3> QED BY <1>4, <1>5, <1>7, <1>8, <3>1, <3>2 DEF QueueInv
  <2>3. SentInv(r)'
    <3> SUFFICES ASSUME reader'[r] \in {"open", "closed"}
                 PROVE  /\ IsPrefixOf(Sent(r)', Decoded[tokens'[r]])
                        /\ ~Completed(r)'
      BY <1>7 DEF SentInv, Working
    <3>1. ~Completed(r)'
      <4>1. "done" \notin Kinds(events'[r]) /\ ending'[r] # "done"
        BY <1>4, <1>5, <1>8
      <4> QED BY <4>1 DEF Completed
    <3>2. Sent(r)' = Sent(r)
      BY <1>4, <1>8 DEF Sent
    <3>3. IsPrefixOf(Sent(r), Decoded[tokens[r]])
      <4>1. CASE reader[r] \in {"open", "closed"}
        BY <1>0, <4>1 DEF RequestInv, SentInv
      <4>2. CASE reader[r] \notin {"open", "closed"}
        <5>1. mode[r] = "once"
          BY <1>7, <4>2
        <5>2. text[r] = <<>> /\ events[r] = <<>>
          BY <1>0, <5>1 DEF RequestInv, QueueInv, Working
        <5>3. Sent(r) = <<>>
          BY <5>2, ContentsType, EmptyText, Zenon DEF Sent
        <5>4. Decoded[tokens[r]] \in Seq(Chars)
          BY <1>0, DecodedType DEF TypeOK, Texts
        <5> QED BY <5>3, <5>4, TrivialPrefixes
      <4> QED BY <4>1, <4>2
    <3> QED BY <1>4, <3>1, <3>2, <3>3
  <2> QED BY <2>1, <2>2, <2>3 DEF RequestInv
<1> QED BY <1>1, <1>2, <1>3, <1>9, OneRequest DEF IInv

(* The sentinel adds no text and comes last. *)
LEMMA SentinelStep ==
  ASSUME IInv, NEW r \in Requests, Sentinel(r) PROVE IInv'
<1>0. TypeOK /\ RequestInv(r) /\ pc[r] = "sentinel"
  BY DEF IInv, Sentinel
<1>4. /\ Put(r, <<Ending("finished")>>)
      /\ pc' = [pc EXCEPT ![r] = "end"]
      /\ UNCHANGED <<mode, lock, context, tokens, emitted, reader, text,
                     ending>>
  BY DEF Sentinel, Goto, client
<1>5. events[r] \in Seq(Events) /\ <<Ending("finished")>> \in Seq(Events)
  BY <1>0, EventTypes DEF TypeOK
<1>6. /\ events' \in [Requests -> Seq(Events)]
      /\ reader[r] = "gone" => events'[r] = <<>>
      /\ reader[r] # "gone" => events'[r] = events[r] \o <<Ending("finished")>>
      /\ \A q \in Requests \ {r} : events'[q] = events[q]
  BY <1>0, <1>4, <1>5, PutAt
<1>7. reader[r] # "gone" =>
        /\ Contents(events'[r]) = Contents(events[r])
        /\ Kinds(events'[r]) = Kinds(events[r]) \cup {"finished"}
        /\ FinishedLast(events'[r])
  <2>1. /\ Contents(events[r] \o <<Ending("finished")>>) = Contents(events[r])
        /\ Kinds(events[r] \o <<Ending("finished")>>)
             = Kinds(events[r]) \cup {"finished"}
        /\ "finished" \notin Kinds(events[r]) =>
             FinishedLast(events[r] \o <<Ending("finished")>>)
    BY <1>5, PutEnding
  <2>2. "finished" \notin Kinds(events[r])
    BY <1>0 DEF RequestInv, QueueInv
  <2> QED BY <1>6, <2>1, <2>2
<1>1. TypeOK'
  BY <1>0, <1>4, <1>6 DEF TypeOK, Labels
<1>2. LockInv' /\ EngineIsolation'
  BY <1>0, <1>4 DEF IInv, TypeOK, LockInv, EngineIsolation
<1>3. \A q \in Requests \ {r} : SameFor(q)
  BY <1>0, <1>4, <1>6 DEF TypeOK, SameFor
<1>8. pc'[r] = "end"
  BY <1>0, <1>4 DEF TypeOK
<1>9. mode[r] # "once"
  BY <1>0 DEF RequestInv, QueueInv
<1>10. RequestInv(r)'
  <2>1. ArrivalInv(r)' /\ EmittedInv(r)'
    BY <1>0, <1>4, <1>8
    DEF RequestInv, ArrivalInv, EmittedInv, Waiting, Working
  <2>2. QueueInv(r)'
    <3>1. reader[r] # "closed"
      BY <1>0 DEF RequestInv, QueueInv
    <3>2. FinishedLast(events'[r])
      <4>1. CASE reader[r] = "gone"
        BY <1>6, <4>1 DEF FinishedLast
      <4>2. CASE reader[r] # "gone"
        BY <1>7, <4>2
      <4> QED BY <4>1, <4>2
    <3> QED BY <1>4, <1>8, <1>9, <3>1, <3>2 DEF QueueInv
  <2>3. SentInv(r)'
    <3> SUFFICES ASSUME reader'[r] \in {"open", "closed"}
                 PROVE  /\ IsPrefixOf(Sent(r)', Decoded[tokens'[r]])
                        /\ Completed(r)' => Sent(r)' = Decoded[tokens'[r]]
      BY <1>8 DEF SentInv, Working
    <3>1. Sent(r)' = Sent(r)
      BY <1>4, <1>7 DEF Sent
    <3>2. Completed(r)' => Completed(r)
      <4>1. reader[r] # "gone"
        BY <1>4
      <4>2. "done" \in Kinds(events'[r]) => "done" \in Kinds(events[r])
        BY <1>7, <4>1
      <4> QED BY <1>4, <4>2 DEF Completed
    <3> QED BY <1>0, <1>4, <3>1, <3>2 DEF RequestInv, SentInv
  <2> QED BY <2>1, <2>2, <2>3 DEF RequestInv
<1> QED BY <1>1, <1>2, <1>3, <1>10, OneRequest DEF IInv

(* Draining moves text from the queue to the client. *)
LEMMA DrainStep ==
  ASSUME IInv, NEW r \in Requests, Drain(r) PROVE IInv'
<1> DEFINE es == events[r]  e == Head(events[r])
<1>0. TypeOK /\ RequestInv(r) /\ mode[r] # "once" /\ reader[r] = "open"
      /\ es # <<>>
  BY DEF IInv, Drain, Streaming
<1>4. /\ text' = [text EXCEPT ![r] = text[r] \o e.text]
      /\ ending' = IF e.kind \in {"done", "error"}
                   THEN [ending EXCEPT ![r] = e.kind] ELSE ending
      /\ reader' = IF e.kind = "finished"
                   THEN [reader EXCEPT ![r] = "closed"] ELSE reader
      /\ events' = [events EXCEPT ![r] = Tail(es)]
      /\ UNCHANGED <<mode, pc, lock, context, tokens, emitted>>
  BY DEF Drain, producer
<1>5. /\ es \in Seq(Events) /\ Tail(es) \in Seq(Events) /\ e \in Events
      /\ text[r] \in Seq(Chars) /\ e.text \in Seq(Chars)
      /\ text[r] \o e.text \in Seq(Chars)
      /\ Contents(Tail(es)) \in Seq(Chars)
      /\ Contents(es) = e.text \o Contents(Tail(es))
      /\ e.kind \in Kinds(es) /\ Kinds(Tail(es)) \subseteq Kinds(es)
  <2>1. es \in Seq(Events) /\ text[r] \in Seq(Chars)
    BY <1>0 DEF TypeOK
  <2>2. Tail(es) \in Seq(Events) /\ e \in Events
    BY <1>0, <2>1, HeadTailProperties
  <2>3. e.text \in Seq(Chars) /\ Contents(Tail(es)) \in Seq(Chars)
    BY <2>2, EventText, ContentsType
  <2>4. text[r] \o e.text \in Seq(Chars)
    BY <2>1, <2>3, ConcatProperties
  <2>5. e.kind \in Kinds(es) /\ Kinds(Tail(es)) \subseteq Kinds(es)
    BY <1>0, <2>1, KindsOf
  <2>6. Contents(es) = e.text \o Contents(Tail(es))
    BY <1>0, <2>1, ContentsHead
  <2> QED BY <2>1, <2>2, <2>3, <2>4, <2>5, <2>6
<1>6. /\ FinishedLast(Tail(es))
      /\ e.kind = "finished" => Tail(es) = <<>> /\ pc[r] = "end"
      /\ e.kind # "text" => pc[r] \in {"sentinel", "end"}
      /\ \A k \in Kinds(Tail(es)) : k # "text" => pc[r] \in {"sentinel", "end"}
      /\ "finished" \in Kinds(Tail(es)) => pc[r] = "end"
      /\ ending[r] # "none" => pc[r] \in {"sentinel", "end"}
  <2>1. /\ ending[r] # "none" => pc[r] \in {"sentinel", "end"}
        /\ \A k \in Kinds(es) : k # "text" => pc[r] \in {"sentinel", "end"}
        /\ "finished" \in Kinds(es) => pc[r] = "end"
        /\ FinishedLast(es)
    BY <1>0 DEF RequestInv, QueueInv
  <2>2. /\ FinishedLast(Tail(es))
        /\ e.kind = "finished" => Tail(es) = <<>>
    BY <1>0, <1>5, <2>1, SentinelLast
  <2> HIDE DEF es, e
  <2> QED BY <1>5, <2>1, <2>2
<1> HIDE DEF es, e
<1>7. /\ text' \in [Requests -> Seq(Chars)] /\ text'[r] = text[r] \o e.text
      /\ \A q \in Requests \ {r} : text'[q] = text[q]
      /\ events' \in [Requests -> Seq(Events)] /\ events'[r] = Tail(es)
      /\ \A q \in Requests \ {r} : events'[q] = events[q]
  <2>1. text \in [Requests -> Seq(Chars)]
        /\ events \in [Requests -> Seq(Events)]
    BY <1>0 DEF TypeOK
  <2> QED BY <1>4, <1>5, <2>1
<1>8. /\ ending' \in [Requests -> {"none", "done", "error"}]
      /\ ending'[r] = IF e.kind \in {"done", "error"} THEN e.kind
                      ELSE ending[r]
      /\ reader' \in [Requests -> {"none", "open", "closed", "gone"}]
      /\ reader'[r] = IF e.kind = "finished" THEN "closed" ELSE "open"
      /\ \A q \in Requests \ {r} :
           ending'[q] = ending[q] /\ reader'[q] = reader[q]
  <2>1. ending \in [Requests -> {"none", "done", "error"}]
        /\ reader \in [Requests -> {"none", "open", "closed", "gone"}]
    BY <1>0 DEF TypeOK
  <2> QED BY <1>0, <1>4, <2>1
<1>1. TypeOK'
  BY <1>0, <1>4, <1>7, <1>8 DEF TypeOK
<1>2. LockInv' /\ EngineIsolation'
  BY <1>4 DEF IInv, LockInv, EngineIsolation
<1>3. \A q \in Requests \ {r} : SameFor(q)
  BY <1>4, <1>7, <1>8 DEF SameFor
<1>9. RequestInv(r)'
  <2>1. ArrivalInv(r)'
    <3>1. ~Waiting(r)
      BY <1>0 DEF RequestInv, ArrivalInv, es
    <3> QED BY <1>0, <1>4, <1>8, <3>1 DEF RequestInv, ArrivalInv, Waiting
  <2>2. EmittedInv(r)'
    BY <1>0, <1>4 DEF RequestInv, EmittedInv, Working
  <2>3. QueueInv(r)'
    <3>1. ending'[r] # "none" => pc[r] \in {"sentinel", "end"}
      BY <1>6, <1>8
    <3> QED BY <1>0, <1>4, <1>6, <1>7, <1>8, <3>1 DEF QueueInv
  <2>4. Sent(r)' = Sent(r)
    <3>1. text[r] \o (e.text \o Contents(Tail(es)))
            = (text[r] \o e.text) \o Contents(Tail(es))
      BY <1>5, TextAssociative
    <3>2. Sent(r) = text[r] \o Contents(es)
      BY DEF Sent, es
    <3>3. Sent(r)' = (text[r] \o e.text) \o Contents(Tail(es))
      BY <1>7 DEF Sent
    <3> QED BY <1>5, <3>1, <3>2, <3>3
  <2>5. Completed(r)' => Completed(r)
    <3>1. ending'[r] = "done" => ending[r] = "done" \/ "done" \in Kinds(es)
      BY <1>5, <1>8
    <3>2. "done" \in Kinds(events'[r]) => "done" \in Kinds(es)
      BY <1>5, <1>7
    <3> QED BY <3>1, <3>2, Zenon DEF Completed, es
  <2>6. SentInv(r)'
    BY <1>0, <1>4, <2>4, <2>5 DEF RequestInv, SentInv, Working
  <2> QED BY <2>1, <2>2, <2>3, <2>6 DEF RequestInv
<1> QED BY <1>1, <1>2, <1>3, <1>9, OneRequest DEF IInv

(* A client that left is promised nothing. *)
LEMMA DisconnectStep ==
  ASSUME IInv, NEW r \in Requests, Disconnect(r) PROVE IInv'
<1>0. TypeOK /\ RequestInv(r)
  BY DEF IInv
<1>1. TypeOK'
  <2>1. <<>> \in Seq(Events)
    BY EmptySeq
  <2> QED BY <1>0, <2>1 DEF TypeOK, Disconnect, producer
<1>2. LockInv' /\ EngineIsolation'
  BY DEF IInv, LockInv, EngineIsolation, Disconnect, producer
<1>3. \A q \in Requests \ {r} : SameFor(q)
  BY <1>0 DEF TypeOK, SameFor, Disconnect, producer
<1>4. /\ reader[r] = "open" /\ reader'[r] = "gone" /\ events'[r] = <<>>
      /\ UNCHANGED <<mode, pc, tokens, emitted, text, ending>>
  BY <1>0 DEF TypeOK, Disconnect, producer
<1>5. RequestInv(r)'
  <2>1. ArrivalInv(r)' /\ EmittedInv(r)'
    BY <1>0, <1>4
    DEF RequestInv, ArrivalInv, EmittedInv, Waiting, Working
  <2>2. QueueInv(r)'
    BY <1>0, <1>4, KindsOf DEF RequestInv, QueueInv, FinishedLast
  <2>3. SentInv(r)'
    BY <1>4 DEF SentInv
  <2> QED BY <2>1, <2>2, <2>3 DEF RequestInv
<1> QED BY <1>1, <1>2, <1>3, <1>5, OneRequest DEF IInv

(* A stuttering step changes nothing. *)
LEMMA StutterStep == ASSUME IInv, UNCHANGED vars PROVE IInv'
<1>1. TypeOK' /\ LockInv' /\ EngineIsolation'
  BY DEF IInv, TypeOK, LockInv, EngineIsolation, vars, producer, client
<1>2. \A q \in Requests : SameFor(q)
  BY DEF SameFor, vars, producer, client
<1> QED BY <1>1, <1>2, Elsewhere DEF IInv

(* Every step preserves the invariant. *)
LEMMA NextIInv == IInv /\ [Next]_vars => IInv'
<1> SUFFICES ASSUME IInv, [Next]_vars PROVE IInv'
  OBVIOUS
<1>1. ASSUME NEW r \in Requests, NEW m \in {"stream", "buffered", "once"},
             Arrive(r, m) PROVE IInv'
  BY <1>1, ArriveStep
<1>2. ASSUME NEW r \in Requests, Produce(r) PROVE IInv'
  BY <1>2, BlockStep, AcquireStep, FinishStep, RaiseStep, ReplyStep,
     AnswerOnceStep, SentinelStep, TokenStep DEF Produce
<1>3. ASSUME NEW r \in Requests, Drain(r) \/ Disconnect(r) PROVE IInv'
  BY <1>3, DrainStep, DisconnectStep
<1> QED BY <1>1, <1>2, <1>3, StutterStep DEF Next

-----------------------------------------------------------------------------
(* The results. *)

(* Every reachable state of the server satisfies the invariant. *)
THEOREM InvariantHolds == Spec => []IInv
BY InitIInv, NextIInv, PTL DEF Spec

(* The state of the server keeps its types, whatever threads and clients   *)
(* do, and no request generates more than its max_new_tokens.              *)
THEOREM TypeCorrect == Spec => []TypeOK
<1>1. IInv => TypeOK
  BY DEF IInv
<1> QED BY <1>1, InvariantHolds, PTL

(* The lock and the reset isolate requests: a request never generates from *)
(* a context that holds another's tokens.                                   *)
THEOREM Isolated == Spec => []EngineIsolation
<1>1. IInv => EngineIsolation
  BY DEF IInv
<1> QED BY <1>1, InvariantHolds, PTL

(* No client that listens is handed text that a later token would change. *)
THEOREM NeverSendsPartial == Spec => []NeverPartial
<1>1. IInv => NeverPartial
  BY DEF IInv, RequestInv, SentInv, NeverPartial
<1> QED BY <1>1, InvariantHolds, PTL

(* A stream that ends well has carried the whole decoded text: the deltas  *)
(* and the final flush lose and repeat nothing.                             *)
THEOREM StreamIsText == Spec => []StreamEqualsText
<1>1. IInv => StreamEqualsText
  <2> SUFFICES ASSUME IInv, NEW r \in Requests,
                      reader[r] = "closed", ending[r] = "done"
               PROVE  text[r] = Decoded[tokens[r]]
    BY DEF StreamEqualsText
  <2>1. Sent(r) = Decoded[tokens[r]] /\ events[r] = <<>>
        /\ text[r] \in Seq(Chars)
    BY DEF IInv, TypeOK, RequestInv, SentInv, QueueInv, Completed
  <2>2. Sent(r) = text[r] \o <<>>
    BY <2>1, ContentsType DEF Sent
  <2> QED BY <2>1, <2>2, ConcatEmptySeq
<1> QED BY <1>1, InvariantHolds, PTL

-----------------------------------------------------------------------------
(* The reply.  ChatReply has a state of its own: what one request asks and *)
(* what the model writes in answer to it.                                   *)

(* A stream that is not held back has sent what is written. *)
ReplyInv ==
  /\ phase = "idle" => sent = <<>> /\ written = <<>>
  /\ (/\ phase \in {"generate", "end", "done"}
      /\ req.stream /\ ~Buffering(req)) => sent = written

(* A piece goes out as it is written. *)
LEMMA WriteSends ==
  ASSUME ReplyInv, NEW piece, Write(piece)
  PROVE  ReplyInv' /\ phase' = "generate"
<1>1. /\ phase = "generate" /\ phase' = "generate" /\ req' = req
      /\ written' = written \o piece
      /\ sent' = IF req.stream /\ ~Buffering(req)
                 THEN sent \o piece ELSE sent
  BY DEF Write
<1>2. Buffering(req)' = Buffering(req)
  BY <1>1 DEF Buffering, HasParser
<1> QED BY <1>1, <1>2 DEF ReplyInv

(* The plain reply depends on the request, the text and the token count. *)
LEMMA SamePlainReply ==
  ASSUME UNCHANGED <<req, written, count>>
  PROVE  ChatOnce(req, written)' = ChatOnce(req, written)
<1>1. FinishReason' = FinishReason
  BY DEF FinishReason
<1> QED BY <1>1 DEF ChatOnce, Message

(* The last delta of a stream completes the content, the calls and the     *)
(* finish reason of the plain reply.                                       *)
LEMMA LastDelta ==
  ASSUME ReplyInv, ReplyStream
  PROVE  StreamAgrees'
<1> DEFINE parts == SplitThink(written, req.think)
           answer == ExtractToolCalls(req, parts.content)
           once == ChatOnce(req, written)
<1>1. /\ phase = "end" /\ req.stream /\ phase' = "done"
      /\ UNCHANGED <<req, written, count, sent>>
  BY DEF ReplyStream
<1>2. once = Message(parts.reasoning, answer)
  BY DEF ChatOnce
<1>3. /\ once.content = answer.content /\ once.calls = answer.calls
      /\ once.finish = IF answer.calls # <<>> THEN "tool_calls"
                       ELSE FinishReason
  <2> HIDE DEF parts, answer, once
  <2> QED BY <1>2 DEF Message
<1>4. CASE Buffering(req)
  <2>1. msg' = Message(<<>>, answer)
    BY <1>4 DEF ReplyStream
  <2>2. /\ msg'.content = once.content /\ msg'.calls = once.calls
        /\ msg'.finish = once.finish
    <3> HIDE DEF answer, once
    <3> QED BY <1>3, <2>1 DEF Message
  <2> QED BY <1>1, <2>2, SamePlainReply DEF StreamAgrees
<1>5. CASE ~Buffering(req)
  <2>1. msg' = [NoReply EXCEPT !.content = sent,
                                     !.finish = FinishReason]
    BY <1>5 DEF ReplyStream
  <2>2. /\ msg'.content = sent /\ msg'.calls = <<>>
        /\ msg'.finish = FinishReason
    <3> DEFINE fr == FinishReason
    <3>1. msg' = [[NoReply EXCEPT !.content = sent]
                    EXCEPT !.finish = fr]
      BY <2>1
    <3> HIDE DEF fr
    <3>2. msg' = [reasoning |-> <<>>, content |-> sent,
                       calls |-> <<>>, finish |-> fr]
      BY <3>1 DEF NoReply
    <3> QED BY <3>2 DEF fr
  <2>3. ASSUME ~req.think,
               ~(/\ req.tools = "absent" /\ req.choice = "required"
                 /\ HasParser(req))
        PROVE  answer = [content |-> written, calls |-> <<>>]
    <3>1. parts.content = written
      BY <2>3 DEF SplitThink
    <3>2. \/ req.choice = "none" \/ ~HasParser(req)
          \/ req.tools = "absent" /\ req.choice # "required"
      BY <1>5, <2>3 DEF Buffering
    <3> HIDE DEF parts
    <3> QED BY <3>1, <3>2 DEF ExtractToolCalls
  <2>4. sent = written
    BY <1>1, <1>5 DEF ReplyInv
  <2>5. ASSUME ~req.think,
               ~(/\ req.tools = "absent" /\ req.choice = "required"
                 /\ HasParser(req))
        PROVE  /\ msg'.content = once.content
               /\ msg'.calls = once.calls
               /\ msg'.finish = once.finish
    <3>1. answer.content = written /\ answer.calls = <<>>
      BY <2>3, <2>5
    <3> HIDE DEF answer, once
    <3> QED BY <1>3, <2>2, <2>4, <3>1
  <2> QED BY <1>1, <1>5, <2>5, SamePlainReply DEF StreamAgrees
<1> QED BY <1>4, <1>5

(* A stuttering step. *)
LEMMA StutterReply ==
  ASSUME ReplyInv, StreamAgrees, UNCHANGED replyVars
  PROVE  ReplyInv' /\ StreamAgrees'
<1>1. UNCHANGED <<req, phase, written, count, sent, msg>>
  BY DEF replyVars
<1>2. StreamAgrees'
  BY <1>1, SamePlainReply DEF StreamAgrees
<1>3. ReplyInv'
  BY <1>1 DEF ReplyInv
<1> QED BY <1>2, <1>3

(* Every step of a request keeps the stream in line with the plain reply. *)
LEMMA ReplyKept ==
  ASSUME ReplyInv, StreamAgrees, ReplyNext \/ UNCHANGED replyVars
  PROVE  ReplyInv' /\ StreamAgrees'
<1>1. ASSUME NEW r, NEW p, Post(r, p)
      PROVE  ReplyInv' /\ StreamAgrees'
  <2>1. /\ phase = "idle" /\ phase' \in {"generate", "rejected"}
        /\ UNCHANGED <<written, sent>>
    BY <1>1 DEF Post
  <2> QED BY <2>1 DEF ReplyInv, StreamAgrees
<1>2. ASSUME NEW piece, Write(piece)
      PROVE  ReplyInv' /\ StreamAgrees'
  BY <1>2, WriteSends DEF StreamAgrees
<1>3. CASE \/ WriteProse \/ WriteEndThink \/ WriteGarbage
          \/ \E call \in Calls : WriteCall(call)
  BY <1>2, <1>3 DEF WriteProse, WriteEndThink,
                    WriteGarbage, WriteCall
<1>4. CASE Stop
  <2>1. /\ phase = "generate" /\ phase' = "end"
        /\ UNCHANGED <<req, written, sent>>
    BY <1>4 DEF Stop
  <2> QED BY <2>1 DEF ReplyInv, StreamAgrees
<1>5. CASE ReplyOnce
  <2>1. /\ phase = "end" /\ phase' = "done" /\ ~req.stream
        /\ UNCHANGED <<req, written, sent>>
    BY <1>5 DEF ReplyOnce
  <2> QED BY <2>1 DEF ReplyInv, StreamAgrees
<1>6. CASE ReplyStream
  <2>1. /\ phase = "end" /\ phase' = "done"
        /\ UNCHANGED <<req, written, sent>>
    BY <1>6 DEF ReplyStream
  <2>2. ReplyInv'
    BY <2>1 DEF ReplyInv
  <2> QED BY <1>6, <2>2, LastDelta
<1>7. CASE NextRequest
  <2>1. phase' = "idle" /\ written' = <<>> /\ sent' = <<>>
    BY <1>7 DEF NextRequest
  <2> QED BY <2>1 DEF ReplyInv, StreamAgrees
<1>8. CASE UNCHANGED replyVars
  BY <1>8, StutterReply
<1> QED BY <1>1, <1>3, <1>4, <1>5, <1>6, <1>7, <1>8 DEF ReplyNext

(* "buffer the full response and parse once, same as the non-streaming     *)
(* path": whatever the model writes and whatever the parsers make of it, a *)
(* client that collects the deltas of a stream has the content, the calls  *)
(* and the finish reason of the plain reply, in all but the two cases the  *)
(* property names.                                                         *)
THEOREM StreamsAgree == ReplySpec => []StreamAgrees
<1>1. ReplyInit => ReplyInv /\ StreamAgrees
  BY DEF ReplyInit, ReplyInv, StreamAgrees
<1>2. ReplyInv /\ StreamAgrees /\ [ReplyNext]_replyVars
        => ReplyInv' /\ StreamAgrees'
  BY ReplyKept
<1> QED BY <1>1, <1>2, PTL DEF ReplySpec

=============================================================================
