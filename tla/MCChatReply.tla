----------------------------- MODULE MCChatReply -----------------------------
(* Calls without arguments, with a number, and with a string that looks    *)
(* like one.                                                                *)
EXTENDS ChatReply
Str(w) == [type |-> "string", word |-> <<Text(w)>>]
Num == [type |-> "number", word |-> <<Text("num")>>]
Key(w) == <<Text(w)>>
MCCalls == {[name |-> Key("w"), args |-> <<>>],
            [name |-> Key("w"), args |-> (Key("k") :> Str("num"))],
            [name |-> Key("w"), args |-> (Key("j") :> Num)
                                           @@ (Key("k") :> Str("nan"))]}
MCTyped == (Key("w") :> {Key("k")})
=============================================================================
