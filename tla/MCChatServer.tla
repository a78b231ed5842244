---------------------------- MODULE MCChatServer ----------------------------
(* Small instances of ChatServer: one request that can receive every text  *)
(* of three fragments among short ones.                                     *)
EXTENDS ChatServer

CONSTANTS r1

MCMaxNewTokens == [r \in Requests |-> IF r = r1 THEN 3 ELSE 1]

=============================================================================
