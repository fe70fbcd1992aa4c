----------------------------- MODULE MCChatGraph -----------------------------
(* ChatGraph with three requests of one web session, whose clients may     *)
(* leave; and with one web and one QQ request.                             *)
EXTENDS ChatGraph, TLC

CONSTANTS a1, a2, a3, b1, sa, sb

WebOnly          == {a1, a2, a3}
WebSession       == {sa}
WebOnlySessionOf == [r \in WebOnly |-> sa]

OneEach          == {a1, b1}
OneWeb           == {a1}
BothSessions     == {sa, sb}
OneEachSessionOf == (a1 :> sa) @@ (b1 :> sb)

Interchangeable == Permutations(WebOnly)
=============================================================================
