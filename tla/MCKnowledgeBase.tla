--------------------------- MODULE MCKnowledgeBase --------------------------
(* KnowledgeBase with files of different lengths.                          *)
EXTENDS KnowledgeBase

CONSTANTS short, long

TwoFiles   == {short, long}
TwoLengths == [f \in TwoFiles |-> IF f = short THEN 1 ELSE 3]
=============================================================================
