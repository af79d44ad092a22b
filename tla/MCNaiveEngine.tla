---------------------------- MODULE MCNaiveEngine ----------------------------
(* Two requests that wait for each other's model, and three for one owner and  *)
(* one place behind it, so that one can be refused; a asks for two tokens.     *)
EXTENDS NaiveService

CONSTANTS a, b, c

MCPair == {a, b}
MCTrio == {a, b, c}
MCTwoTokens == [r \in Requests |-> 2]
MCTwoForA == [r \in Requests |-> IF r = a THEN 2 ELSE 1]
MCQuitters == {a}
MCStoppers == {b}
=============================================================================
