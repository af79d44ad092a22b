---------------------------- MODULE MCRequestQueue ----------------------------
(* Four requests of two priorities for a queue of three and a batch of one, so *)
(* that the queue fills, the entry of one that left makes room, and ties are   *)
(* broken.                                                                     *)
EXTENDS RequestQueue

CONSTANTS a, b, c, d

MCRequests == {a, b, c, d}
MCFirst == {a}
MCPriority == [r \in Requests |-> IF r \in {a, c} THEN 1 ELSE 0]
===============================================================================
