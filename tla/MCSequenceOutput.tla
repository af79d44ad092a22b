--------------------------- MODULE MCSequenceOutput ---------------------------
(* Every pair of stop sequences of up to three tokens over two letters, with   *)
(* the empty one and two that hold the end token, and every response of up to  *)
(* five tokens.                                                                *)
EXTENDS SequenceOutput

Letters == {"x", "y"}
MCTokens == Letters \cup {"eos"}
MCStops == UNION {[1..n -> Letters] : n \in 0..3} \cup {<<"eos">>, <<"x", "eos">>}
MCStopSets == {{s, t} : s, t \in MCStops} \cup {{}}
=============================================================================
