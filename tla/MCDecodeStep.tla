----------------------------- MODULE MCDecodeStep -----------------------------
(* Four requests of different lengths and options for two slots and a model of *)
(* two layers; rows of logits with ties, gaps and both NaNs.                   *)
EXTENDS DecodeStep

CONSTANTS r1, r2, r3, r4

MCRequests == {r1, r2, r3, r4}
MCPrompt == (r1 :> <<1, 2, 3>>) @@ (r2 :> <<2>>) @@ (r3 :> <<3>>) @@ (r4 :> <<2>>)
MCMaxNew == (r1 :> 1) @@ (r2 :> 2) @@ (r3 :> 1) @@ (r4 :> 1)

Part(parts, of) == [parts |-> parts, of |-> of]
\* Greedy; a top_p that cuts; one that is so close to 1 that it does not; and
\* one below what is honoured.
MCOptions ==
  (r1 :> [greedy |-> TRUE,  topK |-> 3, topP |-> Part(1, 1)]) @@
  (r2 :> [greedy |-> FALSE, topK |-> 2, topP |-> Part(1, 2)]) @@
  (r3 :> [greedy |-> FALSE, topK |-> 3, topP |-> Part(6, 7)]) @@
  (r4 :> [greedy |-> FALSE, topK |-> 4, topP |-> Part(1, 5)])

MCRows ==
  {<<2, 1, 0>>, <<1, 1, 1, 1>>, <<0, 5, 4>>,
   <<PositiveNaN, 0, 1>>, <<2, NegativeNaN, 2>>}

MCWeights == (0 :> 4) @@ (1 :> 2) @@ (2 :> 1)
=============================================================================
