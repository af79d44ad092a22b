--------------------------- MODULE MCResponseStream ---------------------------
(* Tokens that end inside a character or finish one and go on, and stops that  *)
(* overlap each other, begin inside a token or contain a character.            *)
EXTENDS ResponseStream

MCTokens == {<<"x">>, <<"y">>, <<Lead>>, <<Continuation, "x">>, <<"x", "y">>}

MCStopChoices ==
  {{}, {<<"x">>, <<"y">>}, {<<"x", "y", "x">>, <<"y", "y">>}, {<<"x", TwoByte, "x">>, <<"x", "x">>},
   {<<TwoByte>>, <<"y", "x">>}, {<<Replacement, "x">>, <<"x", "x", "y">>}}
=============================================================================
