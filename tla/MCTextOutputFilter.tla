-------------------------- MODULE MCTextOutputFilter --------------------------
(* Stops that end in the replacement character, which stands for the rest of a *)
(* character that never came.                                                  *)
EXTENDS TextOutputFilter

MCTokens == {<<"x">>, <<"y">>, <<Lead>>, <<"x", Lead>>, <<Continuation, "x">>}

MCStopChoices == {{<<Replacement>>}, {<<"x", Replacement>>}}
=============================================================================
