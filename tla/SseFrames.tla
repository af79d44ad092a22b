------------------------------ MODULE SseFrames ------------------------------
(* Server-sent events on the wire, between the body that sse.rs generates and  *)
(* the benchmark client that splits it again.                                  *)
(*                                                                             *)
(* The wire carries symbols: line ends, and lines that are never cut in a way  *)
(* that matters, since JSON escapes the line ends inside them.                 *)
EXTENDS Naturals, SequencesExt

LF == [line |-> "\n"]
CR == [line |-> "\r"]
Comment == [line |-> ":"]           \* axum's keep-alive comment
ErrorEvent == [line |-> "event: error"]

\* The "data:" lines of openai_stream, by what their JSON tells a client apart.
TokenData(text) == [data |-> "text", text |-> text]    \* finish_reason null
FinalData(text, reason) == [data |-> "final", text |-> text, reason |-> reason]
ErrorData == [data |-> "error"]                        \* no "choices"
DoneData == [data |-> "[DONE]"]

IsData(line) == "data" \in DOMAIN line

Frame(line) ==
  CASE line = ErrorData -> <<ErrorEvent, LF, ErrorData, LF, LF>>
    [] OTHER            -> <<line, LF, LF>>

-----------------------------------------------------------------------------
(* The client's side.                                                          *)

Delimiters == {<<LF, LF>>, <<CR, LF, CR, LF>>}

\* The places <<n, d>> where a delimiter d follows the first n symbols.
Delimited(buffer) ==
  {at \in (0..Len(buffer)) \X Delimiters :
     /\ at[1] + Len(at[2]) <= Len(buffer)
     /\ SubSeq(buffer, at[1] + 1, at[1] + Len(at[2])) = at[2]}

\* sse_frame_boundary: where the first frame of the buffer ends and the next one
\* begins, or nothing.
Boundary(buffer) ==
  LET ends == {<<at[1], at[1] + Len(at[2])>> : at \in Delimited(buffer)}
  IN  {e \in ends : \A f \in ends : e[1] <= f[1]}
=============================================================================
