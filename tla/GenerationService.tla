-------------------------- MODULE GenerationService --------------------------
(* What the server promises about one generation request, whichever engine     *)
(* serves it: the response is the model's tokens, each once and in order, with *)
(* at most one terminal event, the last, which tells the truth about them; and *)
(* the cancellation counter counts a request at most once, and only one whose  *)
(* response was given up.  Requests do not depend on each other here.          *)
EXTENDS Naturals, SequencesExt

CONSTANTS
  Requests,          \* requests that may be submitted
  MaxNew             \* max_tokens of each request

VARIABLES
  response           \* the state of each request's response

Token(n) == [kind |-> "token", n |-> n]
Terminal(why) == [kind |-> why, n |-> 0]

New == [status |-> "new", made |-> 0, flight |-> <<>>, read |-> 0, counted |-> 0]

Init == response = [r \in Requests |-> New]

\* A terminal event is under way or has arrived: nothing may follow it.
Concluded(p) ==
  \/ p.status \in {"stop", "length", "error", "ended"}
  \/ p.flight # <<>> /\ Last(p.flight).kind # "token"

GivenUp(p) == p.counted > 0

Admissions(p) ==
  IF p.status # "new" THEN {}
  ELSE {[p EXCEPT !.status = s] : s \in {"open", "unavailable", "queueFull"}}

\* The engine makes a token, alone or with the event that the limit is reached;
\* or the end-of-sequence token, which is not shown; or it fails.
Productions(p, limit) ==
  IF p.status \notin {"open", "matched"} \/ Concluded(p) \/ GivenUp(p) THEN {}
  ELSE LET n == p.made + 1
           then == IF n = limit THEN <<Token(n), Terminal("length")>> ELSE <<Token(n)>>
       IN  {[p EXCEPT !.flight = Append(@, Terminal("error"))]}
           \cup (IF n > limit THEN {}
                 ELSE {[p EXCEPT !.made = n, !.flight = @ \o then],
                       [p EXCEPT !.made = n, !.flight = Append(@, Terminal("stop"))]})

\* The engine gives the response up and counts it, possibly for a token that it
\* has just made and cannot deliver.
Losses(p) ==
  IF p.status \notin {"open", "matched", "stopText", "gone"} \/ Concluded(p) \/ GivenUp(p) THEN {}
  ELSE {[p EXCEPT !.counted = 1, !.made = n] : n \in {p.made, p.made + 1}}

\* The handler reads what is under way in order, and may find a textual stop.
Readings(p) ==
  IF p.status # "open" \/ p.flight = <<>> THEN {}
  ELSE IF Head(p.flight).kind = "token"
    THEN {[p EXCEPT !.flight = Tail(@), !.read = Head(p.flight).n, !.status = s] : s \in {"open", "matched"}}
    ELSE {[p EXCEPT !.flight = <<>>, !.status = Head(p.flight).kind]}

\* The receiver goes with a client that leaves, after a match, or when the
\* sender was dropped and there is nothing left to read.
Endings(p) ==
  (IF p.status = "matched" THEN {[p EXCEPT !.status = "stopText", !.flight = <<>>]} ELSE {})
  \cup (IF p.status = "open" THEN {[p EXCEPT !.status = "gone", !.flight = <<>>]} ELSE {})
  \cup (IF p.status = "open" /\ p.flight = <<>> THEN {[p EXCEPT !.status = "ended"]} ELSE {})

Moves(p, limit) == Admissions(p) \cup Productions(p, limit) \cup Losses(p) \cup Readings(p) \cup Endings(p)

\* One step of an engine may concern several requests.
Next ==
  /\ DOMAIN response' = Requests
  /\ \A r \in Requests : response'[r] # response[r] => response'[r] \in Moves(response[r], MaxNew[r])

Spec == Init /\ [][Next]_response
=============================================================================
