---------------------------- MODULE SequenceOutput ----------------------------
(* What a running Sequence of sequence.rs makes of the tokens sampled for it:  *)
(* append_token decides whether the response ends, take_emittable_tokens hands *)
(* out the tokens no stop sequence can claim any more, try_send_tokens delivers*)
(* them and the terminal event together or not at all.  One step is one row of *)
(* the scheduler's decode loop.  Scheduler covers sequences without token-level*)
(* stops, where nothing is ever withheld; here the stops are arbitrary.        *)
EXTENDS Naturals, FiniteSets, SequencesExt

CONSTANTS
  Tokens,            \* token identifiers
  Eos,               \* sampler.eos_token()
  MaxNewTokens,      \* sampler.max_new_tokens()
  StopSets           \* the values sampler.stop_sequences() may have

ASSUME SequenceOutputAssumption ==
  /\ MaxNewTokens \in Nat \ {0}
  /\ StopSets \subseteq SUBSET Seq(Tokens)

VARIABLES
  stops,             \* sampler.stop_sequences()
  generated,         \* generated_tokens
  emitted,           \* emitted_tokens
  finish,            \* finish_reason
  trim,              \* terminal_trim_tokens
  state,             \* SequenceState
  output,            \* tokens the client's channel was given
  terminal           \* terminal event the channel was given

vars == <<stops, generated, emitted, finish, trim, state, output, terminal>>

Init ==
  /\ stops \in StopSets
  /\ generated = <<>> /\ emitted = 0
  /\ finish = "none" /\ trim = 0 /\ state = "running"
  /\ output = <<>> /\ terminal = "none"

-----------------------------------------------------------------------------

NonEmptyStops == {s \in stops : s # <<>>}

\* The last n tokens of g are the first n of s.
EndsWithPrefix(g, s, n) ==
  /\ n <= Len(g) /\ n <= Len(s)
  /\ \A i \in 1..n : g[Len(g) - n + i] = s[i]

\* matched_stop_len: the lengths of the stop sequences g ends with.
MatchedLengths(g) ==
  {n \in 1..Len(g) : \E s \in NonEmptyStops : n = Len(s) /\ EndsWithPrefix(g, s, n)}

\* pending_stop_prefix_len that forgets a prefix of one token.
PendingLengthsLong(g) ==
  {n \in 0..Len(g) : n = 0 \/ (n > 1 /\ \E s \in NonEmptyStops : EndsWithPrefix(g, s, n))}

\* pending_stop_prefix_len: how much of g's end may be the start of a stop.
PendingLengths(g) ==
  {n \in 0..Len(g) : n = 0 \/ \E s \in NonEmptyStops : EndsWithPrefix(g, s, n)}

\* append_token with the limit looked at first.
FinishReasonLengthFirst(g) ==
  IF Len(g) >= MaxNewTokens THEN "length"
  ELSE IF g[Len(g)] = Eos \/ MatchedLengths(g) # {} THEN "stop" ELSE "none"

FinishReason(g) ==
  IF g[Len(g)] = Eos \/ MatchedLengths(g) # {} THEN "stop"
  ELSE IF Len(g) >= MaxNewTokens THEN "length" ELSE "none"

\* The end token is trimmed, a matched stop is not.
TerminalTrimEos(g) == IF MatchedLengths(g) # {} THEN 0 ELSE 1

TerminalTrim(g) == IF MatchedLengths(g) # {} THEN Max(MatchedLengths(g)) ELSE 1

SafeEnd(g, reason) ==
  CASE reason = "stop"   -> Len(g) - TerminalTrim(g)
    [] reason = "length" -> Len(g)
    [] reason = "none"   -> Len(g) - Max(PendingLengths(g))

\* The channel takes what fits: tokens may be lost and the terminal event sent.
DeliverInParts(tokens, reason, room) ==
  /\ output' = IF room THEN output \o tokens ELSE output
  /\ terminal' = reason

\* try_send_tokens: all of it or, when the channel is full or closed, none.
Deliver(tokens, reason, room) ==
  IF room THEN output' = output \o tokens /\ terminal' = reason
          ELSE UNCHANGED <<output, terminal>>

Row(token, room) ==
  LET g      == Append(generated, token)
      reason == FinishReason(g)
      end    == SafeEnd(g, reason)
      tokens == SubSeq(g, emitted + 1, end)
  IN  /\ state = "running"
      /\ generated' = g
      /\ finish' = reason
      /\ trim' = IF reason = "stop" THEN TerminalTrim(g) ELSE trim
      /\ emitted' = end
      /\ tokens = <<>> /\ reason = "none" => room
      /\ Deliver(tokens, reason, room)
      /\ state' = IF reason # "none" THEN "finished" ELSE IF room THEN "running" ELSE "cancelled"
      /\ UNCHANGED stops

\* cancel() and fail() that forget to look whether the sequence is done.
EndAnyTime(how) ==
  /\ state # how
  /\ state' = how
  /\ UNCHANGED <<stops, generated, emitted, finish, trim, output, terminal>>

\* cancel() and fail(), by the loop when the client is gone or the batch failed.
End(how) ==
  /\ state = "running"
  /\ state' = how
  /\ UNCHANGED <<stops, generated, emitted, finish, trim, output, terminal>>

Next ==
  \/ \E token \in Tokens, room \in BOOLEAN : Row(token, room)
  \/ \E how \in {"cancelled", "failed"} : End(how)

Spec == Init /\ [][Next]_vars

-----------------------------------------------------------------------------
(* Properties.                                                                 *)

TypeOK ==
  /\ stops \subseteq Seq(Tokens)
  /\ generated \in Seq(Tokens) /\ Len(generated) <= MaxNewTokens
  /\ emitted \in 0..Len(generated) /\ trim \in 0..Len(generated)
  /\ finish \in {"none", "stop", "length"} /\ terminal \in {"none", "stop", "length"}
  /\ state \in {"running", "finished", "cancelled", "failed"}
  /\ output \in Seq(Tokens)

(* The slice emitted_tokens..safe_end of take_emittable_tokens never has its   *)
(* bounds the wrong way round, whatever stops overlap: what was handed out is  *)
(* never claimed by a stop that completes later.  In the code it would panic.  *)
SliceInBounds == [][emitted <= emitted']_vars

\* s occurs in g.
Occurs(s, g) == \E i \in 0..(Len(g) - Len(s)) : \A j \in DOMAIN s : g[i + j] = s[j]

(* The client never sees a whole stop sequence, nor the end-of-sequence token, *)
(* not even one spread over several updates or released at the token limit.    *)
NoStopDelivered ==
  /\ \A s \in NonEmptyStops : Len(s) <= Len(output) => ~Occurs(s, output)
  /\ Eos \notin Range(output)

(* What is withheld from a running client is the start of some stop sequence,  *)
(* and a client told the reason its response ended has all of it.              *)
NothingWithheldForNothing ==
  /\ state = "running" =>
       /\ output = SubSeq(generated, 1, emitted)
       /\ emitted = Len(generated)
          \/ \E s \in NonEmptyStops : EndsWithPrefix(generated, s, Len(generated) - emitted)
  /\ terminal = "length" => output = generated /\ Len(generated) = MaxNewTokens
  /\ terminal = "stop" => output = SubSeq(generated, 1, Len(generated) - trim)

\* The response the tokens of g stand for: g up to its first end, less the
\* longest stop sequence it ends with there.
EndsAt(g, n) ==
  \/ g[n] = Eos \/ n = MaxNewTokens
  \/ \E s \in NonEmptyStops : EndsWithPrefix(SubSeq(g, 1, n), s, Len(s))

Stopped(g, n) ==
  {k \in 0..n : \/ g[n] = Eos /\ k = n - 1
                \/ \E s \in NonEmptyStops : k + Len(s) = n /\ SubSeq(g, k + 1, n) = s}

Response(g) ==
  LET n == CHOOSE n \in DOMAIN g : EndsAt(g, n) /\ \A m \in 1..(n - 1) : ~EndsAt(g, m)
  IN  IF Stopped(g, n) = {} THEN SubSeq(g, 1, n) ELSE SubSeq(g, 1, Min(Stopped(g, n)))

(* A finished response that was delivered is the one a single pass over all    *)
(* its tokens gives: deciding and trimming token by token loses nothing.       *)
IncrementalIsWhole ==
  terminal # "none" => output = Response(generated)

(* A terminal event is only ever delivered for the reason the response ended,  *)
(* and a response that ended is never relabelled by a late cancel or failure.  *)
TerminalIsTrue ==
  /\ terminal # "none" => terminal = finish
  /\ finish # "none" <=> state = "finished"
=============================================================================
