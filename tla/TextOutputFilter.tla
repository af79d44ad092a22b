--------------------------- MODULE TextOutputFilter ---------------------------
(* The textual stop filter of sse.rs between the model's tokens and the client:*)
(* every token is decoded with all those before it, the tail that may be half a*)
(* character is set aside, and what could still be the start of a stop sequence*)
(* is held back.  Both handlers, streaming and collecting, drive it this way.  *)
(*                                                                             *)
(* A token is a few bytes.  The bytes are ASCII letters, the lead byte of a    *)
(* two-byte character and its continuation byte; decoding replaces whatever is *)
(* not a character by the replacement character.  Positions count characters,  *)
(* which is where the code's byte offsets always fall.                         *)
EXTENDS Naturals, FiniteSets, SequencesExt

CONSTANTS
  Tokens,            \* the bytes of each token
  StopChoices,       \* lists of stops a request may carry, as sets of texts
  MaxTokens          \* max_tokens of the request

Lead == "lead"
Continuation == "cont"
TwoByte == "two"         \* the character Lead and Continuation encode
Replacement == "fffd"    \* U+FFFD

ASSUME TextOutputFilterAssumption ==
  /\ MaxTokens \in Nat
  /\ Tokens \subseteq Seq(STRING) \ {<<>>}
  /\ \A choice \in StopChoices : choice \subseteq Seq(STRING)

VARIABLES
  stops,             \* TextOutputFilter.stops
  bytes,             \* the bytes of the tokens received
  received,          \* how many tokens those are
  emitted,           \* TextOutputFilter.emitted: the text the client was given
  status             \* "open", or how the handler ended

vars == <<stops, bytes, received, emitted, status>>

Init ==
  /\ stops \in StopChoices
  /\ bytes = <<>> /\ received = 0 /\ emitted = <<>> /\ status = "open"

-----------------------------------------------------------------------------
(* Decoding, as String::from_utf8_lossy.                                       *)

StartsCharacter(b, i) == b[i] # Continuation \/ i = 1 \/ b[i - 1] # Lead

CharacterAt(b, i) ==
  CASE b[i] = Lead /\ i < Len(b) -> IF b[i + 1] = Continuation THEN TwoByte ELSE Replacement
    [] b[i] = Lead /\ i = Len(b) -> Replacement
    [] b[i] = Continuation       -> Replacement
    [] OTHER                     -> b[i]

\* The characters that begin in the first n bytes.
Decoding(b) ==
  LET text[n \in 0..Len(b)] ==
        IF n = 0 THEN <<>>
        ELSE IF StartsCharacter(b, n) THEN Append(text[n - 1], CharacterAt(b, n)) ELSE text[n - 1]
  IN  text

Decode(b) == Decoding(b)[Len(b)]

\* The decoded text as it is, or with one trailing replacement removed.
StableRaw(text) == text

\* trim_end_matches('\u{fffd}').
Stable(text) ==
  LET kept == {n \in 0..Len(text) : n = 0 \/ text[n] # Replacement} IN SubSeq(text, 1, Max(kept))

-----------------------------------------------------------------------------
(* The filter.                                                                 *)

NonEmptyStops == {s \in stops : s # <<>>}

OccursAt(s, text, n) == n + Len(s) <= Len(text) /\ \A i \in DOMAIN s : text[n + i] = s[i]

\* Where the stops begin, an offset being the characters before it.
StopOffsets(text) == {n \in 0..Len(text) : \E s \in NonEmptyStops : OccursAt(s, text, n)}

\* As many characters as the longest stop has, whatever they are.
HeldBlindly(text) == Min({Len(text), Max({0} \cup {Len(s) : s \in stops})})

\* How much of the end of the text some stop begins with.
Held(text) ==
  Max({n \in 0..Len(text) :
         n = 0 \/ \E s \in NonEmptyStops :
                    n <= Len(s) /\ OccursAt(SubSeq(s, 1, n), text, Len(text) - n)})

\* The last of the stops.
StopAtLast(text) == Max(StopOffsets(text))

StopAt(text) == Min(StopOffsets(text))

Fail == status' = "error" /\ UNCHANGED emitted

Expose(text, n) == emitted' = SubSeq(text, 1, n)

\* push(): a stop in the new text ends the response, and otherwise all but the
\* held tail is exposed.
PushText(text) ==
  IF ~IsPrefix(emitted, text) THEN Fail
  ELSE IF StopOffsets(text) # {}
    THEN IF StopAt(text) < Len(emitted) THEN Fail
         ELSE Expose(text, StopAt(text)) /\ status' = "stop"
    ELSE IF Len(text) - Held(text) < Len(emitted) THEN Fail
         ELSE Expose(text, Len(text) - Held(text)) /\ UNCHANGED status

\* finish(): the response ended for a reason of its own and the tail is released.
FinishText(text) == IF IsPrefix(emitted, text) THEN status' = "finished" /\ emitted' = text
                                               ELSE Fail

\* A StreamItem::Token.
PushToken(token) ==
  /\ status = "open" /\ received < MaxTokens
  /\ bytes' = bytes \o token /\ received' = received + 1
  /\ \E text \in {Stable(Decode(bytes \o token))} : PushText(text)
  /\ UNCHANGED stops

\* A StreamItem::Finished, after any number of tokens up to max_tokens.
Finish ==
  /\ status = "open"
  /\ \E text \in {Decode(bytes)} : FinishText(text)
  /\ UNCHANGED <<stops, bytes, received>>

Next == Finish \/ \E token \in Tokens : PushToken(token)

Spec == Init /\ [][Next]_vars

-----------------------------------------------------------------------------
(* Properties.                                                                 *)

Text == Decode(bytes)

(* Text is only ever held while it is the beginning of a stop or the remains of*)
(* an unfinished character.                                                    *)
HeldForAReason ==
  status = "open" =>
    LET text == Stable(Text)
        held == SubSeq(text, Len(emitted) + 1, Len(text))
    IN  held = <<>> \/ \E s \in NonEmptyStops : IsPrefix(held, s) /\ held # s

(* sse.rs:22-24: "text that is safe to expose.  Trailing text that could still *)
(* become a stop sequence is held until it either matches or becomes ordinary  *)
(* output": the client is never shown a stop sequence.                         *)
NoStopExposed == \A s \in NonEmptyStops : \A n \in 0..Len(emitted) : ~OccursAt(s, emitted, n)
=============================================================================
