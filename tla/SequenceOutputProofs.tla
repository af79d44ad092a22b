------------------------- MODULE SequenceOutputProofs -------------------------
(* Machine-checked proofs about SequenceOutput, for every set of stop sequences*)
(* and every response: the slice of take_emittable_tokens is well formed, no   *)
(* stop sequence reaches the client, and what is withheld is withheld for a    *)
(* stop that may still come.  The argument rests on one fact about strings: if *)
(* g and a token end with the first n + 1 tokens of s, g ends with the first n.*)
EXTENDS SequenceOutput, SequenceTheorems, FiniteSetTheorems, TLAPS

-----------------------------------------------------------------------------
(* Greatest elements.                                                          *)

(* Every non-empty set of naturals has a least element: the set 0..x is smallest*)
(* by inclusion, and inclusion of finite sets is well founded.                 *)
LEMMA LeastOfNaturals ==
  ASSUME NEW S, S \subseteq Nat, S # {}
  PROVE  \E x \in S : \A y \in S : x <= y
  <1> DEFINE Initials == {0..x : x \in S}
  <1>1. Initials \subseteq FiniteSubsetsOf(Nat)
    <2> SUFFICES ASSUME NEW x \in S PROVE 0..x \in FiniteSubsetsOf(Nat)
      OBVIOUS
    <2>1. IsFiniteSet(0..x)
      BY FS_Interval
    <2> QED BY <2>1 DEF FiniteSubsetsOf
  <1>2. Initials # {}
    OBVIOUS
  <1>3. \E I \in Initials : \A J \in Initials : ~ (<<J, I>> \in StrictSubsetOrdering(Nat))
    <2> HIDE DEF Initials
    <2> QED BY <1>1, <1>2, WFMin, FS_StrictSubsetOrderingWellFounded
  <1>4. PICK x \in S : \A y \in S : ~ (<<0..y, 0..x>> \in StrictSubsetOrdering(Nat))
    BY <1>3
  <1>5. ASSUME NEW y \in S, y < x PROVE FALSE
    <2>1. 0..y \subseteq 0..x /\ 0..y # 0..x /\ 0..y \in SUBSET Nat /\ 0..x \in SUBSET Nat
      BY <1>5
    <2>2. <<0..y, 0..x>> \in StrictSubsetOrdering(Nat)
      BY <2>1 DEF StrictSubsetOrdering
    <2> QED BY <1>4, <2>2
  <1> QED BY <1>5

(* Max of a non-empty set of naturals with a bound is its greatest element.    *)
LEMMA MaxOfBounded ==
  ASSUME NEW n \in Nat, NEW S, S \subseteq 0..n, S # {}
  PROVE  Max(S) \in S /\ \A y \in S : y <= Max(S)
  <1> DEFINE T == {n - y : y \in S}
  <1>1. T \subseteq Nat /\ T # {}
    <2>1. \A y \in S : n - y \in Nat
      OBVIOUS
    <2> QED BY <2>1
  <1>2. \E t \in T : \A u \in T : t <= u
    <2> HIDE DEF T
    <2> QED BY <1>1, LeastOfNaturals
  <1>3. PICK x \in S : \A y \in S : n - x <= n - y
    BY <1>2
  <1>4. \E z \in S : \A y \in S : z >= y
    BY <1>3
  <1>5. Max(S) \in S /\ \A y \in S : Max(S) >= y
    BY <1>4 DEF Max
  <1> QED BY <1>5

-----------------------------------------------------------------------------
(* The two lengths the code computes, before and after one more token.         *)

LEMMA PendingProperties ==
  ASSUME NEW g \in Seq(Tokens)
  PROVE  /\ Max(PendingLengths(g)) \in PendingLengths(g)
         /\ Max(PendingLengths(g)) \in 0..Len(g)
         /\ \A n \in PendingLengths(g) : n <= Max(PendingLengths(g))
  <1>1. PendingLengths(g) \subseteq 0..Len(g) /\ 0 \in PendingLengths(g)
    BY DEF PendingLengths
  <1> QED BY <1>1, MaxOfBounded

LEMMA TrimProperties ==
  ASSUME NEW g \in Seq(Tokens), Len(g) > 0
  PROVE  /\ TerminalTrim(g) \in 1..Len(g)
         /\ MatchedLengths(g) # {} => TerminalTrim(g) \in MatchedLengths(g)
         /\ MatchedLengths(g) = {} => TerminalTrim(g) = 1
  <1>1. MatchedLengths(g) \subseteq 0..Len(g) /\ MatchedLengths(g) \subseteq 1..Len(g)
    BY DEF MatchedLengths
  <1>2. CASE MatchedLengths(g) # {}
    BY <1>1, <1>2, MaxOfBounded DEF TerminalTrim
  <1>3. CASE MatchedLengths(g) = {}
    BY <1>3 DEF TerminalTrim
  <1> QED BY <1>2, <1>3

(* If g and one more token end with the first n + 1 tokens of s, then g ends   *)
(* with the first n of them.                                                   *)
LEMMA PrefixShrinks ==
  ASSUME NEW g \in Seq(Tokens), NEW token \in Tokens, NEW s \in Seq(Tokens), NEW n \in Nat,
         EndsWithPrefix(Append(g, token), s, n + 1)
  PROVE  EndsWithPrefix(g, s, n)
  <1> DEFINE h == Append(g, token)
  <1>1. /\ h \in Seq(Tokens) /\ Len(h) = Len(g) + 1
        /\ \A i \in 1..Len(g) : h[i] = g[i]
    BY AppendProperties
  <1> HIDE DEF h
  <1>2. /\ n + 1 <= Len(h) /\ n + 1 <= Len(s)
        /\ \A i \in 1..(n + 1) : h[Len(h) - (n + 1) + i] = s[i]
    BY DEF EndsWithPrefix, h
  <1>3. Len(g) \in Nat /\ Len(s) \in Nat
    OBVIOUS
  <1>4. ASSUME NEW i \in 1..n PROVE g[Len(g) - n + i] = s[i]
    <2>1. h[Len(h) - (n + 1) + i] = s[i]
      BY <1>2
    <2>2. Len(h) - (n + 1) + i = Len(g) - n + i /\ Len(g) - n + i \in 1..Len(g)
      BY <1>1, <1>2, <1>3
    <2> QED BY <1>1, <2>1, <2>2
  <1> QED BY <1>1, <1>2, <1>3, <1>4 DEF EndsWithPrefix

(* The number of tokens that may be handed out never falls, and never exceeds  *)
(* the number generated.                                                       *)
LEMMA SafeEndGrows ==
  ASSUME stops \subseteq Seq(Tokens), NEW g \in Seq(Tokens), NEW token \in Tokens,
         NEW h, h = Append(g, token), NEW reason, reason = FinishReason(h)
  PROVE  /\ SafeEnd(h, reason) \in Nat
         /\ Len(g) - Max(PendingLengths(g)) <= SafeEnd(h, reason)
         /\ SafeEnd(h, reason) <= Len(h)
         /\ reason = "stop" => SafeEnd(h, reason) < Len(h)
  <1>1. h \in Seq(Tokens) /\ Len(h) = Len(g) + 1 /\ Len(h) > 0 /\ Len(g) \in Nat
    BY AppendProperties
  <1>2. /\ Max(PendingLengths(g)) \in 0..Len(g)
        /\ \A n \in PendingLengths(g) : n <= Max(PendingLengths(g))
    BY PendingProperties
  <1>3. ASSUME NEW s \in NonEmptyStops, NEW n \in 1..Len(h), EndsWithPrefix(h, s, n)
        PROVE  n - 1 \in PendingLengths(g)
    <2>1. s \in Seq(Tokens) /\ n - 1 \in Nat /\ (n - 1) + 1 = n /\ n - 1 \in 0..Len(g)
      BY <1>1 DEF NonEmptyStops
    <2>2. EndsWithPrefix(g, s, n - 1)
      BY <1>3, <2>1, PrefixShrinks
    <2> QED BY <2>1, <2>2 DEF PendingLengths
  <1>4. CASE reason = "stop"
    <2>1. SafeEnd(h, reason) = Len(h) - TerminalTrim(h)
      BY <1>4 DEF SafeEnd
    <2>2. TerminalTrim(h) \in 1..Len(h)
      BY <1>1, TrimProperties
    <2>3. TerminalTrim(h) - 1 <= Max(PendingLengths(g))
      <3>1. CASE MatchedLengths(h) # {}
        <4>1. TerminalTrim(h) \in MatchedLengths(h)
          BY <1>1, <3>1, TrimProperties
        <4>2. PICK s \in NonEmptyStops : EndsWithPrefix(h, s, TerminalTrim(h))
          BY <4>1 DEF MatchedLengths
        <4> QED BY <1>2, <1>3, <2>2, <4>2
      <3>2. CASE MatchedLengths(h) = {}
        <4>1. TerminalTrim(h) = 1
          BY <1>1, <3>2, TrimProperties
        <4> QED BY <1>2, <4>1
      <3> QED BY <3>1, <3>2
    <2> QED BY <1>1, <1>2, <2>1, <2>2, <2>3
  <1>5. CASE reason = "length"
    <2>1. SafeEnd(h, reason) = Len(h)
      BY <1>5 DEF SafeEnd
    <2> QED BY <1>1, <1>2, <1>5, <2>1
  <1>6. CASE reason = "none"
    <2>1. SafeEnd(h, reason) = Len(h) - Max(PendingLengths(h))
      BY <1>6 DEF SafeEnd
    <2>2. /\ Max(PendingLengths(h)) \in PendingLengths(h)
          /\ Max(PendingLengths(h)) \in 0..Len(h)
      BY <1>1, PendingProperties
    <2>3. Max(PendingLengths(h)) - 1 <= Max(PendingLengths(g))
      <3>1. CASE Max(PendingLengths(h)) = 0
        BY <1>2, <3>1
      <3>2. CASE Max(PendingLengths(h)) # 0
        <4>1. PICK s \in NonEmptyStops : EndsWithPrefix(h, s, Max(PendingLengths(h)))
          BY <2>2, <3>2 DEF PendingLengths
        <4> QED BY <1>2, <1>3, <2>2, <3>2, <4>1
      <3> QED BY <3>1, <3>2
    <2> QED BY <1>1, <1>2, <1>6, <2>1, <2>2, <2>3
  <1>7. reason \in {"stop", "length", "none"}
    BY DEF FinishReason
  <1> QED BY <1>4, <1>5, <1>6, <1>7

-----------------------------------------------------------------------------
(* The inductive invariant.                                                    *)

StopEndsAt(g, s, n) ==
  /\ Len(s) <= n
  /\ \A i \in 1..Len(s) : g[n - Len(s) + i] = s[i]

GoesOn(g, n) == g[n] # Eos /\ \A s \in NonEmptyStops : ~StopEndsAt(g, s, n)

\* Only the last token of a response ended by a stop may have ended it.
NoEarlyEnd ==
  \A n \in 1..Len(generated) : n < Len(generated) \/ finish # "stop" => GoesOn(generated, n)

RunningPart ==
  state = "running" =>
    /\ finish = "none" /\ terminal = "none" /\ Len(generated) < MaxNewTokens
    /\ emitted = Len(generated) - Max(PendingLengths(generated))
    /\ output = SubSeq(generated, 1, emitted)

OutputIsPrefix ==
  /\ Len(output) <= Len(generated) /\ output = SubSeq(generated, 1, Len(output))
  /\ finish = "stop" => Len(output) < Len(generated)

TerminalPart ==
  /\ terminal = "length" => output = generated /\ Len(generated) = MaxNewTokens
  /\ terminal = "stop" => output = SubSeq(generated, 1, Len(generated) - trim)

\* A response has ended for what its last token completed.
EndPart ==
  /\ finish = "stop" =>
       /\ Len(generated) > 0 /\ trim = TerminalTrim(generated)
       /\ generated[Len(generated)] = Eos \/ MatchedLengths(generated) # {}
  /\ finish = "length" => Len(generated) = MaxNewTokens

OutputInv ==
  /\ TypeOK /\ NoEarlyEnd /\ RunningPart /\ OutputIsPrefix /\ TerminalPart /\ TerminalIsTrue
  /\ EndPart

\* append_token found no end: neither the token nor a stop is one.
LEMMA NoEndFound ==
  ASSUME stops \subseteq Seq(Tokens), NEW h \in Seq(Tokens), Len(h) > 0,
         FinishReason(h) # "stop"
  PROVE  GoesOn(h, Len(h))
  <1>1. h[Len(h)] # Eos /\ MatchedLengths(h) = {}
    BY DEF FinishReason
  <1>2. ASSUME NEW s \in NonEmptyStops, StopEndsAt(h, s, Len(h)) PROVE FALSE
    <2>1. s \in Seq(Tokens) /\ s # <<>>
      BY DEF NonEmptyStops
    <2>2. Len(s) \in Nat /\ Len(s) # 0 /\ Len(h) \in Nat
      BY <2>1, EmptySeq
    <2>3. EndsWithPrefix(h, s, Len(s)) /\ Len(s) \in 1..Len(h)
      BY <1>2, <2>2 DEF StopEndsAt, EndsWithPrefix
    <2> QED BY <1>1, <2>3 DEF MatchedLengths
  <1> QED BY <1>1, <1>2 DEF GoesOn

\* What happened at an earlier position is not changed by a later token.
LEMMA GoesOnPreserved ==
  ASSUME stops \subseteq Seq(Tokens), NEW g \in Seq(Tokens), NEW token \in Tokens,
         NEW n \in 1..Len(g), GoesOn(g, n)
  PROVE  GoesOn(Append(g, token), n)
  <1> DEFINE h == Append(g, token)
  <1>1. Len(g) \in Nat /\ \A i \in 1..Len(g) : h[i] = g[i]
    BY AppendProperties
  <1> HIDE DEF h
  <1>2. ASSUME NEW s \in NonEmptyStops, StopEndsAt(h, s, n) PROVE FALSE
    <2>1. Len(s) \in Nat
      BY DEF NonEmptyStops
    <2>2. Len(s) <= n /\ \A i \in 1..Len(s) : h[n - Len(s) + i] = s[i]
      BY <1>2 DEF StopEndsAt
    <2>3. ASSUME NEW i \in 1..Len(s) PROVE g[n - Len(s) + i] = s[i]
      <3>1. n - Len(s) + i \in 1..Len(g)
        BY <1>1, <2>1, <2>2
      <3> QED BY <1>1, <2>2, <3>1
    <2>4. StopEndsAt(g, s, n)
      BY <2>2, <2>3 DEF StopEndsAt
    <2> QED BY <2>4 DEF GoesOn
  <1>3. h[n] # Eos
    BY <1>1 DEF GoesOn
  <1> QED BY <1>2, <1>3 DEF GoesOn, h

LEMMA OutputInit == Init => OutputInv
  <1> SUFFICES ASSUME Init PROVE OutputInv
    OBVIOUS
  <1>1. /\ generated = <<>> /\ output = <<>> /\ emitted = 0 /\ trim = 0
        /\ finish = "none" /\ terminal = "none" /\ state = "running"
        /\ stops \subseteq Seq(Tokens)
    BY SequenceOutputAssumption DEF Init
  <1>2. <<>> \in Seq(Tokens) /\ Len(<<>>) = 0 /\ SubSeq(<<>>, 1, 0) = <<>>
    <2>1. <<>> \in Seq(Tokens) /\ Len(<<>>) = 0
      BY EmptySeq
    <2> QED BY <2>1, SubSeqFull
  <1>3. Max(PendingLengths(generated)) = 0
    <2>1. generated \in Seq(Tokens) /\ Len(generated) = 0
      BY <1>1, <1>2
    <2>2. Max(PendingLengths(generated)) \in 0..Len(generated)
      BY <2>1, PendingProperties
    <2> QED BY <2>1, <2>2
  <1>4. TypeOK
    BY <1>1, <1>2, SequenceOutputAssumption DEF TypeOK
  <1>5. RunningPart
    BY <1>1, <1>2, <1>3, SequenceOutputAssumption DEF RunningPart
  <1>6. NoEarlyEnd /\ OutputIsPrefix /\ TerminalPart /\ TerminalIsTrue
    BY <1>1, <1>2 DEF NoEarlyEnd, OutputIsPrefix, TerminalPart, TerminalIsTrue
  <1>7. EndPart
    BY <1>1 DEF EndPart
  <1> QED BY <1>4, <1>5, <1>6, <1>7 DEF OutputInv

LEMMA RowKeepsInv ==
  ASSUME OutputInv, NEW token \in Tokens, NEW room \in BOOLEAN, Row(token, room)
  PROVE  OutputInv' /\ emitted <= emitted'
  <1> DEFINE g      == generated
             h      == Append(g, token)
             reason == FinishReason(h)
             end    == SafeEnd(h, reason)
             tokens == SubSeq(h, emitted + 1, end)
  <1>1. /\ stops \subseteq Seq(Tokens) /\ g \in Seq(Tokens) /\ output \in Seq(Tokens)
        /\ state = "running" /\ finish = "none" /\ terminal = "none"
        /\ emitted \in 0..Len(g) /\ trim \in 0..Len(g) /\ Len(g) < MaxNewTokens
        /\ emitted = Len(g) - Max(PendingLengths(g))
        /\ output = SubSeq(g, 1, emitted)
    BY DEF OutputInv, TypeOK, RunningPart, Row
  <1>2. /\ generated' = h /\ finish' = reason /\ emitted' = end /\ stops' = stops
        /\ trim' = IF reason = "stop" THEN TerminalTrim(h) ELSE trim
        /\ Deliver(tokens, reason, room)
        /\ state' = IF reason # "none" THEN "finished"
                    ELSE IF room THEN "running" ELSE "cancelled"
    BY DEF Row
  <1>3. /\ h \in Seq(Tokens) /\ Len(h) = Len(g) + 1 /\ Len(h) > 0 /\ Len(g) \in Nat
        /\ \A i \in 1..Len(g) : h[i] = g[i]
    BY <1>1, AppendProperties
  <1>4. reason \in {"none", "stop", "length"}
    BY DEF FinishReason
  <1>5. /\ end \in Nat /\ emitted <= end /\ end <= Len(h)
        /\ reason = "stop" => end < Len(h)
    BY <1>1, SafeEndGrows
  <1>6. reason = "length" => Len(h) = MaxNewTokens /\ end = Len(h)
    BY <1>1, <1>3, SequenceOutputAssumption DEF FinishReason, SafeEnd
  <1>7. reason = "none" => Len(h) < MaxNewTokens /\ end = Len(h) - Max(PendingLengths(h))
    BY <1>1, <1>3, SequenceOutputAssumption DEF FinishReason, SafeEnd
  <1>8. TerminalTrim(h) \in 1..Len(h)
    BY <1>3, TrimProperties
  <1>9. reason = "stop" => end = Len(h) - TerminalTrim(h)
    BY DEF SafeEnd
  <1> HIDE DEF h, reason, end
  <1>10. output = SubSeq(h, 1, emitted)
    <2>1. Len(SubSeq(g, 1, emitted)) = emitted /\ Len(SubSeq(h, 1, emitted)) = emitted
      BY <1>1, <1>3, SubSeqProperties
    <2>2. ASSUME NEW i \in 1..emitted PROVE SubSeq(g, 1, emitted)[i] = SubSeq(h, 1, emitted)[i]
      <3>1. i \in 1..Len(g)
        BY <1>1, <1>3
      <3> QED BY <1>1, <1>3, <3>1
    <2>3. SubSeq(g, 1, emitted) \in Seq(Tokens) /\ SubSeq(h, 1, emitted) \in Seq(Tokens)
      BY <1>1, <1>3
    <2> QED BY <1>1, <2>1, <2>2, <2>3, SeqEqual
  <1>11. output \o tokens = SubSeq(h, 1, end)
    <2>1. emitted \in 0..Len(h) /\ end \in emitted..Len(h) /\ 1 \in 1..(Len(h) + 1)
      BY <1>1, <1>3, <1>5
    <2> QED BY <1>3, <1>10, <2>1, ConcatAdjacentSubSeq
  <1> HIDE DEF tokens
  <1>12. \/ output' = SubSeq(h, 1, end) /\ terminal' = reason /\ room
         \/ output' = SubSeq(h, 1, emitted) /\ terminal' = "none" /\ ~room
    BY <1>1, <1>2, <1>10, <1>11 DEF Deliver
  <1>13. /\ SubSeq(h, 1, end) \in Seq(Tokens) /\ Len(SubSeq(h, 1, end)) = end
         /\ SubSeq(h, 1, emitted) \in Seq(Tokens) /\ Len(SubSeq(h, 1, emitted)) = emitted
    BY <1>1, <1>3, <1>5, SubSeqProperties
  <1>14. TypeOK'
    <2>1. end \in 0..Len(h) /\ Len(h) <= MaxNewTokens /\ trim' \in 0..Len(h)
      BY <1>1, <1>2, <1>3, <1>5, <1>8, SequenceOutputAssumption
    <2> QED BY <1>1, <1>2, <1>3, <1>4, <1>12, <1>13, <2>1 DEF TypeOK
  <1>15. NoEarlyEnd'
    <2>1. ASSUME NEW n \in 1..Len(h), n < Len(h) \/ reason # "stop" PROVE GoesOn(h, n)
      <3>1. CASE n < Len(h)
        <4>1. n \in 1..Len(g) /\ GoesOn(g, n)
          BY <1>1, <1>3, <2>1, <3>1 DEF OutputInv, NoEarlyEnd
        <4> QED BY <1>1, <4>1, GoesOnPreserved DEF h
      <3>2. CASE ~(n < Len(h))
        <4>1. n = Len(h) /\ reason # "stop"
          BY <1>3, <2>1, <3>2
        <4> QED BY <1>1, <1>3, <4>1, NoEndFound DEF reason
      <3> QED BY <3>1, <3>2
    <2>2. \A n \in 1..Len(h) : n < Len(h) \/ reason # "stop" => GoesOn(generated, n)'
      BY <1>2, <2>1 DEF GoesOn, StopEndsAt, NonEmptyStops
    <2> QED BY <1>2, <2>2 DEF NoEarlyEnd
  <1>16. RunningPart'
    <2>1. PendingLengths(generated)' = PendingLengths(h)
      BY <1>2 DEF PendingLengths, NonEmptyStops, EndsWithPrefix
    <2> QED BY <1>2, <1>4, <1>7, <1>12, <2>1 DEF RunningPart
  <1>17. OutputIsPrefix'
    BY <1>1, <1>2, <1>3, <1>5, <1>12, <1>13 DEF OutputIsPrefix
  <1>18. TerminalPart'
    <2>1. SubSeq(h, 1, Len(h)) = h
      BY <1>3, SubSeqFull
    <2> QED BY <1>2, <1>6, <1>9, <1>12, <2>1 DEF TerminalPart
  <1>19. TerminalIsTrue'
    BY <1>2, <1>12 DEF TerminalIsTrue
  <1>20. EndPart'
    <2>1. MatchedLengths(generated)' = MatchedLengths(h)
      BY <1>2 DEF MatchedLengths, NonEmptyStops, EndsWithPrefix
    <2>2. TerminalTrim(generated)' = TerminalTrim(h)
      BY <2>1, <1>2 DEF TerminalTrim
    <2>3. reason = "stop" => h[Len(h)] = Eos \/ MatchedLengths(h) # {}
      BY DEF reason, FinishReason
    <2> QED BY <1>2, <1>3, <1>6, <2>1, <2>2, <2>3 DEF EndPart
  <1> QED BY <1>2, <1>5, <1>14, <1>15, <1>16, <1>17, <1>18, <1>19, <1>20 DEF OutputInv

LEMMA EndKeepsInv ==
  ASSUME OutputInv, NEW how \in {"cancelled", "failed"}, End(how)
  PROVE  OutputInv' /\ emitted <= emitted'
  <1>1. /\ state = "running" /\ state' = how
        /\ UNCHANGED <<stops, generated, emitted, finish, trim, output, terminal>>
    BY DEF End
  <1>2. finish = "none" /\ terminal = "none" /\ emitted \in Nat
    BY <1>1 DEF OutputInv, RunningPart, TypeOK
  <1>3. TypeOK' /\ RunningPart' /\ OutputIsPrefix' /\ TerminalPart' /\ TerminalIsTrue'
    BY <1>1, <1>2 DEF OutputInv, TypeOK, RunningPart, OutputIsPrefix, TerminalPart, TerminalIsTrue
  <1>4. NoEarlyEnd'
    BY <1>1 DEF OutputInv, NoEarlyEnd, GoesOn, StopEndsAt, NonEmptyStops
  <1>5. EndPart'
    BY <1>1, <1>2 DEF EndPart
  <1> QED BY <1>1, <1>2, <1>3, <1>4, <1>5 DEF OutputInv

LEMMA OutputStep == OutputInv /\ [Next]_vars => OutputInv' /\ emitted <= emitted'
  <1> SUFFICES ASSUME OutputInv, [Next]_vars PROVE OutputInv' /\ emitted <= emitted'
    OBVIOUS
  <1>1. CASE UNCHANGED vars
    <2>1. emitted \in Nat
      BY DEF OutputInv, TypeOK
    <2>2. NoEarlyEnd' /\ PendingLengths(generated)' = PendingLengths(generated)
      BY <1>1 DEF OutputInv, NoEarlyEnd, GoesOn, StopEndsAt, NonEmptyStops, PendingLengths,
                  EndsWithPrefix, vars
    <2>3. UNCHANGED <<stops, generated, emitted, finish, trim, state, output, terminal>>
      BY <1>1 DEF vars
    <2>4. TypeOK' /\ TerminalIsTrue'
      BY <2>3 DEF OutputInv, TypeOK, TerminalIsTrue
    <2>5. RunningPart' /\ OutputIsPrefix' /\ TerminalPart'
      BY <2>2, <2>3 DEF OutputInv, RunningPart, OutputIsPrefix, TerminalPart
    <2>6. EndPart'
      <3>1. MatchedLengths(generated)' = MatchedLengths(generated)
        BY <2>3 DEF MatchedLengths, NonEmptyStops, EndsWithPrefix
      <3> QED BY <2>3, <3>1 DEF OutputInv, EndPart, TerminalTrim
    <2> QED BY <2>1, <2>2, <2>3, <2>4, <2>5, <2>6 DEF OutputInv
  <1> QED BY <1>1, RowKeepsInv, EndKeepsInv DEF Next

-----------------------------------------------------------------------------
(* Theorems.                                                                   *)

(* The inductive invariant, for all stop sequences and all responses.          *)
THEOREM OutputInvariant == Spec => []OutputInv
  <1>1. OutputInv /\ [Next]_vars => OutputInv'
    BY OutputStep
  <1> QED BY <1>1, OutputInit, PTL DEF Spec

(* Types, and no response ever has more than max_new_tokens tokens.            *)
THEOREM OutputTypes == Spec => []TypeOK
  <1>1. OutputInv => TypeOK
    BY DEF OutputInv
  <1> QED BY <1>1, OutputInvariant, PTL

(* The slice of take_emittable_tokens never panics: emitted_tokens never has to*)
(* retreat, whatever stop sequences overlap.                                   *)
THEOREM SliceNeverPanics == Spec => SliceInBounds
  <1>1. OutputInv /\ [Next]_vars => [emitted <= emitted']_vars
    BY OutputStep
  <1> QED BY <1>1, OutputInvariant, PTL DEF Spec, SliceInBounds

(* No stop sequence and no end-of-sequence token ever reaches the client.      *)
THEOREM StopsNeverLeak == Spec => []NoStopDelivered
  <1>1. OutputInv => NoStopDelivered
    <2> SUFFICES ASSUME OutputInv PROVE NoStopDelivered
      OBVIOUS
    <2>1. /\ generated \in Seq(Tokens) /\ output \in Seq(Tokens) /\ stops \subseteq Seq(Tokens)
          /\ Len(output) \in Nat /\ Len(generated) \in Nat /\ Len(output) <= Len(generated)
          /\ output = SubSeq(generated, 1, Len(output))
      BY DEF OutputInv, TypeOK, OutputIsPrefix
    <2>2. \A i \in 1..Len(output) : output[i] = generated[i]
      BY <2>1, SubSeqProperties
    <2>3. \A n \in 1..Len(output) : GoesOn(generated, n)
      BY <2>1 DEF OutputInv, OutputIsPrefix, NoEarlyEnd
    <2>4. Eos \notin Range(output)
      BY <2>1, <2>2, <2>3 DEF Range, GoesOn
    <2>5. ASSUME NEW s \in NonEmptyStops, Len(s) <= Len(output), Occurs(s, output) PROVE FALSE
      <3>1. s \in Seq(Tokens) /\ Len(s) \in Nat /\ Len(s) # 0 /\ DOMAIN s = 1..Len(s)
        BY <2>1, EmptySeq, LenProperties DEF NonEmptyStops
      <3>2. PICK i \in 0..(Len(output) - Len(s)) : \A j \in DOMAIN s : output[i + j] = s[j]
        BY <2>5 DEF Occurs
      <3> DEFINE n == i + Len(s)
      <3>3. n \in 1..Len(output) /\ n - Len(s) = i /\ Len(s) <= n
        BY <2>1, <3>1
      <3>4. ASSUME NEW j \in 1..Len(s) PROVE generated[n - Len(s) + j] = s[j]
        <4>1. i + j \in 1..Len(output)
          BY <2>1, <3>1
        <4> QED BY <2>2, <3>1, <3>2, <3>3, <4>1
      <3> HIDE DEF n
      <3>5. StopEndsAt(generated, s, n)
        BY <3>3, <3>4 DEF StopEndsAt
      <3> QED BY <2>3, <3>3, <3>5 DEF GoesOn
    <2> QED BY <2>4, <2>5 DEF NoStopDelivered
  <1> QED BY <1>1, OutputInvariant, PTL

(* Whatever a running client has not been given yet is the beginning of some   *)
(* stop sequence, and a client told how its response ended has all of it.      *)
THEOREM WithheldForAStop == Spec => []NothingWithheldForNothing
  <1>1. OutputInv => NothingWithheldForNothing
    <2> SUFFICES ASSUME OutputInv PROVE NothingWithheldForNothing
      OBVIOUS
    <2>1. CASE state = "running"
      <3>1. /\ generated \in Seq(Tokens) /\ Len(generated) \in Nat
            /\ emitted = Len(generated) - Max(PendingLengths(generated))
            /\ output = SubSeq(generated, 1, emitted)
        BY <2>1 DEF OutputInv, TypeOK, RunningPart
      <3>2. /\ Max(PendingLengths(generated)) \in PendingLengths(generated)
            /\ Max(PendingLengths(generated)) \in 0..Len(generated)
        BY <3>1, PendingProperties
      <3>3. Len(generated) - emitted = Max(PendingLengths(generated))
        BY <3>1, <3>2
      <3>4. \/ Max(PendingLengths(generated)) = 0
            \/ \E s \in NonEmptyStops :
                 EndsWithPrefix(generated, s, Max(PendingLengths(generated)))
        BY <3>2 DEF PendingLengths
      <3>5. \/ emitted = Len(generated)
            \/ \E s \in NonEmptyStops : EndsWithPrefix(generated, s, Len(generated) - emitted)
        BY <3>1, <3>3, <3>4
      <3> QED BY <3>1, <3>5 DEF NothingWithheldForNothing, OutputInv, TerminalPart
    <2>2. CASE state # "running"
      BY <2>2 DEF NothingWithheldForNothing, OutputInv, TerminalPart
    <2> QED BY <2>1, <2>2
  <1> QED BY <1>1, OutputInvariant, PTL

(* Terminal events tell the truth and a finished response is never relabelled. *)
THEOREM TerminalEventsAreTrue == Spec => []TerminalIsTrue
  <1>1. OutputInv => TerminalIsTrue
    BY DEF OutputInv
  <1> QED BY <1>1, OutputInvariant, PTL

-----------------------------------------------------------------------------
(* The response as a whole.                                                    *)

(* Deciding at the n-th token is looking for an end in the first n tokens.     *)
LEMMA EndIsSeenInTime ==
  ASSUME stops \subseteq Seq(Tokens), NEW g \in Seq(Tokens), NEW n \in 1..Len(g)
  PROVE  EndsAt(g, n) <=> n = MaxNewTokens \/ ~GoesOn(g, n)
  <1> DEFINE p == SubSeq(g, 1, n)
  <1>1. Len(p) = n /\ \A i \in 1..n : p[i] = g[i]
    BY SubSeqProperties
  <1> HIDE DEF p
  <1>2. ASSUME NEW s \in NonEmptyStops
        PROVE  EndsWithPrefix(p, s, Len(s)) <=> StopEndsAt(g, s, n)
    <2>1. Len(s) \in Nat /\ Len(g) \in Nat
      BY DEF NonEmptyStops
    <2>2. EndsWithPrefix(p, s, Len(s)) <=>
            Len(s) <= n /\ \A i \in 1..Len(s) : p[n - Len(s) + i] = s[i]
      BY <1>1, <2>1 DEF EndsWithPrefix
    <2>3. CASE Len(s) <= n
      <3>1. \A i \in 1..Len(s) : n - Len(s) + i \in 1..n
        BY <2>1, <2>3
      <3>2. \A i \in 1..Len(s) : p[n - Len(s) + i] = g[n - Len(s) + i]
        BY <1>1, <3>1
      <3> QED BY <2>2, <3>2 DEF StopEndsAt
    <2>4. CASE ~(Len(s) <= n)
      BY <2>2, <2>4 DEF StopEndsAt
    <2> QED BY <2>3, <2>4
  <1>3. EndsAt(g, n) <=> \/ g[n] = Eos \/ n = MaxNewTokens
                        \/ \E s \in NonEmptyStops : StopEndsAt(g, s, n)
    BY <1>2 DEF EndsAt, p
  <1> QED BY <1>3 DEF GoesOn

(* The places a response of n tokens may be cut are those the code considers.  *)
LEMMA CutsAreTheTrims ==
  ASSUME stops \subseteq Seq(Tokens), NEW g \in Seq(Tokens), NEW n \in Nat, n = Len(g), n > 0
  PROVE  /\ \A k \in Stopped(g, n) : (g[n] = Eos /\ k = n - 1) \/ n - k \in MatchedLengths(g)
         /\ \A m \in MatchedLengths(g) : n - m \in Stopped(g, n)
         /\ g[n] = Eos => n - 1 \in Stopped(g, n)
  <1>1. ASSUME NEW s \in NonEmptyStops, NEW k \in 0..n, k + Len(s) = n
        PROVE  SubSeq(g, k + 1, n) = s <=> EndsWithPrefix(g, s, Len(s))
    <2>1. s \in Seq(Tokens) /\ Len(s) \in Nat
      BY DEF NonEmptyStops
    <2> DEFINE q == SubSeq(g, k + 1, n)
    <2>2. q \in Seq(Tokens) /\ Len(q) = Len(s) /\ \A i \in 1..Len(s) : q[i] = g[k + i]
      <3>1. k + 1 \in 1..(n + 1) /\ n - (k + 1) + 1 = Len(s)
        BY <1>1, <2>1
      <3>2. \A i \in 1..Len(s) : (k + 1) + i - 1 = k + i
        BY <2>1
      <3>3. q \in Seq(Tokens) /\ Len(q) = IF k + 1 <= n THEN n - (k + 1) + 1 ELSE 0
        BY <1>1, <2>1, SubSeqProperties
      <3>4. Len(q) = Len(s)
        BY <1>1, <2>1, <3>3
      <3>5. \A i \in 1..(n - (k + 1) + 1) : q[i] = g[(k + 1) + i - 1]
        BY <1>1, <3>1, SubSeqProperties
      <3>6. \A i \in 1..Len(s) : q[i] = g[(k + 1) + i - 1]
        BY <3>1, <3>5
      <3> QED BY <3>2, <3>3, <3>4, <3>6
    <2> HIDE DEF q
    <2>3. q = s <=> \A i \in 1..Len(s) : q[i] = s[i]
      BY <2>1, <2>2, SeqEqual
    <2>4. \A i \in 1..Len(s) : g[Len(g) - Len(s) + i] = g[k + i]
      <3>1. \A i \in 1..Len(s) : n - Len(s) + i = k + i
        BY <1>1, <2>1
      <3> QED BY <3>1
    <2>5. Len(s) <= n
      BY <1>1, <2>1
    <2>6. EndsWithPrefix(g, s, Len(s)) <=> \A i \in 1..Len(s) : g[k + i] = s[i]
      <3>1. EndsWithPrefix(g, s, Len(s)) <=> \A i \in 1..Len(s) : g[Len(g) - Len(s) + i] = s[i]
        BY <2>1, <2>5 DEF EndsWithPrefix
      <3> QED BY <2>4, <3>1
    <2> QED BY <2>2, <2>3, <2>6 DEF q
  <1>2. \A s \in NonEmptyStops : Len(s) \in Nat /\ Len(s) # 0
    BY EmptySeq DEF NonEmptyStops
  <1>3. ASSUME NEW k \in Stopped(g, n)
        PROVE  (g[n] = Eos /\ k = n - 1) \/ n - k \in MatchedLengths(g)
    <2>1. CASE g[n] = Eos /\ k = n - 1
      BY <2>1
    <2>2. ASSUME NEW s \in NonEmptyStops, k + Len(s) = n, SubSeq(g, k + 1, n) = s
          PROVE  n - k \in MatchedLengths(g)
      <3>1. k \in 0..n /\ n - k = Len(s) /\ Len(s) \in 1..n
        <4>1. k \in 0..n
          BY DEF Stopped
        <4>2. k + Len(s) = n /\ Len(s) \in Nat /\ Len(s) # 0
          BY <1>2, <2>2
        <4> QED BY <4>1, <4>2
      <3>2. EndsWithPrefix(g, s, Len(s))
        BY <1>1, <2>2, <3>1
      <3> QED BY <3>1, <3>2 DEF MatchedLengths
    <2> QED BY <2>1, <2>2 DEF Stopped
  <1>4. ASSUME NEW m \in MatchedLengths(g) PROVE n - m \in Stopped(g, n)
    <2>1. PICK s \in NonEmptyStops : m = Len(s) /\ EndsWithPrefix(g, s, m)
      BY DEF MatchedLengths
    <2>2. m \in 1..n
      BY DEF MatchedLengths
    <2>3. n - m \in 0..n /\ (n - m) + Len(s) = n
      BY <2>1, <2>2
    <2>4. SubSeq(g, (n - m) + 1, n) = s
      BY <1>1, <2>1, <2>3
    <2> QED BY <2>3, <2>4 DEF Stopped
  <1>5. g[n] = Eos => n - 1 \in Stopped(g, n)
    BY DEF Stopped
  <1> QED BY <1>3, <1>4, <1>5

(* Deciding and trimming token by token gives what one pass over the tokens of *)
(* the response gives, for all stop sequences, overlapping ones included.      *)
THEOREM TokenByTokenIsWhole == Spec => []IncrementalIsWhole
  <1>1. ASSUME OutputInv, terminal # "none" PROVE output = Response(generated)
    <2> DEFINE g == generated
               n == Len(g)
               First(m) == EndsAt(g, m) /\ \A l \in 1..(m - 1) : ~EndsAt(g, l)
    <2>1. /\ stops \subseteq Seq(Tokens) /\ g \in Seq(Tokens) /\ n \in Nat /\ n <= MaxNewTokens
          /\ terminal = finish /\ terminal \in {"none", "stop", "length"}
          /\ DOMAIN g = 1..n
      BY <1>1, LenProperties DEF OutputInv, TypeOK, TerminalIsTrue
    <2>2. n > 0
      <3>1. CASE terminal = "stop"
        BY <1>1, <2>1, <3>1 DEF OutputInv, EndPart
      <3>2. CASE terminal = "length"
        <4>1. n = MaxNewTokens
          BY <1>1, <2>1, <3>2 DEF OutputInv, EndPart
        <4> QED BY <2>1, <4>1, SequenceOutputAssumption
      <3> QED BY <1>1, <2>1, <3>1, <3>2
    <2>3. finish = "stop" => ~GoesOn(g, n)
      <3>1. ASSUME finish = "stop", g[n] # Eos PROVE ~GoesOn(g, n)
        <4>1. PICK s \in NonEmptyStops : EndsWithPrefix(g, s, Len(s))
          BY <1>1, <3>1 DEF OutputInv, EndPart, MatchedLengths
        <4>2. Len(s) \in Nat
          BY <2>1 DEF NonEmptyStops
        <4>3. StopEndsAt(g, s, n)
          BY <2>1, <4>1, <4>2 DEF EndsWithPrefix, StopEndsAt
        <4> QED BY <4>3 DEF GoesOn
      <3> QED BY <3>1 DEF GoesOn
    <2>4. EndsAt(g, n)
      BY <1>1, <2>1, <2>2, <2>3, EndIsSeenInTime DEF OutputInv, EndPart
    <2>5. ASSUME NEW m \in 1..n, m < n PROVE ~EndsAt(g, m)
      <3>1. GoesOn(g, m) /\ m # MaxNewTokens
        BY <1>1, <2>1, <2>5, SequenceOutputAssumption DEF OutputInv, NoEarlyEnd
      <3> QED BY <2>1, <3>1, EndIsSeenInTime
    <2>6. First(n)
      BY <2>1, <2>4, <2>5
    <2>7. ASSUME NEW m \in 1..n, First(m) PROVE m = n
      <3>1. ~(m < n)
        BY <2>5, <2>7
      <3> HIDE DEF n, First
      <3> QED BY <2>1, <2>7, <3>1
    <2>8. (CHOOSE m \in DOMAIN g : First(m)) = n
      <3> HIDE DEF First, n
      <3>1. n \in DOMAIN g /\ \A m \in DOMAIN g : First(m) => m = n
        BY <2>1, <2>2, <2>7
      <3> QED BY <2>6, <3>1
    <2>9. Response(g) = IF Stopped(g, n) = {} THEN SubSeq(g, 1, n)
                        ELSE SubSeq(g, 1, Min(Stopped(g, n)))
      <3>1. Response(g) = LET k == CHOOSE k \in DOMAIN g : First(k)
                          IN  IF Stopped(g, k) = {} THEN SubSeq(g, 1, k)
                              ELSE SubSeq(g, 1, Min(Stopped(g, k)))
        BY DEF Response
      <3> HIDE DEF First, n
      <3> QED BY <2>8, <3>1
    <2> HIDE DEF First, n
    <2>10. CASE terminal = "length"
      <3>1. GoesOn(g, n)
        BY <1>1, <2>1, <2>2, <2>10 DEF OutputInv, NoEarlyEnd, n
      <3>2. Stopped(g, n) = {}
        <4>1. ASSUME NEW k \in Stopped(g, n) PROVE FALSE
          <5>1. n - k \in MatchedLengths(g)
            BY <2>1, <2>2, <3>1, CutsAreTheTrims DEF GoesOn, n
          <5>2. PICK s \in NonEmptyStops : EndsWithPrefix(g, s, Len(s))
            BY <5>1 DEF MatchedLengths
          <5>3. Len(s) \in Nat
            BY <2>1 DEF NonEmptyStops
          <5>4. StopEndsAt(g, s, n)
            BY <2>1, <5>2, <5>3 DEF EndsWithPrefix, StopEndsAt, n
          <5> QED BY <3>1, <5>4 DEF GoesOn
        <4> QED BY <4>1
      <3>3. output = g
        BY <1>1, <2>10 DEF OutputInv, TerminalPart
      <3>4. SubSeq(g, 1, n) = g
        BY <2>1, SubSeqFull DEF n
      <3> QED BY <2>9, <3>2, <3>3, <3>4
    <2>11. CASE terminal = "stop"
      <3>1. trim = TerminalTrim(g) /\ (g[n] = Eos \/ MatchedLengths(g) # {})
        BY <1>1, <2>1, <2>11 DEF OutputInv, EndPart, n
      <3>2. output = SubSeq(g, 1, n - TerminalTrim(g))
        BY <1>1, <2>11, <3>1 DEF OutputInv, TerminalPart, n
      <3>3. /\ TerminalTrim(g) \in 1..n
            /\ MatchedLengths(g) # {} => TerminalTrim(g) \in MatchedLengths(g)
            /\ MatchedLengths(g) = {} => TerminalTrim(g) = 1
        BY <2>1, <2>2, TrimProperties DEF n
      <3>4. \A m \in MatchedLengths(g) : m \in 1..n /\ m <= TerminalTrim(g)
        <4>1. MatchedLengths(g) \subseteq 0..n /\ MatchedLengths(g) \subseteq 1..n
          BY <2>1 DEF MatchedLengths, n
        <4> QED BY <2>1, <4>1, MaxOfBounded DEF TerminalTrim
      <3>5. /\ \A k \in Stopped(g, n) : (g[n] = Eos /\ k = n - 1) \/ n - k \in MatchedLengths(g)
            /\ \A m \in MatchedLengths(g) : n - m \in Stopped(g, n)
            /\ g[n] = Eos => n - 1 \in Stopped(g, n)
            /\ Stopped(g, n) \subseteq 0..n
        BY <2>1, <2>2, CutsAreTheTrims DEF n, Stopped
      <3> DEFINE t == TerminalTrim(g)
      <3> HIDE DEF t
      <3>6. n - t \in Stopped(g, n)
        BY <3>1, <3>3, <3>5 DEF t
      <3>7. \A k \in Stopped(g, n) : n - t <= k
        BY <2>1, <3>3, <3>4, <3>5 DEF t
      <3>8. n - t \in Int /\ \A k \in Stopped(g, n) : k \in Int
        BY <2>1, <3>3, <3>5 DEF t
      <3>9. Min(Stopped(g, n)) = n - t
        <4>1. \A k \in Stopped(g, n) : (\A y \in Stopped(g, n) : k <= y) => k = n - t
          BY <3>6, <3>7, <3>8
        <4> QED BY <3>6, <3>7, <4>1 DEF Min
      <3> QED BY <2>9, <3>2, <3>6, <3>9 DEF t
    <2> QED BY <1>1, <2>1, <2>10, <2>11
  <1>2. OutputInv => IncrementalIsWhole
    BY <1>1 DEF IncrementalIsWhole
  <1> QED BY <1>2, OutputInvariant, PTL
=============================================================================
