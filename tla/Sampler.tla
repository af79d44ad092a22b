-------------------------------- MODULE Sampler --------------------------------
(* Sampler::sample of sampler.rs as a function of the logits, the options and  *)
(* the random number.                                                          *)
(*                                                                             *)
(* A logit is an integer level, or one of the two NaNs, which f32::total_cmp   *)
(* sorts above and below everything.  exp((logit - max) / temperature) is an   *)
(* integer that falls with the distance from the maximum, and arithmetic on    *)
(* weights is exact.  Tokens are 0 .. Len(row) - 1 in the code, 1 .. Len(row)  *)
(* here.                                                                       *)
EXTENDS Integers, FiniteSets, FiniteSetsExt, SequencesExt

CONSTANTS
  Weights,           \* weight of a logit by its distance from the maximum
  TopPGrain,         \* top_p < 0.999 cuts, at 0.001 at the least: 1000 in the code
  Draws              \* next_f64() is i / Draws for an i in 0 .. Draws - 1

ASSUME SamplerAssumption ==
  /\ TopPGrain \in Nat \ {0} /\ Draws \in Nat \ {0}
  /\ \A d \in DOMAIN Weights : Weights[d] \in Nat /\ (d + 1 \in DOMAIN Weights => Weights[d + 1] <= Weights[d])
  /\ 0 \in DOMAIN Weights /\ Weights[0] > 0

PositiveNaN == 1000
NegativeNaN == -1000
IsNaN(logit) == logit \in {PositiveNaN, NegativeNaN}

\* The weight of a logit so far below the largest.
Weight(distance) == IF distance \in DOMAIN Weights THEN Weights[distance] ELSE 0

\* The first n of the weights, added up.
WeightSum(weights, n) ==
  LET sum[i \in 0 .. n] == IF i = 0 THEN 0 ELSE sum[i - 1] + weights[i]
  IN  sum[n]

\* LogitRow::argmax: the first of the largest, NaN comparing as smaller.
Argmax(row) ==
  LET ordered == {t \in DOMAIN row : ~IsNaN(row[t])}
      largest == {t \in ordered : \A s \in ordered : row[s] <= row[t]}
  IN  IF ordered = {} THEN 1 ELSE Min(largest)

\* Descending logits; a stable sort leaves equal ones as they were.
Precedes(row, s, t) == row[s] > row[t] \/ (row[s] = row[t] /\ s < t)

Sorted(row) ==
  CHOOSE order \in [DOMAIN row -> DOMAIN row] :
    \A i, j \in DOMAIN row : i < j => Precedes(row, order[i], order[j])

\* How many of them truncate(top_k) leaves.
Candidates(row, topK) == Min({Len(row), Max({1, topK})})

WeightsOf(row, order, candidates) ==
  [i \in 1 .. candidates |-> Weight(row[order[1]] - row[order[i]])]

\* A top_p so close to 1 cuts nothing.
CutsNothing(topP) == topP.parts * TopPGrain >= (TopPGrain - 1) * topP.of

\* One token more than it takes to reach top_p.
NucleusPast(weights, topP) ==
  LET total == WeightSum(weights, Len(weights))
      past  == {n \in DOMAIN weights : /\ WeightSum(weights, n) * topP.of > topP.parts * total
                                       /\ WeightSum(weights, n) * TopPGrain > total}
  IN  IF CutsNothing(topP) THEN Len(weights) ELSE Min({Len(weights)} \cup past)

\* How many of the weights are kept: the last is the one that reaches top_p, or
\* what top_p is raised to.
Nucleus(weights, topP) ==
  LET total   == WeightSum(weights, Len(weights))
      reached == {n \in DOMAIN weights : /\ WeightSum(weights, n) * topP.of >= topP.parts * total
                                         /\ WeightSum(weights, n) * TopPGrain >= total}
  IN  IF CutsNothing(topP) THEN Len(weights) ELSE Min({Len(weights)} \cup reached)

\* The walk down the kept weights, in which a NaN makes every comparison false.
Walk(row, order, weights, kept, draw) ==
  LET reached == {n \in 1 .. kept : draw * WeightSum(weights, kept) <= Draws * WeightSum(weights, n)}
  IN  IF (\E i \in DOMAIN weights : IsNaN(row[order[i]])) \/ reached = {}
        THEN Argmax(row) ELSE order[Min(reached)]

Sample(row, options, draw) ==
  IF options.greedy THEN Argmax(row)
  ELSE LET order == Sorted(row)
           weights == WeightsOf(row, order, Candidates(row, options.topK))
       IN  Walk(row, order, weights, Nucleus(weights, options.topP), draw)

-----------------------------------------------------------------------------
(* What the options mean, without sorting or walking.                          *)

Ahead(row, t) == {s \in DOMAIN row : Precedes(row, s, t)}

InTopK(row, k) == {t \in DOMAIN row : Cardinality(Ahead(row, t)) < Max({1, k})}

\* The weights of a set of tokens, added up.
TokenWeight(row, t) == Weight(Max({row[s] : s \in DOMAIN row}) - row[t])
Mass(row, tokens) ==
  WeightSum([t \in DOMAIN row |-> IF t \in tokens THEN TokenWeight(row, t) ELSE 0], Len(row))

\* The most likely tokens whose predecessors do not reach top_p yet, nor the
\* smallest share it may ask for; and all of them if it is within that share of 1.
InNucleus(row, options) ==
  LET topP  == options.topP
      total == Mass(row, InTopK(row, options.topK))
  IN  {t \in InTopK(row, options.topK) :
         /\ Mass(row, {t}) > 0
         /\ \/ Mass(row, Ahead(row, t)) * topP.of < topP.parts * total
            \/ Mass(row, Ahead(row, t)) * TopPGrain < total
            \/ topP.parts * TopPGrain >= (TopPGrain - 1) * topP.of}

IsDeterministic(row, options) ==
  options.greedy \/ \E t \in InTopK(row, options.topK) : IsNaN(row[t])

\* How many of the random numbers select a token.
Chances(row, options, t) == Cardinality({draw \in 0 .. Draws - 1 : Sample(row, options, draw) = t})

\* Shares are as the weights, give or take the one draw on each boundary.
FollowsTheWeights(row, options) ==
  LET nucleus == InNucleus(row, options)
  IN  \A t \in DOMAIN row :
        LET share == Chances(row, options, t) * Mass(row, nucleus)
            due   == Draws * Mass(row, {t})
        IN  IF t \in nucleus
              THEN share <= due + Mass(row, nucleus) /\ due <= share + Mass(row, nucleus)
              ELSE Chances(row, options, t) = 0

\* A greedy choice, and any choice among candidates with a NaN, is the first of
\* the largest logits; and a NaN is never drawn beside a number.
KeepsToOptions(row, options, token) ==
  LET ordered == {t \in DOMAIN row : ~IsNaN(row[t])}
  IN  /\ ordered # {} => token \in ordered
      /\ IF IsDeterministic(row, options)
           THEN \A t \in ordered : row[t] <= row[token] /\ (row[t] = row[token] => token <= t)
           ELSE FollowsTheWeights(row, options)
=============================================================================
