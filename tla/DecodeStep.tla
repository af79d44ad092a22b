------------------------------ MODULE DecodeStep ------------------------------
(* What the model computes for a batch: prefill and forward of Gpt2 through    *)
(* the KV cache, driven by the scheduler's loop with continuous batching.      *)
(*                                                                             *)
(* A hidden state stands for everything it was computed from.  At layer 0 it   *)
(* is a token with its position; attention turns the keys it saw, in order,    *)
(* into the hidden state of the next layer.  A row of logits is the hidden     *)
(* state that leaves the last layer.  The numbers a row holds are any of Rows. *)
EXTENDS Sampler

CONSTANTS
  Requests,          \* requests, as the queue hands them over
  Prompt,            \* prompt_tokens of each
  MaxNew,            \* max_new_tokens of each
  Options,           \* greedy, topK and topP of each
  Eos,               \* eos_token
  Rows,              \* rows of logits a forward may return
  NumLayers,         \* layers of the model
  MaxSlots           \* slots of the KV slab

ASSUME DecodeStepAssumption ==
  /\ NumLayers \in Nat \ {0} /\ MaxSlots \in Nat \ {0}
  /\ \A r \in Requests : Prompt[r] \in Seq(Nat) \ {<<>>} /\ MaxNew[r] \in Nat \ {0}
  /\ Rows \subseteq Seq(Int) \ {<<>>}
  /\ \A r \in Requests :
       Options[r] \in [greedy : BOOLEAN, topK : Nat, topP : [parts : Nat, of : Nat \ {0}]]

VARIABLES
  waiting,           \* requests that were not admitted yet
  free,              \* free_slots
  slot,              \* the slot of the lease a request holds, or 0
  layers,            \* the keys stored in each layer of each slot
  running,           \* running: Vec<Sequence>
  generated,         \* generated_tokens
  done,              \* sequences that are finished or cancelled
  logits,            \* rows of the current step
  idx,               \* the row the loop is at, 0 between steps
  sampled            \* history: what the last row was sampled from

vars == <<waiting, free, slot, layers, running, generated, done, logits, idx, sampled>>

Layers == 0 .. NumLayers - 1
Nothing == <<>>

Init ==
  /\ waiting = Requests
  /\ free = [s \in 1 .. MaxSlots |-> s]
  /\ slot = [r \in Requests |-> 0]
  /\ layers = [s \in 1 .. MaxSlots |-> [l \in Layers |-> <<>>]]
  /\ running = <<>> /\ generated = [r \in Requests |-> <<>>] /\ done = {}
  /\ logits = <<>> /\ idx = 0 /\ sampled = Nothing

Tokens(r) == Prompt[r] \o generated[r]

-----------------------------------------------------------------------------
(* The model.                                                                  *)

Embed(token, position) == <<token, position>>

\* A pass over several positions at once: the causal mask lets each see the keys
\* up to its own.
Masked(tokens) ==
  LET hidden[l \in 0 .. NumLayers] ==
        [p \in DOMAIN tokens |-> IF l = 0 THEN Embed(tokens[p], p - 1) ELSE SubSeq(hidden[l - 1], 1, p)]
  IN  hidden

\* Prefill caches all but the last token, which the first forward feeds.
Cached(prompt) == SubSeq(prompt, 1, Len(prompt) - 1)

\* The layers of a slot after a prefill that got through the first n of them.
Prefilled(prompt, n) ==
  [l \in Layers |-> IF l < n THEN Masked(Cached(prompt))[l] ELSE <<>>]

LastToken(r) == Last(Tokens(r))
DecodePosition(r) == Len(Prompt[r]) + Len(generated[r]) - 1

\* One row through the layers: at each, the keys of the slot and its own.
RowHidden(r) ==
  LET hidden[l \in 0 .. NumLayers] ==
        IF l = 0 THEN Embed(LastToken(r), DecodePosition(r))
        ELSE Append(layers[slot[r]][l - 1], hidden[l - 1])
  IN  hidden

\* What a forward has written when it has done all rows of the first n layers
\* and the first m rows of the next one.
Written(n, m) ==
  [s \in DOMAIN layers |->
     [l \in Layers |->
        IF \E i \in DOMAIN running : slot[running[i]] = s /\ (l < n \/ (l = n /\ i <= m))
          THEN RowHidden(running[CHOOSE i \in DOMAIN running : slot[running[i]] = s])[l + 1]
          ELSE layers[s][l]]]

-----------------------------------------------------------------------------
(* The loop.                                                                   *)

\* allocate inserts fresh storage.
Allocate(s) == [l \in Layers |-> <<>>]

Lease(r, n) ==
  LET fresh == Allocate(Head(free))
      filled == Prefilled(Prompt[r], n)
  IN  layers' = [layers EXCEPT ![Head(free)] =
                   [l \in Layers |-> IF filled[l] = <<>> THEN fresh[l] ELSE filled[l]]]

Admit(r) ==
  /\ idx = 0 /\ r \in waiting /\ free # <<>>
  /\ Lease(r, NumLayers)
  /\ waiting' = waiting \ {r} /\ running' = Append(running, r)
  /\ slot' = [slot EXCEPT ![r] = Head(free)] /\ free' = Tail(free)
  /\ sampled' = Nothing
  /\ UNCHANGED <<generated, done, logits, idx>>

\* A prefill that fails on its way through the layers; the lease goes back.  One
\* token leaves nothing to prefill.
AdmitFails(r) ==
  /\ idx = 0 /\ r \in waiting /\ free # <<>> /\ Len(Prompt[r]) > 1
  /\ \E n \in Layers : Lease(r, n)
  /\ waiting' = waiting \ {r} /\ free' = Append(Tail(free), Head(free))
  /\ sampled' = Nothing
  /\ UNCHANGED <<slot, running, generated, done, logits, idx>>

Forward ==
  /\ idx = 0 /\ running # <<>>
  /\ layers' = Written(NumLayers, 0)
  /\ logits' = [i \in DOMAIN running |-> RowHidden(running[i])[NumLayers]]
  /\ idx' = 1 /\ sampled' = Nothing
  /\ UNCHANGED <<waiting, free, slot, running, generated, done>>

\* Positions, listed from front to back.
InOrder(positions) ==
  {order \in [1 .. Cardinality(positions) -> positions] : \A i, j \in DOMAIN order : i < j => order[i] < order[j]}

\* Sequences stay and go in the order of running, and so do their slots.
Release(gone) ==
  LET leaving == {i \in DOMAIN running : running[i] \in gone}
  IN  \E stay \in InOrder(DOMAIN running \ leaving), leave \in InOrder(leaving) :
        /\ running' = [i \in DOMAIN stay |-> running[stay[i]]]
        /\ free' = free \o [i \in DOMAIN leave |-> slot[running[leave[i]]]]
        /\ slot' = [r \in Requests |-> IF r \in gone THEN 0 ELSE slot[r]]

\* The batch is tried again in the next iteration.
FailNobody == UNCHANGED <<running, free, slot>>

\* Every sequence of the batch is failed and reaped.
FailBatch == Release(ToSet(running))

\* An error somewhere on the way leaves layers and rows at different lengths.
ForwardFails ==
  /\ idx = 0 /\ running # <<>>
  /\ \E n \in Layers, m \in 0 .. Len(running) - 1 : layers' = Written(n, m)
  /\ FailBatch
  /\ sampled' = Nothing
  /\ UNCHANGED <<waiting, generated, done, logits, idx>>

\* Row idx goes to running[idx], which may have been cancelled meanwhile.
RowSkipped ==
  /\ idx \in DOMAIN running
  /\ done' = done \cup {running[idx]} /\ idx' = idx + 1 /\ sampled' = Nothing
  /\ UNCHANGED <<waiting, free, slot, layers, running, generated, logits>>

RowSampled ==
  /\ idx \in DOMAIN running
  /\ LET r == running[idx]
     IN  \E row \in Rows, draw \in 0 .. Draws - 1 :
           /\ generated' = [generated EXCEPT ![r] = Append(@, Sample(row, Options[r], draw))]
           /\ done' = IF Last(generated'[r]) = Eos \/ Len(generated'[r]) >= MaxNew[r]
                        THEN done \cup {r} ELSE done
           /\ sampled' = [row |-> row, options |-> Options[r], token |-> Last(generated'[r])]
  /\ idx' = idx + 1
  /\ UNCHANGED <<waiting, free, slot, layers, running, logits>>

RowsEnd ==
  /\ idx > Len(running)
  /\ Release(done)
  /\ logits' = <<>> /\ idx' = 0 /\ sampled' = Nothing
  /\ UNCHANGED <<waiting, layers, generated, done>>

Next ==
  \/ \E r \in Requests : Admit(r) \/ AdmitFails(r)
  \/ Forward \/ ForwardFails \/ RowSkipped \/ RowSampled \/ RowsEnd

Spec == Init /\ [][Next]_vars

-----------------------------------------------------------------------------
(* Properties.                                                                 *)

(* Continuous batching cannot be seen in a response: the logits a sequence is  *)
(* sampled from are those of one pass over its own prompt and tokens alone,    *)
(* whoever shares the batch, joined or left it, failed in it, or had the slot  *)
(* before (tests/determinism.rs, tests/correctness.rs).                        *)
BatchingIsInvisible ==
  idx > 0 =>
    \A i \in idx .. Len(running) :
      LET r == running[i]
      IN  logits[i] = Masked(Tokens(r))[NumLayers][Len(Tokens(r))]

(* A token is drawn from the nucleus of the top-k tokens, or from all of them  *)
(* if top_p is 0.999 or more, in proportion to its weight; a greedy choice,    *)
(* and any choice among candidates with a NaN, is the first of the largest     *)
(* logits; and a NaN is never drawn beside a number.                           *)
SampledFromTheNucleus ==
  sampled # Nothing => KeepsToOptions(sampled.row, sampled.options, sampled.token)
=============================================================================
