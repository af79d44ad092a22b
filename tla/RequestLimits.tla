--------------------------- MODULE RequestLimits ---------------------------
(***************************************************************************)
(* The limits one request meets on its way through the server.  The same   *)
(* lengths are compared at seven places written apart: the start-up        *)
(* arguments (lib.rs), the options and the prompt of a request (api.rs),   *)
(* the response channel (api.rs), the scheduler's own validation           *)
(* (scheduler.rs), the KV lease (kv_cache.rs, naive.rs) and the model's    *)
(* positions (model.rs).  This module carries one request past all of them *)
(* in both serving modes.  usize arithmetic is bounded by MaxUsize.        *)
(***************************************************************************)
EXTENDS Integers

CONSTANTS
  ContextWindow,            \* lib.rs: the 1024 tokens no --max-seq-len exceeds
  DefaultMaxTokens,         \* api.rs: DEFAULT_MAX_TOKENS
  ResponseChannelCapacity,  \* api.rs: RESPONSE_CHANNEL_CAPACITY
  MaxUsize,                 \* usize::MAX
  ModelPositions,           \* max_positions() of the loaded model
  Lengths                   \* the lengths an operator or a client may ask for

ASSUME LimitsAssumption ==
  /\ ContextWindow \in Nat /\ ModelPositions \in Nat /\ MaxUsize \in Nat
  /\ DefaultMaxTokens \in Nat \ {0}
  /\ ResponseChannelCapacity \in Nat \ {0, 1}
  /\ ContextWindow < MaxUsize
  /\ Lengths \subseteq 0 .. MaxUsize

VARIABLES
  args,       \* the ServeArgs of the process
  request,    \* what the client asked for
  phase,      \* where the request is, or how it ended
  maxTokens,  \* SubmitParams::max_tokens
  channel,    \* the response channel: its capacity and the items buffered
  lease,      \* KvHandle::capacity_tokens
  cached,     \* tokens in the KV cache of the sequence
  generated   \* tokens sampled so far

vars == <<args, request, phase, maxTokens, channel, lease, cached, generated>>

Modes == {"continuous", "naive"}

\* A fault stands for any argument or option whose check touches no length.
ServeArgs == [mode : Modes, maxSeqLen : Lengths, maxNewTokens : Lengths,
              fault : BOOLEAN]

Unset == -1     \* the client left max_tokens out

Requests == [prompt : Lengths, maxTokens : Lengths \cup {Unset},
             fault : BOOLEAN]

NoRequest == [prompt |-> 0, maxTokens |-> Unset, fault |-> FALSE]

NoChannel == [capacity |-> 0, buffered |-> 0]

Smaller(a, b) == IF a < b THEN a ELSE b
Larger(a, b) == IF a > b THEN a ELSE b

SaturatingAdd(a, b) == Smaller(a + b, MaxUsize)

\* checked_add returns Some.
AddFits(a, b) == a + b <= MaxUsize

Init ==
  /\ args \in ServeArgs
  /\ request = NoRequest
  /\ phase = "starting"
  /\ maxTokens = 0
  /\ channel = NoChannel
  /\ lease = 0
  /\ cached = 0
  /\ generated = 0

-----------------------------------------------------------------------------
(* Start-up.                                                               *)

\* The twin lets the new tokens take the whole sequence.
ValidArgsWithoutPrompt(a) ==
  /\ ~a.fault
  /\ a.maxSeqLen > 0 /\ a.maxNewTokens > 0
  /\ a.maxNewTokens <= a.maxSeqLen
  /\ a.maxSeqLen <= ContextWindow

ValidArgs(a) ==
  /\ ~a.fault
  /\ a.maxSeqLen > 0 /\ a.maxNewTokens > 0
  /\ a.maxNewTokens < a.maxSeqLen
  /\ a.maxSeqLen <= ContextWindow

Start ==
  /\ phase = "starting"
  /\ phase' = IF ValidArgs(args) /\ args.maxSeqLen <= ModelPositions
              THEN "serving" ELSE "not started"
  /\ UNCHANGED <<args, request, maxTokens, channel, lease, cached, generated>>

-----------------------------------------------------------------------------
(* The handler: validate_options, then submit_prompt.                      *)

RequestedTokens(r) ==
  IF r.maxTokens = Unset THEN Smaller(DefaultMaxTokens, args.maxNewTokens)
                         ELSE r.maxTokens

ValidOptions(r) ==
  /\ ~r.fault
  /\ RequestedTokens(r) > 0
  /\ RequestedTokens(r) <= args.maxNewTokens

Receive(r) ==
  /\ phase = "serving"
  /\ request' = r
  /\ phase' = IF ValidOptions(r) THEN "valid" ELSE "invalid"
  /\ maxTokens' = IF ValidOptions(r) THEN RequestedTokens(r) ELSE 0
  /\ UNCHANGED <<args, channel, lease, cached, generated>>

\* The prompt must be there and fit; the twin leaves no room for the response.
PromptFitsAlone ==
  request.prompt > 0 /\ request.prompt <= args.maxSeqLen

PromptFits ==
  /\ request.prompt > 0
  /\ SaturatingAdd(request.prompt, maxTokens) <= args.maxSeqLen

RejectPrompt ==
  /\ phase = "valid" /\ ~PromptFits
  /\ phase' = "invalid"
  /\ UNCHANGED <<args, request, maxTokens, channel, lease, cached, generated>>

\* Not alive, closed or full, in the order the handler may find it.
TurnAway ==
  /\ phase = "valid"
  /\ phase' = "unavailable"
  /\ UNCHANGED <<args, request, maxTokens, channel, lease, cached, generated>>

\* usize::clamp; the twin forgets the item that ends the response.
ChannelCapacityTokensOnly ==
  Smaller(Larger(maxTokens, 2), ResponseChannelCapacity)

ChannelCapacity ==
  Smaller(Larger(maxTokens + 1, 2), ResponseChannelCapacity)

SubmitPrompt ==
  /\ phase = "valid" /\ PromptFits
  /\ phase' = IF AddFits(maxTokens, 1) THEN "queued" ELSE "failed"
  /\ channel' = [capacity |-> ChannelCapacity, buffered |-> 0]
  /\ UNCHANGED <<args, request, maxTokens, lease, cached, generated>>

-----------------------------------------------------------------------------
(* The engine: admission, prefill and one token at a time.                 *)

\* SlabKvCache::new: the continuous engine shares one slab, the naive engine
\* makes one for the request it is about to run.
SlabLength ==
  IF args.mode = "continuous"
  THEN args.maxSeqLen
  ELSE Larger(SaturatingAdd(request.prompt, maxTokens), 1)

\* validate_request; only the continuous engine asks.
ValidRequest ==
  LET limit == Smaller(Smaller(args.maxSeqLen, SlabLength), ModelPositions)
  IN  /\ request.prompt > 0
      /\ maxTokens > 0 /\ maxTokens <= args.maxNewTokens
      /\ AddFits(request.prompt, maxTokens)
      /\ request.prompt + maxTokens <= limit

\* A free slot is not in question here: Scheduler!WithinLimits.
HasRoomFor ==
  /\ AddFits(request.prompt, maxTokens)
  /\ request.prompt + maxTokens <= SlabLength

Admissible == (args.mode = "continuous" => ValidRequest) /\ HasRoomFor

Admit ==
  /\ phase = "queued"
  /\ phase' = IF Admissible THEN "admitted" ELSE "failed"
  /\ lease' = IF Admissible THEN request.prompt + maxTokens ELSE 0
  /\ UNCHANGED <<args, request, maxTokens, channel, cached, generated>>

\* All but the last prompt token go into the cache.
PrefilledTokens == Larger(request.prompt - 1, 0)

PrefillFails == request.prompt > ModelPositions \/ PrefilledTokens > lease

Prefill ==
  /\ phase = "admitted"
  /\ phase' = IF PrefillFails THEN "failed" ELSE "running"
  /\ cached' = IF PrefillFails THEN cached ELSE PrefilledTokens
  /\ UNCHANGED <<args, request, maxTokens, channel, lease, generated>>

DecodePosition == Larger(request.prompt + generated - 1, 0)

\* Attention appends the keys and values of the token it decodes.
AttendedTokens == cached + 1

\* The position must exist and the longer cache must fit the lease.
ForwardFails == DecodePosition >= ModelPositions \/ AttendedTokens > lease

\* append_token and try_send_tokens: an end-of-text token is not delivered,
\* the last send also carries the end of the response.
Last(eos) == eos \/ generated + 1 >= maxTokens

Items(eos) == (IF eos THEN 0 ELSE 1) + (IF Last(eos) THEN 1 ELSE 0)

Fits(eos) == channel.buffered + Items(eos) <= channel.capacity

Decode(eos) ==
  /\ phase = "running"
  /\ phase' = CASE ForwardFails -> "failed"
               [] ~ForwardFails /\ ~Fits(eos) -> "evicted"
               [] ~ForwardFails /\ Fits(eos) ->
                    IF Last(eos) THEN "answered" ELSE "running"
  /\ channel' = IF ForwardFails \/ ~Fits(eos) THEN channel
                ELSE [channel EXCEPT !.buffered = @ + Items(eos)]
  /\ cached' = IF ForwardFails THEN cached ELSE AttendedTokens
  /\ generated' = IF ForwardFails THEN generated ELSE generated + 1
  /\ UNCHANGED <<args, request, maxTokens, lease>>

\* The handler drains its channel, at its own pace.
Read ==
  /\ channel.buffered > 0
  /\ channel' = [channel EXCEPT !.buffered = @ - 1]
  /\ UNCHANGED <<args, request, phase, maxTokens, lease, cached, generated>>

Next ==
  \/ Start
  \/ \E r \in Requests : Receive(r)
  \/ RejectPrompt
  \/ TurnAway
  \/ SubmitPrompt
  \/ Admit
  \/ Prefill
  \/ \E eos \in BOOLEAN : Decode(eos)
  \/ Read

Spec == Init /\ [][Next]_vars

-----------------------------------------------------------------------------
(* What the limits promise each other.                                     *)

\* A request the API accepted is never refused afterwards: the scheduler's
\* validation, the lease, the cache and the model's positions are all large
\* enough, in both modes, although the naive engine validates nothing itself.
\* api.rs submit_prompt against scheduler.rs validate_request, kv_cache.rs
\* allocate and write, model.rs prefill and forward, naive.rs.
NothingFailsLate == phase # "failed"

\* A server that started serves a one-token prompt that leaves every option to
\* its default: the default response never asks for more than the limits the
\* operator chose.  lib.rs ServeArgs::validate against api.rs max_tokens.
DefaultsAreServed ==
  request.prompt = 1 /\ request.maxTokens = Unset /\ ~request.fault =>
    phase # "invalid"

\* A response that fits the channel together with its end is delivered to a
\* client that reads nothing: only a longer one can evict a slow reader.
\* api.rs channel_capacity against sequence.rs try_send_tokens.
ShortResponsesNeedNoReader ==
  phase = "evicted" => maxTokens >= ResponseChannelCapacity

=============================================================================
