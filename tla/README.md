# hotbatch: specifications, model checking and proofs

hotbatch serves token generation over HTTP. This directory holds TLA+ modules
translated from its Rust sources, TLC configurations that check them on small
instances, and theorems that TLAPS checks for every value of the constants.
`PROJECT.json` maps every definition to the lines it stands for.

Paths below are relative to `src/crates/`: `core/` stands for
`hotbatch-core/src/`, `server/` for `hotbatch-server/src/`, `bench/` for
`hotbatch-bench/src/`.

## 1. Inventory

### The parts and how they interact

| Part | State it keeps | Operations |
|---|---|---|
| HTTP handlers (`server/api.rs`, `server/sse.rs`) | response channel receiver, decoded text, stop filter | validate, tokenize, submit, receive until a terminal event, match a textual stop, drop the receiver |
| `RequestQueue` (`core/scheduler.rs:41-149`) | buffer and closed flag under one mutex, a `Notify` | `submit`, `try_pop`, `wait_nonempty`, `close_and_drain` |
| `Scheduler` (`core/scheduler.rs:164-475`) | `running: Vec<Sequence>`, the KV slab, the model | one task: sweep, admit, decode a batch, deliver rows, reap, drain at shutdown |
| `SlabKvCache` (`core/kv_cache.rs`) | free list, entry and generation per slot, tensors | `allocate`, `free`, `write`, `read` |
| `Sequence` (`core/sequence.rs`) | generated tokens, how many were handed out, state | `append_token`, `take_emittable_tokens`, `cancel`, `fail`; `try_send_tokens` |
| `TextOutputFilter` (`server/sse.rs:22-88`) | stops, text already exposed | `push`, `finish` |
| `NaiveEngine` (`server/naive.rs`) | accepted counter, async mutex around the model | `submit`, one task per request |
| Server process (`server/lib.rs`) | shutdown token, `alive` flag, the scheduler task, axum's connections | build, serve, shut down, drain |
| Model (`core/model.rs`) | keys and values of each layer, in the slab | `prefill`, `forward` |
| `Sampler` (`core/sampler.rs`) | options, generator | `sample` |
| Benchmark client (`bench/lib.rs`) | buffer of the body, counted tokens | split chunks into frames, count |
| tokenizers, metrics, deployment | see section 7 | |

A handler and the engine share, per request, a bounded channel and the
`response_done` token; all of them share the queue and the shutdown token. The
handler talks to the engine by submitting, by cancelling `response_done` (a
textual stop matched) and by dropping its receiver (client gone, or handler
returned). The engine talks to the handler only through the channel and by
dropping its sender. Nothing waits for an acknowledgement, so every read of a
shared signal may be stale by the time it is acted on. That is what is hard here:

* `response_done` and `sender.is_closed()` are two reads, made at six places of
  the scheduler and six of the naive task, with the handler free to act between;
* a decode step walks rows of a batch built earlier, while sequences finish;
* admission has five early exits, each of which must give its KV slot back;
* `submit` unlocks before it notifies, and races `close_and_drain`;
* sends never block: a full channel loses even the terminal event, and the client
  must then learn the end from the dropped sender;
* token stops withhold output that a later token may release or claim;
* text stops overlap characters that are not complete yet, and the stream that reports
  a stop suspends at three yields, at each of which the connection may turn out broken;
* a forward pass that fails leaves layers and rows at different lengths;
* `stop` waits for axum, axum for its handlers, every handler for the scheduler, whose
  task nobody awaits.

`PROJECT.json` lists each hazard at its line with the property that covers it.

### What makes each part correct

* slab: slots are leased to one holder, stale handles are inert, storage is private;
* queue: no lost wakeup, priority then arrival order, nobody refused or served on
  behalf of a client that left, counter and gauge exact;
* scheduler: each request in one place, leases accounted for, rows aligned with
  sequences, streams whole and in order, one cancellation per request, clients that
  leave are evicted, shutdown strands nobody;
* sequence output: no stop leaks, nothing is withheld without a reason, the slice
  never panics, terminal events are true;
* streams: the client reads the model's text up to its first stop, in whatever chunks,
  counts every token, and the engine hears of a stop before it sees a disconnect;
* naive engine: permits and the model always come back;
* both engines: every response is one that a single service specification allows;
* model and sampler: batching cannot be seen in a response, and a token is one the
  options allow, as often as they say;
* process: whatever was accepted is answered or refused, and stopping ends.

## 2. Modules

| Module | Models | Theorems |
|---|---|---|
| `SlotLease` | abstract: what a slot pool promises | |
| `SlabKvCache` | `core/kv_cache.rs`; implements `SlotLease` | `SlabKvCacheProofs` |
| `Scheduler` | `Scheduler::run` with the handlers, their channels, the queue's critical sections, shutdown | `SchedulerProofs` |
| `GenerationService` | abstract: what the server promises about one response, whichever engine serves it | |
| `SchedulerService`, `NaiveService` | the refinement mappings of `Scheduler` and `NaiveEngine` to it | `SchedulerProofs`, `NaiveEngineProofs` |
| `HotbatchServer` | the server process in continuous mode around `Scheduler`: connections, shutdown, drain | |
| `PriorityQueue` | abstract: what the queue promises both sides | |
| `RequestQueue` | the queue's buffer, pruning, scan, permit, counter, gauge; implements `PriorityQueue` | `RequestQueueProofs` |
| `SequenceOutput` | append, match, withhold, trim, deliver, for arbitrary token stops | `SequenceOutputProofs` |
| `TextOutputFilter` | decoding, trimming, `push` and `finish` | `ResponseStreamProofs` |
| `SseFrames` | the frames of a body and how the client finds them again | `ResponseStreamProofs` |
| `ResponseStream` | engine, handler, connection and client of one response, around `TextOutputFilter` | `ResponseStreamProofs` |
| `Sampler` | `sample` as a function, and what its options mean | `DecodeStepProofs` |
| `DecodeStep` | `prefill`, `forward` and the batch loop through every layer of the cache, with `Sampler` | `DecodeStepProofs` |
| `NaiveEngine` | admission, the mutex's line, the task's six looks, delivery, with the handlers | `NaiveEngineProofs` |
| `RequestLimits` | the lengths compared from `ServeArgs` to the model's positions, one request in either mode | `RequestLimitsProofs` |

`MC*.tla` give small instances to the `.cfg` of the same name or prefix.

### From code to model

**SlabKvCache.** One action per public method. A tensor is the set of handles that
wrote it and its length: what matters is whose it is. A handle is a record
`[slot, cap, gen]`; `issued` is a history of every handle handed out, so that stale
ones are presented again. The `u64` generation counts modulo `GenWidth`;
`MaxGeneration` bounds the leases of a slot.

**Scheduler.** `pc` walks through `run`; `probe` says which of the two signals of a
sequence is read next, so `sweep`, the three looks of admission and the row loop
each make the two reads as two steps. Everything the task does between two shared
reads is one step. A request is one identity from `GenerationRequest` through
`Sequence` to KV lease: `pending`, `cur`, `running`, `drained` say where it is,
`held` who has a slot, `gen` and `kv` how many tokens were generated and cached.
Token values are abstracted to their position. `reap_done_sequences` frees and
drops one sequence a step, because a handler sees its sender go at that moment.
Pruning reads each receiver's state at one instant; `retain` in the code reads them
one after the other, but the order of arrivals of "closed" among requests that do not
interact is indistinguishable. Order among equal priorities is left open here and
kept in `RequestQueue`. Token-level stops are left out, because every request the API
builds has none (`server/api.rs:558`); `SequenceOutput` has them.
Two branches the code has cannot be taken, and invariants show why: a missing logits
row (`RowsAligned`), and `allocate` failing for a valid candidate (`WithinLimits`).

**RequestQueue.** The mutex makes each critical section a step; the unlocked gap
between `submit`'s push and `notify_one` is the handler state `pushed`. `Notify`
stores at most one permit. The rest of the loop is reduced to what the queue sees of
it: pop while the batch has room, decode until some sequence ends, wait when idle. What
`retain` keeps is the buffer at the positions of those that stay, in order (`EntriesAt`), and
what `try_pop` takes is the first position that no other precedes.

**SequenceOutput.** One step is one row: `append_token`, `take_emittable_tokens`,
`try_send_tokens`. `room` says whether the channel takes the items; all or none go.

**TextOutputFilter.** Bytes are letters, the lead byte of a two-byte character and
its continuation; decoding replaces what is not a character. Positions are characters
where the code has byte offsets, which always fall on character boundaries. `Decoding` is
the text after each byte, each from the one before.

**ResponseStream.** `kind` selects the handler: `openai_stream`, a generator that is
polled for one data line at a time (`outbox` is what it yields before it receives again),
or `collect_generation`, which runs to its result. The engine sends a number of tokens and
ends in one of four ways; what a token says is chosen when it is read. `Drop` is the server
noticing a broken connection: it may happen between any two polls. The wire carries lines
and line ends, since the JSON inside a line never contains a line end; a chunk is any
beginning of what is on the wire. The client is `one_streaming_request` of the benchmark,
with `shown` added: the text a reader would have put together. Keep-alive comments appear
on an empty wire only, which is when axum's timer matters. `Saying` is what the lines of a
body say, line by line: the text, and how many tokens were told.

**GenerationService.** A response is a status, the tokens made, the items under way, the
tokens read and the times it was counted as cancelled. Requests do not depend on each
other, so one step of an engine maps to a move or a stutter of each. In both mappings an
item that is not the request's own counts as no token of its response.

**HotbatchServer.** Adds to `Scheduler` what surrounds it: `inside` are the requests on
accepted connections, whose handlers alone may step; axum stops accepting once the token
is cancelled and its future completes when the handlers have. axum is external. Naive mode
needs no such module: its watcher task clears `alive` after the same token that
`NaiveEngine::submit` looks at itself.

**DecodeStep.** A hidden state is the tree of everything it was computed from: a token with
its position at layer 0, the sequence of keys seen at each layer above. The logits of a row
are its last hidden state, so equality of trees is stronger than equality of tensors.
`Forward` fails after any layer and any row, with the writes made until then in the cache.
The numbers in a row are any of `Rows`. Deliveries and signals are `Scheduler`'s subject;
here a cancelled row is `RowSkipped`.

**Sampler.** A logit is a level or one of the two NaNs; weights fall with the distance from
the maximum and add up exactly; the generator is any of `Draws` equidistant draws. The stable
sort is the one listing in the order of `Precedes`; what is kept and where the walk ends are
ranks in it, compared by the sum of the weights so far (`WeightSum`), since the code's `total`,
`cumulative` and the amounts it takes off `target` are such sums. `top_p` cuts only below
0.999 (`CutsNothing`: a request with 0.9995 draws from all of the top k), and as 0.001 if it
is smaller than that. Both bounds are one constant, `1 - 1/TopPGrain` and `1/TopPGrain` with
1000 in the code; `decode` takes 3, since with 1000 only rows of hundreds of draws could show
a token beyond them.

**NaiveEngine.** `at` is the task's place, `probe` the signal it reads next. The
`biased` `select!` polls its branches in order, but each poll is only as old as its own
read, so any ready branch may win. The async mutex is FIFO (tokio's contract, the one
external definition). The permit is dropped before the captured sender.

**RequestLimits.** One request of one process: start-up, `validate_options`,
`submit_prompt`, admission, prefill, decode, with lengths as numbers up to `MaxUsize` so
that saturating and checked additions differ. `phase` says where the request is or how it
ended; `failed` stands for every error after the handler accepted it. Options whose check
touches no length are the flag `fault`. Other requests appear only as `TurnAway` (queue
full, shutting down); that a slot is free is `Scheduler`'s `WithinLimits`.

**Handlers**, in both engines: receive a token, match a stop (cancel `response_done`,
then drop the receiver as a later step), receive a terminal event, see the channel
end, or go away with the client.

Each component module also holds *twins*: definitions such as `CanSendUnbounded`
or `DropCandidateLeak`, written just before the definition they vary, with a plausible
bug in it. Nothing refers to them. Substituted for the real definition, each one makes
TLC find the property listed with it in `PROJECT.json` violated: evidence that the
property can fail and that the instance reaches the case.

## 3. Runs

| Run | Instance | Shows |
|---|---|---|
| `slab` | 2 slots, 3 tokens, 2 leases per slot | partition of slots, private storage, `SlotLease` implemented |
| `sched` | 3 requests: r1 may leave or match a stop, r2 stays, r3 is over the token limit; batch of 2, queue of 1, channels of 2, model errors | the safety properties of the composed scheduler, and `GenerationService` implemented |
| `server` | 2 requests in the server process, one client may stall, stop or leave | release of detached requests, shutdown, answers, and that stopping ends |
| `queue` | 4 requests, 2 priorities, queue of 3, batch of 1 | wakeups, counters, priority and FIFO by refinement, everybody leaves the queue |
| `output` | all pairs of stops up to 3 tokens over 2 letters, plus empty and end-token stops; responses up to 5 | the token output path, against a one-pass reference |
| `stream` | 6 lists of overlapping stops, 3 tokens of up to 2 bytes, both handlers, any chunks | text, counting, signalling and termination of a response from channel to client |
| `decode` | 4 requests, 2 slots, 2 layers, 4 tokens, 5 rows of logits with ties, gaps and NaNs, 8 draws; greedy, and a `top_p` that cuts, one too close to 1 to cut, and one below the least | batching is invisible, sampling follows its options |
| `naive` | 3 requests, one place behind the owner, one of 2 tokens | permits, and `GenerationService` implemented |
| `naive_live` | 2 requests of 2 tokens, channel of 2, model errors | stalled clients block nobody |
| `limits` | context of 7, model of 6, channel of 4, lengths 0 to 8 and the largest | accepted requests never fail later, defaults are served, short responses are not evicted |
| `stop_counted`, `filter_tail` | | disagreements between code and its documents, section 5 |

`sched` has a slot for each of its requests, so the parts of `WithinLimits` about the slab do not
bind there; the theorem `LimitsHold` carries them.

**Bounds.** Two requests are enough for every two-party race (rows shifting under each
other, a slot passing from one to the other, a handler between two reads); three are
needed for a request that waits behind a full batch, four for a tie inside a full
queue. Two tokens make a first, a middle and a last decode step, and with a channel of
two a terminal event that does not fit. Stops of three tokens are the shortest with a
proper overlap of themselves and of each other; five tokens let one fail and another
complete. Lengths reach past every limit on both sides, and the largest `usize` makes the
additions saturate. Three text tokens suffice to open, complete and follow a split character.
`WireCapacity` stops the generator from being polled while three symbols are unread: enough
for a frame to be split from its delimiter and for a delimiter to be split. Two layers are the
fewest for a pass to fail between them. Eight draws are enough that every token of every
nucleus owns at least one.

**Deadlock checking is off** in every configuration but `stream`, whose rest states are an
action of their own: the system may be at rest, all
clients served or the server stopped. What must not stop is stated as liveness.

**Fairness.** Tokio polls a task again after whatever it awaited happened: hence weak
fairness of the scheduler's step and of each naive task, whose loops `yield_now`. The
synchronous part of a handler (`submit` to `notify_one` has no await) completes.
A handler whose client stays reads its channel. The handler of a client that may leave
(`Quitters`) has no fairness once it submitted: it may stall for ever with a full
channel. Arrivals, disconnects and shutdown are never fair. In the server process axum goes
on accepting the token's end and completing (its contract). In `stream` the engine ends its
response (what the engines' runs show), a poll that is ready happens, and a client that stays
reads; a client that leaves is noticed, which is axum's contract too.

## 4. Properties

* `EvictedWithinOneStep` uses the history `missed` (rows decoded for a receiver already
  closed): after one such row a sequence is in no later batch. This is what
  `tests/cancellation.rs` tries to observe by timing.
* `CacheMatchesPosition` relates three separately kept numbers: the decode position,
  the tokens in the lease, and the tokens generated.
* `ImplementsService`: a client gets its own tokens, in order, all of them when told
  `length`, all but the ending one when told `stop`, and nothing after a terminal event; a
  request is counted as cancelled at one of the many places that notice a lost client, and
  never if it was answered.
* `StopReturns`, `AcceptedIsServed`: a handler may look at the health flag before the
  shutdown and submit after the drain; were it not refused then, neither its client nor
  `stop` would ever hear back.
* `BatchingIsInvisible`: what `tests/determinism.rs` compares on a few prompts. It fails if a
  sequence of a failed batch is kept, a slot keeps its last tenant's keys, a row is sampled
  for its neighbour, or prefill and decode disagree about the last prompt token.
* `SampledFromTheNucleus`: `sample` sorts, cuts and walks; the property counts how many draws
  choose each token and compares with a definition that does neither. It fails if the token
  that reaches `top_p` is left out or one more is kept, or if a `top_p` of 0.999 or more cuts.
* `NothingStranded`: once closed the queue stays empty, and once the health flag falls
  nobody is queued or holds a slot, so no submit races past the drain.
* `NoLostWakeup`: while the loop waits without a stored permit, every buffered request
  still has its own handler on the way to `notify_one`.
* `IncrementalIsWhole`: deciding and trimming token by token gives the same response as
  one pass over all tokens.
* `ClientReadsTheCutText`: at the far end of filter, frames, chunks and client the text is a
  beginning of the model's text up to its first stop, and all of it at the end;
  `HeldForAReason`: nothing is withheld that no stop could claim.
* `EveryTokenIsCounted`: a token whose text is withheld still has its frame, and no chunking
  loses one. `OnlyTheEngineFails`: the filter's two error branches are dead and `[DONE]`
  is never missed.
* `StopIsSignalledFirst`: whenever the receiver is gone, `response_done` tells a stop from a
  disconnect, also if the client left between the frames that report the stop.
* `NothingFailsLate`: the checks of `api.rs`, `scheduler.rs`, `kv_cache.rs`, `naive.rs` and
  `model.rs` are written apart; what the first accepts, none of the others refuses.
* `PermitsComeBack`, `DetachedIsReleased`: engines do not depend on clients reading.

## 5. Disagreements found

* **`stop_counted`**: `tests/finish_reasons.rs:111` says a matched stop is not a client
  disconnect. A handler that cancels `response_done` after the scheduler read it and
  drops its receiver before the scheduler reads `is_closed` is counted as one.
* **`filter_tail`**: `finish` releases the trailing replacement characters, which `push`
  never saw, without looking for a stop: a stop that ends in U+FFFD is exposed.

Two more were seen in metrics that no module keeps, and no run is spent on them. The
cancellation counter's help text (`core/scheduler.rs:509`) speaks of disconnected clients, but
a connected client whose channel is full is counted too (line 341). The help text of
`hotbatch_shared_decode_steps_total` (line 505) speaks of steps in which at least two sequences
advanced, but a step is counted for a batch of two even if its forward pass failed (line 301).

## 6. Proofs

Eight modules, checked by TLAPS with no step left out. The only assumptions are the
named `ASSUME`s of the component modules (finite sets, natural limits, a channel
constant of at least 2), which TLC evaluates in every run, and the hypothesis of
`ClientReadsTheText`, below.

**Slab.** `SlabInv == TypeOK /\ SlotPartition /\ GenerationsAreFresh`. The partition
alone is not inductive: that a new handle differs from every issued one needs that the
slot's counter is ahead of them all (`GenerationsAreFresh`). From it follow
`SlotsArePartitioned`, `StaleHandlesStayStale`, `ContentIsOwn` and
`SlabImplementsSlotLease` (each step maps to a lease, a release or a stutter).

**Scheduler.** `SchedInv == TypeOK /\ OnePlace /\ SlotAccounting /\ RowsAligned /\
LeaseIsValid /\ Control`. The first four need each other: freeing a slot by removing a
sequence keeps `SlotAccounting` because `running` has no duplicates, a candidate can
be pushed because `OnePlace` keeps it out of `running`, and row indices are valid
because of `RowsAligned`. `LeaseIsValid` says that a candidate with a lease passed
validation, and `Control` ties the flags (`closed`, `alive`, `drained`) to the program
counter. Proved from it: `SchedulerTypes` (with the bound on channels),
`RequestsAreInOnePlace`, `SlotsAreAccountedFor`, `RowsStayAligned`,
`NobodyIsStranded`, for any number of requests and any limits. Handlers are treated once
(`HandlerPlaces`: they can only move their own request into the queue).

**Progress** (also `SchedulerProofs`). Two invariants relative to `SchedInv`. `LimitsInv` counts a candidate as a
running sequence from the moment it is popped and as a slot until it has one: without
that the batch and the slab could each overflow by the candidate between two steps. From
it `LimitsHold`. `ProgressInv` says how far each sequence is: a row that was forwarded and
not yet handed out is one entry ahead of its tokens (`RunningIsCached`), no sequence is done
when a batch is built (`NoneDone`), and a client found gone in a row is done by the end
of the row (`MissedAreDone`). From it `CachePositionsMatch` and `EvictionTakesOneStep`.
Most steps are *calm* (they run nobody new and cache nothing), and are treated once.

**The service** (also `SchedulerProofs`). `SchedulerImplementsService` proves that a scheduler of any size with any
handlers implements `GenerationService`, and so that no client of it can see what the
service does not promise. `StreamInv` ties what is in a channel to what was generated and read
(`ChannelInOrder`, `LiveStream`) and says which sequences may still send; it needs
`ProgressInv`, because a sequence at its limit must not generate once more. The argument
has two halves that meet in one relation: every step of the task does one of four things to
each request (`Effect`: silent, lost, failed, produced), each of which keeps `StreamInv`
(`EffectStream`) and is a move of the service (`EffectMove`); and a handler reads, ends or
enters. The refinement mapping is the one TLC checks, so the theorem and the run `sched`
state the same `ImplementsService`. `NaiveImplementsService` has the same shape for the naive
engine: `AnswerInv` says of a task that may still speak that it was never counted, sent
every token it made and no terminal event, and of one that works that it did not fail and is
below its limit.

**Naive engine.** `PermitInv` is `PermitAccounting` with the task's possible places; each
action either keeps the set of permit holders or moves one request across its border
together with the counter (`PermitsAreExact`). `ModelInv` adds that whoever is at the model
owns its mutex, from which `ModelIsExclusive`.

**Queue.** `QueueInv` relates three things kept apart: the buffer, the log of arrivals
and the place of each handler. Nobody is pushed twice and the log holds exactly who was
pushed (`LogIsComplete`); pruning and removal leave the buffer in the order of the log
(`BufferIsOrdered`); a closed queue is empty and its loop has stopped. The two checked
invariants then need no more: `CountersStayExact`, because each removal counts whom it
removes, and `NoWakeupIsLost`, because a push leaves its handler on the way to `notify_one`
and only a scan of the whole buffer consumes the permit. `QueueKeepsItsPromise` proves the
refinement of `PriorityQueue`: the entry the scan takes is, among those whose clients are
there, one of the most urgent and of these the oldest. The order of the abstract queue is that
of the log, which is where `BufferIsOrdered` is needed.

**Decode step.** `DecodeInv` is about what is in the cache. Slots have one owner
(`SlotsAreOwn`), a request that waits has generated nothing, and the slot of a running
sequence holds, at every layer, the keys that *one* pass over the tokens fed so far computes
(`CacheIsCurrent`); fed are all its tokens but the last, or all of them for rows that the
current pass computed and that are not handed out yet. A failed pass leaves layers at different lengths, which is why its whole
batch is in `done` and exempt. The step rests on two lemmas about the causal mask:
`MaskedOfPrefix` (a position's state depends on what precedes it only, so a pass over a
longer sequence begins like the pass over the shorter) and `RowIsMasked` (the row appended
to the cache is the last row of the whole pass), both by induction over layers. From it
`BatchIsInvisible`, for any number of layers, slots and requests.

**Sampling.** `SamplesKeepToOptions` is about any row, any options and any number of draws,
and rests on lemmas about the operators of `Sampler`. `Precedes` orders the tokens of a row
strictly, so each has a rank of its own; hence a sorted listing exists (`SortSorts`: `Sorted`
is not a choice from nothing), lists every token once (`SortedListsAll`), and begins with what
is ahead of a token (`AheadIsInFront`) and with the top k (`TopKIsInFront`). The mass of a set
that is a front of the listing, weightless tokens aside, is the running sum there
(`MassOfFront`). So the tokens `sample` keeps are the nucleus that was defined without sorting,
with the same mass (`KeptIsNucleus`). The draws on which the walk ends at a token are those
between two sums (`WalkStopsBetweenSums`), and as many as their distance holds steps, give or
take one (`DrawsBetween`), which is what `FollowsTheWeights` allows. The theorem holds for
every `TopPGrain`, 1000 among them, and every `top_p` from 0 up. Assumed of the other constants:
rows have a logit, and weights fall with the distance from the largest logit, which has a
positive one, as those of `exp` do.

**Output.** `OutputInv` adds to the checked properties that no earlier position of the
response is an end (`NoEarlyEnd`) and that what was handed out is exactly what no stop
could claim (`RunningPart`). The central fact, `PrefixShrinks`, is that appending one
token makes the longest pending stop prefix at most one longer; the existence of longest
prefixes comes from the well-foundedness of strict inclusion on finite sets. It yields
`SliceNeverPanics`, `StopsNeverLeak`, `WithheldForAStop` and `TerminalEventsAreTrue`, for
any stops and any response. `TokenByTokenIsWhole` adds that the response is what one pass over
all its tokens gives: by `NoEarlyEnd` the first end of the pass is the last token, and the
longest match there (the earliest start) is where both cut.

**Stream.** In two layers. `FilterInv` says of `TextOutputFilter` that what it exposed is a
function of the bytes and the stops alone, not of how they came (`Exposed`): the decoded text
up to its first stop, or up to the longest tail that some stop begins with, the tail of
replacement characters aside. Two facts carry it. Text already stable never changes when a
byte is added (`StableGrows`), and text once exposed stays exposed, since no stop that is
completed later can begin before the tail held for it (`ExposedForGood`); so both error
branches of the filter are dead. `ResponseInv` adds the pipe: what was exposed is what the
client shows plus what the lines ahead of it say, and tokens are counted alike, over outbox,
wire and the client's half-read buffer (`Answered`, `NothingLost`), `[DONE]` comes last and is
never missed (`DoneIsLast`), and a dropped receiver was preceded by its signal (`Signalled`).
A chunk may end anywhere, so the lemmas on `Said` say how a body splits at each line. From it
`HeldOnlyForAReason`, `StopIsToldFirst`, `EngineFailuresOnly`, `TokensAreCounted` and
`ClientReadsTheText`. The last one alone has a hypothesis, that no stop of a request ends in
U+FFFD: for one that does it is false, which is the disagreement `filter_tail` shows.

**Limits.** `IInv` follows a request through its phases: a serving process has valid
arguments that fit the model, a valid request has its granted tokens, an accepted one its
sum within the limit (`SequenceFits`), a running one a cache that is one entry behind its
tokens (`WithinTheLease`). `AcceptedIsAdmissible` and `AcceptedDecodes` are the two facts
that make `failed` unreachable for every value of the limits; `ShortResponsesFit` bounds
what a channel may hold by what was generated.

**Recursive functions.** `Decoding`, `Saying`, `WeightSum` and the layers of `DecodeStep` are
recursive functions, of which the prover knows nothing until it is shown that one exists. For
each this is shown once (as in `SayingLineByLine`), by taking the least argument without a
value: every non-empty set of naturals has a least element, which follows from the
well-foundedness of inclusion on finite sets. Inductions are made the same way, with a least
counterexample.

**Only model-checked.** All liveness (`DetachedIsReleased`, `ShutdownStops`, `StopReturns`,
`AcceptedIsServed`, `AcceptedIsAnswered`, `PermitsComeBack`, `StreamsEnd`,
`EveryRequestLeavesTheQueue`): fairness and ENABLED are beyond the prover.

## 7. Not modelled

* Tensor arithmetic, weight loading, the scripted test backend, BPE: numeric or library
  code. `DecodeStep` sees what each row is computed from, not the numbers.
* The xorshift generator: any draw is possible in the model. A seed equal to the constant it
  is mixed with makes the state 0 for ever (`core/sampler.rs:36`); every draw is then 0.
* The `Err` of `tokenizer.decode` in both handlers: no tokenizer that is shipped returns it.
* Sampling options and stop lists are validated independently of each other and of any
  state: one flag in `RequestLimits`. JSON beyond what a client tells frames apart by.
* Panics of the scheduler task. The two index expressions that could panic are covered
  (`SliceInBounds`, `RowsAligned`).
* The rounds, percentiles, plot and report of the benchmark: sequential code without a state
  of its own. Latency histograms. Binding, tracing, arguments without a length, deployment.

## 8. Plan

Left to do, in this order: a composition of `ResponseStream` with `Scheduler`, so that the
engine's side of a stream is the real one; `HotbatchServer`'s safety for any number of
connections. The hazards listed without a property (priorities that starve, a scheduler task
that panics, a full channel taken for a disconnect, a zero seed) are each stated with the
reason in `PROJECT.json`.
