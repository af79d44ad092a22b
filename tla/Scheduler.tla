------------------------------ MODULE Scheduler ------------------------------
(* The continuous-batching loop of scheduler.rs composed with the HTTP request *)
(* handlers it serves.  One scheduler task owns the running batch and the KV   *)
(* slots; handlers submit into the shared queue, drain their own response      *)
(* channel, match textual stops and drop the receiver.  The two sides share    *)
(* the queue, one bounded channel per request, the response_done token and the *)
(* shutdown token, and every read of one of those by the scheduler is a step   *)
(* of its own: the handler may act between any two of them.                    *)
(*                                                                             *)
(* A request stands for its whole life: submitted GenerationRequest, then      *)
(* Sequence, then the KV lease it holds.  Sampled values are abstracted to the *)
(* position of the token in its response and to whether sampling ended it.     *)
(* Requests carry no token-level stop sequence, as every request the API       *)
(* builds (api.rs:558); SequenceOutput covers those.  FIFO order among equal   *)
(* priorities is left open here; RequestQueue keeps it.                        *)
EXTENDS Naturals, FiniteSets, SequencesExt

CONSTANTS
  Requests,          \* requests that may ever be submitted
  NoRequest,         \* no candidate is being admitted
  PromptLen,         \* prompt tokens of each request
  MaxNew,            \* max_new_tokens of each request
  Priority,          \* priority of each request
  MaxRunning,        \* config.max_running_seqs
  MaxSlots,          \* slots of the KV slab
  MaxDepth,          \* max_depth of the queue
  MaxNewLimit,       \* config.max_new_tokens
  MaxSeqLen,         \* config.max_seq_len
  SlotLen,           \* kv_cache.max_sequence_len()
  MaxPositions,      \* model.max_positions()
  RespCap,           \* RESPONSE_CHANNEL_CAPACITY
  Quitters,          \* requests whose client may go away
  Stoppers,          \* requests that carry a textual stop
  ModelMayFail       \* whether prefill and forward may return an error

ASSUME SchedulerAssumption ==
  /\ IsFiniteSet(Requests) /\ NoRequest \notin Requests
  /\ PromptLen \in [Requests -> Nat] /\ MaxNew \in [Requests -> Nat]
  /\ Priority \in [Requests -> Nat]
  /\ MaxRunning \in Nat /\ MaxSlots \in Nat /\ MaxDepth \in Nat
  /\ MaxNewLimit \in Nat /\ MaxSeqLen \in Nat /\ SlotLen \in Nat
  /\ MaxPositions \in Nat
  /\ RespCap \in Nat /\ RespCap >= 2
  /\ Quitters \subseteq Requests /\ Stoppers \subseteq Requests
  /\ ModelMayFail \in BOOLEAN

VARIABLES
  \* The scheduler task: where it is, and its locals.
  pc,                \* control point in Scheduler::run
  probe,             \* which of a sequence's two signals is read next
  idx,               \* index of the row or sequence a loop is at
  ret,               \* where reap_done_sequences returns to
  cur,               \* the candidate between try_pop and running.push
  drained,           \* requests close_and_drain returned, not yet answered
  \* What it owns.
  running,           \* running: Vec<Sequence>
  batch,             \* rows of the DecodeBatch of the current step
  held,              \* requests with a KV lease in force
  st,                \* SequenceState
  gen,               \* generated_tokens.len()
  kv,                \* tokens cached in the lease
  counted,           \* record_cancelled calls made for the request
  \* What it shares with the handlers.
  pending,           \* QueueState.requests
  closed,            \* QueueState.closed
  permit,            \* the permit stored in Notify
  chan,              \* the response channel
  responseDone,      \* cancelled response_done tokens
  shutdown,          \* the shutdown token is cancelled
  alive,             \* AppState.alive
  \* The handlers.
  hs,                \* where the handler of a request is, or its outcome
  got,               \* tokens it has received
  missed             \* history: rows decoded for a receiver already closed

schedVars   == <<pc, probe, idx, ret, cur, drained>>
ownVars     == <<running, batch, held, st, gen, kv, counted>>
queueVars   == <<pending, closed, permit>>
handlerVars == <<hs, got, responseDone>>
vars == <<schedVars, ownVars, queueVars, chan, shutdown, alive, handlerVars, missed>>

Init ==
  /\ pc = "top" /\ probe = "done" /\ idx = 1 /\ ret = "admit"
  /\ cur = NoRequest /\ drained = {}
  /\ running = <<>> /\ batch = <<>> /\ held = {}
  /\ st = [r \in Requests |-> "none"]
  /\ gen = [r \in Requests |-> 0]
  /\ kv = [r \in Requests |-> 0]
  /\ counted = [r \in Requests |-> 0]
  /\ pending = {} /\ closed = FALSE /\ permit = FALSE
  /\ chan = [r \in Requests |-> <<>>]
  /\ responseDone = {} /\ shutdown = FALSE /\ alive = TRUE
  /\ hs = [r \in Requests |-> "idle"]
  /\ got = [r \in Requests |-> 0]
  /\ missed = {}

-----------------------------------------------------------------------------
(* Shared observations.                                                        *)

\* A handler that has returned, or whose future was dropped, has dropped the
\* receiver: sender.is_closed().
Answered == {"stop", "length", "stopText", "error", "ended", "gone"}
Closed(r) == hs[r] \in Answered

\* The requests whose sender still exists on the scheduler's side.
Tracked == pending \cup drained \cup Range(running) \cup ({cur} \ {NoRequest})

Token(r, n)   == [kind |-> "token", by |-> r, n |-> n]
Finish(r, why) == [kind |-> why, by |-> r, n |-> 0]
Error(r)      == [kind |-> "error", by |-> r, n |-> 0]

\* mpsc::channel(output_capacity.clamp(2, RESPONSE_CHANNEL_CAPACITY)).
ChannelCapacity(r) ==
  IF MaxNew[r] + 1 < 2 THEN 2
  ELSE IF MaxNew[r] + 1 > RespCap THEN RespCap ELSE MaxNew[r] + 1

CanSend(r, items) == ~Closed(r) /\ Len(chan[r]) + Len(items) <= ChannelCapacity(r)

\* try_send_error to every request of S; a full or closed channel loses it.
SendErrors(S) ==
  chan' = [r \in Requests |->
             IF r \in S /\ CanSend(r, <<Error(r)>>) THEN Append(chan[r], Error(r))
                                                    ELSE chan[r]]

\* is_done() that forgets a terminal state.
IsDoneNotCancelled(r) == st[r] \in {"finished", "failed"}

IsDone(r) == st[r] \in {"finished", "cancelled", "failed"}

\* Sequence::cancel leaves a done sequence alone; a popped request has none yet.
Cancel(r) ==
  st' = [st EXCEPT ![r] = IF IsDone(r) \/ r \notin held THEN @ ELSE "cancelled"]

RecordCancelled(S) == counted' = [r \in Requests |-> counted[r] + (IF r \in S THEN 1 ELSE 0)]

DecodePosition(r) == PromptLen[r] + gen[r] - 1

Valid(r) ==
  /\ PromptLen[r] > 0 /\ MaxNew[r] > 0
  /\ MaxNew[r] <= MaxNewLimit
  /\ PromptLen[r] + MaxNew[r] <= MaxSeqLen
  /\ PromptLen[r] + MaxNew[r] <= SlotLen
  /\ PromptLen[r] + MaxNew[r] <= MaxPositions

HasRoomFor(r) == PromptLen[r] + MaxNew[r] <= SlotLen /\ Cardinality(held) < MaxSlots

\* Entries whose receiver is gone; both submit and try_pop drop and count them.
Pruned == {r \in pending : Closed(r)}
Kept   == pending \ Pruned

-----------------------------------------------------------------------------
(* Scheduler::run.                                                             *)

Goto(label) == pc' = label /\ UNCHANGED <<probe, idx, ret, cur, drained>>
Loop(label) == pc' = label /\ idx' = 1 /\ probe' = "done" /\ UNCHANGED <<ret, cur, drained>>
Call(then)  == pc' = "reap" /\ ret' = then /\ UNCHANGED <<probe, idx, cur, drained>>

\* The top of the loop looks at the shutdown token once per iteration.
LoopTop ==
  /\ pc = "top"
  /\ IF shutdown THEN Goto("drain") ELSE Loop("sweep")
  /\ UNCHANGED <<ownVars, queueVars, chan, shutdown, alive, handlerVars, missed>>

\* remove_closed_sequences: response_done is read before sender.is_closed, and
\* the client's handler may do both in between.
NextSubject == idx' = idx + 1 /\ probe' = "done" /\ UNCHANGED <<pc, ret, cur, drained>>
NextProbe(p) == probe' = p /\ UNCHANGED <<pc, idx, ret, cur, drained>>

SweepDone ==
  /\ pc = "sweep" /\ idx <= Len(running) /\ probe = "done"
  /\ IF running[idx] \in responseDone
       THEN Cancel(running[idx]) /\ NextSubject
       ELSE NextProbe("closed") /\ UNCHANGED st
  /\ UNCHANGED <<running, batch, held, gen, kv, counted>>
  /\ UNCHANGED <<queueVars, chan, shutdown, alive, handlerVars, missed>>

SweepClosed ==
  /\ pc = "sweep" /\ idx <= Len(running) /\ probe = "closed"
  /\ NextSubject
  /\ IF Closed(running[idx])
       THEN Cancel(running[idx]) /\ RecordCancelled({running[idx]})
       ELSE UNCHANGED <<st, counted>>
  /\ UNCHANGED <<running, batch, held, gen, kv>>
  /\ UNCHANGED <<queueVars, chan, shutdown, alive, handlerVars, missed>>

SweepEnd ==
  /\ pc = "sweep" /\ idx > Len(running)
  /\ Call("admit")
  /\ UNCHANGED <<ownVars, queueVars, chan, shutdown, alive, handlerVars, missed>>

\* The slot of a cancelled sequence is not freed.
ReapOneLeak ==
  /\ pc = "reap"
  /\ \E i \in DOMAIN running :
       /\ IsDone(running[i])
       /\ \A j \in DOMAIN running : j < i => ~IsDone(running[j])
       /\ held' = IF st[running[i]] = "cancelled" THEN held ELSE held \ {running[i]}
       /\ running' = RemoveAt(running, i)
  /\ UNCHANGED <<schedVars, batch, st, gen, kv, counted>>
  /\ UNCHANGED <<queueVars, chan, shutdown, alive, handlerVars, missed>>

\* reap_done_sequences: retain_mut frees and drops the done sequences in order,
\* here one a step; dropping a sequence drops its sender.
ReapOne ==
  /\ pc = "reap"
  /\ \E i \in DOMAIN running :
       /\ IsDone(running[i])
       /\ \A j \in DOMAIN running : j < i => ~IsDone(running[j])
       /\ held' = held \ {running[i]}
       /\ running' = RemoveAt(running, i)
  /\ UNCHANGED <<schedVars, batch, st, gen, kv, counted>>
  /\ UNCHANGED <<queueVars, chan, shutdown, alive, handlerVars, missed>>

ReapEnd ==
  /\ pc = "reap" /\ \A i \in DOMAIN running : ~IsDone(running[i])
  /\ Goto(ret)
  /\ UNCHANGED <<ownVars, queueVars, chan, shutdown, alive, handlerVars, missed>>

-----------------------------------------------------------------------------
(* Admission.                                                                  *)

\* Off by one in the batch bound.
BatchHasRoomForOneMore == Len(running) <= MaxRunning /\ Cardinality(held) < MaxSlots

BatchHasRoom == Len(running) < MaxRunning /\ Cardinality(held) < MaxSlots

AdmissionClosed ==
  /\ pc = "admit" /\ ~BatchHasRoom
  /\ Goto("capacity")
  /\ UNCHANGED <<ownVars, queueVars, chan, shutdown, alive, handlerVars, missed>>

TryPopEmpty ==
  /\ pc = "admit" /\ BatchHasRoom /\ Kept = {}
  /\ pending' = Kept /\ RecordCancelled(Pruned)
  /\ Goto("capacity")
  /\ UNCHANGED <<running, batch, held, st, gen, kv, closed, permit>>
  /\ UNCHANGED <<chan, shutdown, alive, handlerVars, missed>>

TryPop ==
  /\ pc = "admit" /\ BatchHasRoom
  /\ \E r \in Kept :
       /\ \A other \in Kept : Priority[other] <= Priority[r]
       /\ cur' = r
       /\ pending' = Kept \ {r}
  /\ RecordCancelled(Pruned)
  /\ pc' = "popped" /\ probe' = "done"
  /\ UNCHANGED <<idx, ret, drained, running, batch, held, st, gen, kv, closed, permit>>
  /\ UNCHANGED <<chan, shutdown, alive, handlerVars, missed>>

\* The three places where admission looks whether the candidate is still
\* wanted: just popped, after its lease, after its prefill.
CandidateSites == {"popped", "leased", "prefilled"}
AfterSite == [popped |-> "validate", leased |-> "prefill", prefilled |-> "push"]

\* The early exit that forgets to free the lease.
DropCandidateLeak ==
  /\ pc' = "admit" /\ cur' = NoRequest /\ probe' = "done"
  /\ UNCHANGED <<idx, ret, drained, running, batch, held, gen, kv>>

\* `continue`: the candidate is dropped, and its lease freed when it has one.
DropCandidate ==
  /\ pc' = "admit" /\ cur' = NoRequest /\ probe' = "done"
  /\ held' = held \ {cur}
  /\ UNCHANGED <<idx, ret, drained, running, batch, gen, kv>>

CandidateDone ==
  /\ pc \in CandidateSites /\ probe = "done"
  /\ IF cur \in responseDone
       THEN DropCandidate /\ Cancel(cur)
       ELSE NextProbe("closed") /\ UNCHANGED <<running, batch, held, st, gen, kv>>
  /\ UNCHANGED <<counted, queueVars, chan, shutdown, alive, handlerVars, missed>>

CandidateClosed ==
  /\ pc \in CandidateSites /\ probe = "closed"
  /\ IF Closed(cur)
       THEN DropCandidate /\ Cancel(cur) /\ RecordCancelled({cur})
       ELSE /\ pc' = AfterSite[pc] /\ probe' = "done"
            /\ UNCHANGED <<idx, ret, cur, drained, ownVars>>
  /\ UNCHANGED <<queueVars, chan, shutdown, alive, handlerVars, missed>>

\* validate_request fails, or allocate() does: either way the error is sent and
\* no lease is taken.
RefuseCandidate ==
  /\ pc = "validate" /\ ~(Valid(cur) /\ HasRoomFor(cur))
  /\ SendErrors({cur})
  /\ DropCandidate
  /\ UNCHANGED <<st, counted, queueVars, shutdown, alive, handlerVars, missed>>

\* Sequence::new.
NewSequence ==
  /\ pc = "validate" /\ Valid(cur) /\ HasRoomFor(cur)
  /\ held' = held \cup {cur}
  /\ st' = [st EXCEPT ![cur] = "prefilling"]
  /\ Goto("leased")
  /\ UNCHANGED <<running, batch, gen, kv, counted>>
  /\ UNCHANGED <<queueVars, chan, shutdown, alive, handlerVars, missed>>

\* prefill caches the prompt but its last token, which the first decode feeds.
Prefill ==
  /\ pc = "prefill"
  /\ st' = [st EXCEPT ![cur] = "running"]
  /\ kv' = [kv EXCEPT ![cur] = PromptLen[cur] - 1]
  /\ Goto("prefilled")
  /\ UNCHANGED <<running, batch, held, gen, counted>>
  /\ UNCHANGED <<queueVars, chan, shutdown, alive, handlerVars, missed>>

PrefillFails ==
  /\ pc = "prefill" /\ ModelMayFail
  /\ SendErrors({cur})
  /\ st' = [st EXCEPT ![cur] = "failed"]
  /\ DropCandidate
  /\ UNCHANGED <<counted, queueVars, shutdown, alive, handlerVars, missed>>

Push ==
  /\ pc = "push"
  /\ running' = Append(running, cur)
  /\ pc' = "admit" /\ cur' = NoRequest
  /\ UNCHANGED <<probe, idx, ret, drained, batch, held, st, gen, kv, counted>>
  /\ UNCHANGED <<queueVars, chan, shutdown, alive, handlerVars, missed>>

-----------------------------------------------------------------------------
(* The decode step.                                                            *)

FailAll(S) ==
  /\ SendErrors(S)
  /\ st' = [r \in Requests |-> IF r \in S /\ ~IsDone(r) THEN "failed" ELSE st[r]]

\* remove_sequences_past_model_capacity.
CheckCapacity ==
  /\ pc = "capacity"
  /\ FailAll({r \in Range(running) : DecodePosition(r) >= MaxPositions})
  /\ Call("dispatch")
  /\ UNCHANGED <<running, batch, held, gen, kv, counted>>
  /\ UNCHANGED <<queueVars, shutdown, alive, handlerVars, missed>>

\* build_decode_batch, or the idle select! when nothing runs.
Dispatch ==
  /\ pc = "dispatch"
  /\ batch' = running
  /\ Goto(IF running = <<>> THEN "idle" ELSE "forward")
  /\ UNCHANGED <<running, held, st, gen, kv, counted>>
  /\ UNCHANGED <<queueVars, chan, shutdown, alive, handlerVars, missed>>

\* wait_nonempty: look at the queue, then wait for a permit and look again.
IdleLook ==
  /\ pc = "idle"
  /\ Goto(IF pending = {} THEN "parked" ELSE "top")
  /\ UNCHANGED <<ownVars, queueVars, chan, shutdown, alive, handlerVars, missed>>

IdleWake ==
  /\ pc = "parked" /\ permit
  /\ permit' = FALSE
  /\ Goto("idle")
  /\ UNCHANGED <<ownVars, pending, closed, chan, shutdown, alive, handlerVars, missed>>

\* Shutdown is looked at before parking and never after.
IdleShutdownBeforeParking ==
  /\ pc = "idle" /\ shutdown
  /\ Goto("drain")
  /\ UNCHANGED <<ownVars, queueVars, chan, shutdown, alive, handlerVars, missed>>

\* The other branch of the select!.
IdleShutdown ==
  /\ pc \in {"idle", "parked"} /\ shutdown
  /\ Goto("drain")
  /\ UNCHANGED <<ownVars, queueVars, chan, shutdown, alive, handlerVars, missed>>

\* model.forward writes the last token of every row at the row's position and
\* leaves position + 1 tokens cached.
Forward ==
  /\ pc = "forward"
  /\ kv' = [r \in Requests |-> IF r \in Range(batch) THEN kv[r] + 1 ELSE kv[r]]
  /\ missed' = missed \cup {r \in Range(batch) : Closed(r)}
  /\ Loop("row")
  /\ UNCHANGED <<running, batch, held, st, gen, counted>>
  /\ UNCHANGED <<queueVars, chan, shutdown, alive, handlerVars>>

\* The whole batch fails; the error goes to each row's own channel.
ForwardFails ==
  /\ pc = "forward" /\ ModelMayFail
  /\ FailAll(Range(running))
  /\ Call("top")
  /\ batch' = <<>>
  /\ UNCHANGED <<running, held, gen, kv, counted>>
  /\ UNCHANGED <<queueVars, shutdown, alive, handlerVars, missed>>

\* The row is skipped without cancelling its sequence, or the sequence is
\* removed from running while the rows are being handed out.
RowDoneSkip ==
  /\ pc = "row" /\ idx <= Len(running) /\ probe = "done"
  /\ IF running[idx] \in responseDone THEN NextSubject ELSE NextProbe("closed")
  /\ UNCHANGED <<ownVars, queueVars, chan, shutdown, alive, handlerVars, missed>>

RowDoneRemove ==
  /\ pc = "row" /\ idx <= Len(running) /\ probe = "done"
  /\ IF running[idx] \in responseDone
       THEN /\ running' = RemoveAt(running, idx) /\ held' = held \ {running[idx]}
            /\ UNCHANGED schedVars
       ELSE NextProbe("closed") /\ UNCHANGED <<running, held>>
  /\ UNCHANGED <<batch, st, gen, kv, counted>>
  /\ UNCHANGED <<queueVars, chan, shutdown, alive, handlerVars, missed>>

RowDone ==
  /\ pc = "row" /\ idx <= Len(running) /\ probe = "done"
  /\ IF running[idx] \in responseDone
       THEN Cancel(running[idx]) /\ NextSubject
       ELSE NextProbe("closed") /\ UNCHANGED st
  /\ UNCHANGED <<running, batch, held, gen, kv, counted>>
  /\ UNCHANGED <<queueVars, chan, shutdown, alive, handlerVars, missed>>

\* The `continue` after the eviction is missing: the row is sampled and sent.
RowClosedFallsThrough ==
  /\ pc = "row" /\ idx <= Len(running) /\ probe = "closed"
  /\ NextProbe("sample")
  /\ IF Closed(running[idx])
       THEN Cancel(running[idx]) /\ RecordCancelled({running[idx]})
       ELSE UNCHANGED <<st, counted>>
  /\ UNCHANGED <<running, batch, held, gen, kv>>
  /\ UNCHANGED <<queueVars, chan, shutdown, alive, handlerVars, missed>>

RowClosed ==
  /\ pc = "row" /\ idx <= Len(running) /\ probe = "closed"
  /\ IF Closed(running[idx])
       THEN Cancel(running[idx]) /\ RecordCancelled({running[idx]}) /\ NextSubject
       ELSE NextProbe("sample") /\ UNCHANGED <<st, counted>>
  /\ UNCHANGED <<running, batch, held, gen, kv>>
  /\ UNCHANGED <<queueVars, chan, shutdown, alive, handlerVars, missed>>

\* append_token's verdict on a response of n tokens whose last is, or is not,
\* the end-of-sequence token.
FinishReason(r, n, eos) ==
  IF eos THEN "stop" ELSE IF n >= MaxNew[r] THEN "length" ELSE "none"

\* take_emittable_tokens withholds a terminating token, and the terminal event
\* follows in the same reservation.
Emitted(r, row, n, reason) ==
  (IF reason = "stop" THEN <<>> ELSE <<Token(row, n)>>)
    \o (IF reason = "none" THEN <<>> ELSE <<Finish(r, reason)>>)

\* Row idx of the logits belongs to batch[idx], and is handed to running[idx].
RowSample ==
  /\ pc = "row" /\ idx <= Len(running) /\ probe = "sample"
  /\ NextSubject
  /\ \E eos \in BOOLEAN :
       LET r == running[idx]
           n == gen[r] + 1
           reason == FinishReason(r, n, eos)
           items == Emitted(r, batch[idx], n, reason)
       IN  /\ gen' = [gen EXCEPT ![r] = n]
           /\ IF CanSend(r, items)
                THEN /\ chan' = [chan EXCEPT ![r] = @ \o items]
                     /\ st' = [st EXCEPT ![r] = IF reason = "none" THEN @ ELSE "finished"]
                     /\ UNCHANGED counted
                ELSE /\ st' = [st EXCEPT ![r] = IF reason = "none" THEN "cancelled"
                                                                   ELSE "finished"]
                     /\ RecordCancelled({r})
                     /\ UNCHANGED chan
  /\ UNCHANGED <<running, batch, held, kv>>
  /\ UNCHANGED <<queueVars, shutdown, alive, handlerVars, missed>>

RowEnd ==
  /\ pc = "row" /\ idx > Len(running)
  /\ Call("top")
  /\ batch' = <<>>
  /\ UNCHANGED <<running, held, st, gen, kv, counted>>
  /\ UNCHANGED <<queueVars, chan, shutdown, alive, handlerVars, missed>>

-----------------------------------------------------------------------------
(* Shutdown.                                                                   *)

\* The queue is copied instead of drained.
CloseAndCopy ==
  /\ pc = "drain"
  /\ closed' = TRUE /\ drained' = pending
  /\ pc' = "failQueued"
  /\ UNCHANGED <<probe, idx, ret, cur, ownVars, permit, pending>>
  /\ UNCHANGED <<chan, shutdown, alive, handlerVars, missed>>

CloseAndDrain ==
  /\ pc = "drain"
  /\ closed' = TRUE /\ drained' = pending /\ pending' = {}
  /\ pc' = "failQueued"
  /\ UNCHANGED <<probe, idx, ret, cur, ownVars, permit>>
  /\ UNCHANGED <<chan, shutdown, alive, handlerVars, missed>>

FailQueued ==
  /\ pc = "failQueued"
  /\ \E r \in drained : SendErrors({r}) /\ drained' = drained \ {r}
  /\ UNCHANGED <<pc, probe, idx, ret, cur, ownVars, queueVars>>
  /\ UNCHANGED <<shutdown, alive, handlerVars, missed>>

FailRunning ==
  /\ pc = "failQueued" /\ drained = {} /\ running # <<>>
  /\ SendErrors({Head(running)})
  /\ held' = held \ {Head(running)}
  /\ running' = Tail(running)
  /\ UNCHANGED <<schedVars, batch, st, gen, kv, counted, queueVars>>
  /\ UNCHANGED <<shutdown, alive, handlerVars, missed>>

\* run() returns, and the task that awaited it clears the health flag.
Retire ==
  /\ pc = "failQueued" /\ drained = {} /\ running = <<>>
  /\ alive' = FALSE
  /\ Goto("stopped")
  /\ UNCHANGED <<ownVars, queueVars, chan, shutdown, handlerVars, missed>>

SchedulerStep ==
  \/ LoopTop \/ SweepDone \/ SweepClosed \/ SweepEnd \/ ReapOne \/ ReapEnd
  \/ AdmissionClosed \/ TryPopEmpty \/ TryPop
  \/ CandidateDone \/ CandidateClosed \/ RefuseCandidate \/ NewSequence
  \/ Prefill \/ PrefillFails \/ Push
  \/ CheckCapacity \/ Dispatch \/ IdleLook \/ IdleWake \/ IdleShutdown
  \/ Forward \/ ForwardFails \/ RowDone \/ RowClosed \/ RowSample \/ RowEnd
  \/ CloseAndDrain \/ FailQueued \/ FailRunning \/ Retire

-----------------------------------------------------------------------------
(* The request handlers of api.rs and sse.rs.                                  *)

schedulerOnly == <<schedVars, running, batch, held, st, gen, kv, closed, shutdown, alive, missed>>

\* submit_prompt reads the health flag twice before it submits; the flag only
\* ever falls, so the second read decides.
CheckAlive(r) ==
  /\ hs[r] = "idle"
  /\ hs' = [hs EXCEPT ![r] = IF alive THEN "checked" ELSE "unavailable"]
  /\ UNCHANGED <<schedulerOnly, pending, permit, counted, chan, got, responseDone>>

\* submit() that does not look at the closed flag.
SubmitToClosed(r) ==
  /\ hs[r] = "checked"
  /\ RecordCancelled(Pruned)
  /\ IF Cardinality(Kept) >= MaxDepth
       THEN pending' = Kept /\ hs' = [hs EXCEPT ![r] = "refused"]
       ELSE pending' = Kept \cup {r} /\ hs' = [hs EXCEPT ![r] = "pushed"]
  /\ UNCHANGED <<schedulerOnly, permit, chan, got, responseDone>>

\* RequestQueue::submit, up to the release of the lock.
Submit(r) ==
  /\ hs[r] = "checked"
  /\ RecordCancelled(Pruned)
  /\ IF closed \/ Cardinality(Kept) >= MaxDepth
       THEN pending' = Kept /\ hs' = [hs EXCEPT ![r] = "refused"]
       ELSE pending' = Kept \cup {r} /\ hs' = [hs EXCEPT ![r] = "pushed"]
  /\ UNCHANGED <<schedulerOnly, permit, chan, got, responseDone>>

\* The notification is missing.
NotifyNobody(r) ==
  /\ hs[r] = "pushed"
  /\ hs' = [hs EXCEPT ![r] = "receiving"]
  /\ UNCHANGED <<schedulerOnly, pending, permit, counted, chan, got, responseDone>>

\* notify_one, after the lock.
Notify(r) ==
  /\ hs[r] = "pushed"
  /\ permit' = TRUE
  /\ hs' = [hs EXCEPT ![r] = "receiving"]
  /\ UNCHANGED <<schedulerOnly, pending, counted, chan, got, responseDone>>

\* The handler asks whether the queue is closed only after it was refused.
ReportRefusal(r) ==
  /\ hs[r] = "refused"
  /\ hs' = [hs EXCEPT ![r] = IF closed THEN "unavailable" ELSE "queueFull"]
  /\ UNCHANGED <<schedulerOnly, pending, permit, counted, chan, got, responseDone>>

\* A token that does not complete a textual stop.
ReceiveToken(r) ==
  /\ hs[r] = "receiving" /\ chan[r] # <<>> /\ Head(chan[r]).kind = "token"
  /\ chan' = [chan EXCEPT ![r] = Tail(@)]
  /\ got' = [got EXCEPT ![r] = @ + 1]
  /\ UNCHANGED <<schedulerOnly, pending, permit, counted, hs, responseDone>>

\* A token that does: response_done is cancelled while the receiver still lives.
ReceiveStop(r) ==
  /\ hs[r] = "receiving" /\ chan[r] # <<>> /\ Head(chan[r]).kind = "token"
  /\ r \in Stoppers
  /\ chan' = [chan EXCEPT ![r] = Tail(@)]
  /\ got' = [got EXCEPT ![r] = @ + 1]
  /\ hs' = [hs EXCEPT ![r] = "matched"]
  /\ responseDone' = responseDone \cup {r}
  /\ UNCHANGED <<schedulerOnly, pending, permit, counted>>

\* A terminal item; the handler returns and the receiver goes with it.
ReceiveTerminal(r) ==
  /\ hs[r] = "receiving" /\ chan[r] # <<>> /\ Head(chan[r]).kind # "token"
  /\ hs' = [hs EXCEPT ![r] = Head(chan[r]).kind]
  /\ chan' = [chan EXCEPT ![r] = <<>>]
  /\ UNCHANGED <<schedulerOnly, pending, permit, counted, got, responseDone>>

\* recv() returns None: "generation ended before a terminal event".
ReceiveEnd(r) ==
  /\ hs[r] = "receiving" /\ chan[r] = <<>> /\ r \notin Tracked
  /\ hs' = [hs EXCEPT ![r] = "ended"]
  /\ UNCHANGED <<schedulerOnly, pending, permit, counted, chan, got, responseDone>>

\* The rest of the handler after a match drops the receiver.
DropMatched(r) ==
  /\ hs[r] = "matched"
  /\ hs' = [hs EXCEPT ![r] = "stopText"]
  /\ chan' = [chan EXCEPT ![r] = <<>>]
  /\ UNCHANGED <<schedulerOnly, pending, permit, counted, got, responseDone>>

\* The client goes away while its handler waits, or the handler gives up.
Disconnect(r) ==
  /\ hs[r] = "receiving" /\ r \in Quitters
  /\ hs' = [hs EXCEPT ![r] = "gone"]
  /\ chan' = [chan EXCEPT ![r] = <<>>]
  /\ UNCHANGED <<schedulerOnly, pending, permit, counted, got, responseDone>>

\* What a handler does of its own accord once it has been accepted.
HandlerStep(r) ==
  \/ Submit(r) \/ Notify(r) \/ ReportRefusal(r)
  \/ ReceiveToken(r) \/ ReceiveStop(r) \/ ReceiveTerminal(r) \/ ReceiveEnd(r)

Shutdown ==
  /\ ~shutdown /\ shutdown' = TRUE
  /\ UNCHANGED <<schedVars, ownVars, queueVars, chan, alive, handlerVars, missed>>

Next ==
  \/ SchedulerStep
  \/ \E r \in Requests :
       HandlerStep(r) \/ CheckAlive(r) \/ DropMatched(r) \/ Disconnect(r)
  \/ Shutdown

Spec == Init /\ [][Next]_vars

-----------------------------------------------------------------------------
(* Properties.                                                                 *)

LeasedPcs    == {"leased", "prefill", "prefilled", "push"}
CandidatePcs == {"popped", "validate"} \cup LeasedPcs
Pcs == CandidatePcs \cup {"top", "sweep", "reap", "admit", "capacity", "dispatch", "idle",
                          "parked", "forward", "row", "drain", "failQueued", "stopped"}
Unsubmitted == {"idle", "checked", "refused", "unavailable", "queueFull"}
Item == [kind : {"token", "stop", "length", "error"}, by : Requests, n : Nat]

(* Types of every variable; a response channel never exceeds its capacity.     *)
TypeOK ==
  /\ pc \in Pcs /\ probe \in {"done", "closed", "sample"}
  /\ idx \in Nat \ {0} /\ ret \in {"admit", "dispatch", "top"}
  /\ cur \in Requests \cup {NoRequest} /\ drained \subseteq Requests
  /\ running \in Seq(Requests) /\ batch \in Seq(Requests) /\ held \subseteq Requests
  /\ st \in [Requests -> {"none", "prefilling", "running", "finished", "cancelled", "failed"}]
  /\ gen \in [Requests -> Nat] /\ kv \in [Requests -> Nat]
  /\ counted \in [Requests -> Nat]
  /\ pending \subseteq Requests
  /\ closed \in BOOLEAN /\ permit \in BOOLEAN /\ shutdown \in BOOLEAN /\ alive \in BOOLEAN
  /\ chan \in [Requests -> Seq(Item)]
  /\ \A r \in Requests : Len(chan[r]) <= ChannelCapacity(r)
  /\ responseDone \subseteq Requests /\ missed \subseteq Requests
  /\ hs \in [Requests -> Unsubmitted \cup Answered \cup {"pushed", "receiving", "matched"}]
  /\ got \in [Requests -> Nat]

(* A request is in one place at a time on its way through the queue, the       *)
(* admission loop, the running batch and the shutdown list, and nowhere before *)
(* it was accepted or after it was refused.                                    *)
OnePlace ==
  /\ pending \cap drained = {}
  /\ (pending \cup drained) \cap Range(running) = {}
  /\ cur \notin pending \cup drained \cup Range(running)
  /\ cur = NoRequest <=> pc \notin CandidatePcs
  /\ \A r \in Tracked : hs[r] \notin Unsubmitted

(* Every KV lease in force belongs to exactly one sequence the scheduler still *)
(* has, so that every early exit of admission, of a decode step and of shutdown*)
(* gives its slot back, and no slot is given back while its sequence runs.     *)
SlotAccounting ==
  /\ IsInjective(running)
  /\ held = Range(running) \cup (IF pc \in LeasedPcs THEN {cur} ELSE {})

(* The batch and the slab are never overcommitted, and a valid candidate always*)
(* finds the slot that was free when the queue was popped.                     *)
WithinLimits ==
  /\ Len(running) + (IF pc \in CandidatePcs THEN 1 ELSE 0) <= MaxRunning
  /\ Cardinality(held) <= MaxSlots
  /\ pc = "validate" /\ Valid(cur) => HasRoomFor(cur)
  /\ Cardinality(pending) <= MaxDepth

(* The logits row a sequence samples from is its own: nothing is added to or   *)
(* removed from running between the batch and its last row.                    *)
RowsAligned == pc \in {"forward", "row"} => batch = running

(* The position a row is decoded at is the number of tokens its lease caches,  *)
(* stays inside the model's positions and the lease, and a row the loop leaves *)
(* running has had its token appended.                                         *)
CacheMatchesPosition ==
  \A i \in DOMAIN running :
    LET r == running[i]
        forwarded == pc = "row" /\ i >= idx
    IN  /\ ~IsDone(r) => kv[r] = DecodePosition(r) + (IF forwarded THEN 1 ELSE 0)
        /\ pc = "forward" => DecodePosition(r) < MaxPositions
        /\ kv[r] < PromptLen[r] + MaxNew[r] /\ kv[r] < SlotLen

(* A sequence decodes at most one row for a client that had already gone       *)
(* (tests/cancellation.rs, client_disconnect_evicts_sequence_within_one_step). *)
EvictedWithinOneStep == pc = "forward" => Range(batch) \cap missed = {}

(* A closed queue accepts nothing, and once the health flag has fallen nobody  *)
(* is waiting in the queue or holding a slot: no submit races past the drain.  *)
NothingStranded ==
  /\ closed => pending = {}
  /\ pc = "stopped" => closed /\ Tracked = {} /\ held = {}
  /\ ~alive => pc = "stopped"

(* A request whose client has gone, or was given its textual stop, leaves the  *)
(* scheduler and its slot is free again, whatever the other handlers do.       *)
DetachedIsReleased ==
  \A r \in Requests : Closed(r) \/ r \in responseDone ~> r \notin Tracked \cup held

(* Shutdown is served from every point of the loop.                            *)
ShutdownStops == shutdown ~> pc = "stopped"

(* tests/finish_reasons.rs: "a matched stop is not a client disconnect".       *)
MatchedStopIsNotCounted ==
  [][\A r \in responseDone : counted'[r] = counted[r]]_vars
=============================================================================
