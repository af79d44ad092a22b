----------------------------- MODULE NaiveEngine -----------------------------
(* The one-request-at-a-time engine of naive.rs with the handlers it answers:  *)
(* an admission counter, one task per accepted request, and a fair async mutex *)
(* around the model.  The task reads the shutdown token, the response_done     *)
(* token and the state of its channel one after the other at six places; each  *)
(* read is a step, between which handlers, other tasks and the shutdown act.   *)
(* Tokens carry no stop sequence (api.rs:558) and only their number matters.   *)
EXTENDS Naturals, FiniteSets, SequencesExt

CONSTANTS
  Requests,          \* requests that may be submitted
  NoRequest,         \* nobody owns the model
  MaxQueueDepth,     \* max_queue_depth
  MaxNew,            \* max_new_tokens of each request
  RespCap,           \* RESPONSE_CHANNEL_CAPACITY
  Quitters,          \* requests whose client may go away
  Stoppers,          \* requests that carry a textual stop
  ModelMayFail       \* whether prefill and forward may return an error

ASSUME NaiveEngineAssumption ==
  /\ IsFiniteSet(Requests) /\ NoRequest \notin Requests
  /\ MaxQueueDepth \in Nat /\ RespCap \in Nat /\ RespCap >= 2
  /\ MaxNew \in [Requests -> Nat \ {0}]
  /\ Quitters \subseteq Requests /\ Stoppers \subseteq Requests
  /\ ModelMayFail \in BOOLEAN

VARIABLES
  at,                \* where the submission and then the task of a request is
  probe,             \* which of the signals it reads there comes next
  failing,           \* tasks whose run_naive_request returned an error
  accepted,          \* AdmissionState.accepted
  depth,             \* queue-depth gauge
  owner,             \* who holds the model's mutex
  waiters,           \* who waits for it, in order
  runningGauge,      \* running gauge
  gen,               \* generated_tokens.len()
  counted,           \* record_cancelled calls made for the request
  chan,              \* the response channel
  shutdown,          \* the shutdown token is cancelled
  responseDone,      \* cancelled response_done tokens
  hs,                \* where the handler is, or its outcome
  got                \* tokens it has received

taskVars    == <<at, probe, failing>>
admission   == <<accepted, depth>>
lockVars    == <<owner, waiters, runningGauge>>
handlerVars == <<hs, got, responseDone>>
vars == <<taskVars, admission, lockVars, gen, counted, chan, shutdown, handlerVars>>

Init ==
  /\ at = [r \in Requests |-> "none"] /\ probe = [r \in Requests |-> 1] /\ failing = {}
  /\ accepted = 0 /\ depth = 0
  /\ owner = NoRequest /\ waiters = <<>> /\ runningGauge = 0
  /\ gen = [r \in Requests |-> 0] /\ counted = [r \in Requests |-> 0]
  /\ chan = [r \in Requests |-> <<>>]
  /\ shutdown = FALSE /\ responseDone = {}
  /\ hs = [r \in Requests |-> "idle"] /\ got = [r \in Requests |-> 0]

Answered == {"stop", "length", "stopText", "error", "ended", "gone"}
Closed(r) == hs[r] \in Answered

ChannelCapacity(r) ==
  IF MaxNew[r] + 1 < 2 THEN 2 ELSE IF MaxNew[r] + 1 > RespCap THEN RespCap ELSE MaxNew[r] + 1

CanSend(r, items) == ~Closed(r) /\ Len(chan[r]) + Len(items) <= ChannelCapacity(r)

-----------------------------------------------------------------------------
(* Admission.                                                                  *)

Move(r, site) == at' = [at EXCEPT ![r] = site] /\ probe' = [probe EXCEPT ![r] = 1]

\* The counter with the gauge the code derives from it.
SetAccepted(n) == accepted' = n /\ depth' = IF n = 0 THEN 0 ELSE n - 1

\* submit(), the first look at the shutdown token.
Submit(r) ==
  /\ at[r] = "none" /\ hs[r] = "idle"
  /\ IF shutdown THEN hs' = [hs EXCEPT ![r] = "unavailable"] /\ UNCHANGED <<at, probe>>
                 ELSE Move(r, "acquire") /\ UNCHANGED hs
  /\ UNCHANGED <<failing, admission, lockVars, gen, counted, chan, shutdown, got, responseDone>>

\* One owner and max_queue_depth behind it.
HasNoPlace == accepted > MaxQueueDepth

TryAcquire(r) ==
  /\ at[r] = "acquire"
  /\ IF HasNoPlace
       THEN Move(r, "ended") /\ hs' = [hs EXCEPT ![r] = "queueFull"] /\ UNCHANGED admission
       ELSE Move(r, "spawn") /\ SetAccepted(accepted + 1) /\ UNCHANGED hs
  /\ UNCHANGED <<failing, lockVars, gen, counted, chan, shutdown, got, responseDone>>

\* The refusal that leaves the permit taken.
SpawnLeak(r) ==
  /\ at[r] = "spawn"
  /\ IF shutdown
       THEN Move(r, "ended") /\ hs' = [hs EXCEPT ![r] = "unavailable"]
       ELSE Move(r, "start") /\ hs' = [hs EXCEPT ![r] = "receiving"]
  /\ UNCHANGED <<failing, admission, lockVars, gen, counted, chan, shutdown, got, responseDone>>

\* The second look, and the task.
Spawn(r) ==
  /\ at[r] = "spawn"
  /\ IF shutdown
       THEN /\ Move(r, "ended") /\ hs' = [hs EXCEPT ![r] = "unavailable"]
            /\ SetAccepted(accepted - 1)
       ELSE Move(r, "start") /\ hs' = [hs EXCEPT ![r] = "receiving"] /\ UNCHANGED admission
  /\ UNCHANGED <<failing, lockVars, gen, counted, chan, shutdown, got, responseDone>>

-----------------------------------------------------------------------------
(* The task.                                                                   *)

All == <<"shutdown", "done", "closed">>
Two == <<"shutdown", "done">>

\* The places where the task looks around, and what it looks at.
Looks == [start |-> All, locked |-> All, begin |-> Two, prefilled |-> Two, step |-> All,
          forwarded |-> Two]
Then  == [start |-> "queue", locked |-> "create", begin |-> "prefill", prefilled |-> "step",
          step |-> "forward", forwarded |-> "sample"]

Signalled(r, signal) ==
  CASE signal = "shutdown" -> shutdown
    [] signal = "done"     -> r \in responseDone
    [] signal = "closed"   -> Closed(r)

\* The task is over: an error for the shutdown, a cancellation for a lost client.
Quit(r, signal) ==
  /\ Move(r, "leave")
  /\ failing' = IF signal \in {"shutdown", "model"} THEN failing \cup {r} ELSE failing
  /\ counted' = IF signal = "closed" THEN [counted EXCEPT ![r] = @ + 1] ELSE counted

Look(r) ==
  /\ at[r] \in DOMAIN Looks
  /\ LET signals == Looks[at[r]]
         signal  == signals[probe[r]]
     IN  IF Signalled(r, signal) THEN Quit(r, signal)
         ELSE /\ IF probe[r] < Len(signals)
                   THEN probe' = [probe EXCEPT ![r] = @ + 1] /\ UNCHANGED at
                   ELSE Move(r, Then[at[r]])
              /\ UNCHANGED <<failing, counted>>
  /\ UNCHANGED <<admission, lockVars, gen, chan, shutdown, handlerVars>>

\* model.lock() joins the mutex's queue.
Enqueue(r) ==
  /\ at[r] = "queue"
  /\ Move(r, "select")
  /\ IF owner = NoRequest THEN owner' = r /\ UNCHANGED waiters
                          ELSE waiters' = Append(waiters, r) /\ UNCHANGED owner
  /\ UNCHANGED <<failing, admission, runningGauge, gen, counted, chan, shutdown, handlerVars>>

\* The select!: its first three branches are polled before the lock, but each is
\* only as old as its own read, so any branch that is ready may win.
SelectSignal(r) ==
  /\ at[r] = "select"
  /\ \E signal \in {"shutdown", "done", "closed"} : Signalled(r, signal) /\ Quit(r, signal)
  /\ UNCHANGED <<admission, lockVars, gen, chan, shutdown, handlerVars>>

SelectLock(r) ==
  /\ at[r] = "select" /\ owner = r
  /\ Move(r, "locked")
  /\ UNCHANGED <<failing, admission, lockVars, gen, counted, chan, shutdown, handlerVars>>

Create(r) ==
  /\ at[r] = "create"
  /\ runningGauge' = 1 /\ Move(r, "begin")
  /\ UNCHANGED <<failing, admission, owner, waiters, gen, counted, chan, shutdown, handlerVars>>

\* prefill and forward, and the error of either.
ModelCall(r) ==
  /\ at[r] \in {"prefill", "forward"}
  /\ \/ /\ Move(r, IF at[r] = "prefill" THEN "prefilled" ELSE "forwarded")
        /\ UNCHANGED <<failing, counted>>
     \/ ModelMayFail /\ Quit(r, "model")
  /\ UNCHANGED <<admission, lockVars, gen, chan, shutdown, handlerVars>>

Reason(r, n, eos) == IF eos THEN "stop" ELSE IF n >= MaxNew[r] THEN "length" ELSE "none"

Items(reason) ==
  (IF reason = "stop" THEN <<>> ELSE <<"token">>) \o (IF reason = "none" THEN <<>> ELSE <<reason>>)

\* A delivery that fails does not end the loop.
SampleCarriesOn(r) ==
  /\ at[r] = "sample"
  /\ gen' = [gen EXCEPT ![r] = @ + 1]
  /\ \E eos \in BOOLEAN :
       LET reason == Reason(r, gen[r] + 1, eos)
       IN  /\ IF CanSend(r, Items(reason))
                THEN chan' = [chan EXCEPT ![r] = @ \o Items(reason)] /\ UNCHANGED counted
                ELSE counted' = [counted EXCEPT ![r] = @ + 1] /\ UNCHANGED chan
           /\ Move(r, IF reason = "none" THEN "step" ELSE "leave")
  /\ UNCHANGED <<failing, admission, lockVars, shutdown, handlerVars>>

\* The task waits for room for two items instead of giving the client up.
SampleWaits(r) ==
  /\ at[r] = "sample"
  /\ Closed(r) \/ Len(chan[r]) + 2 <= ChannelCapacity(r)
  /\ gen' = [gen EXCEPT ![r] = @ + 1]
  /\ \E eos \in BOOLEAN :
       LET reason == Reason(r, gen[r] + 1, eos)
       IN  IF Closed(r)
             THEN Move(r, "leave") /\ counted' = [counted EXCEPT ![r] = @ + 1] /\ UNCHANGED chan
             ELSE /\ Move(r, IF reason = "none" THEN "step" ELSE "leave")
                  /\ chan' = [chan EXCEPT ![r] = @ \o Items(reason)] /\ UNCHANGED counted
  /\ UNCHANGED <<failing, admission, lockVars, shutdown, handlerVars>>

\* sample, append_token, try_send_tokens; the loop ends with the sequence.
Sample(r) ==
  /\ at[r] = "sample"
  /\ gen' = [gen EXCEPT ![r] = @ + 1]
  /\ \E eos \in BOOLEAN :
       LET reason == Reason(r, gen[r] + 1, eos)
       IN  IF CanSend(r, Items(reason))
             THEN /\ chan' = [chan EXCEPT ![r] = @ \o Items(reason)]
                  /\ Move(r, IF reason = "none" THEN "step" ELSE "leave")
                  /\ UNCHANGED counted
             ELSE /\ counted' = [counted EXCEPT ![r] = @ + 1]
                  /\ Move(r, "leave") /\ UNCHANGED chan
  /\ UNCHANGED <<failing, admission, lockVars, shutdown, handlerVars>>

\* The guard goes to the next in line; an owner that never looked at it, too.
HandOver ==
  /\ owner' = IF waiters = <<>> THEN NoRequest ELSE Head(waiters)
  /\ waiters' = IF waiters = <<>> THEN <<>> ELSE Tail(waiters)

\* run_naive_request returns: running gauge, then the model's guard or the place
\* in its queue.
Leave(r) ==
  /\ at[r] = "leave"
  /\ Move(r, "report")
  /\ IF owner = r THEN HandOver /\ runningGauge' = 0
                  ELSE /\ waiters' = SelectSeq(waiters, LAMBDA w : w # r)
                       /\ UNCHANGED <<owner, runningGauge>>
  /\ UNCHANGED <<failing, admission, gen, counted, chan, shutdown, handlerVars>>

Report(r) ==
  /\ at[r] = "report"
  /\ Move(r, "dropPermit")
  /\ chan' = IF r \in failing /\ CanSend(r, <<"error">>)
               THEN [chan EXCEPT ![r] = Append(@, "error")] ELSE chan
  /\ UNCHANGED <<failing, admission, lockVars, gen, counted, shutdown, handlerVars>>

\* The permit is a local of the task and goes before its captured sender.
DropPermit(r) ==
  /\ at[r] = "dropPermit"
  /\ Move(r, "dropSender") /\ SetAccepted(accepted - 1)
  /\ UNCHANGED <<failing, lockVars, gen, counted, chan, shutdown, handlerVars>>

\* The sender is kept until the receiver is gone.
DropSenderLast(r) ==
  /\ at[r] = "dropSender" /\ Closed(r)
  /\ Move(r, "ended")
  /\ UNCHANGED <<failing, admission, lockVars, gen, counted, chan, shutdown, handlerVars>>

DropSender(r) ==
  /\ at[r] = "dropSender"
  /\ Move(r, "ended")
  /\ UNCHANGED <<failing, admission, lockVars, gen, counted, chan, shutdown, handlerVars>>

TaskStep(r) ==
  \/ Look(r) \/ Enqueue(r) \/ SelectSignal(r) \/ SelectLock(r) \/ Create(r) \/ ModelCall(r)
  \/ Sample(r) \/ Leave(r) \/ Report(r) \/ DropPermit(r) \/ DropSender(r)

-----------------------------------------------------------------------------
(* The handlers, and the shutdown.                                             *)

engineSide == <<taskVars, admission, lockVars, gen, counted, shutdown>>

ReceiveToken(r) ==
  /\ hs[r] = "receiving" /\ chan[r] # <<>> /\ Head(chan[r]) = "token"
  /\ chan' = [chan EXCEPT ![r] = Tail(@)] /\ got' = [got EXCEPT ![r] = @ + 1]
  /\ \/ UNCHANGED <<hs, responseDone>>
     \/ r \in Stoppers /\ hs' = [hs EXCEPT ![r] = "matched"]
        /\ responseDone' = responseDone \cup {r}
  /\ UNCHANGED engineSide

ReceiveTerminal(r) ==
  /\ hs[r] = "receiving" /\ chan[r] # <<>> /\ Head(chan[r]) # "token"
  /\ hs' = [hs EXCEPT ![r] = Head(chan[r])] /\ chan' = [chan EXCEPT ![r] = <<>>]
  /\ UNCHANGED <<engineSide, got, responseDone>>

ReceiveEnd(r) ==
  /\ hs[r] = "receiving" /\ chan[r] = <<>> /\ at[r] = "ended"
  /\ hs' = [hs EXCEPT ![r] = "ended"]
  /\ UNCHANGED <<engineSide, chan, got, responseDone>>

\* The receiver goes with the handler: after a match, or with its client.
DropReceiver(r) ==
  /\ \/ hs[r] = "matched" /\ hs' = [hs EXCEPT ![r] = "stopText"]
     \/ hs[r] = "receiving" /\ r \in Quitters /\ hs' = [hs EXCEPT ![r] = "gone"]
  /\ chan' = [chan EXCEPT ![r] = <<>>]
  /\ UNCHANGED <<engineSide, got, responseDone>>

HandlerStep(r) ==
  TryAcquire(r) \/ Spawn(r) \/ ReceiveToken(r) \/ ReceiveTerminal(r) \/ ReceiveEnd(r)

Shutdown ==
  /\ ~shutdown /\ shutdown' = TRUE
  /\ UNCHANGED <<taskVars, admission, lockVars, gen, counted, chan, handlerVars>>

Next ==
  \/ \E r \in Requests : TaskStep(r) \/ HandlerStep(r) \/ Submit(r) \/ DropReceiver(r)
  \/ Shutdown

Spec == Init /\ [][Next]_vars

\* Tasks are polled again whenever something they wait for happened, and the
\* handler of a client that stays goes on.  The handler of one that may leave may
\* also stall once it has submitted; arrivals, disconnects and the shutdown are
\* not fair.
TaskFairness == \A r \in Requests : WF_vars(TaskStep(r)) /\ WF_vars(TryAcquire(r) \/ Spawn(r))

FairSpec == Spec /\ TaskFairness /\ \A r \in Requests \ Quitters : WF_vars(HandlerStep(r))

-----------------------------------------------------------------------------
(* Properties.                                                                 *)

Permitted == {r \in Requests : at[r] \notin {"none", "acquire", "ended", "dropSender"}}

(* Every permit is returned on every way out, refusals and errors included: the*)
(* counter is the number of requests still inside, one owner and at most       *)
(* max_queue_depth behind it, and the gauge shows those behind.                *)
PermitAccounting ==
  /\ accepted = Cardinality(Permitted) /\ accepted <= MaxQueueDepth + 1
  /\ depth = IF accepted = 0 THEN 0 ELSE accepted - 1

(* A client that stays gets an outcome for every accepted request, though the  *)
(* one before it at the model stalls.                                          *)
AcceptedIsAnswered ==
  \A r \in Requests \ Quitters :
    hs[r] = "receiving" ~> hs[r] \in Answered \cup {"matched"}

(* No task keeps the model or a permit for ever, whether or not its client     *)
(* reads, and one that stands in line moves up.                                *)
PermitsComeBack == \A r \in Requests : at[r] = "start" ~> at[r] = "ended"
=============================================================================
