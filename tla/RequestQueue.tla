----------------------------- MODULE RequestQueue -----------------------------
(* RequestQueue of scheduler.rs: a VecDeque under a mutex, a tokio Notify, the *)
(* handlers that submit, and the scheduler loop as far as it uses the queue.   *)
(* Each critical section is one step; submit's notify_one comes after its lock *)
(* is released and wait_nonempty looks and waits in two steps.                 *)
(*                                                                             *)
(* retain() reads the senders one by one while clients come and go; clients are*)
(* independent, so what it reads is always what some order of their leaving    *)
(* before and after one instant shows.                                         *)
EXTENDS Naturals, FiniteSets, SequencesExt

CONSTANTS
  Requests,          \* requests that may ever be submitted
  Priority,          \* priority of each request
  MaxDepth,          \* QueueState.max_depth
  MaxRunning,        \* config.max_running_seqs
  Quitters           \* requests whose client may go away

ASSUME RequestQueueAssumption ==
  /\ IsFiniteSet(Requests) /\ Priority \in [Requests -> Nat]
  /\ MaxDepth \in Nat /\ MaxRunning \in Nat \ {0} /\ Quitters \subseteq Requests

VARIABLES
  requests,          \* QueueState.requests
  closed,            \* QueueState.closed
  permit,            \* the permit Notify keeps
  depth,             \* hotbatch queue-depth gauge
  cancelled,         \* cancellations counted by the queue
  producer,          \* where each submitting handler is
  gone,              \* clients that dropped their receiver
  loop,              \* where the scheduler loop is with respect to the queue
  serving,           \* requests popped and still running
  served,            \* history: requests ever popped
  failed,            \* history: requests close_and_drain returned
  arrivals           \* history: requests in the order they were pushed

vars == <<requests, closed, permit, depth, cancelled, producer, gone,
          loop, serving, served, failed, arrivals>>

Init ==
  /\ requests = <<>> /\ closed = FALSE /\ permit = FALSE
  /\ depth = 0 /\ cancelled = 0
  /\ producer = [r \in Requests |-> "idle"] /\ gone = {}
  /\ loop = "top" /\ serving = {}
  /\ served = {} /\ failed = {} /\ arrivals = <<>>

-----------------------------------------------------------------------------

\* The clean-up that leaves the counter alone.
PruneSilently ==
  UNCHANGED cancelled

InOrder(positions) ==
  LET n == Cardinality(positions)
  IN  CHOOSE order \in [1 .. n -> positions] : \A i, j \in 1 .. n : i < j => order[i] < order[j]

\* The entries at some positions, in the order they have in the buffer.
EntriesAt(positions) ==
  [i \in 1 .. Cardinality(positions) |-> requests[InOrder(positions)[i]]]

\* The entries retain() keeps.
Live == {i \in DOMAIN requests : requests[i] \notin gone}

\* What both submit and try_pop count when they drop the entries of the gone.
CountPruned == cancelled' = cancelled + (Len(requests) - Cardinality(Live))

SetQueueDepth(n) == depth' = n

IsFull == closed \/ Cardinality(Live) >= MaxDepth

\* submit(), up to the release of its lock.
Submit(r) ==
  /\ producer[r] = "idle"
  /\ CountPruned
  /\ IF IsFull
       THEN /\ requests' = EntriesAt(Live)
            /\ producer' = [producer EXCEPT ![r] = "refused"]
            /\ UNCHANGED arrivals
       ELSE /\ requests' = Append(EntriesAt(Live), r)
            /\ producer' = [producer EXCEPT ![r] = "pushed"]
            /\ arrivals' = Append(arrivals, r)
  /\ SetQueueDepth(Len(requests'))
  /\ UNCHANGED <<closed, permit, gone, loop, serving, served, failed>>

\* notify_one only when the queue had been empty.
NotifyFirst(r) ==
  /\ producer[r] = "pushed"
  /\ permit' = (permit \/ Len(requests) = 1)
  /\ producer' = [producer EXCEPT ![r] = "accepted"]
  /\ UNCHANGED <<requests, closed, depth, cancelled, gone, loop, serving, served, failed, arrivals>>

NotifyOne(r) ==
  /\ producer[r] = "pushed"
  /\ permit' = TRUE
  /\ producer' = [producer EXCEPT ![r] = "accepted"]
  /\ UNCHANGED <<requests, closed, depth, cancelled, gone, loop, serving, served, failed, arrivals>>

\* A client whose request is in the queue goes away.
Leave(r) ==
  /\ r \in Quitters /\ producer[r] \in {"pushed", "accepted"} /\ r \notin gone
  /\ gone' = gone \cup {r}
  /\ UNCHANGED <<requests, closed, permit, depth, cancelled, producer, loop, serving, served,
                 failed, arrivals>>

-----------------------------------------------------------------------------
(* The scheduler loop.                                                         *)

GoTo(label) ==
  /\ loop' = label
  /\ UNCHANGED <<requests, closed, permit, depth, cancelled, producer, gone, serving, served,
                 failed, arrivals>>

StartAdmission == loop = "top" /\ GoTo("admit")

StopAdmission ==
  /\ loop = "admit" /\ Cardinality(serving) >= MaxRunning
  /\ GoTo("decode")

\* A later entry of the same priority replaces the best so far.
IsBestLast(best) ==
  \A i \in Live : \/ Priority[requests[i]] < Priority[requests[best]]
                  \/ Priority[requests[i]] = Priority[requests[best]] /\ i <= best

\* What the scan of try_pop finds: a later entry has to be strictly more important.
IsBest(best) ==
  \A i \in Live : \/ Priority[requests[i]] < Priority[requests[best]]
                  \/ Priority[requests[i]] = Priority[requests[best]] /\ best <= i

TryPop ==
  /\ loop = "admit" /\ Cardinality(serving) < MaxRunning
  /\ CountPruned
  /\ \E best \in Live :
       /\ IsBest(best)
       /\ requests' = EntriesAt(Live \ {best})
       /\ serving' = serving \cup {requests[best]}
       /\ served' = served \cup {requests[best]}
  /\ SetQueueDepth(Len(requests'))
  /\ UNCHANGED <<closed, permit, producer, gone, loop, failed, arrivals>>

TryPopNone ==
  /\ loop = "admit" /\ Cardinality(serving) < MaxRunning /\ Live = {}
  /\ CountPruned
  /\ requests' = <<>> /\ SetQueueDepth(0)
  /\ loop' = "decode"
  /\ UNCHANGED <<closed, permit, producer, gone, serving, served, failed, arrivals>>

\* Decode steps until some of the batch is done; each response is finite.
Decode ==
  /\ loop = "decode" /\ serving # {}
  /\ \E done \in SUBSET serving \ {{}} : serving' = serving \ done
  /\ loop' = "top"
  /\ UNCHANGED <<requests, closed, permit, depth, cancelled, producer, gone, served, failed,
                 arrivals>>

GoIdle == loop = "decode" /\ serving = {} /\ GoTo("look")

\* wait_nonempty(): is_empty, then notified().await and around again.
LookNonempty == loop = "look" /\ GoTo(IF requests = <<>> THEN "parked" ELSE "top")

WakeUp ==
  /\ loop = "parked" /\ permit
  /\ permit' = FALSE
  /\ loop' = "look"
  /\ UNCHANGED <<requests, closed, depth, cancelled, producer, gone, serving, served, failed,
                 arrivals>>

\* The shutdown token is looked at when the loop comes round and while it is
\* idle; notify_waiters finds nobody waiting, the loop being the only waiter.
CloseAndDrain ==
  /\ loop \in {"top", "look", "parked"}
  /\ closed' = TRUE
  /\ requests' = <<>> /\ SetQueueDepth(0)
  /\ failed' = failed \cup Range(requests)
  /\ loop' = "stopped"
  /\ UNCHANGED <<permit, cancelled, producer, gone, serving, served, arrivals>>

LoopStep ==
  \/ StartAdmission \/ StopAdmission \/ TryPop \/ TryPopNone \/ Decode \/ GoIdle
  \/ LookNonempty \/ WakeUp

Next ==
  \/ LoopStep \/ CloseAndDrain
  \/ \E r \in Requests : Submit(r) \/ NotifyOne(r) \/ Leave(r)

Spec == Init /\ [][Next]_vars

\* The loop is always polled again and a handler past its lock always reaches
\* its notify_one, for there is no await between the two.
FairSpec == Spec /\ WF_vars(LoopStep) /\ \A r \in Requests : WF_vars(NotifyOne(r))

-----------------------------------------------------------------------------
(* Properties.                                                                 *)

(* While the loop waits and no wakeup is stored, every request in the buffer   *)
(* still has the handler that pushed it on its way to notify_one: whichever of *)
(* them is dropped meanwhile, the others do not depend on its wakeup.          *)
NoLostWakeup ==
  loop = "parked" /\ ~permit => \A r \in Range(requests) : producer[r] = "pushed"

(* What an operator watches is exact after every critical section, those that  *)
(* return early included: every accepted request is in the buffer, was popped  *)
(* once, was returned by the drain, or was counted as cancelled, and the gauge *)
(* is the length of the buffer.                                                *)
CountersAreExact ==
  /\ served \cap failed = {} /\ (served \cup failed) \cap Range(requests) = {}
  /\ Len(arrivals) = Len(requests) + Cardinality(served) + Cardinality(failed) + cancelled
  /\ depth = Len(requests)

\* The promise, with each request's fate read off the buffer and the histories.
FateOf(r) ==
  IF r \in Range(requests) THEN "waiting"
  ELSE IF r \in served THEN "served"
  ELSE IF r \in failed THEN "failed"
  ELSE IF producer[r] = "refused" THEN "rejected"
  ELSE IF producer[r] = "idle" THEN "outside" ELSE "abandoned"

Promise == INSTANCE PriorityQueue
             WITH fate <- [r \in Requests |-> FateOf(r)], left <- gone, open <- ~closed

(* The buffer, its clean-ups, its depth test and its scan keep the promise:    *)
(* oldest first among the most important, nobody served or refused because of  *)
(* a client that left, nobody lost.                                            *)
ImplementsPriorityQueue == Promise!Spec

(* An accepted request does not stay in the buffer: the loop pops it, or drops *)
(* it when its client leaves, whenever it was pushed relative to the loop's    *)
(* looking and waiting.  Stopping the loop drains the buffer too.              *)
EveryRequestLeavesTheQueue ==
  \A r \in Requests : r \in Range(requests) ~> r \notin Range(requests)
=============================================================================
