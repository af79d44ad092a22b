---------------------------- MODULE PriorityQueue ----------------------------
(* What the request queue promises its two sides, without a lock, a buffer or  *)
(* a notification.  An accepted request waits and meets exactly one fate: it is*)
(* served, abandoned because its client left, or failed by the shutdown.  The  *)
(* one served is the oldest among the most important that still have a client. *)
EXTENDS Naturals, FiniteSets, SequencesExt

CONSTANTS Requests, Priority, MaxDepth

VARIABLES
  fate,              \* what became of each request
  arrivals,          \* accepted requests, oldest first
  left,              \* requests whose client has gone
  open               \* whether requests are still accepted

promise == <<fate, arrivals, left, open>>

Waiting == {r \in Requests : fate[r] = "waiting"}
Present == Waiting \ left

\* Those found without a client are abandoned; the fate of the rest is `special`.
Settle(special) ==
  fate' = [r \in Requests |-> IF r \in DOMAIN special THEN special[r]
                              ELSE IF r \in Waiting \cap left THEN "abandoned" ELSE fate[r]]

Older(r, s) == \E i, j \in DOMAIN arrivals : arrivals[i] = r /\ arrivals[j] = s /\ i < j

Init ==
  /\ fate = [r \in Requests |-> "outside"]
  /\ arrivals = <<>> /\ left = {} /\ open = TRUE

Accept(r) ==
  /\ fate[r] = "outside" /\ open /\ Cardinality(Present) < MaxDepth
  /\ Settle([s \in {r} |-> "waiting"])
  /\ arrivals' = Append(arrivals, r)
  /\ UNCHANGED <<left, open>>

\* Nobody is turned away on account of clients that are no longer there.
Reject(r) ==
  /\ fate[r] = "outside" /\ (open => Cardinality(Present) >= MaxDepth)
  /\ Settle([s \in {r} |-> "rejected"])
  /\ UNCHANGED <<arrivals, left, open>>

Serve(r) ==
  /\ r \in Present
  /\ \A other \in Present \ {r} :
       \/ Priority[other] < Priority[r]
       \/ Priority[other] = Priority[r] /\ Older(r, other)
  /\ Settle([s \in {r} |-> "served"])
  /\ UNCHANGED <<arrivals, left, open>>

FindNobody ==
  /\ Present = {}
  /\ Settle(<<>>)
  /\ UNCHANGED <<arrivals, left, open>>

Leave(r) == left' = left \cup {r} /\ UNCHANGED <<fate, arrivals, open>>

Shut ==
  /\ open' = FALSE
  /\ Settle([s \in Waiting |-> "failed"])
  /\ UNCHANGED <<arrivals, left>>

Next ==
  \/ \E r \in Requests : Accept(r) \/ Reject(r) \/ Serve(r) \/ Leave(r)
  \/ FindNobody \/ Shut

Spec == Init /\ [][Next]_promise
=============================================================================
