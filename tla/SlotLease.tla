------------------------------ MODULE SlotLease ------------------------------
(* What the KV pool promises to the code that decodes with it, with nothing of *)
(* how it keeps the promise: a slot is leased to one holder at a time, and a   *)
(* lease that was once handed out is never handed out again, so a handle kept  *)
(* past its release can never become somebody's handle by accident.            *)

CONSTANT Handle      \* every handle the pool can ever hand out, with its slot

VARIABLES live,      \* the leases in force
          used       \* every lease handed out so far

vars == <<live, used>>

Init == live = {} /\ used = {}

Acquire(h) ==
  /\ h \notin used
  /\ \A l \in live : l.slot # h.slot
  /\ live' = live \cup {h}
  /\ used' = used \cup {h}

Release(h) ==
  /\ h \in live
  /\ live' = live \ {h}
  /\ UNCHANGED used

Next == \E h \in Handle : Acquire(h) \/ Release(h)

Spec == Init /\ [][Next]_vars
=============================================================================
