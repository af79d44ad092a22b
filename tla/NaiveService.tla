----------------------------- MODULE NaiveService -----------------------------
(* The naive engine and its handlers implement the same generation service as  *)
(* the scheduler.                                                              *)
EXTENDS NaiveEngine

\* A request is accepted once its task is spawned.
ServiceStatus(r) ==
  CASE hs[r] = "idle"      -> "new"
    [] hs[r] = "receiving" -> "open"
    [] OTHER               -> hs[r]

\* Tokens carry no number here: the i-th of the channel follows those received.
ServiceItem(r, i) ==
  [kind |-> chan[r][i], n |-> IF chan[r][i] = "token" THEN got[r] + i ELSE 0]

Service == INSTANCE GenerationService WITH
  response <- [r \in Requests |->
                 [status  |-> ServiceStatus(r),
                  made    |-> gen[r],
                  flight  |-> [i \in DOMAIN chan[r] |-> ServiceItem(r, i)],
                  read    |-> got[r],
                  counted |-> counted[r]]]

(* Every response of the naive engine is one that the service promises,        *)
(* whichever task, signal or error ends the request: complete if the client is *)
(* told so, nothing after a terminal event, and counted as cancelled at most   *)
(* once and never if it was answered.                                          *)
ImplementsService == Service!Spec
=============================================================================
