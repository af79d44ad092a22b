--------------------------- MODULE SchedulerService ---------------------------
(* The scheduler and its handlers implement the generation service.            *)
EXTENDS Scheduler

\* A request is accepted by the push in submit, before the notification.
ServiceStatus(r) ==
  CASE hs[r] \in {"idle", "checked", "refused"} -> "new"
    [] hs[r] \in {"pushed", "receiving"}        -> "open"
    [] OTHER                                    -> hs[r]

\* An item that is not the request's own is no token of its response.
ServiceItem(r, item) == [kind |-> item.kind, n |-> IF item.by = r THEN item.n ELSE 0]

Service == INSTANCE GenerationService WITH
  response <- [r \in Requests |->
                 [status  |-> ServiceStatus(r),
                  made    |-> gen[r],
                  flight  |-> [i \in DOMAIN chan[r] |-> ServiceItem(r, chan[r][i])],
                  read    |-> got[r],
                  counted |-> counted[r]]]

(* Whatever the handlers, slow readers, model errors, cancellations and the    *)
(* shutdown do between any two reads of the loop, every response is one that   *)
(* the service promises: the client reads its own tokens, each once and in     *)
(* order, nothing follows a terminal event, "length" and "stop" are true of    *)
(* the whole response, and a request is counted as cancelled at most once and  *)
(* never if it was answered.                                                   *)
ImplementsService == Service!Spec
=============================================================================
