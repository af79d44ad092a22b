---------------------------- MODULE HotbatchServer ----------------------------
(* The server process of lib.rs in continuous mode: axum accepts connections   *)
(* and runs a handler for each, the scheduler runs in a task of its own, and   *)
(* one token shuts both down.  They wait for each other in a circle: serve     *)
(* returns when the handlers have, a handler when the scheduler has answered   *)
(* it, and the scheduler, which nobody awaits, when it sees the token.         *)
EXTENDS SchedulerService

VARIABLES
  inside,            \* requests on a connection that was accepted
  accepting,         \* axum still takes connections
  returned           \* the serve future has completed: RunningServer.join

serverVars == <<inside, accepting, returned>>
processVars == <<vars, serverVars>>

ServerInit == Init /\ inside = {} /\ accepting = TRUE /\ returned = FALSE

Over(r) == hs[r] \in Answered \cup {"unavailable", "queueFull"}

\* A handler starts; its first act is submit_prompt's look at the health flag.
Accept(r) ==
  /\ accepting /\ r \notin inside
  /\ inside' = inside \cup {r}
  /\ UNCHANGED <<vars, accepting, returned>>

\* with_graceful_shutdown: no new connection once the token is cancelled, and the
\* future completes with the last handler.
StopAccepting ==
  /\ accepting /\ shutdown
  /\ accepting' = FALSE
  /\ UNCHANGED <<vars, inside, returned>>

Return ==
  /\ ~accepting /\ ~returned /\ \A r \in inside : Over(r)
  /\ returned' = TRUE
  /\ UNCHANGED <<vars, inside, accepting>>

\* The handlers of accepted connections, the scheduler task, and whoever cancels
\* the token: RunningServer::stop or ctrl-c.
ProcessStep ==
  /\ \/ SchedulerStep
     \/ \E r \in inside : HandlerStep(r) \/ CheckAlive(r) \/ DropMatched(r) \/ Disconnect(r)
     \/ Shutdown
  /\ UNCHANGED serverVars

ServerNext == ProcessStep \/ StopAccepting \/ Return \/ \E r \in Requests : Accept(r)

\* The scheduler task is always polled again, axum goes on, and the handler of a
\* client that stays takes its steps.  The handler of one that may leave may also
\* stall for ever; arrivals, disconnects and the shutdown are not fair.
ServerSpec ==
  /\ ServerInit /\ [][ServerNext]_processVars
  /\ WF_processVars(SchedulerStep /\ UNCHANGED serverVars)
  /\ \A r \in Requests \ Quitters :
       WF_processVars(/\ r \in inside
                      /\ HandlerStep(r) \/ CheckAlive(r) \/ DropMatched(r)
                      /\ UNCHANGED serverVars)
  /\ WF_processVars(StopAccepting \/ Return)

-----------------------------------------------------------------------------
(* Properties.                                                                 *)

(* A request whose connection was accepted is answered or refused, whenever the*)
(* shutdown falls between the handler's looks at the health flag and the queue,*)
(* and though the handlers of others stall with their channels full.           *)
AcceptedIsServed == \A r \in Requests \ Quitters : r \in inside ~> Over(r)

(* stop() and ctrl-c come to an end: no handler, scheduler and drain wait for  *)
(* each other for ever, unless a client neither reads nor goes away.           *)
StopReturns == shutdown ~> returned \/ \E r \in Quitters \cap inside : ~Over(r)
=============================================================================
