--------------------------- MODULE MCHotbatchServer ---------------------------
(* The scheduler's small instance inside the server process: one client that   *)
(* may stall, stop or leave, and one that stays and asks for a single token.   *)
EXTENDS HotbatchServer, MCScheduler
=============================================================================
