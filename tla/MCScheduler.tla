----------------------------- MODULE MCScheduler -----------------------------
(* Small instances of the composed scheduler: three requests for the safety    *)
(* run, the third of which validate_request refuses, and two for the others.   *)
EXTENDS SchedulerService

CONSTANTS r1, r2, r3

MCPair  == {r1, r2}
MCTrio  == {r1, r2, r3}
MCFirst == {r1}

\* Prompts of different length, and two priorities.
MCPromptLen == [r \in Requests |-> IF r = r1 THEN 2 ELSE 1]
MCPriority  == [r \in Requests |-> IF r = r2 THEN 1 ELSE 0]

MCMaxNew      == [r \in Requests |-> 2]
MCTwoOneThree == [r \in Requests |-> IF r = r1 THEN 2 ELSE IF r = r2 THEN 1 ELSE 3]
=============================================================================
