-------------------------- MODULE NaiveEngineProofs --------------------------
(* For every set of requests and every queue depth: no permit of the naive     *)
(* engine is lost or returned twice, no two tasks are at the model, and every  *)
(* response is one that the generation service promises.                       *)
EXTENDS NaiveService, SequenceTheorems, FiniteSetTheorems, TLAPS

Outside == {"none", "acquire", "ended", "dropSender"}

\* Where a task holds the guard of the model's mutex and uses the model.
ModelSites == {"locked", "create", "begin", "prefill", "prefilled", "step",
               "forward", "forwarded", "sample"}

Sites == Outside \cup ModelSites
           \cup {"spawn", "start", "queue", "select", "leave", "report", "dropPermit"}

AtModel(r) == at[r] \in ModelSites

\* Whoever is at the model holds it: the guard goes only once it has left.
OwnersAtModel == \A r \in Requests : AtModel(r) => owner = r

PermitInv == at \in [Requests -> Sites] /\ PermitAccounting

ModelInv == at \in [Requests -> Sites] /\ OwnersAtModel

(* The mutex does its work although a waiter gives up while it is handed the   *)
(* guard, and a guard is handed on by a task that never used it.               *)
OneTaskAtTheModel ==
  \A r, s \in Requests : AtModel(r) /\ AtModel(s) => r = s

-----------------------------------------------------------------------------
(* What a move does to the set of requests that hold a permit.                 *)

(* The requests with a permit are finitely many.                               *)
LEMMA PermittedIsFinite ==
  /\ IsFiniteSet(Permitted)
  /\ Cardinality(Permitted) \in Nat
BY NaiveEngineAssumption, FS_Subset, FS_CardinalityType DEF Permitted

(* A move among the sites with a permit, or among those without one, keeps the *)
(* set.                                                                        *)
LEMMA MoveKeepsPermitted ==
  ASSUME NEW r \in Requests, NEW site \in Sites, at \in [Requests -> Sites],
         Move(r, site), at[r] \in Outside <=> site \in Outside
  PROVE  at' \in [Requests -> Sites] /\ Permitted' = Permitted
BY DEF Move, Permitted, Outside

(* A request that is granted a permit joins the set.                           *)
LEMMA MoveEnters ==
  ASSUME NEW r \in Requests, NEW site \in Sites, at \in [Requests -> Sites],
         Move(r, site), at[r] \in Outside, site \notin Outside
  PROVE  /\ at' \in [Requests -> Sites]
         /\ r \notin Permitted /\ Permitted' = Permitted \cup {r}
BY DEF Move, Permitted, Outside

(* One that returns it leaves the set.                                         *)
LEMMA MoveLeaves ==
  ASSUME NEW r \in Requests, NEW site \in Sites, at \in [Requests -> Sites],
         Move(r, site), at[r] \notin Outside, site \in Outside
  PROVE  /\ at' \in [Requests -> Sites]
         /\ r \in Permitted /\ Permitted' = Permitted \ {r}
BY DEF Move, Permitted, Outside

(* One permit less for one request less; the counter never goes below zero.    *)
LEMMA ReturningIsExact ==
  ASSUME NEW r \in Requests, NEW site \in Sites, PermitInv,
         Move(r, site), at[r] \notin Outside, site \in Outside,
         SetAccepted(accepted - 1)
  PROVE  PermitInv'
<1>1. /\ at' \in [Requests -> Sites]
      /\ r \in Permitted /\ Permitted' = Permitted \ {r}
  BY MoveLeaves DEF PermitInv
<1>2. Cardinality(Permitted') = Cardinality(Permitted) - 1
  BY <1>1, PermittedIsFinite, FS_RemoveElement
<1>3. Cardinality(Permitted') \in Nat
  BY <1>1, PermittedIsFinite, FS_RemoveElement, FS_CardinalityType
<1>4. accepted' = accepted - 1 /\ depth' = IF accepted' = 0 THEN 0 ELSE accepted' - 1
  BY DEF SetAccepted
<1> QED
  BY <1>1, <1>2, <1>3, <1>4, PermittedIsFinite, NaiveEngineAssumption
  DEF PermitInv, PermitAccounting

(* A step that leaves the counter alone and keeps the set keeps the invariant. *)
LEMMA UntouchedAccounting ==
  ASSUME PermitInv, at' \in [Requests -> Sites], Permitted' = Permitted,
         UNCHANGED admission
  PROVE  PermitInv'
BY DEF PermitInv, PermitAccounting, admission

-----------------------------------------------------------------------------
(* Where each action of a task moves it.                                       *)

(* Every action of a task but DropPermit keeps the permits and the counter; it *)
(* changes no other task's place.                                              *)
LEMMA TaskMoves ==
  ASSUME NEW r \in Requests, at \in [Requests -> Sites],
         \/ Look(r) \/ Enqueue(r) \/ SelectSignal(r) \/ SelectLock(r)
         \/ Create(r) \/ ModelCall(r) \/ Sample(r) \/ Leave(r) \/ Report(r)
         \/ DropSender(r)
  PROVE  /\ UNCHANGED admission
         /\ \/ UNCHANGED at
            \/ \E site \in Sites : /\ Move(r, site)
                                   /\ at[r] \in Outside <=> site \in Outside
<1> USE DEF Sites, Outside, ModelSites
<1>1. CASE Look(r)
  <2>1. at[r] \in {"start", "locked", "begin", "prefilled", "step", "forwarded"}
    BY <1>1 DEF Look, Looks
  <2>2. Then[at[r]] \in {"queue", "create", "prefill", "step", "forward", "sample"}
    BY <2>1 DEF Then
  <2>3. \/ UNCHANGED at \/ Move(r, "leave") \/ Move(r, Then[at[r]])
    BY <1>1 DEF Look, Quit
  <2>4. UNCHANGED admission
    BY <1>1 DEF Look
  <2> QED BY <2>1, <2>2, <2>3, <2>4
<1>2. CASE Enqueue(r)
  BY <1>2 DEF Enqueue
<1>3. CASE SelectSignal(r)
  BY <1>3 DEF SelectSignal, Quit
<1>4. CASE SelectLock(r)
  BY <1>4 DEF SelectLock
<1>5. CASE Create(r)
  BY <1>5 DEF Create
<1>6. CASE ModelCall(r)
  <2>1. at[r] \in {"prefill", "forward"}
    BY <1>6 DEF ModelCall
  <2>2. Move(r, "prefilled") \/ Move(r, "forwarded") \/ Move(r, "leave")
    BY <1>6 DEF ModelCall, Quit
  <2> QED BY <1>6, <2>1, <2>2 DEF ModelCall
<1>7. CASE Sample(r)
  <2>1. at[r] = "sample" /\ UNCHANGED admission
    BY <1>7 DEF Sample
  <2>2. Move(r, "step") \/ Move(r, "leave")
    BY <1>7 DEF Sample
  <2> QED BY <2>1, <2>2
<1>8. CASE Leave(r)
  BY <1>8 DEF Leave
<1>9. CASE Report(r)
  BY <1>9 DEF Report
<1>10. CASE DropSender(r)
  BY <1>10 DEF DropSender
<1> QED
  BY <1>1, <1>2, <1>3, <1>4, <1>5, <1>6, <1>7, <1>8, <1>9, <1>10

-----------------------------------------------------------------------------
(* The permits.                                                                *)

LEMMA PermitInvInit == Init => PermitInv
<1> SUFFICES ASSUME Init PROVE PermitInv
  OBVIOUS
<1>1. Permitted = {} /\ at \in [Requests -> Sites]
  BY DEF Init, Permitted, Sites, Outside
<1>2. accepted = 0 /\ depth = 0
  BY DEF Init
<1> QED
  BY <1>1, <1>2, FS_EmptySet, NaiveEngineAssumption DEF PermitInv, PermitAccounting

(* A refused request takes nothing; one let in takes one permit, and only when *)
(* at most max_queue_depth others hold one.                                    *)
LEMMA TryAcquireKeepsPermitInv ==
  ASSUME NEW r \in Requests, PermitInv, TryAcquire(r)
  PROVE  PermitInv'
<1>1. at[r] = "acquire"
  BY DEF TryAcquire
<1>2. CASE HasNoPlace
  <2>1. Move(r, "ended") /\ UNCHANGED admission
    BY <1>2 DEF TryAcquire
  <2> QED
    BY <1>1, <2>1, MoveKeepsPermitted, UntouchedAccounting
    DEF PermitInv, Sites, Outside
<1>3. CASE ~HasNoPlace
  <2>1. Move(r, "spawn") /\ SetAccepted(accepted + 1)
    BY <1>3 DEF TryAcquire
  <2>2. /\ at' \in [Requests -> Sites]
        /\ r \notin Permitted /\ Permitted' = Permitted \cup {r}
    BY <1>1, <2>1, MoveEnters DEF PermitInv, Sites, Outside
  <2>3. Cardinality(Permitted') = Cardinality(Permitted) + 1
    BY <2>2, PermittedIsFinite, FS_AddElement
  <2>4. accepted \in Nat /\ accepted <= MaxQueueDepth
    BY <1>3, PermittedIsFinite, NaiveEngineAssumption
    DEF PermitInv, PermitAccounting, HasNoPlace
  <2> QED
    BY <2>1, <2>2, <2>3, <2>4, NaiveEngineAssumption
    DEF PermitInv, PermitAccounting, SetAccepted
<1> QED BY <1>2, <1>3

(* A shutdown between the permit and the task returns the permit.              *)
LEMMA SpawnKeepsPermitInv ==
  ASSUME NEW r \in Requests, PermitInv, Spawn(r)
  PROVE  PermitInv'
<1>1. at[r] = "spawn"
  BY DEF Spawn
<1>2. CASE shutdown
  <2>1. Move(r, "ended") /\ SetAccepted(accepted - 1)
    BY <1>2 DEF Spawn
  <2> QED BY <1>1, <2>1, ReturningIsExact DEF Sites, Outside
<1>3. CASE ~shutdown
  <2>1. Move(r, "start") /\ UNCHANGED admission
    BY <1>3 DEF Spawn
  <2> QED
    BY <1>1, <2>1, MoveKeepsPermitted, UntouchedAccounting
    DEF PermitInv, Sites, Outside
<1> QED BY <1>2, <1>3

LEMMA TaskStepKeepsPermitInv ==
  ASSUME NEW r \in Requests, PermitInv, TaskStep(r)
  PROVE  PermitInv'
<1>1. CASE DropPermit(r)
  <2>1. /\ at[r] = "dropPermit"
        /\ Move(r, "dropSender") /\ SetAccepted(accepted - 1)
    BY <1>1 DEF DropPermit
  <2> QED BY <2>1, ReturningIsExact DEF Sites, Outside
<1>2. CASE ~DropPermit(r)
  <2>1. /\ UNCHANGED admission
        /\ \/ UNCHANGED at
           \/ \E site \in Sites : /\ Move(r, site)
                                  /\ at[r] \in Outside <=> site \in Outside
    BY <1>2, TaskMoves DEF TaskStep, PermitInv
  <2>2. at' \in [Requests -> Sites] /\ Permitted' = Permitted
    <3>1. CASE UNCHANGED at
      BY <3>1 DEF PermitInv, Permitted
    <3>2. CASE \E site \in Sites : /\ Move(r, site)
                                   /\ at[r] \in Outside <=> site \in Outside
      BY <3>2, MoveKeepsPermitted DEF PermitInv
    <3> QED BY <2>1, <3>1, <3>2
  <2> QED BY <2>1, <2>2, UntouchedAccounting
<1> QED BY <1>1, <1>2

LEMMA PermitInvStep == PermitInv /\ [Next]_vars => PermitInv'
<1> SUFFICES ASSUME PermitInv, [Next]_vars PROVE PermitInv'
  OBVIOUS
<1>1. CASE \E r \in Requests : TaskStep(r)
  BY <1>1, TaskStepKeepsPermitInv
<1>2. CASE \E r \in Requests : TryAcquire(r) \/ Spawn(r)
  BY <1>2, TryAcquireKeepsPermitInv, SpawnKeepsPermitInv
<1>3. CASE \E r \in Requests : Submit(r)
  <2> PICK r \in Requests : Submit(r)
    BY <1>3
  <2>1. CASE shutdown
    BY <2>1, UntouchedAccounting DEF Submit, PermitInv, Permitted
  <2>2. CASE ~shutdown
    <3>1. Move(r, "acquire") /\ UNCHANGED admission /\ at[r] = "none"
      BY <2>2 DEF Submit
    <3> QED
      BY <3>1, MoveKeepsPermitted, UntouchedAccounting
      DEF PermitInv, Sites, Outside
  <2> QED BY <2>1, <2>2
<1>4. CASE \E r \in Requests :
             ReceiveToken(r) \/ ReceiveTerminal(r) \/ ReceiveEnd(r) \/ DropReceiver(r)
  <2>1. UNCHANGED <<at, admission>>
    BY <1>4 DEF ReceiveToken, ReceiveTerminal, ReceiveEnd, DropReceiver, engineSide, taskVars
  <2> QED BY <2>1, UntouchedAccounting DEF PermitInv, Permitted
<1>5. CASE Shutdown \/ UNCHANGED vars
  <2>1. UNCHANGED <<at, admission>>
    BY <1>5 DEF Shutdown, vars, taskVars
  <2> QED BY <2>1, UntouchedAccounting DEF PermitInv, Permitted
<1> QED BY <1>1, <1>2, <1>3, <1>4, <1>5 DEF Next, HandlerStep

(* Whatever way a request leaves by, refused by the counter, by the shutdown   *)
(* before its task exists, at any of the task's looks, by a failed model call  *)
(* or at its end, its permit is returned exactly once, so the counter never    *)
(* passes max_queue_depth + 1 nor sinks below the requests that still count.   *)
THEOREM PermitsAreExact == Spec => []PermitAccounting
<1>1. PermitInv => PermitAccounting
  BY DEF PermitInv
<1> QED BY <1>1, PermitInvInit, PermitInvStep, PTL DEF Spec

-----------------------------------------------------------------------------
(* The model.                                                                  *)

LEMMA ModelInvInit == Init => ModelInv
BY DEF Init, ModelInv, OwnersAtModel, AtModel, Sites, Outside, ModelSites

(* A task that enters the model's sites owns it; any other step there leaves   *)
(* the owner alone, and the guard is handed on only by one that is not there.  *)
LEMMA TaskAtModel ==
  ASSUME NEW r \in Requests, ModelInv, TaskStep(r)
  PROVE  /\ \A s \in Requests \ {r} : at'[s] = at[s]
         /\ at'[r] \in ModelSites => owner' = r
         /\ owner # r /\ owner # NoRequest => owner' = owner
<1>1. CASE Look(r)
  <2>1. UNCHANGED owner
    BY <1>1 DEF Look, lockVars
  <2>2. at[r] \in {"start", "locked", "begin", "prefilled", "step", "forwarded"}
    BY <1>1 DEF Look, Looks
  <2>3. at[r] = "start" => Then[at[r]] = "queue"
    BY DEF Then
  <2>4. \/ UNCHANGED at \/ Move(r, "leave") \/ Move(r, Then[at[r]])
    BY <1>1 DEF Look, Quit
  <2> QED
    BY <2>1, <2>2, <2>3, <2>4 DEF Move, ModelInv, OwnersAtModel, AtModel, ModelSites
<1>2. CASE Enqueue(r)
  BY <1>2 DEF Enqueue, Move, ModelInv, ModelSites
<1>3. CASE SelectSignal(r)
  BY <1>3 DEF SelectSignal, Quit, Move, ModelInv, ModelSites, lockVars
<1>4. CASE SelectLock(r)
  BY <1>4 DEF SelectLock, Move, ModelInv, ModelSites, lockVars
<1>5. CASE Create(r)
  BY <1>5 DEF Create, Move, ModelInv, OwnersAtModel, AtModel, ModelSites
<1>6. CASE ModelCall(r)
  <2>1. at[r] \in ModelSites /\ UNCHANGED owner
    BY <1>6 DEF ModelCall, ModelSites, lockVars
  <2>2. Move(r, "prefilled") \/ Move(r, "forwarded") \/ Move(r, "leave")
    BY <1>6 DEF ModelCall, Quit
  <2> QED BY <2>1, <2>2 DEF Move, ModelInv, OwnersAtModel, AtModel
<1>7. CASE Sample(r)
  <2>1. at[r] \in ModelSites /\ UNCHANGED owner
    BY <1>7 DEF Sample, ModelSites, lockVars
  <2>2. Move(r, "step") \/ Move(r, "leave")
    BY <1>7 DEF Sample
  <2> QED BY <2>1, <2>2 DEF Move, ModelInv, OwnersAtModel, AtModel
<1>8. CASE Leave(r)
  BY <1>8 DEF Leave, Move, ModelInv, ModelSites
<1>9. CASE Report(r) \/ DropPermit(r) \/ DropSender(r)
  BY <1>9 DEF Report, DropPermit, DropSender, Move, ModelInv, ModelSites, lockVars
<1> QED
  BY <1>1, <1>2, <1>3, <1>4, <1>5, <1>6, <1>7, <1>8, <1>9 DEF TaskStep

LEMMA ModelInvStep == PermitInv /\ ModelInv /\ [Next]_vars => ModelInv'
<1> SUFFICES ASSUME PermitInv, ModelInv, [Next]_vars PROVE ModelInv'
  OBVIOUS
<1>1. at' \in [Requests -> Sites]
  BY PermitInvStep DEF PermitInv
<1>2. CASE \E r \in Requests : TaskStep(r)
  <2> PICK r \in Requests : TaskStep(r)
    BY <1>2
  <2> SUFFICES ASSUME NEW s \in Requests, AtModel(s)' PROVE owner' = s
    BY <1>1 DEF ModelInv, OwnersAtModel
  <2>1. CASE s = r
    BY <2>1, TaskAtModel DEF AtModel
  <2>2. CASE s # r
    <3>1. AtModel(s) /\ owner = s
      BY <2>2, TaskAtModel DEF AtModel, ModelInv, OwnersAtModel
    <3> QED BY <2>2, <3>1, TaskAtModel, NaiveEngineAssumption
  <2> QED BY <2>1, <2>2
<1>3. CASE \E r \in Requests : TryAcquire(r) \/ Spawn(r) \/ Submit(r)
  <2> PICK r \in Requests : TryAcquire(r) \/ Spawn(r) \/ Submit(r)
    BY <1>3
  <2>1. UNCHANGED owner
    BY DEF TryAcquire, Spawn, Submit, lockVars
  <2>2. \/ UNCHANGED at
        \/ \E site \in {"acquire", "ended", "spawn", "start"} : Move(r, site)
    BY DEF TryAcquire, Spawn, Submit
  <2> QED
    BY <1>1, <2>1, <2>2 DEF Move, ModelInv, OwnersAtModel, AtModel, ModelSites
<1>4. CASE \E r \in Requests :
             ReceiveToken(r) \/ ReceiveTerminal(r) \/ ReceiveEnd(r) \/ DropReceiver(r)
  <2>1. UNCHANGED <<at, owner>>
    BY <1>4
    DEF ReceiveToken, ReceiveTerminal, ReceiveEnd, DropReceiver, engineSide, taskVars, lockVars
  <2> QED BY <2>1 DEF ModelInv, OwnersAtModel, AtModel
<1>5. CASE Shutdown \/ UNCHANGED vars
  <2>1. UNCHANGED <<at, owner>>
    BY <1>5 DEF Shutdown, vars, taskVars, lockVars
  <2> QED BY <2>1 DEF ModelInv, OwnersAtModel, AtModel
<1> QED BY <1>2, <1>3, <1>4, <1>5 DEF Next, HandlerStep

(* Two tasks are never between the model's lock and its release: a task that   *)
(* gives up in the queue, or is handed the guard as it gives up, lets nobody   *)
(* in beside the owner.                                                        *)
THEOREM ModelIsExclusive == Spec => []OneTaskAtTheModel
<1>1. ModelInv => OneTaskAtTheModel
  BY DEF ModelInv, OwnersAtModel, OneTaskAtTheModel
<1> QED
  BY <1>1, PermitInvInit, PermitInvStep, ModelInvInit, ModelInvStep, PTL DEF Spec

-----------------------------------------------------------------------------
(* What is in each response channel, and who may still send.                   *)

Kinds == {"token", "stop", "length", "error"}
HandlerNames == Answered \cup {"idle", "unavailable", "queueFull", "receiving", "matched"}

Unspawned == {"none", "acquire", "spawn"}

\* Where a task may still make a token; after an error it has one item to send.
Working == {"start", "queue", "select"} \cup ModelSites
Speaking(r) == at[r] \in Working \/ (r \in failing /\ at[r] \in {"leave", "report"})

AnswerTypes ==
  /\ failing \subseteq Requests
  /\ gen \in [Requests -> Nat] /\ counted \in [Requests -> Nat] /\ got \in [Requests -> Nat]
  /\ chan \in [Requests -> Seq(Kinds)]
  /\ hs \in [Requests -> HandlerNames]

FreshAnswer(r) ==
  at[r] \in Unspawned =>
    /\ chan[r] = <<>> /\ gen[r] = 0 /\ got[r] = 0 /\ counted[r] = 0 /\ r \notin failing
    /\ hs[r] = "idle" \/ (at[r] = "none" /\ hs[r] = "unavailable")

\* A task that may still speak has sent every token it made and no terminal
\* event, and was not counted, whatever its handler did.
SpokenAnswer(r) ==
  Speaking(r) =>
    /\ counted[r] = 0 /\ hs[r] \in {"receiving", "matched", "stopText", "gone"}
    /\ \A i \in DOMAIN chan[r] : chan[r][i] = "token"
    /\ ~Closed(r) => got[r] + Len(chan[r]) = gen[r]

WorkingAnswer(r) == at[r] \in Working => r \notin failing /\ gen[r] < MaxNew[r]

AnswerOf(r) == FreshAnswer(r) /\ SpokenAnswer(r) /\ WorkingAnswer(r)

AnswerInv == AnswerTypes /\ \A r \in Requests : AnswerOf(r)

-----------------------------------------------------------------------------
(* What a step of a task does to its request's response.                       *)

Muted(r) ==
  /\ chan'[r] = chan[r] /\ counted'[r] = counted[r] /\ gen'[r] = gen[r]
  /\ Speaking(r)' => Speaking(r)
  /\ at'[r] \in Working => at[r] \in Working /\ (r \in failing' => r \in failing)

\* The last thing a task does.
Lost(r) ==
  /\ Speaking(r) /\ ~Speaking(r)'
  /\ chan'[r] = chan[r] /\ counted'[r] = counted[r] + 1
  /\ gen'[r] \in {gen[r], gen[r] + 1}

Failed(r) ==
  /\ Speaking(r) /\ ~Speaking(r)' /\ ~Closed(r)
  /\ chan'[r] = Append(chan[r], "error")
  /\ counted'[r] = counted[r] /\ gen'[r] = gen[r]

Produced(r) ==
  /\ at[r] = "sample" /\ ~Closed(r) /\ failing' = failing
  /\ counted'[r] = counted[r] /\ gen'[r] = gen[r] + 1 /\ gen'[r] <= MaxNew[r]
  /\ \/ gen'[r] # MaxNew[r] /\ chan'[r] = Append(chan[r], "token")
     \/ /\ gen'[r] = MaxNew[r] /\ ~Speaking(r)'
        /\ chan'[r] = Append(Append(chan[r], "token"), "length")
     \/ ~Speaking(r)' /\ chan'[r] = Append(chan[r], "stop")

Effect(r) == Muted(r) \/ Lost(r) \/ Failed(r) \/ Produced(r)

\* A step of r's task leaves every other request alone.
OnlyOf(r) ==
  \A s \in Requests \ {r} :
    /\ at'[s] = at[s] /\ (s \in failing' <=> s \in failing)
    /\ gen'[s] = gen[s] /\ counted'[s] = counted[s] /\ chan'[s] = chan[s]

TaskEffect(r) ==
  /\ at[r] \notin Unspawned /\ at'[r] \notin Unspawned
  /\ failing' \subseteq Requests
  /\ gen' \in [Requests -> Nat] /\ counted' \in [Requests -> Nat]
  /\ chan' \in [Requests -> Seq(Kinds)]
  /\ UNCHANGED <<hs, got>>
  /\ OnlyOf(r) /\ Effect(r)

(* Giving up counts a lost client and nothing else.                            *)
LEMMA QuitEffect ==
  ASSUME PermitInv, AnswerInv, NEW r \in Requests, NEW signal, Quit(r, signal),
         at[r] \in Working, UNCHANGED <<gen, chan, hs, got>>
  PROVE  TaskEffect(r)
<1>1. /\ at \in [Requests -> Sites] /\ at' = [at EXCEPT ![r] = "leave"]
  BY DEF PermitInv, Quit, Move
<1>2. /\ at'[r] = "leave" /\ \A s \in Requests \ {r} : at'[s] = at[s]
      /\ at[r] \notin Unspawned /\ at'[r] \notin Unspawned
  BY <1>1 DEF Unspawned, Working, ModelSites
<1>3. Speaking(r)
  BY DEF Speaking
<1>4. CASE signal = "closed"
  <2>1. failing' = failing /\ counted' = [counted EXCEPT ![r] = @ + 1]
    BY <1>4 DEF Quit
  <2>2. /\ counted' \in [Requests -> Nat] /\ counted'[r] = counted[r] + 1
        /\ \A s \in Requests \ {r} : counted'[s] = counted[s]
    BY <2>1 DEF AnswerInv, AnswerTypes
  <2>3. r \notin failing
    BY DEF AnswerInv, AnswerOf, WorkingAnswer
  <2>4. ~Speaking(r)'
    BY <1>2, <2>1, <2>3 DEF Speaking, Working, ModelSites
  <2>5. Lost(r)
    BY <1>3, <2>2, <2>4 DEF Lost
  <2> QED
    BY <1>2, <2>1, <2>2, <2>5 DEF TaskEffect, OnlyOf, Effect, AnswerInv, AnswerTypes
<1>5. CASE signal # "closed"
  <2>1. counted' = counted /\ (failing' = failing \/ failing' = failing \cup {r})
    BY <1>5 DEF Quit
  <2>2. Muted(r)
    BY <1>2, <1>3, <2>1 DEF Muted, Working, ModelSites
  <2> QED
    BY <1>2, <2>1, <2>2 DEF TaskEffect, OnlyOf, Effect, AnswerInv, AnswerTypes
<1> QED BY <1>4, <1>5

(* A move that sends, counts and makes nothing.                                *)
LEMMA MoveEffect ==
  ASSUME PermitInv, AnswerInv, NEW r \in Requests, NEW site \in Sites,
         UNCHANGED at \/ Move(r, site), at[r] \notin Unspawned, site \notin Unspawned,
         site \in Working => at[r] \in Working,
         site \in {"leave", "report"} => Speaking(r) \/ r \notin failing,
         UNCHANGED <<failing, gen, counted, chan, hs, got>>
  PROVE  TaskEffect(r)
<1>1. at \in [Requests -> Sites] /\ (at' = at \/ at' = [at EXCEPT ![r] = site])
  BY DEF PermitInv, Move
<1>2. /\ at'[r] = at[r] \/ at'[r] = site
      /\ \A s \in Requests \ {r} : at'[s] = at[s]
  BY <1>1
<1>3. Muted(r)
  BY <1>2 DEF Muted, Speaking
<1> QED BY <1>2, <1>3 DEF TaskEffect, OnlyOf, Effect, AnswerInv, AnswerTypes

LEMMA LookEffect ==
  ASSUME PermitInv, AnswerInv, NEW r \in Requests, Look(r)
  PROVE  TaskEffect(r)
<1>1. /\ at[r] \in {"start", "locked", "begin", "prefilled", "step", "forwarded"}
      /\ UNCHANGED <<gen, chan, hs, got>>
  BY DEF Look, Looks, handlerVars
<1>2. at[r] \in Working /\ at[r] \notin Unspawned
  BY <1>1 DEF Working, Unspawned, ModelSites
<1>3. CASE \E signal : Quit(r, signal)
  BY <1>1, <1>2, <1>3, QuitEffect
<1>4. CASE /\ UNCHANGED at \/ Move(r, Then[at[r]])
           /\ UNCHANGED <<failing, counted>>
  <2>1. Then[at[r]] \in {"queue", "create", "prefill", "step", "forward", "sample"}
    BY <1>1 DEF Then
  <2>2. PICK site : site = Then[at[r]]
    OBVIOUS
  <2>3. site \in Sites /\ site \notin Unspawned /\ site \in Working /\ site \notin {"leave", "report"}
    BY <2>1, <2>2 DEF Sites, Unspawned, Working, ModelSites
  <2> QED BY <1>1, <1>2, <1>4, <2>2, <2>3, MoveEffect
<1> QED BY <1>3, <1>4 DEF Look

(* What a delivery appends to a channel.                                       *)
LEMMA ItemsSent ==
  ASSUME NEW c \in Seq(Kinds)
  PROVE  /\ c \o Items("stop") = Append(c, "stop")
         /\ c \o Items("none") = Append(c, "token")
         /\ c \o Items("length") = Append(Append(c, "token"), "length")
<1>1. Items("stop") = <<>> \o <<"stop">> /\ Items("none") = <<"token">> \o <<>>
      /\ Items("length") = <<"token">> \o <<"length">>
  BY Zenon DEF Items
<1>2. Items("stop") = <<"stop">> /\ Items("none") = <<"token">>
  BY <1>1, SMT
<1>3. Items("length") = <<"token", "length">>
  BY <1>1, SMT
<1>4. c \o <<"stop">> = Append(c, "stop") /\ c \o <<"token">> = Append(c, "token")
  BY SMT
<1>5. c \o <<"token", "length">> = Append(Append(c, "token"), "length")
  BY SMT
<1> QED BY <1>2, <1>3, <1>4, <1>5

(* The delivery of one token: all of its items go, or the client is given up.  *)
LEMMA SampleEffect ==
  ASSUME PermitInv, AnswerInv, NEW r \in Requests, Sample(r)
  PROVE  TaskEffect(r)
<1>1. /\ at[r] = "sample" /\ gen' = [gen EXCEPT ![r] = @ + 1]
      /\ UNCHANGED <<failing, hs, got>>
  BY DEF Sample, handlerVars
<1>2. /\ gen' \in [Requests -> Nat] /\ gen'[r] = gen[r] + 1
      /\ \A s \in Requests \ {r} : gen'[s] = gen[s]
  BY <1>1 DEF AnswerInv, AnswerTypes
<1>3. /\ at[r] \in Working /\ at[r] \notin Unspawned /\ Speaking(r) /\ r \notin failing
      /\ gen[r] < MaxNew[r] /\ gen[r] \in Nat /\ MaxNew[r] \in Nat
  BY <1>1, NaiveEngineAssumption
  DEF Working, Unspawned, ModelSites, Speaking, AnswerInv, AnswerTypes, AnswerOf, WorkingAnswer
<1>4. PICK eos \in BOOLEAN :
        LET reason == Reason(r, gen[r] + 1, eos)
        IN  IF CanSend(r, Items(reason))
              THEN /\ chan' = [chan EXCEPT ![r] = @ \o Items(reason)]
                   /\ Move(r, IF reason = "none" THEN "step" ELSE "leave")
                   /\ UNCHANGED counted
              ELSE /\ counted' = [counted EXCEPT ![r] = @ + 1]
                   /\ Move(r, "leave") /\ UNCHANGED chan
  BY DEF Sample
<1>5. PICK reason : reason = Reason(r, gen[r] + 1, eos)
  OBVIOUS
<1>6. \/ reason = "stop"
      \/ reason = "length" /\ gen'[r] = MaxNew[r]
      \/ reason = "none" /\ gen'[r] # MaxNew[r]
  BY <1>2, <1>3, <1>5 DEF Reason
<1>7. at \in [Requests -> Sites]
  BY DEF PermitInv
<1>8. PICK c \in Seq(Kinds) : c = chan[r]
  BY DEF AnswerInv, AnswerTypes
<1>9. CASE CanSend(r, Items(reason))
  <2>1. /\ chan' = [chan EXCEPT ![r] = @ \o Items(reason)] /\ counted' = counted
        /\ at' = [at EXCEPT ![r] = IF reason = "none" THEN "step" ELSE "leave"]
    BY <1>4, <1>5, <1>9 DEF Move
  <2>2. /\ at'[r] = IF reason = "none" THEN "step" ELSE "leave"
        /\ \A s \in Requests \ {r} : at'[s] = at[s]
    BY <1>7, <2>1
  <2>3. ~Closed(r)
    BY <1>9 DEF CanSend
  <2>4. \/ reason = "stop" /\ c \o Items(reason) = Append(c, "stop")
        \/ /\ reason = "length" /\ gen'[r] = MaxNew[r]
           /\ c \o Items(reason) = Append(Append(c, "token"), "length")
        \/ reason = "none" /\ gen'[r] # MaxNew[r] /\ c \o Items(reason) = Append(c, "token")
    BY <1>6, ItemsSent
  <2>5. c \o Items(reason) \in Seq(Kinds)
    <3>1. \A e \in Kinds : Append(c, e) \in Seq(Kinds)
      BY AppendProperties
    <3>2. {"token", "stop", "length"} \subseteq Kinds
      BY DEF Kinds
    <3> QED BY <2>4, <3>1, <3>2, AppendProperties
  <2>6. /\ chan'[r] = c \o Items(reason) /\ chan' \in [Requests -> Seq(Kinds)]
        /\ \A s \in Requests \ {r} : chan'[s] = chan[s]
    BY <1>8, <2>1, <2>5 DEF AnswerInv, AnswerTypes
  <2>7. reason # "none" => ~Speaking(r)'
    BY <1>1, <1>3, <2>2 DEF Speaking, Working, ModelSites
  <2>8. Produced(r)
    BY <1>1, <1>2, <1>3, <1>8, <2>1, <2>3, <2>4, <2>6, <2>7 DEF Produced
  <2>9. at'[r] \notin Unspawned
    BY <2>2 DEF Unspawned
  <2> QED
    BY <1>1, <1>2, <1>3, <2>1, <2>2, <2>6, <2>8, <2>9
    DEF TaskEffect, OnlyOf, Effect, AnswerInv, AnswerTypes
<1>10. CASE ~CanSend(r, Items(reason))
  <2>1. /\ counted' = [counted EXCEPT ![r] = @ + 1] /\ chan' = chan
        /\ at' = [at EXCEPT ![r] = "leave"]
    BY <1>4, <1>5, <1>10 DEF Move
  <2>2. /\ at'[r] = "leave" /\ \A s \in Requests \ {r} : at'[s] = at[s]
    BY <1>7, <2>1
  <2>3. /\ counted' \in [Requests -> Nat] /\ counted'[r] = counted[r] + 1
        /\ \A s \in Requests \ {r} : counted'[s] = counted[s]
    BY <2>1 DEF AnswerInv, AnswerTypes
  <2>4. ~Speaking(r)'
    BY <1>1, <1>3, <2>2 DEF Speaking, Working, ModelSites
  <2>5. Lost(r)
    BY <1>2, <1>3, <2>1, <2>3, <2>4 DEF Lost
  <2>6. at'[r] \notin Unspawned
    BY <2>2 DEF Unspawned
  <2> QED
    BY <1>1, <1>2, <1>3, <2>1, <2>2, <2>3, <2>5, <2>6
    DEF TaskEffect, OnlyOf, Effect, AnswerInv, AnswerTypes
<1> QED BY <1>9, <1>10

(* An error is reported to a client that can take it.                          *)
LEMMA ReportEffect ==
  ASSUME PermitInv, AnswerInv, NEW r \in Requests, Report(r)
  PROVE  TaskEffect(r)
<1>1. /\ at[r] = "report" /\ Move(r, "dropPermit")
      /\ UNCHANGED <<failing, gen, counted, hs, got>>
  BY DEF Report, handlerVars
<1>2. at[r] \notin Unspawned /\ "dropPermit" \notin Unspawned /\ "dropPermit" \in Sites
      /\ "dropPermit" \notin Working
  BY <1>1 DEF Unspawned, Sites, Working, ModelSites
<1>3. CASE r \in failing /\ CanSend(r, <<"error">>)
  <2>1. /\ chan' = [chan EXCEPT ![r] = Append(@, "error")] /\ ~Closed(r) /\ Speaking(r)
    BY <1>1, <1>3 DEF Report, CanSend, Speaking
  <2>2. Append(chan[r], "error") \in Seq(Kinds)
    BY AppendProperties DEF AnswerInv, AnswerTypes, Kinds
  <2>3. /\ chan' \in [Requests -> Seq(Kinds)] /\ chan'[r] = Append(chan[r], "error")
        /\ \A s \in Requests \ {r} : chan'[s] = chan[s]
    BY <2>1, <2>2 DEF AnswerInv, AnswerTypes
  <2>4. /\ at'[r] = "dropPermit" /\ \A s \in Requests \ {r} : at'[s] = at[s]
    BY <1>1 DEF Move, PermitInv
  <2>5. ~Speaking(r)'
    BY <1>2, <2>4 DEF Speaking
  <2>6. Failed(r)
    BY <1>1, <2>1, <2>3, <2>5 DEF Failed
  <2> QED
    BY <1>1, <1>2, <2>3, <2>4, <2>6 DEF TaskEffect, OnlyOf, Effect, AnswerInv, AnswerTypes
<1>4. CASE ~(r \in failing /\ CanSend(r, <<"error">>))
  <2>1. UNCHANGED chan
    BY <1>4 DEF Report
  <2> QED BY <1>1, <1>2, <2>1, MoveEffect
<1> QED BY <1>3, <1>4

LEMMA TaskStepEffect ==
  ASSUME PermitInv, AnswerInv, NEW r \in Requests, TaskStep(r)
  PROVE  TaskEffect(r)
<1> USE DEF Sites, Outside, ModelSites, Unspawned, Working
<1>1. CASE Look(r)
  BY <1>1, LookEffect
<1>2. CASE SelectSignal(r)
  <2>1. at[r] \in Working /\ UNCHANGED <<gen, chan, hs, got>>
    BY <1>2 DEF SelectSignal, handlerVars
  <2>2. PICK signal : Quit(r, signal)
    BY <1>2 DEF SelectSignal
  <2> QED BY <2>1, <2>2, QuitEffect
<1>3. CASE ModelCall(r)
  <2>1. /\ at[r] \in {"prefill", "forward"} /\ UNCHANGED <<gen, chan, hs, got>>
    BY <1>3 DEF ModelCall, handlerVars
  <2>2. CASE Quit(r, "model")
    BY <2>1, <2>2, QuitEffect
  <2>3. CASE ~Quit(r, "model")
    <3>1. PICK site \in {"prefilled", "forwarded"} : Move(r, site) /\ UNCHANGED <<failing, counted>>
      BY <1>3, <2>3 DEF ModelCall
    <3> QED BY <2>1, <3>1, MoveEffect
  <2> QED BY <2>2, <2>3
<1>4. CASE Sample(r)
  BY <1>4, SampleEffect
<1>5. CASE Report(r)
  BY <1>5, ReportEffect
<1>6. CASE Enqueue(r)
  BY <1>6, MoveEffect DEF Enqueue, handlerVars
<1>7. CASE SelectLock(r)
  BY <1>7, MoveEffect DEF SelectLock, handlerVars
<1>8. CASE Create(r)
  BY <1>8, MoveEffect DEF Create, handlerVars
<1>9. CASE Leave(r)
  <2>1. /\ at[r] = "leave" /\ Move(r, "report")
        /\ UNCHANGED <<failing, gen, counted, chan, hs, got>>
    BY <1>9 DEF Leave, handlerVars
  <2>2. Speaking(r) \/ r \notin failing
    BY <2>1 DEF Speaking
  <2> QED BY <2>1, <2>2, MoveEffect
<1>10. CASE DropPermit(r)
  BY <1>10, MoveEffect DEF DropPermit, handlerVars
<1>11. CASE DropSender(r)
  BY <1>11, MoveEffect DEF DropSender, handlerVars
<1> QED
  BY <1>1, <1>2, <1>3, <1>4, <1>5, <1>6, <1>7, <1>8, <1>9, <1>10, <1>11 DEF TaskStep

-----------------------------------------------------------------------------
(* The invariant of the answers.                                               *)

(* A channel of tokens is one still, and one longer, with a token more.        *)
LEMMA OneTokenMore ==
  ASSUME NEW c \in Seq(Kinds), \A i \in DOMAIN c : c[i] = "token"
  PROVE  /\ Len(Append(c, "token")) = Len(c) + 1 /\ Len(c) \in Nat
         /\ \A i \in DOMAIN Append(c, "token") : Append(c, "token")[i] = "token"
<1>1. PICK d \in Seq(Kinds) : d = Append(c, "token")
  BY AppendProperties DEF Kinds
<1>2. /\ DOMAIN c = 1 .. Len(c) /\ Len(c) \in Nat /\ DOMAIN d = 1 .. Len(d)
      /\ Len(d) = Len(c) + 1 /\ d[Len(c) + 1] = "token"
      /\ \A i \in 1 .. Len(c) : d[i] = c[i]
  BY <1>1, LenProperties, AppendProperties DEF Kinds
<1> QED BY <1>1, <1>2

LEMMA TaskAnswer ==
  ASSUME PermitInv, AnswerInv, NEW r \in Requests, TaskEffect(r)
  PROVE  AnswerInv'
<1>1. AnswerTypes'
  BY DEF TaskEffect, AnswerInv, AnswerTypes
<1>2. ASSUME NEW s \in Requests, s # r PROVE AnswerOf(s)'
  <2>1. /\ at'[s] = at[s] /\ (s \in failing' <=> s \in failing)
        /\ gen'[s] = gen[s] /\ counted'[s] = counted[s] /\ chan'[s] = chan[s]
        /\ hs'[s] = hs[s] /\ got'[s] = got[s]
    BY <1>2 DEF TaskEffect, OnlyOf
  <2>2. AnswerOf(s)
    BY DEF AnswerInv
  <2> QED
    BY <2>1, <2>2 DEF AnswerOf, FreshAnswer, SpokenAnswer, WorkingAnswer, Speaking, Closed
<1>3. AnswerOf(r)'
  <2>1. at[r] \notin Unspawned /\ at'[r] \notin Unspawned /\ UNCHANGED <<hs, got>>
    BY DEF TaskEffect
  <2>2. AnswerOf(r)
    BY DEF AnswerInv
  <2>3. CASE Muted(r)
    BY <2>1, <2>2, <2>3
    DEF Muted, AnswerOf, FreshAnswer, SpokenAnswer, WorkingAnswer, Closed
  <2>4. CASE ~Speaking(r)'
    BY <2>1, <2>4 DEF AnswerOf, FreshAnswer, SpokenAnswer, WorkingAnswer, Speaking
  <2>5. CASE Produced(r) /\ Speaking(r)'
    <3>1. PICK c \in Seq(Kinds) : c = chan[r]
      BY DEF AnswerInv, AnswerTypes
    <3>2. /\ Speaking(r) /\ ~Closed(r) /\ failing' = failing /\ r \notin failing
          /\ counted'[r] = counted[r] /\ gen'[r] = gen[r] + 1 /\ gen'[r] < MaxNew[r]
          /\ chan'[r] = Append(c, "token")
      <4>1. /\ at[r] \in Working /\ MaxNew[r] \in Nat /\ gen'[r] \in Nat
        BY <2>5, NaiveEngineAssumption
        DEF Produced, Working, ModelSites, TaskEffect
      <4>2. Speaking(r) /\ r \notin failing
        BY <2>2, <4>1 DEF Speaking, AnswerOf, WorkingAnswer
      <4> QED BY <2>5, <3>1, <4>1, <4>2 DEF Produced
    <3>3. /\ counted[r] = 0 /\ hs[r] \in {"receiving", "matched", "stopText", "gone"}
          /\ \A i \in DOMAIN c : c[i] = "token"
          /\ got[r] + Len(c) = gen[r] /\ got[r] \in Nat
      BY <2>2, <3>1, <3>2 DEF AnswerOf, SpokenAnswer, AnswerInv, AnswerTypes
    <3>4. /\ Len(chan'[r]) = Len(c) + 1 /\ Len(c) \in Nat
          /\ \A i \in DOMAIN chan'[r] : chan'[r][i] = "token"
      BY <3>2, <3>3, OneTokenMore
    <3>5. got'[r] + Len(chan'[r]) = gen'[r]
      <4>1. got'[r] = got[r] /\ gen'[r] = gen[r] + 1 /\ Len(chan'[r]) = Len(c) + 1
        BY <2>1, <3>2, <3>4
      <4>2. got[r] + Len(c) = gen[r] /\ got[r] \in Nat /\ Len(c) \in Nat
        BY <3>3, <3>4
      <4> QED BY <4>1, <4>2
    <3>6. SpokenAnswer(r)'
      BY <2>1, <3>2, <3>3, <3>4, <3>5 DEF SpokenAnswer
    <3>7. FreshAnswer(r)' /\ WorkingAnswer(r)'
      BY <2>1, <3>2 DEF FreshAnswer, WorkingAnswer
    <3> QED BY <3>6, <3>7 DEF AnswerOf
  <2> QED BY <2>3, <2>4, <2>5 DEF TaskEffect, Effect, Lost, Failed
<1> QED BY <1>1, <1>2, <1>3 DEF AnswerInv

\* What the moves of a request's own handler leave alone.
HandlerMove(r) ==
  /\ UNCHANGED <<failing, gen, counted>>
  /\ \A s \in Requests \ {r} :
       at'[s] = at[s] /\ chan'[s] = chan[s] /\ hs'[s] = hs[s] /\ got'[s] = got[s]

HandlerAction(r) ==
  \/ Submit(r) \/ TryAcquire(r) \/ Spawn(r)
  \/ ReceiveToken(r) \/ ReceiveTerminal(r) \/ ReceiveEnd(r) \/ DropReceiver(r)

LEMMA HandlersAreAlone ==
  ASSUME PermitInv, AnswerInv, NEW r \in Requests, HandlerAction(r)
  PROVE  HandlerMove(r)
<1>1. /\ at \in [Requests -> Sites] /\ chan \in [Requests -> Seq(Kinds)]
      /\ hs \in [Requests -> HandlerNames] /\ got \in [Requests -> Nat]
  BY DEF PermitInv, AnswerInv, AnswerTypes
<1>2. CASE Submit(r) \/ TryAcquire(r) \/ Spawn(r)
  <2>1. UNCHANGED <<failing, gen, counted, chan, got>>
    BY <1>2 DEF Submit, TryAcquire, Spawn
  <2>2. /\ at' = at \/ \E site : at' = [at EXCEPT ![r] = site]
        /\ hs' = hs \/ \E outcome : hs' = [hs EXCEPT ![r] = outcome]
    BY <1>2 DEF Submit, TryAcquire, Spawn, Move
  <2> QED BY <1>1, <2>1, <2>2 DEF HandlerMove
<1>3. CASE ReceiveToken(r) \/ ReceiveTerminal(r) \/ ReceiveEnd(r) \/ DropReceiver(r)
  <2>1. UNCHANGED <<at, failing, gen, counted>>
    BY <1>3
    DEF ReceiveToken, ReceiveTerminal, ReceiveEnd, DropReceiver, engineSide, taskVars
  <2>2. /\ chan' = chan \/ \E c : chan' = [chan EXCEPT ![r] = c]
        /\ hs' = hs \/ \E outcome : hs' = [hs EXCEPT ![r] = outcome]
        /\ got' = got \/ \E n : got' = [got EXCEPT ![r] = n]
    BY <1>3 DEF ReceiveToken, ReceiveTerminal, ReceiveEnd, DropReceiver
  <2> QED BY <1>1, <2>1, <2>2 DEF HandlerMove
<1> QED BY <1>2, <1>3 DEF HandlerAction

\* The ways into and out of the service, before there is a task.
Entering(r) ==
  /\ UNCHANGED <<chan, got>>
  /\ at[r] \in Unspawned /\ hs[r] = "idle"
  /\ \/ at'[r] \in {"acquire", "spawn"} /\ hs'[r] = "idle"
     \/ at'[r] = "none" /\ hs'[r] = "unavailable"
     \/ at'[r] = "ended" /\ hs'[r] \in {"unavailable", "queueFull"}
     \/ at'[r] = "start" /\ hs'[r] = "receiving"
  /\ hs' \in [Requests -> HandlerNames]

LEMMA AdmissionEnters ==
  ASSUME PermitInv, AnswerInv, NEW r \in Requests, Submit(r) \/ TryAcquire(r) \/ Spawn(r)
  PROVE  Entering(r)
<1>1. /\ at \in [Requests -> Sites] /\ hs \in [Requests -> HandlerNames]
      /\ {"unavailable", "queueFull", "receiving"} \subseteq HandlerNames
  BY DEF PermitInv, AnswerInv, AnswerTypes, HandlerNames
<1>2. AnswerOf(r)
  BY DEF AnswerInv
<1>3. UNCHANGED <<chan, got>>
  BY DEF Submit, TryAcquire, Spawn
<1>4. CASE Submit(r)
  <2>1. /\ at[r] = "none" /\ hs[r] = "idle"
        /\ \/ UNCHANGED at /\ hs' = [hs EXCEPT ![r] = "unavailable"]
           \/ at' = [at EXCEPT ![r] = "acquire"] /\ UNCHANGED hs
    BY <1>4 DEF Submit, Move
  <2> QED BY <1>1, <1>3, <2>1 DEF Entering, Unspawned
<1>5. CASE TryAcquire(r)
  <2>1. /\ at[r] = "acquire"
        /\ \/ at' = [at EXCEPT ![r] = "ended"] /\ hs' = [hs EXCEPT ![r] = "queueFull"]
           \/ at' = [at EXCEPT ![r] = "spawn"] /\ UNCHANGED hs
    BY <1>5 DEF TryAcquire, Move
  <2>2. hs[r] = "idle" /\ at[r] \in Unspawned
    BY <1>2, <2>1 DEF AnswerOf, FreshAnswer, Unspawned
  <2> QED BY <1>1, <1>3, <2>1, <2>2 DEF Entering
<1>6. CASE Spawn(r)
  <2>1. /\ at[r] = "spawn"
        /\ \/ at' = [at EXCEPT ![r] = "ended"] /\ hs' = [hs EXCEPT ![r] = "unavailable"]
           \/ at' = [at EXCEPT ![r] = "start"] /\ hs' = [hs EXCEPT ![r] = "receiving"]
    BY <1>6 DEF Spawn, Move
  <2>2. hs[r] = "idle" /\ at[r] \in Unspawned
    BY <1>2, <2>1 DEF AnswerOf, FreshAnswer, Unspawned
  <2> QED BY <1>1, <1>3, <2>1, <2>2 DEF Entering
<1> QED BY <1>4, <1>5, <1>6

\* A handler that listens reads a token, or goes in one way or another.
Reading(r) ==
  /\ hs[r] = "receiving" /\ hs'[r] \in {"receiving", "matched"}
  /\ chan[r] # <<>> /\ Head(chan[r]) = "token"
  /\ chan'[r] = Tail(chan[r]) /\ got'[r] = got[r] + 1

Ending(r) ==
  /\ chan'[r] = <<>> /\ got'[r] = got[r]
  /\ \/ /\ hs[r] = "receiving" /\ chan[r] # <<>> /\ Head(chan[r]) # "token"
        /\ hs'[r] = Head(chan[r])
     \/ hs[r] = "receiving" /\ chan[r] = <<>> /\ hs'[r] = "ended" /\ at[r] = "ended"
     \/ hs[r] = "receiving" /\ hs'[r] = "gone"
     \/ hs[r] = "matched" /\ hs'[r] = "stopText"

LEMMA HandlerListens ==
  ASSUME PermitInv, AnswerInv, NEW r \in Requests,
         ReceiveToken(r) \/ ReceiveTerminal(r) \/ ReceiveEnd(r) \/ DropReceiver(r)
  PROVE  /\ UNCHANGED at /\ (Reading(r) \/ Ending(r))
         /\ chan' \in [Requests -> Seq(Kinds)] /\ got' \in [Requests -> Nat]
         /\ hs' \in [Requests -> HandlerNames]
<1>1. /\ chan \in [Requests -> Seq(Kinds)] /\ got \in [Requests -> Nat]
      /\ hs \in [Requests -> HandlerNames]
      /\ {"receiving", "matched", "stop", "length", "error", "ended", "gone", "stopText"}
           \subseteq HandlerNames
      /\ Kinds \ {"token"} \subseteq HandlerNames /\ <<>> \in Seq(Kinds)
  BY EmptySeq DEF AnswerInv, AnswerTypes, HandlerNames, Answered, Kinds
<1>2. UNCHANGED at
  BY DEF ReceiveToken, ReceiveTerminal, ReceiveEnd, DropReceiver, engineSide, taskVars
<1>3. PICK c \in Seq(Kinds) : c = chan[r]
  BY <1>1
<1>4. c # <<>> => Head(c) \in Kinds /\ Tail(c) \in Seq(Kinds)
  BY HeadTailProperties
<1>5. CASE ReceiveToken(r)
  <2>1. /\ hs[r] = "receiving" /\ c # <<>> /\ Head(c) = "token"
        /\ chan' = [chan EXCEPT ![r] = Tail(c)] /\ got' = [got EXCEPT ![r] = @ + 1]
        /\ hs' = hs \/ hs' = [hs EXCEPT ![r] = "matched"]
    BY <1>3, <1>5 DEF ReceiveToken
  <2>2. /\ chan' \in [Requests -> Seq(Kinds)] /\ chan'[r] = Tail(c)
        /\ got' \in [Requests -> Nat] /\ got'[r] = got[r] + 1
    BY <1>1, <1>4, <2>1
  <2>3. hs' \in [Requests -> HandlerNames] /\ hs'[r] \in {"receiving", "matched"}
    BY <1>1, <2>1
  <2> QED BY <1>2, <1>3, <2>1, <2>2, <2>3 DEF Reading
<1>6. CASE ReceiveTerminal(r)
  <2>1. /\ hs[r] = "receiving" /\ c # <<>> /\ Head(c) # "token"
        /\ chan' = [chan EXCEPT ![r] = <<>>] /\ got' = got
        /\ hs' = [hs EXCEPT ![r] = Head(c)]
    BY <1>3, <1>6 DEF ReceiveTerminal
  <2> QED BY <1>1, <1>2, <1>3, <1>4, <2>1 DEF Ending
<1>7. CASE ReceiveEnd(r)
  <2>1. /\ hs[r] = "receiving" /\ c = <<>> /\ at[r] = "ended"
        /\ chan' = chan /\ got' = got /\ hs' = [hs EXCEPT ![r] = "ended"]
    BY <1>3, <1>7 DEF ReceiveEnd
  <2> QED BY <1>1, <1>2, <1>3, <2>1 DEF Ending
<1>8. CASE DropReceiver(r)
  <2>1. /\ chan' = [chan EXCEPT ![r] = <<>>] /\ got' = got
        /\ \/ hs[r] = "matched" /\ hs' = [hs EXCEPT ![r] = "stopText"]
           \/ hs[r] = "receiving" /\ hs' = [hs EXCEPT ![r] = "gone"]
    BY <1>8 DEF DropReceiver
  <2> QED BY <1>1, <1>2, <2>1 DEF Ending
<1> QED BY <1>5, <1>6, <1>7, <1>8

LEMMA EnteringAnswer ==
  ASSUME PermitInv, AnswerInv, NEW r \in Requests, Entering(r), HandlerMove(r)
  PROVE  AnswerOf(r)'
<1>1. /\ chan'[r] = <<>> /\ gen'[r] = 0 /\ got'[r] = 0 /\ counted'[r] = 0 /\ r \notin failing'
  BY DEF AnswerInv, AnswerOf, FreshAnswer, Entering, HandlerMove
<1>2. FreshAnswer(r)'
  BY <1>1 DEF FreshAnswer, Entering, Unspawned
<1>3. SpokenAnswer(r)'
  <2>1. Speaking(r)' => hs'[r] = "receiving"
    BY <1>1 DEF Entering, Speaking, Working, ModelSites
  <2>2. Len(<<>>) = 0 /\ DOMAIN <<>> = {}
    BY EmptySeq
  <2> QED BY <1>1, <2>1, <2>2 DEF SpokenAnswer
<1>4. WorkingAnswer(r)'
  BY <1>1, NaiveEngineAssumption DEF WorkingAnswer
<1> QED BY <1>2, <1>3, <1>4 DEF AnswerOf

LEMMA ListeningAnswer ==
  ASSUME PermitInv, AnswerInv, NEW r \in Requests, UNCHANGED at, Reading(r) \/ Ending(r),
         HandlerMove(r)
  PROVE  AnswerOf(r)'
<1>1. AnswerOf(r) /\ UNCHANGED <<failing, gen, counted>>
  BY DEF AnswerInv, HandlerMove
<1>2. at[r] \notin Unspawned
  BY <1>1 DEF AnswerOf, FreshAnswer, Reading, Ending
<1>3. FreshAnswer(r)' /\ WorkingAnswer(r)'
  BY <1>1, <1>2 DEF AnswerOf, FreshAnswer, WorkingAnswer
<1>4. SpokenAnswer(r)'
  <2> SUFFICES ASSUME Speaking(r)' PROVE SpokenAnswer(r)'
    BY DEF SpokenAnswer
  <2>1. Speaking(r)
    BY <1>1 DEF Speaking
  <2>2. PICK c \in Seq(Kinds) : c = chan[r]
    BY DEF AnswerInv, AnswerTypes
  <2>3. /\ counted[r] = 0 /\ hs[r] \in {"receiving", "matched", "stopText", "gone"}
        /\ \A i \in DOMAIN c : c[i] = "token"
        /\ ~Closed(r) => got[r] + Len(c) = gen[r]
        /\ got[r] \in Nat /\ gen[r] \in Nat
    BY <1>1, <2>1, <2>2 DEF AnswerOf, SpokenAnswer, AnswerInv, AnswerTypes
  <2>4. CASE Reading(r)
    <3>1. /\ hs'[r] \in {"receiving", "matched"} /\ c # <<>> /\ chan'[r] = Tail(c)
          /\ got'[r] = got[r] + 1 /\ ~Closed(r)
      BY <2>2, <2>4 DEF Reading, Closed, Answered
    <3>2. PICK d \in Seq(Kinds) : d = Tail(c)
      BY <3>1, HeadTailProperties
    <3>3. /\ Len(c) \in Nat /\ DOMAIN c = 1 .. Len(c) /\ DOMAIN d = 1 .. Len(d)
          /\ Len(d) = Len(c) - 1 /\ Len(d) \in Nat /\ \A i \in 1 .. Len(d) : d[i] = c[i + 1]
      BY <3>1, <3>2, LenProperties, HeadTailProperties
    <3>4. \A i \in DOMAIN d : d[i] = "token"
      BY <2>3, <3>3
    <3>5. got'[r] + Len(d) = gen[r]
      BY <2>3, <3>1, <3>3
    <3> QED BY <1>1, <2>3, <3>1, <3>2, <3>4, <3>5 DEF SpokenAnswer
  <2>5. CASE Ending(r)
    <3>1. at[r] # "ended"
      BY <2>1 DEF Speaking, Working, ModelSites
    <3>2. c # <<>> => Head(c) = "token"
      <4> SUFFICES ASSUME c # <<>> PROVE Head(c) = "token"
        OBVIOUS
      <4>1. 1 \in DOMAIN c
        BY EmptySeq, LenProperties
      <4>2. Head(c) = c[1]
        OBVIOUS
      <4> QED BY <2>3, <4>1, <4>2
    <3>3. /\ chan'[r] = <<>> /\ hs'[r] \in {"gone", "stopText"}
      BY <2>2, <2>5, <3>1, <3>2 DEF Ending
    <3>4. Closed(r)'
      BY <3>3 DEF Closed, Answered
    <3>5. DOMAIN <<>> = {}
      OBVIOUS
    <3> QED BY <1>1, <2>3, <3>3, <3>4, <3>5 DEF SpokenAnswer
  <2> QED BY <2>4, <2>5
<1> QED BY <1>3, <1>4 DEF AnswerOf

LEMMA HandlerAnswer ==
  ASSUME PermitInv, AnswerInv, NEW r \in Requests, HandlerAction(r)
  PROVE  AnswerInv'
<1>1. HandlerMove(r)
  BY HandlersAreAlone
<1>2. \A s \in Requests \ {r} : AnswerOf(s)'
  <2> SUFFICES ASSUME NEW s \in Requests \ {r} PROVE AnswerOf(s)'
    OBVIOUS
  <2>1. AnswerOf(s)
    BY DEF AnswerInv
  <2> QED
    BY <1>1, <2>1
    DEF HandlerMove, AnswerOf, FreshAnswer, SpokenAnswer, WorkingAnswer, Speaking, Closed
<1>3. CASE Submit(r) \/ TryAcquire(r) \/ Spawn(r)
  <2>1. Entering(r)
    BY <1>3, AdmissionEnters
  <2>2. AnswerTypes'
    BY <1>1, <2>1 DEF AnswerInv, AnswerTypes, HandlerMove, Entering
  <2> QED BY <1>1, <1>2, <2>1, <2>2, EnteringAnswer DEF AnswerInv
<1>4. CASE ReceiveToken(r) \/ ReceiveTerminal(r) \/ ReceiveEnd(r) \/ DropReceiver(r)
  <2>1. /\ UNCHANGED at /\ (Reading(r) \/ Ending(r))
        /\ chan' \in [Requests -> Seq(Kinds)] /\ got' \in [Requests -> Nat]
        /\ hs' \in [Requests -> HandlerNames]
    BY <1>4, HandlerListens
  <2>2. AnswerTypes'
    BY <1>1, <2>1 DEF AnswerInv, AnswerTypes, HandlerMove
  <2>3. AnswerOf(r)'
    BY <1>1, <2>1, ListeningAnswer
  <2> QED BY <1>2, <2>2, <2>3 DEF AnswerInv
<1> QED BY <1>3, <1>4 DEF HandlerAction

LEMMA AnswerInit == Init => AnswerInv
<1> SUFFICES ASSUME Init PROVE AnswerInv
  OBVIOUS
<1>1. AnswerTypes
  BY EmptySeq DEF Init, AnswerTypes, HandlerNames
<1>2. \A r \in Requests : AnswerOf(r)
  BY DEF Init, AnswerOf, FreshAnswer, SpokenAnswer, WorkingAnswer, Speaking, Working, ModelSites
<1> QED BY <1>1, <1>2 DEF AnswerInv

LEMMA AnswerStep == PermitInv /\ AnswerInv /\ [Next]_vars => AnswerInv'
<1> SUFFICES ASSUME PermitInv, AnswerInv, [Next]_vars PROVE AnswerInv'
  OBVIOUS
<1>1. ASSUME NEW r \in Requests, TaskStep(r) PROVE AnswerInv'
  BY <1>1, TaskStepEffect, TaskAnswer
<1>2. ASSUME NEW r \in Requests, HandlerAction(r) PROVE AnswerInv'
  BY <1>2, HandlerAnswer
<1>3. CASE Shutdown \/ UNCHANGED vars
  <2>1. UNCHANGED <<at, failing, gen, counted, chan, hs, got>>
    BY <1>3 DEF Shutdown, vars, taskVars, handlerVars
  <2> QED
    BY <2>1
    DEF AnswerInv, AnswerTypes, AnswerOf, FreshAnswer, SpokenAnswer, WorkingAnswer, Speaking,
        Closed
<1> QED BY <1>1, <1>2, <1>3 DEF Next, HandlerStep, HandlerAction

-----------------------------------------------------------------------------
(* The items of a channel as the service sees them: the tokens of a channel    *)
(* follow the g tokens read.                                                   *)

Shown(g, c) == [i \in DOMAIN c |-> [kind |-> c[i], n |-> IF c[i] = "token" THEN g + i ELSE 0]]
Promise == [kind : Kinds, n : Nat]

ShownItem(k, n) == [kind |-> k, n |-> IF k = "token" THEN n ELSE 0]
ShownAt(g, c, i) == ShownItem(c[i], g + i)

LEMMA ShownItems ==
  /\ \A k \in Kinds, n \in Nat : ShownItem(k, n) \in Promise
  /\ \A k, n : ShownItem(k, n).kind = k
BY DEF ShownItem, Promise

LEMMA ShownSeq ==
  ASSUME NEW g \in Nat, NEW c \in Seq(Kinds)
  PROVE  /\ Shown(g, c) \in Seq(Promise) /\ Len(Shown(g, c)) = Len(c)
         /\ \A i \in 1 .. Len(c) : Shown(g, c)[i] = ShownAt(g, c, i)
<1>1. DOMAIN c = 1 .. Len(c) /\ Len(c) \in Nat /\ \A i \in 1 .. Len(c) : c[i] \in Kinds
  BY LenProperties, ElementOfSeq
<1>2. \A i \in 1 .. Len(c) : ShownAt(g, c, i) \in Promise
  BY <1>1, ShownItems DEF ShownAt
<1>3. Shown(g, c) = [i \in 1 .. Len(c) |-> ShownAt(g, c, i)]
  BY <1>1 DEF Shown, ShownAt, ShownItem
<1>4. PICK s : s = Shown(g, c)
  OBVIOUS
<1>5. s \in [1 .. Len(c) -> Promise] /\ \A i \in 1 .. Len(c) : s[i] = ShownAt(g, c, i)
  BY <1>2, <1>3, <1>4
<1>6. s \in Seq(Promise) /\ Len(s) = Len(c)
  BY <1>1, <1>5
<1> QED BY <1>4, <1>5, <1>6

LEMMA ShownEmpty == ASSUME NEW g \in Nat PROVE Shown(g, <<>>) = <<>>
<1>1. <<>> \in Seq(Kinds) /\ Len(<<>>) = 0
  BY EmptySeq
<1>2. Shown(g, <<>>) \in Seq(Promise) /\ Len(Shown(g, <<>>)) = 0
  BY <1>1, ShownSeq
<1> QED BY <1>2, EmptySeq

LEMMA ShownAppend ==
  ASSUME NEW g \in Nat, NEW c \in Seq(Kinds), NEW k \in Kinds,
         NEW n \in Nat, n = g + Len(c) + 1
  PROVE  Shown(g, Append(c, k)) = Append(Shown(g, c), ShownItem(k, n))
<1>1. PICK d \in Seq(Kinds) : d = Append(c, k)
  BY AppendProperties
<1>2. /\ Len(c) \in Nat /\ Len(d) = Len(c) + 1 /\ d[Len(c) + 1] = k
      /\ \A i \in 1 .. Len(c) : d[i] = c[i]
  BY <1>1, LenProperties, AppendProperties
<1>3. PICK s \in Seq(Promise) : /\ s = Shown(g, c) /\ Len(s) = Len(c)
                                /\ \A i \in 1 .. Len(c) : s[i] = ShownAt(g, c, i)
  BY ShownSeq
<1>4. PICK u \in Seq(Promise) : /\ u = Shown(g, d) /\ Len(u) = Len(d)
                                /\ \A i \in 1 .. Len(d) : u[i] = ShownAt(g, d, i)
  BY ShownSeq
<1>5. PICK e \in Promise : e = ShownItem(k, n)
  BY ShownItems
<1>6. PICK v \in Seq(Promise) : v = Append(s, e)
  BY AppendProperties
<1>7. Len(v) = Len(s) + 1 /\ v[Len(s) + 1] = e /\ \A i \in 1 .. Len(s) : v[i] = s[i]
  BY <1>6, AppendProperties
<1>8. u[Len(c) + 1] = e
  <2>1. Len(c) + 1 \in 1 .. Len(d) /\ g + (Len(c) + 1) = n
    BY <1>2
  <2> QED BY <1>2, <1>4, <1>5, <2>1 DEF ShownAt
<1>9. \A i \in 1 .. Len(c) : u[i] = v[i]
  BY <1>2, <1>3, <1>4, <1>7 DEF ShownAt
<1>10. u = v
  <2>1. \A i \in 1 .. Len(u) : u[i] = v[i]
    BY <1>2, <1>3, <1>4, <1>7, <1>8, <1>9
  <2> QED BY <1>2, <1>3, <1>4, <1>7, <2>1, SeqEqual
<1> QED BY <1>1, <1>3, <1>4, <1>5, <1>6, <1>10

LEMMA ShownTerminal ==
  ASSUME NEW g \in Nat, NEW c \in Seq(Kinds), NEW k \in {"stop", "length", "error"}
  PROVE  Shown(g, Append(c, k)) = Append(Shown(g, c), Service!Terminal(k))
<1>1. PICK n \in Nat : n = g + Len(c) + 1
  BY LenProperties
<1>2. k \in Kinds
  BY DEF Kinds
<1>3. ShownItem(k, n) = Service!Terminal(k)
  BY DEF ShownItem, Service!Terminal
<1> QED BY <1>1, <1>2, <1>3, ShownAppend

LEMMA ShownTail ==
  ASSUME NEW g \in Nat, NEW c \in Seq(Kinds), c # <<>>
  PROVE  /\ Shown(g, c) # <<>>
         /\ Head(Shown(g, c)).kind = Head(c)
         /\ Head(c) = "token" => Head(Shown(g, c)).n = g + 1
         /\ Tail(Shown(g, c)) = Shown(g + 1, Tail(c))
         /\ Last(Shown(g, c)).kind = c[Len(c)]
<1>1. PICK d \in Seq(Kinds) : d = Tail(c)
  BY HeadTailProperties
<1>2. PICK m \in Nat : /\ Len(c) = m + 1 /\ Len(d) = m /\ \A i \in 1 .. m : d[i] = c[i + 1]
  <2>1. Len(c) \in Nat \ {0} /\ Len(d) = Len(c) - 1
    BY <1>1, HeadTailProperties, EmptySeq
  <2>2. \A i \in 1 .. Len(d) : d[i] = c[i + 1]
    BY <1>1, HeadTailProperties
  <2>3. PICK m \in Nat : m = Len(d) /\ Len(c) = m + 1
    BY <2>1
  <2> QED BY <2>2, <2>3
<1>3. PICK s \in Seq(Promise) : /\ s = Shown(g, c) /\ Len(s) = m + 1
                                /\ \A i \in 1 .. m + 1 : s[i] = ShownAt(g, c, i)
  BY <1>2, ShownSeq
<1>4. PICK u \in Seq(Promise) : /\ u = Shown(g + 1, d) /\ Len(u) = m
                                /\ \A i \in 1 .. m : u[i] = ShownAt(g + 1, d, i)
  <2>1. PICK h \in Nat : h = g + 1
    OBVIOUS
  <2> QED BY <1>2, <2>1, ShownSeq
<1>5. s # <<>> /\ Head(s) = s[1] /\ Head(c) = c[1]
  <2>1. Len(<<>>) = 0
    BY EmptySeq
  <2> QED BY <1>3, <2>1
<1>6. PICK v \in Seq(Promise) : v = Tail(s)
  BY <1>5, HeadTailProperties
<1>7. Len(v) = m /\ \A i \in 1 .. m : v[i] = s[i + 1]
  <2>1. Len(v) = Len(s) - 1 /\ \A i \in 1 .. Len(v) : v[i] = s[i + 1]
    BY <1>5, <1>6, HeadTailProperties
  <2> QED BY <1>3, <2>1
<1>8. \A i \in 1 .. m : u[i] = v[i]
  <2> SUFFICES ASSUME NEW i \in 1 .. m PROVE u[i] = v[i]
    OBVIOUS
  <2>1. i + 1 \in 1 .. m + 1 /\ g + (i + 1) = g + 1 + i
    OBVIOUS
  <2>2. u[i] = ShownItem(c[i + 1], g + 1 + i) /\ v[i] = ShownItem(c[i + 1], g + 1 + i)
    BY <1>2, <1>3, <1>4, <1>7, <2>1 DEF ShownAt
  <2> QED BY <2>2
<1>9. u = v
  BY <1>4, <1>7, <1>8, SeqEqual
<1>10. Head(s).kind = Head(c) /\ (Head(c) = "token" => Head(s).n = g + 1)
  <2>1. Head(s) = ShownAt(g, c, 1)
    BY <1>3, <1>5
  <2> QED BY <1>5, <2>1 DEF ShownAt, ShownItem
<1>11. Last(s).kind = c[Len(c)]
  <2>1. Last(s) = ShownItem(c[m + 1], g + (m + 1))
    BY <1>3 DEF Last, ShownAt
  <2> QED BY <1>2, <2>1, ShownItems
<1> QED BY <1>1, <1>3, <1>4, <1>6, <1>5, <1>9, <1>10, <1>11

-----------------------------------------------------------------------------
(* Every step of a request is a move of its response.                          *)

Answer(s, m, f, g, k) == [status |-> s, made |-> m, flight |-> f, read |-> g, counted |-> k]

Response(r) == Answer(ServiceStatus(r), gen[r], Shown(got[r], chan[r]), got[r], counted[r])

LEMMA ResponseParts ==
  ASSUME NEW r
  PROVE  /\ Response(r).status = ServiceStatus(r) /\ Response(r).made = gen[r]
         /\ Response(r).flight = Shown(got[r], chan[r]) /\ Response(r).read = got[r]
         /\ Response(r).counted = counted[r]
BY DEF Response, Answer

\* What a step may do to one response.
Moves(r) == Response(r)' = Response(r) \/ Response(r)' \in Service!Moves(Response(r), MaxNew[r])

(* A task that may still speak has a response the service may still answer.    *)
LEMMA SpeakingResponse ==
  ASSUME AnswerInv, NEW r \in Requests, Speaking(r)
  PROVE  /\ counted[r] = 0
         /\ ~Closed(r) => got[r] + Len(chan[r]) = gen[r]
         /\ ServiceStatus(r) \in {"open", "matched", "gone", "stopText"}
         /\ ~Closed(r) => ServiceStatus(r) \in {"open", "matched"}
         /\ ~Service!Concluded(Response(r)) /\ ~Service!GivenUp(Response(r))
<1>1. /\ counted[r] = 0 /\ hs[r] \in {"receiving", "matched", "stopText", "gone"}
      /\ \A i \in DOMAIN chan[r] : chan[r][i] = "token"
      /\ ~Closed(r) => got[r] + Len(chan[r]) = gen[r]
  BY DEF AnswerInv, AnswerOf, SpokenAnswer
<1>2. /\ ServiceStatus(r) \in {"open", "matched", "gone", "stopText"}
      /\ ~Closed(r) => ServiceStatus(r) \in {"open", "matched"}
  BY <1>1 DEF ServiceStatus, Closed, Answered
<1>3. PICK c \in Seq(Kinds) : c = chan[r]
  BY DEF AnswerInv, AnswerTypes
<1>4. PICK g \in Nat : g = got[r]
  BY DEF AnswerInv, AnswerTypes
<1>5. c # <<>> => Last(Shown(g, c)).kind = "token"
  <2> SUFFICES ASSUME c # <<>> PROVE Last(Shown(g, c)).kind = "token"
    OBVIOUS
  <2>1. Len(c) \in DOMAIN c
    BY EmptySeq, LenProperties
  <2> QED BY <1>1, <1>3, <2>1, ShownTail
<1>6. c = <<>> => Shown(g, c) = <<>>
  BY ShownEmpty
<1>7. ~Service!Concluded(Response(r))
  <2>1. PICK p : p = Response(r)
    OBVIOUS
  <2>2. p.status = ServiceStatus(r) /\ p.flight = Shown(g, c)
    BY <1>3, <1>4, <2>1, ResponseParts
  <2>3. p.status \notin {"stop", "length", "error", "ended"}
    BY <1>2, <2>2
  <2>4. p.flight # <<>> => Last(p.flight).kind = "token"
    BY <1>5, <1>6, <2>2
  <2> QED BY <2>1, <2>3, <2>4 DEF Service!Concluded, Service!Last, Last
<1>8. ~Service!GivenUp(Response(r))
  BY <1>1, ResponseParts DEF Service!GivenUp
<1> QED BY <1>1, <1>2, <1>7, <1>8

LEMMA LostMove ==
  ASSUME AnswerInv, NEW r \in Requests, Lost(r), UNCHANGED <<hs, got>>
  PROVE  Response(r)' \in Service!Losses(Response(r))
<1>1. /\ Speaking(r) /\ chan'[r] = chan[r] /\ counted'[r] = 1
      /\ gen'[r] \in {gen[r], gen[r] + 1}
      /\ ServiceStatus(r)' = ServiceStatus(r) /\ got'[r] = got[r]
  BY SpeakingResponse DEF Lost, ServiceStatus
<1>2. PICK s, m, f, g, k : /\ s = ServiceStatus(r) /\ m = gen[r] /\ f = Shown(got[r], chan[r])
                           /\ g = got[r] /\ k = counted[r]
  OBVIOUS
<1>3. PICK n : n = gen'[r]
  OBVIOUS
<1>4. PICK p : p = Response(r)
  OBVIOUS
<1>5. /\ p = Answer(s, m, f, g, k) /\ Response(r)' = Answer(s, n, f, g, 1)
      /\ p.status = s /\ p.made = m
  BY <1>1, <1>2, <1>3, <1>4, ResponseParts DEF Response
<1>6. [p EXCEPT !.counted = 1, !.made = n] = Answer(s, n, f, g, 1)
  <2>1. [p EXCEPT !.counted = 1, !.made = n] = [[p EXCEPT !.counted = 1] EXCEPT !.made = n]
    OBVIOUS
  <2>2. [p EXCEPT !.counted = 1] = Answer(s, m, f, g, 1)
    BY <1>5 DEF Answer
  <2>3. [Answer(s, m, f, g, 1) EXCEPT !.made = n] = Answer(s, n, f, g, 1)
    BY DEF Answer
  <2> QED BY <2>1, <2>2, <2>3
<1>7. /\ p.status \in {"open", "matched", "stopText", "gone"} /\ n \in {p.made, p.made + 1}
      /\ ~Service!Concluded(p) /\ ~Service!GivenUp(p)
  BY <1>1, <1>2, <1>3, <1>4, <1>5, SpeakingResponse
<1> QED BY <1>4, <1>5, <1>6, <1>7 DEF Service!Losses

LEMMA FailedMove ==
  ASSUME AnswerInv, NEW r \in Requests, Failed(r), UNCHANGED <<hs, got>>
  PROVE  Response(r)' \in Service!Productions(Response(r), MaxNew[r])
<1>1. /\ Speaking(r) /\ ~Closed(r) /\ chan'[r] = Append(chan[r], "error")
      /\ counted'[r] = counted[r] /\ gen'[r] = gen[r]
      /\ ServiceStatus(r)' = ServiceStatus(r) /\ got'[r] = got[r]
  BY DEF Failed, ServiceStatus
<1>2. Shown(got[r], chan'[r]) = Append(Shown(got[r], chan[r]), Service!Terminal("error"))
  <2>1. got[r] \in Nat /\ chan[r] \in Seq(Kinds) /\ "error" \in Kinds
    BY DEF AnswerInv, AnswerTypes, Kinds
  <2> QED BY <1>1, <2>1, ShownTerminal
<1>3. PICK s, m, f, g, k : /\ s = ServiceStatus(r) /\ m = gen[r] /\ f = Shown(got[r], chan[r])
                           /\ g = got[r] /\ k = counted[r]
  OBVIOUS
<1>4. PICK e : e = Append(f, Service!Terminal("error"))
  OBVIOUS
<1>5. PICK p : p = Response(r)
  OBVIOUS
<1>6. /\ p = Answer(s, m, f, g, k) /\ Response(r)' = Answer(s, m, e, g, k) /\ p.flight = f
  BY <1>1, <1>2, <1>3, <1>4, <1>5, ResponseParts DEF Response
<1>7. [p EXCEPT !.flight = e] = Answer(s, m, e, g, k)
  BY <1>6 DEF Answer
<1>8. Response(r)' = [p EXCEPT !.flight = Append(@, Service!Terminal("error"))]
  BY <1>4, <1>6, <1>7
<1>9. /\ p.status \in {"open", "matched"} /\ ~Service!Concluded(p) /\ ~Service!GivenUp(p)
  BY <1>1, <1>5, SpeakingResponse, ResponseParts
<1> QED BY <1>5, <1>8, <1>9 DEF Service!Productions

LEMMA ProducedMove ==
  ASSUME AnswerInv, NEW r \in Requests, Produced(r), UNCHANGED <<hs, got>>
  PROVE  Response(r)' \in Service!Productions(Response(r), MaxNew[r])
<1>1. /\ Speaking(r) /\ ~Closed(r) /\ counted'[r] = counted[r]
      /\ gen'[r] = gen[r] + 1 /\ gen'[r] <= MaxNew[r]
      /\ ServiceStatus(r)' = ServiceStatus(r) /\ got'[r] = got[r]
  BY DEF Produced, Speaking, Working, ModelSites, ServiceStatus
<1>2. PICK n \in Nat : n = gen'[r] /\ n = gen[r] + 1 /\ n <= MaxNew[r]
  BY <1>1 DEF AnswerInv, AnswerTypes
<1>3. PICK c \in Seq(Kinds) : c = chan[r]
  BY DEF AnswerInv, AnswerTypes
<1>4. PICK g \in Nat : g = got[r] /\ g + Len(c) + 1 = n
  <2>1. got[r] \in Nat /\ got[r] + Len(chan[r]) = gen[r] /\ Len(c) \in Nat
    BY <1>1, SpeakingResponse, LenProperties DEF AnswerInv, AnswerTypes
  <2> QED BY <1>2, <1>3, <2>1
<1>5. PICK s \in Seq(Promise) : s = Shown(g, c)
  BY ShownSeq
<1>6. PICK t \in Promise : t = Service!Token(n) /\ t = ShownItem("token", n)
  BY DEF Promise, Kinds, Service!Token, ShownItem
<1>7. PICK x \in Promise, y \in Promise : x = Service!Terminal("stop") /\ y = Service!Terminal("length")
  BY DEF Promise, Kinds, Service!Terminal
<1>8. {"token", "stop", "length"} \subseteq Kinds
  BY DEF Kinds
<1>9. Shown(g, Append(c, "token")) = Append(s, t)
  BY <1>4, <1>5, <1>6, <1>8, ShownAppend
<1>10. Shown(g, Append(c, "stop")) = Append(s, x)
  BY <1>5, <1>7, ShownTerminal
<1>11. Shown(g, Append(Append(c, "token"), "length")) = Append(Append(s, t), y)
  <2>1. Append(c, "token") \in Seq(Kinds)
    BY <1>8, AppendProperties
  <2> QED BY <1>7, <1>9, <2>1, ShownTerminal
<1>12. /\ Append(s, t) = s \o <<t>> /\ Append(Append(s, t), y) = s \o <<t, y>>
  OBVIOUS
<1>13. PICK p : p = Response(r)
  OBVIOUS
<1>14. /\ p.status \in {"open", "matched"} /\ ~Service!Concluded(p) /\ ~Service!GivenUp(p)
       /\ n = p.made + 1 /\ p.flight = s
  BY <1>1, <1>2, <1>3, <1>4, <1>5, <1>13, SpeakingResponse, ResponseParts
<1>15. MaxNew[r] \in Nat /\ ~(n > MaxNew[r])
  BY <1>2, NaiveEngineAssumption
<1>16. Response(r)' = [p EXCEPT !.made = n, !.flight = Shown(g, chan'[r])]
  <2>1. PICK w, m, k, h : /\ w = ServiceStatus(r) /\ m = gen[r] /\ k = counted[r]
                          /\ h = Shown(got[r], chan[r])
    OBVIOUS
  <2>2. PICK e : e = Shown(g, chan'[r])
    OBVIOUS
  <2>3. p = Answer(w, m, h, g, k) /\ Response(r)' = Answer(w, n, e, g, k)
    BY <1>1, <1>2, <1>4, <1>13, <2>1, <2>2 DEF Response
  <2>4. [p EXCEPT !.made = n, !.flight = e] = Answer(w, n, e, g, k)
    <3>1. [p EXCEPT !.made = n, !.flight = e] = [[p EXCEPT !.made = n] EXCEPT !.flight = e]
      OBVIOUS
    <3>2. [p EXCEPT !.made = n] = Answer(w, n, h, g, k)
      BY <2>3 DEF Answer
    <3>3. [Answer(w, n, h, g, k) EXCEPT !.flight = e] = Answer(w, n, e, g, k)
      BY DEF Answer
    <3> QED BY <3>1, <3>2, <3>3
  <2> QED BY <2>2, <2>3, <2>4
<1>17. CASE n # MaxNew[r] /\ chan'[r] = Append(c, "token")
  <2>1. Response(r)' = [p EXCEPT !.made = n, !.flight = @ \o <<Service!Token(n)>>]
    BY <1>6, <1>9, <1>12, <1>14, <1>16, <1>17
  <2> QED BY <1>13, <1>14, <1>15, <1>17, <2>1 DEF Service!Productions
<1>18. CASE n = MaxNew[r] /\ chan'[r] = Append(Append(c, "token"), "length")
  <2>1. Response(r)' = [p EXCEPT !.made = n,
                                 !.flight = @ \o <<Service!Token(n), Service!Terminal("length")>>]
    BY <1>6, <1>7, <1>11, <1>12, <1>14, <1>16, <1>18
  <2> QED BY <1>13, <1>14, <1>15, <1>18, <2>1 DEF Service!Productions
<1>19. CASE chan'[r] = Append(c, "stop")
  <2>1. Response(r)' = [p EXCEPT !.made = n, !.flight = Append(@, Service!Terminal("stop"))]
    BY <1>7, <1>10, <1>14, <1>16, <1>19
  <2> QED BY <1>13, <1>14, <1>15, <2>1 DEF Service!Productions
<1> QED BY <1>2, <1>3, <1>17, <1>18, <1>19 DEF Produced

LEMMA TaskMove ==
  ASSUME PermitInv, AnswerInv, NEW r \in Requests, TaskStep(r), NEW q \in Requests
  PROVE  Moves(q)
<1>1. TaskEffect(r)
  BY TaskStepEffect
<1>2. UNCHANGED <<hs, got>>
  BY <1>1 DEF TaskEffect
<1>3. CASE q # r
  BY <1>1, <1>2, <1>3 DEF TaskEffect, OnlyOf, Moves, Response, ServiceStatus
<1>4. CASE q = r /\ Muted(r)
  BY <1>2, <1>4 DEF Muted, Moves, Response, ServiceStatus
<1>5. CASE q = r /\ Lost(r)
  BY <1>2, <1>5, LostMove DEF Moves, Service!Moves
<1>6. CASE q = r /\ (Failed(r) \/ Produced(r))
  BY <1>2, <1>6, FailedMove, ProducedMove DEF Moves, Service!Moves
<1> QED BY <1>1, <1>3, <1>4, <1>5, <1>6 DEF TaskEffect, Effect

LEMMA EnteringMove ==
  ASSUME PermitInv, AnswerInv, NEW r \in Requests, Entering(r), HandlerMove(r)
  PROVE  Moves(r)
<1>1. /\ ServiceStatus(r) = "new"
      /\ ServiceStatus(r)' \in {"new", "open", "unavailable", "queueFull"}
  BY DEF Entering, ServiceStatus
<1>2. PICK s, m, f, g, k : /\ s = ServiceStatus(r) /\ m = gen[r] /\ f = Shown(got[r], chan[r])
                           /\ g = got[r] /\ k = counted[r]
  OBVIOUS
<1>3. PICK t : t = ServiceStatus(r)'
  OBVIOUS
<1>4. PICK p : p = Response(r)
  OBVIOUS
<1>5. p = Answer(s, m, f, g, k) /\ Response(r)' = Answer(t, m, f, g, k) /\ p.status = s
  BY <1>2, <1>3, <1>4, ResponseParts DEF Response, Entering, HandlerMove
<1>6. CASE t = s
  BY <1>4, <1>5, <1>6 DEF Moves
<1>7. CASE t # s
  <2>1. [p EXCEPT !.status = t] = Answer(t, m, f, g, k)
    BY <1>5 DEF Answer
  <2>2. s = "new" /\ t \in {"open", "unavailable", "queueFull"}
    BY <1>1, <1>2, <1>3, <1>7
  <2>3. Response(r)' = [p EXCEPT !.status = t]
    BY <1>5, <2>1
  <2> QED BY <1>4, <1>5, <2>2, <2>3 DEF Moves, Service!Moves, Service!Admissions
<1> QED BY <1>6, <1>7

LEMMA ReadingMove ==
  ASSUME PermitInv, AnswerInv, NEW r \in Requests, Reading(r), HandlerMove(r)
  PROVE  Moves(r)
<1>1. PICK c \in Seq(Kinds) : c = chan[r]
  BY DEF AnswerInv, AnswerTypes
<1>2. PICK g \in Nat : g = got[r]
  BY DEF AnswerInv, AnswerTypes
<1>3. /\ c # <<>> /\ Head(c) = "token" /\ chan'[r] = Tail(c) /\ got'[r] = g + 1
      /\ ServiceStatus(r) = "open" /\ ServiceStatus(r)' \in {"open", "matched"}
  BY <1>1, <1>2 DEF Reading, ServiceStatus
<1>4. PICK s, m, k : s = ServiceStatus(r) /\ m = gen[r] /\ k = counted[r]
  OBVIOUS
<1>5. PICK f, e, n, t : /\ f = Shown(g, c) /\ e = Shown(got'[r], chan'[r]) /\ n = got'[r]
                        /\ t = ServiceStatus(r)'
  OBVIOUS
<1>6. f # <<>> /\ Head(f).kind = "token" /\ Head(f).n = n /\ Tail(f) = e
  BY <1>3, <1>5, ShownTail
<1>7. PICK p : p = Response(r)
  OBVIOUS
<1>8. /\ p = Answer(s, m, f, g, k) /\ Response(r)' = Answer(t, m, e, n, k)
      /\ p.status = s /\ p.flight = f
  BY <1>1, <1>2, <1>4, <1>5, <1>7, ResponseParts DEF Response, HandlerMove
<1>9. [p EXCEPT !.flight = e, !.read = n, !.status = t] = Answer(t, m, e, n, k)
  <2>1. [p EXCEPT !.flight = e, !.read = n, !.status = t]
          = [[[p EXCEPT !.flight = e] EXCEPT !.read = n] EXCEPT !.status = t]
    OBVIOUS
  <2>2. [p EXCEPT !.flight = e] = Answer(s, m, e, g, k)
    BY <1>8 DEF Answer
  <2>3. [Answer(s, m, e, g, k) EXCEPT !.read = n] = Answer(s, m, e, n, k)
    BY DEF Answer
  <2>4. [Answer(s, m, e, n, k) EXCEPT !.status = t] = Answer(t, m, e, n, k)
    BY DEF Answer
  <2> QED BY <2>1, <2>2, <2>3, <2>4
<1>10. /\ p.status = "open" /\ p.flight # <<>> /\ Head(p.flight).kind = "token"
       /\ Tail(p.flight) = e /\ Head(p.flight).n = n /\ t \in {"open", "matched"}
  BY <1>3, <1>4, <1>5, <1>6, <1>8
<1>11. Response(r)' = [p EXCEPT !.flight = Tail(@), !.read = Head(p.flight).n, !.status = t]
  BY <1>8, <1>9, <1>10
<1>12. Response(r)' \in Service!Readings(p)
  BY <1>10, <1>11 DEF Service!Readings
<1> QED BY <1>7, <1>12 DEF Moves, Service!Moves

LEMMA EndingMove ==
  ASSUME PermitInv, AnswerInv, NEW r \in Requests, Ending(r), HandlerMove(r)
  PROVE  Moves(r)
<1>1. PICK c \in Seq(Kinds) : c = chan[r]
  BY DEF AnswerInv, AnswerTypes
<1>2. PICK g \in Nat : g = got[r]
  BY DEF AnswerInv, AnswerTypes
<1>3. chan'[r] = <<>> /\ got'[r] = g /\ Shown(g, <<>>) = <<>>
  BY <1>2, ShownEmpty DEF Ending
<1>4. PICK s, m, f, k, t : /\ s = ServiceStatus(r) /\ m = gen[r] /\ f = Shown(g, c)
                           /\ k = counted[r] /\ t = ServiceStatus(r)'
  OBVIOUS
<1>5. PICK p : p = Response(r)
  OBVIOUS
<1>6. /\ p = Answer(s, m, f, g, k) /\ Response(r)' = Answer(t, m, <<>>, g, k)
      /\ p.status = s /\ p.flight = f
  BY <1>1, <1>2, <1>3, <1>4, <1>5, ResponseParts DEF Response, HandlerMove
<1>7. [p EXCEPT !.status = t, !.flight = <<>>] = Answer(t, m, <<>>, g, k)
  <2>1. [p EXCEPT !.status = t, !.flight = <<>>] = [[p EXCEPT !.status = t] EXCEPT !.flight = <<>>]
    OBVIOUS
  <2>2. [p EXCEPT !.status = t] = Answer(t, m, f, g, k)
    BY <1>6 DEF Answer
  <2>3. [Answer(t, m, f, g, k) EXCEPT !.flight = <<>>] = Answer(t, m, <<>>, g, k)
    BY DEF Answer
  <2> QED BY <2>1, <2>2, <2>3
<1>8. [p EXCEPT !.flight = <<>>, !.status = t] = Answer(t, m, <<>>, g, k)
  <2>1. [p EXCEPT !.flight = <<>>, !.status = t] = [[p EXCEPT !.flight = <<>>] EXCEPT !.status = t]
    OBVIOUS
  <2>2. [p EXCEPT !.flight = <<>>] = Answer(s, m, <<>>, g, k)
    BY <1>6 DEF Answer
  <2>3. [Answer(s, m, <<>>, g, k) EXCEPT !.status = t] = Answer(t, m, <<>>, g, k)
    BY DEF Answer
  <2> QED BY <2>1, <2>2, <2>3
<1>9. CASE /\ hs[r] = "receiving" /\ c # <<>> /\ Head(c) # "token"
           /\ hs'[r] = Head(c)
  <2>1. Head(c) \in {"stop", "length", "error"}
    BY <1>9, HeadTailProperties DEF Kinds
  <2>2. s = "open" /\ t = Head(c)
    BY <1>4, <1>9, <2>1 DEF ServiceStatus
  <2>3. f # <<>> /\ Head(f).kind = Head(c)
    BY <1>4, <1>9, ShownTail
  <2>4. p.status = "open" /\ p.flight # <<>> /\ Head(p.flight).kind # "token" /\ Head(p.flight).kind = t
    BY <1>6, <1>9, <2>2, <2>3
  <2>5. Response(r)' = [p EXCEPT !.flight = <<>>, !.status = Head(p.flight).kind]
    BY <1>6, <1>8, <2>4
  <2>6. Response(r)' \in Service!Readings(p)
    BY <2>4, <2>5 DEF Service!Readings
  <2> QED BY <1>5, <2>6 DEF Moves, Service!Moves
<1>10. CASE hs[r] = "receiving" /\ c = <<>> /\ hs'[r] = "ended"
  <2>1. s = "open" /\ t = "ended" /\ f = <<>>
    BY <1>3, <1>4, <1>10 DEF ServiceStatus
  <2>2. [p EXCEPT !.status = "ended"] = Answer("ended", m, f, g, k)
    BY <1>6 DEF Answer
  <2>3. Response(r)' \in Service!Endings(p)
    BY <1>6, <2>1, <2>2 DEF Service!Endings
  <2> QED BY <1>5, <2>3 DEF Moves, Service!Moves
<1>11. CASE hs[r] = "receiving" /\ hs'[r] = "gone"
  <2>1. s = "open" /\ t = "gone"
    BY <1>4, <1>11 DEF ServiceStatus
  <2>2. Response(r)' \in Service!Endings(p)
    BY <1>6, <1>7, <2>1 DEF Service!Endings
  <2> QED BY <1>5, <2>2 DEF Moves, Service!Moves
<1>12. CASE hs[r] = "matched" /\ hs'[r] = "stopText"
  <2>1. s = "matched" /\ t = "stopText"
    BY <1>4, <1>12 DEF ServiceStatus
  <2>2. Response(r)' \in Service!Endings(p)
    BY <1>6, <1>7, <2>1 DEF Service!Endings
  <2> QED BY <1>5, <2>2 DEF Moves, Service!Moves
<1> QED BY <1>1, <1>9, <1>10, <1>11, <1>12 DEF Ending

LEMMA HandlerMoves ==
  ASSUME PermitInv, AnswerInv, NEW r \in Requests, HandlerAction(r), NEW q \in Requests
  PROVE  Moves(q)
<1>1. HandlerMove(r)
  BY HandlersAreAlone
<1>2. CASE q # r
  BY <1>1, <1>2 DEF HandlerMove, Moves, Response, ServiceStatus
<1>3. CASE q = r /\ (Submit(r) \/ TryAcquire(r) \/ Spawn(r))
  BY <1>1, <1>3, AdmissionEnters, EnteringMove
<1>4. CASE q = r /\ ~(Submit(r) \/ TryAcquire(r) \/ Spawn(r))
  <2>1. Reading(r) \/ Ending(r)
    BY <1>4, HandlerListens DEF HandlerAction
  <2> QED BY <1>1, <1>4, <2>1, ReadingMove, EndingMove
<1> QED BY <1>2, <1>3, <1>4

LEMMA StepMoves ==
  ASSUME PermitInv, AnswerInv, [Next]_vars, NEW q \in Requests PROVE Moves(q)
<1>1. ASSUME NEW r \in Requests, TaskStep(r) PROVE Moves(q)
  BY <1>1, TaskMove
<1>2. ASSUME NEW r \in Requests, HandlerAction(r) PROVE Moves(q)
  BY <1>2, HandlerMoves
<1>3. CASE Shutdown \/ UNCHANGED vars
  <2>1. UNCHANGED <<gen, counted, chan, hs, got>>
    BY <1>3 DEF Shutdown, vars, handlerVars
  <2> QED BY <2>1 DEF Moves, Response, ServiceStatus
<1> QED BY <1>1, <1>2, <1>3 DEF Next, HandlerStep, HandlerAction

(* Wherever a task of the naive engine is when the shutdown, a matched stop, a *)
(* lost client or an error of the model reaches it, its request's response is  *)
(* one the service promises: every token once and in order, a terminal event   *)
(* last and true, and a cancellation counted at most once and only for a       *)
(* response that was given up.                                                 *)
THEOREM NaiveImplementsService == Spec => ImplementsService
<1>1. Init => Service!Init
  <2> SUFFICES ASSUME Init PROVE Service!Init
    OBVIOUS
  <2>1. \A r \in Requests : Response(r) = Service!New
    BY ShownEmpty DEF Init, Response, Answer, ServiceStatus, Service!New
  <2> QED BY <2>1 DEF Service!Init, Response, Answer, Shown, ServiceItem
<1>2. PermitInv /\ AnswerInv /\ [Next]_vars
        => [Service!Next]_([r \in Requests |->
                 [status  |-> ServiceStatus(r),
                  made    |-> gen[r],
                  flight  |-> [i \in DOMAIN chan[r] |-> ServiceItem(r, i)],
                  read    |-> got[r],
                  counted |-> counted[r]]])
  <2> SUFFICES ASSUME PermitInv, AnswerInv, [Next]_vars PROVE Service!Next
    OBVIOUS
  <2>1. \A r \in Requests : Moves(r)
    BY StepMoves
  <2> QED BY <2>1 DEF Service!Next, Moves, Response, Answer, Shown, ServiceItem
<1> QED
  BY <1>1, <1>2, AnswerInit, AnswerStep, PermitInvInit, PermitInvStep, PTL
  DEF Spec, ImplementsService, Service!Spec
=============================================================================
