--------------------------- MODULE SchedulerProofs ---------------------------
(* What the composed scheduler promises for every set of requests and every    *)
(* limit.  SchedInv is the inductive invariant: types, the place each request  *)
(* is in, the lease each sequence holds, and the control facts that tie them   *)
(* to the scheduler's position in its loop.  ProgressInv adds how far each     *)
(* sequence is: the batch, the slab and the queue stay within their limits, a  *)
(* sequence decodes at the position its lease caches, and a client that has    *)
(* gone costs at most one row.  StreamInv adds what is in each response        *)
(* channel: it ties the tokens under way to those generated and read, and says *)
(* which sequences may still send; with it the scheduler and its handlers      *)
(* implement the generation service.                                           *)
EXTENDS SchedulerService, SequenceTheorems, FiniteSetTheorems, TLAPS

-----------------------------------------------------------------------------
(* What removing, appending and dropping an element do to a sequence.          *)

(* Removing one element closes the gap it leaves.                              *)
LEMMA RemoveAtProperties ==
  ASSUME NEW S, NEW s \in Seq(S), NEW i \in 1 .. Len(s)
  PROVE  /\ RemoveAt(s, i) \in Seq(S)
         /\ Len(RemoveAt(s, i)) = Len(s) - 1
         /\ DOMAIN RemoveAt(s, i) = 1 .. Len(s) - 1
         /\ \A j \in 1 .. Len(s) - 1 :
              RemoveAt(s, i)[j] = IF j < i THEN s[j] ELSE s[j + 1]
  <1> DEFINE a == SubSeq(s, 1, i - 1)
             b == SubSeq(s, i + 1, Len(s))
  <1>1. Len(s) \in Nat /\ i \in Nat
    OBVIOUS
  <1>2. a \in Seq(S) /\ Len(a) = i - 1 /\ \A j \in 1 .. i - 1 : a[j] = s[j]
    BY <1>1, SubSeqProperties
  <1>3. /\ b \in Seq(S) /\ Len(b) = Len(s) - i
        /\ \A j \in 1 .. Len(s) - i : b[j] = s[i + j]
    BY <1>1, SubSeqProperties
  <1> HIDE DEF a, b
  <1>4. /\ a \o b \in Seq(S)
        /\ Len(a \o b) = Len(a) + Len(b)
        /\ \A j \in 1 .. Len(a) + Len(b) :
             (a \o b)[j] = IF j <= Len(a) THEN a[j] ELSE b[j - Len(a)]
    BY <1>2, <1>3, ConcatProperties
  <1>5. Len(a) = i - 1 /\ Len(a) + Len(b) = Len(s) - 1
    BY <1>1, <1>2, <1>3
  <1>6. ASSUME NEW j \in 1 .. Len(s) - 1
        PROVE  (a \o b)[j] = IF j < i THEN s[j] ELSE s[j + 1]
    <2>1. ASSUME j < i PROVE (a \o b)[j] = s[j]
      BY <1>1, <1>2, <1>4, <1>5, <2>1
    <2>2. ASSUME ~(j < i) PROVE (a \o b)[j] = s[j + 1]
      <3>1. j - (i - 1) \in 1 .. Len(s) - i /\ i + (j - (i - 1)) = j + 1 /\ ~(j <= i - 1)
        BY <1>1, <2>2
      <3> QED BY <1>1, <1>3, <1>4, <1>5, <2>2, <3>1
    <2> QED BY <2>1, <2>2
  <1>7. RemoveAt(s, i) = a \o b
    BY DEF RemoveAt, a, b
  <1>8. DOMAIN (a \o b) = 1 .. Len(s) - 1
    BY <1>4, <1>5, LenProperties
  <1> QED BY <1>4, <1>5, <1>6, <1>7, <1>8

(* The three ways running changes keep its elements distinct and change its    *)
(* range by exactly one element.                                               *)
LEMMA RemoveAtInjective ==
  ASSUME NEW S, NEW s \in Seq(S), NEW i \in 1 .. Len(s), IsInjective(s)
  PROVE  IsInjective(RemoveAt(s, i)) /\ Range(RemoveAt(s, i)) = Range(s) \ {s[i]}
  <1> DEFINE t == RemoveAt(s, i)
  <1>1. /\ DOMAIN t = 1 .. Len(s) - 1 /\ DOMAIN s = 1 .. Len(s) /\ Len(s) \in Nat
        /\ \A j \in 1 .. Len(s) - 1 : t[j] = IF j < i THEN s[j] ELSE s[j + 1]
    BY RemoveAtProperties
  <1> HIDE DEF t
  <1>2. IsInjective(t)
    <2> SUFFICES ASSUME NEW x \in DOMAIN t, NEW y \in DOMAIN t, t[x] = t[y] PROVE x = y
      BY DEF IsInjective
    <2> DEFINE at(j) == IF j < i THEN j ELSE j + 1
    <2>1. \A u, v \in 1 .. Len(s) : s[u] = s[v] => u = v
      BY <1>1 DEF IsInjective
    <2>2. /\ x \in 1 .. Len(s) - 1 /\ at(x) \in 1 .. Len(s) /\ t[x] = s[at(x)]
          /\ y \in 1 .. Len(s) - 1 /\ at(y) \in 1 .. Len(s) /\ t[y] = s[at(y)]
      BY <1>1
    <2>3. at(x) = at(y)
      <3> HIDE DEF at
      <3> QED BY <2>1, <2>2
    <2> QED BY <2>2, <2>3
  <1>3. ASSUME NEW x \in Range(t) PROVE x \in Range(s) \ {s[i]}
    <2>1. PICK j \in 1 .. Len(s) - 1 : x = t[j]
      BY <1>1, <1>3 DEF Range
    <2>2. PICK k \in 1 .. Len(s) : x = s[k] /\ k # i
      BY <1>1, <2>1
    <2> QED BY <1>1, <2>2 DEF Range, IsInjective
  <1>4. ASSUME NEW x \in Range(s), x # s[i] PROVE x \in Range(t)
    <2>1. PICK k \in 1 .. Len(s) : x = s[k] /\ k # i
      BY <1>1, <1>4 DEF Range
    <2>2. PICK j \in 1 .. Len(s) - 1 : x = t[j]
      <3>1. CASE k < i
        BY <1>1, <2>1, <3>1
      <3>2. CASE k > i
        <4>1. k - 1 \in 1 .. Len(s) - 1 /\ ~(k - 1 < i) /\ t[k - 1] = s[k]
          BY <1>1, <2>1, <3>2
        <4> QED BY <2>1, <4>1
      <3> QED BY <2>1, <3>1, <3>2
    <2> QED BY <1>1, <2>2 DEF Range
  <1> QED BY <1>2, <1>3, <1>4 DEF t

LEMMA AppendInjectiveRange ==
  ASSUME NEW S, NEW s \in Seq(S), NEW e \in S
  PROVE  /\ Append(s, e) \in Seq(S)
         /\ Range(Append(s, e)) = Range(s) \cup {e}
         /\ IsInjective(s) /\ e \notin Range(s) => IsInjective(Append(s, e))
  <1> DEFINE t == Append(s, e)
  <1>1. /\ t \in Seq(S) /\ DOMAIN t = 1 .. Len(s) + 1 /\ DOMAIN s = 1 .. Len(s)
        /\ Len(s) \in Nat /\ t[Len(s) + 1] = e /\ \A j \in 1 .. Len(s) : t[j] = s[j]
    BY AppendProperties
  <1> HIDE DEF t
  <1>2. ASSUME NEW x \in Range(t) PROVE x \in Range(s) \cup {e}
    BY <1>1, <1>2 DEF Range
  <1>3. ASSUME NEW x \in Range(s) PROVE x \in Range(t)
    <2>1. PICK j \in 1 .. Len(s) : x = s[j]
      BY <1>1, <1>3 DEF Range
    <2>2. j \in DOMAIN t /\ t[j] = x
      BY <1>1, <2>1
    <2> QED BY <2>2 DEF Range
  <1>4. e \in Range(t)
    <2>1. Len(s) + 1 \in DOMAIN t
      BY <1>1
    <2> QED BY <1>1, <2>1 DEF Range
  <1>5. ASSUME IsInjective(s), e \notin Range(s) PROVE IsInjective(t)
    <2> SUFFICES ASSUME NEW x \in DOMAIN t, NEW y \in DOMAIN t, t[x] = t[y] PROVE x = y
      BY DEF IsInjective
    <2>1. \A u, v \in 1 .. Len(s) : s[u] = s[v] => u = v
      BY <1>1, <1>5 DEF IsInjective
    <2>2. \A u \in 1 .. Len(s) : s[u] # e
      BY <1>1, <1>5 DEF Range
    <2> QED BY <1>1, <2>1, <2>2
  <1> QED BY <1>1, <1>2, <1>3, <1>4, <1>5 DEF t

LEMMA TailInjective ==
  ASSUME NEW S, NEW s \in Seq(S), s # <<>>, IsInjective(s)
  PROVE  /\ Tail(s) \in Seq(S) /\ IsInjective(Tail(s))
         /\ Head(s) \in S /\ Head(s) \in Range(s)
         /\ Range(Tail(s)) = Range(s) \ {Head(s)}
  <1>1. Len(s) \in Nat \ {0} /\ DOMAIN s = 1 .. Len(s) /\ Head(s) = s[1] /\ 1 \in 1 .. Len(s)
    BY EmptySeq
  <1>2. Tail(s) = RemoveAt(s, 1)
    <2>1. RemoveAt(s, 1) \in Seq(S) /\ Len(RemoveAt(s, 1)) = Len(s) - 1
      BY <1>1, RemoveAtProperties
    <2>2. Tail(s) \in Seq(S) /\ Len(Tail(s)) = Len(s) - 1
      BY <1>1, HeadTailProperties
    <2>3. \A j \in 1 .. Len(s) - 1 : Tail(s)[j] = s[j + 1]
      BY <1>1, HeadTailProperties
    <2>4. \A j \in 1 .. Len(s) - 1 : RemoveAt(s, 1)[j] = s[j + 1]
      BY <1>1, RemoveAtProperties
    <2> QED BY <2>1, <2>2, <2>3, <2>4, SeqEqual
  <1>3. /\ RemoveAt(s, 1) \in Seq(S) /\ IsInjective(RemoveAt(s, 1))
        /\ Range(RemoveAt(s, 1)) = Range(s) \ {s[1]}
    BY <1>1, RemoveAtInjective, RemoveAtProperties
  <1>4. s[1] \in S /\ s[1] \in Range(s)
    BY <1>1 DEF Range
  <1> QED BY <1>1, <1>2, <1>3, <1>4

-----------------------------------------------------------------------------
(* What the operators shared by several actions do to the types.               *)

LEMMA ChannelCapacityType ==
  ASSUME NEW r \in Requests PROVE ChannelCapacity(r) \in Nat /\ ChannelCapacity(r) >= 2
  BY SchedulerAssumption DEF ChannelCapacity

ChanType(c) ==
  /\ c \in [Requests -> Seq(Item)]
  /\ \A r \in Requests : Len(c[r]) <= ChannelCapacity(r)

LEMMA SendErrorsType ==
  ASSUME ChanType(chan), NEW S, SendErrors(S)
  PROVE  ChanType(chan')
  <1> SUFFICES ASSUME NEW r \in Requests
               PROVE  /\ chan'[r] \in Seq(Item)
                      /\ Len(chan'[r]) <= ChannelCapacity(r)
    BY DEF SendErrors, ChanType
  <1>1. CASE r \in S /\ CanSend(r, <<Error(r)>>)
    <2>1. chan'[r] = Append(chan[r], Error(r))
      BY <1>1 DEF SendErrors
    <2>2. Error(r) \in Item /\ chan[r] \in Seq(Item)
      BY DEF Error, Item, ChanType
    <2>3. Len(chan[r]) + 1 <= ChannelCapacity(r)
      BY <1>1 DEF CanSend
    <2> QED BY <2>1, <2>2, <2>3
  <1>2. CASE ~(r \in S /\ CanSend(r, <<Error(r)>>))
    BY <1>2 DEF SendErrors, ChanType
  <1> QED BY <1>1, <1>2

LEMMA CountType ==
  ASSUME counted \in [Requests -> Nat], NEW S, RecordCancelled(S)
  PROVE  counted' \in [Requests -> Nat]
  BY DEF RecordCancelled

StateNames == {"none", "prefilling", "running", "finished", "cancelled", "failed"}

LEMMA CancelType ==
  ASSUME st \in [Requests -> StateNames], NEW r \in Requests, Cancel(r)
  PROVE  st' \in [Requests -> StateNames]
  BY DEF Cancel, StateNames

LEMMA FailAllType ==
  ASSUME st \in [Requests -> StateNames], ChanType(chan), NEW S, FailAll(S)
  PROVE  st' \in [Requests -> StateNames] /\ ChanType(chan')
  BY SendErrorsType DEF FailAll, StateNames

(* Types of the program counter and the loop's locals.                         *)
LocalsType ==
  /\ pc \in Pcs /\ probe \in {"done", "closed", "sample"}
  /\ idx \in Nat \ {0} /\ ret \in {"admit", "dispatch", "top"}
  /\ cur \in Requests \cup {NoRequest} /\ drained \subseteq Requests

HandlerNames == Unsubmitted \cup Answered \cup {"pushed", "receiving", "matched"}

RestType ==
  /\ running \in Seq(Requests) /\ batch \in Seq(Requests) /\ held \subseteq Requests
  /\ gen \in [Requests -> Nat] /\ kv \in [Requests -> Nat]
  /\ counted \in [Requests -> Nat]
  /\ pending \subseteq Requests
  /\ closed \in BOOLEAN /\ permit \in BOOLEAN /\ shutdown \in BOOLEAN /\ alive \in BOOLEAN
  /\ responseDone \subseteq Requests /\ missed \subseteq Requests
  /\ hs \in [Requests -> HandlerNames]
  /\ got \in [Requests -> Nat]

LEMMA TypeParts ==
  TypeOK <=> LocalsType /\ RestType /\ st \in [Requests -> StateNames] /\ ChanType(chan)
  BY DEF TypeOK, LocalsType, RestType, StateNames, HandlerNames, ChanType

(* Only a validated request is leased a slot.                                  *)
LeaseIsValid == pc \in LeasedPcs => Valid(cur)

(* The items a row sends are well typed and arrive only where they fit.        *)
LEMMA RowSampleType ==
  ASSUME TypeOK, OnePlace, RowsAligned, RowSample
  PROVE  TypeOK'
  <1> DEFINE r == running[idx]
             n == gen[r] + 1
  <1>1. r \in Requests /\ batch[idx] \in Requests /\ n \in Nat
    <2>1. idx \in 1 .. Len(running) /\ batch = running
      BY DEF RowSample, TypeOK, RowsAligned
    <2>2. r \in Requests
      BY <2>1, ElementOfSeq DEF TypeOK
    <2>3. batch[idx] \in Requests
      BY <2>1, <2>2
    <2> HIDE DEF r
    <2>4. gen[r] \in Nat
      BY <2>2 DEF TypeOK
    <2> QED BY <2>2, <2>3, <2>4
  <1>2. PICK eos \in BOOLEAN :
          LET reason == FinishReason(r, n, eos)
              items == Emitted(r, batch[idx], n, reason)
          IN  /\ gen' = [gen EXCEPT ![r] = n]
              /\ IF CanSend(r, items)
                   THEN /\ chan' = [chan EXCEPT ![r] = @ \o items]
                        /\ st' = [st EXCEPT ![r] = IF reason = "none" THEN @ ELSE "finished"]
                        /\ UNCHANGED counted
                   ELSE /\ st' = [st EXCEPT ![r] = IF reason = "none" THEN "cancelled"
                                                                      ELSE "finished"]
                        /\ RecordCancelled({r})
                        /\ UNCHANGED chan
    BY Zenon DEF RowSample
  <1> DEFINE reason == FinishReason(r, n, eos)
             items == Emitted(r, batch[idx], n, reason)
  <1>3. reason \in {"stop", "length", "none"}
    BY DEF FinishReason
  <1>4. items \in Seq(Item)
    <2>1. Token(batch[idx], n) \in Item
      BY <1>1 DEF Token, Item
    <2>2. reason # "none" => Finish(r, reason) \in Item
      BY <1>1, <1>3 DEF Finish, Item
    <2> HIDE DEF reason
    <2> QED BY <2>1, <2>2 DEF Emitted
  <1>5. /\ NextSubject
        /\ UNCHANGED <<running, batch, held, kv>>
        /\ UNCHANGED <<queueVars, shutdown, alive, handlerVars, missed>>
    BY DEF RowSample
  <1> HIDE DEF r, n, reason, items
  <1>6. ChanType(chan')
    <2>1. CASE CanSend(r, items)
      <3>1. /\ chan[r] \in Seq(Item) /\ Len(chan[r]) + Len(items) <= ChannelCapacity(r)
            /\ chan' = [chan EXCEPT ![r] = @ \o items]
        BY <1>1, <1>2, <2>1 DEF CanSend, TypeOK, reason, items
      <3>2. chan[r] \o items \in Seq(Item) /\ Len(chan[r] \o items) = Len(chan[r]) + Len(items)
        BY <1>4, <3>1
      <3> QED BY <1>1, <3>1, <3>2 DEF TypeOK, ChanType
    <2>2. CASE ~CanSend(r, items)
      <3>1. chan' = chan
        BY <1>2, <2>2 DEF reason, items
      <3> QED BY <3>1 DEF TypeOK, ChanType
    <2> QED BY <2>1, <2>2
  <1>7. /\ gen' \in [Requests -> Nat]
        /\ st' \in [Requests -> StateNames]
        /\ counted' \in [Requests -> Nat]
    <2>1. gen' = [gen EXCEPT ![r] = n]
      BY <1>2
    <2>2. \E x \in StateNames : st' = [st EXCEPT ![r] = x]
      <3>1. st[r] \in StateNames
        BY <1>1 DEF TypeOK, StateNames
      <3> QED BY <1>2, <3>1 DEF StateNames, reason, items
    <2>3. counted' \in [Requests -> Nat]
      <3>1. UNCHANGED counted \/ RecordCancelled({r})
        BY <1>2 DEF reason, items
      <3> QED BY <3>1, CountType DEF TypeOK
    <2> QED BY <1>1, <2>1, <2>2, <2>3 DEF TypeOK, StateNames
  <1>8. LocalsType'
    BY <1>5 DEF NextSubject, LocalsType, TypeOK
  <1>9. RestType'
    BY <1>5, <1>7 DEF RestType, TypeOK, HandlerNames, queueVars, handlerVars
  <1>10. (TypeOK)' <=> (LocalsType' /\ RestType' /\ (st \in [Requests -> StateNames])' /\ ChanType(chan'))
    BY DEF TypeOK, LocalsType, RestType, StateNames, HandlerNames, ChanType
  <1> QED BY <1>6, <1>7, <1>8, <1>9, <1>10

(* Moving on to the next sequence or to the next signal is well typed.         *)
LEMMA NextSubjectType ==
  ASSUME LocalsType,
         NextSubject \/ NextProbe("done") \/ NextProbe("closed") \/ NextProbe("sample")
  PROVE  LocalsType'
  BY DEF NextSubject, NextProbe, LocalsType

(* Every step of the scheduler keeps the types.                                *)
LEMMA SchedulerStepType ==
  ASSUME TypeOK, OnePlace, RowsAligned, LeaseIsValid, SchedulerStep
  PROVE  TypeOK'
  <1> DEFINE Parts == /\ LocalsType' /\ RestType'
                      /\ st' \in [Requests -> StateNames] /\ ChanType(chan')
  <1>1. LocalsType /\ RestType /\ st \in [Requests -> StateNames] /\ ChanType(chan)
    BY TypeParts
  <1>2. SUFFICES Parts
    BY DEF TypeOK, LocalsType, RestType, StateNames, HandlerNames, ChanType
  <1>3. NoRequest \notin Requests
    BY SchedulerAssumption
  <1>4. CASE RowSample
    BY <1>4, RowSampleType DEF TypeOK, LocalsType, RestType, StateNames, HandlerNames, ChanType
  <1>5. CASE LoopTop
    BY <1>1, <1>5 DEF LoopTop, Goto, Loop, LocalsType, RestType, Pcs, CandidatePcs, LeasedPcs,
       schedVars, ownVars, queueVars, handlerVars
  <1>6. CASE SweepEnd
    BY <1>1, <1>6 DEF SweepEnd, Call, LocalsType, RestType, Pcs, CandidatePcs, LeasedPcs,
       schedVars, ownVars, queueVars, handlerVars
  <1>7. CASE ReapEnd
    BY <1>1, <1>7 DEF ReapEnd, Goto, LocalsType, RestType, Pcs, CandidatePcs, LeasedPcs,
       schedVars, ownVars, queueVars, handlerVars
  <1>8. CASE AdmissionClosed
    BY <1>1, <1>8 DEF AdmissionClosed, Goto, LocalsType, RestType, Pcs, CandidatePcs, LeasedPcs,
       schedVars, ownVars, queueVars, handlerVars
  <1>9. CASE Dispatch
    BY <1>1, <1>9 DEF Dispatch, Goto, LocalsType, RestType, Pcs, CandidatePcs, LeasedPcs,
       schedVars, ownVars, queueVars, handlerVars
  <1>10. CASE IdleLook
    BY <1>1, <1>10 DEF IdleLook, Goto, LocalsType, RestType, Pcs, CandidatePcs, LeasedPcs,
       schedVars, ownVars, queueVars, handlerVars
  <1>11. CASE IdleWake
    BY <1>1, <1>11 DEF IdleWake, Goto, LocalsType, RestType, Pcs, CandidatePcs, LeasedPcs,
       schedVars, ownVars, queueVars, handlerVars
  <1>12. CASE IdleShutdown
    BY <1>1, <1>12 DEF IdleShutdown, Goto, LocalsType, RestType, Pcs, CandidatePcs, LeasedPcs,
       schedVars, ownVars, queueVars, handlerVars
  <1>13. CASE RowEnd
    BY <1>1, <1>13 DEF RowEnd, Call, LocalsType, RestType, Pcs, CandidatePcs, LeasedPcs,
       schedVars, ownVars, queueVars, handlerVars
  <1>14. CASE CloseAndDrain
    BY <1>1, <1>14 DEF CloseAndDrain, LocalsType, RestType, Pcs, CandidatePcs, LeasedPcs,
       schedVars, ownVars, queueVars, handlerVars
  <1>15. CASE Retire
    BY <1>1, <1>15 DEF Retire, Goto, LocalsType, RestType, Pcs, CandidatePcs, LeasedPcs,
       schedVars, ownVars, queueVars, handlerVars
  <1>16. CASE SweepDone
    <2>1. running[idx] \in Requests
      BY <1>1, <1>16, ElementOfSeq DEF SweepDone, LocalsType, RestType
    <2>2. st' \in [Requests -> StateNames]
      BY <1>1, <1>16, <2>1, CancelType DEF SweepDone
    <2>3. LocalsType'
      BY <1>1, <1>16, NextSubjectType DEF SweepDone
    <2>4. RestType' /\ ChanType(chan')
      BY <1>1, <1>16 DEF SweepDone, RestType, queueVars, handlerVars
    <2> QED BY <2>2, <2>3, <2>4
  <1>17. CASE RowDone
    <2>1. running[idx] \in Requests
      BY <1>1, <1>17, ElementOfSeq DEF RowDone, LocalsType, RestType
    <2>2. st' \in [Requests -> StateNames]
      BY <1>1, <1>17, <2>1, CancelType DEF RowDone
    <2>3. LocalsType'
      BY <1>1, <1>17, NextSubjectType DEF RowDone
    <2>4. RestType' /\ ChanType(chan')
      BY <1>1, <1>17 DEF RowDone, RestType, queueVars, handlerVars
    <2> QED BY <2>2, <2>3, <2>4
  <1>18. CASE SweepClosed
    <2>1. running[idx] \in Requests
      BY <1>1, <1>18, ElementOfSeq DEF SweepClosed, LocalsType, RestType
    <2>2. st' \in [Requests -> StateNames]
      BY <1>1, <1>18, <2>1, CancelType DEF SweepClosed
    <2>3. counted' \in [Requests -> Nat]
      BY <1>1, <1>18, CountType DEF SweepClosed, RestType
    <2>4. LocalsType'
      BY <1>1, <1>18, NextSubjectType DEF SweepClosed
    <2>5. RestType' /\ ChanType(chan')
      BY <1>1, <1>18, <2>3 DEF SweepClosed, RestType, queueVars, handlerVars
    <2> QED BY <2>2, <2>4, <2>5
  <1>19. CASE RowClosed
    <2>1. running[idx] \in Requests
      BY <1>1, <1>19, ElementOfSeq DEF RowClosed, LocalsType, RestType
    <2>2. st' \in [Requests -> StateNames]
      BY <1>1, <1>19, <2>1, CancelType DEF RowClosed
    <2>3. counted' \in [Requests -> Nat]
      BY <1>1, <1>19, CountType DEF RowClosed, RestType
    <2>4. LocalsType'
      BY <1>1, <1>19, NextSubjectType DEF RowClosed
    <2>5. RestType' /\ ChanType(chan')
      BY <1>1, <1>19, <2>3 DEF RowClosed, RestType, queueVars, handlerVars
    <2> QED BY <2>2, <2>4, <2>5
  <1>20. CASE ReapOne
    <2>1. running' \in Seq(Requests)
      BY <1>1, <1>20, RemoveAtProperties DEF ReapOne, RestType
    <2> QED BY <1>1, <1>20, <2>1 DEF ReapOne, LocalsType, RestType, schedVars, ownVars, queueVars, handlerVars
  <1>21. CASE TryPopEmpty
    <2>1. counted' \in [Requests -> Nat]
      BY <1>1, <1>21, CountType DEF TryPopEmpty, RestType
    <2> QED BY <1>1, <1>21, <2>1 DEF TryPopEmpty, Goto, Kept, LocalsType, RestType, Pcs, CandidatePcs,
              LeasedPcs, schedVars, ownVars, queueVars, handlerVars
  <1>22. CASE TryPop
    <2>1. counted' \in [Requests -> Nat]
      BY <1>1, <1>22, CountType DEF TryPop, RestType
    <2> QED BY <1>1, <1>22, <2>1 DEF TryPop, Goto, Kept, LocalsType, RestType, Pcs, CandidatePcs,
              LeasedPcs, schedVars, ownVars, queueVars, handlerVars
  <1>23. CASE CandidateDone
    <2>1. cur \in Requests
      BY <1>1, <1>23 DEF CandidateDone, OnePlace, LocalsType, CandidateSites, CandidatePcs, LeasedPcs
    <2>2. st' \in [Requests -> StateNames]
      BY <1>1, <1>23, <2>1, CancelType DEF CandidateDone
    <2> QED BY <1>1, <1>23, <2>2 DEF CandidateDone, DropCandidate, NextProbe, LocalsType, RestType,
              Pcs, schedVars, ownVars, queueVars, handlerVars
  <1>24. CASE CandidateClosed
    <2>1. cur \in Requests
      BY <1>1, <1>24 DEF CandidateClosed, OnePlace, LocalsType, CandidateSites, CandidatePcs,
         LeasedPcs
    <2>2. st' \in [Requests -> StateNames]
      BY <1>1, <1>24, <2>1, CancelType DEF CandidateClosed, ownVars
    <2>3. counted' \in [Requests -> Nat]
      BY <1>1, <1>24, CountType DEF CandidateClosed, RestType, ownVars
    <2>4. AfterSite[pc] \in Pcs
      BY <1>24 DEF CandidateClosed, CandidateSites, AfterSite, Pcs, CandidatePcs, LeasedPcs
    <2>5. LocalsType'
      BY <1>1, <1>24, <2>4 DEF CandidateClosed, DropCandidate, LocalsType, Pcs
    <2>6. RestType' /\ ChanType(chan')
      BY <1>1, <1>24, <2>3 DEF CandidateClosed, DropCandidate, RestType, schedVars, ownVars, queueVars, handlerVars
    <2> QED BY <2>2, <2>5, <2>6
  <1>25. CASE RefuseCandidate
    <2>1. ChanType(chan')
      BY <1>1, <1>25, SendErrorsType DEF RefuseCandidate
    <2> QED BY <1>1, <1>25, <2>1 DEF RefuseCandidate, DropCandidate, LocalsType, RestType, Pcs,
              schedVars, ownVars, queueVars, handlerVars
  <1>26. CASE NewSequence
    <2>1. cur \in Requests
      BY <1>1, <1>26 DEF NewSequence, OnePlace, LocalsType, CandidatePcs
    <2> QED BY <1>1, <1>26, <2>1 DEF NewSequence, Goto, LocalsType, RestType, StateNames, Pcs,
              CandidatePcs, LeasedPcs, schedVars, ownVars, queueVars, handlerVars
  <1>27. CASE Prefill
    <2>1. cur \in Requests
      BY <1>1, <1>27 DEF Prefill, OnePlace, LocalsType, CandidatePcs, LeasedPcs
    <2>2. PromptLen[cur] - 1 \in Nat
      BY <1>27, <2>1, SchedulerAssumption DEF Prefill, LeaseIsValid, Valid, LeasedPcs
    <2> QED BY <1>1, <1>27, <2>1, <2>2 DEF Prefill, Goto, LocalsType, RestType, StateNames, Pcs,
              CandidatePcs, LeasedPcs, schedVars, ownVars, queueVars, handlerVars
  <1>28. CASE PrefillFails
    <2>1. cur \in Requests
      BY <1>1, <1>28 DEF PrefillFails, OnePlace, LocalsType, CandidatePcs, LeasedPcs
    <2>2. ChanType(chan')
      BY <1>1, <1>28, SendErrorsType DEF PrefillFails
    <2> QED BY <1>1, <1>28, <2>1, <2>2 DEF PrefillFails, DropCandidate, LocalsType, RestType,
              StateNames, Pcs, schedVars, ownVars, queueVars, handlerVars
  <1>29. CASE Push
    <2>1. cur \in Requests
      BY <1>1, <1>29 DEF Push, OnePlace, LocalsType, CandidatePcs, LeasedPcs
    <2>2. running' \in Seq(Requests)
      BY <1>1, <1>29, <2>1, AppendProperties DEF Push, RestType
    <2> QED BY <1>1, <1>29, <2>2 DEF Push, LocalsType, RestType, Pcs, schedVars, ownVars, queueVars, handlerVars
  <1>30. CASE CheckCapacity
    <2>1. st' \in [Requests -> StateNames] /\ ChanType(chan')
      BY <1>1, <1>30, FailAllType DEF CheckCapacity
    <2> QED BY <1>1, <1>30, <2>1 DEF CheckCapacity, Call, LocalsType, RestType, Pcs, schedVars, ownVars, queueVars, handlerVars
  <1>31. CASE Forward
    <2>1. kv' \in [Requests -> Nat] /\ missed' \subseteq Requests
      BY <1>1, <1>31, RangeOfSeq DEF Forward, RestType
    <2> QED BY <1>1, <1>31, <2>1 DEF Forward, Loop, LocalsType, RestType, Pcs, schedVars, ownVars, queueVars, handlerVars
  <1>32. CASE ForwardFails
    <2>1. st' \in [Requests -> StateNames] /\ ChanType(chan')
      BY <1>1, <1>32, FailAllType DEF ForwardFails
    <2> QED BY <1>1, <1>32, <2>1 DEF ForwardFails, Call, LocalsType, RestType, Pcs, schedVars, ownVars, queueVars, handlerVars
  <1>33. CASE FailQueued
    <2>1. ChanType(chan')
      BY <1>1, <1>33, SendErrorsType DEF FailQueued
    <2> QED BY <1>1, <1>33, <2>1 DEF FailQueued, LocalsType, RestType, schedVars, ownVars, queueVars, handlerVars
  <1>34. CASE FailRunning
    <2>1. ChanType(chan')
      BY <1>1, <1>34, SendErrorsType DEF FailRunning
    <2>2. running' \in Seq(Requests)
      BY <1>1, <1>34, HeadTailProperties DEF FailRunning, RestType
    <2> QED BY <1>1, <1>34, <2>1, <2>2 DEF FailRunning, LocalsType, RestType, schedVars, ownVars, queueVars, handlerVars
  <1> QED BY <1>4, <1>5, <1>6, <1>7, <1>8, <1>9, <1>10, <1>11, <1>12, <1>13, <1>14, <1>15, <1>16, <1>17, <1>18, <1>19, <1>20, <1>21, <1>22, <1>23, <1>24, <1>25, <1>26, <1>27, <1>28, <1>29, <1>30, <1>31, <1>32, <1>33, <1>34 DEF SchedulerStep

(* Every step of a handler keeps the types.                                    *)
LEMMA HandlerStepType ==
  ASSUME TypeOK, NEW r \in Requests,
         HandlerStep(r) \/ CheckAlive(r) \/ DropMatched(r) \/ Disconnect(r)
  PROVE  TypeOK'
  <1>1. LocalsType /\ RestType /\ st \in [Requests -> StateNames] /\ ChanType(chan)
    BY TypeParts
  <1>2. SUFFICES LocalsType' /\ RestType' /\ st' \in [Requests -> StateNames] /\ ChanType(chan')
    BY DEF TypeOK, LocalsType, RestType, StateNames, HandlerNames, ChanType
  <1>3. UNCHANGED schedulerOnly
    BY DEF HandlerStep, CheckAlive, Submit, Notify, ReportRefusal, ReceiveToken, ReceiveStop,
       ReceiveTerminal, ReceiveEnd, DropMatched, Disconnect
  <1>4. LocalsType' /\ st' \in [Requests -> StateNames]
    BY <1>1, <1>3 DEF schedulerOnly, schedVars, LocalsType
  <1>5. ASSUME chan[r] # <<>>
        PROVE  /\ Tail(chan[r]) \in Seq(Item) /\ Len(Tail(chan[r])) <= ChannelCapacity(r)
               /\ Head(chan[r]) \in Item
    <2>1. chan[r] \in Seq(Item) /\ Len(chan[r]) <= ChannelCapacity(r)
      BY <1>1 DEF ChanType
    <2>2. ChannelCapacity(r) \in Nat
      BY ChannelCapacityType
    <2> QED BY <1>5, <2>1, <2>2, HeadTailProperties, LenProperties
  <1>6. <<>> \in Seq(Item) /\ Len(<<>>) <= ChannelCapacity(r)
    BY ChannelCapacityType, EmptySeq
  <1>7. ChanType(chan')
    <2>1. \/ UNCHANGED chan
          \/ chan' = [chan EXCEPT ![r] = <<>>]
          \/ chan[r] # <<>> /\ chan' = [chan EXCEPT ![r] = Tail(@)]
      BY DEF HandlerStep, CheckAlive, Submit, Notify, ReportRefusal, ReceiveToken, ReceiveStop,
         ReceiveTerminal, ReceiveEnd, DropMatched, Disconnect
    <2> QED BY <1>1, <1>5, <1>6, <2>1 DEF ChanType
  <1>8. counted' \in [Requests -> Nat] /\ pending' \in SUBSET Requests /\ permit' \in BOOLEAN
    <2>1. CASE Submit(r)
      <3>1. counted' \in [Requests -> Nat]
        BY <1>1, <2>1, CountType DEF Submit, RestType
      <3> QED BY <1>1, <2>1, <3>1 DEF Submit, Kept, RestType
    <2>2. CASE ~Submit(r)
      BY <1>1, <2>2 DEF HandlerStep, CheckAlive, Notify, ReportRefusal, ReceiveToken, ReceiveStop,
         ReceiveTerminal, ReceiveEnd, DropMatched, Disconnect, RestType
    <2> QED BY <2>1, <2>2
  <1>9. responseDone' \subseteq Requests /\ got' \in [Requests -> Nat]
    <2>1. /\ UNCHANGED responseDone \/ responseDone' = responseDone \cup {r}
          /\ UNCHANGED got \/ got' = [got EXCEPT ![r] = @ + 1]
      BY DEF HandlerStep, CheckAlive, Submit, Notify, ReportRefusal, ReceiveToken, ReceiveStop,
         ReceiveTerminal, ReceiveEnd, DropMatched, Disconnect
    <2> QED BY <1>1, <2>1 DEF RestType
  <1>10. hs' \in [Requests -> HandlerNames]
    <2>1. CASE ReceiveTerminal(r)
      <3>1. Head(chan[r]).kind \in {"stop", "length", "error"}
        BY <1>5, <2>1 DEF ReceiveTerminal, Item
      <3> QED BY <1>1, <2>1, <3>1 DEF ReceiveTerminal, RestType, HandlerNames, Answered
    <2>2. CASE ~ReceiveTerminal(r)
      BY <1>1, <2>2 DEF HandlerStep, CheckAlive, Submit, Notify, ReportRefusal, ReceiveToken,
         ReceiveStop, ReceiveEnd, DropMatched, Disconnect, RestType, HandlerNames, Answered,
         Unsubmitted
    <2> QED BY <2>1, <2>2
  <1>11. UNCHANGED <<running, batch, held, gen, kv, closed, shutdown, alive, missed>>
    BY <1>3 DEF schedulerOnly
  <1> QED BY <1>1, <1>4, <1>7, <1>8, <1>9, <1>10, <1>11 DEF RestType

-----------------------------------------------------------------------------
(* The invariant.                                                              *)

(* What the position in the loop says about the queue, the shutdown list and   *)
(* the health flag.                                                            *)
Control ==
  /\ closed <=> pc \in {"failQueued", "stopped"}
  /\ closed => pending = {}
  /\ drained # {} => pc = "failQueued"
  /\ alive <=> pc # "stopped"
  /\ pc \in {"idle", "parked", "stopped"} => running = <<>>

SchedInv ==
  TypeOK /\ OnePlace /\ SlotAccounting /\ RowsAligned /\ LeaseIsValid /\ Control

(* What a handler's step can do to the places of the requests.                 *)
LEMMA HandlerPlaces ==
  ASSUME SchedInv, NEW r \in Requests,
         HandlerStep(r) \/ CheckAlive(r) \/ DropMatched(r) \/ Disconnect(r)
  PROVE  /\ UNCHANGED schedulerOnly
         /\ pending' \subseteq pending \cup {r}
         /\ r \in pending' => r \in pending \/ (hs[r] = "checked" /\ ~closed)
         /\ \A q \in Requests \ {r} : hs'[q] = hs[q]
         /\ r \in Tracked' => hs'[r] \notin Unsubmitted
  <1>1. UNCHANGED schedulerOnly
    BY DEF HandlerStep, CheckAlive, Submit, Notify, ReportRefusal, ReceiveToken, ReceiveStop,
       ReceiveTerminal, ReceiveEnd, DropMatched, Disconnect
  <1>2. UNCHANGED <<drained, running, cur>>
    BY <1>1 DEF schedulerOnly, schedVars
  <1>3. CASE Submit(r)
    <2>1. \/ pending' = Kept /\ hs' = [hs EXCEPT ![r] = "refused"]
          \/ pending' = Kept \cup {r} /\ hs' = [hs EXCEPT ![r] = "pushed"] /\ ~closed
      BY <1>3 DEF Submit
    <2>2. hs[r] = "checked" /\ r \notin Tracked
      BY <1>3 DEF Submit, SchedInv, OnePlace, Unsubmitted
    <2>3. Kept \subseteq pending
      BY DEF Kept
    <2>4. r \in Tracked' => r \in pending'
      BY <1>2, <2>2 DEF Tracked
    <2>5. r \notin pending
      BY <2>2 DEF Tracked
    <2>6. hs \in [Requests -> HandlerNames]
      BY TypeParts DEF SchedInv, RestType
    <2> QED BY <1>1, <2>1, <2>2, <2>3, <2>4, <2>5, <2>6 DEF Unsubmitted
  <1>4. CASE ~Submit(r)
    <2>1. UNCHANGED pending
      BY <1>4 DEF HandlerStep, CheckAlive, Notify, ReportRefusal, ReceiveToken, ReceiveStop,
         ReceiveTerminal, ReceiveEnd, DropMatched, Disconnect
    <2>2. Tracked' = Tracked
      BY <1>2, <2>1 DEF Tracked
    <2>3. hs \in [Requests -> HandlerNames] /\ ChanType(chan)
      BY TypeParts DEF SchedInv, RestType
    <2>4. \A q \in Requests \ {r} : hs'[q] = hs[q]
      BY <1>4, <2>3 DEF HandlerStep, CheckAlive, Notify, ReportRefusal, ReceiveToken, ReceiveStop,
         ReceiveTerminal, ReceiveEnd, DropMatched, Disconnect
    <2>5. r \in Tracked => hs[r] \notin Unsubmitted
      BY DEF SchedInv, OnePlace
    <2>6. CASE ReceiveTerminal(r)
      <3>1. chan[r] \in Seq(Item) /\ chan[r] # <<>>
        BY <2>3, <2>6 DEF ChanType, ReceiveTerminal
      <3>2. Head(chan[r]) \in Item
        BY <3>1, HeadTailProperties
      <3>3. Head(chan[r]).kind \in {"stop", "length", "error"}
        BY <2>6, <3>2 DEF ReceiveTerminal, Item
      <3>4. hs'[r] \notin Unsubmitted
        BY <2>3, <2>6, <3>3 DEF ReceiveTerminal, Unsubmitted
      <3> QED BY <1>1, <2>1, <2>4, <3>4
    <2>7. CASE ~ReceiveTerminal(r)
      <3>1. \/ hs[r] \in Unsubmitted
            \/ \E x \in {"receiving", "matched", "ended", "stopText", "gone"} :
                 hs' = hs \/ hs' = [hs EXCEPT ![r] = x]
        BY <1>4, <2>7 DEF HandlerStep, CheckAlive, Notify, ReportRefusal, ReceiveToken,
           ReceiveStop, ReceiveEnd, DropMatched, Disconnect, Unsubmitted
      <3>2. r \in Tracked => hs'[r] \notin Unsubmitted
        BY <2>3, <2>5, <3>1 DEF Unsubmitted
      <3> QED BY <1>1, <2>1, <2>2, <2>4, <3>2
    <2> QED BY <2>6, <2>7
  <1> QED BY <1>3, <1>4

(* A handler's step keeps the invariant.                                       *)
LEMMA HandlerStepInv ==
  ASSUME SchedInv, NEW r \in Requests,
         HandlerStep(r) \/ CheckAlive(r) \/ DropMatched(r) \/ Disconnect(r)
  PROVE  SchedInv'
  <1>1. /\ UNCHANGED schedulerOnly
        /\ pending' \subseteq pending \cup {r}
        /\ r \in pending' => r \in pending \/ (hs[r] = "checked" /\ ~closed)
        /\ \A q \in Requests \ {r} : hs'[q] = hs[q]
        /\ r \in Tracked' => hs'[r] \notin Unsubmitted
    BY HandlerPlaces
  <1>2. UNCHANGED <<pc, cur, drained, running, batch, held, closed, alive>>
    BY <1>1 DEF schedulerOnly, schedVars
  <1>3. TypeOK'
    BY HandlerStepType DEF SchedInv
  <1>4. hs[r] = "checked" => r \notin Tracked
    BY DEF SchedInv, OnePlace, Unsubmitted
  <1>5. OnePlace'
    <2>1. Tracked' \subseteq Tracked \cup {r} /\ Tracked \subseteq Requests
      BY <1>1, <1>2, RangeOfSeq DEF Tracked, SchedInv, TypeOK
    <2>2. \A q \in Tracked' : hs'[q] \notin Unsubmitted
      BY <1>1, <2>1 DEF SchedInv, OnePlace
    <2>3. /\ pending' \cap drained' = {}
          /\ (pending' \cup drained') \cap Range(running') = {}
          /\ cur' \notin pending' \cup drained' \cup Range(running')
      <3>1. NoRequest # r
        BY SchedulerAssumption
      <3> QED BY <1>1, <1>2, <1>4, <3>1 DEF SchedInv, OnePlace, Tracked
    <2> QED BY <1>2, <2>2, <2>3 DEF SchedInv, OnePlace
  <1>6. SlotAccounting' /\ RowsAligned' /\ LeaseIsValid'
    BY <1>2 DEF SchedInv, SlotAccounting, RowsAligned, LeaseIsValid, Valid
  <1>7. Control'
    BY <1>1, <1>2 DEF SchedInv, Control
  <1> QED BY <1>3, <1>5, <1>6, <1>7 DEF SchedInv

(* The steps of the scheduler that move no request between places: they leave  *)
(* the queue, the candidate, the batch and the leases alone and stay on the    *)
(* same side of an admission.                                                  *)
StayStep ==
  \/ LoopTop \/ SweepDone \/ SweepClosed \/ SweepEnd \/ ReapEnd
  \/ AdmissionClosed \/ CheckCapacity \/ Dispatch \/ IdleLook \/ IdleWake \/ IdleShutdown
  \/ Forward \/ ForwardFails \/ RowDone \/ RowClosed \/ RowSample \/ RowEnd \/ Retire

LEMMA StayStepPlaces ==
  ASSUME SchedInv, StayStep
  PROVE  /\ UNCHANGED <<pending, drained, running, cur, held, closed, hs>>
         /\ pc \notin CandidatePcs /\ pc' \notin CandidatePcs
         /\ pc' \in {"forward", "row"} => batch' = running
         /\ pc' \in {"failQueued", "stopped"} <=> pc \in {"failQueued", "stopped"}
         /\ drained # {} => pc' = "failQueued"
         /\ pc' \in {"idle", "parked", "stopped"} => running = <<>>
         /\ alive' <=> pc' # "stopped"
  <1> USE DEF SchedInv, RowsAligned, Control, TypeOK, CandidatePcs, LeasedPcs
  <1>1. CASE LoopTop
    BY <1>1 DEF LoopTop, Goto, Loop,
       schedVars, ownVars, queueVars, handlerVars
  <1>2. CASE SweepDone
    BY <1>2 DEF SweepDone, NextSubject, NextProbe,
       schedVars, ownVars, queueVars, handlerVars
  <1>3. CASE SweepClosed
    BY <1>3 DEF SweepClosed, NextSubject,
       schedVars, ownVars, queueVars, handlerVars
  <1>4. CASE SweepEnd
    BY <1>4 DEF SweepEnd, Call,
       schedVars, ownVars, queueVars, handlerVars
  <1>5. CASE ReapEnd
    BY <1>5 DEF ReapEnd, Goto,
       schedVars, ownVars, queueVars, handlerVars
  <1>6. CASE AdmissionClosed
    BY <1>6 DEF AdmissionClosed, Goto,
       schedVars, ownVars, queueVars, handlerVars
  <1>7. CASE CheckCapacity
    BY <1>7 DEF CheckCapacity, Call,
       schedVars, ownVars, queueVars, handlerVars
  <1>8. CASE Dispatch
    BY <1>8 DEF Dispatch, Goto,
       schedVars, ownVars, queueVars, handlerVars
  <1>9. CASE IdleLook
    BY <1>9 DEF IdleLook, Goto,
       schedVars, ownVars, queueVars, handlerVars
  <1>10. CASE IdleWake
    BY <1>10 DEF IdleWake, Goto,
       schedVars, ownVars, queueVars, handlerVars
  <1>11. CASE IdleShutdown
    BY <1>11 DEF IdleShutdown, Goto,
       schedVars, ownVars, queueVars, handlerVars
  <1>12. CASE Forward
    BY <1>12 DEF Forward, Loop,
       schedVars, ownVars, queueVars, handlerVars
  <1>13. CASE ForwardFails
    BY <1>13 DEF ForwardFails, Call,
       schedVars, ownVars, queueVars, handlerVars
  <1>14. CASE RowDone
    BY <1>14 DEF RowDone, NextSubject, NextProbe,
       schedVars, ownVars, queueVars, handlerVars
  <1>15. CASE RowClosed
    BY <1>15 DEF RowClosed, NextSubject, NextProbe,
       schedVars, ownVars, queueVars, handlerVars
  <1>16. CASE RowSample
    BY <1>16 DEF RowSample, NextSubject,
       schedVars, ownVars, queueVars, handlerVars
  <1>17. CASE RowEnd
    BY <1>17 DEF RowEnd, Call,
       schedVars, ownVars, queueVars, handlerVars
  <1>18. CASE Retire
    BY <1>18 DEF Retire, Goto,
       schedVars, ownVars, queueVars, handlerVars
  <1> QED BY <1>1, <1>2, <1>3, <1>4, <1>5, <1>6, <1>7, <1>8, <1>9, <1>10, <1>11, <1>12, <1>13, <1>14, <1>15, <1>16, <1>17, <1>18 DEF StayStep

LEMMA StayStepInv ==
  ASSUME SchedInv, StayStep
  PROVE  OnePlace' /\ SlotAccounting' /\ RowsAligned' /\ LeaseIsValid' /\ Control'
  <1>1. /\ UNCHANGED <<pending, drained, running, cur, held, closed, hs>>
        /\ pc \notin CandidatePcs /\ pc' \notin CandidatePcs
        /\ pc' \in {"forward", "row"} => batch' = running
        /\ pc' \in {"failQueued", "stopped"} <=> pc \in {"failQueued", "stopped"}
        /\ drained # {} => pc' = "failQueued"
        /\ pc' \in {"idle", "parked", "stopped"} => running = <<>>
        /\ alive' <=> pc' # "stopped"
    BY StayStepPlaces
  <1>2. Tracked' = Tracked
    BY <1>1 DEF Tracked
  <1> QED BY <1>1, <1>2 DEF SchedInv, OnePlace, SlotAccounting, RowsAligned, LeaseIsValid, Control,
          CandidatePcs

(* One lemma per step that moves a request: together, every part of the        *)
(* invariant but the types.                                                    *)
Places == OnePlace /\ SlotAccounting /\ RowsAligned /\ LeaseIsValid /\ Control

LEMMA ReapOnePlaces == ASSUME SchedInv, ReapOne PROVE Places'
  <1>1. PICK i \in DOMAIN running :
          held' = held \ {running[i]} /\ running' = RemoveAt(running, i)
    BY DEF ReapOne
  <1>2. /\ pc = "reap" /\ UNCHANGED <<pc, cur, drained, pending, closed, alive, hs>>
    BY DEF ReapOne, schedVars, queueVars, handlerVars
  <1>3. running \in Seq(Requests) /\ IsInjective(running) /\ i \in 1 .. Len(running)
    BY <1>1, LenProperties DEF SchedInv, TypeOK, SlotAccounting
  <1>4. IsInjective(running') /\ Range(running') = Range(running) \ {running[i]}
    BY <1>1, <1>3, RemoveAtInjective
  <1>5. Tracked' \subseteq Tracked
    BY <1>2, <1>4 DEF Tracked
  <1>6. OnePlace'
    BY <1>2, <1>4, <1>5 DEF SchedInv, OnePlace
  <1>7. SlotAccounting'
    BY <1>1, <1>2, <1>4 DEF SchedInv, SlotAccounting, LeasedPcs
  <1>8. RowsAligned' /\ LeaseIsValid' /\ Control'
    BY <1>2 DEF SchedInv, RowsAligned, LeaseIsValid, LeasedPcs, Control
  <1> QED BY <1>6, <1>7, <1>8 DEF Places

LEMMA TryPopEmptyPlaces == ASSUME SchedInv, TryPopEmpty PROVE Places'
  <1>1. /\ pc = "admit" /\ pc' = "capacity" /\ pending' \subseteq pending
        /\ UNCHANGED <<cur, drained, running, held, closed, alive, hs>>
    BY DEF TryPopEmpty, Goto, Kept, handlerVars
  <1>2. Tracked' \subseteq Tracked
    BY <1>1 DEF Tracked
  <1>3. OnePlace'
    BY <1>1, <1>2 DEF SchedInv, OnePlace, CandidatePcs, LeasedPcs
  <1>4. SlotAccounting' /\ RowsAligned' /\ LeaseIsValid' /\ Control'
    BY <1>1 DEF SchedInv, SlotAccounting, RowsAligned, LeaseIsValid, LeasedPcs, Control
  <1> QED BY <1>3, <1>4 DEF Places

LEMMA TryPopPlaces == ASSUME SchedInv, TryPop PROVE Places'
  <1>1. PICK r \in Kept : cur' = r /\ pending' = Kept \ {r}
    BY DEF TryPop
  <1>2. /\ pc = "admit" /\ pc' = "popped"
        /\ UNCHANGED <<drained, running, held, closed, alive, hs>>
    BY DEF TryPop, handlerVars
  <1>3. r \in pending /\ r \in Requests /\ r # NoRequest /\ Kept \subseteq pending
    BY SchedulerAssumption DEF Kept, SchedInv, TypeOK
  <1>4. Tracked' \subseteq Tracked
    BY <1>1, <1>2, <1>3 DEF Tracked
  <1>5. OnePlace'
    BY <1>1, <1>2, <1>3, <1>4 DEF SchedInv, OnePlace, CandidatePcs, LeasedPcs
  <1>6. SlotAccounting' /\ RowsAligned' /\ LeaseIsValid' /\ Control'
    BY <1>1, <1>2, <1>3 DEF SchedInv, SlotAccounting, RowsAligned, LeaseIsValid, LeasedPcs, Control
  <1> QED BY <1>5, <1>6 DEF Places

(* Dropping the candidate, wherever admission has got to.                      *)
LEMMA DropCandidatePlaces ==
  ASSUME SchedInv, pc \in CandidatePcs, DropCandidate,
         UNCHANGED <<pending, closed, alive, hs>>
  PROVE  Places'
  <1>1. /\ pc' = "admit" /\ cur' = NoRequest /\ held' = held \ {cur}
        /\ UNCHANGED <<drained, running>>
    BY DEF DropCandidate
  <1>2. cur \notin Range(running) /\ cur # NoRequest
    BY DEF SchedInv, OnePlace
  <1>3. Tracked' \subseteq Tracked
    BY <1>1 DEF Tracked
  <1>4. NoRequest \notin pending \cup drained \cup Range(running)
    BY SchedulerAssumption, RangeOfSeq DEF SchedInv, TypeOK
  <1>5. OnePlace'
    BY <1>1, <1>3, <1>4 DEF SchedInv, OnePlace, CandidatePcs, LeasedPcs
  <1>6. SlotAccounting'
    BY <1>1, <1>2 DEF SchedInv, SlotAccounting, LeasedPcs
  <1>7. RowsAligned' /\ LeaseIsValid' /\ Control'
    BY <1>1 DEF SchedInv, RowsAligned, LeaseIsValid, LeasedPcs, Control, CandidatePcs
  <1> QED BY <1>5, <1>6, <1>7 DEF Places

(* Moving the candidate on inside admission, with the lease it has or gets.    *)
LEMMA AdvanceCandidatePlaces ==
  ASSUME SchedInv, pc \in CandidatePcs, pc' \in CandidatePcs,
         UNCHANGED <<cur, drained, running, pending, closed, alive, hs>>,
         held' = IF pc' \in LeasedPcs THEN held \cup {cur} ELSE held,
         pc \in LeasedPcs => pc' \in LeasedPcs,
         pc' \in LeasedPcs => Valid(cur)
  PROVE  Places'
  <1>1. Tracked' = Tracked
    BY DEF Tracked
  <1>2. OnePlace'
    BY <1>1 DEF SchedInv, OnePlace
  <1>3. SlotAccounting'
    BY DEF SchedInv, SlotAccounting
  <1>4. RowsAligned' /\ LeaseIsValid' /\ Control'
    BY DEF SchedInv, RowsAligned, LeaseIsValid, Valid, LeasedPcs, Control, CandidatePcs
  <1> QED BY <1>2, <1>3, <1>4 DEF Places

LEMMA CandidateDonePlaces == ASSUME SchedInv, CandidateDone PROVE Places'
  <1>1. /\ pc \in CandidatePcs /\ UNCHANGED <<pending, closed, alive, hs>>
    BY DEF CandidateDone, CandidateSites, CandidatePcs, LeasedPcs, queueVars, handlerVars
  <1>2. CASE cur \in responseDone
    BY <1>1, <1>2, DropCandidatePlaces DEF CandidateDone
  <1>3. CASE cur \notin responseDone
    <2>1. UNCHANGED <<pc, cur, drained, running, held>>
      BY <1>3 DEF CandidateDone, NextProbe
    <2>2. held' = IF pc' \in LeasedPcs THEN held \cup {cur} ELSE held
      BY <2>1 DEF SchedInv, SlotAccounting
    <2> QED BY <1>1, <2>1, <2>2, AdvanceCandidatePlaces DEF SchedInv, LeaseIsValid
  <1> QED BY <1>2, <1>3

LEMMA CandidateClosedPlaces == ASSUME SchedInv, CandidateClosed PROVE Places'
  <1>1. /\ pc \in CandidatePcs /\ UNCHANGED <<pending, closed, alive, hs>>
    BY DEF CandidateClosed, CandidateSites, CandidatePcs, LeasedPcs, queueVars, handlerVars
  <1>2. CASE Closed(cur)
    BY <1>1, <1>2, DropCandidatePlaces DEF CandidateClosed
  <1>3. CASE ~Closed(cur)
    <2>1. UNCHANGED <<cur, drained, running, held>>
      BY <1>3 DEF CandidateClosed, ownVars
    <2>2. /\ pc' \in CandidatePcs
          /\ pc \in LeasedPcs <=> pc' \in LeasedPcs
      BY <1>3 DEF CandidateClosed, CandidateSites, AfterSite, CandidatePcs, LeasedPcs
    <2>3. held' = IF pc' \in LeasedPcs THEN held \cup {cur} ELSE held
      BY <2>1, <2>2 DEF SchedInv, SlotAccounting
    <2> QED BY <1>1, <2>1, <2>2, <2>3, AdvanceCandidatePlaces DEF SchedInv, LeaseIsValid
  <1> QED BY <1>2, <1>3

LEMMA RefuseCandidatePlaces == ASSUME SchedInv, RefuseCandidate PROVE Places'
  BY DropCandidatePlaces DEF RefuseCandidate, CandidatePcs, queueVars, handlerVars

LEMMA NewSequencePlaces == ASSUME SchedInv, NewSequence PROVE Places'
  BY AdvanceCandidatePlaces DEF NewSequence, Goto, CandidatePcs, LeasedPcs, queueVars, handlerVars

LEMMA PrefillPlaces == ASSUME SchedInv, Prefill PROVE Places'
  <1>1. cur \in held /\ Valid(cur)
    BY DEF Prefill, SchedInv, SlotAccounting, LeaseIsValid, LeasedPcs
  <1> QED BY <1>1, AdvanceCandidatePlaces DEF Prefill, Goto, CandidatePcs, LeasedPcs, queueVars,
          handlerVars

LEMMA PrefillFailsPlaces == ASSUME SchedInv, PrefillFails PROVE Places'
  BY DropCandidatePlaces DEF PrefillFails, CandidatePcs, LeasedPcs, queueVars, handlerVars

LEMMA PushPlaces == ASSUME SchedInv, Push PROVE Places'
  <1>1. /\ pc = "push" /\ pc' = "admit" /\ cur' = NoRequest /\ running' = Append(running, cur)
        /\ UNCHANGED <<drained, held, pending, closed, alive, hs>>
    BY DEF Push, queueVars, handlerVars
  <1>2. running \in Seq(Requests) /\ IsInjective(running) /\ cur \in Requests
        /\ cur \notin Range(running)
    BY <1>1 DEF SchedInv, TypeOK, SlotAccounting, OnePlace, CandidatePcs, LeasedPcs
  <1>3. Range(running') = Range(running) \cup {cur} /\ IsInjective(running')
    BY <1>1, <1>2, AppendInjectiveRange
  <1>4. Tracked' \subseteq Tracked
    BY <1>1, <1>2, <1>3, SchedulerAssumption DEF Tracked
  <1>5. NoRequest \notin pending \cup drained \cup Range(running')
    BY <1>2, <1>3, SchedulerAssumption, RangeOfSeq DEF SchedInv, TypeOK
  <1>6. OnePlace'
    BY <1>1, <1>3, <1>4, <1>5 DEF SchedInv, OnePlace, CandidatePcs, LeasedPcs
  <1>7. SlotAccounting'
    BY <1>1, <1>3 DEF SchedInv, SlotAccounting, LeasedPcs
  <1>8. RowsAligned' /\ LeaseIsValid' /\ Control'
    BY <1>1 DEF SchedInv, RowsAligned, LeaseIsValid, LeasedPcs, Control
  <1> QED BY <1>6, <1>7, <1>8 DEF Places

LEMMA CloseAndDrainPlaces == ASSUME SchedInv, CloseAndDrain PROVE Places'
  <1>1. /\ pc = "drain" /\ pc' = "failQueued"
        /\ closed' = TRUE /\ drained' = pending /\ pending' = {} /\ drained = {}
        /\ UNCHANGED <<cur, running, held, alive, hs>>
    BY DEF CloseAndDrain, ownVars, handlerVars, SchedInv, Control
  <1>2. Tracked' = Tracked
    BY <1>1 DEF Tracked
  <1>3. OnePlace'
    BY <1>1, <1>2 DEF SchedInv, OnePlace, CandidatePcs, LeasedPcs
  <1>4. SlotAccounting' /\ RowsAligned' /\ LeaseIsValid' /\ Control'
    BY <1>1 DEF SchedInv, SlotAccounting, RowsAligned, LeaseIsValid, LeasedPcs, Control
  <1> QED BY <1>3, <1>4 DEF Places

LEMMA FailQueuedPlaces == ASSUME SchedInv, FailQueued PROVE Places'
  <1>1. /\ pc = "failQueued" /\ drained' \subseteq drained
        /\ UNCHANGED <<pc, cur, running, held, pending, closed, alive, hs>>
    BY DEF FailQueued, ownVars, queueVars, handlerVars
  <1>2. Tracked' \subseteq Tracked
    BY <1>1 DEF Tracked
  <1>3. OnePlace'
    BY <1>1, <1>2 DEF SchedInv, OnePlace
  <1>4. SlotAccounting' /\ RowsAligned' /\ LeaseIsValid' /\ Control'
    BY <1>1 DEF SchedInv, SlotAccounting, RowsAligned, LeaseIsValid, LeasedPcs, Control
  <1> QED BY <1>3, <1>4 DEF Places

LEMMA FailRunningPlaces == ASSUME SchedInv, FailRunning PROVE Places'
  <1>1. /\ pc = "failQueued" /\ held' = held \ {Head(running)} /\ running' = Tail(running)
        /\ UNCHANGED <<pc, cur, drained, pending, closed, alive, hs>>
    BY DEF FailRunning, schedVars, queueVars, handlerVars
  <1>2. running \in Seq(Requests) /\ running # <<>> /\ IsInjective(running)
    BY DEF FailRunning, SchedInv, TypeOK, SlotAccounting
  <1>3. IsInjective(running') /\ Range(running') = Range(running) \ {Head(running)}
    BY <1>1, <1>2, TailInjective
  <1>4. Tracked' \subseteq Tracked
    BY <1>1, <1>3 DEF Tracked
  <1>5. OnePlace'
    BY <1>1, <1>3, <1>4 DEF SchedInv, OnePlace
  <1>6. SlotAccounting'
    BY <1>1, <1>3 DEF SchedInv, SlotAccounting, LeasedPcs
  <1>7. RowsAligned' /\ LeaseIsValid' /\ Control'
    BY <1>1 DEF SchedInv, RowsAligned, LeaseIsValid, LeasedPcs, Control
  <1> QED BY <1>5, <1>6, <1>7 DEF Places

LEMMA SchedulerStepInv == ASSUME SchedInv, SchedulerStep PROVE SchedInv'
  <1>1. TypeOK'
    BY SchedulerStepType DEF SchedInv
  <1>2. CASE StayStep
    BY <1>1, <1>2, StayStepInv DEF SchedInv
  <1>3. CASE ~StayStep
    <2>1. Places'
      BY <1>3, ReapOnePlaces, TryPopEmptyPlaces, TryPopPlaces, CandidateDonePlaces,
         CandidateClosedPlaces, RefuseCandidatePlaces, NewSequencePlaces, PrefillPlaces,
         PrefillFailsPlaces, PushPlaces, CloseAndDrainPlaces, FailQueuedPlaces,
         FailRunningPlaces DEF SchedulerStep, StayStep
    <2> QED BY <1>1, <2>1 DEF SchedInv, Places
  <1> QED BY <1>2, <1>3

LEMMA SchedInit == Init => SchedInv
  <1> SUFFICES ASSUME Init PROVE SchedInv
    OBVIOUS
  <1>1. running = <<>> /\ batch = <<>> /\ <<>> \in Seq(Requests) /\ Range(<<>>) = {}
    BY EmptySeq DEF Init, Range
  <1>2. ChanType(chan)
    <2>1. <<>> \in Seq(Item) /\ Len(<<>>) = 0
      BY EmptySeq
    <2>2. \A r \in Requests : 0 <= ChannelCapacity(r)
      BY ChannelCapacityType
    <2> QED BY <2>1, <2>2 DEF Init, ChanType
  <1>3. LocalsType /\ RestType /\ st \in [Requests -> StateNames]
    <2>1. LocalsType
      BY <1>1 DEF Init, LocalsType, Pcs
    <2>2. /\ running \in Seq(Requests) /\ batch \in Seq(Requests)
          /\ held \subseteq Requests /\ pending \subseteq Requests
          /\ responseDone \subseteq Requests /\ missed \subseteq Requests
          /\ closed \in BOOLEAN /\ permit \in BOOLEAN /\ shutdown \in BOOLEAN /\ alive \in BOOLEAN
      <3>1. <<>> \in Seq(Requests)
        BY EmptySeq
      <3> QED BY <1>1, <3>1 DEF Init
    <2>3. /\ gen \in [Requests -> Nat] /\ kv \in [Requests -> Nat]
          /\ counted \in [Requests -> Nat] /\ got \in [Requests -> Nat]
      BY DEF Init
    <2>4. hs \in [Requests -> HandlerNames]
      BY DEF Init, HandlerNames, Unsubmitted
    <2>5. RestType
      BY <2>2, <2>3, <2>4 DEF RestType
    <2> QED BY <2>1, <2>5 DEF Init, StateNames
  <1>4. TypeOK
    BY <1>2, <1>3, TypeParts
  <1>5. OnePlace
    BY <1>1 DEF Init, OnePlace, Tracked, CandidatePcs, LeasedPcs
  <1>6. SlotAccounting
    BY <1>1 DEF Init, SlotAccounting, LeasedPcs, IsInjective
  <1>7. RowsAligned /\ LeaseIsValid /\ Control
    BY DEF Init, RowsAligned, LeaseIsValid, LeasedPcs, Control
  <1> QED BY <1>4, <1>5, <1>6, <1>7 DEF SchedInv

LEMMA SchedStep == SchedInv /\ [Next]_vars => SchedInv'
  <1> SUFFICES ASSUME SchedInv, [Next]_vars PROVE SchedInv'
    OBVIOUS
  <1>1. CASE SchedulerStep
    BY <1>1, SchedulerStepInv
  <1>2. ASSUME NEW r \in Requests,
               HandlerStep(r) \/ CheckAlive(r) \/ DropMatched(r) \/ Disconnect(r)
        PROVE  SchedInv'
    BY <1>2, HandlerStepInv
  <1>3. CASE Shutdown \/ UNCHANGED vars
    <2>1. /\ shutdown' \in BOOLEAN
          /\ UNCHANGED <<schedVars, ownVars, queueVars, chan, alive, handlerVars, missed>>
      BY <1>3 DEF Shutdown, vars, SchedInv, TypeOK
    <2>2. UNCHANGED <<pc, probe, idx, ret, cur, drained, running, batch, held, st, gen, kv, counted,
                      pending, closed, permit, chan, alive, hs, got, responseDone, missed>>
      BY <2>1 DEF schedVars, ownVars, queueVars, handlerVars
    <2>3. TypeOK'
      BY <2>1, <2>2 DEF SchedInv, TypeOK
    <2>4. Tracked' = Tracked
      BY <2>2 DEF Tracked
    <2> QED BY <2>2, <2>3, <2>4 DEF SchedInv, OnePlace, SlotAccounting, RowsAligned, LeaseIsValid,
            Valid, Control
  <1> QED BY <1>1, <1>2, <1>3 DEF Next

-----------------------------------------------------------------------------
(* Theorems.                                                                   *)

(* The inductive invariant holds in every reachable state, for any requests,   *)
(* any limits and any interleaving of the loop with its handlers.              *)
THEOREM SchedulerInvariant == Spec => []SchedInv
  BY SchedInit, SchedStep, PTL DEF Spec

(* Types, and no channel ever holds more than its capacity.                    *)
THEOREM SchedulerTypes == Spec => []TypeOK
  <1>1. SchedInv => TypeOK
    BY DEF SchedInv
  <1> QED BY <1>1, SchedulerInvariant, PTL

(* A request is in one place at a time.                                        *)
THEOREM RequestsAreInOnePlace == Spec => []OnePlace
  <1>1. SchedInv => OnePlace
    BY DEF SchedInv
  <1> QED BY <1>1, SchedulerInvariant, PTL

(* Every lease belongs to one live sequence and every sequence has its lease.  *)
THEOREM SlotsAreAccountedFor == Spec => []SlotAccounting
  <1>1. SchedInv => SlotAccounting
    BY DEF SchedInv
  <1> QED BY <1>1, SchedulerInvariant, PTL

(* Logits row i is sampled for the sequence the batch put at row i.            *)
THEOREM RowsStayAligned == Spec => []RowsAligned
  <1>1. SchedInv => RowsAligned
    BY DEF SchedInv
  <1> QED BY <1>1, SchedulerInvariant, PTL

(* No request is left in a closed queue or holding a slot after the drain.     *)
THEOREM NobodyIsStranded == Spec => []NothingStranded
  <1>1. SchedInv => NothingStranded
    <2> SUFFICES ASSUME SchedInv PROVE NothingStranded
      OBVIOUS
    <2>1. ASSUME pc = "stopped" PROVE closed /\ Tracked = {} /\ held = {}
      <3>1. running = <<>> /\ Range(<<>>) = {} /\ pending = {} /\ drained = {} /\ closed
        BY <2>1 DEF SchedInv, Control, Range
      <3>2. cur = NoRequest
        BY <2>1 DEF SchedInv, OnePlace, CandidatePcs, LeasedPcs
      <3> QED BY <2>1, <3>1, <3>2 DEF SchedInv, SlotAccounting, LeasedPcs, Tracked
    <2> QED BY <2>1 DEF SchedInv, Control, NothingStranded
  <1> QED BY <1>1, SchedulerInvariant, PTL

-----------------------------------------------------------------------------
(* Limits.                                                                     *)

\* A candidate counts as a running sequence from the moment it is popped, and as
\* a slot until it has its own.
BatchLimit == Len(running) + (IF pc \in CandidatePcs THEN 1 ELSE 0) <= MaxRunning
SlabLimit  == Cardinality(held) + (IF pc \in {"popped", "validate"} THEN 1 ELSE 0) <= MaxSlots
QueueLimit == Cardinality(pending) <= MaxDepth

LimitsInv == BatchLimit /\ SlabLimit /\ QueueLimit

(* All the sets the limits are about are finite.                               *)
LEMMA SubsetsAreFinite ==
  ASSUME NEW S, S \subseteq Requests
  PROVE  IsFiniteSet(S) /\ Cardinality(S) \in Nat
BY SchedulerAssumption, FS_Subset, FS_CardinalityType

(* A smaller set has no more elements, one more element counts at most one.    *)
LEMMA SubsetCounts ==
  ASSUME NEW S, NEW T, S \subseteq Requests, T \subseteq S
  PROVE  Cardinality(T) <= Cardinality(S)
BY SubsetsAreFinite, FS_Subset

LEMMA OneMoreCounts ==
  ASSUME NEW S, NEW x \in Requests, S \subseteq Requests
  PROVE  Cardinality(S \cup {x}) <= Cardinality(S) + 1
BY SubsetsAreFinite, FS_AddElement

\* A step that admits nobody.
Shrinks ==
  /\ Len(running') <= Len(running) /\ held' \subseteq held /\ pending' \subseteq pending
  /\ pc' \in CandidatePcs => pc \in CandidatePcs
  /\ pc' \in {"popped", "validate"} => pc \in {"popped", "validate"}

LEMMA ShrinkingStep == ASSUME SchedInv, SchedInv', LimitsInv, Shrinks PROVE LimitsInv'
<1>1. /\ Cardinality(held') <= Cardinality(held)
      /\ Cardinality(pending') <= Cardinality(pending)
  BY SubsetCounts DEF SchedInv, TypeOK, Shrinks
<1>2. /\ Cardinality(held) \in Nat /\ Cardinality(held') \in Nat
      /\ Cardinality(pending) \in Nat /\ Cardinality(pending') \in Nat
  BY SubsetsAreFinite DEF SchedInv, TypeOK
<1>3. Len(running) \in Nat /\ Len(running') \in Nat
  BY LenProperties DEF SchedInv, TypeOK
<1> QED
  BY <1>1, <1>2, <1>3, SchedulerAssumption
  DEF Shrinks, LimitsInv, BatchLimit, SlabLimit, QueueLimit

(* Only popping a candidate, its lease and its place in the batch add to what  *)
(* the limits count.                                                           *)
LEMMA SchedulerShrinks ==
  ASSUME SchedInv, SchedInv', SchedulerStep, ~TryPop, ~NewSequence, ~Push
  PROVE  Shrinks
<1> USE DEF Shrinks, CandidatePcs, LeasedPcs
<1>1. CASE StayStep
  BY <1>1, StayStepPlaces
<1>2. CASE ReapOne
  <2>1. running \in Seq(Requests)
    BY DEF SchedInv, TypeOK
  <2>2. PICK i \in 1 .. Len(running) : running' = RemoveAt(running, i)
    BY <1>2, <2>1, LenProperties DEF ReapOne
  <2>3. Len(running') = Len(running) - 1 /\ Len(running) \in Nat
    BY <2>1, <2>2, RemoveAtProperties, LenProperties
  <2> QED BY <1>2, <2>3 DEF ReapOne, schedVars, queueVars
<1>3. CASE FailRunning
  <2>1. running \in Seq(Requests) /\ running # <<>>
    BY <1>3 DEF SchedInv, TypeOK, FailRunning
  <2>2. Len(running') = Len(running) - 1 /\ Len(running) \in Nat
    BY <1>3, <2>1, HeadTailProperties, LenProperties DEF FailRunning
  <2> QED BY <1>3, <2>2 DEF FailRunning, schedVars, queueVars
<1>4. CASE TryPopEmpty \/ CloseAndDrain \/ FailQueued
  <2>1. Len(running) \in Nat
    BY LenProperties DEF SchedInv, TypeOK
  <2> QED BY <1>4, <2>1 DEF TryPopEmpty, CloseAndDrain, FailQueued, Goto, Kept, ownVars, queueVars
<1>5. CASE CandidateDone \/ CandidateClosed
  <2>1. Len(running) \in Nat
    BY LenProperties DEF SchedInv, TypeOK
  <2>2. pc \in CandidateSites => AfterSite[pc] \in {"validate", "prefill", "push"}
                                 /\ (AfterSite[pc] = "validate" => pc = "popped")
    BY DEF CandidateSites, AfterSite
  <2> QED
    BY <1>5, <2>1, <2>2
    DEF CandidateDone, CandidateClosed, CandidateSites, DropCandidate, NextProbe, ownVars, queueVars
<1>6. CASE RefuseCandidate \/ Prefill \/ PrefillFails
  <2>1. Len(running) \in Nat
    BY LenProperties DEF SchedInv, TypeOK
  <2> QED BY <1>6, <2>1 DEF RefuseCandidate, Prefill, PrefillFails, DropCandidate, Goto, queueVars
<1> QED BY <1>1, <1>2, <1>3, <1>4, <1>5, <1>6 DEF SchedulerStep, StayStep

LEMMA SchedulerLimits ==
  ASSUME SchedInv, SchedInv', LimitsInv, SchedulerStep PROVE LimitsInv'
<1>1. /\ Cardinality(held) \in Nat /\ Cardinality(pending) \in Nat
      /\ Cardinality(held') \in Nat /\ Cardinality(pending') \in Nat
  BY SubsetsAreFinite DEF SchedInv, TypeOK
<1>2. running \in Seq(Requests) /\ Len(running) \in Nat
  BY LenProperties DEF SchedInv, TypeOK
<1> USE SchedulerAssumption DEF LimitsInv, BatchLimit, SlabLimit, QueueLimit, CandidatePcs, LeasedPcs
<1>3. CASE TryPop
  <2>1. pending' \subseteq pending /\ pending \subseteq Requests
    BY <1>3 DEF TryPop, Kept, SchedInv, TypeOK
  <2>2. Cardinality(pending') <= Cardinality(pending)
    BY <2>1, SubsetCounts
  <2>3. /\ Len(running) < MaxRunning /\ Cardinality(held) < MaxSlots
        /\ pc' = "popped" /\ UNCHANGED <<running, held>>
    BY <1>3 DEF TryPop, BatchHasRoom
  <2> QED BY <1>1, <1>2, <2>2, <2>3
<1>4. CASE NewSequence
  <2>1. /\ pc = "validate" /\ pc' = "leased" /\ held' = held \cup {cur}
        /\ UNCHANGED <<running, pending>>
    BY <1>4 DEF NewSequence, Goto, queueVars
  <2>2. cur \in Requests /\ held \subseteq Requests
    BY <2>1 DEF SchedInv, TypeOK, OnePlace
  <2>3. Cardinality(held') <= Cardinality(held) + 1
    BY <2>1, <2>2, OneMoreCounts
  <2> QED BY <1>1, <1>2, <2>1, <2>3
<1>5. CASE Push
  <2>1. /\ pc = "push" /\ pc' = "admit" /\ running' = Append(running, cur)
        /\ UNCHANGED <<held, pending>>
    BY <1>5 DEF Push, queueVars
  <2>2. cur \in Requests
    BY <2>1 DEF SchedInv, TypeOK, OnePlace
  <2>3. Len(running') = Len(running) + 1
    BY <1>2, <2>1, <2>2, AppendProperties
  <2> QED BY <1>1, <1>2, <2>1, <2>3
<1>6. CASE ~TryPop /\ ~NewSequence /\ ~Push
  BY <1>6, SchedulerShrinks, ShrinkingStep
<1> QED BY <1>3, <1>4, <1>5, <1>6

LEMMA HandlerLimits ==
  ASSUME SchedInv, SchedInv', LimitsInv, NEW r \in Requests,
         HandlerStep(r) \/ CheckAlive(r) \/ DropMatched(r) \/ Disconnect(r)
  PROVE  LimitsInv'
<1>1. UNCHANGED <<pc, running, held>>
  BY HandlerPlaces DEF schedulerOnly, schedVars
<1>2. Cardinality(pending') <= MaxDepth
  <2>1. CASE Submit(r)
    <3>1. Kept \subseteq pending /\ pending \subseteq Requests
      BY DEF Kept, SchedInv, TypeOK
    <3>2. Cardinality(Kept) \in Nat /\ Cardinality(pending) \in Nat
          /\ Cardinality(Kept) <= Cardinality(pending)
          /\ Cardinality(Kept \cup {r}) <= Cardinality(Kept) + 1
          /\ Cardinality(Kept \cup {r}) \in Nat
      BY <3>1, SubsetsAreFinite, SubsetCounts, OneMoreCounts
    <3>3. pending' = Kept \/ (pending' = Kept \cup {r} /\ ~(Cardinality(Kept) >= MaxDepth))
      BY <2>1 DEF Submit
    <3>4. CASE pending' = Kept
      <4>1. Cardinality(pending') = Cardinality(Kept)
        BY <3>4
      <4> QED BY <3>2, <4>1, SchedulerAssumption DEF LimitsInv, QueueLimit
    <3>5. CASE pending' = Kept \cup {r} /\ ~(Cardinality(Kept) >= MaxDepth)
      <4>1. Cardinality(pending') = Cardinality(Kept \cup {r})
        BY <3>5
      <4> QED BY <3>2, <3>5, <4>1, SchedulerAssumption
    <3> QED BY <3>3, <3>4, <3>5
  <2>2. CASE ~Submit(r)
    <3>1. UNCHANGED pending
      BY <2>2 DEF HandlerStep, CheckAlive, Notify, ReportRefusal, ReceiveToken, ReceiveStop,
         ReceiveTerminal, ReceiveEnd, DropMatched, Disconnect
    <3> QED BY <3>1 DEF LimitsInv, QueueLimit
  <2> QED BY <2>1, <2>2
<1> QED BY <1>1, <1>2 DEF LimitsInv, BatchLimit, SlabLimit, QueueLimit

LEMMA LimitsInit == Init => LimitsInv
BY FS_EmptySet, EmptySeq, SchedulerAssumption
DEF Init, LimitsInv, BatchLimit, SlabLimit, QueueLimit, CandidatePcs, LeasedPcs

LEMMA LimitsStep == SchedInv /\ SchedInv' /\ LimitsInv /\ [Next]_vars => LimitsInv'
<1> SUFFICES ASSUME SchedInv, SchedInv', LimitsInv, [Next]_vars PROVE LimitsInv'
  OBVIOUS
<1>1. CASE SchedulerStep
  BY <1>1, SchedulerLimits
<1>2. ASSUME NEW r \in Requests,
             HandlerStep(r) \/ CheckAlive(r) \/ DropMatched(r) \/ Disconnect(r)
      PROVE  LimitsInv'
  BY <1>2, HandlerLimits
<1>3. CASE Shutdown \/ UNCHANGED vars
  <2>1. UNCHANGED <<pc, running, held, pending>>
    BY <1>3 DEF Shutdown, vars, schedVars, ownVars, queueVars
  <2> QED BY <2>1 DEF LimitsInv, BatchLimit, SlabLimit, QueueLimit
<1> QED BY <1>1, <1>2, <1>3 DEF Next

(* However submissions, admissions, evictions and the drain interleave, the    *)
(* batch and the slab are never overcommitted, the queue never exceeds its     *)
(* depth, and the slot that was free when a candidate was popped is free when  *)
(* it is allocated: `allocate` cannot fail for a valid request.                *)
THEOREM LimitsHold == Spec => []WithinLimits
<1>1. SchedInv /\ LimitsInv => WithinLimits
  <2> SUFFICES ASSUME SchedInv, LimitsInv PROVE WithinLimits
    OBVIOUS
  <2>1. Cardinality(held) \in Nat
    BY SubsetsAreFinite DEF SchedInv, TypeOK
  <2> QED
    BY <2>1, SchedulerAssumption
    DEF LimitsInv, BatchLimit, SlabLimit, QueueLimit, WithinLimits, Valid, HasRoomFor
<1> QED BY <1>1, LimitsInit, LimitsStep, SchedInit, SchedStep, PTL DEF Spec

-----------------------------------------------------------------------------
(* Progress.                                                                   *)

\* A row is decoded for a closed receiver only if the client was once running.
MissedAreGone ==
  \A r \in missed : Closed(r) /\ r \notin pending \cup drained \cup {cur}

\* The batch is built from what reap_done_sequences left.
NoneDone == pc \in {"dispatch", "forward"} => \A r \in Range(running) : ~IsDone(r)

\* Until its row is reached and its signals are read, a client that went may be
\* taken for one that is still there.
MissedAreDone ==
  \A i \in DOMAIN running :
    running[i] \in missed /\ ~IsDone(running[i]) =>
      pc = "row" /\ i >= idx /\ (i = idx => probe # "sample")

\* Nothing is generated before the first row.
FreshHaveNoTokens ==
  \A r \in Requests :
    hs[r] \in Unsubmitted \/ r \in pending \cup drained \cup {cur} => gen[r] = 0

PrefilledIsCached == pc \in {"prefilled", "push"} => kv[cur] = PromptLen[cur] - 1

RowCached(r, ahead) ==
  /\ Valid(r) /\ kv[r] < PromptLen[r] + MaxNew[r]
  /\ ~IsDone(r) => /\ gen[r] < MaxNew[r]
                   /\ kv[r] = DecodePosition(r) + (IF ahead THEN 1 ELSE 0)

\* A row that was forwarded and not yet handed out is one entry ahead.
RunningIsCached ==
  \A i \in DOMAIN running : RowCached(running[i], pc = "row" /\ i >= idx)

ProgressInv ==
  /\ MissedAreGone /\ NoneDone /\ MissedAreDone
  /\ FreshHaveNoTokens /\ PrefilledIsCached /\ RunningIsCached

\* A step outside the rows that runs nobody new and caches nothing.
Calm ==
  /\ pc # "row" /\ pc' # "row"
  /\ UNCHANGED <<gen, kv, missed, hs>>
  /\ Range(running') \subseteq Range(running)
  /\ pending' \cup drained' \cup {cur'} \subseteq pending \cup drained \cup {cur, NoRequest}
  /\ \A r \in Range(running') : IsDone(r) => IsDone(r)'
  /\ pc' \in {"dispatch", "forward"} => \A r \in Range(running') : ~IsDone(r)'
  /\ pc' \in {"prefilled", "push"} => pc \in {"prefilled", "push"} /\ cur' = cur

LEMMA CalmProgress == ASSUME SchedInv, ProgressInv, Calm PROVE ProgressInv'
<1>1. missed \subseteq Requests /\ NoRequest \notin Requests
  BY SchedulerAssumption DEF SchedInv, TypeOK
<1>2. MissedAreGone'
  BY <1>1 DEF Calm, ProgressInv, MissedAreGone, Closed
<1>3. NoneDone'
  BY DEF Calm, NoneDone
<1>4. FreshHaveNoTokens'
  BY <1>1 DEF Calm, ProgressInv, FreshHaveNoTokens
<1>5. PrefilledIsCached'
  BY DEF Calm, ProgressInv, PrefilledIsCached
<1>6. \A i \in DOMAIN running' : \E j \in DOMAIN running : running'[i] = running[j]
  BY DEF Calm, Range
<1>7. \A i \in DOMAIN running' : IsDone(running'[i]) => st'[running'[i]] \in {"finished", "cancelled", "failed"}
  BY DEF Calm, Range, IsDone
<1>8. MissedAreDone'
  BY <1>6, <1>7 DEF Calm, ProgressInv, MissedAreDone, IsDone
<1>9. RunningIsCached'
  BY <1>6, <1>7 DEF Calm, ProgressInv, RunningIsCached, RowCached, IsDone, DecodePosition, Valid
<1> QED BY <1>2, <1>3, <1>4, <1>5, <1>8, <1>9 DEF ProgressInv

(* Neither a cancellation nor a failure revives a sequence.                    *)
LEMMA CancelKeepsDone ==
  ASSUME SchedInv, NEW x \in Requests, Cancel(x)
  PROVE  /\ \A r \in Requests : IsDone(r) => IsDone(r)'
         /\ x \in held => IsDone(x)'
         /\ \A r \in Requests \ {x} : st'[r] = st[r]
BY DEF SchedInv, TypeOK, Cancel, IsDone

LEMMA FailAllKeepsDone ==
  ASSUME NEW S, FailAll(S)
  PROVE  \A r \in Requests : IsDone(r) => IsDone(r)'
BY DEF FailAll, IsDone

CalmStep ==
  \/ LoopTop \/ SweepDone \/ SweepClosed \/ SweepEnd \/ ReapOne \/ ReapEnd
  \/ AdmissionClosed \/ TryPopEmpty \/ TryPop
  \/ CandidateDone \/ CandidateClosed \/ RefuseCandidate \/ NewSequence \/ PrefillFails
  \/ CheckCapacity \/ Dispatch \/ IdleLook \/ IdleWake \/ IdleShutdown \/ ForwardFails
  \/ CloseAndDrain \/ FailQueued \/ FailRunning \/ Retire

LEMMA CalmSteps == ASSUME SchedInv, NoneDone, CalmStep PROVE Calm
<1>1. /\ running \in Seq(Requests) /\ Range(running) \subseteq Requests
      /\ st \in [Requests -> StateNames]
  BY RangeOfSeq DEF SchedInv, TypeOK, StateNames
<1>2. Range(running) = {running[i] : i \in DOMAIN running}
  BY DEF Range
<1> USE DEF Calm, IsDone
<1>3. CASE LoopTop \/ SweepEnd \/ AdmissionClosed \/ IdleLook \/ IdleWake \/ IdleShutdown \/ Retire
  BY <1>3
  DEF LoopTop, SweepEnd, AdmissionClosed, IdleLook, IdleWake, IdleShutdown, Retire, Goto, Loop,
      Call, ownVars, queueVars, handlerVars
<1>4. CASE SweepDone \/ SweepClosed
  <2>1. /\ pc = "sweep" /\ pc' = "sweep"
        /\ UNCHANGED <<running, gen, kv, missed, hs, pending, drained, cur>>
        /\ UNCHANGED st \/ Cancel(running[idx])
        /\ idx <= Len(running)
    BY <1>4 DEF SweepDone, SweepClosed, NextSubject, NextProbe, queueVars, handlerVars
  <2>2. running[idx] \in Requests
    BY <1>1, <2>1, ElementOfSeq DEF SchedInv, TypeOK
  <2> QED BY <1>1, <2>1, <2>2, CancelKeepsDone
<1>5. CASE ReapOne \/ FailRunning
  <2>1. Range(running') \subseteq Range(running)
    <3>1. CASE ReapOne
      <4>1. PICK i \in 1 .. Len(running) : running' = RemoveAt(running, i)
        BY <1>1, <3>1, LenProperties DEF ReapOne
      <4> QED BY <1>1, <4>1, RemoveAtInjective DEF SchedInv, SlotAccounting
    <3>2. CASE FailRunning
      BY <1>1, <3>2, TailInjective DEF FailRunning, SchedInv, SlotAccounting
    <3> QED BY <1>5, <3>1, <3>2
  <2>2. /\ pc \in {"reap", "failQueued"} /\ pc' = pc
        /\ UNCHANGED <<st, gen, kv, missed, hs, pending, drained, cur>>
    BY <1>5 DEF ReapOne, FailRunning, schedVars, queueVars, handlerVars
  <2> QED BY <2>1, <2>2
<1>6. CASE ReapEnd
  <2>1. pc' \in {"admit", "dispatch", "top"} /\ pc = "reap"
    BY <1>6 DEF ReapEnd, Goto, SchedInv, TypeOK
  <2> QED
    BY <1>2, <1>6, <2>1 DEF ReapEnd, Goto, ownVars, queueVars, handlerVars
<1>7. CASE Dispatch
  <2>1. /\ pc = "dispatch" /\ pc' \in {"idle", "forward"}
        /\ UNCHANGED <<running, st, gen, kv, missed, hs, pending, drained, cur>>
    BY <1>7 DEF Dispatch, Goto, queueVars, handlerVars
  <2> QED BY <2>1 DEF NoneDone
<1>8. CASE TryPopEmpty
  BY <1>8 DEF TryPopEmpty, Goto, Kept, handlerVars
<1>9. CASE TryPop
  <2>1. PICK r \in Kept : cur' = r /\ pending' = Kept \ {r}
    BY <1>9 DEF TryPop
  <2> QED BY <1>9, <2>1 DEF TryPop, Kept, handlerVars
<1>10. CASE CandidateDone \/ CandidateClosed
  <2>1. pc \in CandidateSites /\ cur \in Requests
    BY <1>10
    DEF CandidateDone, CandidateClosed, CandidateSites, SchedInv, TypeOK, OnePlace, CandidatePcs,
        LeasedPcs
  <2>2. /\ UNCHANGED <<running, gen, kv, missed, hs, pending, drained>>
        /\ UNCHANGED st \/ Cancel(cur)
        /\ \/ pc' = "admit" /\ cur' = NoRequest
           \/ pc' = pc /\ cur' = cur
           \/ pc' = AfterSite[pc] /\ cur' = cur
    BY <1>10
    DEF CandidateDone, CandidateClosed, DropCandidate, NextProbe, ownVars, queueVars, handlerVars
  <2>3. /\ AfterSite[pc] \in {"validate", "prefill", "push"}
        /\ AfterSite[pc] = "push" => pc = "prefilled"
    BY <2>1 DEF CandidateSites, AfterSite
  <2>4. \A r \in Requests : IsDone(r) => IsDone(r)'
    BY <2>1, <2>2, CancelKeepsDone
  <2> QED BY <1>1, <2>1, <2>2, <2>3, <2>4 DEF CandidateSites
<1>11. CASE RefuseCandidate
  BY <1>11 DEF RefuseCandidate, DropCandidate, queueVars, handlerVars
<1>12. CASE NewSequence
  <2>1. cur \in Requests /\ cur \notin Range(running)
    BY <1>12 DEF NewSequence, SchedInv, TypeOK, OnePlace, CandidatePcs
  <2> QED BY <1>1, <1>12, <2>1 DEF NewSequence, Goto, queueVars, handlerVars
<1>13. CASE PrefillFails
  <2>1. cur \in Requests /\ cur \notin Range(running)
    BY <1>13 DEF PrefillFails, SchedInv, TypeOK, OnePlace, CandidatePcs, LeasedPcs
  <2> QED BY <1>1, <1>13, <2>1 DEF PrefillFails, DropCandidate, queueVars, handlerVars
<1>14. CASE CheckCapacity \/ ForwardFails
  <2>1. /\ pc \in {"capacity", "forward"} /\ pc' = "reap"
        /\ UNCHANGED <<running, gen, kv, missed, hs, pending, drained, cur>>
        /\ \E S : FailAll(S)
    BY <1>14 DEF CheckCapacity, ForwardFails, Call, queueVars, handlerVars
  <2>2. \A r \in Requests : IsDone(r) => IsDone(r)'
    BY <2>1, FailAllKeepsDone
  <2> QED BY <1>1, <2>1, <2>2
<1>15. CASE CloseAndDrain \/ FailQueued
  BY <1>15 DEF CloseAndDrain, FailQueued, ownVars, queueVars, handlerVars
<1> QED
  BY <1>3, <1>4, <1>5, <1>6, <1>7, <1>8, <1>9, <1>10, <1>11, <1>12, <1>13, <1>14, <1>15
  DEF CalmStep

(* The prefill caches the prompt but its last token.                           *)
LEMMA PrefillProgress == ASSUME SchedInv, ProgressInv, Prefill PROVE ProgressInv'
<1>1. /\ pc = "prefill" /\ pc' = "prefilled"
      /\ UNCHANGED <<running, gen, missed, hs, pending, drained, cur>>
      /\ st' = [st EXCEPT ![cur] = "running"] /\ kv' = [kv EXCEPT ![cur] = PromptLen[cur] - 1]
  BY DEF Prefill, Goto, queueVars, handlerVars
<1>2. /\ cur \in Requests /\ cur \notin Range(running)
      /\ kv \in [Requests -> Nat] /\ Range(running) \subseteq Requests
  BY <1>1, RangeOfSeq DEF SchedInv, TypeOK, OnePlace, CandidatePcs, LeasedPcs
<1>3. \A i \in DOMAIN running :
        running[i] # cur /\ st'[running[i]] = st[running[i]] /\ kv'[running[i]] = kv[running[i]]
  BY <1>1, <1>2 DEF Range
<1>4. MissedAreGone' /\ NoneDone' /\ FreshHaveNoTokens'
  BY <1>1 DEF ProgressInv, MissedAreGone, NoneDone, FreshHaveNoTokens, Closed
<1>5. PrefilledIsCached'
  BY <1>1, <1>2 DEF PrefilledIsCached
<1>6. MissedAreDone'
  BY <1>1, <1>3 DEF ProgressInv, MissedAreDone, IsDone
<1>7. RunningIsCached'
  BY <1>1, <1>3 DEF ProgressInv, RunningIsCached, RowCached, IsDone, DecodePosition, Valid
<1> QED BY <1>4, <1>5, <1>6, <1>7 DEF ProgressInv

(* A candidate joins the batch with its prompt cached and no token generated.  *)
LEMMA PushProgress == ASSUME SchedInv, ProgressInv, Push PROVE ProgressInv'
<1>1. /\ pc = "push" /\ pc' = "admit" /\ cur' = NoRequest /\ running' = Append(running, cur)
      /\ UNCHANGED <<st, gen, kv, missed, hs, pending, drained>>
  BY DEF Push, queueVars, handlerVars
<1>2. cur \in Requests /\ Valid(cur) /\ running \in Seq(Requests) /\ missed \subseteq Requests
  BY <1>1 DEF SchedInv, TypeOK, OnePlace, LeaseIsValid, CandidatePcs, LeasedPcs
<1>3. \A i \in DOMAIN running' :
        running'[i] = cur \/ \E j \in DOMAIN running : running'[i] = running[j]
  BY <1>1, <1>2, AppendInjectiveRange DEF Range
<1>4. MissedAreGone'
  BY <1>1, <1>2, SchedulerAssumption DEF ProgressInv, MissedAreGone, Closed
<1>5. NoneDone' /\ PrefilledIsCached'
  BY <1>1 DEF NoneDone, PrefilledIsCached
<1>6. FreshHaveNoTokens'
  BY <1>1, SchedulerAssumption DEF ProgressInv, FreshHaveNoTokens
<1>7. MissedAreDone'
  <2>1. cur \notin missed
    BY DEF ProgressInv, MissedAreGone
  <2> QED BY <1>1, <1>3, <2>1 DEF ProgressInv, MissedAreDone, IsDone
<1>8. RowCached(cur, FALSE)
  <2>1. gen[cur] = 0 /\ kv[cur] = PromptLen[cur] - 1
    BY <1>1, <1>2 DEF ProgressInv, FreshHaveNoTokens, PrefilledIsCached
  <2>2. PromptLen[cur] \in Nat /\ MaxNew[cur] \in Nat /\ MaxNew[cur] > 0
    BY <1>2, SchedulerAssumption DEF Valid
  <2> QED BY <1>2, <2>1, <2>2 DEF RowCached, DecodePosition
<1>9. RunningIsCached'
  BY <1>1, <1>3, <1>8
  DEF ProgressInv, RunningIsCached, RowCached, IsDone, DecodePosition, Valid
<1> QED BY <1>4, <1>5, <1>6, <1>7, <1>9 DEF ProgressInv

(* The forward pass caches one entry for every row, none of them done.         *)
LEMMA ForwardProgress == ASSUME SchedInv, ProgressInv, Forward PROVE ProgressInv'
<1>1. /\ pc = "forward" /\ pc' = "row" /\ idx' = 1 /\ probe' = "done" /\ batch = running
      /\ UNCHANGED <<running, st, gen, hs, pending, drained, cur>>
      /\ kv' = [r \in Requests |-> IF r \in Range(running) THEN kv[r] + 1 ELSE kv[r]]
      /\ missed' = missed \cup {r \in Range(running) : Closed(r)}
  BY DEF Forward, Loop, queueVars, handlerVars, SchedInv, RowsAligned
<1>2. /\ \A i \in DOMAIN running : i \in Nat /\ i >= 1
      /\ Range(running) \subseteq Requests
      /\ gen \in [Requests -> Nat] /\ kv \in [Requests -> Nat]
  <2>1. running \in Seq(Requests) /\ gen \in [Requests -> Nat] /\ kv \in [Requests -> Nat]
    BY DEF SchedInv, TypeOK
  <2>2. DOMAIN running = 1 .. Len(running) /\ Len(running) \in Nat
    BY <2>1, LenProperties
  <2> QED BY <2>1, <2>2, RangeOfSeq
<1>3. MissedAreGone'
  <2>1. \A r \in Range(running) : r \notin pending \cup drained \cup {cur}
    BY DEF SchedInv, OnePlace
  <2> QED BY <1>1, <2>1 DEF ProgressInv, MissedAreGone, Closed
<1>4. NoneDone' /\ PrefilledIsCached'
  BY <1>1 DEF NoneDone, PrefilledIsCached
<1>5. FreshHaveNoTokens'
  BY <1>1 DEF ProgressInv, FreshHaveNoTokens
<1>6. MissedAreDone'
  BY <1>1, <1>2 DEF MissedAreDone
<1>7. RunningIsCached'
  <2> SUFFICES ASSUME NEW i \in DOMAIN running PROVE RowCached(running[i], pc = "row" /\ i >= idx)'
    BY <1>1 DEF RunningIsCached
  <2> PICK r \in Requests : r = running[i] /\ r \in Range(running)
    BY <1>2 DEF Range
  <2>2. ~IsDone(r) /\ RowCached(r, FALSE)
    BY <1>1 DEF ProgressInv, NoneDone, RunningIsCached
  <2>3. kv'[r] = kv[r] + 1 /\ gen'[r] = gen[r] /\ st'[r] = st[r]
    BY <1>1
  <2>4. /\ gen[r] \in Nat /\ kv[r] \in Nat /\ PromptLen[r] \in Nat /\ MaxNew[r] \in Nat
    BY <1>2, SchedulerAssumption
  <2>5. pc' = "row" /\ i >= idx' /\ running'[i] = r
    BY <1>1, <1>2
  <2>6. RowCached(r, TRUE)'
    BY <2>2, <2>3, <2>4 DEF RowCached, DecodePosition, Valid, IsDone
  <2> QED BY <2>5, <2>6 DEF RowCached, IsDone, DecodePosition, Valid
<1> QED BY <1>3, <1>4, <1>5, <1>6, <1>7 DEF ProgressInv

\* A read of one of the row's signals that lets it go on.
RowReads ==
  /\ pc = "row" /\ pc' = "row" /\ idx' = idx
  /\ UNCHANGED <<running, st, gen, kv, missed, hs, pending, drained, cur>>
  /\ probe' = "sample" => running[idx] \notin missed

LEMMA RowReadsProgress == ASSUME SchedInv, ProgressInv, RowReads PROVE ProgressInv'
<1> USE DEF RowReads
<1>1. MissedAreGone' /\ NoneDone' /\ FreshHaveNoTokens' /\ PrefilledIsCached'
  BY DEF ProgressInv, MissedAreGone, NoneDone, FreshHaveNoTokens, PrefilledIsCached, Closed
<1>2. MissedAreDone'
  BY DEF ProgressInv, MissedAreDone, IsDone
<1>3. RunningIsCached'
  BY DEF ProgressInv, RunningIsCached, RowCached, IsDone, DecodePosition, Valid
<1> QED BY <1>1, <1>2, <1>3 DEF ProgressInv

DoneStates == {"finished", "cancelled", "failed"}

\* The row is handed out: its sequence ends, or goes on one token longer.
RowHandedOut ==
  LET x == running[idx]
  IN  /\ pc = "row" /\ pc' = "row" /\ idx <= Len(running)
      /\ idx' = idx + 1 /\ probe' = "done"
      /\ UNCHANGED <<running, kv, missed, hs, pending, drained, cur>>
      /\ \A r \in Requests \ {x} : st'[r] = st[r] /\ gen'[r] = gen[r]
      /\ \/ st'[x] \in DoneStates
         \/ /\ ~IsDone(x) /\ x \notin missed
            /\ gen'[x] = gen[x] + 1 /\ gen'[x] < MaxNew[x]

LEMMA RowHandedOutProgress == ASSUME SchedInv, ProgressInv, RowHandedOut PROVE ProgressInv'
<1> PICK x : x = running[idx]
  OBVIOUS
<1>1. /\ pc = "row" /\ pc' = "row" /\ idx <= Len(running) /\ idx' = idx + 1 /\ probe' = "done"
      /\ UNCHANGED <<running, kv, missed, hs, pending, drained, cur>>
      /\ \A r \in Requests \ {x} : st'[r] = st[r] /\ gen'[r] = gen[r]
      /\ \/ st'[x] \in DoneStates
         \/ /\ ~IsDone(x) /\ x \notin missed
            /\ gen'[x] = gen[x] + 1 /\ gen'[x] < MaxNew[x]
  BY DEF RowHandedOut
<1>2. /\ running \in Seq(Requests) /\ DOMAIN running = 1 .. Len(running) /\ Len(running) \in Nat
      /\ IsInjective(running) /\ gen \in [Requests -> Nat] /\ kv \in [Requests -> Nat]
      /\ idx \in Nat \ {0}
  BY LenProperties DEF SchedInv, TypeOK, SlotAccounting
<1>3. idx \in DOMAIN running /\ x \in Requests /\ x \in Range(running)
  <2>1. idx \in DOMAIN running
    BY <1>1, <1>2
  <2>2. x \in Range(running)
    BY <2>1 DEF Range
  <2> QED BY <1>2, <2>1, <2>2, RangeOfSeq
<1>4. \A i \in DOMAIN running : running[i] \in Requests /\ (i # idx => running[i] # x)
  <2>1. \A i \in DOMAIN running : running[i] \in Range(running)
    BY DEF Range
  <2> QED BY <1>2, <1>3, <2>1, RangeOfSeq DEF IsInjective
<1>5. MissedAreGone' /\ NoneDone' /\ PrefilledIsCached'
  BY <1>1 DEF ProgressInv, MissedAreGone, NoneDone, PrefilledIsCached, Closed
<1>6. FreshHaveNoTokens'
  <2>1. hs[x] \notin Unsubmitted /\ x \notin pending \cup drained \cup {cur}
    BY <1>3 DEF SchedInv, OnePlace, Tracked
  <2> QED BY <1>1, <2>1 DEF ProgressInv, FreshHaveNoTokens
<1>7. MissedAreDone'
  <2> SUFFICES ASSUME NEW i \in DOMAIN running,
                      running[i] \in missed, ~IsDone(running[i])'
               PROVE  i >= idx'
    BY <1>1 DEF MissedAreDone
  <2>1. i # idx
    BY <1>1 DEF IsDone, DoneStates
  <2>2. ~IsDone(running[i])
    BY <1>1, <1>4, <2>1 DEF IsDone
  <2>3. i >= idx
    BY <2>2 DEF ProgressInv, MissedAreDone
  <2> QED BY <1>1, <1>2, <2>1, <2>3
<1>8. RunningIsCached'
  <2> SUFFICES ASSUME NEW i \in DOMAIN running
               PROVE  RowCached(running[i], pc = "row" /\ i >= idx)'
    BY <1>1 DEF RunningIsCached
  <2>1. RowCached(running[i], i >= idx)
    BY <1>1 DEF ProgressInv, RunningIsCached
  <2>2. CASE i # idx
    <3>1. (i >= idx) <=> (i >= idx')
      BY <1>1, <1>2, <2>2
    <3>2. st'[running[i]] = st[running[i]] /\ gen'[running[i]] = gen[running[i]]
      BY <1>1, <1>4, <2>2
    <3> QED
      BY <1>1, <2>1, <3>1, <3>2 DEF RowCached, IsDone, DecodePosition, Valid
  <2>3. CASE i = idx
    <3>1. /\ Valid(x) /\ kv[x] < PromptLen[x] + MaxNew[x]
          /\ ~IsDone(x) => kv[x] = DecodePosition(x) + 1
          /\ ~(i >= idx')
      <4>1. i >= idx /\ ~(i >= idx') /\ running[i] = x
        BY <1>1, <1>2, <2>3
      <4> QED BY <2>1, <4>1 DEF RowCached
    <3>2. gen[x] \in Nat /\ PromptLen[x] \in Nat /\ MaxNew[x] \in Nat /\ kv[x] \in Nat
      BY <1>2, <1>3, SchedulerAssumption
    <3>3. RowCached(x, FALSE)'
      <4>1. Valid(x)' /\ kv'[x] < PromptLen[x] + MaxNew[x]
        BY <1>1, <3>1 DEF Valid
      <4>2. CASE st'[x] \in DoneStates
        BY <4>1, <4>2 DEF RowCached, IsDone, DoneStates
      <4>3. CASE ~IsDone(x) /\ gen'[x] = gen[x] + 1 /\ gen'[x] < MaxNew[x]
        <5>1. kv'[x] = PromptLen[x] + gen'[x] - 1 + 0
          <6>1. kv'[x] = kv[x] /\ kv[x] = PromptLen[x] + gen[x] - 1 + 1
            BY <1>1, <3>1, <4>3 DEF DecodePosition
          <6>2. gen'[x] = gen[x] + 1
            BY <4>3
          <6> QED BY <3>2, <6>1, <6>2
        <5> QED BY <4>1, <4>3, <5>1 DEF RowCached, DecodePosition
      <4> QED BY <1>1, <4>2, <4>3
    <3>4. running'[i] = x
      BY <1>1, <2>3
    <3> QED BY <1>1, <3>1, <3>3, <3>4 DEF RowCached, IsDone, DecodePosition, Valid
  <2> QED BY <2>2, <2>3
<1> QED BY <1>5, <1>6, <1>7, <1>8 DEF ProgressInv

(* A signalled row ends; the other reads go on, and the last of them rules out *)
(* a client whose row was decoded after it had gone.                           *)
LEMMA RowSignalProgress ==
  ASSUME SchedInv, ProgressInv, RowDone \/ RowClosed PROVE ProgressInv'
<1>1. /\ pc = "row" /\ pc' = "row" /\ idx <= Len(running)
      /\ UNCHANGED <<running, gen, kv, missed, hs, pending, drained, cur>>
  BY DEF RowDone, RowClosed, NextSubject, NextProbe, queueVars, handlerVars
<1> PICK x : x = running[idx]
  OBVIOUS
<1>2. x \in Requests /\ x \in held
  <2>1. running \in Seq(Requests) /\ idx \in 1 .. Len(running)
    BY <1>1, LenProperties DEF SchedInv, TypeOK
  <2>2. x \in Range(running)
    BY <2>1, LenProperties DEF Range
  <2> QED BY <2>1, <2>2, RangeOfSeq DEF SchedInv, SlotAccounting
<1>3. CASE Cancel(x) /\ NextSubject
  <2>1. st'[x] \in DoneStates /\ \A r \in Requests \ {x} : st'[r] = st[r]
    BY <1>2, <1>3, CancelKeepsDone DEF IsDone, DoneStates
  <2>2. RowHandedOut
    BY <1>1, <1>3, <2>1 DEF RowHandedOut, NextSubject
  <2> QED BY <2>2, RowHandedOutProgress
<1>4. CASE UNCHANGED st /\ (NextProbe("closed") \/ (NextProbe("sample") /\ ~Closed(x)))
  <2>1. ~Closed(x) => x \notin missed
    BY DEF ProgressInv, MissedAreGone
  <2>2. RowReads
    BY <1>1, <1>4, <2>1 DEF RowReads, NextProbe
  <2> QED BY <2>2, RowReadsProgress
<1>5. \/ Cancel(x) /\ NextSubject
      \/ UNCHANGED st /\ (NextProbe("closed") \/ (NextProbe("sample") /\ ~Closed(x)))
  BY DEF RowDone, RowClosed
<1> QED BY <1>3, <1>4, <1>5

(* A row that is sampled belongs to a client who was there when it was decoded,*)
(* and its sequence goes on only below max_new_tokens.                         *)
LEMMA RowSampleProgress == ASSUME SchedInv, ProgressInv, RowSample PROVE ProgressInv'
<1>1. /\ pc = "row" /\ probe = "sample" /\ idx <= Len(running) /\ NextSubject
      /\ UNCHANGED <<running, kv, missed, hs, pending, drained, cur>>
  BY DEF RowSample, NextSubject, queueVars, handlerVars
<1> PICK x : x = running[idx]
  OBVIOUS
<1>2. x \in Requests /\ idx \in DOMAIN running /\ idx \in Nat
  <2>1. running \in Seq(Requests) /\ idx \in 1 .. Len(running)
    BY <1>1, LenProperties DEF SchedInv, TypeOK
  <2>2. x \in Range(running) /\ idx \in DOMAIN running
    BY <2>1, LenProperties DEF Range
  <2> QED BY <2>1, <2>2, RangeOfSeq
<1>3. /\ st \in [Requests -> StateNames] /\ gen \in [Requests -> Nat]
      /\ MaxNew[x] \in Nat
  BY <1>2, SchedulerAssumption DEF SchedInv, TypeOK, StateNames
<1>4. PICK eos \in BOOLEAN :
        LET reason == FinishReason(x, gen[x] + 1, eos)
            items == Emitted(x, batch[idx], gen[x] + 1, reason)
        IN  /\ gen' = [gen EXCEPT ![x] = gen[x] + 1]
            /\ IF CanSend(x, items)
                 THEN /\ chan' = [chan EXCEPT ![x] = @ \o items]
                      /\ st' = [st EXCEPT ![x] = IF reason = "none" THEN @ ELSE "finished"]
                      /\ UNCHANGED counted
                 ELSE /\ st' = [st EXCEPT ![x] = IF reason = "none" THEN "cancelled"
                                                                    ELSE "finished"]
                      /\ RecordCancelled({x})
                      /\ UNCHANGED chan
  BY Zenon DEF RowSample
<1> DEFINE reason == FinishReason(x, gen[x] + 1, eos)
<1>5. reason = "none" => gen[x] + 1 < MaxNew[x]
  BY <1>2, <1>3 DEF FinishReason
<1> HIDE DEF reason
<1>6. /\ gen' = [gen EXCEPT ![x] = gen[x] + 1]
      /\ \/ \E new \in DoneStates : st' = [st EXCEPT ![x] = new]
         \/ reason = "none" /\ st' = st
  <2>1. \/ st' = [st EXCEPT ![x] = "finished"] \/ st' = [st EXCEPT ![x] = "cancelled"]
        \/ reason = "none" /\ st' = [st EXCEPT ![x] = @]
    BY <1>4 DEF reason
  <2>2. [st EXCEPT ![x] = @] = st
    BY <1>3
  <2> QED BY <1>4, <2>1, <2>2 DEF DoneStates
<1>7. \A r \in Requests \ {x} : st'[r] = st[r] /\ gen'[r] = gen[r]
  BY <1>2, <1>3, <1>6
<1>8. st'[x] \in DoneStates \/ (~IsDone(x) /\ x \notin missed /\ gen'[x] = gen[x] + 1
                                /\ gen'[x] < MaxNew[x])
  <2>1. CASE \E new \in DoneStates : st' = [st EXCEPT ![x] = new]
    BY <1>2, <1>3, <2>1
  <2>2. CASE reason = "none" /\ st' = st
    <3>1. gen'[x] = gen[x] + 1 /\ gen'[x] < MaxNew[x]
      BY <1>2, <1>3, <1>5, <1>6, <2>2
    <3>2. x \in missed => IsDone(x)
      BY <1>1, <1>2 DEF ProgressInv, MissedAreDone
    <3> QED BY <2>2, <3>1, <3>2 DEF IsDone, DoneStates
  <2> QED BY <1>6, <2>1, <2>2
<1>9. RowHandedOut
  BY <1>1, <1>7, <1>8 DEF RowHandedOut, NextSubject
<1> QED BY <1>9, RowHandedOutProgress

(* After the last row no sequence is ahead of its cache.                       *)
LEMMA RowEndProgress == ASSUME SchedInv, ProgressInv, RowEnd PROVE ProgressInv'
<1>1. /\ pc = "row" /\ pc' = "reap" /\ idx > Len(running)
      /\ UNCHANGED <<running, st, gen, kv, missed, hs, pending, drained, cur>>
  BY DEF RowEnd, Call, queueVars, handlerVars
<1>2. \A i \in DOMAIN running : ~(i >= idx)
  <2>1. running \in Seq(Requests) /\ idx \in Nat
    BY DEF SchedInv, TypeOK
  <2>2. DOMAIN running = 1 .. Len(running) /\ Len(running) \in Nat
    BY <2>1, LenProperties
  <2> QED BY <1>1, <2>1, <2>2
<1>3. MissedAreGone' /\ NoneDone' /\ FreshHaveNoTokens' /\ PrefilledIsCached'
  BY <1>1 DEF ProgressInv, MissedAreGone, NoneDone, FreshHaveNoTokens, PrefilledIsCached, Closed
<1>4. MissedAreDone'
  BY <1>1, <1>2 DEF ProgressInv, MissedAreDone, IsDone
<1>5. RunningIsCached'
  BY <1>1, <1>2 DEF ProgressInv, RunningIsCached, RowCached, IsDone, DecodePosition, Valid
<1> QED BY <1>3, <1>4, <1>5 DEF ProgressInv

LEMMA SchedulerProgress == ASSUME SchedInv, ProgressInv, SchedulerStep PROVE ProgressInv'
<1>1. CASE CalmStep
  BY <1>1, CalmSteps, CalmProgress DEF ProgressInv
<1>2. CASE ~CalmStep
  BY <1>2, PrefillProgress, PushProgress, ForwardProgress, RowSignalProgress, RowSampleProgress,
     RowEndProgress
  DEF SchedulerStep, CalmStep
<1> QED BY <1>1, <1>2

(* A handler touches no sequence; a receiver that is gone stays so, and one    *)
(* that submits was never served before.                                       *)
LEMMA HandlerProgress ==
  ASSUME SchedInv, ProgressInv, NEW r \in Requests,
         HandlerStep(r) \/ CheckAlive(r) \/ DropMatched(r) \/ Disconnect(r)
  PROVE  ProgressInv'
<1>1. /\ UNCHANGED <<pc, probe, idx, cur, drained, running, st, gen, kv, missed>>
      /\ pending' \subseteq pending \cup {r}
      /\ r \in pending' => r \in pending \/ hs[r] = "checked"
      /\ \A q \in Requests \ {r} : hs'[q] = hs[q]
  BY HandlerPlaces DEF schedulerOnly, schedVars
<1>2. missed \subseteq Requests /\ hs \in [Requests -> HandlerNames] /\ ChanType(chan)
  BY TypeParts DEF SchedInv, RestType
<1>3. (Closed(r) => Closed(r)') /\ (hs'[r] \in Unsubmitted => hs[r] \in Unsubmitted)
  <2>1. CASE ReceiveTerminal(r)
    <3>1. chan[r] \in Seq(Item) /\ chan[r] # <<>>
      BY <1>2, <2>1 DEF ChanType, ReceiveTerminal
    <3>2. Head(chan[r]) \in Item
      BY <3>1, HeadTailProperties
    <3>3. Head(chan[r]).kind \in {"stop", "length", "error"}
      BY <2>1, <3>2 DEF ReceiveTerminal, Item
    <3> QED BY <1>2, <2>1, <3>3 DEF ReceiveTerminal, Closed, Answered, Unsubmitted
  <2>2. CASE ~ReceiveTerminal(r)
    BY <1>2, <2>2
    DEF HandlerStep, CheckAlive, Submit, Notify, ReportRefusal, ReceiveToken, ReceiveStop,
        ReceiveEnd, DropMatched, Disconnect, Closed, Answered, Unsubmitted
  <2> QED BY <2>1, <2>2
<1>4. MissedAreGone'
  <2>1. r \in missed => hs[r] # "checked"
    BY DEF ProgressInv, MissedAreGone, Closed, Answered
  <2> QED BY <1>1, <1>2, <1>3, <2>1 DEF ProgressInv, MissedAreGone, Closed
<1>5. FreshHaveNoTokens'
  <2>1. hs[r] = "checked" => gen[r] = 0
    BY DEF ProgressInv, FreshHaveNoTokens, Unsubmitted
  <2> QED BY <1>1, <1>3, <2>1 DEF ProgressInv, FreshHaveNoTokens
<1>6. NoneDone' /\ PrefilledIsCached' /\ MissedAreDone'
  BY <1>1 DEF ProgressInv, NoneDone, PrefilledIsCached, MissedAreDone, IsDone
<1>7. RunningIsCached'
  BY <1>1 DEF ProgressInv, RunningIsCached, RowCached, IsDone, DecodePosition, Valid
<1> QED BY <1>4, <1>5, <1>6, <1>7 DEF ProgressInv

LEMMA ProgressInit == Init => ProgressInv
<1> SUFFICES ASSUME Init PROVE ProgressInv
  OBVIOUS
<1>1. DOMAIN running = {}
  BY EmptySeq DEF Init
<1> QED
  BY <1>1
  DEF Init, ProgressInv, MissedAreGone, NoneDone, MissedAreDone, FreshHaveNoTokens,
      PrefilledIsCached, RunningIsCached

LEMMA ProgressStep == SchedInv /\ ProgressInv /\ [Next]_vars => ProgressInv'
<1> SUFFICES ASSUME SchedInv, ProgressInv, [Next]_vars PROVE ProgressInv'
  OBVIOUS
<1>1. CASE SchedulerStep
  BY <1>1, SchedulerProgress
<1>2. ASSUME NEW r \in Requests,
             HandlerStep(r) \/ CheckAlive(r) \/ DropMatched(r) \/ Disconnect(r)
      PROVE  ProgressInv'
  BY <1>2, HandlerProgress
<1>3. CASE Shutdown \/ UNCHANGED vars
  <2>1. UNCHANGED <<pc, probe, idx, cur, drained, running, st, gen, kv, pending, hs, missed>>
    BY <1>3 DEF Shutdown, vars, schedVars, ownVars, queueVars, handlerVars
  <2> QED
    BY <2>1
    DEF ProgressInv, MissedAreGone, NoneDone, MissedAreDone, FreshHaveNoTokens,
        PrefilledIsCached, RunningIsCached, RowCached, Closed, IsDone, DecodePosition, Valid
<1> QED BY <1>1, <1>2, <1>3 DEF Next

(* A sequence is decoded at the position its lease caches, inside the model's  *)
(* positions and the lease, whatever was cancelled, failed or admitted between *)
(* two forward passes: no row overwrites another's entry or leaves a gap.      *)
THEOREM CachePositionsMatch == Spec => []CacheMatchesPosition
<1>1. SchedInv /\ ProgressInv => CacheMatchesPosition
  <2> SUFFICES ASSUME SchedInv, ProgressInv PROVE CacheMatchesPosition
    OBVIOUS
  <2> SUFFICES ASSUME NEW i \in DOMAIN running
               PROVE  LET r == running[i]
                          forwarded == pc = "row" /\ i >= idx
                      IN  /\ ~IsDone(r) => kv[r] = DecodePosition(r) + (IF forwarded THEN 1 ELSE 0)
                          /\ pc = "forward" => DecodePosition(r) < MaxPositions
                          /\ kv[r] < PromptLen[r] + MaxNew[r] /\ kv[r] < SlotLen
    BY DEF CacheMatchesPosition
  <2> PICK r \in Requests : r = running[i] /\ r \in Range(running)
    BY RangeOfSeq DEF SchedInv, TypeOK, Range
  <2>1. RowCached(r, pc = "row" /\ i >= idx)
    BY DEF ProgressInv, RunningIsCached
  <2>2. /\ gen[r] \in Nat /\ kv[r] \in Nat /\ PromptLen[r] \in Nat /\ MaxNew[r] \in Nat
    BY SchedulerAssumption DEF SchedInv, TypeOK
  <2>3. pc = "forward" => ~IsDone(r)
    BY DEF ProgressInv, NoneDone
  <2>4. /\ kv[r] < PromptLen[r] + MaxNew[r] /\ kv[r] < SlotLen
        /\ ~IsDone(r) => DecodePosition(r) < MaxPositions
    BY <2>1, <2>2, SchedulerAssumption DEF RowCached, Valid, DecodePosition
  <2> QED BY <2>1, <2>3, <2>4 DEF RowCached
<1> QED BY <1>1, ProgressInit, ProgressStep, SchedInit, SchedStep, PTL DEF Spec

(* A client that has gone is decoded for once at most, wherever in the loop,   *)
(* between the reads of two signals or between two rows, it left.              *)
THEOREM EvictionTakesOneStep == Spec => []EvictedWithinOneStep
<1>1. SchedInv /\ ProgressInv => EvictedWithinOneStep
  <2> SUFFICES ASSUME SchedInv, ProgressInv, pc = "forward",
                      NEW r \in Range(running), r \in missed
               PROVE  FALSE
    BY DEF EvictedWithinOneStep, SchedInv, RowsAligned
  <2>1. PICK i \in DOMAIN running : running[i] = r
    BY DEF Range
  <2> QED BY <2>1 DEF ProgressInv, MissedAreDone, NoneDone
<1> QED BY <1>1, ProgressInit, ProgressStep, SchedInit, SchedStep, PTL DEF Spec

-----------------------------------------------------------------------------
(* The channels, and the refinement of GenerationService.                      *)

Queued == pending \cup drained \cup {cur}

\* Nothing was sent to a request before its first row; its handler has read
\* nothing, and may have gone.
QueuedStream ==
  \A r \in Requests :
    r \in Queued => /\ chan[r] = <<>> /\ counted[r] = 0 /\ got[r] = 0
                    /\ hs[r] \in {"pushed", "receiving", "gone"}

UnsubmittedStream ==
  \A r \in Requests :
    hs[r] \in Unsubmitted => chan[r] = <<>> /\ counted[r] = 0 /\ got[r] = 0

\* A channel holds the tokens that follow the last one read; a terminal item is
\* its last.
ChannelInOrder ==
  \A r \in Requests : \A i \in DOMAIN chan[r] :
    IF chan[r][i].kind = "token" THEN chan[r][i].by = r /\ chan[r][i].n = got[r] + i
                                 ELSE i = Len(chan[r])

\* The loop meets a sequence that is done only where it is about to reap it, and
\* behind the one it is looking at.
LiveRows ==
  \A i \in DOMAIN running :
    IsDone(running[i]) => pc = "reap" \/ (pc \in {"sweep", "row"} /\ i < idx)

PrefilledIsLive == pc \in {"prefilled", "push"} => st[cur] = "running"

\* A live sequence has sent every token it made and no terminal event, and was
\* not counted, whatever its handler did.
LiveStream ==
  \A r \in Range(running) :
    ~IsDone(r) =>
      /\ counted[r] = 0 /\ hs[r] \in {"pushed", "receiving", "matched", "gone", "stopText"}
      /\ \A i \in DOMAIN chan[r] : chan[r][i].kind = "token"
      /\ ~Closed(r) => got[r] + Len(chan[r]) = gen[r]

StreamInv ==
  /\ QueuedStream /\ UnsubmittedStream /\ ChannelInOrder
  /\ LiveRows /\ PrefilledIsLive /\ LiveStream

-----------------------------------------------------------------------------
(* What a step of the scheduler may do to one request's response.              *)

Live(r) == r \in Range(running) /\ ~IsDone(r)
Speaking(r) == r \in Queued \/ Live(r)

NothingSent(r) == chan'[r] = chan[r] /\ counted'[r] = counted[r] /\ gen'[r] = gen[r]

\* Nobody takes part who did not before.
Silent(r) == /\ NothingSent(r)
             /\ r \in Queued' => r \in Queued
             /\ Live(r)' => Speaking(r)

\* The last thing a request does.
Lost(r) == /\ Speaking(r) /\ ~Speaking(r)'
           /\ chan'[r] = chan[r] /\ counted'[r] = counted[r] + 1
           /\ gen'[r] \in {gen[r], gen[r] + 1}

Failed(r) == /\ Speaking(r) /\ ~Speaking(r)' /\ ~Closed(r)
             /\ chan'[r] = Append(chan[r], Error(r))
             /\ counted'[r] = counted[r] /\ gen'[r] = gen[r]

Produced(r) ==
  /\ Live(r) /\ ~Closed(r) /\ r \notin Queued'
  /\ counted'[r] = counted[r] /\ gen'[r] = gen[r] + 1 /\ gen'[r] <= MaxNew[r]
  /\ \/ gen'[r] # MaxNew[r] /\ chan'[r] = Append(chan[r], Token(r, gen'[r]))
     \/ /\ gen'[r] = MaxNew[r] /\ ~Live(r)'
        /\ chan'[r] = Append(Append(chan[r], Token(r, gen'[r])), Finish(r, "length"))
     \/ ~Live(r)' /\ chan'[r] = Append(chan[r], Finish(r, "stop"))

Effect(r) == Silent(r) \/ Lost(r) \/ Failed(r) \/ Produced(r)

(* A calm step lets nobody in: a request it sends nothing to is silent.        *)
LEMMA CalmIsSilent ==
  ASSUME SchedInv, NEW r \in Requests, Calm, NothingSent(r)
  PROVE  Silent(r)
BY SchedulerAssumption DEF Calm, Silent, Queued, Live, Speaking

(* An error reaches a request whose channel takes it, and no other.            *)
LEMMA ErrorsSent ==
  ASSUME NEW S, SendErrors(S), NEW r \in Requests
  PROVE  \/ chan'[r] = chan[r]
         \/ r \in S /\ ~Closed(r) /\ chan'[r] = Append(chan[r], Error(r))
BY DEF SendErrors, CanSend

LEMMA CountsRecorded ==
  ASSUME SchedInv, NEW S, RecordCancelled(S), NEW r \in Requests
  PROVE  /\ r \in S => counted'[r] = counted[r] + 1
         /\ r \notin S => counted'[r] = counted[r]
BY DEF RecordCancelled, SchedInv, TypeOK

(* A running sequence that is no longer live, or is out of the batch, has      *)
(* nothing more to say.                                                        *)
LEMMA RunningIsNotQueued ==
  ASSUME SchedInv, NEW r \in Range(running)
  PROVE  r \in Requests /\ r \notin Queued
BY RangeOfSeq DEF SchedInv, TypeOK, OnePlace, Queued

\* The calm steps that send, count and generate nothing.
MuteStep ==
  \/ LoopTop \/ SweepDone \/ SweepEnd \/ ReapOne \/ ReapEnd \/ AdmissionClosed
  \/ CandidateDone \/ NewSequence \/ Dispatch \/ IdleLook \/ IdleWake \/ IdleShutdown
  \/ CloseAndDrain \/ Retire

LEMMA MuteEffect ==
  ASSUME SchedInv, ProgressInv, MuteStep, NEW r \in Requests PROVE Effect(r)
<1>1. UNCHANGED <<chan, counted, gen>>
  BY DEF MuteStep, LoopTop, SweepDone, SweepEnd, ReapOne, ReapEnd, AdmissionClosed,
     CandidateDone, NewSequence, Dispatch, IdleLook, IdleWake, IdleShutdown, CloseAndDrain,
     Retire, DropCandidate, NextProbe, ownVars
<1>2. Calm
  BY CalmSteps DEF MuteStep, CalmStep, ProgressInv
<1> QED BY <1>1, <1>2, CalmIsSilent DEF Effect, NothingSent

(* The sweep and the rows count a live sequence whose client is gone.          *)
LEMMA ClosedRowEffect ==
  ASSUME SchedInv, ProgressInv, StreamInv, SweepClosed \/ RowClosed, NEW r \in Requests
  PROVE  Effect(r)
<1>1. /\ pc \in {"sweep", "row"} /\ idx <= Len(running)
      /\ UNCHANGED <<running, gen, chan, pending, drained, cur>>
  BY DEF SweepClosed, RowClosed, NextSubject, NextProbe, queueVars
<1> PICK x : x = running[idx]
  OBVIOUS
<1>2. x \in Requests /\ x \in held /\ Live(x)
  <2>1. running \in Seq(Requests) /\ idx \in 1 .. Len(running)
    BY <1>1, LenProperties DEF SchedInv, TypeOK
  <2>2. idx \in DOMAIN running /\ x \in Range(running)
    BY <2>1, LenProperties DEF Range
  <2>3. ~IsDone(x)
    BY <1>1, <2>1, <2>2 DEF StreamInv, LiveRows
  <2> QED BY <2>1, <2>2, <2>3, RangeOfSeq DEF SchedInv, SlotAccounting, Live
<1>3. CASE UNCHANGED <<st, counted>>
  BY <1>1, <1>3 DEF Effect, Silent, NothingSent, Queued, Speaking, Live, IsDone
<1>4. CASE Cancel(x) /\ RecordCancelled({x})
  <2>1. /\ IsDone(x)' /\ \A q \in Requests \ {x} : st'[q] = st[q]
    BY <1>2, <1>4, CancelKeepsDone
  <2>2. CASE r = x
    <3>1. counted'[r] = counted[r] + 1
      BY <1>4, <2>2, CountsRecorded
    <3>2. r \notin Queued'
      BY <1>1, <1>2, <2>2, RunningIsNotQueued DEF Live, Queued
    <3> QED BY <1>1, <1>2, <2>1, <2>2, <3>1, <3>2 DEF Effect, Lost, Speaking, Live
  <2>3. CASE r # x
    <3>1. counted'[r] = counted[r]
      BY <1>4, <2>3, CountsRecorded
    <3> QED
      BY <1>1, <2>1, <2>3, <3>1 DEF Effect, Silent, NothingSent, Queued, Speaking, Live, IsDone
  <2> QED BY <2>2, <2>3
<1> QED BY <1>3, <1>4 DEF SweepClosed, RowClosed

(* Popping drops and counts the requests whose client went while they waited.  *)
LEMMA PopEffect ==
  ASSUME SchedInv, ProgressInv, TryPop \/ TryPopEmpty, NEW r \in Requests PROVE Effect(r)
<1>1. Calm
  BY CalmSteps DEF CalmStep, ProgressInv
<1>2. /\ RecordCancelled(Pruned) /\ UNCHANGED <<chan, gen, running, drained, st>>
      /\ pending' \subseteq Kept /\ cur' \in Kept \cup {cur}
  BY DEF TryPop, TryPopEmpty, Goto
<1>3. CASE r \in Pruned
  <2>1. r \in pending /\ r \notin Kept /\ counted'[r] = counted[r] + 1
    BY <1>2, <1>3, CountsRecorded DEF Pruned, Kept
  <2>2. r \notin drained /\ r # cur /\ r \notin Range(running)
    BY <2>1 DEF SchedInv, OnePlace
  <2> QED BY <1>2, <2>1, <2>2 DEF Effect, Lost, Speaking, Live, Queued
<1>4. CASE r \notin Pruned
  BY <1>1, <1>2, <1>4, CountsRecorded, CalmIsSilent DEF Effect, NothingSent
<1> QED BY <1>3, <1>4

(* An admission that ends early tells the candidate, or counts it.             *)
LEMMA CandidateEffect ==
  ASSUME SchedInv, ProgressInv, CandidateClosed \/ RefuseCandidate \/ PrefillFails,
         NEW r \in Requests
  PROVE  Effect(r)
<1>1. Calm
  BY CalmSteps DEF CalmStep, ProgressInv
<1>2. cur \in Requests
  BY DEF CandidateClosed, RefuseCandidate, PrefillFails, CandidateSites, SchedInv, TypeOK,
     OnePlace, CandidatePcs, LeasedPcs
<1>3. UNCHANGED <<gen, running, pending, drained>>
  BY DEF CandidateClosed, RefuseCandidate, PrefillFails, DropCandidate, ownVars, queueVars
<1>4. \/ UNCHANGED <<chan, counted>>
      \/ UNCHANGED chan /\ RecordCancelled({cur}) /\ cur' = NoRequest
      \/ SendErrors({cur}) /\ UNCHANGED counted /\ cur' = NoRequest
  BY DEF CandidateClosed, RefuseCandidate, PrefillFails, DropCandidate, ownVars
<1>5. r = cur /\ cur' = NoRequest => ~Speaking(r)'
  <2>1. r = cur => r \notin pending \cup drained \cup Range(running) /\ r # NoRequest
    BY SchedulerAssumption DEF SchedInv, OnePlace
  <2> QED BY <1>3, <2>1 DEF Speaking, Live, Queued
<1>6. r = cur => Speaking(r)
  BY DEF Speaking, Queued
<1>7. CASE UNCHANGED <<chan, counted>>
  BY <1>1, <1>3, <1>7, CalmIsSilent DEF Effect, NothingSent
<1>8. CASE UNCHANGED chan /\ RecordCancelled({cur}) /\ cur' = NoRequest
  <2>1. CASE r = cur
    <3>1. counted'[r] = counted[r] + 1
      BY <1>8, <2>1, CountsRecorded
    <3> QED BY <1>3, <1>5, <1>6, <1>8, <2>1, <3>1 DEF Effect, Lost
  <2>2. CASE r # cur
    BY <1>1, <1>3, <1>8, <2>2, CountsRecorded, CalmIsSilent DEF Effect, NothingSent
  <2> QED BY <2>1, <2>2
<1>9. CASE SendErrors({cur}) /\ UNCHANGED counted /\ cur' = NoRequest
  <2>1. CASE chan'[r] = chan[r]
    BY <1>1, <1>3, <1>9, <2>1, CalmIsSilent DEF Effect, NothingSent
  <2>2. CASE r = cur /\ ~Closed(r) /\ chan'[r] = Append(chan[r], Error(r))
    BY <1>3, <1>5, <1>6, <1>9, <2>2 DEF Effect, Failed
  <2> QED BY <1>9, <2>1, <2>2, ErrorsSent
<1> QED BY <1>4, <1>7, <1>8, <1>9

(* A failed step fails the batch, and every sequence of it is live.            *)
LEMMA FailAllEffect ==
  ASSUME SchedInv, ProgressInv, StreamInv, CheckCapacity \/ ForwardFails, NEW r \in Requests
  PROVE  Effect(r)
<1>1. Calm
  BY CalmSteps DEF CalmStep, ProgressInv
<1>2. /\ pc \notin {"reap", "sweep", "row"} /\ UNCHANGED <<gen, counted, running, pending, drained, cur>>
      /\ \E S \in SUBSET Range(running) : FailAll(S)
  BY DEF CheckCapacity, ForwardFails, Call, queueVars
<1>3. PICK S \in SUBSET Range(running) : FailAll(S)
  BY <1>2
<1>4. CASE chan'[r] = chan[r]
  BY <1>1, <1>2, <1>4, CalmIsSilent DEF Effect, NothingSent
<1>5. CASE r \in S /\ ~Closed(r) /\ chan'[r] = Append(chan[r], Error(r))
  <2>1. r \in Range(running) /\ r \notin Queued'
    BY <1>2, <1>5, RunningIsNotQueued DEF Queued
  <2>2. ~IsDone(r)
    BY <1>2, <2>1 DEF StreamInv, LiveRows, Range
  <2>3. st'[r] = "failed"
    BY <1>3, <1>5, <2>2 DEF FailAll
  <2> QED BY <1>2, <1>5, <2>1, <2>2, <2>3 DEF Effect, Failed, Speaking, Live, IsDone
<1> QED BY <1>3, <1>4, <1>5, ErrorsSent DEF FailAll

(* The shutdown tells the requests that wait and then the batch.               *)
LEMMA ShutdownEffect ==
  ASSUME SchedInv, ProgressInv, StreamInv, FailQueued \/ FailRunning, NEW r \in Requests
  PROVE  Effect(r)
<1>1. Calm
  BY CalmSteps DEF CalmStep, ProgressInv
<1>2. pc = "failQueued" /\ UNCHANGED <<gen, counted, pending, cur, st>>
  BY DEF FailQueued, FailRunning, schedVars, ownVars, queueVars
<1>3. CASE chan'[r] = chan[r]
  BY <1>1, <1>2, <1>3, CalmIsSilent DEF Effect, NothingSent
<1>4. CASE FailQueued /\ chan'[r] # chan[r]
  <2>1. PICK q \in drained : SendErrors({q}) /\ drained' = drained \ {q}
    BY <1>4 DEF FailQueued
  <2>2. r = q /\ ~Closed(r) /\ chan'[r] = Append(chan[r], Error(r))
    BY <1>4, <2>1, ErrorsSent
  <2>3. r \notin pending /\ r # cur /\ r \notin Range(running) /\ UNCHANGED running
    BY <1>4, <2>1, <2>2 DEF FailQueued, ownVars, SchedInv, OnePlace
  <2> QED BY <1>2, <2>1, <2>2, <2>3 DEF Effect, Failed, Speaking, Live, Queued
<1>5. CASE FailRunning /\ chan'[r] # chan[r]
  <2>1. /\ r = Head(running) /\ running # <<>> /\ running' = Tail(running)
        /\ ~Closed(r) /\ chan'[r] = Append(chan[r], Error(r)) /\ UNCHANGED drained
    BY <1>5, ErrorsSent DEF FailRunning, schedVars
  <2>2. r \in Range(running) /\ r \notin Range(running')
    BY <2>1, TailInjective DEF SchedInv, TypeOK, SlotAccounting
  <2>3. ~IsDone(r)
    BY <1>2, <2>2 DEF StreamInv, LiveRows, Range
  <2>4. r \notin Queued'
    BY <1>2, <2>1, <2>2, RunningIsNotQueued DEF Queued
  <2> QED BY <1>2, <2>1, <2>2, <2>3, <2>4 DEF Effect, Failed, Speaking, Live
<1> QED BY <1>3, <1>4, <1>5

(* The steps that let a candidate in, or move on to the next row.              *)
LEMMA AdmitEffect ==
  ASSUME SchedInv, ProgressInv, Prefill \/ Push \/ Forward \/ RowDone \/ RowEnd,
         NEW r \in Requests
  PROVE  Effect(r)
<1>1. UNCHANGED <<chan, counted, gen, pending, drained>>
  BY DEF Prefill, Push, Forward, RowDone, RowEnd, Goto, Loop, NextSubject, NextProbe, Call,
     queueVars
<1>2. Range(running') \subseteq Range(running) \cup {cur} /\ cur' \in {cur, NoRequest}
  <2>1. CASE Push
    <3>1. running \in Seq(Requests) /\ cur \in Requests
      BY <2>1 DEF Push, SchedInv, TypeOK, OnePlace, CandidatePcs, LeasedPcs
    <3> QED BY <2>1, <3>1, AppendInjectiveRange DEF Push
  <2>2. CASE ~Push
    BY <2>2 DEF Prefill, Forward, RowDone, RowEnd, Goto, Loop, NextSubject, NextProbe, Call
  <2> QED BY <2>1, <2>2
<1>3. r \in Range(running) /\ IsDone(r) => IsDone(r)'
  <2>1. CASE Prefill
    <3>1. cur \notin Range(running) /\ st \in [Requests -> StateNames]
      BY DEF SchedInv, OnePlace, TypeOK, StateNames
    <3> QED BY <2>1, <3>1 DEF Prefill, IsDone
  <2>2. CASE RowDone
    <3>1. UNCHANGED st \/ (Cancel(running[idx]) /\ idx <= Len(running))
      BY <2>2 DEF RowDone
    <3>2. idx <= Len(running) => running[idx] \in Requests
      BY ElementOfSeq DEF SchedInv, TypeOK
    <3> QED BY <3>1, <3>2, CancelKeepsDone DEF IsDone
  <2>3. CASE ~Prefill /\ ~RowDone
    BY <2>3 DEF Push, Forward, RowEnd, IsDone
  <2> QED BY <2>1, <2>2, <2>3
<1>4. r \in Queued' => r \in Queued
  BY <1>1, <1>2, SchedulerAssumption DEF Queued
<1>5. Live(r)' => Speaking(r)
  BY <1>2, <1>3 DEF Live, Speaking, Queued
<1> QED BY <1>1, <1>4, <1>5 DEF Effect, Silent, NothingSent

(* What a token puts under way, by the verdict on it.                          *)
LEMMA EmittedItems ==
  ASSUME NEW r \in Requests, NEW n \in Nat, NEW c \in Seq(Item)
  PROVE  /\ c \o Emitted(r, r, n, "none") = Append(c, Token(r, n))
         /\ c \o Emitted(r, r, n, "stop") = Append(c, Finish(r, "stop"))
         /\ c \o Emitted(r, r, n, "length")
              = Append(Append(c, Token(r, n)), Finish(r, "length"))
<1>1. Token(r, n) \in Item /\ Finish(r, "stop") \in Item /\ Finish(r, "length") \in Item
  BY DEF Token, Finish, Item
<1>2. ASSUME NEW a \in Item, NEW b \in Item
      PROVE  /\ c \o (<<a>> \o <<>>) = Append(c, a)
             /\ c \o (<<>> \o <<b>>) = Append(c, b)
             /\ c \o (<<a>> \o <<b>>) = Append(Append(c, a), b)
  OBVIOUS
<1> QED BY <1>1, <1>2 DEF Emitted

(* A sampled token is made for the live sequence of its row; it is delivered   *)
(* with the event it causes, or the sequence is given up.                      *)
LEMMA RowSampleEffect ==
  ASSUME SchedInv, ProgressInv, StreamInv, RowSample, NEW r \in Requests
  PROVE  Effect(r)
<1>1. /\ pc = "row" /\ idx <= Len(running) /\ batch = running
      /\ UNCHANGED <<running, pending, drained, cur>>
  BY DEF RowSample, NextSubject, queueVars, SchedInv, RowsAligned
<1> PICK x : x = running[idx]
  OBVIOUS
<1>2. x \in Requests /\ x \in Range(running) /\ Live(x) /\ gen[x] < MaxNew[x]
  <2>1. running \in Seq(Requests) /\ idx \in 1 .. Len(running)
    BY <1>1, LenProperties DEF SchedInv, TypeOK
  <2>2. idx \in DOMAIN running /\ x \in Range(running)
    BY <2>1, LenProperties DEF Range
  <2>3. ~IsDone(x)
    BY <1>1, <2>1, <2>2 DEF StreamInv, LiveRows
  <2>4. gen[x] < MaxNew[x]
    BY <2>2, <2>3 DEF ProgressInv, RunningIsCached, RowCached
  <2> QED BY <2>1, <2>2, <2>3, <2>4, RangeOfSeq DEF Live
<1>3. /\ st \in [Requests -> StateNames] /\ gen \in [Requests -> Nat]
      /\ chan \in [Requests -> Seq(Item)] /\ MaxNew[x] \in Nat
  BY <1>2, SchedulerAssumption DEF SchedInv, TypeOK, StateNames
<1>4. PICK eos \in BOOLEAN :
        LET reason == FinishReason(x, gen[x] + 1, eos)
            items == Emitted(x, x, gen[x] + 1, reason)
        IN  /\ gen' = [gen EXCEPT ![x] = gen[x] + 1]
            /\ IF CanSend(x, items)
                 THEN /\ chan' = [chan EXCEPT ![x] = @ \o items]
                      /\ st' = [st EXCEPT ![x] = IF reason = "none" THEN @ ELSE "finished"]
                      /\ UNCHANGED counted
                 ELSE /\ st' = [st EXCEPT ![x] = IF reason = "none" THEN "cancelled"
                                                                    ELSE "finished"]
                      /\ RecordCancelled({x})
                      /\ UNCHANGED chan
  BY <1>1, Zenon DEF RowSample
<1> DEFINE n == gen[x] + 1
           reason == FinishReason(x, n, eos)
           items == Emitted(x, x, n, reason)
<1>5. /\ reason \in {"none", "stop", "length"}
      /\ reason = "none" => n # MaxNew[x]
      /\ reason = "length" => n = MaxNew[x]
      /\ n \in Nat /\ n <= MaxNew[x]
  BY <1>2, <1>3 DEF FinishReason
<1>6. /\ reason = "none" => chan[x] \o items = Append(chan[x], Token(x, n))
      /\ reason = "stop" => chan[x] \o items = Append(chan[x], Finish(x, "stop"))
      /\ reason = "length" => chan[x] \o items
                                = Append(Append(chan[x], Token(x, n)), Finish(x, "length"))
  <2>1. chan[x] \in Seq(Item) /\ n \in Nat
    BY <1>2, <1>3, <1>5
  <2> HIDE DEF n, reason
  <2>2. /\ chan[x] \o Emitted(x, x, n, "none") = Append(chan[x], Token(x, n))
        /\ chan[x] \o Emitted(x, x, n, "stop") = Append(chan[x], Finish(x, "stop"))
        /\ chan[x] \o Emitted(x, x, n, "length")
             = Append(Append(chan[x], Token(x, n)), Finish(x, "length"))
    BY <1>2, <2>1, EmittedItems
  <2> QED BY <2>2
<1>7. /\ gen' = [gen EXCEPT ![x] = n]
      /\ \/ /\ CanSend(x, items) /\ chan' = [chan EXCEPT ![x] = @ \o items] /\ UNCHANGED counted
            /\ st' = [st EXCEPT ![x] = IF reason = "none" THEN @ ELSE "finished"]
         \/ /\ UNCHANGED chan /\ RecordCancelled({x})
            /\ st' = [st EXCEPT ![x] = IF reason = "none" THEN "cancelled" ELSE "finished"]
  BY <1>4
<1> HIDE DEF reason, items, n
<1>8. x \notin Queued' /\ (r # x => gen'[r] = gen[r] /\ st'[r] = st[r])
  BY <1>1, <1>2, <1>3, <1>7, RunningIsNotQueued DEF Queued
<1>9. CASE r # x
  <2>1. chan'[r] = chan[r]
    BY <1>3, <1>7, <1>9
  <2>2. counted'[r] = counted[r]
    BY <1>7, <1>9, CountsRecorded
  <2> QED
    BY <1>1, <1>8, <1>9, <2>1, <2>2
    DEF Effect, Silent, NothingSent, Queued, Live, Speaking, IsDone
<1>10. CASE r = x /\ UNCHANGED chan /\ RecordCancelled({x})
             /\ st' = [st EXCEPT ![x] = IF reason = "none" THEN "cancelled" ELSE "finished"]
  <2>1. counted'[r] = counted[r] + 1
    BY <1>10, CountsRecorded
  <2>2. gen'[r] = gen[r] + 1
    BY <1>2, <1>3, <1>7, <1>10 DEF n
  <2>3. IsDone(r)'
    BY <1>2, <1>3, <1>10 DEF IsDone
  <2> QED BY <1>2, <1>8, <1>10, <2>1, <2>2, <2>3 DEF Effect, Lost, Speaking, Live
<1>11. CASE /\ r = x /\ CanSend(x, items) /\ chan' = [chan EXCEPT ![x] = @ \o items]
            /\ UNCHANGED counted
            /\ st' = [st EXCEPT ![x] = IF reason = "none" THEN @ ELSE "finished"]
  <2>1. /\ ~Closed(r) /\ counted'[r] = counted[r] /\ chan'[r] = chan[r] \o items
    BY <1>2, <1>3, <1>11 DEF CanSend
  <2>2. gen'[r] = gen[r] + 1 /\ gen'[r] = n /\ gen'[r] <= MaxNew[r]
    BY <1>2, <1>3, <1>5, <1>7, <1>11 DEF n
  <2>3. reason # "none" => ~Live(r)'
    BY <1>2, <1>3, <1>11 DEF Live, IsDone
  <2> QED BY <1>2, <1>5, <1>6, <1>8, <1>11, <2>1, <2>2, <2>3 DEF Effect, Produced
<1> QED BY <1>7, <1>9, <1>10, <1>11

LEMMA SchedulerEffect ==
  ASSUME SchedInv, ProgressInv, StreamInv, SchedulerStep, NEW r \in Requests
  PROVE  Effect(r)
BY MuteEffect, ClosedRowEffect, PopEffect, CandidateEffect, FailAllEffect, ShutdownEffect,
   AdmitEffect, RowSampleEffect
DEF SchedulerStep, MuteStep

-----------------------------------------------------------------------------
(* Where the loop meets sequences that are done.                               *)

\* A step that ends no sequence and meets none that is done.
KeepsRowsLive ==
  /\ pc \notin {"reap", "sweep", "row"}
  /\ Range(running') \subseteq Range(running)
  /\ \A r \in Range(running') : st'[r] = st[r]

LEMMA KeepsRowsLiveStep == ASSUME StreamInv, KeepsRowsLive PROVE LiveRows'
BY DEF StreamInv, LiveRows, KeepsRowsLive, Range, IsDone

\* A step of a loop over the sequences, which ends only the one it is at.
LoopsOn ==
  /\ pc \in {"sweep", "row"} /\ pc' = pc /\ UNCHANGED running
  /\ \/ idx' = idx /\ UNCHANGED st
     \/ /\ idx' = idx + 1
        /\ \A i \in DOMAIN running : i # idx => st'[running[i]] = st[running[i]]

LEMMA LoopsOnStep == ASSUME SchedInv, StreamInv, LoopsOn PROVE LiveRows'
<1>1. idx \in Nat /\ DOMAIN running = 1 .. Len(running) /\ Len(running) \in Nat
  BY LenProperties DEF SchedInv, TypeOK
<1> SUFFICES ASSUME NEW i \in DOMAIN running, st'[running[i]] \in DoneStates PROVE i < idx'
  BY DEF LoopsOn, LiveRows, IsDone, DoneStates
<1>2. i # idx \/ idx' = idx => (IsDone(running[i]) <=> st'[running[i]] \in DoneStates)
  BY <1>1 DEF LoopsOn, IsDone, DoneStates
<1>3. IsDone(running[i]) => i < idx
  BY DEF LoopsOn, StreamInv, LiveRows
<1>4. i \in Nat
  BY <1>1
<1> QED BY <1>1, <1>2, <1>3, <1>4 DEF LoopsOn

\* The steps of the two loops over the sequences.
LoopStep == SweepDone \/ SweepClosed \/ RowDone \/ RowClosed \/ RowSample

LEMMA LoopStepLoopsOn == ASSUME SchedInv, LoopStep PROVE LoopsOn
<1>1. /\ pc \in {"sweep", "row"} /\ pc' = pc /\ UNCHANGED running /\ idx <= Len(running)
      /\ idx' \in {idx, idx + 1}
  BY DEF LoopStep, SweepDone, SweepClosed, RowDone, RowClosed, RowSample, NextSubject, NextProbe
<1> PICK x : x = running[idx]
  OBVIOUS
<1>2. \/ UNCHANGED st
      \/ idx' = idx + 1 /\ Cancel(x)
      \/ idx' = idx + 1 /\ \E new : st' = [st EXCEPT ![x] = new]
  <2>1. CASE RowSample
    BY <2>1 DEF RowSample, NextSubject
  <2>2. CASE ~RowSample
    BY <2>2 DEF LoopStep, SweepDone, SweepClosed, RowDone, RowClosed, NextSubject, NextProbe
  <2> QED BY <2>1, <2>2
<1>3. /\ running \in Seq(Requests) /\ DOMAIN running = 1 .. Len(running) /\ idx \in 1 .. Len(running)
      /\ IsInjective(running) /\ st \in [Requests -> StateNames]
  BY <1>1, LenProperties DEF SchedInv, TypeOK, SlotAccounting, StateNames
<1>4. \A i \in DOMAIN running : i # idx => running[i] \in Requests \ {x}
  <2>1. \A i \in DOMAIN running : running[i] \in Requests
    BY <1>3, RangeOfSeq DEF Range
  <2> QED BY <1>3, <2>1 DEF IsInjective
<1>5. UNCHANGED st \/ (idx' = idx + 1 /\ \A q \in Requests \ {x} : st'[q] = st[q])
  BY <1>2, <1>3 DEF Cancel
<1> QED BY <1>1, <1>4, <1>5 DEF LoopsOn

LEMMA SchedulerLiveRows == ASSUME SchedInv, StreamInv, SchedulerStep PROVE LiveRows'
<1>1. CASE SweepEnd \/ ReapOne \/ CheckCapacity \/ ForwardFails \/ RowEnd
  BY <1>1 DEF SweepEnd, ReapOne, CheckCapacity, ForwardFails, RowEnd, Call, schedVars, LiveRows
<1>2. CASE ReapEnd
  BY <1>2 DEF ReapEnd, LiveRows, IsDone, ownVars
<1>3. CASE LoopStep
  BY <1>3, LoopStepLoopsOn, LoopsOnStep
<1>4. CASE Push
  <2>1. /\ running \in Seq(Requests) /\ cur \in Requests /\ running' = Append(running, cur)
        /\ UNCHANGED st /\ st[cur] = "running" /\ pc = "push"
    BY <1>4 DEF Push, SchedInv, TypeOK, OnePlace, CandidatePcs, LeasedPcs, StreamInv, PrefilledIsLive
  <2>2. \A i \in DOMAIN running' :
          running'[i] = cur \/ \E j \in DOMAIN running : running'[i] = running[j]
    BY <2>1, AppendInjectiveRange DEF Range
  <2> QED BY <2>1, <2>2 DEF StreamInv, LiveRows, IsDone
<1>5. CASE TryPop \/ TryPopEmpty \/ LoopTop \/ AdmissionClosed \/ Dispatch \/ IdleLook \/ IdleWake
             \/ IdleShutdown \/ Forward \/ CloseAndDrain \/ FailQueued \/ Retire
  <2>1. /\ pc \notin {"reap", "sweep", "row"} /\ UNCHANGED <<running, st>>
    BY <1>5 DEF TryPop, TryPopEmpty, LoopTop, AdmissionClosed, Dispatch, IdleLook, IdleWake,
       IdleShutdown, Forward, CloseAndDrain, FailQueued, Retire, ownVars
  <2> QED BY <2>1, KeepsRowsLiveStep DEF KeepsRowsLive
<1>6. CASE FailRunning
  <2>1. Range(running') \subseteq Range(running)
    BY <1>6, TailInjective DEF FailRunning, SchedInv, TypeOK, SlotAccounting
  <2>2. pc = "failQueued" /\ UNCHANGED st
    BY <1>6 DEF FailRunning
  <2> QED BY <2>1, <2>2, KeepsRowsLiveStep DEF KeepsRowsLive
<1>7. CASE CandidateDone \/ CandidateClosed \/ RefuseCandidate \/ NewSequence \/ Prefill
             \/ PrefillFails
  <2>1. /\ pc \in CandidatePcs /\ UNCHANGED running
        /\ UNCHANGED st \/ Cancel(cur) \/ \E new : st' = [st EXCEPT ![cur] = new]
    BY <1>7
    DEF CandidateDone, CandidateClosed, RefuseCandidate, NewSequence, Prefill, PrefillFails,
        CandidateSites, DropCandidate, NextProbe, Goto, CandidatePcs, LeasedPcs, ownVars
  <2>2. /\ st \in [Requests -> StateNames] /\ cur \notin Range(running)
        /\ Range(running) \subseteq Requests
    BY RangeOfSeq DEF SchedInv, TypeOK, OnePlace, StateNames
  <2>3. \A q \in Range(running) : st'[q] = st[q]
    BY <2>1, <2>2 DEF Cancel
  <2> QED BY <2>1, <2>3, KeepsRowsLiveStep DEF KeepsRowsLive, CandidatePcs, LeasedPcs
<1> QED
  BY <1>1, <1>2, <1>3, <1>4, <1>5, <1>6, <1>7 DEF SchedulerStep, LoopStep

LEMMA SchedulerPrefilled == ASSUME SchedInv, StreamInv, SchedulerStep PROVE PrefilledIsLive'
<1> SUFFICES ASSUME pc' \in {"prefilled", "push"} PROVE st'[cur'] = "running"
  BY DEF PrefilledIsLive
<1>1. CASE StayStep
  BY <1>1, StayStepPlaces DEF CandidatePcs, LeasedPcs
<1>2. CASE Prefill
  <2>1. cur \in Requests /\ st \in [Requests -> StateNames]
    BY <1>2 DEF Prefill, SchedInv, TypeOK, OnePlace, CandidatePcs, LeasedPcs, StateNames
  <2> QED BY <1>2, <2>1 DEF Prefill, Goto
<1>3. CASE CandidateDone \/ CandidateClosed
  <2>1. /\ pc = "prefilled" /\ UNCHANGED <<st, cur>>
    BY <1>3
    DEF CandidateDone, CandidateClosed, CandidateSites, AfterSite, DropCandidate, NextProbe, ownVars
  <2> QED BY <2>1 DEF StreamInv, PrefilledIsLive
<1>4. CASE ~StayStep /\ ~Prefill /\ ~CandidateDone /\ ~CandidateClosed
  BY <1>4
  DEF SchedulerStep, StayStep, ReapOne, TryPopEmpty, TryPop, RefuseCandidate, NewSequence,
      PrefillFails, Push, CloseAndDrain, FailQueued, FailRunning, DropCandidate, Goto, schedVars
<1> QED BY <1>1, <1>2, <1>3, <1>4

-----------------------------------------------------------------------------
(* The streams.                                                                *)

(* What is true of every request that may still speak.                         *)
LEMMA SpeakingStream ==
  ASSUME SchedInv, ProgressInv, StreamInv, NEW r \in Requests, Speaking(r)
  PROVE  /\ counted[r] = 0 /\ hs[r] \in {"pushed", "receiving", "matched", "gone", "stopText"}
         /\ \A i \in DOMAIN chan[r] : chan[r][i].kind = "token"
         /\ ~Closed(r) => got[r] + Len(chan[r]) = gen[r]
<1>1. CASE r \in Queued
  <2>1. gen[r] = 0
    BY <1>1 DEF ProgressInv, FreshHaveNoTokens, Queued
  <2>2. chan[r] = <<>> /\ Len(<<>>) = 0 /\ DOMAIN <<>> = {}
    BY <1>1, EmptySeq DEF StreamInv, QueuedStream
  <2> QED BY <1>1, <2>1, <2>2 DEF StreamInv, QueuedStream
<1>2. CASE Live(r)
  BY <1>2 DEF StreamInv, LiveStream, Live
<1> QED BY <1>1, <1>2 DEF Speaking

(* An item appended to a channel of tokens keeps its order.                    *)
LEMMA AppendKeepsOrder ==
  ASSUME NEW r \in Requests, NEW c \in Seq(Item), NEW item \in Item, NEW g \in Nat,
         \A i \in DOMAIN c : c[i].kind = "token" /\ c[i].by = r /\ c[i].n = g + i,
         item.kind = "token" => item.by = r /\ item.n = g + Len(c) + 1
  PROVE  \A i \in DOMAIN Append(c, item) :
           IF Append(c, item)[i].kind = "token"
             THEN Append(c, item)[i].by = r /\ Append(c, item)[i].n = g + i
             ELSE i = Len(Append(c, item))
<1>1. /\ DOMAIN c = 1 .. Len(c) /\ Len(c) \in Nat
      /\ DOMAIN Append(c, item) = 1 .. Len(c) + 1
      /\ Len(Append(c, item)) = Len(c) + 1
  BY LenProperties, AppendProperties
<1>2. \A i \in 1 .. Len(c) : Append(c, item)[i] = c[i]
  BY AppendProperties
<1>3. Append(c, item)[Len(c) + 1] = item
  BY AppendProperties
<1> QED BY <1>1, <1>2, <1>3

(* A token appended to a channel of tokens leaves one.                         *)
LEMMA AppendToken ==
  ASSUME NEW r \in Requests, NEW c \in Seq(Item), NEW g \in Nat, NEW n \in Nat,
         \A i \in DOMAIN c : c[i].kind = "token" /\ c[i].by = r /\ c[i].n = g + i,
         n = g + Len(c) + 1
  PROVE  /\ Append(c, Token(r, n)) \in Seq(Item)
         /\ Len(Append(c, Token(r, n))) = Len(c) + 1
         /\ \A i \in DOMAIN Append(c, Token(r, n)) :
              LET item == Append(c, Token(r, n))[i]
              IN  item.kind = "token" /\ item.by = r /\ item.n = g + i
<1>1. PICK t : t = Token(r, n)
  OBVIOUS
<1>2. t \in Item /\ t.kind = "token" /\ t.by = r /\ t.n = n
  BY <1>1 DEF Token, Item
<1>3. /\ DOMAIN c = 1 .. Len(c) /\ Len(c) \in Nat
      /\ Append(c, t) \in Seq(Item)
      /\ DOMAIN Append(c, t) = 1 .. Len(c) + 1
      /\ Len(Append(c, t)) = Len(c) + 1
  BY <1>2, LenProperties, AppendProperties
<1>4. \A i \in 1 .. Len(c) : Append(c, t)[i] = c[i]
  BY <1>2, AppendProperties
<1>5. Append(c, t)[Len(c) + 1] = t
  BY <1>2, AppendProperties
<1> QED BY <1>1, <1>2, <1>3, <1>4, <1>5

LEMMA SpeakingTokens ==
  ASSUME SchedInv, ProgressInv, StreamInv, NEW r \in Requests, Speaking(r)
  PROVE  /\ chan[r] \in Seq(Item) /\ got[r] \in Nat /\ gen[r] \in Nat
         /\ \A i \in DOMAIN chan[r] :
              chan[r][i].kind = "token" /\ chan[r][i].by = r /\ chan[r][i].n = got[r] + i
BY SpeakingStream DEF SchedInv, TypeOK, StreamInv, ChannelInOrder

LEMMA SchedulerOrder ==
  ASSUME SchedInv, ProgressInv, StreamInv, NEW r \in Requests, Effect(r), got'[r] = got[r],
         NEW i \in DOMAIN chan'[r]
  PROVE  IF chan'[r][i].kind = "token" THEN chan'[r][i].by = r /\ chan'[r][i].n = got'[r] + i
                                       ELSE i = Len(chan'[r])
<1>1. CASE Silent(r) \/ Lost(r)
  BY <1>1 DEF Silent, NothingSent, Lost, StreamInv, ChannelInOrder
<1>2. CASE Failed(r)
  <2>1. Error(r) \in Item /\ Error(r).kind # "token"
    BY DEF Error, Item
  <2>2. chan'[r] = Append(chan[r], Error(r)) /\ Speaking(r)
    BY <1>2 DEF Failed
  <2> QED BY <2>1, <2>2, SpeakingTokens, AppendKeepsOrder
<1>3. CASE Produced(r)
  <2>1. Speaking(r) /\ ~Closed(r) /\ gen'[r] = gen[r] + 1
    BY <1>3 DEF Produced, Speaking
  <2>2. /\ chan[r] \in Seq(Item) /\ got[r] \in Nat /\ gen[r] \in Nat /\ Len(chan[r]) \in Nat
        /\ \A j \in DOMAIN chan[r] :
              chan[r][j].kind = "token" /\ chan[r][j].by = r /\ chan[r][j].n = got[r] + j
    BY <2>1, SpeakingTokens, LenProperties
  <2>3. gen'[r] = got[r] + Len(chan[r]) + 1 /\ gen'[r] \in Nat
    BY <2>1, <2>2, SpeakingStream
  <2>4. \A why \in {"stop", "length"} : Finish(r, why) \in Item /\ Finish(r, why).kind # "token"
    BY DEF Finish, Item
  <2>5. CASE chan'[r] = Append(chan[r], Token(r, gen'[r]))
    <3>1. PICK c \in Seq(Item) : c = chan[r]
      BY <2>2
    <3>2. PICK g \in Nat : g = got[r]
      BY <2>2
    <3>3. PICK n \in Nat : n = gen'[r] /\ n = g + Len(c) + 1
      BY <2>3, <3>1, <3>2
    <3>4. \A j \in DOMAIN c : c[j].kind = "token" /\ c[j].by = r /\ c[j].n = g + j
      BY <2>2, <3>1, <3>2
    <3>5. \A j \in DOMAIN Append(c, Token(r, n)) :
            LET item == Append(c, Token(r, n))[j]
            IN  item.kind = "token" /\ item.by = r /\ item.n = g + j
      BY <3>3, <3>4, AppendToken
    <3> QED BY <2>5, <3>1, <3>2, <3>3, <3>5
  <2>6. CASE chan'[r] = Append(chan[r], Finish(r, "stop"))
    <3>1. PICK e \in Item : e = Finish(r, "stop") /\ e.kind # "token"
      BY <2>4
    <3> QED BY <2>2, <2>6, <3>1, AppendKeepsOrder
  <2>7. CASE chan'[r] = Append(Append(chan[r], Token(r, gen'[r])), Finish(r, "length"))
    <3>1. PICK c : c = Append(chan[r], Token(r, gen'[r]))
      OBVIOUS
    <3>2. /\ c \in Seq(Item)
          /\ \A j \in DOMAIN c : c[j].kind = "token" /\ c[j].by = r /\ c[j].n = got[r] + j
      BY <2>2, <2>3, <3>1, AppendToken
    <3>3. PICK e \in Item : e = Finish(r, "length") /\ e.kind # "token"
      BY <2>4
    <3> QED BY <2>2, <2>7, <3>1, <3>2, <3>3, AppendKeepsOrder
  <2> QED BY <1>3, <2>5, <2>6, <2>7 DEF Produced
<1> QED BY <1>1, <1>2, <1>3 DEF Effect

(* What the invariant says of one request.                                     *)
StreamOf(r) ==
  /\ r \in Queued => /\ chan[r] = <<>> /\ counted[r] = 0 /\ got[r] = 0
                     /\ hs[r] \in {"pushed", "receiving", "gone"}
  /\ hs[r] \in Unsubmitted => chan[r] = <<>> /\ counted[r] = 0 /\ got[r] = 0
  /\ \A i \in DOMAIN chan[r] :
       IF chan[r][i].kind = "token" THEN chan[r][i].by = r /\ chan[r][i].n = got[r] + i
                                    ELSE i = Len(chan[r])
  /\ Live(r) => /\ counted[r] = 0 /\ hs[r] \in {"pushed", "receiving", "matched", "gone", "stopText"}
                /\ \A i \in DOMAIN chan[r] : chan[r][i].kind = "token"
                /\ ~Closed(r) => got[r] + Len(chan[r]) = gen[r]

LEMMA StreamByRequest ==
  SchedInv => (StreamInv <=> LiveRows /\ PrefilledIsLive /\ \A r \in Requests : StreamOf(r))
<1> SUFFICES ASSUME SchedInv
             PROVE  StreamInv <=> LiveRows /\ PrefilledIsLive /\ \A r \in Requests : StreamOf(r)
  OBVIOUS
<1>1. Range(running) \subseteq Requests
  BY RangeOfSeq DEF SchedInv, TypeOK
<1> QED
  BY <1>1
  DEF StreamInv, StreamOf, QueuedStream, UnsubmittedStream, ChannelInOrder, LiveStream, Live

(* A step that gives a request one of the four effects, whose handler does     *)
(* nothing, keeps its stream.                                                  *)
LEMMA EffectStream ==
  ASSUME SchedInv, ProgressInv, StreamInv, NEW r \in Requests, Effect(r),
         hs'[r] = hs[r], got'[r] = got[r]
  PROVE  StreamOf(r)'
<1>0. hs'[r] = hs[r] /\ got'[r] = got[r]
  OBVIOUS
<1>1. ASSUME r \in Queued'
      PROVE  /\ chan'[r] = <<>> /\ counted'[r] = 0 /\ got'[r] = 0
             /\ hs'[r] \in {"pushed", "receiving", "gone"}
  <2>1. Silent(r)
    BY <1>1 DEF Effect, Lost, Failed, Produced, Speaking
  <2> QED BY <1>0, <1>1, <2>1 DEF Silent, NothingSent, StreamInv, QueuedStream
<1>2. ASSUME hs'[r] \in Unsubmitted
      PROVE  chan'[r] = <<>> /\ counted'[r] = 0 /\ got'[r] = 0
  <2>1. ~Speaking(r)
    BY <1>0, <1>2, SpeakingStream DEF Unsubmitted
  <2>2. Silent(r)
    BY <2>1 DEF Effect, Lost, Failed, Produced, Speaking
  <2> QED BY <1>0, <1>2, <2>2 DEF Silent, NothingSent, StreamInv, UnsubmittedStream
<1>3. \A i \in DOMAIN chan'[r] :
        IF chan'[r][i].kind = "token" THEN chan'[r][i].by = r /\ chan'[r][i].n = got'[r] + i
                                      ELSE i = Len(chan'[r])
  BY <1>0, SchedulerOrder
<1>4. ASSUME Live(r)'
      PROVE  /\ counted'[r] = 0
             /\ hs'[r] \in {"pushed", "receiving", "matched", "gone", "stopText"}
             /\ \A i \in DOMAIN chan'[r] : chan'[r][i].kind = "token"
             /\ ~Closed(r)' => got'[r] + Len(chan'[r]) = gen'[r]
  <2>1. r \in Requests /\ Live(r)'
    BY <1>4
  <2>2. CASE Silent(r)
    BY <1>0, <2>1, <2>2, SpeakingStream DEF Silent, NothingSent, Closed
  <2>3. CASE Produced(r)
    <3>1. /\ gen'[r] = gen[r] + 1 /\ Speaking(r) /\ ~Closed(r) /\ counted'[r] = counted[r]
          /\ chan'[r] = Append(chan[r], Token(r, gen'[r]))
      BY <2>1, <2>3 DEF Produced, Speaking
    <3>2. /\ chan[r] \in Seq(Item) /\ got[r] \in Nat /\ gen[r] \in Nat /\ Len(chan[r]) \in Nat
          /\ \A j \in DOMAIN chan[r] :
                chan[r][j].kind = "token" /\ chan[r][j].by = r /\ chan[r][j].n = got[r] + j
      BY <2>1, <3>1, SpeakingTokens, LenProperties
    <3>3. /\ counted[r] = 0 /\ hs[r] \in {"pushed", "receiving", "matched", "gone", "stopText"}
          /\ got[r] + Len(chan[r]) = gen[r]
      BY <2>1, <3>1, SpeakingStream
    <3>4. PICK n \in Nat : n = gen'[r] /\ n = got[r] + Len(chan[r]) + 1
      BY <3>1, <3>2, <3>3
    <3>5. /\ Len(chan'[r]) = Len(chan[r]) + 1
          /\ \A j \in DOMAIN chan'[r] : chan'[r][j].kind = "token"
      <4>1. PICK c \in Seq(Item) : c = chan[r]
        BY <3>2
      <4>2. PICK g \in Nat : g = got[r]
        BY <3>2
      <4>3. \A j \in DOMAIN c : c[j].kind = "token" /\ c[j].by = r /\ c[j].n = g + j
        BY <3>2, <4>1, <4>2
      <4>4. n = g + Len(c) + 1
        BY <3>4, <4>1, <4>2
      <4>5. PICK d : d = Append(c, Token(r, n))
        OBVIOUS
      <4>6. /\ Len(d) = Len(c) + 1
            /\ \A j \in DOMAIN d : d[j].kind = "token"
        BY <4>3, <4>4, <4>5, AppendToken, SMTT(30)
      <4> QED BY <3>1, <3>4, <4>1, <4>5, <4>6
    <3>6. got'[r] + Len(chan'[r]) = gen'[r]
      <4>1. got'[r] = got[r] /\ gen'[r] = n
        BY <1>0, <3>4
      <4> QED BY <3>2, <3>4, <3>5, <4>1
    <3>7. hs'[r] = hs[r]
      BY <1>0
    <3> QED BY <3>1, <3>3, <3>5, <3>6, <3>7
  <2> QED BY <2>1, <2>2, <2>3 DEF Effect, Lost, Failed, Speaking
<1> QED BY <1>1, <1>2, <1>3, <1>4 DEF StreamOf

LEMMA SchedulerIsMute == ASSUME SchedulerStep PROVE UNCHANGED <<hs, got>>
BY DEF SchedulerStep, LoopTop, SweepDone, SweepClosed, SweepEnd, ReapOne, ReapEnd,
   AdmissionClosed, TryPopEmpty, TryPop, CandidateDone, CandidateClosed, RefuseCandidate,
   NewSequence, Prefill, PrefillFails, Push, CheckCapacity, Dispatch, IdleLook, IdleWake,
   IdleShutdown, Forward, ForwardFails, RowDone, RowClosed, RowSample, RowEnd,
   CloseAndDrain, FailQueued, FailRunning, Retire, handlerVars

LEMMA StreamFromParts ==
  ASSUME SchedInv', LiveRows', PrefilledIsLive', \A r \in Requests : StreamOf(r)'
  PROVE  StreamInv'
<1>1. Range(running') \subseteq Requests
  BY RangeOfSeq DEF SchedInv, TypeOK
<1> QED
  BY <1>1
  DEF StreamInv, StreamOf, QueuedStream, UnsubmittedStream, ChannelInOrder, LiveStream, Live

LEMMA SchedulerStream ==
  ASSUME SchedInv, SchedInv', ProgressInv, StreamInv, SchedulerStep PROVE StreamInv'
<1>1. ASSUME NEW r \in Requests PROVE StreamOf(r)'
  BY SchedulerEffect, SchedulerIsMute, EffectStream
<1> QED BY <1>1, SchedulerLiveRows, SchedulerPrefilled, StreamFromParts

(* A handler step leaves the other requests alone, but the submission counts   *)
(* those it prunes.                                                            *)
LEMMA HandlerOthers ==
  ASSUME SchedInv, NEW r \in Requests,
         HandlerStep(r) \/ CheckAlive(r) \/ DropMatched(r) \/ Disconnect(r),
         NEW q \in Requests \ {r}
  PROVE  /\ hs'[q] = hs[q] /\ got'[q] = got[q]
         /\ Silent(q) \/ Lost(q)
<1>1. /\ UNCHANGED <<running, st, gen, drained, cur>> /\ hs'[q] = hs[q]
      /\ q \in pending' => q \in pending
  BY HandlerPlaces DEF schedulerOnly, schedVars
<1>2. got'[q] = got[q] /\ chan'[q] = chan[q]
  BY DEF HandlerStep, CheckAlive, Submit, Notify, ReportRefusal, ReceiveToken, ReceiveStop,
     ReceiveTerminal, ReceiveEnd, DropMatched, Disconnect, SchedInv, TypeOK
<1>3. CASE q \in Pruned /\ Submit(r)
  <2>1. q \in pending /\ q \notin pending' /\ counted'[q] = counted[q] + 1
    BY <1>3, CountsRecorded DEF Submit, Pruned, Kept
  <2>2. q \notin drained /\ q # cur /\ q \notin Range(running)
    BY <2>1 DEF SchedInv, OnePlace
  <2> QED BY <1>1, <1>2, <2>1, <2>2 DEF Lost, Speaking, Live, Queued
<1>4. CASE ~(q \in Pruned /\ Submit(r))
  <2>1. counted'[q] = counted[q]
    <3>1. CASE Submit(r)
      BY <1>4, <3>1, CountsRecorded DEF Submit
    <3>2. CASE ~Submit(r)
      BY <3>2
      DEF HandlerStep, CheckAlive, Notify, ReportRefusal, ReceiveToken, ReceiveStop,
          ReceiveTerminal, ReceiveEnd, DropMatched, Disconnect
    <3> QED BY <3>1, <3>2
  <2> QED BY <1>1, <1>2, <2>1 DEF Silent, NothingSent, Speaking, Live, Queued, IsDone
<1> QED BY <1>1, <1>2, <1>3, <1>4

(* What a handler step leaves of its own request.                              *)
LEMMA HandlerOwn ==
  ASSUME SchedInv, NEW r \in Requests,
         HandlerStep(r) \/ CheckAlive(r) \/ DropMatched(r) \/ Disconnect(r)
  PROVE  /\ Live(r)' <=> Live(r)
         /\ gen'[r] = gen[r] /\ counted'[r] = counted[r]
         /\ IF Submit(r) THEN r \notin Queued /\ ~Live(r) ELSE r \in Queued' <=> r \in Queued
         /\ hs[r] \in Unsubmitted => r \notin Queued /\ ~Live(r)
<1>1. UNCHANGED <<running, st, gen, drained, cur>>
  BY HandlerPlaces DEF schedulerOnly, schedVars
<1>2. hs[r] \in Unsubmitted => r \notin Queued /\ ~Live(r)
  BY SchedulerAssumption DEF SchedInv, OnePlace, Tracked, Queued, Live
<1>3. CASE Submit(r)
  <2>1. hs[r] = "checked" /\ r \notin Pruned /\ counted'[r] = counted[r]
    BY <1>3, CountsRecorded DEF Submit, Pruned, Closed, Answered
  <2> QED BY <1>1, <1>2, <1>3, <2>1 DEF Unsubmitted, Live, IsDone
<1>4. CASE ~Submit(r)
  <2>1. UNCHANGED <<pending, counted>>
    BY <1>4
    DEF HandlerStep, CheckAlive, Notify, ReportRefusal, ReceiveToken, ReceiveStop,
        ReceiveTerminal, ReceiveEnd, DropMatched, Disconnect
  <2> QED BY <1>1, <1>2, <1>4, <2>1 DEF Live, Queued, IsDone
<1> QED BY <1>3, <1>4

(* A token read from the front keeps the rest in order.                        *)
LEMMA ReadStream ==
  ASSUME SchedInv, ProgressInv, StreamInv, NEW r \in Requests, ReceiveToken(r) \/ ReceiveStop(r)
  PROVE  StreamOf(r)'
<1>1. /\ hs[r] = "receiving" /\ hs'[r] \in {"receiving", "matched"}
      /\ chan[r] # <<>> /\ Head(chan[r]).kind = "token"
      /\ chan'[r] = Tail(chan[r]) /\ got'[r] = got[r] + 1
  BY DEF ReceiveToken, ReceiveStop, SchedInv, TypeOK
<1>2. /\ Live(r)' <=> Live(r)
      /\ gen'[r] = gen[r] /\ counted'[r] = counted[r]
      /\ r \in Queued' => r \in Queued
  <2>1. ~Submit(r)
    BY <1>1 DEF Submit
  <2> QED BY <2>1, HandlerOwn DEF HandlerStep
<1>3. PICK c \in Seq(Item) : c = chan[r]
  BY DEF SchedInv, TypeOK
<1>4. PICK g \in Nat : g = got[r]
  BY DEF SchedInv, TypeOK
<1>5. PICK d : d = Tail(c)
  OBVIOUS
<1>6. PICK m \in Nat : m = Len(d) /\ Len(c) = m + 1
  <2>1. c # <<>>
    BY <1>1, <1>3
  <2>2. Len(c) \in Nat \ {0} /\ Len(d) = Len(c) - 1
    BY <1>5, <2>1, HeadTailProperties, EmptySeq
  <2> QED BY <2>2
<1>7. /\ d \in Seq(Item) /\ DOMAIN d = 1 .. m /\ DOMAIN c = 1 .. m + 1
      /\ \A i \in 1 .. m : d[i] = c[i + 1]
  <2>1. c # <<>>
    BY <1>1, <1>3
  <2> QED BY <1>5, <1>6, <2>1, HeadTailProperties, LenProperties
<1>8. \A i \in 1 .. m + 1 : IF c[i].kind = "token" THEN c[i].by = r /\ c[i].n = g + i
                                                    ELSE i = m + 1
  BY <1>3, <1>4, <1>6, <1>7 DEF StreamInv, ChannelInOrder
<1>9. \A i \in 1 .. m : IF d[i].kind = "token" THEN d[i].by = r /\ d[i].n = g + 1 + i
                                                ELSE i = m
  <2> SUFFICES ASSUME NEW i \in 1 .. m
               PROVE  IF d[i].kind = "token" THEN d[i].by = r /\ d[i].n = g + 1 + i
                                             ELSE i = m
    OBVIOUS
  <2>1. i + 1 \in 1 .. m + 1 /\ d[i] = c[i + 1] /\ g + (i + 1) = g + 1 + i
        /\ (i + 1 = m + 1 => i = m)
    BY <1>7
  <2>2. IF c[i + 1].kind = "token" THEN c[i + 1].by = r /\ c[i + 1].n = g + (i + 1)
                                   ELSE i + 1 = m + 1
    BY <1>8, <2>1
  <2> QED BY <2>1, <2>2
<1>10. r \notin Queued'
  <2>1. r \in Queued => chan[r] = <<>>
    BY DEF StreamInv, QueuedStream
  <2> QED BY <1>1, <1>2, <2>1
<1>11. d = chan'[r] /\ got'[r] = g + 1
  BY <1>1, <1>3, <1>4, <1>5
<1>12. ASSUME Live(r)
       PROVE  /\ counted'[r] = 0 /\ hs'[r] \in {"pushed", "receiving", "matched", "gone", "stopText"}
              /\ \A i \in 1 .. m : d[i].kind = "token"
              /\ got'[r] + m = gen'[r]
  <2>1. ~Closed(r) /\ Speaking(r)
    BY <1>1, <1>12 DEF Speaking, Closed, Answered
  <2>2. /\ counted[r] = 0 /\ \A i \in DOMAIN chan[r] : chan[r][i].kind = "token"
        /\ got[r] + Len(chan[r]) = gen[r]
    BY <2>1, SpeakingStream
  <2>3. \A i \in 1 .. m : d[i].kind = "token"
    <3> SUFFICES ASSUME NEW i \in 1 .. m PROVE d[i].kind = "token"
      OBVIOUS
    <3>1. i + 1 \in 1 .. m + 1
      OBVIOUS
    <3> QED BY <1>3, <1>7, <2>2, <3>1
  <2>4. got'[r] + m = gen'[r]
    <3>1. g + (m + 1) = gen[r]
      BY <1>3, <1>4, <1>6, <2>2
    <3>2. g + 1 + m = g + (m + 1)
      OBVIOUS
    <3> QED BY <1>2, <1>11, <3>1, <3>2
  <2> QED BY <1>1, <1>2, <2>2, <2>3, <2>4
<1>13. /\ DOMAIN chan'[r] = 1 .. m /\ Len(chan'[r]) = m
       /\ \A i \in 1 .. m : IF chan'[r][i].kind = "token"
                              THEN chan'[r][i].by = r /\ chan'[r][i].n = got'[r] + i
                              ELSE i = m
       /\ Live(r) => \A i \in 1 .. m : chan'[r][i].kind = "token"
  BY <1>6, <1>7, <1>9, <1>11, <1>12
<1>14. hs'[r] \notin Unsubmitted
  BY <1>1 DEF Unsubmitted
<1> QED BY <1>2, <1>10, <1>12, <1>13, <1>14 DEF StreamOf

LEMMA HandlerOwnStream ==
  ASSUME SchedInv, ProgressInv, StreamInv, NEW r \in Requests,
         HandlerStep(r) \/ CheckAlive(r) \/ DropMatched(r) \/ Disconnect(r)
  PROVE  StreamOf(r)'
<1>1. /\ hs \in [Requests -> HandlerNames] /\ chan \in [Requests -> Seq(Item)] /\ StreamOf(r)
  BY TypeParts, StreamByRequest DEF SchedInv, RestType, ChanType
<1>2. CASE ReceiveToken(r) \/ ReceiveStop(r)
  BY <1>2, ReadStream
<1>3. CASE CheckAlive(r) \/ ReportRefusal(r)
  <2>1. /\ hs[r] \in Unsubmitted /\ hs'[r] \in Unsubmitted /\ UNCHANGED <<chan, got>>
    BY <1>1, <1>3 DEF CheckAlive, ReportRefusal, Unsubmitted
  <2>2. r \notin Queued' /\ ~Live(r)' /\ counted'[r] = counted[r]
    <3>1. ~Submit(r)
      BY <1>3 DEF CheckAlive, ReportRefusal, Submit
    <3> QED BY <1>3, <2>1, <3>1, HandlerOwn DEF HandlerStep
  <2> QED BY <1>1, <2>1, <2>2 DEF StreamOf
<1>4. CASE Submit(r)
  <2>1. /\ hs[r] \in Unsubmitted /\ hs'[r] \in {"refused", "pushed"} /\ UNCHANGED <<chan, got>>
    BY <1>1, <1>4 DEF Submit, Unsubmitted
  <2>2. ~Live(r)' /\ counted'[r] = counted[r]
    BY <1>4, HandlerOwn DEF HandlerStep
  <2>3. r \in Queued' => hs'[r] = "pushed"
    <3>1. UNCHANGED <<drained, cur>> /\ r \notin Queued
      BY <1>4, HandlerPlaces, HandlerOwn DEF HandlerStep, schedulerOnly, schedVars
    <3> QED BY <1>1, <1>4, <3>1 DEF Submit, Queued, Kept
  <2> QED BY <1>1, <2>1, <2>2, <2>3 DEF StreamOf
<1>5. CASE Notify(r)
  <2>1. hs[r] = "pushed" /\ hs'[r] = "receiving" /\ UNCHANGED <<chan, got>> /\ ~Submit(r)
    BY <1>1, <1>5 DEF Notify, Submit
  <2>2. /\ r \in Queued' <=> r \in Queued
        /\ Live(r)' <=> Live(r)
        /\ gen'[r] = gen[r] /\ counted'[r] = counted[r]
    BY <1>5, <2>1, HandlerOwn DEF HandlerStep
  <2> QED BY <1>1, <2>1, <2>2 DEF StreamOf, Unsubmitted, Closed, Answered
<1>6. CASE ReceiveTerminal(r) \/ ReceiveEnd(r)
  <2>1. chan'[r] = <<>> /\ hs'[r] \notin Unsubmitted /\ hs[r] = "receiving" /\ ~Submit(r)
    <3>1. CASE ReceiveTerminal(r)
      <4>1. Head(chan[r]) \in Item
        BY <1>1, <3>1, HeadTailProperties DEF ReceiveTerminal
      <4>2. Head(chan[r]).kind \in {"stop", "length", "error"}
        BY <3>1, <4>1 DEF ReceiveTerminal, Item
      <4> QED BY <1>1, <3>1, <4>2 DEF ReceiveTerminal, Unsubmitted, Submit
    <3>2. CASE ReceiveEnd(r)
      BY <1>1, <3>2 DEF ReceiveEnd, Unsubmitted, Submit
    <3> QED BY <1>6, <3>1, <3>2
  <2>2. r \notin Queued /\ ~Live(r)
    <3>1. CASE ReceiveTerminal(r)
      <4>1. chan[r] # <<>> /\ Head(chan[r]).kind # "token"
        BY <3>1 DEF ReceiveTerminal
      <4>2. 1 \in DOMAIN chan[r] /\ Head(chan[r]) = chan[r][1]
        BY <1>1, <4>1, EmptySeq, LenProperties
      <4> QED BY <4>1, <4>2, SpeakingStream DEF Speaking
    <3>2. CASE ReceiveEnd(r)
      BY <3>2, SchedulerAssumption DEF ReceiveEnd, Tracked, Queued, Live
    <3> QED BY <1>6, <3>1, <3>2
  <2>3. r \notin Queued' /\ ~Live(r)'
    BY <1>6, <2>1, <2>2, HandlerOwn DEF HandlerStep
  <2>4. DOMAIN chan'[r] = {}
    BY <2>1
  <2> QED BY <2>1, <2>3, <2>4 DEF StreamOf
<1>7. CASE DropMatched(r) \/ Disconnect(r)
  <2>1. /\ chan'[r] = <<>> /\ UNCHANGED got /\ ~Submit(r)
        /\ \/ hs[r] = "matched" /\ hs'[r] = "stopText"
           \/ hs[r] = "receiving" /\ hs'[r] = "gone"
    BY <1>1, <1>7 DEF DropMatched, Disconnect, Submit
  <2>2. /\ r \in Queued' <=> r \in Queued
        /\ Live(r)' <=> Live(r)
        /\ counted'[r] = counted[r]
    BY <1>7, <2>1, HandlerOwn
  <2>3. DOMAIN chan'[r] = {} /\ Closed(r)'
    BY <2>1 DEF Closed, Answered
  <2> QED BY <1>1, <2>1, <2>2, <2>3 DEF StreamOf, Unsubmitted
<1> QED BY <1>2, <1>3, <1>4, <1>5, <1>6, <1>7 DEF HandlerStep

LEMMA HandlerStream ==
  ASSUME SchedInv, SchedInv', ProgressInv, StreamInv, NEW r \in Requests,
         HandlerStep(r) \/ CheckAlive(r) \/ DropMatched(r) \/ Disconnect(r)
  PROVE  StreamInv'
<1>1. ASSUME NEW q \in Requests PROVE StreamOf(q)'
  <2>1. CASE q = r
    BY <2>1, HandlerOwnStream
  <2>2. CASE q # r
    BY <2>2, HandlerOthers, EffectStream DEF Effect
  <2> QED BY <2>1, <2>2
<1>2. LiveRows' /\ PrefilledIsLive'
  BY HandlerPlaces DEF schedulerOnly, schedVars, StreamInv, LiveRows, PrefilledIsLive, IsDone
<1> QED BY <1>1, <1>2, StreamFromParts

LEMMA StreamInit == Init => StreamInv
<1> SUFFICES ASSUME Init PROVE StreamInv
  OBVIOUS
<1>1. DOMAIN running = {} /\ Range(running) = {}
  BY EmptySeq DEF Init, Range
<1>2. \A r \in Requests : chan[r] = <<>> /\ counted[r] = 0 /\ got[r] = 0 /\ hs[r] = "idle"
  BY DEF Init
<1>3. Queued \cap Requests = {}
  BY SchedulerAssumption DEF Init, Queued
<1> QED
  BY <1>1, <1>2, <1>3
  DEF Init, StreamInv, QueuedStream, UnsubmittedStream, ChannelInOrder, LiveRows,
      PrefilledIsLive, LiveStream

LEMMA StreamStep == SchedInv /\ SchedInv' /\ ProgressInv /\ StreamInv /\ [Next]_vars => StreamInv'
<1> SUFFICES ASSUME SchedInv, SchedInv', ProgressInv, StreamInv, [Next]_vars PROVE StreamInv'
  OBVIOUS
<1>1. CASE SchedulerStep
  BY <1>1, SchedulerStream
<1>2. ASSUME NEW r \in Requests,
             HandlerStep(r) \/ CheckAlive(r) \/ DropMatched(r) \/ Disconnect(r)
      PROVE  StreamInv'
  BY <1>2, HandlerStream
<1>3. CASE Shutdown \/ UNCHANGED vars
  <2>1. UNCHANGED <<pc, idx, cur, drained, running, st, gen, counted, pending, chan, hs, got>>
    BY <1>3 DEF Shutdown, vars, schedVars, ownVars, queueVars, handlerVars
  <2> QED
    BY <2>1
    DEF StreamInv, QueuedStream, UnsubmittedStream, ChannelInOrder, LiveRows, PrefilledIsLive,
        LiveStream, Queued, IsDone, Closed
<1> QED BY <1>1, <1>2, <1>3 DEF Next

-----------------------------------------------------------------------------
(* The refinement mapping.                                                     *)

\* The items of a channel as the service shows them.
Shown(r, c) == [i \in DOMAIN c |-> ServiceItem(r, c[i])]
Promise == [kind : {"token", "stop", "length", "error"}, n : Nat]

LEMMA ServiceItems ==
  ASSUME NEW r \in Requests
  PROVE  /\ \A item \in Item : ServiceItem(r, item) \in Promise
         /\ \A n \in Nat : ServiceItem(r, Token(r, n)) = Service!Token(n)
         /\ \A why : ServiceItem(r, Finish(r, why)) = Service!Terminal(why)
         /\ ServiceItem(r, Error(r)) = Service!Terminal("error")
         /\ \A item : ServiceItem(r, item).kind = item.kind
BY DEF ServiceItem, Item, Promise, Token, Finish, Error, Service!Token, Service!Terminal

LEMMA ShownSeq ==
  ASSUME NEW r \in Requests, NEW c \in Seq(Item)
  PROVE  /\ Shown(r, c) \in Seq(Promise) /\ Len(Shown(r, c)) = Len(c)
         /\ \A i \in 1 .. Len(c) : Shown(r, c)[i] = ServiceItem(r, c[i])
<1>1. DOMAIN c = 1 .. Len(c) /\ Len(c) \in Nat /\ \A i \in 1 .. Len(c) : c[i] \in Item
  BY LenProperties, ElementOfSeq
<1>2. \A i \in 1 .. Len(c) : ServiceItem(r, c[i]) \in Promise
  BY <1>1, ServiceItems
<1>3. Shown(r, c) = [i \in 1 .. Len(c) |-> ServiceItem(r, c[i])]
  BY <1>1 DEF Shown
<1>4. PICK s : s = Shown(r, c)
  OBVIOUS
<1>5. s \in [1 .. Len(c) -> Promise] /\ \A i \in 1 .. Len(c) : s[i] = ServiceItem(r, c[i])
  BY <1>2, <1>3, <1>4
<1>6. s \in Seq(Promise) /\ Len(s) = Len(c)
  BY <1>1, <1>5
<1> QED BY <1>4, <1>5, <1>6

LEMMA ShownEmpty == ASSUME NEW r \in Requests PROVE Shown(r, <<>>) = <<>>
<1>1. <<>> \in Seq(Item) /\ Len(<<>>) = 0
  BY EmptySeq
<1>2. Shown(r, <<>>) \in Seq(Promise) /\ Len(Shown(r, <<>>)) = 0
  BY <1>1, ShownSeq
<1> QED BY <1>2, EmptySeq

LEMMA ShownAppend ==
  ASSUME NEW r \in Requests, NEW c \in Seq(Item), NEW item \in Item
  PROVE  Shown(r, Append(c, item)) = Append(Shown(r, c), ServiceItem(r, item))
<1>1. PICK d \in Seq(Item) : d = Append(c, item)
  BY AppendProperties
<1>2. /\ Len(c) \in Nat /\ Len(d) = Len(c) + 1 /\ d[Len(c) + 1] = item
      /\ \A i \in 1 .. Len(c) : d[i] = c[i]
  BY <1>1, LenProperties, AppendProperties
<1>3. PICK s \in Seq(Promise) : /\ s = Shown(r, c) /\ Len(s) = Len(c)
                                /\ \A i \in 1 .. Len(c) : s[i] = ServiceItem(r, c[i])
  BY ShownSeq
<1>4. PICK u \in Seq(Promise) : /\ u = Shown(r, d) /\ Len(u) = Len(d)
                                /\ \A i \in 1 .. Len(d) : u[i] = ServiceItem(r, d[i])
  BY ShownSeq
<1>5. PICK e \in Promise : e = ServiceItem(r, item)
  BY ServiceItems
<1>6. PICK v \in Seq(Promise) : v = Append(s, e)
  BY AppendProperties
<1>7. Len(v) = Len(s) + 1 /\ v[Len(s) + 1] = e /\ \A i \in 1 .. Len(s) : v[i] = s[i]
  BY <1>6, AppendProperties
<1>8. \A i \in 1 .. Len(c) + 1 : u[i] = v[i]
  BY <1>2, <1>3, <1>4, <1>5, <1>7
<1>9. u = v
  BY <1>2, <1>3, <1>4, <1>7, <1>8, SeqEqual
<1> QED BY <1>1, <1>3, <1>4, <1>5, <1>6, <1>9

LEMMA ShownTail ==
  ASSUME NEW r \in Requests, NEW c \in Seq(Item), c # <<>>
  PROVE  /\ Shown(r, c) # <<>>
         /\ Head(Shown(r, c)) = ServiceItem(r, c[1]) /\ Head(c) = c[1]
         /\ Tail(Shown(r, c)) = Shown(r, Tail(c))
         /\ Last(Shown(r, c)).kind = c[Len(c)].kind
<1>1. PICK d \in Seq(Item) : d = Tail(c)
  BY HeadTailProperties
<1>2. PICK m \in Nat : /\ Len(c) = m + 1 /\ Len(d) = m /\ \A i \in 1 .. m : d[i] = c[i + 1]
  <2>1. Len(c) \in Nat \ {0} /\ Len(d) = Len(c) - 1
    BY <1>1, HeadTailProperties, EmptySeq
  <2>2. \A i \in 1 .. Len(d) : d[i] = c[i + 1]
    BY <1>1, HeadTailProperties
  <2>3. PICK m \in Nat : m = Len(d) /\ Len(c) = m + 1
    BY <2>1
  <2> QED BY <2>2, <2>3
<1>3. PICK s \in Seq(Promise) : /\ s = Shown(r, c) /\ Len(s) = m + 1
                                /\ \A i \in 1 .. m + 1 : s[i] = ServiceItem(r, c[i])
  BY <1>2, ShownSeq
<1>4. PICK u \in Seq(Promise) : /\ u = Shown(r, d) /\ Len(u) = m
                                /\ \A i \in 1 .. m : u[i] = ServiceItem(r, d[i])
  BY <1>2, ShownSeq
<1>5. s # <<>> /\ Head(s) = s[1] /\ Head(c) = c[1]
  <2>1. Len(<<>>) = 0
    BY EmptySeq
  <2> QED BY <1>3, <2>1
<1>6. PICK v \in Seq(Promise) : v = Tail(s)
  BY <1>5, HeadTailProperties
<1>7. Len(v) = m /\ \A i \in 1 .. m : v[i] = s[i + 1]
  <2>1. Len(v) = Len(s) - 1 /\ \A i \in 1 .. Len(v) : v[i] = s[i + 1]
    BY <1>5, <1>6, HeadTailProperties
  <2> QED BY <1>3, <2>1
<1>8. \A i \in 1 .. m : u[i] = v[i]
  <2> SUFFICES ASSUME NEW i \in 1 .. m PROVE u[i] = v[i]
    OBVIOUS
  <2>1. i + 1 \in 1 .. m + 1
    OBVIOUS
  <2>2. u[i] = ServiceItem(r, c[i + 1]) /\ v[i] = ServiceItem(r, c[i + 1])
    BY <1>2, <1>3, <1>4, <1>7, <2>1
  <2> QED BY <2>2
<1>9. u = v
  BY <1>4, <1>7, <1>8, SeqEqual
<1>10. Head(s) = ServiceItem(r, c[1])
  BY <1>3, <1>5
<1>11. Last(s).kind = c[Len(c)].kind
  <2>1. Last(s) = ServiceItem(r, c[m + 1])
    BY <1>3 DEF Last
  <2> QED BY <1>2, <2>1 DEF ServiceItem
<1> QED BY <1>1, <1>3, <1>4, <1>5, <1>6, <1>9, <1>10, <1>11

-----------------------------------------------------------------------------
(* Every step of a request is a move of its response.                          *)

Answer(s, m, f, g, k) == [status |-> s, made |-> m, flight |-> f, read |-> g, counted |-> k]

Response(r) == Answer(ServiceStatus(r), gen[r], Shown(r, chan[r]), got[r], counted[r])

LEMMA ResponseParts ==
  ASSUME NEW r
  PROVE  /\ Response(r).status = ServiceStatus(r) /\ Response(r).made = gen[r]
         /\ Response(r).flight = Shown(r, chan[r]) /\ Response(r).read = got[r]
         /\ Response(r).counted = counted[r]
BY DEF Response, Answer

\* What a step may do to one response.
Moves(r) == Response(r)' = Response(r) \/ Response(r)' \in Service!Moves(Response(r), MaxNew[r])

(* A request that may still speak is one the service may still answer.         *)
LEMMA SpeakingResponse ==
  ASSUME SchedInv, ProgressInv, StreamInv, NEW r \in Requests, Speaking(r)
  PROVE  /\ ServiceStatus(r) \in {"open", "matched", "gone", "stopText"}
         /\ ~Closed(r) => ServiceStatus(r) \in {"open", "matched"}
         /\ ~Service!Concluded(Response(r)) /\ ~Service!GivenUp(Response(r))
<1>1. /\ counted[r] = 0 /\ hs[r] \in {"pushed", "receiving", "matched", "gone", "stopText"}
      /\ \A i \in DOMAIN chan[r] : chan[r][i].kind = "token"
  BY SpeakingStream
<1>2. /\ ServiceStatus(r) \in {"open", "matched", "gone", "stopText"}
      /\ ~Closed(r) => ServiceStatus(r) \in {"open", "matched"}
  BY <1>1 DEF ServiceStatus, Closed, Answered
<1>3. PICK c \in Seq(Item) : c = chan[r]
  BY DEF SchedInv, TypeOK
<1>4. c # <<>> => Last(Shown(r, c)).kind = "token"
  <2> SUFFICES ASSUME c # <<>> PROVE Last(Shown(r, c)).kind = "token"
    OBVIOUS
  <2>1. Len(c) \in DOMAIN c
    BY EmptySeq, LenProperties
  <2> QED BY <1>1, <1>3, <2>1, ShownTail
<1>5. c = <<>> => Shown(r, c) = <<>>
  BY ShownEmpty
<1>6. ~Service!Concluded(Response(r))
  <2>1. PICK p : p = Response(r)
    OBVIOUS
  <2>2. p.status = ServiceStatus(r) /\ p.flight = Shown(r, c)
    BY <1>3, <2>1, ResponseParts
  <2>3. p.status \notin {"stop", "length", "error", "ended"}
    BY <1>2, <2>2
  <2>4. p.flight # <<>> => Last(p.flight).kind = "token"
    BY <1>4, <1>5, <2>2
  <2> QED BY <2>1, <2>3, <2>4 DEF Service!Concluded, Service!Last, Last
<1>7. ~Service!GivenUp(Response(r))
  BY <1>1, ResponseParts DEF Service!GivenUp
<1> QED BY <1>2, <1>6, <1>7

LEMMA LostMove ==
  ASSUME SchedInv, ProgressInv, StreamInv, NEW r \in Requests, Lost(r),
         hs'[r] = hs[r], got'[r] = got[r]
  PROVE  Response(r)' \in Service!Losses(Response(r))
<1>1. Speaking(r) /\ chan'[r] = chan[r] /\ counted[r] = 0 /\ counted'[r] = counted[r] + 1
  BY SpeakingStream DEF Lost
<1>2. gen'[r] \in {gen[r], gen[r] + 1} /\ ServiceStatus(r)' = ServiceStatus(r)
  BY DEF Lost, ServiceStatus
<1>3. PICK p : p = Response(r)
  OBVIOUS
<1>4. /\ p.status \in {"open", "matched", "stopText", "gone"}
      /\ ~Service!Concluded(p) /\ ~Service!GivenUp(p)
  BY <1>1, <1>3, SpeakingResponse, ResponseParts
<1>5. Response(r)' = [p EXCEPT !.counted = 1, !.made = gen'[r]]
  <2>1. PICK s, m, f, g, k : /\ s = ServiceStatus(r) /\ m = gen[r] /\ f = Shown(r, chan[r])
                             /\ g = got[r] /\ k = counted[r]
    OBVIOUS
  <2>2. PICK n : n = gen'[r]
    OBVIOUS
  <2>3. p = Answer(s, m, f, g, k) /\ Response(r)' = Answer(s, n, f, g, 1)
    BY <1>1, <1>2, <1>3, <2>1, <2>2 DEF Response
  <2>4. [p EXCEPT !.counted = 1, !.made = n] = Answer(s, n, f, g, 1)
    <3>1. [p EXCEPT !.counted = 1, !.made = n] = [[p EXCEPT !.counted = 1] EXCEPT !.made = n]
      OBVIOUS
    <3>2. [p EXCEPT !.counted = 1] = Answer(s, m, f, g, 1)
      BY <2>3 DEF Answer
    <3>3. [Answer(s, m, f, g, 1) EXCEPT !.made = n] = Answer(s, n, f, g, 1)
      BY DEF Answer
    <3> QED BY <3>1, <3>2, <3>3
  <2> QED BY <2>2, <2>3, <2>4
<1>6. gen'[r] \in {p.made, p.made + 1}
  BY <1>2, <1>3, ResponseParts
<1> QED BY <1>3, <1>4, <1>5, <1>6 DEF Service!Losses

LEMMA FailedMove ==
  ASSUME SchedInv, ProgressInv, StreamInv, NEW r \in Requests, Failed(r),
         hs'[r] = hs[r], got'[r] = got[r]
  PROVE  Response(r)' \in Service!Productions(Response(r), MaxNew[r])
<1>1. /\ Speaking(r) /\ ~Closed(r) /\ chan'[r] = Append(chan[r], Error(r))
      /\ counted'[r] = counted[r] /\ gen'[r] = gen[r] /\ ServiceStatus(r)' = ServiceStatus(r)
  BY DEF Failed, ServiceStatus
<1>2. Shown(r, chan'[r]) = Append(Shown(r, chan[r]), Service!Terminal("error"))
  <2>1. Error(r) \in Item /\ chan[r] \in Seq(Item)
    BY DEF Error, Item, SchedInv, TypeOK
  <2> QED BY <1>1, <2>1, ShownAppend, ServiceItems
<1>3. PICK p : p = Response(r)
  OBVIOUS
<1>4. /\ p.status \in {"open", "matched"} /\ ~Service!Concluded(p) /\ ~Service!GivenUp(p)
  BY <1>1, <1>3, SpeakingResponse, ResponseParts
<1>5. Response(r)' = [p EXCEPT !.flight = Append(@, Service!Terminal("error"))]
  <2>1. PICK s, m, f, g, k : /\ s = ServiceStatus(r) /\ m = gen[r] /\ f = Shown(r, chan[r])
                             /\ g = got[r] /\ k = counted[r]
    OBVIOUS
  <2>2. PICK e : e = Append(f, Service!Terminal("error"))
    OBVIOUS
  <2>3. p = Answer(s, m, f, g, k) /\ Response(r)' = Answer(s, m, e, g, k) /\ p.flight = f
    BY <1>1, <1>2, <1>3, <2>1, <2>2, ResponseParts DEF Response
  <2>4. [p EXCEPT !.flight = e] = Answer(s, m, e, g, k)
    BY <2>3 DEF Answer
  <2> QED BY <2>2, <2>3, <2>4
<1> QED BY <1>3, <1>4, <1>5 DEF Service!Productions

LEMMA ProducedMove ==
  ASSUME SchedInv, ProgressInv, StreamInv, NEW r \in Requests, Produced(r),
         hs'[r] = hs[r], got'[r] = got[r]
  PROVE  Response(r)' \in Service!Productions(Response(r), MaxNew[r])
<1>1. /\ Speaking(r) /\ ~Closed(r) /\ counted'[r] = counted[r]
      /\ gen'[r] = gen[r] + 1 /\ gen'[r] <= MaxNew[r] /\ ServiceStatus(r)' = ServiceStatus(r)
  BY DEF Produced, ServiceStatus, Speaking
<1>2. PICK n \in Nat : n = gen'[r] /\ n = gen[r] + 1 /\ n <= MaxNew[r]
  BY <1>1 DEF SchedInv, TypeOK
<1>3. PICK c \in Seq(Item) : c = chan[r]
  BY DEF SchedInv, TypeOK
<1>4. PICK s \in Seq(Promise) : s = Shown(r, c)
  BY ShownSeq
<1>5. /\ Token(r, n) \in Item /\ Finish(r, "stop") \in Item /\ Finish(r, "length") \in Item
  BY DEF Token, Finish, Item
<1>6. PICK t \in Promise : t = Service!Token(n)
  BY DEF Promise, Service!Token
<1>7. PICK f \in [{"stop", "length"} -> Promise] : f = [why \in {"stop", "length"} |-> Service!Terminal(why)]
  BY DEF Promise, Service!Terminal
<1>8. Shown(r, Append(c, Token(r, n))) = Append(s, t)
  BY <1>4, <1>5, <1>6, ShownAppend, ServiceItems
<1>9. Shown(r, Append(c, Finish(r, "stop"))) = Append(s, f["stop"])
  BY <1>4, <1>5, <1>7, ShownAppend, ServiceItems
<1>10. Shown(r, Append(Append(c, Token(r, n)), Finish(r, "length"))) = Append(Append(s, t), f["length"])
  <2>1. Append(c, Token(r, n)) \in Seq(Item)
    BY <1>5, AppendProperties
  <2> QED BY <1>5, <1>7, <1>8, <2>1, ShownAppend, ServiceItems
<1>11. /\ Append(s, t) = s \o <<t>> /\ Append(Append(s, t), f["length"]) = s \o <<t, f["length"]>>
  OBVIOUS
<1>12. PICK p : p = Response(r)
  OBVIOUS
<1>13. /\ p.status \in {"open", "matched"} /\ ~Service!Concluded(p) /\ ~Service!GivenUp(p)
       /\ n = p.made + 1 /\ p.flight = s
  BY <1>1, <1>2, <1>3, <1>4, <1>12, SpeakingResponse, ResponseParts
<1>14. MaxNew[r] \in Nat /\ ~(n > MaxNew[r])
  BY <1>2, SchedulerAssumption
<1>15. Response(r)' = [p EXCEPT !.made = n, !.flight = Shown(r, chan'[r])]
  <2>1. PICK w, m, h, g, k : /\ w = ServiceStatus(r) /\ m = gen[r] /\ h = Shown(r, chan[r])
                             /\ g = got[r] /\ k = counted[r]
    OBVIOUS
  <2>2. PICK e : e = Shown(r, chan'[r])
    OBVIOUS
  <2>3. p = Answer(w, m, h, g, k) /\ Response(r)' = Answer(w, n, e, g, k)
    BY <1>1, <1>2, <1>12, <2>1, <2>2 DEF Response
  <2>4. [p EXCEPT !.made = n, !.flight = e] = Answer(w, n, e, g, k)
    <3>1. [p EXCEPT !.made = n, !.flight = e] = [[p EXCEPT !.made = n] EXCEPT !.flight = e]
      OBVIOUS
    <3>2. [p EXCEPT !.made = n] = Answer(w, n, h, g, k)
      BY <2>3 DEF Answer
    <3>3. [Answer(w, n, h, g, k) EXCEPT !.flight = e] = Answer(w, n, e, g, k)
      BY DEF Answer
    <3> QED BY <3>1, <3>2, <3>3
  <2> QED BY <2>2, <2>3, <2>4
<1>16. CASE n # MaxNew[r] /\ chan'[r] = Append(c, Token(r, n))
  <2>1. Response(r)' = [p EXCEPT !.made = n, !.flight = @ \o <<Service!Token(n)>>]
    BY <1>6, <1>8, <1>11, <1>13, <1>15, <1>16
  <2> QED BY <1>12, <1>13, <1>14, <1>16, <2>1 DEF Service!Productions
<1>17. CASE n = MaxNew[r] /\ chan'[r] = Append(Append(c, Token(r, n)), Finish(r, "length"))
  <2>1. Response(r)' = [p EXCEPT !.made = n,
                                 !.flight = @ \o <<Service!Token(n), Service!Terminal("length")>>]
    BY <1>6, <1>7, <1>10, <1>11, <1>13, <1>15, <1>17
  <2> QED BY <1>12, <1>13, <1>14, <1>17, <2>1 DEF Service!Productions
<1>18. CASE chan'[r] = Append(c, Finish(r, "stop"))
  <2>1. Response(r)' = [p EXCEPT !.made = n, !.flight = Append(@, Service!Terminal("stop"))]
    BY <1>7, <1>9, <1>13, <1>15, <1>18
  <2> QED BY <1>12, <1>13, <1>14, <2>1 DEF Service!Productions
<1> QED BY <1>2, <1>3, <1>16, <1>17, <1>18 DEF Produced

LEMMA EffectMove ==
  ASSUME SchedInv, ProgressInv, StreamInv, NEW r \in Requests, Effect(r),
         hs'[r] = hs[r], got'[r] = got[r]
  PROVE  Moves(r)
<1>1. CASE Silent(r)
  BY <1>1 DEF Silent, NothingSent, Moves, Response, ServiceStatus
<1>2. CASE Lost(r)
  BY <1>2, LostMove DEF Moves, Service!Moves
<1>3. CASE Failed(r) \/ Produced(r)
  BY <1>3, FailedMove, ProducedMove DEF Moves, Service!Moves
<1> QED BY <1>1, <1>2, <1>3 DEF Effect

(* The parts of a response that its handler changes.                           *)
LEMMA HandlerResponse ==
  ASSUME SchedInv, NEW r \in Requests,
         HandlerStep(r) \/ CheckAlive(r) \/ DropMatched(r) \/ Disconnect(r)
  PROVE  Response(r)' = Answer(ServiceStatus(r)', gen[r], Shown(r, chan'[r]), got'[r], counted[r])
BY HandlerOwn DEF Response

LEMMA AdmissionMove ==
  ASSUME SchedInv, NEW r \in Requests,
         CheckAlive(r) \/ Submit(r) \/ Notify(r) \/ ReportRefusal(r)
  PROVE  Moves(r)
<1>1. /\ UNCHANGED <<chan, got>>
      /\ \/ ServiceStatus(r)' = ServiceStatus(r)
         \/ /\ ServiceStatus(r) = "new"
            /\ ServiceStatus(r)' \in {"open", "unavailable", "queueFull"}
  <2>1. hs \in [Requests -> HandlerNames]
    BY TypeParts DEF SchedInv, RestType
  <2>2. /\ UNCHANGED <<chan, got>>
        /\ \/ hs[r] \in {"idle", "refused"} /\ hs'[r] \in {"checked", "unavailable", "queueFull"}
           \/ hs[r] = "checked" /\ hs'[r] \in {"refused", "pushed"}
           \/ hs[r] = "pushed" /\ hs'[r] = "receiving"
    BY <2>1 DEF CheckAlive, Submit, Notify, ReportRefusal
  <2> QED BY <2>2 DEF ServiceStatus
<1>2. PICK s, m, f, g, k : /\ s = ServiceStatus(r) /\ m = gen[r] /\ f = Shown(r, chan[r])
                           /\ g = got[r] /\ k = counted[r]
  OBVIOUS
<1>3. PICK t : t = ServiceStatus(r)'
  OBVIOUS
<1>4. PICK p : p = Response(r)
  OBVIOUS
<1>5. p = Answer(s, m, f, g, k) /\ Response(r)' = Answer(t, m, f, g, k) /\ p.status = s
  BY <1>1, <1>2, <1>3, <1>4, HandlerResponse, ResponseParts DEF Response, HandlerStep
<1>6. CASE t = s
  BY <1>4, <1>5, <1>6 DEF Moves
<1>7. CASE s = "new" /\ t \in {"open", "unavailable", "queueFull"}
  <2>1. [p EXCEPT !.status = t] = Answer(t, m, f, g, k)
    BY <1>5 DEF Answer
  <2>2. Response(r)' = [p EXCEPT !.status = t]
    BY <1>5, <2>1
  <2> QED BY <1>4, <1>5, <1>7, <2>2 DEF Moves, Service!Moves, Service!Admissions
<1> QED BY <1>1, <1>2, <1>3, <1>6, <1>7

LEMMA ReadingMove ==
  ASSUME SchedInv, ProgressInv, StreamInv, NEW r \in Requests, ReceiveToken(r) \/ ReceiveStop(r)
  PROVE  Moves(r)
<1>1. /\ hs[r] = "receiving" /\ hs'[r] \in {"receiving", "matched"}
      /\ chan[r] # <<>> /\ Head(chan[r]).kind = "token"
      /\ chan'[r] = Tail(chan[r]) /\ got'[r] = got[r] + 1
  BY DEF ReceiveToken, ReceiveStop, SchedInv, TypeOK
<1>2. PICK c \in Seq(Item) : c = chan[r]
  BY DEF SchedInv, TypeOK
<1>3. /\ Shown(r, c) # <<>> /\ Head(Shown(r, c)) = ServiceItem(r, c[1]) /\ Head(c) = c[1]
      /\ Tail(Shown(r, c)) = Shown(r, chan'[r])
  BY <1>1, <1>2, ShownTail
<1>4. c[1].kind = "token" /\ ServiceItem(r, c[1]).kind = "token"
      /\ ServiceItem(r, c[1]).n = got'[r]
  <2>1. 1 \in DOMAIN c
    BY <1>1, <1>2, EmptySeq, LenProperties
  <2>2. c[1].kind = "token" /\ c[1].by = r /\ c[1].n = got[r] + 1
    BY <1>1, <1>2, <1>3, <2>1 DEF StreamInv, ChannelInOrder
  <2> QED BY <1>1, <2>2 DEF ServiceItem
<1>5. ServiceStatus(r) = "open" /\ ServiceStatus(r)' \in {"open", "matched"}
  BY <1>1 DEF ServiceStatus
<1>6. PICK s, m, f, g, k : /\ s = ServiceStatus(r) /\ m = gen[r] /\ f = Shown(r, chan[r])
                           /\ g = got[r] /\ k = counted[r]
  OBVIOUS
<1>7. PICK t, e, n : t = ServiceStatus(r)' /\ e = Shown(r, chan'[r]) /\ n = got'[r]
  OBVIOUS
<1>8. PICK p : p = Response(r)
  OBVIOUS
<1>9. /\ p = Answer(s, m, f, g, k) /\ Response(r)' = Answer(t, m, e, n, k)
      /\ p.status = s /\ p.flight = f
  BY <1>6, <1>7, <1>8, HandlerResponse, ResponseParts DEF Response, HandlerStep
<1>10. [p EXCEPT !.flight = e, !.read = n, !.status = t] = Answer(t, m, e, n, k)
  <2>1. [p EXCEPT !.flight = e, !.read = n, !.status = t]
          = [[[p EXCEPT !.flight = e] EXCEPT !.read = n] EXCEPT !.status = t]
    OBVIOUS
  <2>2. [p EXCEPT !.flight = e] = Answer(s, m, e, g, k)
    BY <1>9 DEF Answer
  <2>3. [Answer(s, m, e, g, k) EXCEPT !.read = n] = Answer(s, m, e, n, k)
    BY DEF Answer
  <2>4. [Answer(s, m, e, n, k) EXCEPT !.status = t] = Answer(t, m, e, n, k)
    BY DEF Answer
  <2> QED BY <2>1, <2>2, <2>3, <2>4
<1>11. /\ p.status = "open" /\ p.flight # <<>> /\ Head(p.flight).kind = "token"
       /\ Tail(p.flight) = e /\ Head(p.flight).n = n /\ t \in {"open", "matched"}
  BY <1>2, <1>3, <1>4, <1>5, <1>6, <1>7, <1>9
<1>12. Response(r)' = [p EXCEPT !.flight = Tail(@), !.read = Head(p.flight).n, !.status = t]
  BY <1>9, <1>10, <1>11
<1>13. Response(r)' \in Service!Readings(p)
  BY <1>11, <1>12 DEF Service!Readings
<1> QED BY <1>8, <1>13 DEF Moves, Service!Moves

LEMMA EndingMove ==
  ASSUME SchedInv, ProgressInv, StreamInv, NEW r \in Requests,
         ReceiveTerminal(r) \/ ReceiveEnd(r) \/ DropMatched(r) \/ Disconnect(r)
  PROVE  Moves(r)
<1>1. /\ hs \in [Requests -> HandlerNames] /\ chan \in [Requests -> Seq(Item)]
  BY TypeParts DEF SchedInv, RestType, ChanType
<1>2. chan'[r] = <<>> /\ UNCHANGED got
  BY <1>1 DEF ReceiveTerminal, ReceiveEnd, DropMatched, Disconnect
<1>3. PICK c \in Seq(Item) : c = chan[r]
  BY <1>1
<1>4. PICK s, m, f, g, k : /\ s = ServiceStatus(r) /\ m = gen[r] /\ f = Shown(r, chan[r])
                           /\ g = got[r] /\ k = counted[r]
  OBVIOUS
<1>5. PICK t : t = ServiceStatus(r)'
  OBVIOUS
<1>6. PICK p : p = Response(r)
  OBVIOUS
<1>7. /\ p = Answer(s, m, f, g, k) /\ Response(r)' = Answer(t, m, <<>>, g, k)
      /\ p.status = s /\ p.flight = f
  BY <1>2, <1>4, <1>5, <1>6, HandlerResponse, ResponseParts, ShownEmpty DEF Response, HandlerStep
<1>8. [p EXCEPT !.status = t, !.flight = <<>>] = Answer(t, m, <<>>, g, k)
  <2>1. [p EXCEPT !.status = t, !.flight = <<>>] = [[p EXCEPT !.status = t] EXCEPT !.flight = <<>>]
    OBVIOUS
  <2>2. [p EXCEPT !.status = t] = Answer(t, m, f, g, k)
    BY <1>7 DEF Answer
  <2>3. [Answer(t, m, f, g, k) EXCEPT !.flight = <<>>] = Answer(t, m, <<>>, g, k)
    BY DEF Answer
  <2> QED BY <2>1, <2>2, <2>3
<1>9. [p EXCEPT !.flight = <<>>, !.status = t] = Answer(t, m, <<>>, g, k)
  <2>1. [p EXCEPT !.flight = <<>>, !.status = t] = [[p EXCEPT !.flight = <<>>] EXCEPT !.status = t]
    OBVIOUS
  <2>2. [p EXCEPT !.flight = <<>>] = Answer(s, m, <<>>, g, k)
    BY <1>7 DEF Answer
  <2>3. [Answer(s, m, <<>>, g, k) EXCEPT !.status = t] = Answer(t, m, <<>>, g, k)
    BY DEF Answer
  <2> QED BY <2>1, <2>2, <2>3
<1>10. CASE ReceiveTerminal(r)
  <2>1. /\ hs[r] = "receiving" /\ hs'[r] = Head(c).kind /\ c # <<>> /\ Head(c).kind # "token"
    BY <1>1, <1>3, <1>10 DEF ReceiveTerminal
  <2>2. Head(c) \in Item
    BY <2>1, HeadTailProperties
  <2>3. Head(c).kind \in {"stop", "length", "error"}
    BY <2>1, <2>2 DEF Item
  <2>4. s = "open" /\ t = Head(c).kind
    BY <1>4, <1>5, <2>1, <2>3 DEF ServiceStatus
  <2>5. /\ Shown(r, c) # <<>> /\ Head(Shown(r, c)).kind = Head(c).kind
    BY <2>1, ShownTail DEF ServiceItem
  <2>6. p.status = "open" /\ p.flight # <<>> /\ Head(p.flight).kind # "token" /\ Head(p.flight).kind = t
    BY <1>3, <1>4, <1>7, <2>1, <2>4, <2>5
  <2>7. Response(r)' = [p EXCEPT !.flight = <<>>, !.status = Head(p.flight).kind]
    BY <1>7, <1>9, <2>6
  <2>8. Response(r)' \in Service!Readings(p)
    BY <2>6, <2>7 DEF Service!Readings
  <2> QED BY <1>6, <2>8 DEF Moves, Service!Moves
<1>11. CASE ReceiveEnd(r)
  <2>1. s = "open" /\ t = "ended" /\ c = <<>>
    BY <1>1, <1>3, <1>4, <1>5, <1>11 DEF ReceiveEnd, ServiceStatus
  <2>2. f = <<>>
    BY <1>3, <1>4, <2>1, ShownEmpty
  <2>3. [p EXCEPT !.status = "ended"] = Answer("ended", m, f, g, k)
    BY <1>7 DEF Answer
  <2>4. Response(r)' \in Service!Endings(p)
    BY <1>7, <2>1, <2>2, <2>3 DEF Service!Endings
  <2> QED BY <1>6, <2>4 DEF Moves, Service!Moves
<1>12. CASE DropMatched(r)
  <2>1. s = "matched" /\ t = "stopText"
    BY <1>1, <1>4, <1>5, <1>12 DEF DropMatched, ServiceStatus
  <2>2. Response(r)' \in Service!Endings(p)
    BY <1>7, <1>8, <2>1 DEF Service!Endings
  <2> QED BY <1>6, <2>2 DEF Moves, Service!Moves
<1>13. CASE Disconnect(r)
  <2>1. s = "open" /\ t = "gone"
    BY <1>1, <1>4, <1>5, <1>13 DEF Disconnect, ServiceStatus
  <2>2. Response(r)' \in Service!Endings(p)
    BY <1>7, <1>8, <2>1 DEF Service!Endings
  <2> QED BY <1>6, <2>2 DEF Moves, Service!Moves
<1> QED BY <1>10, <1>11, <1>12, <1>13

LEMMA StepMoves ==
  ASSUME SchedInv, ProgressInv, StreamInv, [Next]_vars, NEW q \in Requests PROVE Moves(q)
<1>1. CASE SchedulerStep
  BY <1>1, SchedulerEffect, SchedulerIsMute, EffectMove
<1>2. ASSUME NEW r \in Requests,
             HandlerStep(r) \/ CheckAlive(r) \/ DropMatched(r) \/ Disconnect(r)
      PROVE  Moves(q)
  <2>1. CASE q = r
    BY <1>2, <2>1, AdmissionMove, ReadingMove, EndingMove DEF HandlerStep
  <2>2. CASE q # r
    BY <1>2, <2>2, HandlerOthers, EffectMove DEF Effect
  <2> QED BY <2>1, <2>2
<1>3. CASE Shutdown \/ UNCHANGED vars
  <2>1. UNCHANGED <<gen, counted, chan, hs, got>>
    BY <1>3 DEF Shutdown, vars, ownVars, handlerVars
  <2> QED BY <2>1 DEF Moves, Response, ServiceStatus
<1> QED BY <1>1, <1>2, <1>3 DEF Next

(* Whatever the handlers, slow readers, model errors, cancellations and the    *)
(* shutdown do between any two reads of the scheduler's loop, every request's  *)
(* response is one the service promises: its own tokens, each once and in      *)
(* order, a terminal event last and true, and a cancellation counted at most   *)
(* once and only for a response that was given up.                             *)
THEOREM SchedulerImplementsService == Spec => ImplementsService
<1>1. Init => Service!Init
  <2> SUFFICES ASSUME Init PROVE Service!Init
    OBVIOUS
  <2>1. \A r \in Requests : Response(r) = Service!New
    BY ShownEmpty DEF Init, Response, Answer, ServiceStatus, Service!New
  <2> QED BY <2>1 DEF Service!Init, Response, Answer, Shown
<1>2. SchedInv /\ ProgressInv /\ StreamInv /\ [Next]_vars
        => [Service!Next]_([r \in Requests |->
                 [status  |-> ServiceStatus(r),
                  made    |-> gen[r],
                  flight  |-> [i \in DOMAIN chan[r] |-> ServiceItem(r, chan[r][i])],
                  read    |-> got[r],
                  counted |-> counted[r]]])
  <2> SUFFICES ASSUME SchedInv, ProgressInv, StreamInv, [Next]_vars PROVE Service!Next
    OBVIOUS
  <2>1. \A r \in Requests : Moves(r)
    BY StepMoves
  <2> QED BY <2>1 DEF Service!Next, Moves, Response, Answer, Shown
<1> QED
  BY <1>1, <1>2, StreamInit, StreamStep, ProgressInit, ProgressStep, SchedInit, SchedStep, PTL
  DEF Spec, ImplementsService, Service!Spec
=============================================================================
