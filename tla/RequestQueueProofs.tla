-------------------------- MODULE RequestQueueProofs --------------------------
(* Machine-checked proofs about RequestQueue, for every set of requests, every *)
(* priority and every depth: no wakeup is lost, counter and gauge are exact,   *)
(* and the buffer implements PriorityQueue.  QueueInv relates the buffer to the*)
(* order of arrival and each request's place to what its handler has done.     *)
EXTENDS RequestQueue, SequenceTheorems, FunctionTheorems, FiniteSetTheorems, TLAPS

-----------------------------------------------------------------------------
(* The inductive invariant.                                                    *)

Places == {"idle", "pushed", "accepted", "refused"}
Labels == {"top", "admit", "decode", "look", "parked", "stopped"}

TypeOK ==
  /\ requests \in Seq(Requests) /\ arrivals \in Seq(Requests)
  /\ closed \in BOOLEAN /\ permit \in BOOLEAN
  /\ depth \in Nat /\ cancelled \in Nat
  /\ producer \in [Requests -> Places] /\ loop \in Labels
  /\ gone \subseteq Requests /\ serving \subseteq Requests
  /\ served \subseteq Requests /\ failed \subseteq Requests

\* Nobody is pushed twice, and the log has exactly those that were pushed.
LogIsComplete ==
  /\ \A i, j \in DOMAIN arrivals : arrivals[i] = arrivals[j] => i = j
  /\ Range(arrivals) = {r \in Requests : producer[r] \in {"pushed", "accepted"}}
  /\ Range(requests) \cup served \cup failed \cup gone \subseteq Range(arrivals)

Before(r, s) == \E i, j \in DOMAIN arrivals : arrivals[i] = r /\ arrivals[j] = s /\ i < j

\* retain() and remove() leave the entries in the order they were pushed.
BufferIsOrdered ==
  \A i, j \in DOMAIN requests : i < j => Before(requests[i], requests[j])

StoppedIsClosed ==
  /\ closed <=> loop = "stopped"
  /\ closed => requests = <<>>

QueueInv ==
  /\ TypeOK /\ LogIsComplete /\ BufferIsOrdered /\ StoppedIsClosed
  /\ CountersAreExact /\ NoLostWakeup

-----------------------------------------------------------------------------
(* Positions in the buffer.                                                    *)

(* Every non-empty set of naturals has a least element: of the sets 0..x, the  *)
(* smallest by inclusion is that of the least x.                               *)
LEMMA LeastOfNaturals ==
  ASSUME NEW S, S \subseteq Nat, S # {}
  PROVE  \E x \in S : \A y \in S : x <= y
  <1> DEFINE Initials == {0..x : x \in S}
  <1>1. Initials \subseteq FiniteSubsetsOf(Nat)
    <2> SUFFICES ASSUME NEW x \in S PROVE 0..x \in FiniteSubsetsOf(Nat)
      OBVIOUS
    <2>1. IsFiniteSet(0..x)
      BY FS_Interval
    <2> QED BY <2>1 DEF FiniteSubsetsOf
  <1>2. Initials # {}
    OBVIOUS
  <1>3. \E I \in Initials : \A J \in Initials : ~ (<<J, I>> \in StrictSubsetOrdering(Nat))
    <2> HIDE DEF Initials
    <2> QED BY <1>1, <1>2, WFMin, FS_StrictSubsetOrderingWellFounded
  <1>4. PICK x \in S : \A y \in S : ~ (<<0..y, 0..x>> \in StrictSubsetOrdering(Nat))
    BY <1>3
  <1>5. ASSUME NEW y \in S, y < x PROVE FALSE
    <2>1. 0..y \subseteq 0..x /\ 0..y # 0..x /\ 0..y \in SUBSET Nat /\ 0..x \in SUBSET Nat
      BY <1>5
    <2>2. <<0..y, 0..x>> \in StrictSubsetOrdering(Nat)
      BY <2>1 DEF StrictSubsetOrdering
    <2> QED BY <1>4, <2>2
  <1> QED BY <1>5

Increases(order, n) == \A i, j \in 1 .. n : i < j => order[i] < order[j]

(* A finite set of naturals can be listed in increasing order: put its least   *)
(* element before a list of the others.  A set without a list, smallest by     *)
(* inclusion among those, would get one that way.                              *)
LEMMA EveryFiniteSetHasAnOrder ==
  ASSUME NEW K, K \subseteq Nat, IsFiniteSet(K)
  PROVE  \E order \in [1 .. Cardinality(K) -> K] : Increases(order, Cardinality(K))
  <1> DEFINE Listed(M) == \E order \in [1 .. Cardinality(M) -> M] : Increases(order, Cardinality(M))
             Bad == {M \in FiniteSubsetsOf(Nat) : ~Listed(M)}
  <1>1. SUFFICES Bad = {}
    <2>1. K \in FiniteSubsetsOf(Nat)
      BY DEF FiniteSubsetsOf
    <2> QED BY <2>1
  <1> HIDE DEF Listed
  <1>2. SUFFICES ASSUME Bad # {} PROVE FALSE
    OBVIOUS
  <1>3. PICK M \in Bad : \A L \in Bad : ~ (<<L, M>> \in StrictSubsetOrdering(Nat))
    <2>1. Bad \subseteq FiniteSubsetsOf(Nat)
      OBVIOUS
    <2> HIDE DEF Bad
    <2> QED BY <1>2, <2>1, WFMin, FS_StrictSubsetOrderingWellFounded
  <1>4. M \subseteq Nat /\ IsFiniteSet(M) /\ ~Listed(M)
    BY DEF FiniteSubsetsOf
  <1>5. CASE M = {}
    <2>1. Cardinality(M) = 0
      BY <1>5, FS_EmptySet
    <2>2. [i \in 1 .. Cardinality(M) |-> 0] \in [1 .. Cardinality(M) -> M]
      BY <2>1
    <2>3. Increases([i \in 1 .. Cardinality(M) |-> 0], Cardinality(M))
      BY <2>1 DEF Increases
    <2> QED BY <1>4, <2>2, <2>3 DEF Listed
  <1>6. CASE M # {}
    <2>1. PICK x \in M : \A y \in M : x <= y
      BY <1>4, <1>6, LeastOfNaturals
    <2> DEFINE L == M \ {x}
               n == Cardinality(L)
    <2>2. IsFiniteSet(L) /\ n \in Nat /\ Cardinality(M) = n + 1
      <3>1. IsFiniteSet(L) /\ Cardinality(L) = Cardinality(M) - 1
        BY <1>4, FS_RemoveElement
      <3>2. Cardinality(L) \in Nat /\ Cardinality(M) \in Nat
        BY <1>4, <3>1, FS_CardinalityType
      <3> QED BY <3>1, <3>2
    <2>3. Listed(L)
      <3>1. L \in SUBSET Nat /\ M \in SUBSET Nat /\ L \subseteq M /\ L # M
        BY <1>4
      <3>2. <<L, M>> \in StrictSubsetOrdering(Nat)
        BY <3>1 DEF StrictSubsetOrdering
      <3>3. L \in FiniteSubsetsOf(Nat)
        BY <2>2, <3>1 DEF FiniteSubsetsOf
      <3>4. L \notin Bad
        <4> HIDE DEF L, Bad
        <4> QED BY <1>3, <3>2
      <3> QED BY <3>3, <3>4
    <2>4. PICK order \in [1 .. n -> L] : Increases(order, n)
      BY <2>3 DEF Listed
    <2> DEFINE longer == [i \in 1 .. n + 1 |-> IF i = 1 THEN x ELSE order[i - 1]]
    <2>5. \A i \in 1 .. n + 1 : i # 1 => i - 1 \in 1 .. n
      BY <2>2
    <2> HIDE DEF n
    <2>6. longer \in [1 .. n + 1 -> M]
      BY <2>4, <2>5
    <2>7. \A i \in 1 .. n : order[i] \in M /\ order[i] # x
      BY <2>4
    <2>8. ASSUME NEW i \in 1 .. n + 1, NEW j \in 1 .. n + 1, i < j
          PROVE  longer[i] < longer[j]
      <3>1. j # 1 /\ j - 1 \in 1 .. n /\ longer[j] = order[j - 1]
        BY <2>2, <2>5, <2>8
      <3>2. CASE i = 1
        <4>1. longer[i] = x /\ x \in Nat /\ order[j - 1] \in Nat /\ order[j - 1] # x /\ x <= order[j - 1]
          BY <1>4, <2>1, <2>7, <2>8, <3>1, <3>2
        <4> QED BY <3>1, <4>1
      <3>3. CASE i # 1
        <4>1. i - 1 \in 1 .. n /\ i - 1 < j - 1 /\ longer[i] = order[i - 1]
          BY <2>2, <2>5, <2>8, <3>3
        <4> QED BY <2>4, <3>1, <4>1 DEF Increases
      <3> QED BY <3>2, <3>3
    <2> HIDE DEF longer
    <2>9. Increases(longer, n + 1)
      BY <2>8 DEF Increases
    <2>10. Listed(M)
      BY <2>2, <2>6, <2>9 DEF Listed, n
    <2> QED BY <1>4, <2>10
  <1> QED BY <1>5, <1>6

(* The increasing list of positions names each of them.                        *)
LEMMA InOrderProperties ==
  ASSUME NEW K, K \subseteq Nat, IsFiniteSet(K), NEW n, n = Cardinality(K)
  PROVE  /\ n \in Nat /\ InOrder(K) \in [1 .. n -> K] /\ Increases(InOrder(K), n)
         /\ \A k \in K : \E i \in 1 .. n : InOrder(K)[i] = k
  <1> DEFINE f == InOrder(K)
  <1>1. n \in Nat
    BY FS_CardinalityType
  <1>2. f \in [1 .. n -> K] /\ Increases(f, n)
    <2>1. f = CHOOSE order \in [1 .. n -> K] : Increases(order, n)
      BY DEF InOrder, Increases
    <2>2. \E order \in [1 .. n -> K] : Increases(order, n)
      BY EveryFiniteSetHasAnOrder
    <2> HIDE DEF f
    <2> QED BY <2>1, <2>2
  <1> HIDE DEF f
  <1>3. f \in Injection(1 .. n, K)
    <2>1. ASSUME NEW i \in 1 .. n, NEW j \in 1 .. n, f[i] = f[j] PROVE i = j
      <3>1. f[i] \in Nat /\ f[j] \in Nat
        BY <1>2
      <3>2. ~(f[i] < f[j]) /\ ~(f[j] < f[i])
        BY <2>1, <3>1
      <3> QED BY <1>1, <1>2, <3>2 DEF Increases
    <2> QED BY <1>2, <2>1, Fun_IsInj
  <1>4. Cardinality(1 .. n) = Cardinality(K)
    BY <1>1, FS_Interval
  <1>5. f \in Surjection(1 .. n, K)
    BY <1>3, <1>4, FS_Injection
  <1>6. \A k \in K : \E i \in 1 .. n : f[i] = k
    BY <1>5 DEF Surjection
  <1> QED BY <1>1, <1>2, <1>6 DEF f

(* Keeping some positions keeps the entries at them, in their order.           *)
LEMMA EntriesAtProperties ==
  ASSUME requests \in Seq(Requests), NEW K, K \subseteq DOMAIN requests, NEW q, q = EntriesAt(K)
  PROVE  /\ q \in Seq(Requests) /\ Len(q) = Cardinality(K) /\ DOMAIN q = 1 .. Len(q)
         /\ Len(q) \in Nat /\ Len(q) <= Len(requests)
         /\ Range(q) = {requests[k] : k \in K}
         /\ \A i, j \in DOMAIN q : i < j =>
              \E k, l \in K : k < l /\ q[i] = requests[k] /\ q[j] = requests[l]
  <1> DEFINE n == Cardinality(K)
             f == InOrder(K)
  <1>1. /\ DOMAIN requests = 1 .. Len(requests) /\ Len(requests) \in Nat
        /\ requests \in [1 .. Len(requests) -> Requests]
    BY LenProperties
  <1>2. K \subseteq Nat /\ IsFiniteSet(K) /\ n \in Nat /\ n <= Len(requests)
    <2>1. IsFiniteSet(1 .. Len(requests)) /\ Cardinality(1 .. Len(requests)) = Len(requests)
      <3>1. 1 \in Int /\ Len(requests) \in Int /\ Len(requests) >= 0
        BY <1>1
      <3> QED BY <3>1, FS_Interval
    <2>2. IsFiniteSet(K) /\ n <= Len(requests)
      BY <1>1, <2>1, FS_Subset
    <2> QED BY <1>1, <2>2, FS_CardinalityType
  <1>3. f \in [1 .. n -> K] /\ Increases(f, n) /\ \A k \in K : \E i \in 1 .. n : f[i] = k
    BY <1>2, InOrderProperties
  <1>4. q = [i \in 1 .. n |-> requests[f[i]]]
    BY DEF EntriesAt
  <1> HIDE DEF n, f
  <1>5. q \in [1 .. n -> Requests] /\ \A i \in 1 .. n : q[i] = requests[f[i]]
    BY <1>1, <1>3, <1>4
  <1>6. q \in Seq(Requests) /\ Len(q) = n /\ DOMAIN q = 1 .. n
    BY <1>2, <1>5, SeqDef
  <1>7. Range(q) = {requests[k] : k \in K}
    <2>1. Range(q) = {q[i] : i \in 1 .. n}
      BY <1>6 DEF Range
    <2>2. \A i \in 1 .. n : q[i] = requests[f[i]] /\ f[i] \in K
      BY <1>3, <1>5
    <2> QED BY <1>3, <2>1, <2>2
  <1>8. ASSUME NEW i \in DOMAIN q, NEW j \in DOMAIN q, i < j
        PROVE  \E k, l \in K : k < l /\ q[i] = requests[k] /\ q[j] = requests[l]
    <2>1. f[i] \in K /\ f[j] \in K /\ f[i] < f[j]
      BY <1>3, <1>6, <1>8 DEF Increases
    <2> QED BY <1>5, <1>6, <2>1
  <1> QED BY <1>2, <1>6, <1>7, <1>8 DEF n

-----------------------------------------------------------------------------
(* The invariant holds.                                                        *)

(* Nobody is in the buffer twice, so it holds as many requests as entries.     *)
LEMMA BufferHasNoDuplicates ==
  ASSUME QueueInv
  PROVE  /\ \A i, j \in DOMAIN requests : requests[i] = requests[j] => i = j
         /\ DOMAIN requests = 1 .. Len(requests) /\ Len(requests) \in Nat
         /\ IsFiniteSet(Range(requests)) /\ Cardinality(Range(requests)) = Len(requests)
         /\ Range(requests) \subseteq Requests
  <1>1. /\ requests \in Seq(Requests) /\ DOMAIN requests = 1 .. Len(requests)
        /\ Len(requests) \in Nat /\ requests \in [1 .. Len(requests) -> Requests]
    BY LenProperties DEF QueueInv, TypeOK
  <1>2. ASSUME NEW i \in DOMAIN requests, NEW j \in DOMAIN requests, i < j
        PROVE  requests[i] # requests[j]
    <2>1. PICK a, b \in DOMAIN arrivals :
             arrivals[a] = requests[i] /\ arrivals[b] = requests[j] /\ a < b
      BY <1>2 DEF QueueInv, BufferIsOrdered, Before
    <2>2. DOMAIN arrivals \subseteq Nat
      BY LenProperties DEF QueueInv, TypeOK
    <2> QED BY <2>1, <2>2 DEF QueueInv, LogIsComplete
  <1>3. \A i, j \in DOMAIN requests : requests[i] = requests[j] => i = j
    <2>1. \A i, j \in DOMAIN requests : i < j \/ j < i \/ i = j
      BY <1>1
    <2> QED BY <1>2, <2>1
  <1>4. Range(requests) \subseteq Requests
    BY <1>1 DEF Range
  <1>5. requests \in Bijection(1 .. Len(requests), Range(requests))
    <2>1. requests \in [1 .. Len(requests) -> Range(requests)]
      BY <1>1 DEF Range
    <2>2. \A r \in Range(requests) : \E i \in 1 .. Len(requests) : requests[i] = r
      BY <1>1 DEF Range
    <2> QED BY <1>1, <1>3, <2>1, <2>2, Fun_IsBij
  <1>6. IsFiniteSet(Range(requests)) /\ Cardinality(Range(requests)) = Len(requests)
    <2>1. ExistsBijection(1 .. Len(requests), Range(requests))
      BY <1>5 DEF ExistsBijection
    <2>2. IsFiniteSet(Range(requests))
      BY <1>1, <2>1, FS_NatBijection
    <2> QED BY <1>1, <2>1, <2>2, FS_CountingElements
  <1> QED BY <1>1, <1>3, <1>4, <1>6

LEMMA SetsOfRequestsAreFinite ==
  ASSUME NEW S, S \subseteq Requests
  PROVE  IsFiniteSet(S) /\ Cardinality(S) \in Nat
  BY RequestQueueAssumption, FS_Subset, FS_CardinalityType

(* What is left after a clean-up, with or without a pop.                       *)
LEMMA ShorterBuffer ==
  ASSUME QueueInv, NEW K, K \subseteq DOMAIN requests, NEW q, q = EntriesAt(K)
  PROVE  /\ q \in Seq(Requests) /\ DOMAIN q = 1 .. Len(q)
         /\ Len(q) \in Nat /\ Len(q) = Cardinality(K) /\ Len(q) <= Len(requests)
         /\ Range(q) = {requests[k] : k \in K} /\ Range(q) \subseteq Range(requests)
         /\ \A i, j \in DOMAIN q : i < j => Before(q[i], q[j])
  <1>1. requests \in Seq(Requests)
    BY DEF QueueInv, TypeOK
  <1>2. /\ q \in Seq(Requests) /\ Len(q) = Cardinality(K) /\ DOMAIN q = 1 .. Len(q)
        /\ Len(q) \in Nat /\ Len(q) <= Len(requests)
        /\ Range(q) = {requests[k] : k \in K}
        /\ \A i, j \in DOMAIN q : i < j =>
             \E k, l \in K : k < l /\ q[i] = requests[k] /\ q[j] = requests[l]
    BY <1>1, EntriesAtProperties
  <1>3. Range(q) \subseteq Range(requests)
    BY <1>2 DEF Range
  <1>4. \A i, j \in DOMAIN q : i < j => Before(q[i], q[j])
    BY <1>2 DEF QueueInv, BufferIsOrdered
  <1> QED BY <1>2, <1>3, <1>4

LEMMA QueueInit == Init => QueueInv
  <1> SUFFICES ASSUME Init PROVE QueueInv
    OBVIOUS
  <1>1. /\ <<>> \in Seq(Requests) /\ Len(<<>>) = 0 /\ DOMAIN <<>> = {} /\ Range(<<>>) = {}
    BY EmptySeq DEF Range
  <1>2. TypeOK
    BY <1>1 DEF Init, TypeOK, Places, Labels
  <1>3. LogIsComplete /\ BufferIsOrdered /\ StoppedIsClosed /\ NoLostWakeup
    BY <1>1 DEF Init, LogIsComplete, BufferIsOrdered, StoppedIsClosed, NoLostWakeup
  <1>4. CountersAreExact
    BY <1>1, FS_EmptySet DEF Init, CountersAreExact
  <1> QED BY <1>2, <1>3, <1>4 DEF QueueInv

(* The steps that leave the buffer and the log alone.                          *)
LEMMA BufferUntouched ==
  ASSUME QueueInv, UNCHANGED <<requests, arrivals, served, failed, depth, cancelled>>
  PROVE  BufferIsOrdered' /\ CountersAreExact'
  BY DEF QueueInv, BufferIsOrdered, Before, CountersAreExact

LEMMA GoToKeepsInv ==
  ASSUME QueueInv, NEW label \in Labels, GoTo(label), ~closed, label # "stopped",
         label = "parked" => requests = <<>>
  PROVE  QueueInv'
  <1>1. /\ loop' = label
        /\ UNCHANGED <<requests, closed, permit, depth, cancelled, producer, gone, serving, served,
                       failed, arrivals>>
    BY DEF GoTo
  <1>2. Range(<<>>) = {}
    BY DEF Range
  <1>3. TypeOK' /\ LogIsComplete' /\ StoppedIsClosed' /\ NoLostWakeup'
    BY <1>1, <1>2 DEF QueueInv, TypeOK, LogIsComplete, StoppedIsClosed, NoLostWakeup
  <1> QED BY <1>1, <1>3, BufferUntouched DEF QueueInv

LEMMA NotifyKeepsInv ==
  ASSUME QueueInv, NEW r \in Requests, NotifyOne(r)
  PROVE  QueueInv'
  <1>1. /\ producer[r] = "pushed" /\ permit' = TRUE
        /\ producer' = [producer EXCEPT ![r] = "accepted"]
        /\ UNCHANGED <<requests, closed, depth, cancelled, gone, loop, serving, served, failed, arrivals>>
    BY DEF NotifyOne
  <1>2. TypeOK' /\ StoppedIsClosed' /\ NoLostWakeup'
    BY <1>1 DEF QueueInv, TypeOK, StoppedIsClosed, NoLostWakeup, Places
  <1>3. LogIsComplete'
    <2>1. \A s \in Requests : producer'[s] \in {"pushed", "accepted"} <=> producer[s] \in {"pushed", "accepted"}
      BY <1>1 DEF QueueInv, TypeOK
    <2> QED BY <1>1, <2>1 DEF QueueInv, LogIsComplete
  <1> QED BY <1>1, <1>2, <1>3, BufferUntouched DEF QueueInv

LEMMA LeaveKeepsInv ==
  ASSUME QueueInv, NEW r \in Requests, Leave(r)
  PROVE  QueueInv'
  <1>1. /\ producer[r] \in {"pushed", "accepted"} /\ gone' = gone \cup {r}
        /\ UNCHANGED <<requests, closed, permit, depth, cancelled, producer, loop, serving, served,
                       failed, arrivals>>
    BY DEF Leave
  <1>2. TypeOK' /\ StoppedIsClosed' /\ NoLostWakeup'
    BY <1>1 DEF QueueInv, TypeOK, StoppedIsClosed, NoLostWakeup
  <1>3. LogIsComplete'
    BY <1>1 DEF QueueInv, LogIsComplete
  <1> QED BY <1>1, <1>2, <1>3, BufferUntouched DEF QueueInv

LEMMA WakeUpKeepsInv ==
  ASSUME QueueInv, WakeUp PROVE QueueInv'
  <1>1. /\ loop = "parked" /\ loop' = "look" /\ permit' = FALSE
        /\ UNCHANGED <<requests, closed, depth, cancelled, producer, gone, serving, served, failed,
                       arrivals>>
    BY DEF WakeUp
  <1>2. TypeOK' /\ StoppedIsClosed' /\ NoLostWakeup' /\ LogIsComplete'
    BY <1>1 DEF QueueInv, TypeOK, StoppedIsClosed, NoLostWakeup, LogIsComplete, Labels
  <1> QED BY <1>1, <1>2, BufferUntouched DEF QueueInv

LEMMA DecodeKeepsInv ==
  ASSUME QueueInv, Decode PROVE QueueInv'
  <1>1. /\ loop = "decode" /\ loop' = "top" /\ serving' \subseteq serving
        /\ UNCHANGED <<requests, closed, permit, depth, cancelled, producer, gone, served, failed,
                       arrivals>>
    BY DEF Decode
  <1>2. TypeOK' /\ StoppedIsClosed' /\ NoLostWakeup' /\ LogIsComplete'
    BY <1>1 DEF QueueInv, TypeOK, StoppedIsClosed, NoLostWakeup, LogIsComplete, Labels
  <1> QED BY <1>1, <1>2, BufferUntouched DEF QueueInv

\* The entries that still have a client.
Kept == EntriesAt(Live)

LEMMA KeptProperties ==
  ASSUME QueueInv
  PROVE  /\ Kept \in Seq(Requests) /\ DOMAIN Kept = 1 .. Len(Kept)
         /\ Len(Kept) \in Nat /\ Len(Kept) = Cardinality(Live) /\ Len(Kept) <= Len(requests)
         /\ Range(Kept) = Range(requests) \ gone
         /\ \A i, j \in DOMAIN Kept : i < j => Before(Kept[i], Kept[j])
  <1>1. Live \subseteq DOMAIN requests
    BY DEF Live
  <1>2. Range(Kept) = {requests[k] : k \in Live}
    BY <1>1, ShorterBuffer DEF Kept
  <1>3. Range(Kept) = Range(requests) \ gone
    BY <1>2 DEF Live, Range
  <1> QED BY <1>1, <1>3, ShorterBuffer DEF Kept

(* Those who are dropped are exactly what the counter goes up by.              *)
LEMMA PrunedAreCounted ==
  ASSUME QueueInv, CountPruned
  PROVE  cancelled' \in Nat /\ Len(Kept) + cancelled' = Len(requests) + cancelled
  <1>1. cancelled \in Nat /\ Len(requests) \in Nat /\ Cardinality(Live) \in Nat
        /\ Cardinality(Live) <= Len(requests) /\ Len(Kept) = Cardinality(Live)
    BY KeptProperties, LenProperties DEF QueueInv, TypeOK
  <1> QED BY <1>1 DEF CountPruned

LEMMA RefusalKeepsInv ==
  ASSUME QueueInv, NEW r \in Requests, Submit(r), IsFull
  PROVE  QueueInv'
  <1>1. /\ producer[r] = "idle" /\ CountPruned /\ requests' = Kept /\ depth' = Len(requests')
        /\ producer' = [producer EXCEPT ![r] = "refused"]
        /\ UNCHANGED <<closed, permit, gone, loop, serving, served, failed, arrivals>>
    BY DEF Submit, SetQueueDepth, Kept
  <1>2. Range(requests') \subseteq Range(requests)
    BY <1>1, KeptProperties
  <1>3. Len(requests') + cancelled' = Len(requests) + cancelled /\ cancelled' \in Nat
    BY <1>1, PrunedAreCounted
  <1>4. TypeOK'
    BY <1>1, <1>3, KeptProperties DEF QueueInv, TypeOK, Places
  <1>5. LogIsComplete'
    <2>1. \A s \in Requests : producer'[s] \in {"pushed", "accepted"} <=> producer[s] \in {"pushed", "accepted"}
      BY <1>1 DEF QueueInv, TypeOK
    <2> QED BY <1>1, <1>2, <2>1 DEF QueueInv, LogIsComplete
  <1>6. BufferIsOrdered'
    BY <1>1, KeptProperties DEF BufferIsOrdered, Before
  <1>7. StoppedIsClosed'
    <2>1. ASSUME closed PROVE Kept = <<>>
      <3>1. requests = <<>> /\ Len(<<>>) = 0
        BY <2>1, EmptySeq DEF QueueInv, StoppedIsClosed
      <3>2. Len(Kept) = 0
        BY <3>1, KeptProperties
      <3> QED BY <3>2, KeptProperties, EmptySeq
    <2> QED BY <1>1, <2>1 DEF QueueInv, StoppedIsClosed
  <1>8. CountersAreExact'
    <2>1. /\ Len(arrivals) = Len(requests) + Cardinality(served) + Cardinality(failed) + cancelled
          /\ served \cap failed = {} /\ (served \cup failed) \cap Range(requests) = {}
      BY DEF QueueInv, CountersAreExact
    <2>2. /\ Cardinality(served) \in Nat /\ Cardinality(failed) \in Nat /\ Len(arrivals) \in Nat
          /\ Len(requests) \in Nat /\ Len(requests') \in Nat /\ cancelled \in Nat
      BY <1>1, KeptProperties, SetsOfRequestsAreFinite, LenProperties DEF QueueInv, TypeOK
    <2>3. Len(arrivals) = Len(requests') + Cardinality(served) + Cardinality(failed) + cancelled'
      <3>1. /\ Len(arrivals) = Len(requests) + Cardinality(served) + Cardinality(failed) + cancelled
            /\ Len(requests') + cancelled' = Len(requests) + cancelled /\ cancelled' \in Nat
        BY <1>3, <2>1
      <3> QED BY <2>2, <3>1
    <2> QED BY <1>1, <1>2, <2>1, <2>3 DEF CountersAreExact
  <1>9. NoLostWakeup'
    <2>1. \A s \in Range(requests) : producer[s] = "pushed" => producer'[s] = "pushed"
      BY <1>1, BufferHasNoDuplicates DEF QueueInv, TypeOK
    <2> QED BY <1>1, <1>2, <2>1 DEF QueueInv, NoLostWakeup
  <1> QED BY <1>4, <1>5, <1>6, <1>7, <1>8, <1>9 DEF QueueInv

LEMMA AppendRange ==
  ASSUME NEW s \in Seq(Requests), NEW r \in Requests
  PROVE  Range(Append(s, r)) = Range(s) \cup {r}
  <1> DEFINE t == Append(s, r)
             n == Len(s)
  <1>1. /\ t \in Seq(Requests) /\ Len(t) = n + 1 /\ n \in Nat
        /\ \A i \in 1 .. n : t[i] = s[i]
    BY AppendProperties
  <1>2. DOMAIN s = 1 .. n /\ DOMAIN t = 1 .. n + 1 /\ t[n + 1] = r
    <2>1. DOMAIN s = 1 .. Len(s) /\ DOMAIN t = 1 .. Len(t)
      BY <1>1, LenProperties
    <2> QED BY <1>1, <2>1, AppendProperties
  <1> HIDE DEF t, n
  <1>3. 1 .. n + 1 = 1 .. n \cup {n + 1}
    BY <1>1
  <1>4. Range(t) = {t[i] : i \in 1 .. n} \cup {t[n + 1]}
    BY <1>2, <1>3 DEF Range
  <1>5. {t[i] : i \in 1 .. n} = Range(s)
    BY <1>1, <1>2 DEF Range
  <1> QED BY <1>2, <1>4, <1>5 DEF t

LEMMA AcceptanceKeepsInv ==
  ASSUME QueueInv, NEW r \in Requests, Submit(r), ~IsFull
  PROVE  QueueInv'
  <1>1. /\ producer[r] = "idle" /\ CountPruned /\ requests' = Append(Kept, r) /\ depth' = Len(requests')
        /\ producer' = [producer EXCEPT ![r] = "pushed"]
        /\ arrivals' = Append(arrivals, r) /\ ~closed
        /\ UNCHANGED <<closed, permit, gone, loop, serving, served, failed>>
    BY DEF Submit, SetQueueDepth, Kept, IsFull
  <1>2. /\ requests' \in Seq(Requests) /\ Len(requests') = Len(Kept) + 1
        /\ DOMAIN requests' = 1 .. Len(Kept) + 1
        /\ \A i \in 1 .. Len(Kept) : requests'[i] = Kept[i]
        /\ requests'[Len(Kept) + 1] = r
    <2>1. requests' \in Seq(Requests)
      BY <1>1, KeptProperties, AppendProperties
    <2>2. DOMAIN requests' = 1 .. Len(requests')
      BY <2>1, LenProperties
    <2> QED BY <1>1, <2>1, <2>2, KeptProperties, AppendProperties
  <1>3. /\ arrivals' \in Seq(Requests) /\ Len(arrivals') = Len(arrivals) + 1
        /\ DOMAIN arrivals' = 1 .. Len(arrivals) + 1 /\ DOMAIN arrivals = 1 .. Len(arrivals)
        /\ \A i \in 1 .. Len(arrivals) : arrivals'[i] = arrivals[i]
        /\ arrivals'[Len(arrivals) + 1] = r /\ Len(arrivals) \in Nat
    <2>1. arrivals \in Seq(Requests) /\ arrivals' \in Seq(Requests)
      BY <1>1, AppendProperties DEF QueueInv, TypeOK
    <2>2. DOMAIN arrivals' = 1 .. Len(arrivals') /\ DOMAIN arrivals = 1 .. Len(arrivals)
      BY <2>1, LenProperties
    <2> QED BY <1>1, <2>1, <2>2, LenProperties, AppendProperties
  <1>4. Range(requests') = Range(Kept) \cup {r} /\ Range(arrivals') = Range(arrivals) \cup {r}
    BY <1>1, KeptProperties, AppendRange DEF QueueInv, TypeOK
  <1>5. r \notin Range(arrivals) /\ Range(Kept) \subseteq Range(requests) /\ Range(Kept) \subseteq Range(arrivals)
    BY <1>1, KeptProperties DEF QueueInv, LogIsComplete
  <1>6. Len(Kept) + cancelled' = Len(requests) + cancelled /\ cancelled' \in Nat
    BY <1>1, PrunedAreCounted
  <1>7. TypeOK'
    <2>1. Len(requests') \in Nat
      BY <1>2, KeptProperties
    <2> QED BY <1>1, <1>2, <1>3, <1>6, <2>1 DEF QueueInv, TypeOK, Places
  <1>8. LogIsComplete'
    <2>1. \A s \in Requests : producer'[s] \in {"pushed", "accepted"} <=>
                                producer[s] \in {"pushed", "accepted"} \/ s = r
      BY <1>1 DEF QueueInv, TypeOK
    <2>2. Range(arrivals') = {s \in Requests : producer'[s] \in {"pushed", "accepted"}}
      BY <1>4, <2>1 DEF QueueInv, LogIsComplete
    <2>3. Range(requests') \cup served' \cup failed' \cup gone' \subseteq Range(arrivals')
      BY <1>1, <1>4, <1>5 DEF QueueInv, LogIsComplete
    <2>4. ASSUME NEW i \in DOMAIN arrivals', NEW j \in DOMAIN arrivals', arrivals'[i] = arrivals'[j]
          PROVE  i = j
      <3>1. \A k \in DOMAIN arrivals' : k \in 1 .. Len(arrivals) \/ k = Len(arrivals) + 1
        BY <1>3
      <3>2. \A k \in 1 .. Len(arrivals) : arrivals'[k] \in Range(arrivals) /\ arrivals'[k] = arrivals[k]
        BY <1>3 DEF Range
      <3> QED BY <1>3, <1>5, <2>4, <3>1, <3>2 DEF QueueInv, LogIsComplete
    <2> QED BY <2>2, <2>3, <2>4 DEF LogIsComplete
  <1>9. BufferIsOrdered'
    <2> DEFINE Later(x, y) ==
                 \E i, j \in DOMAIN arrivals' : arrivals'[i] = x /\ arrivals'[j] = y /\ i < j
    <2>1. ASSUME NEW x, NEW y, Before(x, y) PROVE Later(x, y)
      <3>1. PICK i, j \in DOMAIN arrivals : arrivals[i] = x /\ arrivals[j] = y /\ i < j
        BY <2>1 DEF Before
      <3>2. i \in DOMAIN arrivals' /\ j \in DOMAIN arrivals'
        BY <1>3
      <3> QED BY <1>3, <3>1, <3>2
    <2>2. ASSUME NEW x \in Range(Kept) PROVE Later(x, r)
      <3>1. PICK i \in DOMAIN arrivals : arrivals[i] = x
        BY <1>5 DEF Range
      <3>2. i \in DOMAIN arrivals' /\ Len(arrivals) + 1 \in DOMAIN arrivals' /\ i < Len(arrivals) + 1
        BY <1>3
      <3> QED BY <1>3, <3>1, <3>2
    <2> HIDE DEF Later
    <2>3. ASSUME NEW i \in DOMAIN requests', NEW j \in DOMAIN requests', i < j
          PROVE  Later(requests'[i], requests'[j])
      <3>1. i \in 1 .. Len(Kept) /\ (j \in 1 .. Len(Kept) \/ j = Len(Kept) + 1)
        BY <1>2, <2>3, KeptProperties
      <3>2. requests'[i] = Kept[i] /\ Kept[i] \in Range(Kept)
        BY <1>2, <3>1, KeptProperties DEF Range
      <3>3. CASE j \in 1 .. Len(Kept)
        <4>1. Before(Kept[i], Kept[j]) /\ requests'[j] = Kept[j]
          BY <1>2, <2>3, <3>1, <3>3, KeptProperties
        <4> QED BY <2>1, <3>2, <4>1
      <3>4. CASE j = Len(Kept) + 1
        BY <1>2, <2>2, <3>2, <3>4
      <3> QED BY <3>1, <3>3, <3>4
    <2> QED BY <2>3 DEF BufferIsOrdered, Before, Later
  <1>10. StoppedIsClosed'
    BY <1>1 DEF QueueInv, StoppedIsClosed
  <1>11. CountersAreExact'
    <2>1. /\ Len(arrivals) = Len(requests) + Cardinality(served) + Cardinality(failed) + cancelled
          /\ served \cap failed = {} /\ (served \cup failed) \cap Range(requests) = {}
          /\ served \cup failed \subseteq Range(arrivals)
      BY DEF QueueInv, CountersAreExact, LogIsComplete
    <2>2. /\ Cardinality(served) \in Nat /\ Cardinality(failed) \in Nat /\ Len(arrivals) \in Nat
          /\ Len(requests) \in Nat /\ Len(Kept) \in Nat /\ cancelled \in Nat
          /\ Len(requests') \in Nat /\ Len(arrivals') \in Nat
      BY <1>2, <1>3, KeptProperties, SetsOfRequestsAreFinite, LenProperties DEF QueueInv, TypeOK
    <2>3. Len(arrivals') = Len(requests') + Cardinality(served) + Cardinality(failed) + cancelled'
      <3>1. Len(arrivals) = Len(requests) + Cardinality(served) + Cardinality(failed) + cancelled
        BY <2>1
      <3>2. Len(Kept) + cancelled' = Len(requests) + cancelled
        BY <1>6
      <3>3. Len(arrivals') = Len(arrivals) + 1
        BY <1>3
      <3>4. Len(requests') = Len(Kept) + 1
        BY <1>2
      <3>5. cancelled' \in Nat
        BY <1>6
      <3>6. Len(requests') + cancelled' = Len(requests) + cancelled + 1
        BY <2>2, <3>2, <3>4, <3>5
      <3>7. Len(arrivals') =
              (Len(requests) + cancelled + 1) + (Cardinality(served) + Cardinality(failed))
        BY <2>2, <3>1, <3>3
      <3> QED BY <2>2, <3>5, <3>6, <3>7
    <2>4. (served \cup failed) \cap Range(requests') = {}
      BY <1>4, <1>5, <2>1
    <2> QED BY <1>1, <2>1, <2>3, <2>4 DEF CountersAreExact
  <1>12. NoLostWakeup'
    <2>1. \A s \in Range(requests) : producer[s] = "pushed" => producer'[s] = "pushed"
      BY <1>1, BufferHasNoDuplicates DEF QueueInv, TypeOK
    <2>2. producer'[r] = "pushed"
      BY <1>1 DEF QueueInv, TypeOK
    <2> QED BY <1>1, <1>4, <1>5, <2>1, <2>2 DEF QueueInv, NoLostWakeup
  <1> QED BY <1>7, <1>8, <1>9, <1>10, <1>11, <1>12 DEF QueueInv

(* A pop takes one entry out of those that are kept.                           *)
LEMMA PopProperties ==
  ASSUME QueueInv, NEW best \in Live, NEW q, q = EntriesAt(Live \ {best})
  PROVE  /\ q \in Seq(Requests) /\ Len(q) \in Nat /\ Len(q) + 1 = Len(Kept)
         /\ Range(q) = (Range(requests) \ gone) \ {requests[best]}
         /\ requests[best] \in Range(requests) \ gone
         /\ \A i, j \in DOMAIN q : i < j => Before(q[i], q[j])
  <1>1. Live \subseteq DOMAIN requests /\ Live \ {best} \subseteq DOMAIN requests
    BY DEF Live
  <1>2. /\ q \in Seq(Requests) /\ Len(q) \in Nat /\ Len(q) = Cardinality(Live \ {best})
        /\ Range(q) = {requests[k] : k \in Live \ {best}}
        /\ \A i, j \in DOMAIN q : i < j => Before(q[i], q[j])
    BY <1>1, ShorterBuffer
  <1>3. IsFiniteSet(Live)
    <2>1. /\ DOMAIN requests = 1 .. Len(requests) /\ 1 \in Int /\ Len(requests) \in Int
      BY BufferHasNoDuplicates
    <2>2. IsFiniteSet(DOMAIN requests)
      BY <2>1, FS_Interval
    <2> QED BY <1>1, <2>2, FS_Subset
  <1>4. Cardinality(Live \ {best}) = Cardinality(Live) - 1
    BY <1>3, FS_RemoveElement
  <1>5. Len(q) + 1 = Len(Kept)
    <2>1. Len(Kept) \in Nat /\ Len(Kept) = Cardinality(Live)
      BY KeptProperties
    <2> QED BY <1>2, <1>4, <2>1
  <1>6. \A k \in Live : requests[k] = requests[best] => k = best
    BY <1>1, BufferHasNoDuplicates
  <1>7. Range(q) = {requests[k] : k \in Live} \ {requests[best]}
    BY <1>2, <1>6
  <1>8. {requests[k] : k \in Live} = Range(requests) \ gone
    BY DEF Live, Range
  <1> QED BY <1>2, <1>5, <1>7, <1>8

LEMMA TryPopKeepsInv ==
  ASSUME QueueInv, TryPop
  PROVE  QueueInv'
  <1>1. PICK best \in Live :
           /\ requests' = EntriesAt(Live \ {best})
           /\ serving' = serving \cup {requests[best]} /\ served' = served \cup {requests[best]}
    BY DEF TryPop
  <1>2. /\ loop = "admit" /\ CountPruned /\ depth' = Len(requests')
        /\ UNCHANGED <<closed, permit, producer, gone, loop, failed, arrivals>>
    BY DEF TryPop, SetQueueDepth
  <1>3. /\ requests' \in Seq(Requests) /\ Len(requests') \in Nat /\ Len(requests') + 1 = Len(Kept)
        /\ Range(requests') \subseteq Range(requests) /\ requests[best] \notin Range(requests')
        /\ requests[best] \in Range(requests)
        /\ \A i, j \in DOMAIN requests' : i < j => Before(requests'[i], requests'[j])
    BY <1>1, PopProperties
  <1>4. cancelled' \in Nat /\ Len(Kept) + cancelled' = Len(requests) + cancelled
    BY <1>2, PrunedAreCounted
  <1>5. requests[best] \in Requests
    BY <1>3, BufferHasNoDuplicates
  <1>6. TypeOK'
    BY <1>1, <1>2, <1>3, <1>4, <1>5 DEF QueueInv, TypeOK
  <1>7. LogIsComplete'
    <2>1. Range(requests) \cup served \cup failed \cup gone \subseteq Range(arrivals)
      BY DEF QueueInv, LogIsComplete
    <2>2. Range(requests') \cup served' \cup failed' \cup gone' \subseteq Range(arrivals')
      BY <1>1, <1>2, <1>3, <2>1
    <2> QED BY <1>2, <2>2 DEF QueueInv, LogIsComplete
  <1>8. BufferIsOrdered'
    BY <1>2, <1>3 DEF BufferIsOrdered, Before
  <1>9. StoppedIsClosed' /\ NoLostWakeup'
    BY <1>2 DEF QueueInv, StoppedIsClosed, NoLostWakeup
  <1>10. CountersAreExact'
    <2>1. /\ Len(arrivals) = Len(requests) + Cardinality(served) + Cardinality(failed) + cancelled
          /\ served \cap failed = {} /\ (served \cup failed) \cap Range(requests) = {}
      BY DEF QueueInv, CountersAreExact
    <2>2. /\ Cardinality(served) \in Nat /\ Cardinality(failed) \in Nat /\ Len(arrivals) \in Nat
          /\ Len(requests) \in Nat /\ Len(Kept) \in Nat /\ cancelled \in Nat
          /\ Cardinality(served') \in Nat
      BY <1>6, KeptProperties, SetsOfRequestsAreFinite, LenProperties DEF QueueInv, TypeOK
    <2>3. Cardinality(served') = Cardinality(served) + 1
      <3>1. requests[best] \notin served
        BY <1>3, <2>1
      <3>2. IsFiniteSet(served)
        BY SetsOfRequestsAreFinite DEF QueueInv, TypeOK
      <3> QED BY <1>1, <3>1, <3>2, FS_AddElement
    <2>4. Len(arrivals) = Len(requests') + Cardinality(served') + Cardinality(failed) + cancelled'
      <3>1. Len(arrivals) = Len(requests) + Cardinality(served) + Cardinality(failed) + cancelled
        BY <2>1
      <3>2. Len(requests') + 1 + cancelled' = Len(requests) + cancelled
        BY <1>3, <1>4, <2>2
      <3>3. Len(requests') \in Nat /\ cancelled' \in Nat
        BY <1>3, <1>4
      <3>4. PICK all, before, after, popped, drained, old, new \in Nat :
              /\ all = Len(arrivals) /\ before = Len(requests) /\ after = Len(requests')
              /\ popped = Cardinality(served) /\ drained = Cardinality(failed)
              /\ old = cancelled /\ new = cancelled'
        BY <2>2, <3>3
      <3>5. all = before + popped + drained + old /\ after + 1 + new = before + old
        BY <3>1, <3>2, <3>4
      <3>6. all = after + (popped + 1) + drained + new
        BY <3>5
      <3> QED BY <2>3, <3>4, <3>6
    <2>5. served' \cap failed = {} /\ (served' \cup failed) \cap Range(requests') = {}
      BY <1>1, <1>3, <2>1
    <2> QED BY <1>2, <2>4, <2>5 DEF CountersAreExact
  <1> QED BY <1>6, <1>7, <1>8, <1>9, <1>10 DEF QueueInv

LEMMA EmptyBuffer ==
  <<>> \in Seq(Requests) /\ Len(<<>>) = 0 /\ DOMAIN <<>> = {} /\ Range(<<>>) = {}
  BY EmptySeq DEF Range

LEMMA TryPopNoneKeepsInv ==
  ASSUME QueueInv, TryPopNone
  PROVE  QueueInv'
  <1>1. /\ loop = "admit" /\ loop' = "decode" /\ Live = {} /\ CountPruned
        /\ requests' = <<>> /\ depth' = 0
        /\ UNCHANGED <<closed, permit, producer, gone, serving, served, failed, arrivals>>
    BY DEF TryPopNone, SetQueueDepth
  <1>2. cancelled' \in Nat /\ cancelled' = Len(requests) + cancelled
    <2>1. Len(Kept) = 0
      BY <1>1, KeptProperties, FS_EmptySet
    <2> QED BY <1>1, <2>1, PrunedAreCounted
  <1>3. TypeOK' /\ LogIsComplete' /\ BufferIsOrdered' /\ StoppedIsClosed' /\ NoLostWakeup'
    BY <1>1, <1>2, EmptyBuffer
    DEF QueueInv, TypeOK, LogIsComplete, BufferIsOrdered, StoppedIsClosed, NoLostWakeup, Labels
  <1>4. CountersAreExact'
    <2>1. /\ Len(arrivals) = Len(requests) + Cardinality(served) + Cardinality(failed) + cancelled
          /\ served \cap failed = {}
      BY DEF QueueInv, CountersAreExact
    <2>2. /\ Cardinality(served) \in Nat /\ Cardinality(failed) \in Nat /\ Len(arrivals) \in Nat
          /\ Len(requests) \in Nat /\ cancelled \in Nat
      BY SetsOfRequestsAreFinite, LenProperties DEF QueueInv, TypeOK
    <2>3. Len(arrivals) = 0 + Cardinality(served) + Cardinality(failed) + cancelled'
      BY <1>2, <2>1, <2>2
    <2> QED BY <1>1, <2>1, <2>3, EmptyBuffer DEF CountersAreExact
  <1> QED BY <1>3, <1>4 DEF QueueInv

LEMMA CloseKeepsInv ==
  ASSUME QueueInv, CloseAndDrain
  PROVE  QueueInv'
  <1>1. /\ closed' = TRUE /\ requests' = <<>> /\ depth' = 0 /\ loop' = "stopped"
        /\ failed' = failed \cup Range(requests)
        /\ UNCHANGED <<permit, cancelled, producer, gone, serving, served, arrivals>>
    BY DEF CloseAndDrain, SetQueueDepth
  <1>2. Range(requests) \subseteq Requests
    BY BufferHasNoDuplicates
  <1>3. TypeOK' /\ LogIsComplete' /\ BufferIsOrdered' /\ StoppedIsClosed' /\ NoLostWakeup'
    BY <1>1, <1>2, EmptyBuffer
    DEF QueueInv, TypeOK, LogIsComplete, BufferIsOrdered, StoppedIsClosed, NoLostWakeup, Labels
  <1>4. CountersAreExact'
    <2>1. /\ Len(arrivals) = Len(requests) + Cardinality(served) + Cardinality(failed) + cancelled
          /\ served \cap failed = {} /\ (served \cup failed) \cap Range(requests) = {}
      BY DEF QueueInv, CountersAreExact
    <2>2. /\ Cardinality(served) \in Nat /\ Cardinality(failed) \in Nat /\ Len(arrivals) \in Nat
          /\ Len(requests) \in Nat /\ cancelled \in Nat /\ Cardinality(failed') \in Nat
      BY <1>3, SetsOfRequestsAreFinite, LenProperties DEF QueueInv, TypeOK
    <2>3. Cardinality(failed') = Cardinality(failed) + Len(requests)
      <3>1. IsFiniteSet(failed) /\ IsFiniteSet(Range(requests)) /\ Cardinality(Range(requests)) = Len(requests)
        BY SetsOfRequestsAreFinite, BufferHasNoDuplicates DEF QueueInv, TypeOK
      <3>2. failed \cap Range(requests) = {} /\ Cardinality({}) = 0
        BY <2>1, FS_EmptySet
      <3>3. Cardinality(failed') = Cardinality(failed) + Cardinality(Range(requests)) - 0
        BY <1>1, <3>1, <3>2, FS_Union
      <3> QED BY <2>2, <3>1, <3>3
    <2>4. Len(arrivals) = 0 + Cardinality(served) + Cardinality(failed') + cancelled
      BY <2>1, <2>2, <2>3
    <2>5. served \cap failed' = {}
      BY <1>1, <2>1
    <2> QED BY <1>1, <2>4, <2>5, EmptyBuffer DEF CountersAreExact
  <1> QED BY <1>3, <1>4 DEF QueueInv

LEMMA QueueStep == QueueInv /\ [Next]_vars => QueueInv'
  <1> SUFFICES ASSUME QueueInv, [Next]_vars PROVE QueueInv'
    OBVIOUS
  <1>1. CASE UNCHANGED vars
    <2>1. UNCHANGED <<requests, closed, permit, depth, cancelled, producer, gone, loop, serving,
                      served, failed, arrivals>>
      BY <1>1 DEF vars
    <2>2. TypeOK' /\ LogIsComplete' /\ StoppedIsClosed' /\ NoLostWakeup'
      BY <2>1 DEF QueueInv, TypeOK, LogIsComplete, StoppedIsClosed, NoLostWakeup
    <2> QED BY <2>1, <2>2, BufferUntouched DEF QueueInv
  <1>2. CASE LoopStep
    <2>1. closed => loop = "stopped"
      BY DEF QueueInv, StoppedIsClosed
    <2>2. CASE StartAdmission
      BY <2>1, <2>2, GoToKeepsInv DEF StartAdmission, Labels
    <2>3. CASE StopAdmission
      BY <2>1, <2>3, GoToKeepsInv DEF StopAdmission, Labels
    <2>4. CASE GoIdle
      BY <2>1, <2>4, GoToKeepsInv DEF GoIdle, Labels
    <2>5. CASE LookNonempty
      <3>1. loop = "look" /\ GoTo(IF requests = <<>> THEN "parked" ELSE "top")
        BY <2>5 DEF LookNonempty
      <3>2. CASE requests = <<>>
        BY <2>1, <3>1, <3>2, GoToKeepsInv DEF Labels
      <3>3. CASE requests # <<>>
        BY <2>1, <3>1, <3>3, GoToKeepsInv DEF Labels
      <3> QED BY <3>2, <3>3
    <2> QED BY <1>2, <2>2, <2>3, <2>4, <2>5, TryPopKeepsInv, TryPopNoneKeepsInv, DecodeKeepsInv,
              WakeUpKeepsInv DEF LoopStep
  <1>3. ASSUME NEW r \in Requests, Submit(r) \/ NotifyOne(r) \/ Leave(r) PROVE QueueInv'
    BY <1>3, RefusalKeepsInv, AcceptanceKeepsInv, NotifyKeepsInv, LeaveKeepsInv
  <1> QED BY <1>1, <1>2, <1>3, CloseKeepsInv DEF Next

-----------------------------------------------------------------------------
(* Theorems.                                                                   *)

(* The inductive invariant, for all requests, priorities and depths.           *)
THEOREM QueueInvariant == Spec => []QueueInv
  <1> QED BY QueueInit, QueueStep, PTL DEF Spec

(* Types of the queue, its counters and its log.                               *)
THEOREM QueueTypes == Spec => []TypeOK
  <1>1. QueueInv => TypeOK
    BY DEF QueueInv
  <1> QED BY <1>1, QueueInvariant, PTL

(* However submits, clean-ups and the loop's look and wait interleave: while   *)
(* the loop waits without a stored wakeup, one is on its way for every entry.  *)
THEOREM NoWakeupIsLost == Spec => []NoLostWakeup
  <1>1. QueueInv => NoLostWakeup
    BY DEF QueueInv
  <1> QED BY <1>1, QueueInvariant, PTL

(* The gauge is the length of the buffer and every request that was accepted is*)
(* accounted for exactly once, after every critical section.                   *)
THEOREM CountersStayExact == Spec => []CountersAreExact
  <1>1. QueueInv => CountersAreExact
    BY DEF QueueInv
  <1> QED BY <1>1, QueueInvariant, PTL

-----------------------------------------------------------------------------
(* The buffer keeps the promise of PriorityQueue.                              *)

(* The abstract queue's sets, read off the buffer.                             *)
LEMMA WaitingIsTheBuffer ==
  ASSUME QueueInv
  PROVE  Promise!Waiting = Range(requests) /\ Promise!Present = Range(requests) \ gone
  <1>1. \A r \in Requests : FateOf(r) = "waiting" <=> r \in Range(requests)
    BY DEF FateOf
  <1>2. Range(requests) \subseteq Requests
    BY BufferHasNoDuplicates
  <1>3. Promise!Waiting = Range(requests)
    BY <1>1, <1>2 DEF Promise!Waiting
  <1> QED BY <1>3 DEF Promise!Present

(* The depth test counts the entries, the promise the requests.                *)
LEMMA LiveCountsThePresent ==
  ASSUME QueueInv
  PROVE  Cardinality(Range(requests) \ gone) = Cardinality(Live)
  <1> DEFINE entry == [k \in Live |-> requests[k]]
  <1>1. Live \subseteq DOMAIN requests /\ {requests[k] : k \in Live} = Range(requests) \ gone
    BY DEF Live, Range
  <1>2. IsFiniteSet(Live)
    <2>1. DOMAIN requests = 1 .. Len(requests) /\ 1 \in Int /\ Len(requests) \in Int
      BY BufferHasNoDuplicates
    <2>2. IsFiniteSet(DOMAIN requests)
      BY <2>1, FS_Interval
    <2> QED BY <1>1, <2>2, FS_Subset
  <1>3. entry \in Bijection(Live, Range(requests) \ gone)
    <2>1. entry \in [Live -> Range(requests) \ gone]
      BY <1>1
    <2>2. \A k, l \in Live : entry[k] = entry[l] => k = l
      BY <1>1, BufferHasNoDuplicates
    <2>3. \A r \in Range(requests) \ gone : \E k \in Live : entry[k] = r
      BY <1>1
    <2> QED BY <2>1, <2>2, <2>3, Fun_IsBij
  <1>4. ExistsBijection(Live, Range(requests) \ gone)
    BY <1>3 DEF ExistsBijection
  <1> QED BY <1>2, <1>4, FS_Bijection

\* What a clean-up and `special` make of the request s.
FateAfter(s, special) ==
  IF s \in DOMAIN special THEN special[s]
  ELSE IF s \in Range(requests) \cap gone THEN "abandoned" ELSE FateOf(s)

LEMMA SettlesAs ==
  ASSUME QueueInv, NEW special, \A s \in Requests : FateOf(s)' = FateAfter(s, special)
  PROVE  Promise!Settle(special)
  <1>1. Promise!Waiting = Range(requests)
    BY WaitingIsTheBuffer
  <1>2. \A s \in Requests : [r \in Requests |-> FateOf(r)][s] = FateOf(s)
    OBVIOUS
  <1> QED BY <1>1, <1>2 DEF Promise!Settle, FateAfter

(* What the places of a request exclude.                                       *)
LEMMA PlacesExclude ==
  ASSUME QueueInv, NEW s \in Requests
  PROVE  /\ s \in Range(requests) => s \notin served /\ s \notin failed
         /\ s \in served => s \notin failed
         /\ s \in Range(requests) \/ s \in served \/ s \in failed \/ s \in gone =>
              producer[s] \in {"pushed", "accepted"}
  BY DEF QueueInv, CountersAreExact, LogIsComplete

LEMMA ProducerOf ==
  ASSUME QueueInv, NEW r \in Requests, NEW place, producer' = [producer EXCEPT ![r] = place]
  PROVE  \A s \in Requests : producer'[s] = IF s = r THEN place ELSE producer[s]
  BY DEF QueueInv, TypeOK

LEMMA OutsideIsIdle ==
  ASSUME QueueInv, NEW r \in Requests, producer[r] = "idle"
  PROVE  FateOf(r) = "outside" /\ r \notin gone
  BY PlacesExclude DEF FateOf

(* Both modules count with the same definition.                                *)
LEMMA SameCardinality ==
  ASSUME NEW S PROVE Promise!Cardinality(S) = Cardinality(S)
  BY DEF Promise!Cardinality, Cardinality

(* One step of the code for each step of the promise.                          *)
LEMMA AcceptStep ==
  ASSUME QueueInv, NEW r \in Requests, Submit(r), ~IsFull
  PROVE  Promise!Accept(r)
  <1>1. /\ producer[r] = "idle" /\ requests' = Append(Kept, r)
        /\ producer' = [producer EXCEPT ![r] = "pushed"]
        /\ arrivals' = Append(arrivals, r) /\ ~closed /\ ~(Cardinality(Live) >= MaxDepth)
        /\ UNCHANGED <<closed, gone, served, failed>>
    BY DEF Submit, SetQueueDepth, Kept, IsFull
  <1>2. Range(requests') = (Range(requests) \ gone) \cup {r}
    <2>1. Kept \in Seq(Requests) /\ Range(Kept) = Range(requests) \ gone
      BY KeptProperties
    <2> QED BY <1>1, <2>1, AppendRange
  <1>3. \A s \in Requests : producer'[s] = IF s = r THEN "pushed" ELSE producer[s]
    BY <1>1, ProducerOf
  <1> DEFINE special == [s \in {r} |-> "waiting"]
  <1>4. ASSUME NEW s \in Requests PROVE FateOf(s)' = FateAfter(s, special)
    BY <1>1, <1>2, <1>3, PlacesExclude DEF FateOf, FateAfter
  <1>5. Promise!Settle(special)
    <2> HIDE DEF special
    <2> QED BY <1>4, SettlesAs
  <1>6. Cardinality(Promise!Present) < MaxDepth
    <2>1. Cardinality(Live) \in Nat
      BY KeptProperties
    <2>2. Cardinality(Live) < MaxDepth
      BY <1>1, <2>1, RequestQueueAssumption
    <2>3. Cardinality(Promise!Present) = Cardinality(Live)
      BY WaitingIsTheBuffer, LiveCountsThePresent
    <2> QED BY <2>2, <2>3
  <1>7. [s \in Requests |-> FateOf(s)][r] = "outside"
    BY <1>1, OutsideIsIdle
  <1> HIDE DEF special
  <1> QED BY <1>1, <1>5, <1>6, <1>7, SameCardinality DEF Promise!Accept, special

LEMMA RejectStep ==
  ASSUME QueueInv, NEW r \in Requests, Submit(r), IsFull
  PROVE  Promise!Reject(r)
  <1>1. /\ producer[r] = "idle" /\ requests' = Kept
        /\ producer' = [producer EXCEPT ![r] = "refused"]
        /\ closed \/ Cardinality(Live) >= MaxDepth
        /\ UNCHANGED <<closed, gone, served, failed, arrivals>>
    BY DEF Submit, SetQueueDepth, Kept, IsFull
  <1>2. Range(requests') = Range(requests) \ gone
    BY <1>1, KeptProperties
  <1>3. \A s \in Requests : producer'[s] = IF s = r THEN "refused" ELSE producer[s]
    BY <1>1, ProducerOf
  <1> DEFINE special == [s \in {r} |-> "rejected"]
  <1>4. ASSUME NEW s \in Requests PROVE FateOf(s)' = FateAfter(s, special)
    BY <1>1, <1>2, <1>3, PlacesExclude DEF FateOf, FateAfter
  <1>5. Promise!Settle(special)
    <2> HIDE DEF special
    <2> QED BY <1>4, SettlesAs
  <1>6. ~closed => Cardinality(Promise!Present) >= MaxDepth
    BY <1>1, WaitingIsTheBuffer, LiveCountsThePresent
  <1>7. [s \in Requests |-> FateOf(s)][r] = "outside"
    BY <1>1, OutsideIsIdle
  <1> HIDE DEF special
  <1> QED BY <1>1, <1>5, <1>6, <1>7, SameCardinality DEF Promise!Reject, special

LEMMA ServeStep ==
  ASSUME QueueInv, TryPop
  PROVE  \E r \in Requests : Promise!Serve(r)
  <1>1. PICK best \in Live :
           /\ IsBest(best) /\ requests' = EntriesAt(Live \ {best})
           /\ served' = served \cup {requests[best]}
    BY DEF TryPop
  <1>2. UNCHANGED <<closed, producer, gone, failed, arrivals>>
    BY DEF TryPop
  <1> DEFINE r == requests[best]
  <1>3. Range(requests') = (Range(requests) \ gone) \ {r} /\ r \in Range(requests) \ gone
    BY <1>1, PopProperties
  <1>4. r \in Requests
    BY <1>3, BufferHasNoDuplicates
  <1> DEFINE special == [s \in {r} |-> "served"]
  <1>5. ASSUME NEW s \in Requests PROVE FateOf(s)' = FateAfter(s, special)
    <2> HIDE DEF r
    <2> QED BY <1>1, <1>2, <1>3, PlacesExclude DEF FateOf, FateAfter, r
  <1>6. Promise!Settle(special)
    <2> HIDE DEF special
    <2> QED BY <1>5, SettlesAs
  <1>7. ASSUME NEW other \in (Range(requests) \ gone) \ {r}
        PROVE  \/ Priority[other] < Priority[r]
               \/ Priority[other] = Priority[r] /\ Before(r, other)
    <2>1. PICK i \in DOMAIN requests : requests[i] = other
      BY DEF Range
    <2>2. i \in Live /\ i # best
      BY <2>1, <1>7 DEF Live
    <2>3. \/ Priority[other] < Priority[r]
          \/ Priority[other] = Priority[r] /\ best <= i
      BY <1>1, <2>1, <2>2 DEF IsBest
    <2>4. best <= i => Before(r, other)
      <3>1. best \in DOMAIN requests /\ best \in Nat /\ i \in Nat
        BY BufferHasNoDuplicates DEF Live
      <3>2. best <= i => best < i
        BY <2>2, <3>1
      <3> QED BY <2>1, <3>1, <3>2 DEF QueueInv, BufferIsOrdered
    <2> QED BY <2>3, <2>4
  <1> HIDE DEF r, special
  <1>8. Promise!Present = Range(requests) \ gone
    BY WaitingIsTheBuffer
  <1>9. Promise!Serve(r)
    BY <1>2, <1>3, <1>6, <1>7, <1>8 DEF Promise!Serve, Promise!Older, Before, special
  <1> QED BY <1>4, <1>9

LEMMA FindNobodyStep ==
  ASSUME QueueInv, TryPopNone
  PROVE  Promise!FindNobody
  <1>1. /\ Live = {} /\ requests' = <<>>
        /\ UNCHANGED <<closed, producer, gone, served, failed, arrivals>>
    BY DEF TryPopNone
  <1>2. Range(requests) \ gone = {} /\ Range(requests') = {}
    BY <1>1, EmptyBuffer DEF Live, Range
  <1>3. ASSUME NEW s \in Requests PROVE FateOf(s)' = FateAfter(s, <<>>)
    BY <1>1, <1>2, EmptyBuffer, PlacesExclude DEF FateOf, FateAfter
  <1>4. Promise!Settle(<<>>)
    BY <1>3, SettlesAs
  <1> QED BY <1>1, <1>2, <1>4, WaitingIsTheBuffer DEF Promise!FindNobody

LEMMA ShutStep ==
  ASSUME QueueInv, CloseAndDrain
  PROVE  Promise!Shut
  <1>1. /\ closed' = TRUE /\ requests' = <<>> /\ failed' = failed \cup Range(requests)
        /\ UNCHANGED <<producer, gone, served, arrivals>>
    BY DEF CloseAndDrain
  <1>2. Range(requests') = {}
    BY <1>1, EmptyBuffer
  <1> DEFINE special == [s \in Range(requests) |-> "failed"]
  <1>3. ASSUME NEW s \in Requests PROVE FateOf(s)' = FateAfter(s, special)
    BY <1>1, <1>2, PlacesExclude DEF FateOf, FateAfter
  <1>4. Promise!Settle(special)
    <2> HIDE DEF special
    <2> QED BY <1>3, SettlesAs
  <1> QED BY <1>1, <1>4, WaitingIsTheBuffer DEF Promise!Shut

LEMMA LeaveStep ==
  ASSUME NEW r \in Requests, Leave(r)
  PROVE  Promise!Leave(r)
  BY DEF Leave, Promise!Leave, FateOf

(* The other steps change nothing the promise speaks of.                       *)
LEMMA QuietStep ==
  ASSUME QueueInv, UNCHANGED <<requests, closed, gone, served, failed, arrivals>>,
         \A s \in Requests : \/ producer'[s] = producer[s]
                             \/ producer[s] = "pushed" /\ producer'[s] = "accepted"
  PROVE  UNCHANGED Promise!promise
  <1>1. \A s \in Requests : FateOf(s)' = FateOf(s)
    BY DEF FateOf
  <1> QED BY <1>1 DEF Promise!promise

LEMMA PromiseStep == QueueInv /\ [Next]_vars => [Promise!Next]_(Promise!promise)
  <1> SUFFICES ASSUME QueueInv, [Next]_vars PROVE Promise!Next \/ UNCHANGED Promise!promise
    OBVIOUS
  <1>1. CASE UNCHANGED vars
    BY <1>1, QuietStep DEF vars
  <1>2. CASE LoopStep
    <2>1. CASE StartAdmission \/ StopAdmission \/ GoIdle \/ LookNonempty
      BY <2>1, QuietStep DEF StartAdmission, StopAdmission, GoIdle, LookNonempty, GoTo
    <2>2. CASE Decode \/ WakeUp
      BY <2>2, QuietStep DEF Decode, WakeUp
    <2>3. CASE TryPop
      BY <2>3, ServeStep DEF Promise!Next
    <2>4. CASE TryPopNone
      BY <2>4, FindNobodyStep DEF Promise!Next
    <2> QED BY <1>2, <2>1, <2>2, <2>3, <2>4 DEF LoopStep
  <1>3. CASE CloseAndDrain
    BY <1>3, ShutStep DEF Promise!Next
  <1>4. ASSUME NEW r \in Requests, Submit(r)
        PROVE  Promise!Next
    BY <1>4, AcceptStep, RejectStep DEF Promise!Next
  <1>5. ASSUME NEW r \in Requests, NotifyOne(r)
        PROVE  UNCHANGED Promise!promise
    <2>1. /\ producer[r] = "pushed" /\ producer' = [producer EXCEPT ![r] = "accepted"]
          /\ UNCHANGED <<requests, closed, gone, served, failed, arrivals>>
      BY <1>5 DEF NotifyOne
    <2>2. \A s \in Requests : producer'[s] = IF s = r THEN "accepted" ELSE producer[s]
      BY <2>1, ProducerOf
    <2> QED BY <2>1, <2>2, QuietStep
  <1>6. ASSUME NEW r \in Requests, Leave(r)
        PROVE  Promise!Next
    BY <1>6, LeaveStep DEF Promise!Next
  <1> QED BY <1>1, <1>2, <1>3, <1>4, <1>5, <1>6 DEF Next

LEMMA PromiseInit == Init => Promise!Init
  <1> SUFFICES ASSUME Init PROVE Promise!Init
    OBVIOUS
  <1>1. \A r \in Requests : FateOf(r) = "outside"
    BY EmptyBuffer DEF Init, FateOf
  <1> QED BY <1>1 DEF Init, Promise!Init

(* The queue of scheduler.rs implements the priority queue: whatever is served *)
(* is the oldest of the most important requests that still have a client, only *)
(* a full or closed queue turns anybody away, and nobody is lost or has two    *)
(* fates.                                                                      *)
THEOREM QueueKeepsItsPromise == Spec => ImplementsPriorityQueue
  <1>1. Spec => Promise!Init /\ [][Promise!Next]_(Promise!promise)
    BY PromiseInit, PromiseStep, QueueInvariant, PTL DEF Spec
  <1> QED BY <1>1 DEF ImplementsPriorityQueue, Promise!Spec
=============================================================================
