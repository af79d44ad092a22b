-------------------------- MODULE SlabKvCacheProofs --------------------------
(* What SlabKvCache promises for every number of slots, tokens, layers and     *)
(* generations.  GenerationsAreFresh strengthens the type invariant enough for *)
(* the lease abstraction to follow; SlotPartition is inductive together with   *)
(* the type invariant.                                                         *)
EXTENDS SlabKvCache, SequenceTheorems, TLAPS

(* A handle that is in force after a release was in force before it, and the   *)
(* slot it sat in is the one that disappears from the map.                     *)
LEMMA ReturnedSlot ==
  ASSUME TypeOK, NEW h \in issued, IsCurrentHandle(h), ReturnSlot(h)
  PROVE  /\ DOMAIN allocated' = DOMAIN allocated \ {h.slot}
         /\ \A s \in DOMAIN allocated' : allocated'[s] = allocated[s]
  BY DEF ReturnSlot, Restrict

(* allocate() leases the head slot, which no live handle occupies.             *)
LEMMA HeadIsFree ==
  ASSUME TypeOK, SlotPartition, freeSlots # <<>>
  PROVE  /\ Head(freeSlots) \in Slots \ DOMAIN allocated
         /\ Tail(freeSlots) \in Seq(Slots)
         /\ IsInjective(Tail(freeSlots))
         /\ Range(Tail(freeSlots)) = Range(freeSlots) \ {Head(freeSlots)}
  <1>1. Len(freeSlots) \in Nat \ {0} /\ DOMAIN freeSlots = 1 .. Len(freeSlots)
    BY EmptySeq DEF TypeOK
  <1>2. Head(freeSlots) = freeSlots[1]
    BY DEF TypeOK
  <1>3. /\ Tail(freeSlots) \in Seq(Slots)
        /\ DOMAIN Tail(freeSlots) = 1 .. Len(freeSlots) - 1
        /\ \A i \in 1 .. Len(freeSlots) - 1 : Tail(freeSlots)[i] = freeSlots[i + 1]
    BY <1>1 DEF TypeOK
  <1>4. IsInjective(Tail(freeSlots))
    BY <1>1, <1>3 DEF SlotPartition, IsInjective
  <1>5. Range(Tail(freeSlots)) = Range(freeSlots) \ {Head(freeSlots)}
    <2>1. ASSUME NEW x \in Range(Tail(freeSlots))
          PROVE  x \in Range(freeSlots) \ {Head(freeSlots)}
      <3>1. PICK i \in 1 .. Len(freeSlots) - 1 : x = freeSlots[i + 1]
        BY <1>3, <2>1 DEF Range
      <3>2. i + 1 \in DOMAIN freeSlots /\ 1 \in DOMAIN freeSlots /\ i + 1 # 1
        BY <1>1
      <3> QED BY <1>2, <3>1, <3>2 DEF SlotPartition, IsInjective, Range
    <2>2. ASSUME NEW x \in Range(freeSlots), x # Head(freeSlots)
          PROVE  x \in Range(Tail(freeSlots))
      <3>1. PICK i \in 1 .. Len(freeSlots) : x = freeSlots[i]
        BY <1>1, <2>2 DEF Range
      <3>2. i - 1 \in 1 .. Len(freeSlots) - 1 /\ Tail(freeSlots)[i - 1] = x
        BY <1>1, <1>2, <1>3, <2>2, <3>1
      <3> QED BY <1>3, <3>2 DEF Range
    <2> QED BY <2>1, <2>2
  <1>6. Head(freeSlots) \in Range(freeSlots)
    BY <1>1, <1>2 DEF Range
  <1> QED BY <1>3, <1>4, <1>5, <1>6 DEF SlotPartition

-----------------------------------------------------------------------------
(* The invariant the theorems rest on.                                         *)
SlabInv == TypeOK /\ SlotPartition /\ GenerationsAreFresh

LEMMA SlabInit == Init => SlabInv
  <1> SUFFICES ASSUME Init PROVE SlabInv
    OBVIOUS
  <1> USE SlabAssumption
  <1>1. freeSlots \in Seq(Slots)
    BY DEF Init, Slots
  <1>2. TypeOK
    BY <1>1 DEF Init, TypeOK, Slots, Layers
  <1>3. SlotPartition
    <2>1. DOMAIN freeSlots = 1 .. MaxSeqs
      BY DEF Init
    <2>2. IsInjective(freeSlots)
      BY <2>1 DEF Init, IsInjective
    <2>3. ASSUME NEW s \in Slots PROVE s \in Range(freeSlots)
      <3>1. s + 1 \in DOMAIN freeSlots /\ freeSlots[s + 1] = s
        BY <2>1 DEF Init, Slots
      <3> QED BY <3>1 DEF Range
    <2>4. ASSUME NEW s \in Range(freeSlots) PROVE s \in Slots
      BY <2>1 DEF Range, Init, Slots
    <2> QED BY <2>2, <2>3, <2>4 DEF SlotPartition, Init
  <1>4. GenerationsAreFresh
    BY DEF Init, GenerationsAreFresh, Range
  <1> QED BY <1>2, <1>3, <1>4 DEF SlabInv

(* The handle an allocation returns is well formed, sits in a free slot and is *)
(* newer than every handle issued for that slot: no wraparound happens below   *)
(* the explored bound, which is itself below 2^64.                             *)
LEMMA FreshHandle ==
  ASSUME SlabInv, NEW p \in Nat, NEW m \in Nat,
         HasRoomFor(p, m), nextGen[Head(freeSlots)] < MaxGeneration
  PROVE  LET h == NextHandle(p, m)
         IN  /\ h \in KvHandle
             /\ h.slot = Head(freeSlots)
             /\ h.slot \in Slots \ DOMAIN allocated
             /\ h.gen = nextGen[h.slot] + 1
             /\ h.gen \in 0 .. MaxGeneration
             /\ h \notin issued
  <1> DEFINE slot == Head(freeSlots)
  <1>1. slot \in Slots \ DOMAIN allocated
    BY HeadIsFree DEF SlabInv, HasRoomFor
  <1>2. nextGen[slot] \in 0 .. MaxGeneration /\ nextGen[slot] + 1 < GenWidth
    BY <1>1, SlabAssumption DEF SlabInv, TypeOK
  <1>3. (nextGen[slot] + 1) % GenWidth = nextGen[slot] + 1
    BY <1>2, SlabAssumption
  <1>4. p + m \in 0 .. MaxSeqLen
    BY SlabAssumption DEF HasRoomFor
  <1>5. \A h \in issued : h.slot = slot => h.gen <= nextGen[slot]
    BY DEF SlabInv, GenerationsAreFresh
  <1> QED
    BY <1>1, <1>2, <1>3, <1>4, <1>5, SlabAssumption DEF NextHandle, KvHandle

LEMMA AllocateKeepsInv ==
  ASSUME SlabInv, NEW p \in 1 .. MaxSeqLen, NEW m \in 1 .. MaxSeqLen, Allocate(p, m)
  PROVE  SlabInv'
  <1> DEFINE h == NextHandle(p, m)
  <1>1. /\ p \in Nat /\ m \in Nat
        /\ HasRoomFor(p, m) /\ nextGen[Head(freeSlots)] < MaxGeneration
        /\ Record(h)
    BY SlabAssumption DEF Allocate
  <1>2. /\ h \in KvHandle
        /\ h.slot = Head(freeSlots)
        /\ h.slot \in Slots \ DOMAIN allocated
        /\ h.gen = nextGen[h.slot] + 1
        /\ h.gen \in 0 .. MaxGeneration
    BY <1>1, FreshHandle
  <1> HIDE DEF h
  <1>3. /\ freeSlots' \in Seq(Slots)
        /\ IsInjective(freeSlots')
        /\ Range(freeSlots') = Range(freeSlots) \ {h.slot}
    BY <1>1, <1>2, HeadIsFree DEF Record, HasRoomFor, SlabInv
  <1>4. /\ DOMAIN allocated' = DOMAIN allocated \cup {h.slot}
        /\ \A s \in DOMAIN allocated' :
             allocated'[s] = IF s = h.slot THEN h ELSE allocated[s]
    BY <1>1 DEF Record, Insert
  <1>5. /\ DOMAIN layers' = DOMAIN layers \cup {h.slot}
        /\ \A s \in DOMAIN layers' :
             layers'[s] = IF s = h.slot THEN [l \in Layers |-> NoContent] ELSE layers[s]
    BY <1>1 DEF Record, Insert
  <1>6. nextGen' = [nextGen EXCEPT ![h.slot] = h.gen] /\ issued' = issued \cup {h}
    BY <1>1 DEF Record
  <1>7. [l \in Layers |-> NoContent] \in [Layers -> Content]
    BY SlabAssumption DEF NoContent, Content
  <1>8. TypeOK'
    <2>1. \A s \in DOMAIN allocated' : allocated'[s] \in KvHandle /\ allocated'[s].slot = s
      BY <1>2, <1>4 DEF SlabInv, TypeOK
    <2>2. nextGen' \in [Slots -> 0 .. MaxGeneration]
      BY <1>2, <1>6 DEF SlabInv, TypeOK
    <2>3. \A s \in DOMAIN layers' : layers'[s] \in [Layers -> Content]
      BY <1>5, <1>7 DEF SlabInv, TypeOK
    <2>4. DOMAIN layers' = DOMAIN allocated' /\ DOMAIN allocated' \subseteq Slots
      BY <1>2, <1>4, <1>5 DEF SlabInv, TypeOK
    <2>5. issued' \subseteq KvHandle
      BY <1>2, <1>6 DEF SlabInv, TypeOK
    <2> QED BY <1>3, <2>1, <2>2, <2>3, <2>4, <2>5 DEF TypeOK
  <1>9. SlotPartition'
    BY <1>3, <1>4 DEF SlabInv, SlotPartition
  <1>10. GenerationsAreFresh'
    <2>1. Range(allocated') \subseteq Range(allocated) \cup {h}
      BY <1>4 DEF Range
    <2>2. \A g \in issued : g.slot \in Slots /\ g.gen \in Nat
      BY SlabAssumption DEF SlabInv, TypeOK, KvHandle
    <2>3. ASSUME NEW g \in issued' PROVE g.gen <= nextGen'[g.slot]
      <3>1. CASE g = h
        BY <3>1, <1>2, <1>6, SlabAssumption DEF SlabInv, TypeOK
      <3>2. CASE g \in issued
        <4>1. g.gen <= nextGen[g.slot] /\ nextGen[g.slot] \in Nat
          BY <3>2, <2>2 DEF SlabInv, GenerationsAreFresh, TypeOK
        <4>2. nextGen'[g.slot] = IF g.slot = h.slot THEN nextGen[g.slot] + 1 ELSE nextGen[g.slot]
          BY <1>2, <1>6, <2>2, <3>2 DEF SlabInv, TypeOK
        <4> QED BY <4>1, <4>2, <2>2, <3>2
      <3> QED BY <1>6, <3>1, <3>2
    <2> QED BY <1>6, <2>1, <2>3 DEF SlabInv, GenerationsAreFresh
  <1> QED BY <1>8, <1>9, <1>10 DEF SlabInv

LEMMA FreeKeepsInv ==
  ASSUME SlabInv, NEW h \in issued, Free(h)
  PROVE  SlabInv'
  <1> USE DEF SlabInv
  <1>1. /\ IsCurrentHandle(h) /\ ReturnSlot(h)
        /\ layers' = Restrict(layers, DOMAIN layers \ {h.slot})
        /\ h.slot \in DOMAIN allocated /\ h.slot \in Slots
    BY DEF Free, IsCurrentHandle, TypeOK
  <1>2. /\ DOMAIN allocated' = DOMAIN allocated \ {h.slot}
        /\ \A s \in DOMAIN allocated' : allocated'[s] = allocated[s]
    BY <1>1, ReturnedSlot
  <1>3. /\ DOMAIN layers' = DOMAIN layers \ {h.slot}
        /\ \A s \in DOMAIN layers' : layers'[s] = layers[s]
    BY <1>1 DEF Restrict
  <1>4. freeSlots' = Append(freeSlots, h.slot) /\ nextGen' = nextGen /\ issued' = issued
    BY <1>1 DEF ReturnSlot
  <1>5. TypeOK'
    <2>1. freeSlots' \in Seq(Slots)
      BY <1>1, <1>4, AppendProperties DEF TypeOK
    <2> QED BY <1>2, <1>3, <1>4, <2>1 DEF TypeOK
  <1>6. SlotPartition'
    <2> DEFINE n == Len(freeSlots)
    <2>1. /\ n \in Nat /\ DOMAIN freeSlots = 1 .. n /\ DOMAIN freeSlots' = 1 .. n + 1
          /\ \A i \in 1 .. n : freeSlots'[i] = freeSlots[i]
          /\ freeSlots'[n + 1] = h.slot
      BY <1>1, <1>4, AppendProperties DEF TypeOK
    <2> HIDE DEF n
    <2>2. \A i \in 1 .. n : freeSlots[i] # h.slot
      BY <1>1, <2>1 DEF SlotPartition, Range
    <2>3. IsInjective(freeSlots')
      BY <2>1, <2>2 DEF SlotPartition, IsInjective
    <2>4. Range(freeSlots') = Range(freeSlots) \cup {h.slot}
      <3>1. ASSUME NEW x \in Range(freeSlots') PROVE x \in Range(freeSlots) \cup {h.slot}
        <4>1. PICK i \in 1 .. n + 1 : x = freeSlots'[i]
          BY <2>1, <3>1 DEF Range
        <4>2. CASE i \in 1 .. n
          BY <2>1, <4>1, <4>2 DEF Range
        <4>3. CASE i = n + 1
          BY <2>1, <4>1, <4>3
        <4> QED BY <2>1, <4>1, <4>2, <4>3
      <3>2. ASSUME NEW x \in Range(freeSlots) PROVE x \in Range(freeSlots')
        <4>1. PICK i \in 1 .. n : x = freeSlots[i]
          BY <2>1, <3>2 DEF Range
        <4>2. i \in 1 .. n + 1 /\ freeSlots'[i] = x
          BY <2>1, <4>1
        <4> QED BY <2>1, <4>2 DEF Range
      <3>3. h.slot \in Range(freeSlots')
        <4>1. n + 1 \in DOMAIN freeSlots'
          BY <2>1
        <4> QED BY <2>1, <4>1 DEF Range
      <3> QED BY <3>1, <3>2, <3>3
    <2> QED BY <1>1, <1>2, <2>3, <2>4 DEF SlotPartition
  <1>7. GenerationsAreFresh'
    BY <1>2, <1>4 DEF GenerationsAreFresh, Range
  <1> QED BY <1>5, <1>6, <1>7

LEMMA WriteKeepsInv ==
  ASSUME SlabInv, NEW h \in issued, NEW l \in Layers, NEW n \in 0 .. MaxSeqLen,
         Write(h, l, n)
  PROVE  SlabInv'
  <1> USE DEF SlabInv
  <1>1. h \in KvHandle /\ h.slot \in DOMAIN layers
    BY DEF Write, IsCurrentHandle, TypeOK
  <1>2. [writer |-> {h}, tokens |-> n] \in Content
    BY <1>1 DEF Content
  <1>3. /\ DOMAIN layers' = DOMAIN layers
        /\ \A s \in DOMAIN layers' : layers'[s] \in [Layers -> Content]
    BY <1>1, <1>2 DEF Write, Store, TypeOK
  <1>4. UNCHANGED <<freeSlots, allocated, nextGen, issued>>
    BY DEF Write, Store
  <1> QED BY <1>3, <1>4 DEF TypeOK, SlotPartition, GenerationsAreFresh

LEMMA SlabStep == SlabInv /\ [Next]_vars => SlabInv'
  <1> SUFFICES ASSUME SlabInv, [Next]_vars PROVE SlabInv'
    OBVIOUS
  <1>1. ASSUME NEW p \in 1 .. MaxSeqLen, NEW m \in 1 .. MaxSeqLen, Allocate(p, m)
        PROVE  SlabInv'
    BY <1>1, AllocateKeepsInv
  <1>2. ASSUME NEW h \in issued, Free(h) PROVE SlabInv'
    BY <1>2, FreeKeepsInv
  <1>3. ASSUME NEW h \in issued, NEW l \in Layers, NEW n \in 0 .. MaxSeqLen,
               Write(h, l, n)
        PROVE  SlabInv'
    BY <1>3, WriteKeepsInv
  <1>4. CASE UNCHANGED vars
    BY <1>4 DEF SlabInv, TypeOK, SlotPartition, GenerationsAreFresh, vars
  <1> QED BY <1>1, <1>2, <1>3, <1>4 DEF Next

(* Types, the partition of the slots and the freshness of the generations hold *)
(* in every reachable state of the pool.                                       *)
THEOREM SlabInvariant == Spec => []SlabInv
  BY SlabInit, SlabStep, PTL DEF Spec

(* Every slot is free once or leased, for any number of slots and any order of *)
(* allocations, frees and stale frees.                                         *)
THEOREM SlotsArePartitioned == Spec => []SlotPartition
  <1>1. SlabInv => SlotPartition
    BY DEF SlabInv
  <1> QED BY <1>1, SlabInvariant, PTL

(* A released handle can never become current again.                           *)
THEOREM StaleHandlesStayStale == Spec => StaleStaysStale
  <1>1. ASSUME SlabInv, [Next]_vars
        PROVE  [\A h \in issued : ~IsCurrentHandle(h) => ~IsCurrentHandle(h)']_vars
    <2> SUFFICES ASSUME NEW h \in issued, ~IsCurrentHandle(h), IsCurrentHandle(h)'
                 PROVE  vars' = vars
      OBVIOUS
    <2>1. ASSUME NEW p \in 1 .. MaxSeqLen, NEW m \in 1 .. MaxSeqLen, Allocate(p, m)
          PROVE  FALSE
      <3>1. p \in Nat /\ m \in Nat
        BY SlabAssumption
      <3>2. NextHandle(p, m) \notin issued
        BY <1>1, <2>1, <3>1, FreshHandle DEF Allocate
      <3> QED BY <2>1, <3>2 DEF Allocate, Record, Insert, IsCurrentHandle
    <2>2. ASSUME NEW g \in issued, Free(g) PROVE FALSE
      BY <1>1, <2>2, ReturnedSlot DEF Free, IsCurrentHandle, SlabInv
    <2>3. ASSUME NEW g \in issued, NEW l \in Layers, NEW n \in 0 .. MaxSeqLen,
                 Write(g, l, n)
          PROVE  FALSE
      BY <2>3 DEF Write, Store, IsCurrentHandle
    <2> QED BY <1>1, <2>1, <2>2, <2>3 DEF Next
  <1> QED BY <1>1, SlabInvariant, PTL DEF Spec, StaleStaysStale

-----------------------------------------------------------------------------
(* Storage holds what its current tenant wrote and nothing else.               *)
LEMMA ContentStep ==
  ASSUME SlabInv, NoForeignContent, [Next]_vars
  PROVE  NoForeignContent'
  <1> USE DEF SlabInv
  <1>1. ASSUME NEW p \in 1 .. MaxSeqLen, NEW m \in 1 .. MaxSeqLen, Allocate(p, m),
               NEW g \in Range(allocated'), NEW l \in Layers
        PROVE  /\ Read(g, l)'.writer \subseteq {g}
               /\ Read(g, l)'.tokens <= g.cap
               /\ Read(g, l)'.writer = {} => Read(g, l)'.tokens = 0
    <2> DEFINE h == NextHandle(p, m)
    <2>1. h \in KvHandle /\ h.slot \notin DOMAIN allocated /\ Record(h)
      BY <1>1, FreshHandle, SlabAssumption DEF Allocate
    <2> HIDE DEF h
    <2>2. PICK s \in DOMAIN allocated \cup {h.slot} : g = allocated'[s]
      BY <2>1 DEF Record, Insert, Range
    <2>3. CASE s = h.slot
      <3>1. g = h
        BY <2>1, <2>2, <2>3 DEF Record, Insert
      <3>2. layers'[h.slot][l] = NoContent
        BY <2>1 DEF Record, Insert
      <3>3. g.cap \in Nat
        BY <2>1, <3>1, SlabAssumption DEF KvHandle
      <3> QED BY <3>1, <3>2, <3>3 DEF Read, NoContent
    <2>4. CASE s # h.slot
      <3>1. g = allocated[s] /\ s \in DOMAIN allocated /\ g.slot = s /\ g \in Range(allocated)
        BY <2>1, <2>2, <2>4 DEF Record, Insert, TypeOK, Range
      <3>2. layers'[g.slot] = layers[g.slot]
        BY <2>1, <2>4, <3>1 DEF Record, Insert, TypeOK
      <3> QED BY <3>1, <3>2 DEF NoForeignContent, Read
    <2> QED BY <2>3, <2>4
  <1>2. ASSUME NEW h \in issued, Free(h)
        PROVE  NoForeignContent'
    <2>1. /\ DOMAIN allocated' = DOMAIN allocated \ {h.slot}
          /\ \A s \in DOMAIN allocated' : allocated'[s] = allocated[s]
      BY <1>2, ReturnedSlot DEF Free
    <2>2. \A s \in DOMAIN allocated' : layers'[s] = layers[s]
      BY <1>2, <2>1 DEF Free, Restrict, TypeOK
    <2>3. ASSUME NEW g \in Range(allocated')
          PROVE  g \in Range(allocated) /\ layers'[g.slot] = layers[g.slot]
      <3>1. PICK s \in DOMAIN allocated' : g = allocated'[s]
        BY DEF Range
      <3> QED BY <2>1, <2>2, <3>1 DEF TypeOK, Range
    <2> QED BY <2>3 DEF NoForeignContent, Read
  <1>3. ASSUME NEW h \in issued, NEW l \in Layers, NEW n \in 0 .. MaxSeqLen,
               Write(h, l, n), NEW g \in Range(allocated'), NEW k \in Layers
        PROVE  /\ Read(g, k)'.writer \subseteq {g}
               /\ Read(g, k)'.tokens <= g.cap
               /\ Read(g, k)'.writer = {} => Read(g, k)'.tokens = 0
    <2>1. g \in Range(allocated) /\ h.slot \in DOMAIN layers /\ h = allocated[h.slot]
      BY <1>3 DEF Write, Store, IsCurrentHandle, TypeOK
    <2>2. PICK s \in DOMAIN allocated : g = allocated[s]
      BY <2>1 DEF Range
    <2>3. g.slot = s /\ s \in DOMAIN layers /\ layers[s] \in [Layers -> Content]
      BY <2>2 DEF TypeOK
    <2>4. CASE g = h /\ k = l
      <3>1. layers'[g.slot][k] = [writer |-> {h}, tokens |-> n]
        BY <1>3, <2>1, <2>3, <2>4 DEF Write, Store, TypeOK
      <3> QED BY <1>3, <2>4, <3>1 DEF Read, Write
    <2>5. CASE ~ (g = h /\ k = l)
      <3>1. g.slot # h.slot \/ k # l
        BY <2>1, <2>2, <2>3, <2>5
      <3>2. layers'[g.slot][k] = layers[g.slot][k]
        BY <1>3, <2>1, <2>3, <3>1 DEF Write, Store, TypeOK
      <3> QED BY <2>1, <3>2 DEF NoForeignContent, Read
    <2> QED BY <2>4, <2>5
  <1>4. CASE UNCHANGED vars
    BY <1>4 DEF NoForeignContent, Read, vars
  <1> QED BY <1>1, <1>2, <1>3, <1>4 DEF Next, NoForeignContent

(* A sequence reads back only what it wrote through its own handle.            *)
THEOREM ContentIsOwn == Spec => []NoForeignContent
  <1>1. Init => NoForeignContent
    BY DEF Init, NoForeignContent, Range
  <1> QED BY <1>1, ContentStep, SlabInvariant, PTL DEF Spec

(* The slab implements the lease abstraction: an allocation acquires a lease   *)
(* never handed out before on a slot nobody holds, a free of a current handle  *)
(* releases one, and everything else is invisible to the holders.              *)
THEOREM SlabImplementsSlotLease == Spec => ImplementsSlotLease
  <1>1. Init => Lease!Init
    BY DEF Init, Lease!Init, Range
  <1>2. ASSUME SlabInv, [Next]_vars PROVE [Lease!Next]_(Lease!vars)
    <2> USE <1>2 DEF SlabInv
    <2>1. ASSUME NEW p \in 1 .. MaxSeqLen, NEW m \in 1 .. MaxSeqLen, Allocate(p, m)
          PROVE  Lease!Next
      <3> DEFINE h == NextHandle(p, m)
      <3>1. h \in KvHandle /\ h.slot \notin DOMAIN allocated /\ h \notin issued /\ Record(h)
        BY <2>1, FreshHandle, SlabAssumption DEF Allocate
      <3> HIDE DEF h
      <3>2. \A g \in Range(allocated) : g.slot # h.slot
        BY <3>1 DEF TypeOK, Range
      <3>3. Range(allocated') = Range(allocated) \cup {h}
        BY <3>1 DEF Record, Insert, Range
      <3>4. issued' = issued \cup {h}
        BY <3>1 DEF Record
      <3>5. Lease!Acquire(h)
        BY <3>1, <3>2, <3>3, <3>4 DEF Lease!Acquire
      <3> QED BY <3>1, <3>5 DEF Lease!Next
    <2>2. ASSUME NEW h \in issued, Free(h) PROVE Lease!Next
      <3>1. /\ DOMAIN allocated' = DOMAIN allocated \ {h.slot}
            /\ \A s \in DOMAIN allocated' : allocated'[s] = allocated[s]
        BY <2>2, ReturnedSlot DEF Free
      <3>2. h \in Range(allocated) /\ h \in KvHandle /\ h = allocated[h.slot]
        BY <2>2 DEF Free, IsCurrentHandle, TypeOK, Range
      <3>3. Range(allocated') = Range(allocated) \ {h}
        <4>1. ASSUME NEW g \in Range(allocated') PROVE g \in Range(allocated) \ {h}
          BY <3>1 DEF TypeOK, Range
        <4>2. ASSUME NEW g \in Range(allocated), g # h PROVE g \in Range(allocated')
          <5>1. PICK s \in DOMAIN allocated : g = allocated[s]
            BY <4>2 DEF Range
          <5>2. s \in DOMAIN allocated' /\ allocated'[s] = g
            BY <3>1, <3>2, <4>2, <5>1
          <5> QED BY <5>2 DEF Range
        <4> QED BY <4>1, <4>2
      <3>4. Lease!Release(h)
        BY <2>2, <3>2, <3>3 DEF Free, ReturnSlot, Lease!Release
      <3> QED BY <3>2, <3>4 DEF Lease!Next
    <2>3. ASSUME NEW h \in issued, NEW l \in Layers, NEW n \in 0 .. MaxSeqLen,
                 Write(h, l, n)
          PROVE  UNCHANGED Lease!vars
      BY <2>3 DEF Write, Store, Lease!vars
    <2>4. CASE UNCHANGED vars
      BY <2>4 DEF vars, Lease!vars
    <2> QED BY <2>1, <2>2, <2>3, <2>4 DEF Next
  <1> QED BY <1>1, <1>2, SlabInvariant, PTL DEF Spec, ImplementsSlotLease, Lease!Spec
=============================================================================
