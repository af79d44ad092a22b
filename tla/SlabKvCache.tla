----------------------------- MODULE SlabKvCache -----------------------------
(* The slab KV pool of kv_cache.rs: a queue of free slots, the handle each     *)
(* allocated slot is leased under, the generation counter that tells successive*)
(* leases of a slot apart, and the per-layer storage.  Tensors are abstracted  *)
(* to who wrote them and how many tokens they hold.  Any handle ever issued    *)
(* may be presented again at any time, which is what a caller that keeps a     *)
(* clone of a KvHandle past free() does.                                       *)
EXTENDS Naturals, Sequences, Functions

CONSTANTS MaxSeqs,        \* slots of the slab
          MaxSeqLen,      \* tokens a slot may be asked to hold
          NumLayers,      \* model layers stored per slot
          GenWidth,       \* values of the u64 generation counter: 2^64
          MaxGeneration   \* bound: leases of one slot that are explored

ASSUME SlabAssumption ==
  /\ MaxSeqs \in Nat /\ MaxSeqLen \in Nat /\ NumLayers \in Nat
  /\ GenWidth \in Nat /\ MaxGeneration \in Nat
  /\ MaxGeneration < GenWidth

VARIABLES freeSlots,      \* free_slots: VecDeque<usize>
          allocated,      \* allocated: HashMap<usize, KvHandle>
          nextGen,        \* next_generations: Vec<u64>
          layers,         \* layers: HashMap<usize, Vec<Option<(Tensor, Tensor)>>>
          issued          \* history: every handle allocate() has returned

vars == <<freeSlots, allocated, nextGen, layers, issued>>

Slots  == 0 .. MaxSeqs - 1
Layers == 0 .. NumLayers - 1

KvHandle == [slot : Slots, cap : 0 .. MaxSeqLen, gen : 0 .. GenWidth - 1]

\* A layer's (k, v) pair: the handle it was written under and its token count.
Content   == [writer : SUBSET KvHandle, tokens : 0 .. MaxSeqLen]
NoContent == [writer |-> {}, tokens |-> 0]

Init ==
  /\ freeSlots = [i \in 1 .. MaxSeqs |-> i - 1]
  /\ allocated = [s \in {} |-> {}]
  /\ nextGen = [s \in Slots |-> 0]
  /\ layers = [s \in {} |-> {}]
  /\ issued = {}

IsCurrentHandle(h) == h.slot \in DOMAIN allocated /\ allocated[h.slot] = h

\* checked_add cannot matter: a sum that overflows usize exceeds max_seq_len.
HasRoomFor(promptLen, maxNew) ==
  promptLen + maxNew <= MaxSeqLen /\ freeSlots # <<>>

\* HashMap::insert.
Insert(f, key, value) ==
  [k \in DOMAIN f \cup {key} |-> IF k = key THEN value ELSE f[k]]

-----------------------------------------------------------------------------
\* The handle the next allocation returns; its twin forgets the increment.
NextHandleNoBump(promptLen, maxNew) ==
  LET slot == Head(freeSlots)
  IN  [slot |-> slot, cap |-> promptLen + maxNew, gen |-> nextGen[slot]]

NextHandle(promptLen, maxNew) ==
  LET slot == Head(freeSlots)
  IN  [slot |-> slot, cap |-> promptLen + maxNew,
       gen  |-> (nextGen[slot] + 1) % GenWidth]

\* The bookkeeping of a new lease.
Record(h) ==
  /\ freeSlots' = Tail(freeSlots)
  /\ nextGen' = [nextGen EXCEPT ![h.slot] = h.gen]
  /\ allocated' = Insert(allocated, h.slot, h)
  /\ layers' = Insert(layers, h.slot, [l \in Layers |-> NoContent])
  /\ issued' = issued \cup {h}

\* Without room allocate() returns an error and changes nothing.
Allocate(promptLen, maxNew) ==
  /\ HasRoomFor(promptLen, maxNew)
  /\ nextGen[Head(freeSlots)] < MaxGeneration
  /\ Record(NextHandle(promptLen, maxNew))

ReturnSlot(h) ==
  /\ allocated' = Restrict(allocated, DOMAIN allocated \ {h.slot})
  /\ freeSlots' = Append(freeSlots, h.slot)
  /\ UNCHANGED <<nextGen, issued>>

\* A stale handle is ignored; the twin frees under it.
FreeUnchecked(h) ==
  ReturnSlot(h) /\ layers' = Restrict(layers, DOMAIN layers \ {h.slot})

Free(h) ==
  /\ IsCurrentHandle(h)
  /\ ReturnSlot(h)
  /\ layers' = Restrict(layers, DOMAIN layers \ {h.slot})

Store(h, l, tokens) ==
  /\ layers' = [layers EXCEPT ![h.slot][l] = [writer |-> {h}, tokens |-> tokens]]
  /\ UNCHANGED <<freeSlots, allocated, nextGen, issued>>

\* A stale handle, a layer out of range and a tensor longer than the lease are
\* errors that leave the pool unchanged; the twin looks only at the slot.
WriteBySlot(h, l, tokens) ==
  h.slot \in DOMAIN layers /\ tokens <= h.cap /\ Store(h, l, tokens)

Write(h, l, tokens) ==
  IsCurrentHandle(h) /\ tokens <= h.cap /\ Store(h, l, tokens)

\* What read() returns under a current handle: an absent pair reads as 0 tokens.
Read(h, l) == layers[h.slot][l]

Next ==
  \/ \E p, m \in 1 .. MaxSeqLen : Allocate(p, m)
  \/ \E h \in issued :
       \/ Free(h)
       \/ \E l \in Layers, n \in 0 .. MaxSeqLen : Write(h, l, n)

Spec == Init /\ [][Next]_vars

-----------------------------------------------------------------------------
(* Type correctness of the pool's fields; a handle in force sits in its slot.  *)
TypeOK ==
  /\ freeSlots \in Seq(Slots)
  /\ DOMAIN allocated \subseteq Slots
  /\ \A s \in DOMAIN allocated : allocated[s] \in KvHandle /\ allocated[s].slot = s
  /\ nextGen \in [Slots -> 0 .. MaxGeneration]
  /\ DOMAIN layers = DOMAIN allocated
  /\ \A s \in DOMAIN layers : layers[s] \in [Layers -> Content]
  /\ issued \subseteq KvHandle

(* Every slot is either free exactly once or leased, never both and never      *)
(* neither, whatever order handles are freed in and however often: no double   *)
(* free puts a slot in free_slots twice (kv_cache.rs, free) and none leaks.    *)
SlotPartition ==
  /\ IsInjective(freeSlots)
  /\ Range(freeSlots) = Slots \ DOMAIN allocated

(* The leases in force were all issued, and no slot's counter is behind a      *)
(* generation it has issued; this is what makes a fresh handle fresh.          *)
GenerationsAreFresh ==
  /\ Range(allocated) \subseteq issued
  /\ \A h \in issued : h.gen <= nextGen[h.slot]

(* What a sequence reads through its handle is what it wrote itself through    *)
(* that handle, and fits the capacity it asked for: nothing of the slot's      *)
(* previous tenant is visible and no stale writer reaches the new tenant.      *)
NoForeignContent ==
  \A h \in Range(allocated), l \in Layers :
    /\ Read(h, l).writer \subseteq {h}
    /\ Read(h, l).tokens <= h.cap
    /\ Read(h, l).writer = {} => Read(h, l).tokens = 0

(* A handle that is not current never becomes current again: a clone kept past *)
(* free() can neither read, write nor free a later tenant of the slot.         *)
StaleStaysStale ==
  [][\A h \in issued : ~IsCurrentHandle(h) => ~IsCurrentHandle(h)']_vars

(* The slab implements the lease abstraction.                                  *)
Lease == INSTANCE SlotLease WITH
            Handle <- KvHandle, live <- Range(allocated), used <- issued

ImplementsSlotLease == Lease!Spec
=============================================================================
