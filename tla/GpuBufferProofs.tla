-------------------------- MODULE GpuBufferProofs --------------------------
(***************************************************************************)
(* What GpuBuffer guarantees for every number of objects, fragment size,   *)
(* number of handles and size of the address space.  The lemmas about the  *)
(* pool are those of VmPoolProofs.                                         *)
(***************************************************************************)
EXTENDS GpuBuffer, VmPoolProofs, FiniteSetTheorems, SequenceTheorems

Object ==
  [w : 1 .. MaxPages, alignment : Alignments, handle : Seq(1 .. MaxHandle), va : Seq(Nat)]

Mapping == [va : 0 .. VmPages, frag : Nat, pages : 1 .. FragPages]

Types ==
  /\ DOMAIN bos \subseteq Bo
  /\ bos \in [DOMAIN bos -> Object]
  /\ DOMAIN gem \subseteq 1 .. MaxHandle
  /\ gem \in [DOMAIN gem -> Mapping]
  /\ call \in [pc : {"idle", "create", "place", "map", "free", "close"}, b : Bo \cup {NullBo}]
  /\ call.pc # "idle" => call.b \in DOMAIN bos
  /\ status \in {"running", "crashed", "closed"}
  /\ draining \in BOOLEAN

-----------------------------------------------------------------------------
(* The inductive invariant.                                                *)

WorksOn(b, pcs) == call.b = b /\ call.pc \in pcs

\* b has no nodes in the pool, since the running function has not placed it
\* yet or does not place it any more.
Unplaced(b) ==
  WorksOn(b, {"create", "place", "close"}) \/ (WorksOn(b, {"free"}) /\ bos[b].va[1] = Unmapped)

\* An object has a handle and an address for each fragment, once it is created.
Complete ==
  \A b \in DOMAIN bos :
    /\ Len(bos[b].va) = Len(bos[b].handle)
    /\ IF WorksOn(b, {"create"}) THEN Len(bos[b].handle) < FragmentNum(bos[b].w)
                                 ELSE Len(bos[b].handle) = FragmentNum(bos[b].w)

\* Every handle an object knows is open and was made for that fragment.
HandlesOpen ==
  \A b \in DOMAIN bos : \A i \in DOMAIN bos[b].handle :
    /\ bos[b].handle[i] \in DOMAIN gem
    /\ gem[bos[b].handle[i]].frag = i - 1
    /\ gem[bos[b].handle[i]].pages = FragmentSize(bos[b].w, i - 1)

\* Nothing is mapped before it has an address.
NotYetMapped ==
  \A b \in DOMAIN bos : WorksOn(b, {"create", "place"}) =>
    \A i \in DOMAIN bos[b].handle : gem[bos[b].handle[i]].va = Unmapped

\* The node the pool should have for fragment i of b.
NodeOf(b, i) ==
  [va |-> bos[b].va[i], size |-> FragmentSize(bos[b].w, i - 1), parent |-> b, frag |-> i - 1]

\* A placed object has all its nodes, and its handles are mapped there; those
\* that compute_vm_map has not come to are not mapped at all.
PlacedWhereSaid ==
  \A b \in DOMAIN bos : ~Unplaced(b) =>
    \A i \in FragmentIndices(b) :
      /\ NodeOf(b, i) \in pool
      /\ \/ gem[bos[b].handle[i]].va = bos[b].va[i]
         \/ WorksOn(b, {"map"}) /\ gem[bos[b].handle[i]].va = Unmapped

\* The pool holds the nodes of the placed objects and of no others.
OnlyPlacedAreLive == Live = {b \in DOMAIN bos : ~Unplaced(b)}

RunningInv ==
  /\ PoolInv
  /\ Complete
  /\ HandlesOpen
  /\ NotYetMapped
  /\ PlacedWhereSaid
  /\ OnlyPlacedAreLive
  /\ OnlyTailsLeak

\* After a crash, and after the device was closed, only the shapes matter and
\* that no handle is shared.
BufferInv == Types /\ HandlesNotShared /\ (status = "running" => RunningInv)

-----------------------------------------------------------------------------
(* Fragments and handles.                                                  *)

\* A request of at least one page has a fragment, and each one is a non-empty
\* range of at most FragPages pages.
LEMMA FragmentShapes ==
  ASSUME NEW w \in 1 .. MaxPages
  PROVE  /\ w \in Nat \ {0}
         /\ FragmentNum(w) \in Nat \ {0}
         /\ \A i \in 1 .. FragmentNum(w) : FragmentSize(w, i - 1) \in 1 .. FragPages
<1>1. w \in Nat \ {0}
  BY MaxPagesAssumption
<1>2. FragmentNum(w) \in Nat \ {0}
  BY <1>1, FragmentNumBounds
<1>3. ASSUME NEW i \in 1 .. FragmentNum(w) PROVE FragmentSize(w, i - 1) \in 1 .. FragPages
  <2> DEFINE k == i - 1
  <2>1. k \in 0 .. FragmentNum(w) - 1
    BY <1>2
  <2>2. /\ FragmentSize(w, k) \in Nat \ {0} /\ k * FragPages \in Nat
        /\ k * FragPages + FragmentSize(w, k) <= (k + 1) * FragPages
    BY <1>1, <2>1, FragmentBounds
  <2>3. (k + 1) * FragPages = k * FragPages + FragPages
    BY <1>2, <2>1, FragPagesAssumption, SMTT(30)
  <2> HIDE DEF k
  <2>4. FragmentSize(w, k) \in 1 .. FragPages
    BY <2>2, <2>3, FragPagesAssumption
  <2> QED
    BY <2>4 DEF k
<1> QED
  BY <1>1, <1>2, <1>3

\* The kernel's choice of a handle is one that is not open.
LEMMA NextHandleIsFree ==
  ASSUME FreeHandles # {}
  PROVE  NextHandle \in FreeHandles
<1> DEFINE S == {n \in Nat : \A h \in FreeHandles : h > n}
<1>1. FreeHandles \subseteq Nat /\ \A h \in FreeHandles : h <= MaxHandle
  BY MaxHandleAssumption DEF FreeHandles
<1>2. SUFFICES ASSUME \A h \in FreeHandles : \E g \in FreeHandles : ~(h <= g) PROVE FALSE
  BY DEF NextHandle
<1>3. 0 \in S
  BY MaxHandleAssumption DEF FreeHandles
<1>4. ASSUME NEW n \in Nat, n \in S PROVE n + 1 \in S
  <2> SUFFICES ASSUME NEW h \in FreeHandles PROVE h > n + 1
    OBVIOUS
  <2>1. PICK g \in FreeHandles : ~(h <= g)
    BY <1>2
  <2>2. g > n
    BY <1>4
  <2> QED
    BY <1>1, <2>1, <2>2
<1> HIDE DEF S
<1>5. MaxHandle \in S
  BY <1>3, <1>4, SetInduction, MaxHandleAssumption
<1>6. PICK h \in FreeHandles : TRUE
  OBVIOUS
<1> QED
  BY <1>1, <1>5, <1>6, MaxHandleAssumption DEF S

\* The shapes of one object.
LEMMA ObjectShape ==
  ASSUME Types, NEW b \in DOMAIN bos
  PROVE  /\ b \in Bo
         /\ bos[b] \in Object
         /\ bos[b].w \in 1 .. MaxPages
         /\ FragmentNum(bos[b].w) \in Nat \ {0}
         /\ bos[b].handle \in Seq(1 .. MaxHandle) /\ bos[b].va \in Seq(Nat)
         /\ DOMAIN bos[b].handle = 1 .. Len(bos[b].handle) /\ Len(bos[b].handle) \in Nat
         /\ DOMAIN bos[b].va = 1 .. Len(bos[b].va) /\ Len(bos[b].va) \in Nat
<1>1. b \in Bo /\ bos[b] \in Object
  BY DEF Types
<1>2. bos[b].w \in 1 .. MaxPages /\ bos[b].handle \in Seq(1 .. MaxHandle) /\ bos[b].va \in Seq(Nat)
  BY <1>1 DEF Object
<1> QED
  BY <1>1, <1>2, FragmentShapes, LenProperties

\* An object that no call creates has a handle and an address per fragment.
LEMMA CompleteObject ==
  ASSUME Types, Complete, NEW b \in DOMAIN bos, ~WorksOn(b, {"create"})
  PROVE  /\ DOMAIN bos[b].handle = FragmentIndices(b)
         /\ DOMAIN bos[b].va = FragmentIndices(b)
         /\ 1 \in FragmentIndices(b)
BY ObjectShape DEF Complete, FragmentIndices

\* A placed object has an address.
LEMMA PlacedHasAddress ==
  ASSUME Types, RunningInv, NEW b \in DOMAIN bos, ~Unplaced(b), NEW i \in FragmentIndices(b)
  PROVE  bos[b].va[i] \in Nat /\ bos[b].va[i] > Reserved /\ bos[b].va[i] # Unmapped
<1>1. NodeOf(b, i) \in pool
  BY DEF RunningInv, PlacedWhereSaid
<1>2. NodeOf(b, i).va \in Nat /\ NodeOf(b, i).va > Reserved
  BY <1>1 DEF RunningInv, PoolInv, ListTypeOK, Node, AboveReserved
<1>3. NodeOf(b, i).va = bos[b].va[i]
  BY DEF NodeOf
<1> QED
  BY <1>2, <1>3, ReservedAssumption DEF Unmapped

-----------------------------------------------------------------------------
(* The steps that change only where the running function is.               *)

\* The state compute_create_context leaves, with no object yet, has every part of the invariant.
LEMMA InitEstablishes == Init => BufferInv
<1> SUFFICES ASSUME Init PROVE BufferInv
  OBVIOUS
<1>1. /\ pool = {} /\ headParent \in Residues /\ status = "running"
      /\ bos = <<>> /\ gem = <<>> /\ call = [pc |-> "idle", b |-> NullBo] /\ draining = FALSE
  BY DEF Init, PoolInit, Returned
<1>2. DOMAIN bos = {} /\ DOMAIN gem = {}
  <2>1. \A f : f = <<>> => DOMAIN f = {}
    OBVIOUS
  <2> QED
    BY <1>1, <2>1
<1>3. bos \in [DOMAIN bos -> Object] /\ gem \in [DOMAIN gem -> Mapping]
  BY <1>1, <1>2
<1>4. Types
  BY <1>1, <1>2, <1>3 DEF Types
<1>5. PoolInv
  BY <1>1, ResiduesAssumption DEF PoolInv, ListTypeOK, AboveReserved, Disjoint, List, WholeBlocks, Live
<1>6. Live = {}
  BY <1>1 DEF Live
<1> QED
  BY <1>2, <1>4, <1>5, <1>6
     DEF BufferInv, HandlesNotShared, RunningInv, Complete, HandlesOpen, NotYetMapped, PlacedWhereSaid,
         OnlyPlacedAreLive, OnlyTailsLeak

\* Between two calls every object is placed.
LEMMA IdleIsPlaced ==
  ASSUME call.pc = "idle"
  PROVE  \A b : ~Unplaced(b) /\ \A pcs : "idle" \notin pcs => ~WorksOn(b, pcs)
BY DEF Unplaced, WorksOn

\* A call that frees an object begins while the object is placed.
LEMMA FreeBegins ==
  ASSUME BufferInv, Running("idle"), NEW b \in DOMAIN bos, call' = [pc |-> "free", b |-> b],
         UNCHANGED <<pool, headParent, status, bos, gem, draining>>
  PROVE  BufferInv'
<1>1. status = "running" /\ call.pc = "idle" /\ Types /\ HandlesNotShared /\ RunningInv
  BY DEF Running, BufferInv
<1>2. UNCHANGED <<First, List, Live>>
  BY DEF First, List, Live
<1>3. PoolInv'
  BY <1>1, <1>2 DEF RunningInv, PoolInv, ListTypeOK, AboveReserved, Disjoint, WholeBlocks, NodesOf, Block
<1>4. Types' /\ HandlesNotShared' /\ OnlyTailsLeak'
  BY <1>1 DEF Types, HandlesNotShared, RunningInv, OnlyTailsLeak, OwnedHandles
<1>5. \A c : ~Unplaced(c)
  BY <1>1, IdleIsPlaced
<1>6. bos[b].va[1] # Unmapped
  <2>1. 1 \in FragmentIndices(b)
    BY <1>1, IdleIsPlaced, CompleteObject DEF RunningInv
  <2> QED
    BY <1>1, <1>5, <2>1, PlacedHasAddress
<1>7. \A c : ~Unplaced(c)'
  BY <1>6 DEF Unplaced, WorksOn
<1>8. Complete' /\ HandlesOpen' /\ NotYetMapped'
  BY <1>1, IdleIsPlaced DEF RunningInv, Complete, HandlesOpen, NotYetMapped, WorksOn
<1>9. PlacedWhereSaid'
  BY <1>1, <1>5, IdleIsPlaced DEF RunningInv, PlacedWhereSaid, FragmentIndices, NodeOf, WorksOn
<1>10. OnlyPlacedAreLive'
  BY <1>1, <1>2, <1>5, <1>7 DEF RunningInv, OnlyPlacedAreLive
<1> QED
  BY <1>3, <1>4, <1>8, <1>9, <1>10 DEF BufferInv, RunningInv

\* Nothing else is changed by a call of compute_free_gpu_buffer or a turn of the
\* loop of compute_free_context.
LEMMA BeginFreeKeepsInvariant ==
  ASSUME BufferInv, (\E b \in Bo : compute_free_gpu_buffer(b)) \/ DrainOne
  PROVE  BufferInv'
<1>1. CASE \E b \in Bo : compute_free_gpu_buffer(b)
  BY <1>1, FreeBegins DEF compute_free_gpu_buffer
<1>2. CASE DrainOne
  <2>1. PICK n \in pool : call' = [pc |-> "free", b |-> n.parent]
    BY <1>2 DEF DrainOne
  <2>2. n.parent \in Live /\ Running("idle") /\ UNCHANGED <<pool, headParent, status, bos, gem, draining>>
    BY <1>2 DEF Live, DrainOne
  <2>3. n.parent \in DOMAIN bos
    BY <2>2 DEF Running, BufferInv, RunningInv, OnlyPlacedAreLive
  <2> QED
    BY <2>1, <2>2, <2>3, FreeBegins
<1> QED
  BY <1>1, <1>2

\* compute_free_context begins, or nothing happens.
LEMMA UnchangedKeepsInvariant ==
  ASSUME BufferInv, UNCHANGED <<pool, headParent, status, bos, gem, call>>, draining' \in BOOLEAN
  PROVE  BufferInv'
<1>1. UNCHANGED <<First, List, Live>>
  BY DEF First, List, Live
<1>2. Types' /\ HandlesNotShared'
  BY DEF BufferInv, Types, HandlesNotShared
<1>3. ASSUME status' = "running" PROVE RunningInv'
  <2>1. RunningInv
    BY <1>3 DEF BufferInv
  <2>2. PoolInv'
    BY <1>1, <2>1 DEF RunningInv, PoolInv, ListTypeOK, AboveReserved, Disjoint, WholeBlocks, NodesOf, Block
  <2>3. Complete' /\ HandlesOpen' /\ NotYetMapped'
    BY <2>1 DEF RunningInv, Complete, HandlesOpen, NotYetMapped, WorksOn
  <2>4. PlacedWhereSaid' /\ OnlyPlacedAreLive' /\ OnlyTailsLeak'
    BY <1>1, <2>1 DEF RunningInv, PlacedWhereSaid, FragmentIndices, NodeOf, OnlyPlacedAreLive, Unplaced, WorksOn, OnlyTailsLeak,
                      OwnedHandles
  <2> QED
    BY <2>2, <2>3, <2>4 DEF RunningInv
<1> QED
  BY <1>2, <1>3 DEF BufferInv

\* A program that ends leaves no work to be done by the invariant.
LEMMA EndKeepsInvariant ==
  ASSUME BufferInv, GemCreateFails \/ CloseDevice
  PROVE  BufferInv'
<1>1. Types /\ HandlesNotShared
  BY DEF BufferInv
<1>2. /\ status' \in {"crashed", "closed"} /\ UNCHANGED <<bos, call, draining>>
      /\ gem' = gem \/ gem' = <<>>
  BY DEF GemCreateFails, CloseDevice
<1>3. DOMAIN gem' \subseteq 1 .. MaxHandle /\ gem' \in [DOMAIN gem' -> Mapping]
  <2>1. CASE gem' = gem
    BY <1>1, <2>1 DEF Types
  <2>2. CASE gem' = <<>>
    <3>1. \A f : f = <<>> => DOMAIN f = {} /\ f \in [{} -> Mapping]
      OBVIOUS
    <3> QED
      BY <2>2, <3>1
  <2> QED
    BY <1>2, <2>1, <2>2
<1> QED
  BY <1>1, <1>2, <1>3 DEF BufferInv, Types, HandlesNotShared

-----------------------------------------------------------------------------
(* compute_alloc_gpu_buffer.                                               *)

\* As long as the pool is not touched, neither is what is known of it.
LEMMA PoolUnchanged ==
  ASSUME PoolInv, UNCHANGED <<pool, headParent>>
  PROVE  PoolInv' /\ Live' = Live
<1>1. UNCHANGED <<First, List, Live>>
  BY DEF First, List, Live
<1> QED
  BY <1>1 DEF PoolInv, ListTypeOK, AboveReserved, Disjoint, WholeBlocks, NodesOf, Block

\* The new object has no handle yet, so that it can share none.
LEMMA BeginAllocKeepsInvariant ==
  ASSUME BufferInv, NEW b \in Bo, NEW w \in 1 .. MaxPages, NEW a \in Alignments,
         compute_alloc_gpu_buffer(b, w, a)
  PROVE  BufferInv'
<1> DEFINE object == [w |-> w, alignment |-> a, handle |-> <<>>, va |-> <<>>]
<1>1. /\ status = "running" /\ call.pc = "idle" /\ b \notin DOMAIN bos /\ bos' = With(bos, b, object)
      /\ call' = [pc |-> "create", b |-> b] /\ UNCHANGED <<pool, headParent, status, gem, draining>>
      /\ Types /\ HandlesNotShared /\ RunningInv
  BY DEF compute_alloc_gpu_buffer, Running, BufferInv
<1>2. DOMAIN bos' = DOMAIN bos \cup {b} /\ bos'[b] = object /\ \A c \in DOMAIN bos : bos'[c] = bos[c]
  BY <1>1 DEF With
<1>3. object \in Object /\ DOMAIN object.handle = {} /\ Len(object.handle) = 0 /\ Len(object.va) = 0
  <2>1. <<>> \in Seq(1 .. MaxHandle) /\ <<>> \in Seq(Nat)
    BY EmptySeq
  <2> QED
    BY <2>1 DEF Object
<1>4. object.w = w
  OBVIOUS
<1> HIDE DEF object
<1>5. Types'
  <2>1. bos' \in [DOMAIN bos' -> Object]
    BY <1>1, <1>2, <1>3 DEF Types, With
  <2> QED
    BY <1>1, <1>2, <2>1 DEF Types
<1>6. HandlesNotShared'
  BY <1>1, <1>2, <1>3 DEF HandlesNotShared
<1>7. PoolInv' /\ Live' = Live
  BY <1>1, PoolUnchanged DEF RunningInv
<1>8. \A c : (WorksOn(c, {"create"})' <=> c = b) /\ (Unplaced(c)' <=> c = b)
             /\ (WorksOn(c, {"create", "place"})' <=> c = b) /\ ~Unplaced(c) /\ ~WorksOn(c, {"create"}) /\ ~WorksOn(c, {"map"})
  BY <1>1 DEF WorksOn, Unplaced
<1>9. Complete'
  <2>1. FragmentNum(w) \in Nat \ {0}
    BY FragmentShapes
  <2> QED
    BY <1>1, <1>2, <1>3, <1>4, <1>8, <2>1 DEF RunningInv, Complete
<1>10. HandlesOpen' /\ NotYetMapped'
  BY <1>1, <1>2, <1>3, <1>8 DEF RunningInv, HandlesOpen, NotYetMapped
<1>11. PlacedWhereSaid'
  BY <1>1, <1>2, <1>8 DEF RunningInv, PlacedWhereSaid, FragmentIndices, NodeOf
<1>12. OnlyPlacedAreLive'
  BY <1>1, <1>2, <1>7, <1>8 DEF RunningInv, OnlyPlacedAreLive
<1>13. OnlyTailsLeak'
  <2>1. OwnedHandles \subseteq OwnedHandles'
    BY <1>2 DEF OwnedHandles
  <2> QED
    BY <1>1, <2>1 DEF RunningInv, OnlyTailsLeak
<1> QED
  BY <1>5, <1>6, <1>7, <1>9, <1>10, <1>11, <1>12, <1>13 DEF BufferInv, RunningInv

\* The handle the kernel gives is not open, so that nobody owns it.
LEMMA GemCreateKeepsInvariant ==
  ASSUME BufferInv, GemCreate
  PROVE  BufferInv'
<1> DEFINE b == call.b
           i == Len(bos[b].handle)
           h == NextHandle
           object == [bos[b] EXCEPT !.handle = Append(@, h), !.va = Append(@, Unmapped)]
           mapping == [va |-> Unmapped, frag |-> i, pages |-> FragmentSize(bos[b].w, i)]
           next == IF i + 1 = FragmentNum(bos[b].w) THEN "place" ELSE "create"
<1>1. /\ status = "running" /\ call.pc = "create" /\ FreeHandles # {}
      /\ bos' = [bos EXCEPT ![b] = object]
      /\ gem' = With(gem, h, mapping)
      /\ call' = [call EXCEPT !.pc = next] /\ UNCHANGED <<pool, headParent, status, draining>>
      /\ Types /\ HandlesNotShared /\ RunningInv
  <2>1. GemCreate /\ Types /\ HandlesNotShared /\ status = "running" /\ RunningInv /\ call.pc = "create"
    BY DEF GemCreate, Running, BufferInv
  <2>2. b \in DOMAIN bos
    BY <2>1 DEF Types
  <2>3. bos' = [bos EXCEPT ![b] = object]
    BY <2>1, <2>2, ObjectShape DEF GemCreate, Object, Types
  <2> QED
    BY <2>1, <2>3 DEF GemCreate, At
<1>2. b \in DOMAIN bos /\ DOMAIN bos' = DOMAIN bos /\ bos'[b] = object /\ \A c \in DOMAIN bos \ {b} : bos'[c] = bos[c]
  BY <1>1 DEF Types
<1>3. /\ bos[b] \in Object /\ bos[b].w \in 1 .. MaxPages /\ FragmentNum(bos[b].w) \in Nat \ {0}
      /\ bos[b].handle \in Seq(1 .. MaxHandle) /\ bos[b].va \in Seq(Nat)
      /\ DOMAIN bos[b].handle = 1 .. i /\ i \in Nat /\ Len(bos[b].va) = i /\ i < FragmentNum(bos[b].w)
  BY <1>1, <1>2, ObjectShape DEF RunningInv, Complete, WorksOn
<1>4. h \in 1 .. MaxHandle /\ h \notin DOMAIN gem
  BY <1>1, NextHandleIsFree DEF FreeHandles
<1>5. /\ DOMAIN gem' = DOMAIN gem \cup {h} /\ gem'[h] = mapping /\ \A g \in DOMAIN gem : gem'[g] = gem[g]
  BY <1>1, <1>4 DEF With
<1>6. mapping \in Mapping /\ mapping.va = Unmapped /\ mapping.frag = i /\ mapping.pages = FragmentSize(bos[b].w, i)
  <2>1. FragmentSize(bos[b].w, (i + 1) - 1) \in 1 .. FragPages /\ (i + 1) - 1 = i
    <3>1. i + 1 \in 1 .. FragmentNum(bos[b].w)
      BY <1>3
    <3> QED
      BY <1>3, <3>1, FragmentShapes
  <2> QED
    BY <1>3, <2>1, VmPagesAssumption DEF Mapping, Unmapped
<1>7. /\ object \in Object /\ object.w = bos[b].w /\ Len(object.handle) = i + 1 /\ Len(object.va) = i + 1
      /\ DOMAIN object.handle = 1 .. i + 1 /\ object.handle[i + 1] = h
      /\ \A j \in 1 .. i : object.handle[j] = bos[b].handle[j]
  <2>1. /\ Append(bos[b].handle, h) \in Seq(1 .. MaxHandle) /\ Len(Append(bos[b].handle, h)) = i + 1
        /\ Append(bos[b].handle, h)[i + 1] = h
        /\ \A j \in 1 .. i : Append(bos[b].handle, h)[j] = bos[b].handle[j]
    BY <1>3, <1>4, AppendProperties
  <2>2. Append(bos[b].va, Unmapped) \in Seq(Nat) /\ Len(Append(bos[b].va, Unmapped)) = i + 1
    <3>1. Unmapped \in Nat
      BY DEF Unmapped
    <3> QED
      BY <1>3, <3>1, AppendProperties, SMTT(30)
  <2>3. object \in Object /\ object.w = bos[b].w /\ object.handle = Append(bos[b].handle, h) /\ object.va = Append(bos[b].va, Unmapped)
    BY <1>3, <2>1, <2>2 DEF Object
  <2>4. DOMAIN Append(bos[b].handle, h) = 1 .. i + 1
    BY <2>1, LenProperties
  <2> QED
    BY <2>1, <2>2, <2>3, <2>4
<1>8. next \in {"create", "place"} /\ (next = "create" => i + 1 < FragmentNum(bos[b].w))
      /\ (next = "place" => i + 1 = FragmentNum(bos[b].w))
  BY <1>3, SMTT(30)
<1>9. call'.pc = next /\ call'.b = b /\ call' \in [pc : {"idle", "create", "place", "map", "free", "close"}, b : Bo \cup {NullBo}]
  BY <1>1, <1>8 DEF Types
<1> HIDE DEF object, mapping, next, i, h, b
<1>10. Types'
  <2>1. bos' \in [DOMAIN bos' -> Object]
    BY <1>1, <1>2, <1>7 DEF Types
  <2>2. gem' \in [DOMAIN gem' -> Mapping]
    BY <1>1, <1>5, <1>6 DEF Types, With
  <2> QED
    BY <1>1, <1>2, <1>4, <1>5, <1>9, <2>1, <2>2 DEF Types
<1>11. HandlesOpen'
  <2> SUFFICES ASSUME NEW c \in DOMAIN bos, NEW j \in DOMAIN bos'[c].handle
               PROVE  /\ bos'[c].handle[j] \in DOMAIN gem'
                      /\ gem'[bos'[c].handle[j]].frag = j - 1
                      /\ gem'[bos'[c].handle[j]].pages = FragmentSize(bos'[c].w, j - 1)
    BY <1>2 DEF HandlesOpen
  <2>1. CASE c = b /\ j = i + 1
    BY <1>2, <1>3, <1>5, <1>6, <1>7, <2>1
  <2>2. CASE ~(c = b /\ j = i + 1)
    <3>1. j \in DOMAIN bos[c].handle /\ bos'[c].handle[j] = bos[c].handle[j] /\ bos'[c].w = bos[c].w
      <4>1. CASE c # b
        BY <1>2, <4>1
      <4>2. CASE c = b
        <5>1. j \in 1 .. i + 1 /\ j # i + 1
          BY <1>2, <1>7, <2>2, <4>2
        <5>2. j \in 1 .. i
          BY <1>3, <5>1
        <5> QED
          BY <1>2, <1>3, <1>7, <4>2, <5>2
      <4> QED
        BY <4>1, <4>2
    <3> QED
      BY <1>1, <1>5, <3>1 DEF RunningInv, HandlesOpen
  <2> QED
    BY <2>1, <2>2
<1>12. HandlesNotShared'
  <2>1. \A c \in DOMAIN bos : \A j \in DOMAIN bos'[c].handle :
          \/ c = b /\ j = i + 1 /\ bos'[c].handle[j] = h
          \/ j \in DOMAIN bos[c].handle /\ bos'[c].handle[j] = bos[c].handle[j] /\ bos[c].handle[j] # h
    <3>1. \A c \in DOMAIN bos : \A j \in DOMAIN bos[c].handle : bos[c].handle[j] # h
      BY <1>1, <1>4 DEF RunningInv, HandlesOpen
    <3> QED
      BY <1>2, <1>3, <1>7, <3>1
  <2> QED
    BY <1>1, <1>2, <2>1 DEF HandlesNotShared
<1>13. PoolInv' /\ Live' = Live
  BY <1>1, PoolUnchanged DEF RunningInv
<1>14. \A c : /\ Unplaced(c) <=> c = b
              /\ Unplaced(c)' <=> c = b
              /\ ~WorksOn(c, {"map"})
              /\ WorksOn(c, {"create", "place"}) <=> c = b
              /\ WorksOn(c, {"create", "place"})' <=> c = b
              /\ WorksOn(c, {"create"})' <=> c = b /\ next = "create"
              /\ WorksOn(c, {"create"}) <=> c = b
  BY <1>1, <1>8, <1>9 DEF WorksOn, Unplaced, b
<1>15. Complete'
  BY <1>1, <1>2, <1>3, <1>7, <1>8, <1>14 DEF RunningInv, Complete
<1>16. NotYetMapped'
  <2>1. \A j \in 1 .. i : gem[bos[b].handle[j]].va = Unmapped /\ bos[b].handle[j] \in DOMAIN gem
    BY <1>1, <1>2, <1>3, <1>14 DEF RunningInv, NotYetMapped, HandlesOpen
  <2>2. \A j \in 1 .. i + 1 : gem'[object.handle[j]].va = Unmapped
    BY <1>3, <1>5, <1>6, <1>7, <2>1, SMTT(30)
  <2> QED
    BY <1>2, <1>7, <1>14, <2>2 DEF NotYetMapped
<1>17. PlacedWhereSaid'
  <2> SUFFICES ASSUME NEW c \in DOMAIN bos, c # b, NEW j \in FragmentIndices(c)
               PROVE  NodeOf(c, j)' \in pool /\ gem'[bos[c].handle[j]].va = bos[c].va[j]
    BY <1>1, <1>2, <1>14 DEF PlacedWhereSaid, FragmentIndices
  <2>1. NodeOf(c, j) \in pool /\ gem[bos[c].handle[j]].va = bos[c].va[j] /\ NodeOf(c, j)' = NodeOf(c, j)
    BY <1>1, <1>2, <1>14 DEF RunningInv, PlacedWhereSaid, NodeOf
  <2>2. bos[c].handle[j] \in DOMAIN gem
    BY <1>1, <1>14, CompleteObject DEF RunningInv, HandlesOpen
  <2> QED
    BY <1>5, <2>1, <2>2
<1>18. OnlyPlacedAreLive'
  BY <1>1, <1>2, <1>13, <1>14 DEF RunningInv, OnlyPlacedAreLive
<1>19. OnlyTailsLeak'
  <2>1. OwnedHandles \subseteq OwnedHandles'
    BY <1>2, <1>3, <1>7, SMTT(30) DEF OwnedHandles
  <2>2. h \in OwnedHandles'
    BY <1>2, <1>3, <1>7 DEF OwnedHandles
  <2> QED
    BY <1>1, <1>5, <2>1, <2>2 DEF RunningInv, OnlyTailsLeak
<1> QED
  BY <1>10, <1>11, <1>12, <1>13, <1>15, <1>16, <1>17, <1>18, <1>19 DEF BufferInv, RunningInv

\* A step that only reads the pool keeps the nodes of the objects it leaves
\* alone; one that adds nodes or takes away those of another object does too.
LEMMA NodesStay ==
  ASSUME NEW b, NEW c \in DOMAIN bos, NEW i, NodeOf(c, i) \in pool, c # b,
         \A n \in pool : n.parent # b => n \in pool', bos'[c] = bos[c]
  PROVE  NodeOf(c, i)' \in pool' /\ NodeOf(c, i)' = NodeOf(c, i)
<1>1. NodeOf(c, i)' = NodeOf(c, i) /\ NodeOf(c, i).parent = c
  BY DEF NodeOf
<1> QED
  BY <1>1

\* The nodes compute_pool_alloc links are those of the fragments, and the
\* addresses of the buffer objects are theirs.
LEMMA PlaceKeepsInvariant ==
  ASSUME BufferInv, Place
  PROVE  BufferInv'
<1> DEFINE b == call.b
           w == bos[b].w
           vaOf(i) == (CHOOSE n \in pool' : n.parent = b /\ n.frag = i - 1).va
           object == [bos[b] EXCEPT !.va = [i \in FragmentIndices(b) |-> vaOf(i)]]
<1>1. /\ status = "running" /\ call.pc = "place" /\ Types /\ HandlesNotShared /\ RunningInv
      /\ b \in DOMAIN bos /\ b \in Bo /\ w \in 1 .. MaxPages /\ w \in Nat \ {0}
      /\ bos[b] \in Object /\ bos[b].alignment \in Alignments
      /\ FragmentNum(w) \in Nat \ {0}
  <2>1. status = "running" /\ call.pc = "place" /\ Types /\ HandlesNotShared /\ RunningInv
    BY DEF Place, Running, BufferInv
  <2>2. b \in DOMAIN bos
    BY <2>1 DEF Types
  <2> QED
    BY <2>1, <2>2, ObjectShape, FragmentShapes DEF Object
<1>2. /\ compute_pool_alloc(b, w, bos[b].alignment) /\ gem' = gem /\ draining' = draining
      /\ call' = [call EXCEPT !.pc = "map"]
      /\ bos' = [bos EXCEPT ![b] = object]
  <2>1. bos' = [bos EXCEPT ![b].va = [i \in FragmentIndices(b) |-> vaOf(i)]]
    BY DEF Place
  <2>2. bos' = [bos EXCEPT ![b] = object]
    BY <1>1, <2>1
  <2> QED
    BY <2>2 DEF Place, At
<1>3. headParent' = headParent /\ status' = status /\ b \notin Live /\ PoolInv'
  BY <1>1, <1>2, AllocKeepsInvariant DEF compute_pool_alloc, RunningInv
<1>4. PICK base \in Nat : /\ base > Reserved
                          /\ pool' = pool \cup Fragments(b, base, w)
  BY <1>1, <1>2, AllocatesFreeRange DEF RunningInv
<1>5. \A n \in Fragments(b, base, w) : n.parent = b /\ n = Fragment(b, base, w, n.frag)
  BY <1>1, <1>4, FragmentNodes
<1>6. \A n \in pool : n.parent # b
  BY <1>3 DEF Live
<1>7. \A i \in FragmentIndices(b) : /\ Fragment(b, base, w, i - 1) \in pool'
                                    /\ vaOf(i) = Fragment(b, base, w, i - 1).va
                                    /\ vaOf(i) \in Nat
  <2> SUFFICES ASSUME NEW i \in FragmentIndices(b)
               PROVE  /\ Fragment(b, base, w, i - 1) \in pool'
                      /\ vaOf(i) = Fragment(b, base, w, i - 1).va
                      /\ vaOf(i) \in Nat
    OBVIOUS
  <2> DEFINE n == Fragment(b, base, w, i - 1)
  <2>1. i - 1 \in 0 .. FragmentNum(w) - 1
    BY <1>1 DEF FragmentIndices
  <2>2. n \in Fragments(b, base, w)
    BY <2>1 DEF Fragments
  <2>3. n.parent = b /\ n.frag = i - 1
    BY DEF Fragment
  <2>4. n \in pool' /\ n.va \in Nat
    BY <1>3, <1>4, <2>2 DEF PoolInv, ListTypeOK, Node
  <2>5. \A m \in pool' : m.parent = b /\ m.frag = i - 1 => m = n
    BY <1>4, <1>5, <1>6
  <2> HIDE DEF n
  <2>6. vaOf(i) = n.va
    BY <2>3, <2>4, <2>5
  <2> QED
    BY <2>4, <2>6 DEF n
<1> HIDE DEF vaOf
<1>8. object \in Object /\ object.w = w /\ object.handle = bos[b].handle
      /\ \A i \in FragmentIndices(b) : object.va[i] = vaOf(i)
  <2>1. [i \in FragmentIndices(b) |-> vaOf(i)] \in [1 .. FragmentNum(w) -> Nat]
    BY <1>7 DEF FragmentIndices
  <2>2. [i \in FragmentIndices(b) |-> vaOf(i)] \in Seq(Nat)
    BY <1>1, <2>1, SeqDef
  <2> QED
    BY <1>1, <2>2 DEF Object
<1>9. Len(object.va) = FragmentNum(w)
  <2>1. object.va \in Seq(Nat) /\ DOMAIN object.va = 1 .. FragmentNum(w)
    BY <1>1, <1>8 DEF Object, FragmentIndices
  <2>2. DOMAIN object.va = 1 .. Len(object.va) /\ Len(object.va) \in Nat
    BY <2>1, LenProperties
  <2> HIDE DEF object
  <2> QED
    BY <1>1, <2>1, <2>2
<1> HIDE DEF object, w, b
<1>10. DOMAIN bos' = DOMAIN bos /\ bos'[b] = object /\ \A c \in DOMAIN bos \ {b} : bos'[c] = bos[c]
  BY <1>1, <1>2 DEF Types
<1>11. \A c \in DOMAIN bos : bos'[c].w = bos[c].w /\ bos'[c].handle = bos[c].handle
  BY <1>8, <1>10 DEF w
<1>12. call'.pc = "map" /\ call'.b = b /\ Types'
  <2>1. bos' \in [DOMAIN bos' -> Object]
    BY <1>1, <1>2, <1>8 DEF Types
  <2> QED
    BY <1>1, <1>2, <1>3, <1>10, <2>1 DEF Types, b
<1>13. \A c : /\ Unplaced(c) <=> c = b
              /\ ~Unplaced(c)'
              /\ WorksOn(c, {"create", "place"}) <=> c = b
              /\ WorksOn(c, {"map"})' <=> c = b
              /\ ~WorksOn(c, {"map"})
              /\ ~WorksOn(c, {"create", "place"})'
              /\ ~WorksOn(c, {"create"})'
              /\ ~WorksOn(c, {"create"})
  BY <1>1, <1>12 DEF WorksOn, Unplaced, b
<1>14. HandlesNotShared'
  BY <1>1, <1>10, <1>11 DEF HandlesNotShared
<1>15. Complete'
  BY <1>1, <1>8, <1>9, <1>10, <1>13 DEF RunningInv, Complete, w
<1>16. HandlesOpen' /\ NotYetMapped'
  BY <1>1, <1>2, <1>10, <1>11, <1>13 DEF RunningInv, HandlesOpen, NotYetMapped
<1>17. PlacedWhereSaid'
  <2> SUFFICES ASSUME NEW c \in DOMAIN bos, NEW i \in FragmentIndices(c)
               PROVE  /\ NodeOf(c, i)' \in pool'
                      /\ \/ gem[bos[c].handle[i]].va = bos'[c].va[i]
                         \/ c = b /\ gem[bos[c].handle[i]].va = Unmapped
    BY <1>2, <1>10, <1>11, <1>13 DEF PlacedWhereSaid, FragmentIndices
  <2>1. CASE c = b
    <3>1. NodeOf(c, i)' = Fragment(b, base, w, i - 1)
      BY <1>7, <1>8, <1>10, <2>1 DEF NodeOf, Fragment
    <3>2. i \in DOMAIN bos[b].handle
      BY <1>1, <1>13, <2>1, CompleteObject DEF RunningInv
    <3>3. gem[bos[c].handle[i]].va = Unmapped
      BY <1>1, <1>13, <2>1, <3>2 DEF RunningInv, NotYetMapped
    <3> QED
      BY <1>7, <2>1, <3>1, <3>3
  <2>2. CASE c # b
    <3>1. NodeOf(c, i) \in pool /\ gem[bos[c].handle[i]].va = bos[c].va[i]
      BY <1>1, <1>13, <2>2 DEF RunningInv, PlacedWhereSaid
    <3>2. (\A n \in pool : n.parent # b => n \in pool') /\ bos'[c] = bos[c]
      BY <1>4, <1>10, <2>2
    <3> QED
      BY <2>2, <3>1, <3>2, NodesStay
  <2> QED
    BY <2>1, <2>2
<1>18. OnlyPlacedAreLive'
  <2>1. Live' = Live \cup {b}
    <3>1. 1 \in FragmentIndices(b)
      BY <1>1 DEF FragmentIndices, w
    <3>2. Fragment(b, base, w, 1 - 1) \in Fragments(b, base, w)
      BY <1>1 DEF Fragments
    <3> QED
      BY <1>4, <1>5, <3>2 DEF Live
  <2> QED
    BY <1>1, <1>10, <1>13, <2>1 DEF RunningInv, OnlyPlacedAreLive
<1>19. OnlyTailsLeak'
  <2>1. OwnedHandles' = OwnedHandles
    BY <1>10, <1>11 DEF OwnedHandles
  <2> QED
    BY <1>1, <1>2, <1>3, <2>1 DEF RunningInv, OnlyTailsLeak
<1> QED
  BY <1>3, <1>12, <1>14, <1>15, <1>16, <1>17, <1>18, <1>19 DEF BufferInv, RunningInv

\* Each turn of the loop maps one fragment; the last one ends the call with
\* every fragment mapped at its address.
LEMMA VmMapKeepsInvariant ==
  ASSUME BufferInv, VmMap
  PROVE  BufferInv'
<1> DEFINE b == call.b
<1>1. /\ status = "running" /\ call.pc = "map" /\ Types /\ HandlesNotShared /\ RunningInv
      /\ b \in DOMAIN bos /\ FragmentNum(bos[b].w) \in Nat
  <2>1. status = "running" /\ call.pc = "map" /\ Types /\ HandlesNotShared /\ RunningInv
    BY DEF VmMap, Running, BufferInv
  <2> QED
    BY <2>1, ObjectShape DEF Types
<1>2. PICK i \in FragmentIndices(b) :
        /\ i \in ToMap(b)
        /\ MayMap(bos[b].va[i], gem[bos[b].handle[i]].pages)
        /\ gem' = [gem EXCEPT ![bos[b].handle[i]].va = bos[b].va[i]]
  BY DEF VmMap, MapsNext
<1>3. /\ UNCHANGED <<pool, headParent, status, bos, draining>>
      /\ call' = IF Cardinality(ToMap(b)) = 1 THEN Returned ELSE call
  BY DEF VmMap
<1> DEFINE h == bos[b].handle[i]
<1>4. \A c : ~Unplaced(c) /\ ~WorksOn(c, {"create", "place"}) /\ ~WorksOn(c, {"create"}) /\ (WorksOn(c, {"map"}) <=> c = b)
  BY <1>1 DEF WorksOn, Unplaced
<1>5. i \in DOMAIN bos[b].handle /\ h \in DOMAIN gem /\ bos[b].va[i] \in Nat /\ bos[b].va[i] # Unmapped
  <2>1. i \in DOMAIN bos[b].handle
    BY <1>1, <1>2, <1>4, CompleteObject DEF RunningInv
  <2>2. bos[b].va[i] \in Nat /\ bos[b].va[i] # Unmapped
    BY <1>1, <1>2, <1>4, PlacedHasAddress
  <2> QED
    BY <1>1, <2>1, <2>2 DEF RunningInv, HandlesOpen
<1>6. gem[h] \in Mapping /\ bos[b].va[i] \in 0 .. VmPages
  <2>1. gem[h] \in Mapping
    BY <1>1, <1>5 DEF Types
  <2>2. bos[b].va[i] + gem[h].pages <= VmPages /\ gem[h].pages \in 1 .. FragPages
    BY <1>2, <2>1 DEF MayMap, Mapping
  <2> QED
    BY <1>5, <2>1, <2>2, VmPagesAssumption, FragPagesAssumption
<1>7. /\ DOMAIN gem' = DOMAIN gem
      /\ \A g \in DOMAIN gem : gem'[g].frag = gem[g].frag /\ gem'[g].pages = gem[g].pages
      /\ \A g \in DOMAIN gem \ {h} : gem'[g].va = gem[g].va
      /\ gem'[h].va = bos[b].va[i] /\ gem' \in [DOMAIN gem' -> Mapping]
  BY <1>1, <1>2, <1>5, <1>6 DEF Types, Mapping
<1> HIDE DEF h
<1>8. /\ call' \in [pc : {"idle", "create", "place", "map", "free", "close"}, b : Bo \cup {NullBo}]
      /\ call'.pc = "idle" \/ call' = call
  BY <1>1, <1>3 DEF Types, Returned
<1>9. \A c : /\ ~Unplaced(c)' /\ ~WorksOn(c, {"create", "place"})' /\ ~WorksOn(c, {"create"})'
             /\ WorksOn(c, {"map"})' => c = b /\ call' = call
             /\ call' = call /\ c = b => WorksOn(c, {"map"})'
  BY <1>1, <1>8 DEF WorksOn, Unplaced
<1> HIDE DEF b
<1>10. Types'
  BY <1>1, <1>3, <1>7, <1>8 DEF Types
<1>11. HandlesNotShared'
  BY <1>1, <1>3 DEF HandlesNotShared
<1>12. PoolInv' /\ Live' = Live
  BY <1>1, <1>3, PoolUnchanged DEF RunningInv
<1>13. Complete' /\ HandlesOpen' /\ NotYetMapped'
  BY <1>1, <1>3, <1>4, <1>7, <1>9 DEF RunningInv, Complete, HandlesOpen, NotYetMapped
<1>14. ASSUME NEW c \in DOMAIN bos, NEW j \in FragmentIndices(c), ~(c = b /\ j = i)
       PROVE  gem'[bos[c].handle[j]].va = gem[bos[c].handle[j]].va
  <2>1. j \in DOMAIN bos[c].handle
    BY <1>1, <1>4, CompleteObject DEF RunningInv
  <2>2. bos[c].handle[j] # h /\ bos[c].handle[j] \in DOMAIN gem
    BY <1>1, <1>5, <1>14, <2>1 DEF HandlesNotShared, RunningInv, HandlesOpen, h
  <2> QED
    BY <1>7, <2>2
<1>15. call' # call => ToMap(b) = {i}
  <2>1. call' # call => Cardinality(ToMap(b)) = 1
    BY <1>3
  <2>2. IsFiniteSet(ToMap(b))
    <3>1. IsFiniteSet(1 .. FragmentNum(bos[b].w)) /\ ToMap(b) \subseteq 1 .. FragmentNum(bos[b].w)
      BY <1>1, FS_Interval DEF ToMap, FragmentIndices
    <3> QED
      BY <3>1, FS_Subset
  <2>3. Cardinality(ToMap(b)) = 1 => \E x : ToMap(b) = {x}
    BY <2>2, FS_Singleton
  <2> QED
    BY <1>2, <2>1, <2>3
<1>16. PlacedWhereSaid'
  <2> SUFFICES ASSUME NEW c \in DOMAIN bos, NEW j \in FragmentIndices(c)
               PROVE  /\ NodeOf(c, j) \in pool
                      /\ \/ gem'[bos[c].handle[j]].va = bos[c].va[j]
                         \/ WorksOn(c, {"map"})' /\ gem'[bos[c].handle[j]].va = Unmapped
    BY <1>3 DEF PlacedWhereSaid, FragmentIndices, NodeOf
  <2>1. /\ NodeOf(c, j) \in pool
        /\ \/ gem[bos[c].handle[j]].va = bos[c].va[j]
           \/ c = b /\ gem[bos[c].handle[j]].va = Unmapped
    BY <1>1, <1>4 DEF RunningInv, PlacedWhereSaid
  <2>2. CASE c = b /\ j = i
    BY <1>7, <2>1, <2>2 DEF h
  <2>3. CASE ~(c = b /\ j = i)
    <3>1. gem'[bos[c].handle[j]].va = gem[bos[c].handle[j]].va
      BY <1>14, <2>3
    <3>2. CASE call' = call
      BY <1>9, <2>1, <3>1, <3>2
    <3>3. CASE call' # call
      <4>1. c = b => j \notin ToMap(b)
        BY <1>15, <2>3, <3>3
      <4>2. c = b => gem[bos[c].handle[j]].va # Unmapped
        BY <4>1 DEF ToMap
      <4> QED
        BY <2>1, <3>1, <4>2
    <3> QED
      BY <3>2, <3>3
  <2> QED
    BY <2>2, <2>3
<1>17. OnlyPlacedAreLive'
  BY <1>1, <1>3, <1>4, <1>9, <1>12 DEF RunningInv, OnlyPlacedAreLive
<1>18. OnlyTailsLeak'
  BY <1>1, <1>3, <1>7 DEF RunningInv, OnlyTailsLeak, OwnedHandles
<1> QED
  BY <1>10, <1>11, <1>12, <1>13, <1>16, <1>17, <1>18 DEF BufferInv, RunningInv

-----------------------------------------------------------------------------
(* compute_free_gpu_buffer, and the failed mapping.                        *)

\* The running function takes its object out of the pool, or finds that it has
\* done so before.
LEMMA UnplacingKeepsInvariant ==
  ASSUME BufferInv, status = "running", call.pc \in {"map", "free"},
         call'.pc \in {"free", "close"}, call' = [call EXCEPT !.pc = call'.pc],
         UNCHANGED <<gem, draining>>,
         bos' = bos \/ bos' = [bos EXCEPT ![call.b].va[1] = Unmapped],
         Unplaced(call.b)',
         \/ compute_pool_free(call.b)
         \/ Unplaced(call.b) /\ UNCHANGED <<pool, headParent, status>>
  PROVE  BufferInv'
<1> DEFINE b == call.b
<1>1. Types /\ HandlesNotShared /\ RunningInv /\ b \in DOMAIN bos /\ b \in Bo
  <2>1. Types /\ HandlesNotShared /\ RunningInv
    BY DEF BufferInv
  <2> QED
    BY <2>1 DEF Types
<1>2. call'.b = b /\ call' \in [pc : {"idle", "create", "place", "map", "free", "close"}, b : Bo \cup {NullBo}]
  BY <1>1 DEF Types
<1>3. \A c : /\ ~WorksOn(c, {"create"}) /\ ~WorksOn(c, {"create"})' /\ ~WorksOn(c, {"create", "place"})'
             /\ ~WorksOn(c, {"map"})' /\ (c # b => ~WorksOn(c, {"map"}))
             /\ (c # b => ~Unplaced(c)) /\ (Unplaced(c)' <=> c = b)
  BY <1>2 DEF WorksOn, Unplaced
<1>4. 1 \in DOMAIN bos[b].va /\ bos[b] \in Object
  BY <1>1, <1>3, CompleteObject, ObjectShape DEF RunningInv
<1>5. /\ DOMAIN bos' = DOMAIN bos /\ \A c \in DOMAIN bos \ {b} : bos'[c] = bos[c]
      /\ bos'[b].w = bos[b].w /\ bos'[b].handle = bos[b].handle
      /\ bos'[b] \in Object /\ DOMAIN bos'[b].va = DOMAIN bos[b].va
  <2>1. CASE bos' = bos
    BY <1>4, <2>1
  <2>2. CASE bos' = [bos EXCEPT ![b].va[1] = Unmapped]
    <3> DEFINE va == [bos[b].va EXCEPT ![1] = Unmapped]
    <3>1. va \in Seq(Nat) /\ DOMAIN va = DOMAIN bos[b].va
      <4>1. bos[b].va \in Seq(Nat) /\ Unmapped \in Nat
        BY <1>4 DEF Object, Unmapped
      <4>2. 1 \in 1 .. Len(bos[b].va)
        BY <1>4, <4>1, LenProperties
      <4>3. va \in Seq(Nat) /\ Len(va) = Len(bos[b].va)
        BY <4>1, <4>2, ExceptSeq
      <4> QED
        BY <4>1, <4>3, LenProperties
    <3>2. bos' = [bos EXCEPT ![b] = [bos[b] EXCEPT !.va = va]]
      BY <1>1, <2>2
    <3> HIDE DEF va
    <3>3. bos'[b] = [bos[b] EXCEPT !.va = va] /\ DOMAIN bos' = DOMAIN bos
          /\ \A c \in DOMAIN bos \ {b} : bos'[c] = bos[c]
      BY <1>1, <3>2 DEF Types
    <3>4. [bos[b] EXCEPT !.va = va] \in Object
      BY <1>4, <3>1 DEF Object
    <3>5. bos'[b].w = bos[b].w /\ bos'[b].handle = bos[b].handle /\ bos'[b].va = va
      BY <1>4, <3>3 DEF Object
    <3> QED
      BY <3>1, <3>3, <3>4, <3>5
  <2> QED
    BY <2>1, <2>2
<1>6. Len(bos'[b].va) = Len(bos[b].va)
  <2>1. bos'[b].va \in Seq(Nat) /\ bos[b].va \in Seq(Nat)
    BY <1>4, <1>5 DEF Object
  <2>2. /\ DOMAIN bos'[b].va = 1 .. Len(bos'[b].va) /\ Len(bos'[b].va) \in Nat
        /\ DOMAIN bos[b].va = 1 .. Len(bos[b].va) /\ Len(bos[b].va) \in Nat
    BY <2>1, LenProperties
  <2>3. \A m, n \in Nat : 1 .. m = 1 .. n => m = n
    OBVIOUS
  <2> QED
    BY <1>5, <2>2, <2>3
<1>7. status' \in {"running", "crashed"}
  BY DEF compute_pool_free
<1>8. Types'
  <2>1. bos' \in [DOMAIN bos' -> Object]
    <3>1. \A c \in DOMAIN bos : bos'[c] \in Object
      BY <1>1, <1>5 DEF Types
    <3>2. bos' = [c \in DOMAIN bos' |-> bos'[c]]
      BY <1>1 DEF Types
    <3> QED
      BY <1>5, <3>1, <3>2
  <2> QED
    BY <1>1, <1>2, <1>5, <1>7, <2>1 DEF Types
<1> HIDE DEF b
<1>9. HandlesNotShared'
  BY <1>1, <1>5 DEF HandlesNotShared
<1>10. ASSUME status' = "running" PROVE RunningInv'
  <2>1. PoolInv' /\ Live' = Live \ {b} /\ \A n \in pool : n.parent # b => n \in pool'
    <3>1. CASE Unplaced(b) /\ UNCHANGED <<pool, headParent, status>>
      BY <1>1, <3>1, PoolUnchanged DEF RunningInv, OnlyPlacedAreLive
    <3>2. CASE compute_pool_free(b)
      <4>1. pool' = {n \in pool : n.parent # b}
        BY <1>10, <3>2 DEF compute_pool_free
      <4>2. PoolInv'
        BY <1>1, <3>2, FreeKeepsInvariant DEF RunningInv
      <4>3. Live' = Live \ {b}
        BY <4>1 DEF Live
      <4> QED
        BY <4>1, <4>2, <4>3
    <3> QED
      BY <3>1, <3>2 DEF b
  <2>2. Complete'
    BY <1>1, <1>3, <1>5, <1>6 DEF RunningInv, Complete
  <2>3. HandlesOpen' /\ NotYetMapped'
    BY <1>1, <1>3, <1>5 DEF RunningInv, HandlesOpen, NotYetMapped
  <2>4. PlacedWhereSaid'
    <3> SUFFICES ASSUME NEW c \in DOMAIN bos, c # b, NEW i \in FragmentIndices(c)
                 PROVE  NodeOf(c, i)' \in pool' /\ gem[bos[c].handle[i]].va = bos[c].va[i]
      BY <1>3, <1>5 DEF PlacedWhereSaid, FragmentIndices
    <3>1. NodeOf(c, i) \in pool /\ gem[bos[c].handle[i]].va = bos[c].va[i]
      BY <1>1, <1>3 DEF RunningInv, PlacedWhereSaid
    <3>2. bos'[c] = bos[c]
      BY <1>5
    <3> QED
      BY <2>1, <3>1, <3>2, NodesStay
  <2>5. OnlyPlacedAreLive'
    BY <1>1, <1>3, <1>5, <2>1 DEF RunningInv, OnlyPlacedAreLive
  <2>6. OnlyTailsLeak'
    <3>1. OwnedHandles' = OwnedHandles
      BY <1>5 DEF OwnedHandles
    <3> QED
      BY <1>1, <3>1 DEF RunningInv, OnlyTailsLeak
  <2> QED
    BY <2>1, <2>2, <2>3, <2>4, <2>5, <2>6 DEF RunningInv
<1> QED
  BY <1>8, <1>9, <1>10 DEF BufferInv

\* Whether the kernel refuses a mapping or the application frees the object, it
\* leaves the pool before its handle is closed.
LEMMA UnplaceKeepsInvariant ==
  ASSUME BufferInv, VmMapFails \/ Unplace
  PROVE  BufferInv'
<1>1. Types /\ (status = "running" => RunningInv)
  BY DEF BufferInv
<1>2. CASE VmMapFails
  <2>1. /\ status = "running" /\ call.pc = "map" /\ compute_pool_free(call.b)
        /\ bos' = [bos EXCEPT ![call.b].va[1] = Unmapped]
        /\ call' = [call EXCEPT !.pc = "free"] /\ UNCHANGED <<gem, draining>>
    BY <1>2 DEF VmMapFails, Running, At
  <2>2. call'.pc = "free" /\ call'.b = call.b /\ call.b \in DOMAIN bos
    BY <1>1, <2>1 DEF Types
  <2>3. 1 \in DOMAIN bos[call.b].va
    BY <1>1, <2>1, <2>2, CompleteObject DEF RunningInv, WorksOn
  <2>4. bos'[call.b].va[1] = Unmapped
    <3>1. bos[call.b] \in Object
      BY <1>1, <2>2 DEF Types
    <3> QED
      BY <1>1, <2>1, <2>2, <2>3, <3>1 DEF Types, Object
  <2>5. Unplaced(call.b)'
    BY <2>2, <2>4 DEF Unplaced, WorksOn
  <2> QED
    BY <2>1, <2>2, <2>5, UnplacingKeepsInvariant
<1>3. CASE Unplace
  <2>1. /\ status = "running" /\ call.pc = "free"
        /\ call' = [call EXCEPT !.pc = "close"] /\ UNCHANGED <<bos, gem, draining>>
    BY <1>3 DEF Unplace, Running, At
  <2>2. call'.pc = "close" /\ call'.b = call.b
    BY <1>1, <2>1 DEF Types
  <2>3. Unplaced(call.b)'
    BY <2>2 DEF Unplaced, WorksOn
  <2>4. \/ compute_pool_free(call.b)
        \/ Unplaced(call.b) /\ UNCHANGED <<pool, headParent, status>>
    BY <1>3, <2>1 DEF Unplace, Unplaced, WorksOn
  <2> QED
    BY <2>1, <2>2, <2>3, <2>4, UnplacingKeepsInvariant
<1> QED
  BY <1>2, <1>3

\* The closed handle was the object's own main one: every handle that is left
\* has its owner, or belonged to a fragment behind the main one.
LEMMA GemCloseKeepsInvariant ==
  ASSUME BufferInv, GemClose
  PROVE  BufferInv'
<1> DEFINE b == call.b
           h == bos[b].handle[1]
<1>1. /\ status = "running" /\ call.pc = "close" /\ Types /\ HandlesNotShared /\ RunningInv
      /\ b \in DOMAIN bos
      /\ gem' = [g \in DOMAIN gem \ {h} |-> gem[g]]
      /\ bos' = [c \in DOMAIN bos \ {b} |-> bos[c]]
      /\ call'.pc = "idle" /\ call' \in [pc : {"idle", "create", "place", "map", "free", "close"}, b : Bo \cup {NullBo}]
      /\ UNCHANGED <<pool, headParent, status, draining>>
  <2>1. status = "running" /\ call.pc = "close" /\ Types /\ HandlesNotShared /\ RunningInv
    BY DEF GemClose, Running, BufferInv
  <2> QED
    BY <2>1 DEF GemClose, Types, Returned
<1>2. \A c : /\ (Unplaced(c) <=> c = b) /\ ~WorksOn(c, {"create"}) /\ ~WorksOn(c, {"map"})
             /\ ~Unplaced(c)' /\ ~WorksOn(c, {"create"})' /\ ~WorksOn(c, {"create", "place"})'
  BY <1>1 DEF WorksOn, Unplaced
<1>3. DOMAIN bos[b].handle = FragmentIndices(b) /\ 1 \in DOMAIN bos[b].handle
  BY <1>1, <1>2, CompleteObject DEF RunningInv
<1>4. DOMAIN bos' = DOMAIN bos \ {b} /\ \A c \in DOMAIN bos' : bos'[c] = bos[c]
  BY <1>1
<1>5. DOMAIN gem' = DOMAIN gem \ {h} /\ \A g \in DOMAIN gem' : gem'[g] = gem[g]
  BY <1>1
<1>6. \A c \in DOMAIN bos' : \A j \in DOMAIN bos[c].handle :
        bos[c].handle[j] # h /\ bos[c].handle[j] \in DOMAIN gem'
  BY <1>1, <1>3, <1>4, <1>5 DEF HandlesNotShared, RunningInv, HandlesOpen
<1>7. Types'
  <2>1. bos' \in [DOMAIN bos' -> Object] /\ gem' \in [DOMAIN gem' -> Mapping]
    BY <1>1 DEF Types
  <2> QED
    BY <1>1, <1>4, <1>5, <2>1 DEF Types
<1>8. HandlesNotShared'
  BY <1>1, <1>4 DEF HandlesNotShared
<1>9. PoolInv' /\ Live' = Live
  BY <1>1, PoolUnchanged DEF RunningInv
<1>10. Complete'
  BY <1>1, <1>2, <1>4 DEF RunningInv, Complete
<1>11. HandlesOpen' /\ NotYetMapped'
  <2>1. HandlesOpen'
    BY <1>1, <1>4, <1>5, <1>6 DEF RunningInv, HandlesOpen
  <2>2. NotYetMapped'
    BY <1>1, <1>2, <1>4, <1>5, <1>6 DEF RunningInv, NotYetMapped
  <2> QED
    BY <2>1, <2>2
<1>12. PlacedWhereSaid'
  <2> SUFFICES ASSUME NEW c \in DOMAIN bos', NEW i \in FragmentIndices(c)
               PROVE  NodeOf(c, i)' \in pool /\ gem'[bos[c].handle[i]].va = bos[c].va[i]
    <3>1. \A c \in DOMAIN bos' : FragmentIndices(c)' = FragmentIndices(c)
      BY <1>4 DEF FragmentIndices
    <3> HIDE DEF b, h
    <3> QED
      BY <1>1, <1>2, <1>4, <3>1, SMTT(30) DEF PlacedWhereSaid
  <2>1. NodeOf(c, i) \in pool /\ gem[bos[c].handle[i]].va = bos[c].va[i]
    BY <1>1, <1>2, <1>4 DEF RunningInv, PlacedWhereSaid
  <2>2. NodeOf(c, i)' = NodeOf(c, i)
    BY <1>4 DEF NodeOf
  <2>3. i \in DOMAIN bos[c].handle
    BY <1>1, <1>2, <1>4, CompleteObject DEF RunningInv
  <2> QED
    BY <1>5, <1>6, <2>1, <2>2, <2>3
<1>13. OnlyPlacedAreLive'
  BY <1>1, <1>2, <1>4, <1>9 DEF RunningInv, OnlyPlacedAreLive
<1>14. OnlyTailsLeak'
  <2> SUFFICES ASSUME NEW g \in DOMAIN gem', g \notin OwnedHandles' PROVE gem[g].frag > 0
    BY <1>5 DEF OnlyTailsLeak
  <2>1. CASE g \notin OwnedHandles
    BY <1>1, <1>5, <2>1 DEF RunningInv, OnlyTailsLeak
  <2>2. CASE g \in OwnedHandles
    <3>0. PICK c \in DOMAIN bos : g \in {bos[c].handle[i] : i \in DOMAIN bos[c].handle}
      BY <2>2 DEF OwnedHandles
    <3>1. PICK i \in DOMAIN bos[c].handle : g = bos[c].handle[i]
      BY <3>0
    <3>2. c = b
      BY <1>4, <3>1 DEF OwnedHandles
    <3>3. i # 1 /\ gem[g].frag = i - 1 /\ i \in 1 .. FragmentNum(bos[b].w)
      BY <1>1, <1>3, <1>5, <3>1, <3>2 DEF RunningInv, HandlesOpen, FragmentIndices
    <3>4. FragmentNum(bos[b].w) \in Nat
      BY <1>1, ObjectShape
    <3> QED
      BY <3>3, <3>4
  <2> QED
    BY <2>1, <2>2
<1> QED
  BY <1>7, <1>8, <1>9, <1>10, <1>11, <1>12, <1>13, <1>14 DEF BufferInv, RunningInv

-----------------------------------------------------------------------------
(* The theorems.                                                           *)

\* The inductive invariant of the buffer objects, their handles, their mappings
\* and the pool beneath them holds in every reachable state.
THEOREM BufferInvariance == Spec => []BufferInv
<1>1. BufferInv /\ [Next]_vars => BufferInv'
  <2> SUFFICES ASSUME BufferInv, [Next]_vars PROVE BufferInv'
    OBVIOUS
  <2>1. ASSUME NEW b \in Bo, NEW w \in 1 .. MaxPages, NEW a \in Alignments,
               compute_alloc_gpu_buffer(b, w, a)
        PROVE  BufferInv'
    BY <2>1, BeginAllocKeepsInvariant
  <2>2. CASE (\E b \in Bo : compute_free_gpu_buffer(b)) \/ DrainOne
    BY <2>2, BeginFreeKeepsInvariant
  <2>3. CASE compute_free_context
    <3>1. UNCHANGED <<pool, headParent, status, bos, gem, call>> /\ draining' \in BOOLEAN
      BY <2>3 DEF compute_free_context
    <3> QED
      BY <3>1, UnchangedKeepsInvariant
  <2>4. CASE GemCreate
    BY <2>4, GemCreateKeepsInvariant
  <2>5. CASE GemCreateFails \/ CloseDevice
    BY <2>5, EndKeepsInvariant
  <2>6. CASE Place
    BY <2>6, PlaceKeepsInvariant
  <2>7. CASE VmMap
    BY <2>7, VmMapKeepsInvariant
  <2>8. CASE VmMapFails \/ Unplace
    BY <2>8, UnplaceKeepsInvariant
  <2>9. CASE GemClose
    BY <2>9, GemCloseKeepsInvariant
  <2>10. CASE UNCHANGED vars
    <3>1. UNCHANGED <<pool, headParent, status, bos, gem, call>> /\ draining' \in BOOLEAN
      BY <2>10 DEF vars, BufferInv, Types
    <3> QED
      BY <3>1, UnchangedKeepsInvariant
  <2> QED
    BY <2>1, <2>2, <2>3, <2>4, <2>5, <2>6, <2>7, <2>8, <2>9, <2>10 DEF Next, Step, Ended
<1> QED
  BY InitEstablishes, <1>1, PTL DEF Spec

\* Objects, handles, mappings and call points keep their shapes; no mapping lies
\* outside the virtual address space.
THEOREM BufferTypeCorrect == Spec => []TypeOK
<1>1. BufferInv => TypeOK
  BY DEF BufferInv, Types, TypeOK, Object, Mapping
<1> QED
  BY BufferInvariance, <1>1, PTL

\* No open handle belongs to two objects, although the kernel reuses the numbers
\* of closed handles.
THEOREM HandlesHaveOneOwner == Spec => []HandlesNotShared
<1>1. BufferInv => HandlesNotShared
  BY DEF BufferInv
<1> QED
  BY BufferInvariance, <1>1, PTL

\* While the program runs, the only handles that are open and that no object
\* knows are those of fragments behind the main one.
THEOREM LeaksAreTails == Spec => []OnlyTailsLeak
<1>1. BufferInv => OnlyTailsLeak
  BY DEF BufferInv, RunningInv, OnlyTailsLeak
<1> QED
  BY BufferInvariance, <1>1, PTL

\* Between two calls each fragment of each object is mapped by the kernel at the
\* address that the object and the pool have for it.
THEOREM MappingsAgree == Spec => []MappedWhereSaid
<1>1. BufferInv => MappedWhereSaid
  <2> SUFFICES ASSUME BufferInv, Running("idle"), NEW b \in DOMAIN bos, NEW i \in FragmentIndices(b)
               PROVE  LET h == bos[b].handle[i]
                      IN  /\ h \in DOMAIN gem
                          /\ gem[h].va = bos[b].va[i]
                          /\ [va |-> gem[h].va, size |-> gem[h].pages, parent |-> b, frag |-> i - 1] \in pool
    BY DEF MappedWhereSaid
  <2>1. Types /\ RunningInv /\ call.pc = "idle"
    BY DEF BufferInv, Running
  <2>2. ~Unplaced(b) /\ ~WorksOn(b, {"create"}) /\ ~WorksOn(b, {"map"})
    BY <2>1, IdleIsPlaced
  <2>3. i \in DOMAIN bos[b].handle
    BY <2>1, <2>2, CompleteObject DEF RunningInv
  <2>4. bos[b].handle[i] \in DOMAIN gem /\ gem[bos[b].handle[i]].pages = FragmentSize(bos[b].w, i - 1)
    BY <2>1, <2>3 DEF RunningInv, HandlesOpen
  <2>5. NodeOf(b, i) \in pool /\ gem[bos[b].handle[i]].va = bos[b].va[i]
    BY <2>1, <2>2 DEF RunningInv, PlacedWhereSaid
  <2> QED
    BY <2>4, <2>5 DEF NodeOf
<1> QED
  BY BufferInvariance, <1>1, PTL

\* Between two calls the arrays in the pool are the existing objects.
THEOREM PoolHasTheObjects == Spec => []PoolMatchesObjects
<1>1. BufferInv => PoolMatchesObjects
  BY IdleIsPlaced DEF BufferInv, Running, RunningInv, OnlyPlacedAreLive, PoolMatchesObjects
<1> QED
  BY BufferInvariance, <1>1, PTL

\* A mapping the kernel refuses because it meets another one meets the leaked
\* tail of a freed array, never a live object.
THEOREM DoubleMapsAreTails == Spec => []OnlyTailsDoubleMap
<1>1. BufferInv => OnlyTailsDoubleMap
  <2> DEFINE b == call.b
  <2> SUFFICES ASSUME BufferInv, Running("map"), NEW i \in ToMap(b), NEW h \in DOMAIN gem,
                      Meets(h, bos[b].va[i], gem[bos[b].handle[i]].pages)
               PROVE  h \notin OwnedHandles /\ gem[h].frag > 0
    BY DEF OnlyTailsDoubleMap
  <2>1. status = "running" /\ call.pc = "map" /\ Types /\ RunningInv /\ b \in DOMAIN bos
    <3>1. status = "running" /\ call.pc = "map" /\ Types /\ RunningInv
      BY DEF BufferInv, Running
    <3> QED
      BY <3>1 DEF Types
  <2>2. \A c : ~Unplaced(c) /\ ~WorksOn(c, {"create"})
    BY <2>1 DEF WorksOn, Unplaced
  <2>3. ASSUME NEW c \in DOMAIN bos, NEW j \in FragmentIndices(c)
        PROVE  /\ NodeOf(c, j) \in pool
               /\ NodeOf(c, j).va = bos[c].va[j]
               /\ NodeOf(c, j).size = gem[bos[c].handle[j]].pages
               /\ gem[bos[c].handle[j]].va \in {bos[c].va[j], Unmapped}
    <3>1. j \in DOMAIN bos[c].handle
      BY <2>1, <2>2, CompleteObject DEF RunningInv
    <3> QED
      BY <2>1, <2>2, <3>1 DEF RunningInv, HandlesOpen, PlacedWhereSaid, NodeOf
  <2>4. i \in FragmentIndices(b) /\ gem[bos[b].handle[i]].va = Unmapped
    BY DEF ToMap
  <2> HIDE DEF b
  <2>5. ASSUME NEW c \in DOMAIN bos, NEW j \in DOMAIN bos[c].handle, h = bos[c].handle[j] PROVE FALSE
    <3>1. j \in FragmentIndices(c)
      BY <2>1, <2>2, CompleteObject DEF RunningInv
    <3> DEFINE m == NodeOf(c, j)
               n == NodeOf(b, i)
    <3>2. gem[h].va # Unmapped /\ gem[h].va < bos[b].va[i] + gem[bos[b].handle[i]].pages
          /\ bos[b].va[i] < gem[h].va + gem[h].pages
      BY DEF Meets
    <3>3. m # n
      <4>1. ~(c = b /\ j = i)
        BY <2>4, <2>5, <3>2
      <4>2. j \in Nat /\ i \in Nat
        BY <2>1, <2>4, <3>1, ObjectShape DEF FragmentIndices
      <4>3. m.parent = c /\ m.frag = j - 1 /\ n.parent = b /\ n.frag = i - 1
        BY DEF NodeOf
      <4> QED
        BY <4>1, <4>2, <4>3
    <3>4. m \in pool /\ n \in pool /\ m.va = gem[h].va /\ m.size = gem[h].pages
          /\ n.va = bos[b].va[i] /\ n.size = gem[bos[b].handle[i]].pages
      BY <2>1, <2>3, <2>4, <2>5, <3>1, <3>2
    <3> HIDE DEF m, n
    <3>5. End(m) <= n.va \/ End(n) <= m.va
      BY <2>1, <3>3, <3>4 DEF RunningInv, PoolInv, Disjoint, List
    <3>6. m.va \in Nat /\ n.va \in Nat /\ m.size \in Nat /\ n.size \in Nat
      BY <2>1, <3>4 DEF RunningInv, PoolInv, ListTypeOK, Node
    <3> QED
      BY <3>2, <3>4, <3>5, <3>6 DEF End
  <2>6. h \notin OwnedHandles
    BY <2>5 DEF OwnedHandles
  <2> QED
    BY <2>1, <2>6 DEF RunningInv, OnlyTailsLeak
<1> QED
  BY BufferInvariance, <1>1, PTL
=============================================================================
