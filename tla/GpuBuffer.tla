----------------------------- MODULE GpuBuffer -----------------------------
(***************************************************************************)
(* Buffer objects of a compute context: compute_alloc_gpu_buffer,          *)
(* compute_free_gpu_buffer and compute_free_context (computesi.c), on top  *)
(* of the address pool and of the kernel's GEM handles and page tables.    *)
(*                                                                         *)
(* A step is one ioctl or one call of the pool; the variable call holds    *)
(* the point the running function has reached.  The library is called by   *)
(* one thread, so a new call begins only when the last one has returned.   *)
(* Every ioctl that allocates may fail.  The state of the pool is that of   *)
(* VmPool, and status also becomes "closed".                               *)
(***************************************************************************)
EXTENDS VmPool, FiniteSets, Sequences

CONSTANTS
  VmPages,     \* size of the GPU's virtual address space, in pages
  MaxHandle    \* GEM handles are 1 .. MaxHandle; without a free one GEM_CREATE fails

ASSUME VmPagesAssumption   == VmPages \in Nat /\ VmPages + MaxPages <= VaBound
ASSUME MaxHandleAssumption == MaxHandle \in Nat \ {0}

VARIABLES
  bos,       \* the calloc'ed buffer objects: their size, handles and addresses
  gem,       \* the kernel's side of the open handles: size, address, and which
             \* fragment it was made for, which only the properties look at
  call,      \* the function that runs: [pc, b]
  draining   \* compute_free_context has been called

vars == <<pool, headParent, status, bos, gem, call, draining>>

Unmapped == 0   \* va == 0 means no address, in the kernel and in struct gpu_buffer

\* The function f with the value y at the new argument x.
With(f, x, y) == [z \in DOMAIN f \cup {x} |-> IF z = x THEN y ELSE f[z]]

FragmentIndices(b) == 1 .. FragmentNum(bos[b].w)

Returned == [pc |-> "idle", b |-> NullBo]

Running(pc) == status = "running" /\ call.pc = pc

At(pc) == [call EXCEPT !.pc = pc]

-----------------------------------------------------------------------------
(* The kernel.                                                             *)

FreeHandles == (1 .. MaxHandle) \ DOMAIN gem

\* The lowest free number becomes the handle.
NextHandle == CHOOSE h \in FreeHandles : \A g \in FreeHandles : h <= g

\* The mapping at handle h meets the range of pages from va on.
Meets(h, va, pages) ==
  gem[h].va # Unmapped /\ gem[h].va < va + pages /\ va < gem[h].va + gem[h].pages

\* RADEON_VA_MAP accepts a range inside the VM that meets no other mapping.
MayMap(va, pages) ==
  va + pages <= VmPages /\ \A h \in DOMAIN gem : ~Meets(h, va, pages)

-----------------------------------------------------------------------------
(* compute_alloc_gpu_buffer.                                               *)

compute_alloc_gpu_buffer(b, w, alignment) ==
  /\ Running("idle") /\ ~draining
  /\ b \notin DOMAIN bos
  /\ bos' = With(bos, b, [w |-> w, alignment |-> alignment, handle |-> <<>>, va |-> <<>>])
  /\ call' = [pc |-> "create", b |-> b]
  /\ UNCHANGED <<pool, headParent, status, gem, draining>>

\* One turn of the loop of compute_alloc_fragmented_buffer.
GemCreate ==
  /\ Running("create")
  /\ FreeHandles # {}
  /\ LET b == call.b
         i == Len(bos[b].handle)
     IN  /\ bos' = [bos EXCEPT ![b].handle = Append(@, NextHandle),
                               ![b].va = Append(@, Unmapped)]
         /\ gem' = With(gem, NextHandle, [va |-> Unmapped, frag |-> i,
                                             pages |-> FragmentSize(bos[b].w, i)])
         /\ call' = At(IF i + 1 = FragmentNum(bos[b].w) THEN "place" ELSE "create")
  /\ UNCHANGED <<pool, headParent, status, draining>>

\* compute_alloc_fragmented_buffer returns NULL, which compute_pool_alloc
\* dereferences.
GemCreateFails ==
  /\ Running("create")
  /\ status' = "crashed"
  /\ UNCHANGED <<pool, headParent, bos, gem, call, draining>>

\* compute_pool_alloc, which also sets va of each fragment.
Place ==
  /\ Running("place")
  /\ LET b == call.b
         vaOf(i) == (CHOOSE n \in pool' : n.parent = b /\ n.frag = i - 1).va
     IN  /\ compute_pool_alloc(b, bos[b].w, bos[b].alignment)
         /\ bos' = [bos EXCEPT ![b].va = [i \in FragmentIndices(b) |-> vaOf(i)]]
  /\ call' = At("map")
  /\ UNCHANGED <<gem, draining>>

ToMap(b) == {i \in FragmentIndices(b) : gem[bos[b].handle[i]].va = Unmapped}

\* i is the fragment compute_vm_map has come to.
MapsNext(b, i) == i \in ToMap(b) /\ \A j \in ToMap(b) : i <= j

\* One turn of the loop of compute_vm_map.
VmMap ==
  /\ Running("map")
  /\ \E i \in FragmentIndices(call.b) :
       LET h == bos[call.b].handle[i]
           va == bos[call.b].va[i]
       IN  /\ MapsNext(call.b, i)
           /\ MayMap(va, gem[h].pages)
           /\ gem' = [gem EXCEPT ![h].va = va]
  /\ call' = IF Cardinality(ToMap(call.b)) = 1 THEN Returned ELSE call
  /\ UNCHANGED <<pool, headParent, status, bos, draining>>

\* Fault: the result of compute_vm_map is not looked at.
MapFailureIgnored ==
  /\ Running("map")
  /\ call' = Returned
  /\ UNCHANGED <<pool, headParent, status, bos, gem, draining>>

\* Fault: va is cleared but the pool keeps the range.
VmMapFailsKeepingRange ==
  /\ Running("map")
  /\ bos' = [bos EXCEPT ![call.b].va[1] = Unmapped]
  /\ call' = At("free")
  /\ UNCHANGED <<pool, headParent, status, gem, draining>>

\* The kernel refuses, or has no memory for the page table: the pool gives the
\* range back, va is cleared and the buffer object freed.
VmMapFails ==
  /\ Running("map")
  /\ compute_pool_free(call.b)
  /\ bos' = [bos EXCEPT ![call.b].va[1] = Unmapped]
  /\ call' = At("free")
  /\ UNCHANGED <<gem, draining>>

-----------------------------------------------------------------------------
(* compute_free_gpu_buffer.                                                *)

compute_free_gpu_buffer(b) ==
  /\ Running("idle") /\ ~draining
  /\ b \in DOMAIN bos
  /\ call' = [pc |-> "free", b |-> b]
  /\ UNCHANGED <<pool, headParent, status, bos, gem, draining>>

\* Give the addresses back, if there are any; compute_vm_unmap does nothing.
Unplace ==
  /\ Running("free")
  /\ IF bos[call.b].va[1] # Unmapped
     THEN compute_pool_free(call.b)
     ELSE UNCHANGED <<pool, headParent, status>>
  /\ call' = At("close")
  /\ UNCHANGED <<bos, gem, draining>>

\* Fault: the handle is closed only if the buffer object had an address.
CloseIfMapped ==
  /\ Running("close")
  /\ LET h == bos[call.b].handle[1]
     IN  gem' = IF bos[call.b].va[1] = Unmapped THEN gem
                ELSE [g \in DOMAIN gem \ {h} |-> gem[g]]
  /\ bos' = [b \in DOMAIN bos \ {call.b} |-> bos[b]]
  /\ call' = Returned
  /\ UNCHANGED <<pool, headParent, status, draining>>

\* Fault: the caller keeps the object whose handle was closed.
CloseKeepingObject ==
  /\ Running("close")
  /\ gem' = [g \in DOMAIN gem \ {bos[call.b].handle[1]} |-> gem[g]]
  /\ call' = Returned
  /\ UNCHANGED <<pool, headParent, status, bos, draining>>

\* GEM_CLOSE of the main fragment's handle, which drops its mapping; the
\* handles of the other fragments are forgotten with the array.
GemClose ==
  /\ Running("close")
  /\ gem' = [g \in DOMAIN gem \ {bos[call.b].handle[1]} |-> gem[g]]
  /\ bos' = [b \in DOMAIN bos \ {call.b} |-> bos[b]]
  /\ call' = Returned
  /\ UNCHANGED <<pool, headParent, status, draining>>

-----------------------------------------------------------------------------
(* compute_free_context.                                                   *)

compute_free_context ==
  /\ Running("idle") /\ ~draining
  /\ draining' = TRUE
  /\ UNCHANGED <<pool, headParent, status, bos, gem, call>>

\* One turn of its loop: the buffer object of the node behind the first one is
\* freed.  For any fragment but the main one compute_pool_free would find no
\* node and its assertion would stop the program.
DrainOne ==
  /\ Running("idle") /\ draining
  /\ \E n \in pool : /\ IsNext(First, n)
                     /\ n.frag = 0
                     /\ call' = [pc |-> "free", b |-> n.parent]
  /\ UNCHANGED <<pool, headParent, status, bos, gem, draining>>

\* close(ctx->fd): the kernel closes the handles that are still open.
CloseDevice ==
  /\ Running("idle") /\ draining
  /\ pool = {}
  /\ status' = "closed"
  /\ gem' = <<>>
  /\ UNCHANGED <<pool, headParent, bos, call, draining>>

-----------------------------------------------------------------------------

Init ==
  /\ PoolInit
  /\ bos = <<>>
  /\ gem = <<>>
  /\ call = Returned
  /\ draining = FALSE

\* The steps a running function takes by itself.
Step ==
  \/ GemCreate \/ GemCreateFails \/ Place \/ VmMap \/ VmMapFails
  \/ Unplace \/ GemClose \/ DrainOne \/ CloseDevice

\* The program has ended.
Ended == status \in {"crashed", "closed"} /\ UNCHANGED vars

Next ==
  \/ \E b \in Bo, w \in 1 .. MaxPages, a \in Alignments : compute_alloc_gpu_buffer(b, w, a)
  \/ \E b \in Bo : compute_free_gpu_buffer(b)
  \/ compute_free_context
  \/ Step
  \/ Ended

\* A function that runs does not stop between two statements; nothing forces
\* the application to call the next one.
Spec == Init /\ [][Next]_vars /\ WF_vars(Step)

-----------------------------------------------------------------------------
(* Properties.                                                             *)

\* Objects, handles and call points have their shapes.
TypeOK ==
  /\ DOMAIN bos \subseteq Bo
  /\ \A b \in DOMAIN bos :
       /\ bos[b].w \in 1 .. MaxPages /\ bos[b].alignment \in Alignments
       /\ bos[b].handle \in Seq(1 .. MaxHandle) /\ bos[b].va \in Seq(Nat)
  /\ DOMAIN gem \subseteq 1 .. MaxHandle
  /\ \A h \in DOMAIN gem :
       gem[h] \in [va : 0 .. VmPages, frag : Nat, pages : 1 .. FragPages]
  /\ call \in [pc : {"idle", "create", "place", "map", "free", "close"}, b : Bo \cup {NullBo}]
  /\ status \in {"running", "crashed", "closed"}
  /\ draining \in BOOLEAN

\* Between two calls, each fragment of each buffer object is mapped by the
\* kernel exactly where the pool and the object say it is, whatever failed
\* before: a shader given getVirtualAddress reaches this object and no other.
MappedWhereSaid ==
  Running("idle") =>
    \A b \in DOMAIN bos : \A i \in FragmentIndices(b) :
      LET h == bos[b].handle[i]
      IN  /\ h \in DOMAIN gem
          /\ gem[h].va = bos[b].va[i]
          /\ [va |-> gem[h].va, size |-> gem[h].pages, parent |-> b, frag |-> i - 1] \in pool

\* The pool holds ranges of existing objects only: what a failed or finished
\* call leaves behind never blocks addresses in the pool.
PoolMatchesObjects == Running("idle") => Live = DOMAIN bos

OwnedHandles == UNION {{bos[b].handle[i] : i \in DOMAIN bos[b].handle} : b \in DOMAIN bos}

\* A handle nobody knows any more was that of a fragment behind the main one:
\* objects of one fragment leak no handle on any path, the failed mapping included.
OnlyTailsLeak ==
  status = "running" => \A h \in DOMAIN gem \ OwnedHandles : gem[h].frag > 0

\* No handle belongs to two buffer objects, although the kernel hands out the
\* number of a closed handle again: the close of one object never closes another.
HandlesNotShared ==
  \A b, c \in DOMAIN bos :
    \A i \in DOMAIN bos[b].handle, j \in DOMAIN bos[c].handle :
      bos[b].handle[i] = bos[c].handle[j] => b = c /\ i = j

\* The range about to be mapped meets, in the kernel's page tables, at most the
\* tail of an array that was freed and whose handle leaked: the pool and the page
\* tables agree on everything else, after failed mappings too.
OnlyTailsDoubleMap ==
  Running("map") =>
    \A i \in ToMap(call.b) : \A h \in DOMAIN gem :
      Meets(h, bos[call.b].va[i], gem[bos[call.b].handle[i]].pages) => h \notin OwnedHandles /\ gem[h].frag > 0

\* Whatever was allocated, compute_free_context comes to its end and closes the
\* device: its loop, which looks at the first node only, always makes progress.
DrainEnds == draining ~> status = "closed"
=============================================================================
