------------------------------- MODULE VmPool -------------------------------
(***************************************************************************)
(* The virtual address pool of a compute context: the list ctx->vm_pool,   *)
(* compute_pool_alloc and compute_pool_free (computesi.c).                 *)
(*                                                                         *)
(* Addresses and sizes are counted in pages of 4096 bytes; va_size is      *)
(* always a multiple of the page size.  The list is kept in address order  *)
(* by the code, so it is modelled as the set of its nodes ordered by va;   *)
(* module VmPoolList has the links themselves and shows that following     *)
(* them visits the nodes in that order.  A node's bo pointer is            *)
(* parent_bo + i, kept as the index frag = i.                              *)
(***************************************************************************)
EXTENDS Integers

CONSTANTS
  Bo,         \* addresses calloc may return for an array of struct gpu_buffer
  NullBo,     \* an address that is no gpu_buffer
  FragPages,  \* FRAGMENT_SIZE, in pages
  Reserved,   \* reserved_mem, in pages
  MaxPages,   \* bound on the size of one request, in pages
  VaBound,    \* bound on the addresses: a request that ends above it is not followed
  Residues    \* what the uninitialised parent_bo of the first node may hold

ASSUME BoAssumption        == NullBo \notin Bo
ASSUME FragPagesAssumption == FragPages \in Nat \ {0}
ASSUME ReservedAssumption  == Reserved \in Nat
ASSUME MaxPagesAssumption  == MaxPages \in Nat
ASSUME VaBoundAssumption   == VaBound \in Nat
ASSUME ResiduesAssumption  == Residues \subseteq Bo \cup {NullBo}

VARIABLES
  pool,        \* the nodes after the first one
  headParent,  \* parent_bo of the first node, never assigned by the code
  status       \* "running", or "crashed" after an access through NULL

poolVars == <<pool, headParent, status>>

\* The alignments requested by the callers, in pages: 4096 and 8*1024 bytes.
Alignments == {1, 2}

-----------------------------------------------------------------------------
(* The list.                                                               *)

\* Fault: the area reserved by the driver is not extended by a page.
FirstWithoutSpare == [va |-> 0, size |-> Reserved, parent |-> headParent, frag |-> 0]

\* The first node covers the area reserved by the driver and one page more.
First == [va |-> 0, size |-> Reserved + 1, parent |-> headParent, frag |-> 0]

List == pool \cup {First}

End(n) == n.va + n.size

\* m is n->next.
IsNext(n, m) == n.va < m.va /\ ~\E q \in List : n.va < q.va /\ q.va < m.va

\* n->next == NULL.
IsLast(n) == \A m \in List : m.va <= n.va

Live == {n.parent : n \in pool}

-----------------------------------------------------------------------------
(* A request of w pages is an array of FragmentNum(w) buffer objects, all  *)
(* of them FragPages pages long but the last.                              *)

\* Fault: one fragment too many when w is a multiple of FragPages.
FragmentNumTooMany(w) == (w + FragPages) \div FragPages

FragmentNum(w) == (w + FragPages - 1) \div FragPages

FragmentSize(w, i) ==
  IF (i + 1) * FragPages <= w THEN FragPages ELSE w - i * FragPages

\* Fault: each fragment is placed by its own size.
FragmentByOwnSize(b, base, w, i) ==
  [va |-> base + i * FragmentSize(w, i), size |-> FragmentSize(w, i), parent |-> b, frag |-> i]

Fragment(b, base, w, i) ==
  [va |-> base + i * FragPages, size |-> FragmentSize(w, i), parent |-> b, frag |-> i]

\* The nodes the tail loop links for the array b, the first one at base.
Fragments(b, base, w) ==
  {Fragment(b, base, w, i) : i \in 0 .. FragmentNum(w) - 1}

\* Fault: the gap is measured from the start of the node, not from its end.
FitsAfterIgnoringSize(n, w) ==
  \E m \in List : IsNext(n, m) /\ m.va - n.va > w

\* The gap between n and its successor holds w pages, with a page to spare.
FitsAfter(n, w) ==
  \E m \in List : IsNext(n, m) /\ m.va - End(n) > w

\* n is the first node of the list with such a gap.
FirstFit(n, w) ==
  /\ FitsAfter(n, w)
  /\ \A m \in List : FitsAfter(m, w) => n.va <= m.va

MayUseGap(w, alignment) == FragmentNum(w) = 1 /\ alignment <= 1

AllocInGap(b, w, alignment) ==
  /\ MayUseGap(w, alignment)
  /\ \E n \in List :
       /\ FirstFit(n, w)
       /\ pool' = pool \cup Fragments(b, End(n), w)

AllocAtTail(b, w, alignment) ==
  /\ MayUseGap(w, alignment) => \A n \in List : ~FitsAfter(n, w)
  /\ \E n \in List :
       /\ IsLast(n)
       /\ pool' = pool \cup Fragments(b, End(n), w)

\* calloc gave the caller an address b that no live array has.
compute_pool_alloc(b, w, alignment) ==
  /\ status = "running"
  /\ b \notin Live
  /\ AllocInGap(b, w, alignment) \/ AllocAtTail(b, w, alignment)
  /\ \A n \in pool' : End(n) <= VaBound
  /\ UNCHANGED <<headParent, status>>

\* Fault: the node's own buffer object is compared, not the array it is part of.
FreeByBo(b) ==
  /\ status = "running"
  /\ b \in Live
  /\ pool' = {n \in pool : ~(n.parent = b /\ n.frag = 0)}
  /\ UNCHANGED <<headParent, status>>

\* Every node of the array is unlinked.  The walk begins with the first node,
\* whose parent_bo is whatever malloc left there; if it matches, n->prev->next
\* is written through NULL before anything is unlinked.
compute_pool_free(b) ==
  /\ status = "running"
  /\ b \in Live
  /\ IF headParent = b
     THEN status' = "crashed" /\ UNCHANGED pool
     ELSE pool' = {n \in pool : n.parent # b} /\ UNCHANGED status
  /\ UNCHANGED headParent

PoolInit ==
  /\ pool = {}
  /\ headParent \in Residues
  /\ status = "running"

PoolNext ==
  \E b \in Bo :
    \/ \E w \in 1 .. MaxPages, a \in Alignments : compute_pool_alloc(b, w, a)
    \/ compute_pool_free(b)

PoolSpec == PoolInit /\ [][PoolNext]_poolVars

-----------------------------------------------------------------------------
(* Properties.                                                             *)

Node == [va : Nat, size : Nat \ {0}, parent : Bo, frag : Nat]

\* Shapes of the state: nodes are page ranges of a live array.
PoolTypeOK ==
  /\ pool \subseteq Node
  /\ headParent \in Bo \cup {NullBo}
  /\ status \in {"running", "crashed"}

\* No two nodes of the list, the reserved area included, share a page: two
\* buffer objects are never mapped over each other, whatever the order in
\* which gaps were opened and filled.
Disjoint ==
  \A m, n \in List : m # n => End(m) <= n.va \/ End(n) <= m.va

\* The fragments of an array follow each other without a hole, so that a shader
\* can address the buffer linearly from bo->va.
FragmentsContiguous ==
  \A n \in pool : n.frag > 0 =>
    \E m \in pool : m.parent = n.parent /\ m.frag = n.frag - 1 /\ End(m) = n.va

\* The node after the first is the main fragment of its array:
\* compute_free_context frees vm_pool->next->bo, and freeing any other fragment
\* would hand free() a pointer into the middle of an array.
FirstIsMain == \A m \in pool : IsNext(First, m) => m.frag = 0

\* parent_bo points to the main fragment of the object a node is part of: no
\* node of the list names an object that it is not a fragment of.  Only the
\* first node, whose parent_bo is never set, can break this, and
\* compute_pool_free then unlinks through its NULL prev.
ParentIsMain ==
  \A n \in List : n.parent \in Live =>
    \E m \in pool : /\ m.parent = n.parent /\ m.frag = 0
                    /\ n.va = m.va + n.frag * FragPages

-----------------------------------------------------------------------------
(* Refinement: the interval of an array runs from its main fragment to the *)
(* end of its last one.                                                    *)

NodesOf(nodes, b) == {n \in nodes : n.parent = b}

MainOf(nodes, b) == CHOOSE n \in NodesOf(nodes, b) : n.frag = 0

LastOf(nodes, b) ==
  CHOOSE n \in NodesOf(nodes, b) : \A m \in NodesOf(nodes, b) : m.frag <= n.frag

Interval(nodes, b) ==
  [lo |-> MainOf(nodes, b).va, hi |-> End(LastOf(nodes, b)), bo |-> b]

Space == INSTANCE VaSpace WITH space <- {Interval(pool, b) : b \in Live}

\* Every behaviour of the pool is one the address space specification allows.
ImplementsVaSpace == Space!Spec
=============================================================================
