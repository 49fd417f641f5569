----------------------------- MODULE VmPoolList -----------------------------
(***************************************************************************)
(* The address pool as the code stores it: struct pool_node objects in the *)
(* C heap, linked by next and prev.  An action is a whole call of          *)
(* compute_pool_alloc or compute_pool_free; the heap after each turn of    *)
(* its loop is a function of the turn.                                     *)
(***************************************************************************)
EXTENDS Integers, FiniteSets, Functions

CONSTANTS
  Bo, NullBo, FragPages, Reserved, MaxPages, VaBound, Residues, \* as in VmPool
  Addr,      \* addresses malloc may return for a node; their number bounds the list
  Origin,    \* the address of the first node, ctx->vm_pool
  Null

ASSUME SizesAssumption ==
  FragPages \in Nat \ {0} /\ Reserved \in Nat /\ MaxPages \in Nat /\ VaBound \in Nat
ASSUME BoAssumption == NullBo \notin Bo
ASSUME ResiduesAssumption == Residues \subseteq Bo \cup {NullBo}
ASSUME AddrAssumption == Origin \notin Addr /\ Null \notin Addr \cup {Origin}

VARIABLES
  heap,      \* the allocated nodes, by address
  status     \* "running", or "crashed" after an access through NULL

vars == <<heap, status>>

-----------------------------------------------------------------------------
(* Following next from the first node.  A link to a freed node leads        *)
(* nowhere.                                                                *)

Hop[i \in 0 .. Cardinality(DOMAIN heap)] ==
  IF i = 0 THEN Origin
  ELSE IF Hop[i - 1] \in DOMAIN heap THEN heap[Hop[i - 1]].next ELSE Null

Visited == {Hop[i] : i \in 0 .. Cardinality(DOMAIN heap)} \cap DOMAIN heap

Walk == [i \in 1 .. Cardinality(Visited) |-> Hop[i - 1]]

\* A node without its place in the list.
Entry(n) == [va |-> n.va, size |-> n.size, parent |-> n.parent, frag |-> n.frag]

Contents == {Entry(heap[p]) : p \in Visited \ {Origin}}

Pool == INSTANCE VmPool WITH pool <- Contents, headParent <- heap[Origin].parent

End(h, p) == h[p].va + h[p].size

-----------------------------------------------------------------------------
(* The assignments of the two loops.                                       *)

\* The node of fragment i of b, w pages long, placed behind the node at p.
NewNode(h, b, w, i, p, succ) ==
  [va |-> End(h, p), size |-> Pool!FragmentSize(w, i), parent |-> b, frag |-> i,
   prev |-> p, next |-> succ]

\* Fault: the successor keeps its prev pointer.
LinkForgettingPrev(h, p, new, node) ==
  [q \in DOMAIN h \cup {new} |->
     IF q = new THEN node
     ELSE IF q = p THEN [h[q] EXCEPT !.next = new] ELSE h[q]]

Link(h, p, new, node) ==
  [q \in DOMAIN h \cup {new} |->
     IF q = new THEN node
     ELSE IF q = p THEN [h[q] EXCEPT !.next = new]
     ELSE IF q = node.next THEN [h[q] EXCEPT !.prev = new] ELSE h[q]]

\* Fault: the predecessor keeps pointing to the freed node.
UnlinkForgettingNext(h, p) ==
  [q \in DOMAIN h \ {p} |->
     IF q = h[p].next THEN [h[q] EXCEPT !.prev = h[p].prev] ELSE h[q]]

\* n->prev->next = n->next; n->next->prev = n->prev; free(n)
Unlink(h, p) ==
  [q \in DOMAIN h \ {p} |->
     IF q = h[p].prev THEN [h[q] EXCEPT !.next = h[p].next]
     ELSE IF q = h[p].next THEN [h[q] EXCEPT !.prev = h[p].prev] ELSE h[q]]

-----------------------------------------------------------------------------

\* Fault: a gap of exactly w pages is taken too.
FitsExactly(p, w) ==
  heap[p].next # Null /\ heap[heap[p].next].va - End(heap, p) >= w

Fits(p, w) ==
  heap[p].next # Null /\ heap[heap[p].next].va - End(heap, p) > w

Fresh == Addr \ DOMAIN heap

\* The loop stops at the first node whose gap holds the request.
AllocInGap(b, w, alignment) ==
  /\ Pool!MayUseGap(w, alignment)
  /\ \E k \in DOMAIN Walk, new \in Fresh :
       /\ Fits(Walk[k], w)
       /\ \A j \in 1 .. k - 1 : ~Fits(Walk[j], w)
       /\ heap' = Link(heap, Walk[k], new,
                       NewNode(heap, b, w, 0, Walk[k], heap[Walk[k]].next))

\* The node that fragment n of the loop is linked behind.
Behind(new, last, n) == IF n = 1 THEN last ELSE new[n - 1]

LinkFragment(h, b, w, new, last, n) ==
  LET p == Behind(new, last, n) IN Link(h, p, new[n], NewNode(h, b, w, n - 1, p, Null))

\* The heap when n fragments of b, at the addresses in new, have been linked one
\* behind the other, the first one behind the node at last.
Linked(b, w, new, last) ==
  LET after[n \in 0 .. Pool!FragmentNum(w)] ==
        IF n = 0 THEN heap ELSE LinkFragment(after[n - 1], b, w, new, last, n)
  IN  after

\* The loop reached the last node.
AllocAtTail(b, w, alignment) ==
  /\ Pool!MayUseGap(w, alignment) => \A k \in DOMAIN Walk : ~Fits(Walk[k], w)
  /\ \E new \in Injection(1 .. Pool!FragmentNum(w), Fresh) :
       heap' = Linked(b, w, new, Walk[Cardinality(Visited)])[Pool!FragmentNum(w)]

compute_pool_alloc(b, w, alignment) ==
  /\ status = "running"
  /\ b \notin Pool!Live
  /\ AllocInGap(b, w, alignment) \/ AllocAtTail(b, w, alignment)
  /\ \A p \in DOMAIN heap' : End(heap', p) <= VaBound
  /\ UNCHANGED status

UnlinkIfOf(h, b, p) == IF h[p].parent = b THEN Unlink(h, p) ELSE h

\* The heap when n nodes of the walk have been looked at and those of b unlinked.
Unlinked(b) ==
  LET after[n \in 0 .. Cardinality(Visited)] ==
        IF n = 0 THEN heap ELSE UnlinkIfOf(after[n - 1], b, Walk[n])
  IN  after

\* The walk begins at the first node: if its parent_bo matches, n->prev is NULL.
compute_pool_free(b) ==
  /\ status = "running"
  /\ b \in Pool!Live
  /\ IF heap[Origin].parent = b
     THEN status' = "crashed" /\ UNCHANGED heap
     ELSE heap' = Unlinked(b)[Cardinality(Visited)] /\ UNCHANGED status

Init ==
  /\ heap \in [{Origin} -> {[va |-> 0, size |-> Reserved + 1, parent |-> r, frag |-> 0,
                             prev |-> Null, next |-> Null] : r \in Residues}]
  /\ status = "running"

Next ==
  \E b \in Bo :
    \/ \E w \in 1 .. MaxPages, a \in Pool!Alignments : compute_pool_alloc(b, w, a)
    \/ compute_pool_free(b)

Spec == Init /\ [][Next]_vars

-----------------------------------------------------------------------------
(* Properties.                                                             *)

Address == DOMAIN heap

\* next and prev are inverse: compute_pool_free repairs the list through prev,
\* which nothing else ever reads, so a wrong prev only shows much later.
DoublyLinked ==
  \A p \in Address :
    /\ heap[p].next # Null => heap[p].next \in Address /\ heap[heap[p].next].prev = p
    /\ heap[p].prev # Null => heap[p].prev \in Address /\ heap[heap[p].prev].next = p
    /\ heap[p].prev = Null <=> p = Origin

\* The walk of compute_free_context, which follows next, reaches every allocated
\* node and ends at NULL: no node is leaked and no freed one is visited.
NothingLost ==
  /\ Visited = Address
  /\ \A p \in Visited : heap[p].next \in Address \cup {Null}

\* The linked list behaves as the set of nodes in address order of VmPool.
ImplementsVmPool == Pool!PoolSpec
=============================================================================
