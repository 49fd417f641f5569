-------------------------- MODULE VmPoolListProofs --------------------------
(***************************************************************************)
(* The linked list of the address pool, for every set of buffer objects    *)
(* and node addresses, fragment size and reserved area: its links stay in  *)
(* order, and it behaves as the set of nodes of VmPool.                    *)
(***************************************************************************)
EXTENDS VmPoolList, FiniteSetTheorems, TLAPS

PoolFacts == INSTANCE VmPoolProofs WITH pool <- Contents, headParent <- heap[Origin].parent

\* Induction, as VmPoolProofs has it.
LEMMA SetInduction ==
  ASSUME NEW S, 0 \in S, \A n \in Nat : n \in S => n + 1 \in S
  PROVE  Nat \subseteq S
  BY SizesAssumption, BoAssumption, ResiduesAssumption, PoolFacts!SetInduction

\* The same up to a bound.
LEMMA BoundedInduction ==
  ASSUME NEW S, NEW n \in Nat, 0 \in S, \A k \in 0 .. n - 1 : k \in S => k + 1 \in S
  PROVE  0 .. n \subseteq S
  BY SizesAssumption, BoAssumption, ResiduesAssumption, PoolFacts!BoundedInduction

\* A set of natural numbers has a least element.
LEMMA LeastElement ==
  ASSUME NEW S, S \subseteq Nat, S # {}
  PROVE  \E n \in S : \A m \in S : n <= m
  BY SizesAssumption, BoAssumption, ResiduesAssumption, PoolFacts!LeastElement

ListNode ==
  [va : Nat, size : Nat \ {0}, parent : Bo \cup {NullBo}, frag : Nat,
   prev : Addr \cup {Origin, Null}, next : Addr \cup {Origin, Null}]

\* The first node is as compute_create_context left it.
FirstKept(h) ==
  Origin \in DOMAIN h /\ h[Origin].va = 0 /\ h[Origin].size = Reserved + 1 /\ h[Origin].frag = 0

Types(h) ==
  /\ IsFiniteSet(DOMAIN h)
  /\ DOMAIN h \subseteq Addr \cup {Origin}
  /\ h \in [DOMAIN h -> ListNode]

\* The successor of a node points back to it and begins where it ends, or later.
NextLinks(h) ==
  \A p \in DOMAIN h : h[p].next # Null =>
    h[p].next \in DOMAIN h /\ h[h[p].next].prev = p /\ End(h, p) <= h[h[p].next].va

PrevLinks(h) ==
  \A p \in DOMAIN h :
    /\ h[p].prev # Null => h[p].prev \in DOMAIN h /\ h[h[p].prev].next = p
    /\ h[p].prev = Null <=> p = Origin

Sound(h) == FirstKept(h) /\ Types(h) /\ NextLinks(h) /\ PrevLinks(h)

\* A node made for the gap behind the node at p, which holds it.
MadeFor(h, p, node) ==
  /\ node \in ListNode
  /\ node.va = End(h, p) /\ node.prev = p /\ node.next = h[p].next
  /\ h[p].next # Null => node.va + node.size <= h[h[p].next].va

\* The list g has the node at the address new besides those of h.
Extends(g, h, new, node) ==
  /\ Sound(g)
  /\ DOMAIN g = DOMAIN h \cup {new} /\ g[new] = node
  /\ \A q \in DOMAIN h : Entry(g[q]) = Entry(h[q])

-----------------------------------------------------------------------------
(* One assignment to the list.                                             *)

\* A node linked into a gap that holds it leaves the list sound.
LEMMA LinkSound ==
  ASSUME NEW h, Sound(h), NEW p \in DOMAIN h, NEW new \in Addr \ DOMAIN h,
         NEW node, MadeFor(h, p, node)
  PROVE  Extends(Link(h, p, new, node), h, new, node)
<1> DEFINE g == Link(h, p, new, node)
<1> USE DEF MadeFor
<1>1. new \notin {p, Null, Origin} /\ Origin # Null
  BY AddrAssumption
<1>2. /\ h[p] \in ListNode /\ h[p].prev # new /\ h[p].next # new /\ h[p].next # p
      /\ \A q \in DOMAIN h : h[q] \in ListNode /\ h[q].prev # new /\ h[q].next # new
  BY <1>1, AddrAssumption DEF Sound, Types, NextLinks, PrevLinks, End, ListNode
<1>3. /\ DOMAIN g = DOMAIN h \cup {new} /\ g[new] = node
      /\ g[p] = [h[p] EXCEPT !.next = new]
      /\ \A q \in DOMAIN h : q # p /\ q = node.next => g[q] = [h[q] EXCEPT !.prev = new]
      /\ \A q \in DOMAIN h : q # p /\ q # node.next => g[q] = h[q]
  BY <1>1 DEF Link
<1>4. \A q \in DOMAIN h :
         /\ g[q] \in ListNode /\ Entry(g[q]) = Entry(h[q])
         /\ g[q].next = IF q = p THEN new ELSE h[q].next
         /\ g[q].prev = IF q = node.next THEN new ELSE h[q].prev
  BY <1>2, <1>3 DEF ListNode, Entry
<1> HIDE DEF g
<1>5. \A q \in DOMAIN h : g[q].va = h[q].va /\ End(g, q) = End(h, q)
  BY <1>4 DEF Entry, End
<1>6. FirstKept(g)
  BY <1>3, <1>4 DEF Sound, FirstKept, Entry
<1>7. Types(g)
  <2>1. IsFiniteSet(DOMAIN g)
    BY <1>3, FS_AddElement DEF Sound, Types
  <2>2. \A q \in DOMAIN g : g[q] \in ListNode
    BY <1>3, <1>4
  <2>3. g \in [DOMAIN g -> ListNode]
    BY <2>2 DEF Link, g
  <2> QED
    BY <1>3, <2>1, <2>3 DEF Sound, Types
<1>8. NextLinks(g)
  <2> SUFFICES ASSUME NEW q \in DOMAIN g, g[q].next # Null
               PROVE  /\ g[q].next \in DOMAIN g /\ g[g[q].next].prev = q
                      /\ End(g, q) <= g[g[q].next].va
    BY DEF NextLinks
  <2>1. CASE q = new
    BY <1>1, <1>2, <1>3, <1>4, <1>5, <2>1 DEF Sound, NextLinks, End
  <2>2. CASE q = p
    <3>1. g[q].next = new /\ g[new].prev = p /\ g[new].va = End(h, p)
      BY <1>3, <1>4, <2>2
    <3>2. End(g, p) = End(h, p) /\ End(h, p) \in Nat
      BY <1>2, <1>5 DEF End, ListNode
    <3> QED
      BY <1>3, <2>2, <3>1, <3>2
  <2>3. CASE q \in DOMAIN h /\ q # p
    <3>1. g[q].next = h[q].next
      BY <1>4, <2>3
    <3>2. h[q].next \in DOMAIN h /\ h[h[q].next].prev = q /\ End(h, q) <= h[h[q].next].va
      BY <2>3, <3>1 DEF Sound, NextLinks
    <3>3. h[q].next # node.next
      BY <2>3, <3>1, <3>2 DEF Sound, NextLinks
    <3> QED
      BY <1>3, <1>4, <1>5, <2>3, <3>1, <3>2, <3>3
  <2> QED
    BY <1>3, <2>1, <2>2, <2>3
<1>9. PrevLinks(g)
  <2> SUFFICES ASSUME NEW q \in DOMAIN g
               PROVE  /\ g[q].prev # Null => g[q].prev \in DOMAIN g /\ g[g[q].prev].next = q
                      /\ g[q].prev = Null <=> q = Origin
    BY DEF PrevLinks
  <2>1. p # Null
    BY AddrAssumption DEF Sound, Types
  <2>2. CASE q = new
    BY <1>1, <1>3, <1>4, <2>1, <2>2
  <2>3. CASE q \in DOMAIN h /\ q = node.next
    <3>1. q # Origin
      BY <2>1, <2>3, AddrAssumption DEF Sound, NextLinks, PrevLinks, Types
    <3> QED
      BY <1>1, <1>3, <1>4, <2>3, <3>1
  <2>4. CASE q \in DOMAIN h /\ q # node.next
    <3>1. g[q].prev = h[q].prev
      BY <1>4, <2>4
    <3>2. h[q].prev # p
      BY <2>1, <2>4 DEF Sound, PrevLinks
    <3> QED
      BY <1>3, <1>4, <2>4, <3>1, <3>2 DEF Sound, PrevLinks
  <2> QED
    BY <1>3, <2>2, <2>3, <2>4
<1> QED
  BY <1>3, <1>4, <1>6, <1>7, <1>8, <1>9 DEF Extends, Sound, g

\* So does unlinking a node that is not the first.
LEMMA UnlinkSound ==
  ASSUME NEW h, Sound(h), NEW p \in DOMAIN h, p # Origin
  PROVE  /\ Sound(Unlink(h, p))
         /\ DOMAIN Unlink(h, p) = DOMAIN h \ {p}
         /\ \A q \in DOMAIN h \ {p} : Entry(Unlink(h, p)[q]) = Entry(h[q])
<1> DEFINE g == Unlink(h, p)
           before == h[p].prev
           after == h[p].next
<1>1. /\ h[p] \in ListNode /\ before \in DOMAIN h /\ h[before].next = p /\ p # Null
      /\ \A q \in DOMAIN h : h[q] \in ListNode /\ q # Null
      /\ after # Null => after \in DOMAIN h /\ h[after].prev = p /\ End(h, p) <= h[after].va
      /\ End(h, before) <= h[p].va
  BY AddrAssumption DEF Sound, Types, NextLinks, PrevLinks
<1>2. before # p /\ after # p /\ after # before
  BY <1>1 DEF End, ListNode
<1>3. /\ DOMAIN g = DOMAIN h \ {p}
      /\ g[before] = [h[before] EXCEPT !.next = after]
      /\ \A q \in DOMAIN g : q # before /\ q = after => g[q] = [h[q] EXCEPT !.prev = before]
      /\ \A q \in DOMAIN g : q # before /\ q # after => g[q] = h[q]
  BY <1>1, <1>2 DEF Unlink
<1>4. \A q \in DOMAIN g :
         /\ g[q] \in ListNode /\ Entry(g[q]) = Entry(h[q])
         /\ g[q].next = IF q = before THEN after ELSE h[q].next
         /\ g[q].prev = IF q = after THEN before ELSE h[q].prev
  BY <1>1, <1>2, <1>3 DEF ListNode, Entry
<1>5. g \in [DOMAIN g -> ListNode]
  <2>1. \A q \in DOMAIN g : g[q] \in ListNode
    BY <1>4
  <2> QED
    BY <2>1 DEF Unlink
<1> HIDE DEF g, before, after
<1>6. \A q \in DOMAIN g : g[q].va = h[q].va /\ End(g, q) = End(h, q)
  BY <1>4 DEF Entry, End
<1>7. FirstKept(g)
  BY <1>3, <1>4 DEF Sound, FirstKept, Entry
<1>8. Types(g)
  <2>1. IsFiniteSet(DOMAIN g)
    BY <1>3, FS_RemoveElement DEF Sound, Types
  <2> QED
    BY <1>3, <1>5, <2>1 DEF Sound, Types
<1>9. NextLinks(g)
  <2> SUFFICES ASSUME NEW q \in DOMAIN g, g[q].next # Null
               PROVE  /\ g[q].next \in DOMAIN g /\ g[g[q].next].prev = q
                      /\ End(g, q) <= g[g[q].next].va
    BY DEF NextLinks
  <2>1. CASE q = before
    <3>1. g[q].next = after /\ after \in DOMAIN h /\ End(h, p) <= h[after].va
      BY <1>1, <1>4, <2>1
    <3>2. End(h, before) <= End(h, p) /\ End(h, p) <= h[after].va /\ End(h, before) \in Nat /\ End(h, p) \in Nat /\ h[after].va \in Nat
      BY <1>1, <3>1 DEF End, ListNode
    <3> QED
      BY <1>2, <1>3, <1>4, <1>6, <2>1, <3>1, <3>2
  <2>2. CASE q # before
    <3>1. g[q].next = h[q].next
      BY <1>4, <2>2
    <3>2. h[q].next \in DOMAIN h /\ h[h[q].next].prev = q /\ End(h, q) <= h[h[q].next].va
      BY <1>3, <2>2, <3>1 DEF Sound, NextLinks
    <3>3. h[q].next # p /\ h[q].next # after
      BY <1>1, <1>2, <1>3, <2>2, <3>1, <3>2 DEF before
    <3> QED
      BY <1>3, <1>4, <1>6, <2>2, <3>1, <3>2, <3>3
  <2> QED
    BY <2>1, <2>2
<1>10. PrevLinks(g)
  <2> SUFFICES ASSUME NEW q \in DOMAIN g
               PROVE  /\ g[q].prev # Null => g[q].prev \in DOMAIN g /\ g[g[q].prev].next = q
                      /\ g[q].prev = Null <=> q = Origin
    BY DEF PrevLinks
  <2>1. CASE q = after
    <3>1. q # Origin
      BY <1>1, <1>3, <2>1 DEF Sound, PrevLinks
    <3> QED
      BY <1>1, <1>2, <1>3, <1>4, <2>1, <3>1
  <2>2. CASE q # after
    <3>1. g[q].prev = h[q].prev /\ q \in DOMAIN h /\ q # p
      BY <1>3, <1>4, <2>2
    <3>2. h[q].prev # p
      BY <1>1, <2>2, <3>1 DEF Sound, PrevLinks, after
    <3>3. h[q].prev # before
      BY <1>1, <3>1 DEF Sound, PrevLinks
    <3> QED
      BY <1>3, <1>4, <3>1, <3>2, <3>3 DEF Sound, PrevLinks
  <2> QED
    BY <2>1, <2>2
<1> QED
  BY <1>3, <1>4, <1>7, <1>8, <1>9, <1>10 DEF Sound, g

-----------------------------------------------------------------------------
(* The walk along next.                                                    *)

After(x) == IF x \in DOMAIN heap THEN heap[x].next ELSE Null

\* Hop obeys its equation.
LEMMA HopEquation ==
  ASSUME IsFiniteSet(DOMAIN heap)
  PROVE  Hop = [i \in 0 .. Cardinality(DOMAIN heap) |-> IF i = 0 THEN Origin ELSE After(Hop[i - 1])]
<1> DEFINE N == Cardinality(DOMAIN heap)
           S == {n \in Nat : \E f : f = [i \in 0 .. n |-> IF i = 0 THEN Origin ELSE After(f[i - 1])]}
<1>1. N \in Nat
  BY FS_CardinalityType
<1>2. 0 \in S
  <2> DEFINE first == [i \in 0 .. 0 |-> Origin]
  <2>1. first = [i \in 0 .. 0 |-> IF i = 0 THEN Origin ELSE After(first[i - 1])]
    OBVIOUS
  <2> QED
    BY <2>1
<1>3. ASSUME NEW n \in Nat, n \in S PROVE n + 1 \in S
  <2>1. PICK e : e = [i \in 0 .. n |-> IF i = 0 THEN Origin ELSE After(e[i - 1])]
    BY <1>3
  <2> DEFINE g == [i \in 0 .. n + 1 |-> IF i = n + 1 THEN After(e[n]) ELSE e[i]]
  <2>2. \A i \in 0 .. n + 1 : g[i] = IF i = 0 THEN Origin ELSE After(g[i - 1])
    BY <2>1
  <2>3. g = [i \in 0 .. n + 1 |-> IF i = 0 THEN Origin ELSE After(g[i - 1])]
    BY <2>2
  <2> HIDE DEF g
  <2>4. \E f : f = [i \in 0 .. n + 1 |-> IF i = 0 THEN Origin ELSE After(f[i - 1])]
    BY <2>3
  <2> QED
    BY <2>4
<1> HIDE DEF S
<1>4. N \in S
  BY <1>1, <1>2, <1>3, SetInduction
<1>5. \E f : f = [i \in 0 .. N |-> IF i = 0 THEN Origin ELSE After(f[i - 1])]
  BY <1>4 DEF S
<1> QED
  BY <1>5 DEF Hop, After

\* The walk visits every node once, in the order of the addresses, from the
\* first one to one whose next is NULL.
LEMMA WalkVisitsAll ==
  ASSUME Sound(heap)
  PROVE  /\ Cardinality(DOMAIN heap) \in Nat \ {0}
         /\ Visited = DOMAIN heap
         /\ Walk \in [1 .. Cardinality(DOMAIN heap) -> DOMAIN heap]
         /\ Walk[1] = Origin
         /\ heap[Walk[Cardinality(DOMAIN heap)]].next = Null
         /\ \A k \in 1 .. Cardinality(DOMAIN heap) - 1 : heap[Walk[k]].next = Walk[k + 1]
         /\ \A j, k \in 1 .. Cardinality(DOMAIN heap) : j < k => heap[Walk[j]].va < heap[Walk[k]].va
         /\ \A p \in DOMAIN heap : \E k \in 1 .. Cardinality(DOMAIN heap) : Walk[k] = p
<1> DEFINE N == Cardinality(DOMAIN heap)
           Nodes == DOMAIN heap
<1>1. /\ IsFiniteSet(Nodes) /\ N \in Nat /\ Origin \in Nodes /\ Null \notin Nodes
      /\ \A p \in Nodes : heap[p] \in ListNode
      /\ \A p \in Nodes : heap[p].next # Null => heap[p].next \in Nodes /\ heap[p].va < heap[heap[p].next].va
  BY FS_CardinalityType, AddrAssumption DEF Sound, FirstKept, Types, NextLinks, End, ListNode
<1>2. N # 0
  BY <1>1, FS_EmptySet
<1>3. /\ DOMAIN Hop = 0 .. N /\ Hop[0] = Origin
      /\ \A i \in 0 .. N - 1 : Hop[i + 1] = After(Hop[i])
  <2>1. Hop = [i \in 0 .. N |-> IF i = 0 THEN Origin ELSE After(Hop[i - 1])]
    BY <1>1, HopEquation
  <2> HIDE DEF N
  <2> QED
    BY <1>1, <2>1
<1>4. Visited = {Hop[i] : i \in 0 .. N} \cap Nodes
  BY DEF Visited
<1> HIDE DEF N, Nodes
<1>5. ASSUME NEW j \in 0 .. N, Hop[j] \in Nodes
      PROVE  \A i \in 0 .. N : i < j => Hop[i] \in Nodes /\ heap[Hop[i]].va < heap[Hop[j]].va
  <2> DEFINE S == {n \in 0 .. N : Hop[n] \in Nodes =>
                     \A i \in 0 .. N : i < n => Hop[i] \in Nodes /\ heap[Hop[i]].va < heap[Hop[n]].va}
  <2>1. 0 \in S
    BY <1>1
  <2>2. ASSUME NEW n \in 0 .. N - 1, n \in S PROVE n + 1 \in S
    <3> SUFFICES ASSUME Hop[n + 1] \in Nodes, NEW i \in 0 .. N, i < n + 1
                 PROVE  Hop[i] \in Nodes /\ heap[Hop[i]].va < heap[Hop[n + 1]].va
      BY <1>1
    <3>1. Hop[n] \in Nodes /\ Hop[n + 1] = heap[Hop[n]].next
      BY <1>1, <1>3 DEF After, Nodes
    <3>2. heap[Hop[n]].va < heap[Hop[n + 1]].va
      BY <1>1, <3>1
    <3>3. CASE i = n
      BY <3>1, <3>2, <3>3
    <3>4. CASE i < n
      <4>1. Hop[i] \in Nodes /\ heap[Hop[i]].va < heap[Hop[n]].va
        BY <2>2, <3>1, <3>4
      <4>2. heap[Hop[i]].va \in Nat /\ heap[Hop[n]].va \in Nat /\ heap[Hop[n + 1]].va \in Nat
        BY <1>1, <3>1, <4>1 DEF ListNode
      <4> QED
        BY <3>2, <4>1, <4>2
    <3> QED
      BY <1>1, <3>3, <3>4
  <2> HIDE DEF S
  <2>3. 0 .. N \subseteq S
    BY <1>1, <2>1, <2>2, BoundedInduction
  <2> QED
    BY <1>5, <2>3 DEF S
<1>6. \A i, j \in 0 .. N : Hop[i] \in Nodes /\ Hop[i] = Hop[j] => i = j
  <2> SUFFICES ASSUME NEW i \in 0 .. N, NEW j \in 0 .. N, Hop[i] \in Nodes, Hop[i] = Hop[j], i < j
               PROVE  FALSE
    BY <1>1
  <2> QED
    BY <1>1, <1>5 DEF ListNode
<1>7. Hop[N] \notin Nodes
  <2> SUFFICES ASSUME Hop[N] \in Nodes PROVE FALSE
    OBVIOUS
  <2> DEFINE f == [i \in 0 .. N |-> Hop[i]]
  <2>1. f \in [0 .. N -> Nodes]
    BY <1>1, <1>5
  <2>2. IsFiniteSet(0 .. N) /\ Cardinality(0 .. N) = N + 1
    BY <1>1, FS_Interval
  <2>3. \A i, j \in 0 .. N : f[i] = f[j] => i = j
    BY <1>6, <2>1
  <2>4. Cardinality(Nodes) < Cardinality(0 .. N)
    BY <1>1, <2>2 DEF N, Nodes
  <2> HIDE DEF f
  <2> QED
    BY <1>1, <2>1, <2>2, <2>3, <2>4, FS_PigeonHole
<1>8. Nodes \subseteq Visited
  <2> DEFINE Unseen == {a \in Nat : \E p \in Nodes \ Visited : heap[p].va = a}
  <2>1. SUFFICES ASSUME Unseen # {} PROVE FALSE
    BY <1>1 DEF ListNode
  <2>2. PICK a \in Unseen : \A b \in Unseen : a <= b
    <3>1. Unseen \subseteq Nat
      OBVIOUS
    <3> HIDE DEF Unseen
    <3> QED
      BY <2>1, <3>1, LeastElement
  <2>3. PICK p \in Nodes \ Visited : heap[p].va = a
    BY <2>2
  <2>4. p # Origin
    BY <1>1, <1>3, <1>4, <2>3
  <2> DEFINE q == heap[p].prev
  <2>5. q \in Nodes /\ heap[q].next = p /\ q # Null
    BY <1>1, <2>3, <2>4 DEF Sound, PrevLinks, Nodes
  <2>6. heap[q].va < a /\ heap[q].va \in Nat
    BY <1>1, <2>3, <2>5 DEF ListNode
  <2>7. q \in Visited
    BY <2>2, <2>5, <2>6
  <2>8. PICK i \in 0 .. N : Hop[i] = q
    BY <1>4, <2>7
  <2>9. i # N
    BY <1>7, <2>5, <2>8
  <2>10. Hop[i + 1] = p /\ i + 1 \in 0 .. N
    BY <1>1, <1>3, <2>5, <2>8, <2>9 DEF After, Nodes
  <2> QED
    BY <1>4, <2>3, <2>10
<1>9. \A i \in 0 .. N - 1 : Hop[i] \in Nodes
  <2> SUFFICES ASSUME NEW i \in 0 .. N - 1, Hop[i] \notin Nodes PROVE FALSE
    OBVIOUS
  <2>1. \A j \in 0 .. N : Hop[j] \in Nodes => j < i
    BY <1>1, <1>5
  <2>2. \A p \in Nodes : \E j \in 0 .. i - 1 : Hop[j] = p
    BY <1>1, <1>4, <1>8, <2>1
  <2> DEFINE f == [p \in Nodes |-> CHOOSE j \in 0 .. i - 1 : Hop[j] = p]
  <2>3. \A p \in Nodes : f[p] \in 0 .. i - 1 /\ Hop[f[p]] = p
    BY <2>2
  <2>4. f \in [Nodes -> 0 .. i - 1]
    BY <2>3
  <2>5. IsFiniteSet(0 .. i - 1) /\ Cardinality(0 .. i - 1) < N
    <3>1. i \in Nat /\ i < N /\ 0 \in Int /\ i - 1 \in Int
      BY <1>1
    <3>2. IsFiniteSet(0 .. i - 1) /\ Cardinality(0 .. i - 1) = IF 0 > i - 1 THEN 0 ELSE (i - 1) - 0 + 1
      BY <3>1, FS_Interval
    <3> QED
      BY <1>1, <3>1, <3>2
  <2> HIDE DEF f
  <2> QED
    BY <1>1, <2>3, <2>4, <2>5, FS_PigeonHole DEF N, Nodes
<1>10. Visited = Nodes /\ Walk = [k \in 1 .. N |-> Hop[k - 1]]
  BY <1>4, <1>8 DEF Walk, N, Nodes
<1>11. /\ Walk \in [1 .. N -> Nodes] /\ Walk[1] = Origin
       /\ \A k \in 1 .. N - 1 : heap[Walk[k]].next = Walk[k + 1]
  BY <1>1, <1>2, <1>3, <1>9, <1>10 DEF After, Nodes
<1>12. heap[Walk[N]].next = Null
  <2>1. N - 1 \in 0 .. N - 1 /\ Walk[N] = Hop[N - 1]
    BY <1>1, <1>2, <1>10
  <2>2. Hop[N] = heap[Hop[N - 1]].next /\ Hop[N - 1] \in Nodes
    BY <1>1, <1>2, <1>3, <1>9, <2>1 DEF After, Nodes
  <2> QED
    BY <1>1, <1>7, <2>1, <2>2
<1>13. \A j, k \in 1 .. N : j < k => heap[Walk[j]].va < heap[Walk[k]].va
  BY <1>1, <1>5, <1>9, <1>10
<1>14. \A p \in Nodes : \E k \in 1 .. N : Walk[k] = p
  <2> SUFFICES ASSUME NEW p \in Nodes PROVE \E k \in 1 .. N : Walk[k] = p
    OBVIOUS
  <2>1. PICK i \in 0 .. N : Hop[i] = p
    BY <1>4, <1>8
  <2>2. i + 1 \in 1 .. N
    BY <1>1, <1>7, <2>1
  <2> QED
    BY <1>10, <2>1, <2>2
<1> QED
  BY <1>1, <1>2, <1>10, <1>11, <1>12, <1>13, <1>14 DEF N, Nodes

-----------------------------------------------------------------------------
(* The loop that links the fragments behind the last node.                 *)

\* The sizes of the fragments, from the proofs about VmPool.
LEMMA FragmentFacts ==
  ASSUME NEW w \in 1 .. MaxPages
  PROVE  /\ Pool!FragmentNum(w) \in Nat \ {0}
         /\ \A i \in 0 .. Pool!FragmentNum(w) - 1 :
               /\ Pool!FragmentSize(w, i) \in Nat \ {0}
               /\ i * FragPages \in Nat
               /\ i < Pool!FragmentNum(w) - 1 =>
                    i * FragPages + Pool!FragmentSize(w, i) = (i + 1) * FragPages
         /\ Pool!FragmentNum(w) = 1 => Pool!FragmentSize(w, 0) = w
<1>1. w \in Nat \ {0} /\ FragPages \in Nat
  BY SizesAssumption
<1>2. Pool!FragmentNum(w) = PoolFacts!FragmentNum(w)
  BY DEF Pool!FragmentNum, PoolFacts!FragmentNum
<1>3. Pool!FragmentNum(w) \in Nat \ {0}
  BY <1>1, <1>2, SizesAssumption, BoAssumption, ResiduesAssumption, PoolFacts!FragmentNumBounds
<1>4. ASSUME NEW i \in 0 .. Pool!FragmentNum(w) - 1
      PROVE  /\ Pool!FragmentSize(w, i) \in Nat \ {0}
             /\ i * FragPages \in Nat
             /\ i < Pool!FragmentNum(w) - 1 => Pool!FragmentSize(w, i) = FragPages
  <2>1. i \in 0 .. PoolFacts!FragmentNum(w) - 1
    BY <1>2
  <2>2. /\ PoolFacts!FragmentSize(w, i) \in Nat \ {0}
        /\ i * FragPages \in Nat
        /\ i < PoolFacts!FragmentNum(w) - 1 => PoolFacts!FragmentSize(w, i) = FragPages
    BY <1>1, <2>1, SizesAssumption, BoAssumption, ResiduesAssumption, PoolFacts!FragmentBounds
  <2>3. Pool!FragmentSize(w, i) = PoolFacts!FragmentSize(w, i)
    BY DEF Pool!FragmentSize, PoolFacts!FragmentSize
  <2> QED
    BY <1>2, <2>2, <2>3
<1>5. \A i \in 0 .. Pool!FragmentNum(w) - 1 : i * FragPages + FragPages = (i + 1) * FragPages
  BY <1>1, <1>3, SMTT(30)
<1>6. Pool!FragmentNum(w) = 1 => Pool!FragmentSize(w, 0) = w
  <2>1. PoolFacts!FragmentNum(w) = 1 => PoolFacts!FragmentSize(w, 0) = w
    BY <1>1, SizesAssumption, BoAssumption, ResiduesAssumption, PoolFacts!SingleFragment
  <2>2. Pool!FragmentSize(w, 0) = PoolFacts!FragmentSize(w, 0)
    BY DEF Pool!FragmentSize, PoolFacts!FragmentSize
  <2> QED
    BY <1>2, <2>1, <2>2
<1> QED
  BY <1>3, <1>4, <1>5, <1>6

\* The loop that links the fragments of an allocation, as an equation between its turns.
LEMMA LinkedEquation ==
  ASSUME NEW b, NEW w \in 1 .. MaxPages, NEW new, NEW last
  PROVE  Linked(b, w, new, last) =
           [n \in 0 .. Pool!FragmentNum(w) |->
              IF n = 0 THEN heap ELSE LinkFragment(Linked(b, w, new, last)[n - 1], b, w, new, last, n)]
<1> DEFINE S == {m \in Nat : \E f : f =
                   [n \in 0 .. m |-> IF n = 0 THEN heap ELSE LinkFragment(f[n - 1], b, w, new, last, n)]}
<1>1. 0 \in S
  <2> DEFINE first == [n \in 0 .. 0 |-> heap]
  <2>1. first = [n \in 0 .. 0 |-> IF n = 0 THEN heap ELSE LinkFragment(first[n - 1], b, w, new, last, n)]
    OBVIOUS
  <2> QED
    BY <2>1
<1>2. ASSUME NEW m \in Nat, m \in S PROVE m + 1 \in S
  <2>1. PICK e : e = [n \in 0 .. m |-> IF n = 0 THEN heap ELSE LinkFragment(e[n - 1], b, w, new, last, n)]
    BY <1>2
  <2> DEFINE g == [n \in 0 .. m + 1 |-> IF n = m + 1 THEN LinkFragment(e[m], b, w, new, last, n) ELSE e[n]]
  <2>2. \A n \in 0 .. m + 1 : g[n] = IF n = 0 THEN heap ELSE LinkFragment(g[n - 1], b, w, new, last, n)
    BY <2>1
  <2>3. g = [n \in 0 .. m + 1 |-> IF n = 0 THEN heap ELSE LinkFragment(g[n - 1], b, w, new, last, n)]
    BY <2>2
  <2> HIDE DEF g
  <2>4. \E f : f = [n \in 0 .. m + 1 |-> IF n = 0 THEN heap ELSE LinkFragment(f[n - 1], b, w, new, last, n)]
    BY <2>3
  <2> QED
    BY <2>4
<1> HIDE DEF S
<1>3. Pool!FragmentNum(w) \in S
  BY <1>1, <1>2, FragmentFacts, SetInduction
<1>4. \E f : f = [n \in 0 .. Pool!FragmentNum(w) |->
                     IF n = 0 THEN heap ELSE LinkFragment(f[n - 1], b, w, new, last, n)]
  BY <1>3 DEF S
<1> QED
  BY <1>4 DEF Linked

\* The fragments continue the list in their order, one where the other ends.
LEMMA LinkedSound ==
  ASSUME Sound(heap), NEW b \in Bo, NEW w \in 1 .. MaxPages,
         NEW last \in DOMAIN heap, heap[last].next = Null,
         NEW new \in Injection(1 .. Pool!FragmentNum(w), Fresh)
  PROVE  LET h == Linked(b, w, new, last)[Pool!FragmentNum(w)]
         IN  /\ Sound(h)
             /\ DOMAIN h = DOMAIN heap \cup {new[j] : j \in 1 .. Pool!FragmentNum(w)}
             /\ \A q \in DOMAIN heap : Entry(h[q]) = Entry(heap[q])
             /\ \A j \in 1 .. Pool!FragmentNum(w) :
                   Entry(h[new[j]]) = Pool!Fragment(b, End(heap, last), w, j - 1)
<1> DEFINE F == Pool!FragmentNum(w)
           base == End(heap, last)
           L == Linked(b, w, new, last)
           S == {n \in 0 .. F :
                   /\ Sound(L[n])
                   /\ DOMAIN L[n] = DOMAIN heap \cup {new[j] : j \in 1 .. n}
                   /\ Behind(new, last, n + 1) \in DOMAIN L[n]
                   /\ L[n][Behind(new, last, n + 1)].next = Null
                   /\ \A q \in DOMAIN heap : Entry(L[n][q]) = Entry(heap[q])
                   /\ \A j \in 1 .. n : Entry(L[n][new[j]]) = Pool!Fragment(b, base, w, j - 1)}
<1>1. /\ F \in Nat \ {0} /\ base \in Nat /\ FragPages \in Nat
      /\ \A j \in 1 .. F : new[j] \in Addr \ DOMAIN heap
      /\ \A i, j \in 1 .. F : new[i] = new[j] => i = j
  <2>1. F \in Nat \ {0} /\ FragPages \in Nat
    BY FragmentFacts, SizesAssumption
  <2>2. base \in Nat
    BY DEF Sound, Types, ListNode, End
  <2>3. new \in Injection(1 .. F, Fresh)
    OBVIOUS
  <2> HIDE DEF F, base
  <2> QED
    BY <2>1, <2>2, <2>3 DEF Injection, IsInjective, Fresh
<1>2. L[0] = heap /\ \A n \in 0 .. F - 1 : L[n + 1] = LinkFragment(L[n], b, w, new, last, n + 1)
  <2>1. L = [n \in 0 .. F |-> IF n = 0 THEN heap ELSE LinkFragment(L[n - 1], b, w, new, last, n)]
    BY LinkedEquation
  <2> HIDE DEF L, F
  <2> QED
    BY <1>1, <2>1
<1>3. \A i \in 0 .. F - 1 :
         /\ Pool!FragmentSize(w, i) \in Nat \ {0}
         /\ i * FragPages \in Nat
         /\ i < F - 1 => i * FragPages + Pool!FragmentSize(w, i) = (i + 1) * FragPages
  BY FragmentFacts
<1> HIDE DEF F, base, L
<1>4. 0 \in S
  <2>1. Behind(new, last, 0 + 1) = last /\ {new[j] : j \in 1 .. 0} = {}
    BY DEF Behind
  <2> QED
    BY <1>1, <1>2, <2>1
<1>5. ASSUME NEW n \in 0 .. F - 1, n \in S PROVE n + 1 \in S
  <2> DEFINE h == L[n]
             p == Behind(new, last, n + 1)
             node == NewNode(h, b, w, n, p, Null)
  <2>1. L[n + 1] = Link(h, p, new[n + 1], node)
    BY <1>1, <1>2 DEF LinkFragment
  <2>2. /\ Sound(h) /\ p \in DOMAIN h /\ h[p].next = Null
        /\ DOMAIN h = DOMAIN heap \cup {new[j] : j \in 1 .. n}
        /\ \A q \in DOMAIN heap : Entry(h[q]) = Entry(heap[q])
        /\ \A j \in 1 .. n : Entry(h[new[j]]) = Pool!Fragment(b, base, w, j - 1)
    BY <1>5
  <2>3. End(h, p) = base + n * FragPages
    <3>1. CASE n = 0
      <4>1. p = last /\ Entry(h[p]) = Entry(heap[last])
        BY <2>2, <3>1 DEF Behind
      <4> QED
        BY <1>1, <3>1, <4>1 DEF base, End, Entry
    <3>2. CASE n # 0
      <4>1. p = new[n] /\ n \in 1 .. n /\ n - 1 \in 0 .. F - 1 /\ n - 1 < F - 1 /\ (n - 1) + 1 = n
        BY <1>1, <3>2 DEF Behind
      <4>2. Entry(h[p]) = Pool!Fragment(b, base, w, n - 1)
        BY <2>2, <4>1
      <4>3. h[p].va = base + (n - 1) * FragPages /\ h[p].size = Pool!FragmentSize(w, n - 1)
        BY <4>2 DEF Entry, Pool!Fragment
      <4>4. /\ Pool!FragmentSize(w, n - 1) \in Nat /\ (n - 1) * FragPages \in Nat
            /\ (n - 1) * FragPages + Pool!FragmentSize(w, n - 1) = n * FragPages
        BY <1>3, <4>1
      <4> QED
        BY <1>1, <4>3, <4>4 DEF End
    <3> QED
      BY <3>1, <3>2
  <2>4. node \in ListNode /\ node.va = End(h, p) /\ node.prev = p /\ node.next = Null
        /\ Entry(node) = Pool!Fragment(b, base, w, n)
    <3>1. End(h, p) \in Nat
      BY <1>1, <1>3, <2>3
    <3>2. p \in Addr \cup {Origin} /\ Pool!FragmentSize(w, n) \in Nat \ {0} /\ n \in Nat
      BY <1>1, <1>3, <2>2 DEF Sound, Types
    <3> QED
      BY <2>3, <3>1, <3>2 DEF NewNode, ListNode, Entry, Pool!Fragment
  <2>5. new[n + 1] \in Addr \ DOMAIN h
    BY <1>1, <2>2
  <2> HIDE DEF h, p, node
  <2>6. /\ Sound(L[n + 1]) /\ DOMAIN L[n + 1] = DOMAIN h \cup {new[n + 1]}
        /\ L[n + 1][new[n + 1]] = node
        /\ \A q \in DOMAIN h : Entry(L[n + 1][q]) = Entry(h[q])
    <3>1. MadeFor(h, p, node)
      BY <2>2, <2>4 DEF MadeFor
    <3>2. Extends(Link(h, p, new[n + 1], node), h, new[n + 1], node)
      BY <2>2, <2>5, <3>1, LinkSound
    <3> QED
      BY <2>1, <3>2 DEF Extends
  <2>7. Behind(new, last, (n + 1) + 1) = new[n + 1] /\ n + 1 \in 0 .. F
    BY <1>1 DEF Behind
  <2>8. DOMAIN L[n + 1] = DOMAIN heap \cup {new[j] : j \in 1 .. n + 1}
    <3>1. 1 .. n + 1 = (1 .. n) \cup {n + 1}
      BY <1>1
    <3>2. {new[j] : j \in 1 .. n + 1} = {new[j] : j \in 1 .. n} \cup {new[n + 1]}
      BY <3>1
    <3> QED
      BY <2>2, <2>6, <3>2
  <2>9. \A q \in DOMAIN heap : Entry(L[n + 1][q]) = Entry(heap[q])
    BY <2>2, <2>6
  <2>10. \A j \in 1 .. n + 1 : Entry(L[n + 1][new[j]]) = Pool!Fragment(b, base, w, j - 1)
    <3>1. \A j \in 1 .. n : Entry(L[n + 1][new[j]]) = Pool!Fragment(b, base, w, j - 1)
      BY <2>2, <2>6
    <3>2. Entry(L[n + 1][new[n + 1]]) = Pool!Fragment(b, base, w, n)
      BY <2>4, <2>6
    <3>3. \A j \in 1 .. n + 1 : j \in 1 .. n \/ j = n + 1
      BY <1>1
    <3>4. (n + 1) - 1 = n
      BY <1>1
    <3> QED
      BY <3>1, <3>2, <3>3, <3>4
  <2> QED
    BY <2>4, <2>6, <2>7, <2>8, <2>9, <2>10
<1> HIDE DEF S
<1>6. F \in S
  <2>1. 0 .. F \subseteq S
    BY <1>1, <1>4, <1>5, BoundedInduction
  <2> QED
    BY <1>1, <2>1
<1> QED
  BY <1>6 DEF S, F, L, base

-----------------------------------------------------------------------------
(* The loop that unlinks the nodes of an array.                            *)

\* The loop of compute_pool_free over the nodes walked, as an equation between its turns.
LEMMA UnlinkedEquation ==
  ASSUME NEW b, Cardinality(Visited) \in Nat
  PROVE  Unlinked(b) = [n \in 0 .. Cardinality(Visited) |->
                          IF n = 0 THEN heap ELSE UnlinkIfOf(Unlinked(b)[n - 1], b, Walk[n])]
<1> DEFINE S == {m \in Nat : \E f : f =
                   [n \in 0 .. m |-> IF n = 0 THEN heap ELSE UnlinkIfOf(f[n - 1], b, Walk[n])]}
<1>1. 0 \in S
  <2> DEFINE first == [n \in 0 .. 0 |-> heap]
  <2>1. first = [n \in 0 .. 0 |-> IF n = 0 THEN heap ELSE UnlinkIfOf(first[n - 1], b, Walk[n])]
    OBVIOUS
  <2> QED
    BY <2>1
<1>2. ASSUME NEW m \in Nat, m \in S PROVE m + 1 \in S
  <2>1. PICK e : e = [n \in 0 .. m |-> IF n = 0 THEN heap ELSE UnlinkIfOf(e[n - 1], b, Walk[n])]
    BY <1>2
  <2> DEFINE g == [n \in 0 .. m + 1 |-> IF n = m + 1 THEN UnlinkIfOf(e[m], b, Walk[n]) ELSE e[n]]
  <2>2. \A n \in 0 .. m + 1 : g[n] = IF n = 0 THEN heap ELSE UnlinkIfOf(g[n - 1], b, Walk[n])
    BY <2>1
  <2>3. g = [n \in 0 .. m + 1 |-> IF n = 0 THEN heap ELSE UnlinkIfOf(g[n - 1], b, Walk[n])]
    BY <2>2
  <2> HIDE DEF g
  <2>4. \E f : f = [n \in 0 .. m + 1 |-> IF n = 0 THEN heap ELSE UnlinkIfOf(f[n - 1], b, Walk[n])]
    BY <2>3
  <2> QED
    BY <2>4
<1> HIDE DEF S
<1>3. Cardinality(Visited) \in S
  BY <1>1, <1>2, SetInduction
<1>4. \E f : f = [n \in 0 .. Cardinality(Visited) |->
                     IF n = 0 THEN heap ELSE UnlinkIfOf(f[n - 1], b, Walk[n])]
  BY <1>3 DEF S
<1> QED
  BY <1>4 DEF Unlinked

\* Exactly the nodes of the array are gone, unless the first one is taken for one.
LEMMA UnlinkedSound ==
  ASSUME Sound(heap), NEW b, heap[Origin].parent # b
  PROVE  LET h == Unlinked(b)[Cardinality(Visited)]
         IN  /\ Sound(h)
             /\ DOMAIN h = {p \in DOMAIN heap : heap[p].parent # b}
             /\ \A p \in DOMAIN h : Entry(h[p]) = Entry(heap[p])
<1> DEFINE N == Cardinality(Visited)
           U == Unlinked(b)
           S == {n \in 0 .. N :
                   /\ Sound(U[n])
                   /\ DOMAIN U[n] = {p \in DOMAIN heap : ~(heap[p].parent = b /\ \E k \in 1 .. n : Walk[k] = p)}
                   /\ \A p \in DOMAIN U[n] : Entry(U[n][p]) = Entry(heap[p])}
<1>1. /\ N \in Nat \ {0} /\ \A k \in 1 .. N : Walk[k] \in DOMAIN heap
      /\ \A p \in DOMAIN heap : \E k \in 1 .. N : Walk[k] = p
      /\ \A j, k \in 1 .. N : j < k => Walk[j] # Walk[k]
  <2>1. \A p \in DOMAIN heap : heap[p].va \in Nat
    BY DEF Sound, Types, ListNode
  <2>2. \A j, k \in 1 .. N : j < k => heap[Walk[j]].va < heap[Walk[k]].va
    BY WalkVisitsAll
  <2>3. N \in Nat \ {0} /\ Walk \in [1 .. N -> DOMAIN heap]
    BY WalkVisitsAll
  <2>4. \A p \in DOMAIN heap : \E k \in 1 .. N : Walk[k] = p
    BY WalkVisitsAll
  <2> HIDE DEF N
  <2> QED
    BY <2>1, <2>2, <2>3, <2>4
<1>2. U[0] = heap /\ \A n \in 0 .. N - 1 : U[n + 1] = UnlinkIfOf(U[n], b, Walk[n + 1])
  <2>1. U = [n \in 0 .. N |-> IF n = 0 THEN heap ELSE UnlinkIfOf(U[n - 1], b, Walk[n])]
    BY <1>1, UnlinkedEquation
  <2> HIDE DEF U, N
  <2> QED
    BY <1>1, <2>1
<1> HIDE DEF N, U
<1>3. 0 \in S
  BY <1>1, <1>2
<1>4. ASSUME NEW n \in 0 .. N - 1, n \in S PROVE n + 1 \in S
  <2> DEFINE h == U[n]
             p == Walk[n + 1]
  <2>1. U[n + 1] = UnlinkIfOf(h, b, p) /\ n + 1 \in 0 .. N /\ n + 1 \in 1 .. N
    BY <1>1, <1>2
  <2>2. /\ Sound(h) /\ \A q \in DOMAIN h : Entry(h[q]) = Entry(heap[q])
        /\ DOMAIN h = {q \in DOMAIN heap : ~(heap[q].parent = b /\ \E k \in 1 .. n : Walk[k] = q)}
    BY <1>4
  <2>3. p \in DOMAIN heap /\ \A k \in 1 .. n : Walk[k] # p
    BY <1>1, <2>1
  <2>4. p \in DOMAIN h /\ h[p].parent = heap[p].parent
    BY <2>2, <2>3 DEF Entry
  <2>5. \A q : (\E k \in 1 .. n + 1 : Walk[k] = q) <=> (q = p \/ \E k \in 1 .. n : Walk[k] = q)
    <3>1. \A k : k \in 1 .. n + 1 <=> k \in 1 .. n \/ k = n + 1
      BY <1>1
    <3> QED
      BY <3>1
  <2> HIDE DEF h, p
  <2>6. CASE heap[p].parent = b
    <3>1. p # Origin /\ U[n + 1] = Unlink(h, p)
      BY <2>1, <2>4, <2>6 DEF UnlinkIfOf
    <3>2. /\ Sound(Unlink(h, p)) /\ DOMAIN Unlink(h, p) = DOMAIN h \ {p}
          /\ \A q \in DOMAIN h \ {p} : Entry(Unlink(h, p)[q]) = Entry(h[q])
      <4> HIDE DEF S
      <4> QED
        BY <2>2, <2>4, <3>1, UnlinkSound
    <3>3. DOMAIN U[n + 1] = {q \in DOMAIN heap : ~(heap[q].parent = b /\ \E k \in 1 .. n + 1 : Walk[k] = q)}
      BY <2>2, <2>5, <2>6, <3>1, <3>2
    <3>4. \A q \in DOMAIN U[n + 1] : Entry(U[n + 1][q]) = Entry(heap[q])
      BY <2>2, <3>1, <3>2
    <3> QED
      BY <2>1, <3>1, <3>2, <3>3, <3>4
  <2>7. CASE heap[p].parent # b
    <3>1. U[n + 1] = h
      BY <2>1, <2>4, <2>7 DEF UnlinkIfOf
    <3> QED
      BY <2>1, <2>2, <2>5, <2>7, <3>1
  <2> QED
    BY <2>6, <2>7
<1> HIDE DEF S
<1>5. N \in S
  <2>1. 0 .. N \subseteq S
    BY <1>1, <1>3, <1>4, BoundedInduction
  <2> QED
    BY <1>1, <2>1
<1>6. /\ Sound(U[N]) /\ \A p \in DOMAIN U[N] : Entry(U[N][p]) = Entry(heap[p])
      /\ DOMAIN U[N] = {p \in DOMAIN heap : ~(heap[p].parent = b /\ \E k \in 1 .. N : Walk[k] = p)}
  BY <1>5 DEF S
<1>7. DOMAIN U[N] = {p \in DOMAIN heap : heap[p].parent # b}
  BY <1>1, <1>6
<1> QED
  BY <1>6, <1>7 DEF U, N

-----------------------------------------------------------------------------
(* The calls.                                                              *)

\* A request placed in a gap: the gap is the first that holds it.
LEMMA AllocInGapSound ==
  ASSUME Sound(heap), NEW b \in Bo, NEW w \in 1 .. MaxPages, NEW alignment,
         AllocInGap(b, w, alignment)
  PROVE  \E k \in DOMAIN Walk, new \in Fresh, node \in ListNode :
           /\ Fits(Walk[k], w) /\ \A j \in 1 .. k - 1 : ~Fits(Walk[j], w)
           /\ Extends(heap', heap, new, node)
           /\ Entry(node) = Pool!Fragment(b, End(heap, Walk[k]), w, 0)
<1>1. PICK k \in DOMAIN Walk, new \in Fresh :
        /\ Fits(Walk[k], w) /\ \A j \in 1 .. k - 1 : ~Fits(Walk[j], w)
        /\ heap' = Link(heap, Walk[k], new, NewNode(heap, b, w, 0, Walk[k], heap[Walk[k]].next))
  BY DEF AllocInGap
<1> DEFINE p == Walk[k]
           node == NewNode(heap, b, w, 0, p, heap[p].next)
<1>2. p \in DOMAIN heap /\ heap[p] \in ListNode
  BY WalkVisitsAll DEF Sound, Types
<1>3. Pool!FragmentSize(w, 0) = w /\ w \in Nat \ {0}
  BY FragmentFacts, SizesAssumption DEF AllocInGap, Pool!MayUseGap
<1>4. heap[p].next # Null /\ heap[heap[p].next].va - End(heap, p) > w
  BY <1>1 DEF Fits
<1>5. heap[heap[p].next] \in ListNode
  BY <1>2, <1>4 DEF Sound, NextLinks, Types
<1> HIDE DEF p
<1>6. /\ node \in ListNode /\ node.va = End(heap, p) /\ node.size = w
      /\ node.prev = p /\ node.next = heap[p].next
  <2>1. p \in Addr \cup {Origin} /\ End(heap, p) \in Nat
    BY <1>2 DEF Sound, Types, End, ListNode
  <2> QED
    BY <1>2, <1>3, <2>1 DEF NewNode, ListNode
<1>7. node.va + node.size <= heap[heap[p].next].va
  <2>1. End(heap, p) \in Nat /\ heap[heap[p].next].va \in Nat
    BY <1>2, <1>5 DEF End, ListNode
  <2> QED
    BY <1>3, <1>4, <1>6, <2>1
<1>8. Entry(node) = Pool!Fragment(b, End(heap, p), w, 0)
  <2>1. End(heap, p) + 0 * FragPages = End(heap, p)
    BY <1>2, SizesAssumption DEF End, ListNode
  <2> QED
    BY <2>1 DEF NewNode, Entry, Pool!Fragment
<1>9. heap' = Link(heap, p, new, node)
  BY <1>1 DEF p
<1> HIDE DEF node
<1>10. MadeFor(heap, p, node)
  BY <1>6, <1>7 DEF MadeFor
<1>11. Extends(heap', heap, new, node)
  BY <1>2, <1>9, <1>10, LinkSound DEF Fresh
<1> QED
  BY <1>1, <1>6, <1>8, <1>11 DEF p

\* A request placed at the end of the list.
LEMMA AllocAtTailSound ==
  ASSUME Sound(heap), NEW b \in Bo, NEW w \in 1 .. MaxPages, NEW alignment,
         AllocAtTail(b, w, alignment)
  PROVE  \E last \in DOMAIN heap, new \in Injection(1 .. Pool!FragmentNum(w), Fresh) :
           /\ heap[last].next = Null
           /\ Sound(heap')
           /\ DOMAIN heap' = DOMAIN heap \cup {new[j] : j \in 1 .. Pool!FragmentNum(w)}
           /\ \A q \in DOMAIN heap : Entry(heap'[q]) = Entry(heap[q])
           /\ \A j \in 1 .. Pool!FragmentNum(w) :
                 Entry(heap'[new[j]]) = Pool!Fragment(b, End(heap, last), w, j - 1)
<1> DEFINE last == Walk[Cardinality(Visited)]
<1>1. PICK new \in Injection(1 .. Pool!FragmentNum(w), Fresh) :
        heap' = Linked(b, w, new, last)[Pool!FragmentNum(w)]
  BY DEF AllocAtTail
<1>2. last \in DOMAIN heap /\ heap[last].next = Null
  BY WalkVisitsAll
<1> HIDE DEF last
<1> QED
  BY <1>1, <1>2, LinkedSound

\* The list compute_create_context builds, one reserved node, is sound.
LEMMA InitSound == Init => Sound(heap) /\ DOMAIN heap = {Origin}
<1> SUFFICES ASSUME Init PROVE Sound(heap) /\ DOMAIN heap = {Origin}
  OBVIOUS
<1>1. /\ DOMAIN heap = {Origin} /\ heap \in [{Origin} -> ListNode]
      /\ heap[Origin].va = 0 /\ heap[Origin].size = Reserved + 1 /\ heap[Origin].frag = 0
      /\ heap[Origin].prev = Null /\ heap[Origin].next = Null
  BY SizesAssumption, ResiduesAssumption DEF Init, ListNode
<1>2. IsFiniteSet(DOMAIN heap)
  BY <1>1, FS_Singleton
<1> QED
  BY <1>1, <1>2 DEF Sound, FirstKept, Types, NextLinks, PrevLinks

\* Every call leaves the list sound.
LEMMA StepSound ==
  ASSUME Sound(heap), [Next]_vars
  PROVE  Sound(heap')
<1>1. ASSUME NEW b \in Bo, NEW w \in 1 .. MaxPages, NEW alignment, AllocInGap(b, w, alignment)
      PROVE  Sound(heap')
  BY <1>1, AllocInGapSound DEF Extends
<1>2. ASSUME NEW b \in Bo, NEW w \in 1 .. MaxPages, NEW alignment, AllocAtTail(b, w, alignment)
      PROVE  Sound(heap')
  BY <1>2, AllocAtTailSound
<1>3. ASSUME NEW b \in Bo, compute_pool_free(b) PROVE Sound(heap')
  <2>1. CASE heap[Origin].parent = b
    BY <1>3, <2>1 DEF compute_pool_free
  <2>2. CASE heap[Origin].parent # b
    BY <1>3, <2>2, UnlinkedSound DEF compute_pool_free
  <2> QED
    BY <2>1, <2>2
<1>4. CASE UNCHANGED vars
  BY <1>4 DEF vars
<1> QED
  BY <1>1, <1>2, <1>3, <1>4 DEF Next, compute_pool_alloc

-----------------------------------------------------------------------------
(* Theorems about the list.                                                *)

\* The list is sound at every call.
THEOREM ListInvariance == Spec => []Sound(heap)
<1>1. Init => Sound(heap)
  BY InitSound
<1>2. Sound(heap) /\ [Next]_vars => Sound(heap)'
  BY StepSound
<1> QED
  BY <1>1, <1>2, PTL DEF Spec

\* next and prev are inverse.
THEOREM ListDoublyLinked == Spec => []DoublyLinked
<1>1. Sound(heap) => DoublyLinked
  BY DEF Sound, NextLinks, PrevLinks, DoublyLinked, Address
<1> QED
  BY <1>1, ListInvariance, PTL

\* Following next reaches every node that malloc gave and free did not take.
THEOREM ListNothingLost == Spec => []NothingLost
<1>1. Sound(heap) => NothingLost
  BY WalkVisitsAll DEF Sound, NextLinks, NothingLost, Address
<1> QED
  BY <1>1, ListInvariance, PTL

-----------------------------------------------------------------------------
(* The list as the set of its nodes.                                       *)

Entries(h) == {Entry(h[p]) : p \in DOMAIN h \ {Origin}}

\* In a sound list the walk misses no node: what it shows is all the heap holds.
LEMMA ContentsAreEntries == Sound(heap) => Contents = Entries(heap)
BY WalkVisitsAll DEF Contents, Entries

\* What VmPool says of two nodes by their addresses, the links say.
LEMMA LinksAreOrder ==
  ASSUME Sound(heap)
  PROVE  /\ Pool!List = {Entry(heap[p]) : p \in DOMAIN heap}
         /\ \A p \in DOMAIN heap : Pool!End(Entry(heap[p])) = End(heap, p)
         /\ \A p, q \in DOMAIN heap : Pool!IsNext(Entry(heap[p]), Entry(heap[q])) <=> heap[p].next = q
         /\ \A p \in DOMAIN heap : heap[p].next = Null => Pool!IsLast(Entry(heap[p]))
<1> DEFINE N == Cardinality(DOMAIN heap)
<1>1. Pool!List = {Entry(heap[p]) : p \in DOMAIN heap}
  <2>1. Pool!First = Entry(heap[Origin]) /\ Origin \in DOMAIN heap
    BY DEF Sound, FirstKept, Pool!First, Entry
  <2> QED
    BY <2>1, ContentsAreEntries DEF Pool!List, Entries
<1>2. \A p \in DOMAIN heap : Entry(heap[p]).va = heap[p].va /\ heap[p].va \in Nat
  BY DEF Sound, Types, ListNode, Entry
<1>3. /\ N \in Nat \ {0} /\ Null \notin DOMAIN heap
      /\ \A k \in 1 .. N : Walk[k] \in DOMAIN heap
      /\ \A p \in DOMAIN heap : \E k \in 1 .. N : Walk[k] = p
      /\ \A j, k \in 1 .. N : j < k => heap[Walk[j]].va < heap[Walk[k]].va
      /\ \A k \in 1 .. N - 1 : heap[Walk[k]].next = Walk[k + 1]
      /\ heap[Walk[N]].next = Null
  <2>1. Null \notin DOMAIN heap
    BY AddrAssumption DEF Sound, Types
  <2> QED
    BY <2>1, WalkVisitsAll
<1> HIDE DEF N
<1>4. \A j, k \in 1 .. N : heap[Walk[j]].va < heap[Walk[k]].va => j < k
  BY <1>2, <1>3
<1>5. ASSUME NEW p \in DOMAIN heap, NEW q \in DOMAIN heap
      PROVE  Pool!IsNext(Entry(heap[p]), Entry(heap[q])) <=> heap[p].next = q
  <2>1. PICK j \in 1 .. N : Walk[j] = p
    BY <1>3
  <2>2. PICK k \in 1 .. N : Walk[k] = q
    BY <1>3
  <2>3. Pool!IsNext(Entry(heap[p]), Entry(heap[q])) <=>
          /\ heap[p].va < heap[q].va
          /\ ~\E r \in DOMAIN heap : heap[p].va < heap[r].va /\ heap[r].va < heap[q].va
    BY <1>1, <1>2 DEF Pool!IsNext
  <2>4. ASSUME heap[p].va < heap[q].va,
               ~\E r \in DOMAIN heap : heap[p].va < heap[r].va /\ heap[r].va < heap[q].va
        PROVE  heap[p].next = q
    <3>1. j < k
      BY <1>4, <2>1, <2>2, <2>4
    <3>2. j \in 1 .. N - 1 /\ j + 1 \in 1 .. N /\ j < j + 1
      BY <1>3, <3>1
    <3>3. ~(j + 1 < k)
      BY <1>3, <2>1, <2>2, <2>4, <3>2
    <3>4. k = j + 1
      BY <3>1, <3>3
    <3> QED
      BY <1>3, <2>1, <2>2, <3>2, <3>4
  <2>5. ASSUME heap[p].next = q
        PROVE  /\ heap[p].va < heap[q].va
               /\ ~\E r \in DOMAIN heap : heap[p].va < heap[r].va /\ heap[r].va < heap[q].va
    <3>1. j # N
      BY <1>3, <2>1, <2>5
    <3>2. j \in 1 .. N - 1 /\ j + 1 \in 1 .. N /\ q = Walk[j + 1]
      BY <1>3, <2>1, <2>5, <3>1
    <3>3. heap[p].va < heap[q].va
      BY <1>3, <2>1, <3>2
    <3>4. ASSUME NEW r \in DOMAIN heap, heap[p].va < heap[r].va, heap[r].va < heap[q].va PROVE FALSE
      <4>1. PICK i \in 1 .. N : Walk[i] = r
        BY <1>3
      <4>2. j < i /\ i < j + 1
        BY <1>4, <2>1, <3>2, <3>4, <4>1
      <4> QED
        BY <1>3, <4>2
    <3> QED
      BY <3>3, <3>4
  <2> QED
    BY <2>3, <2>4, <2>5
<1>6. ASSUME NEW p \in DOMAIN heap, heap[p].next = Null
      PROVE  Pool!IsLast(Entry(heap[p]))
  <2>1. PICK j \in 1 .. N : Walk[j] = p
    BY <1>3
  <2>2. j = N
    <3> SUFFICES ASSUME j # N PROVE FALSE
      OBVIOUS
    <3>1. j \in 1 .. N - 1 /\ j + 1 \in 1 .. N
      BY <1>3
    <3> QED
      BY <1>3, <1>6, <2>1, <3>1
  <2>3. \A q \in DOMAIN heap : heap[q].va <= heap[p].va
    <3> SUFFICES ASSUME NEW q \in DOMAIN heap PROVE heap[q].va <= heap[p].va
      OBVIOUS
    <3>1. PICK k \in 1 .. N : Walk[k] = q
      BY <1>3
    <3> QED
      BY <1>2, <1>3, <2>1, <2>2, <3>1
  <2> QED
    BY <1>1, <1>2, <2>3 DEF Pool!IsLast
<1> QED
  BY <1>1, <1>5, <1>6 DEF Pool!End, End, Entry

\* A gap fits in the list exactly if it fits in the set.
LEMMA FitsIsFitsAfter ==
  ASSUME Sound(heap), NEW p \in DOMAIN heap, NEW w
  PROVE  Pool!FitsAfter(Entry(heap[p]), w) <=> Fits(p, w)
<1>1. Pool!FitsAfter(Entry(heap[p]), w) <=>
        \E q \in DOMAIN heap : heap[p].next = q /\ heap[q].va - End(heap, p) > w
  <2>1. \A q \in DOMAIN heap : Entry(heap[q]).va = heap[q].va
    BY DEF Entry
  <2> QED
    BY <2>1, LinksAreOrder DEF Pool!FitsAfter
<1>2. heap[p].next # Null <=> heap[p].next \in DOMAIN heap
  BY AddrAssumption DEF Sound, NextLinks, Types
<1> QED
  BY <1>1, <1>2 DEF Fits

-----------------------------------------------------------------------------
(* Refinement.                                                             *)

\* The reserved node alone stands for the empty pool.
LEMMA InitRefines == Init => Pool!PoolInit
<1>1. Init => Contents = {}
  BY InitSound, ContentsAreEntries DEF Entries
<1>2. Init => heap[Origin].parent \in Residues /\ status = "running"
  BY DEF Init
<1> QED
  BY <1>1, <1>2 DEF Pool!PoolInit

\* Placing an object before the node the scan stops at is the first-fit placement of VmPool.
LEMMA AllocInGapRefines ==
  ASSUME Sound(heap), Contents' = Entries(heap'), NEW b \in Bo, NEW w \in 1 .. MaxPages,
         NEW alignment, AllocInGap(b, w, alignment)
  PROVE  Pool!AllocInGap(b, w, alignment) /\ heap'[Origin].parent = heap[Origin].parent
<1>1. PICK k \in DOMAIN Walk, new \in Fresh, node \in ListNode :
        /\ Fits(Walk[k], w) /\ \A j \in 1 .. k - 1 : ~Fits(Walk[j], w)
        /\ Extends(heap', heap, new, node)
        /\ Entry(node) = Pool!Fragment(b, End(heap, Walk[k]), w, 0)
  BY AllocInGapSound
<1> DEFINE p == Walk[k]
           n == Entry(heap[p])
<1>2. /\ Cardinality(DOMAIN heap) \in Nat /\ DOMAIN Walk = 1 .. Cardinality(DOMAIN heap)
      /\ p \in DOMAIN heap /\ k \in 1 .. Cardinality(DOMAIN heap)
  BY WalkVisitsAll
<1>3. n \in Pool!List /\ Pool!End(n) = End(heap, p)
  BY <1>2, LinksAreOrder
<1>4. Pool!FirstFit(n, w)
  <2>1. Pool!FitsAfter(n, w)
    BY <1>1, <1>2, FitsIsFitsAfter
  <2>2. ASSUME NEW m \in Pool!List, Pool!FitsAfter(m, w) PROVE n.va <= m.va
    <3>1. PICK q \in DOMAIN heap : m = Entry(heap[q])
      BY LinksAreOrder
    <3>2. Fits(q, w)
      BY <2>2, <3>1, FitsIsFitsAfter
    <3>3. PICK j \in 1 .. Cardinality(DOMAIN heap) : Walk[j] = q
      BY WalkVisitsAll
    <3>4. ~(j < k)
      BY <1>1, <1>2, <3>2, <3>3
    <3>5. heap[p].va <= heap[q].va
      <4>1. heap[p].va \in Nat /\ heap[q].va \in Nat
        BY <1>2 DEF Sound, Types, ListNode
      <4>2. CASE j = k
        BY <3>3, <4>1, <4>2
      <4>3. CASE k < j
        BY <1>2, <3>3, <4>1, <4>3, WalkVisitsAll
      <4> QED
        BY <1>2, <3>4, <4>2, <4>3
    <3> QED
      BY <3>1, <3>5 DEF Entry
  <2> QED
    BY <2>1, <2>2 DEF Pool!FirstFit
<1>5. Contents' = Contents \cup Pool!Fragments(b, End(heap, p), w)
  <2>1. Pool!FragmentNum(w) = 1
    BY DEF AllocInGap, Pool!MayUseGap
  <2>2. Pool!Fragments(b, End(heap, p), w) = {Pool!Fragment(b, End(heap, p), w, 0)}
    BY <2>1 DEF Pool!Fragments
  <2>3. /\ DOMAIN heap' = DOMAIN heap \cup {new} /\ new # Origin
        /\ Entry(heap'[new]) = Pool!Fragment(b, End(heap, p), w, 0)
        /\ \A q \in DOMAIN heap : Entry(heap'[q]) = Entry(heap[q])
    BY <1>1, AddrAssumption DEF Extends, Fresh
  <2>4. Entries(heap') = Entries(heap) \cup {Entry(heap'[new])}
    BY <2>3 DEF Entries
  <2> QED
    BY <2>2, <2>3, <2>4, ContentsAreEntries
<1>6. Pool!AllocInGap(b, w, alignment)
  <2>1. Pool!MayUseGap(w, alignment)
    BY DEF AllocInGap
  <2> HIDE DEF n
  <2> QED
    BY <1>3, <1>4, <1>5, <2>1 DEF Pool!AllocInGap
<1>7. heap'[Origin].parent = heap[Origin].parent
  BY <1>1 DEF Extends, Sound, FirstKept, Entry
<1> QED
  BY <1>6, <1>7

\* Placing an object after the last node is the placement of VmPool behind every fragment.
LEMMA AllocAtTailRefines ==
  ASSUME Sound(heap), Contents' = Entries(heap'), NEW b \in Bo, NEW w \in 1 .. MaxPages,
         NEW alignment, AllocAtTail(b, w, alignment)
  PROVE  Pool!AllocAtTail(b, w, alignment) /\ heap'[Origin].parent = heap[Origin].parent
<1> DEFINE F == Pool!FragmentNum(w)
<1>1. PICK last \in DOMAIN heap, new \in Injection(1 .. F, Fresh) :
        /\ heap[last].next = Null
        /\ DOMAIN heap' = DOMAIN heap \cup {new[j] : j \in 1 .. F}
        /\ \A q \in DOMAIN heap : Entry(heap'[q]) = Entry(heap[q])
        /\ \A j \in 1 .. F : Entry(heap'[new[j]]) = Pool!Fragment(b, End(heap, last), w, j - 1)
  BY AllocAtTailSound
<1> DEFINE n == Entry(heap[last])
<1>2. n \in Pool!List /\ Pool!End(n) = End(heap, last) /\ Pool!IsLast(n)
  BY <1>1, LinksAreOrder
<1>3. F \in Nat \ {0} /\ \A j \in 1 .. F : new[j] \notin DOMAIN heap /\ new[j] # Origin
  <2>1. F \in Nat \ {0}
    BY FragmentFacts
  <2> HIDE DEF F
  <2> QED
    BY <2>1, AddrAssumption DEF Injection, Fresh
<1> HIDE DEF F
<1>4. {Entry(heap'[new[j]]) : j \in 1 .. F} = Pool!Fragments(b, End(heap, last), w)
  <2>1. Pool!Fragments(b, End(heap, last), w) = {Pool!Fragment(b, End(heap, last), w, i) : i \in 0 .. F - 1}
    BY DEF Pool!Fragments, F
  <2>2. ASSUME NEW i \in 0 .. F - 1
        PROVE  i + 1 \in 1 .. F /\ Entry(heap'[new[i + 1]]) = Pool!Fragment(b, End(heap, last), w, i)
    BY <1>1, <1>3
  <2>3. ASSUME NEW j \in 1 .. F
        PROVE  j - 1 \in 0 .. F - 1 /\ Entry(heap'[new[j]]) = Pool!Fragment(b, End(heap, last), w, j - 1)
    <3>1. j - 1 \in 0 .. F - 1
      BY <1>3
    <3> QED
      BY <1>1, <3>1
  <2> QED
    BY <2>1, <2>2, <2>3
<1>5. Entries(heap') = Entries(heap) \cup {Entry(heap'[new[j]]) : j \in 1 .. F}
  <2>1. Entries(heap') \subseteq Entries(heap) \cup {Entry(heap'[new[j]]) : j \in 1 .. F}
    BY <1>1 DEF Entries
  <2>2. Entries(heap) \subseteq Entries(heap')
    BY <1>1 DEF Entries
  <2>3. {Entry(heap'[new[j]]) : j \in 1 .. F} \subseteq Entries(heap')
    BY <1>1, <1>3 DEF Entries
  <2> QED
    BY <2>1, <2>2, <2>3
<1>6. Contents' = Contents \cup Pool!Fragments(b, Pool!End(n), w)
  BY <1>2, <1>4, <1>5, ContentsAreEntries
<1>7. Pool!MayUseGap(w, alignment) => \A m \in Pool!List : ~Pool!FitsAfter(m, w)
  <2> SUFFICES ASSUME Pool!MayUseGap(w, alignment), NEW m \in Pool!List, Pool!FitsAfter(m, w)
               PROVE  FALSE
    OBVIOUS
  <2>1. PICK q \in DOMAIN heap : m = Entry(heap[q])
    BY LinksAreOrder
  <2>2. PICK k \in DOMAIN Walk : Walk[k] = q
    BY WalkVisitsAll
  <2>3. Fits(q, w)
    BY <2>1, FitsIsFitsAfter
  <2> QED
    BY <2>2, <2>3 DEF AllocAtTail
<1>8. Pool!AllocAtTail(b, w, alignment)
  <2> HIDE DEF n
  <2> QED
    BY <1>2, <1>6, <1>7 DEF Pool!AllocAtTail
<1>9. heap'[Origin].parent = heap[Origin].parent
  BY <1>1 DEF Sound, FirstKept, Entry
<1> QED
  BY <1>8, <1>9

\* Between them, every allocation in the list is one in the pool.
LEMMA AllocRefines ==
  ASSUME Sound(heap), Contents' = Entries(heap'), NEW b \in Bo, NEW w \in 1 .. MaxPages,
         NEW alignment, compute_pool_alloc(b, w, alignment)
  PROVE  Pool!compute_pool_alloc(b, w, alignment)
<1>1. /\ Pool!AllocInGap(b, w, alignment) \/ Pool!AllocAtTail(b, w, alignment)
      /\ heap'[Origin].parent = heap[Origin].parent
  BY AllocInGapRefines, AllocAtTailRefines DEF compute_pool_alloc
<1>2. \A n \in Contents' : Pool!End(n) <= VaBound
  BY DEF compute_pool_alloc, Entries, Entry, End, Pool!End
<1> QED
  BY <1>1, <1>2 DEF compute_pool_alloc, Pool!compute_pool_alloc

\* Unlinking the nodes of an object, or stopping at the first node, is freeing it in the pool.
LEMMA FreeRefines ==
  ASSUME Sound(heap), Contents' = Entries(heap'), NEW b \in Bo, compute_pool_free(b)
  PROVE  Pool!compute_pool_free(b)
<1>1. CASE heap[Origin].parent = b
  <2>1. Contents' = Contents /\ heap' = heap
    BY <1>1, ContentsAreEntries DEF compute_pool_free
  <2> QED
    BY <1>1, <2>1 DEF compute_pool_free, Pool!compute_pool_free
<1>2. CASE heap[Origin].parent # b
  <2>1. /\ DOMAIN heap' = {p \in DOMAIN heap : heap[p].parent # b}
        /\ \A p \in DOMAIN heap' : Entry(heap'[p]) = Entry(heap[p])
    BY <1>2, UnlinkedSound DEF compute_pool_free
  <2>2. \A p \in DOMAIN heap : Entry(heap[p]).parent = heap[p].parent
    BY DEF Entry
  <2>3. Entries(heap') = {n \in Entries(heap) : n.parent # b}
    BY <2>1, <2>2 DEF Entries
  <2>4. heap'[Origin].parent = heap[Origin].parent
    BY <1>2, <2>1 DEF Sound, FirstKept, Entry
  <2> QED
    BY <1>2, <2>3, <2>4, ContentsAreEntries DEF compute_pool_free, Pool!compute_pool_free
<1> QED
  BY <1>1, <1>2

\* The linked list implements the set of nodes of VmPool, and with it everything
\* that is proved of that.
THEOREM ListRefinesPool == Spec => ImplementsVmPool
<1>1. Init => Pool!PoolInit
  BY InitRefines
<1>2. (Sound(heap) => Contents = Entries(heap))'
  BY ContentsAreEntries, PTL
<1>3. Sound(heap) /\ Sound(heap)' /\ [Next]_vars => [Pool!PoolNext]_(Pool!poolVars)
  <2> SUFFICES ASSUME Sound(heap), Sound(heap)', [Next]_vars
               PROVE  [Pool!PoolNext]_(Pool!poolVars)
    OBVIOUS
  <2>1. Contents' = Entries(heap')
    BY <1>2
  <2>2. ASSUME NEW b \in Bo, NEW w \in 1 .. MaxPages, NEW a \in Pool!Alignments, compute_pool_alloc(b, w, a)
        PROVE  Pool!PoolNext
    BY <2>1, <2>2, AllocRefines DEF Pool!PoolNext
  <2>3. ASSUME NEW b \in Bo, compute_pool_free(b) PROVE Pool!PoolNext
    BY <2>1, <2>3, FreeRefines DEF Pool!PoolNext
  <2>4. CASE UNCHANGED vars
    BY <2>1, <2>4, ContentsAreEntries DEF vars, Pool!poolVars
  <2> QED
    BY <2>2, <2>3, <2>4 DEF Next
<1> QED
  BY <1>1, <1>3, ListInvariance, PTL DEF Spec, ImplementsVmPool, Pool!PoolSpec

-----------------------------------------------------------------------------
(* What the refinement gives: the theorems of VmPoolProofs hold of the list. *)

\* The instance of VmPool that VmPoolProofs is about is the one refined.
LEMMA SamePool == Pool!PoolSpec => PoolFacts!PoolSpec
<1>1. Pool!PoolInit => PoolFacts!PoolInit
  BY DEF Pool!PoolInit, PoolFacts!PoolInit
<1>2. ASSUME NEW b \in Bo, Pool!compute_pool_free(b)
      PROVE  PoolFacts!compute_pool_free(b)
  BY <1>2 DEF Pool!compute_pool_free, PoolFacts!compute_pool_free, Pool!Live, PoolFacts!Live
<1>3. Pool!List = PoolFacts!List
  BY DEF Pool!List, PoolFacts!List, Pool!First, PoolFacts!First
<1>4. \A n : Pool!End(n) = PoolFacts!End(n)
  BY DEF Pool!End, PoolFacts!End
<1>5. \A b, base, w : Pool!Fragments(b, base, w) = PoolFacts!Fragments(b, base, w)
  BY DEF Pool!Fragments, PoolFacts!Fragments, Pool!Fragment, PoolFacts!Fragment,
         Pool!FragmentNum, PoolFacts!FragmentNum, Pool!FragmentSize, PoolFacts!FragmentSize
<1>6. \A w, a : Pool!MayUseGap(w, a) <=> PoolFacts!MayUseGap(w, a)
  BY DEF Pool!MayUseGap, PoolFacts!MayUseGap, Pool!FragmentNum, PoolFacts!FragmentNum
<1>7. \A n : Pool!IsLast(n) <=> PoolFacts!IsLast(n)
  BY <1>3 DEF Pool!IsLast, PoolFacts!IsLast
<1>8. \A n, w : Pool!FitsAfter(n, w) <=> PoolFacts!FitsAfter(n, w)
  BY <1>3, <1>4 DEF Pool!FitsAfter, PoolFacts!FitsAfter, Pool!IsNext, PoolFacts!IsNext
<1>9. \A n, w : Pool!FirstFit(n, w) <=> PoolFacts!FirstFit(n, w)
  BY <1>3, <1>8 DEF Pool!FirstFit, PoolFacts!FirstFit
<1>10. ASSUME NEW b \in Bo, NEW w, NEW a, Pool!compute_pool_alloc(b, w, a)
       PROVE  PoolFacts!compute_pool_alloc(b, w, a)
  <2>1. Pool!AllocInGap(b, w, a) => PoolFacts!AllocInGap(b, w, a)
    BY <1>3, <1>4, <1>5, <1>6, <1>9 DEF Pool!AllocInGap, PoolFacts!AllocInGap
  <2>2. Pool!AllocAtTail(b, w, a) => PoolFacts!AllocAtTail(b, w, a)
    BY <1>3, <1>4, <1>5, <1>6, <1>7, <1>8 DEF Pool!AllocAtTail, PoolFacts!AllocAtTail
  <2> QED
    BY <1>4, <1>10, <2>1, <2>2
    DEF Pool!compute_pool_alloc, PoolFacts!compute_pool_alloc, Pool!Live, PoolFacts!Live
<1>11. [Pool!PoolNext]_(Pool!poolVars) => [PoolFacts!PoolNext]_(PoolFacts!poolVars)
  BY <1>2, <1>10 DEF Pool!PoolNext, PoolFacts!PoolNext, Pool!Alignments, PoolFacts!Alignments,
                     Pool!poolVars, PoolFacts!poolVars
<1> QED
  BY <1>1, <1>11, PTL DEF Pool!PoolSpec, PoolFacts!PoolSpec

\* No two nodes of the list share a page, the fragments of an array follow each
\* other without a hole, and compute_free_context finds the start of an array
\* behind the first node.
THEOREM ListKeepsPoolPromises ==
  Spec => [](Pool!Disjoint /\ Pool!FragmentsContiguous /\ Pool!FirstIsMain)
<1>1. PoolFacts!PoolSpec => []PoolFacts!Disjoint
  BY SizesAssumption, BoAssumption, ResiduesAssumption, PoolFacts!NoOverlap
<1>2. PoolFacts!PoolSpec => []PoolFacts!FragmentsContiguous
  BY SizesAssumption, BoAssumption, ResiduesAssumption, PoolFacts!Contiguous
<1>3. PoolFacts!PoolSpec => []PoolFacts!FirstIsMain
  BY SizesAssumption, BoAssumption, ResiduesAssumption, PoolFacts!DrainFreesWholeArrays
<1>4. Pool!List = PoolFacts!List /\ \A n : Pool!End(n) = PoolFacts!End(n)
  BY DEF Pool!List, PoolFacts!List, Pool!First, PoolFacts!First, Pool!End, PoolFacts!End
<1>5. PoolFacts!Disjoint => Pool!Disjoint
  BY <1>4 DEF Pool!Disjoint, PoolFacts!Disjoint
<1>6. PoolFacts!FragmentsContiguous => Pool!FragmentsContiguous
  BY <1>4 DEF Pool!FragmentsContiguous, PoolFacts!FragmentsContiguous
<1>7. PoolFacts!FirstIsMain => Pool!FirstIsMain
  BY DEF Pool!FirstIsMain, PoolFacts!FirstIsMain, Pool!IsNext, PoolFacts!IsNext,
         Pool!List, PoolFacts!List, Pool!First, PoolFacts!First
<1> QED
  BY <1>1, <1>2, <1>3, <1>5, <1>6, <1>7, ListRefinesPool, SamePool, PTL DEF ImplementsVmPool
=============================================================================
